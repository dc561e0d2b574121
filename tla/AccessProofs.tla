---------------------------- MODULE AccessProofs ----------------------------
(* Proofs about Access for every value of its constants. *)
EXTENDS Access, FiniteSetTheorems, WellFoundedInduction, SequenceTheorems, TLAPS

\* Each step keeps the types.
LEMMA TypeStep == TypeOK /\ [Next]_vars => TypeOK'
<1> SUFFICES ASSUME TypeOK, [Next]_vars PROVE TypeOK'
  OBVIOUS
<1> USE DEF TypeOK, bootVars, revealVars, limiterVars
<1>1. ASSUME NEW env \in EnvChoices, Boot(env) PROVE TypeOK'
  BY <1>1 DEF Boot
<1>2. CASE TokenLands
  BY <1>2 DEF TokenLands
<1>3. CASE MarkerLands
  BY <1>3 DEF MarkerLands
<1>4. CASE Crash
  BY <1>4 DEF Crash, NoAttempts
<1>5. ASSUME NEW s \in Slots, RevealBegins(s) PROVE TypeOK'
  BY <1>5 DEF RevealBegins
<1>6. ASSUME NEW s \in Slots, Unlinks(s) PROVE TypeOK'
  BY <1>6 DEF Unlinks
<1>7. ASSUME NEW s \in Slots, Answers(s) PROVE TypeOK'
  BY <1>7 DEF Answers
<1>8. ASSUME NEW ip \in Ips, NEW route, NEW cred, Attempt(ip, route, cred)
      PROVE  TypeOK'
  <2>1. DOMAIN hits' = Ips /\ DOMAIN past' = Ips
    BY <1>8 DEF Attempt, Fail, Reset
  <2>2. QED
    BY <1>8, <2>1 DEF Attempt
<1>9. ASSUME NEW ip \in Ips, NEW cred, ShareAttempt(ip, cred) PROVE TypeOK'
  BY <1>9 DEF ShareAttempt
<1>10. CASE Pass
  BY <1>10 DEF Pass
<1>11. CASE UNCHANGED vars
  BY <1>11 DEF vars
<1>12. QED
  BY <1>1, <1>2, <1>3, <1>4, <1>5, <1>6, <1>7, <1>8, <1>9, <1>10, <1>11 DEF Next

\* The variables of a node's token, its reveals and its limiter keep their types,
\* and a node that is still booting has no token (main.ts:170-187).
THEOREM TypeCorrect == Spec => []TypeOK
<1>1. Init => TypeOK
  BY DEF Init, TypeOK, NoAttempts
<1>2. QED
  BY <1>1, TypeStep, PTL DEF Spec

\* Why no marker comes back. Only a boot that finds no token makes one; by then
\* nothing was shown, and from then on there is a file, of which a crash leaves at
\* least a torn one. So nothing was shown while a marker is being made, and no
\* reveal is at work then, for reveals need a node that is up. A reveal that is past
\* its unlink has left no marker, or its unlink has failed.
BootInv ==
    /\ file = "absent" => shown = {} /\ ~marker
    /\ stage \in {"writing", "marking"} => shown = {} /\ file # "absent"
    /\ \A s \in Slots : reveal[s] # "idle" => stage = "up" /\ file # "absent"
    /\ \A s \in Slots : reveal[s] = "unlinked" => ~marker \/ stuck

ConsumedInv == TypeOK /\ BootInv /\ ConsumedFirst

\* Each step keeps the invariant.
LEMMA ConsumedStep == ConsumedInv /\ [Next]_vars => ConsumedInv'
<1> SUFFICES ASSUME ConsumedInv, [Next]_vars PROVE BootInv' /\ ConsumedFirst'
  BY TypeStep DEF ConsumedInv
<1>0. TypeOK /\ BootInv /\ ConsumedFirst
  BY DEF ConsumedInv
<1> USE DEF bootVars, revealVars
<1>1. ASSUME NEW env \in EnvChoices, Boot(env) PROVE BootInv' /\ ConsumedFirst'
  BY <1>0, <1>1 DEF TypeOK, BootInv, ConsumedFirst, Boot
<1>2. CASE TokenLands
  BY <1>0, <1>2 DEF BootInv, ConsumedFirst, TokenLands
<1>3. CASE MarkerLands
  BY <1>0, <1>3 DEF BootInv, ConsumedFirst, MarkerLands
<1>4. CASE Crash
  BY <1>0, <1>4 DEF BootInv, ConsumedFirst, Crash
<1>5. ASSUME NEW s \in Slots, RevealBegins(s) PROVE BootInv' /\ ConsumedFirst'
  BY <1>0, <1>5 DEF TypeOK, BootInv, ConsumedFirst, RevealBegins
<1>6. ASSUME NEW s \in Slots, Unlinks(s) PROVE BootInv' /\ ConsumedFirst'
  BY <1>0, <1>6 DEF TypeOK, BootInv, ConsumedFirst, Unlinks
<1>7. ASSUME NEW s \in Slots, Answers(s) PROVE BootInv' /\ ConsumedFirst'
  \* The one step that shows a token: its reveal is past its unlink.
  <2>1. stage = "up" /\ file # "absent" /\ (marker => stuck)
    BY <1>0, <1>7 DEF BootInv, Answers, Answerable
  <2>2. QED
    BY <1>0, <1>7, <2>1 DEF TypeOK, BootInv, ConsumedFirst, Answers
<1>8. ASSUME NEW ip \in Ips, NEW route, NEW cred, Attempt(ip, route, cred)
      PROVE  BootInv' /\ ConsumedFirst'
  BY <1>0, <1>8 DEF BootInv, ConsumedFirst, Attempt
<1>9. ASSUME NEW ip \in Ips, NEW cred, ShareAttempt(ip, cred)
      PROVE  BootInv' /\ ConsumedFirst'
  BY <1>0, <1>9 DEF BootInv, ConsumedFirst, ShareAttempt
<1>10. CASE Pass
  BY <1>0, <1>10 DEF BootInv, ConsumedFirst, Pass
<1>11. CASE UNCHANGED vars
  BY <1>0, <1>11 DEF BootInv, ConsumedFirst, vars
<1>12. QED
  BY <1>1, <1>2, <1>3, <1>4, <1>5, <1>6, <1>7, <1>8, <1>9, <1>10, <1>11 DEF Next

\* Once a token has been shown no request finds the marker again, whatever
\* crashes, boots and reveals at work at once, unless its unlink failed
\* (main.ts:614-621).
THEOREM ConsumedFirstHolds == Spec => []ConsumedFirst
<1>1. Init => ConsumedInv
  BY DEF Init, ConsumedInv, TypeOK, NoAttempts, BootInv, ConsumedFirst
<1>2. ConsumedInv => ConsumedFirst
  BY DEF ConsumedInv
<1>3. QED
  BY <1>1, <1>2, ConsumedStep, PTL DEF Spec
-----------------------------------------------------------------------------
(* The limiter.                                                            *)

\* Where the last success or restart of a history is, or 0.
IsLastClear(s, l) ==
    /\ l \in 0 .. Len(s)
    /\ l > 0 => s[l].what # "failed"
    /\ \A i \in l + 1 .. Len(s) : s[i].what = "failed"

Hits == [age : Ages]
Attempts == [age : Ages, what : Outcomes]

\* The failures in a row of a history are at most Max, wherever the row is.
Rows(p) ==
    \A i, j \in 1 .. Len(p) :
        i <= j /\ (\A k \in i .. j : p[k].what = "failed") => j - i < Max

\* The limiter's list h is what the history p holds after its last success or
\* restart l, and
\* both have the older attempts first.
Follows(h, p, l) ==
    /\ h \in Seq(Hits) /\ p \in Seq(Attempts)
    /\ IsLastClear(p, l)
    /\ Len(h) = Len(p) - l
    /\ \A i \in 1 .. Len(h) : h[i].age = p[l + i].age
    /\ \A i, j \in 1 .. Len(p) : i < j => p[j].age <= p[i].age

LimitInv ==
    \A ip \in Ips : /\ Len(hits[ip]) <= Max /\ Rows(past[ip])
                    /\ \E l \in Nat : Follows(hits[ip], past[ip], l)

\* A list whose end passes, and nothing before it, is filtered to that end.
LEMMA FilterCut ==
    ASSUME NEW A, NEW s \in Seq(A), NEW S, NEW k \in 0 .. Len(s),
           \A i \in 1 .. k : s[i] \notin S, \A i \in k + 1 .. Len(s) : s[i] \in S
    PROVE  Filter(s, S) = SubSeq(s, k + 1, Len(s))
<1> DEFINE n == Len(s)
<1>1. n \in Nat /\ k \in Nat /\ k <= n
  OBVIOUS
<1> HIDE DEF n
<1>2. Passing(s, S) = k + 1 .. n
  BY <1>1 DEF Passing, n
<1>3. Cardinality(Passing(s, S)) = n - k
  <2>1. Cardinality(k + 1 .. n) = IF k + 1 > n THEN 0 ELSE n - (k + 1) + 1
    BY <1>1, FS_Interval, k + 1 \in Int, n \in Int
  <2>2. QED
    BY <1>1, <1>2, <2>1
<1>4. ASSUME NEW i \in Passing(s, S) PROVE Place(s, S, i) = i - k
  <2>1. {j \in Passing(s, S) : j <= i} = k + 1 .. i /\ i \in Int /\ k + 1 <= i
    BY <1>1, <1>2
  <2>2. Cardinality(k + 1 .. i) = IF k + 1 > i THEN 0 ELSE i - (k + 1) + 1
    BY <1>1, <2>1, FS_Interval, k + 1 \in Int
  <2>3. Place(s, S, i) = Cardinality(k + 1 .. i)
    BY <2>1 DEF Place
  <2>4. QED
    BY <1>1, <2>1, <2>2, <2>3
<1> DEFINE at(m) == CHOOSE i \in Passing(s, S) : Place(s, S, i) = m
<1>5. ASSUME NEW m \in 1 .. n - k PROVE at(m) = k + m
  <2>1. k + m \in Passing(s, S) /\ Place(s, S, k + m) = m
    <3>1. k + m \in Passing(s, S) /\ (k + m) - k = m
      BY <1>1, <1>2
    <3>2. QED
      BY <1>4, <3>1
  <2>2. \A i \in Passing(s, S) : Place(s, S, i) = m => i = k + m
    BY <1>1, <1>2, <1>4
  <2>3. QED
    BY <2>1, <2>2
<1>6. Filter(s, S) = [m \in 1 .. n - k |-> s[k + m]]
  <2>1. Filter(s, S) = [m \in 1 .. Cardinality(Passing(s, S)) |-> s[at(m)]]
    BY DEF Filter
  <2> HIDE DEF at
  <2>2. QED
    BY <1>3, <1>5, <2>1
<1>7. SubSeq(s, k + 1, n) = [m \in 1 .. n - k |-> s[k + m]]
  <2>1. /\ SubSeq(s, k + 1, n) \in Seq(A) /\ Len(SubSeq(s, k + 1, n)) = n - k
        /\ \A m \in 1 .. n - k : SubSeq(s, k + 1, n)[m] = s[k + m]
    BY <1>1 DEF n
  <2>2. DOMAIN SubSeq(s, k + 1, n) = 1 .. n - k
    BY <2>1
  <2>3. SubSeq(s, k + 1, n) = [m \in 1 .. n - k |-> SubSeq(s, k + 1, n)[m]]
    BY <2>1, <2>2
  <2>4. QED
    BY <2>1, <2>3
<1>8. QED
  BY <1>6, <1>7 DEF n

\* A set of naturals that is not empty has a least element.
LEMMA LeastNat ==
    ASSUME NEW T \in SUBSET Nat, T # {}
    PROVE  \E x \in T : \A y \in T : x <= y
<1> DEFINE Below == {0 .. n : n \in T}
<1>1. IsWellFoundedOn(StrictSubsetOrdering(Nat), FiniteSubsetsOf(Nat))
  BY FS_StrictSubsetOrderingWellFounded
<1>2. ASSUME NEW n \in T PROVE 0 .. n \in FiniteSubsetsOf(Nat)
  <2>1. n \in Nat /\ IsFiniteSet(0 .. n) /\ 0 .. n \in SUBSET Nat
    BY FS_Interval
  <2>2. QED
    BY <2>1 DEF FiniteSubsetsOf
<1>3. Below \subseteq FiniteSubsetsOf(Nat) /\ Below # {}
  BY <1>2
<1>4. PICK I \in Below : \A J \in Below : ~(<<J, I>> \in StrictSubsetOrdering(Nat))
  <2> HIDE DEF Below
  <2> QED
    BY <1>1, <1>3, WFMin
<1>5. PICK x \in T : I = 0 .. x
  OBVIOUS
<1>6. ASSUME NEW y \in T, y < x PROVE FALSE
  <2>1. 0 .. y \in Below /\ 0 .. y \subseteq 0 .. x /\ x \in 0 .. x /\ x \notin 0 .. y
    BY <1>6
  <2>2. <<0 .. y, 0 .. x>> \in StrictSubsetOrdering(Nat)
    BY <2>1 DEF StrictSubsetOrdering
  <2>3. QED
    BY <1>4, <1>5, <2>1, <2>2
<1>7. QED
  BY <1>6

\* If nothing that passes is followed by something that does not, what passes is
\* the end of the list.
LEMMA CutExists ==
    ASSUME NEW A, NEW s \in Seq(A), NEW S,
           \A i, j \in 1 .. Len(s) : i < j /\ s[i] \in S => s[j] \in S
    PROVE  \E k \in 0 .. Len(s) : /\ \A i \in 1 .. k : s[i] \notin S
                                  /\ \A i \in k + 1 .. Len(s) : s[i] \in S
<1> DEFINE I == Passing(s, S)
<1>1. I \in SUBSET Nat /\ I \subseteq 1 .. Len(s) /\ Len(s) \in Nat
  BY DEF Passing
<1>2. CASE I = {}
  <2>1. /\ Len(s) \in 0 .. Len(s) /\ \A i \in 1 .. Len(s) : s[i] \notin S
        /\ Len(s) + 1 .. Len(s) = {}
    BY <1>1, <1>2 DEF Passing
  <2>2. QED
    BY <2>1
<1>3. CASE I # {}
  <2>1. PICK x \in I : \A y \in I : x <= y
    BY <1>1, <1>3, LeastNat
  <2>2. x \in 1 .. Len(s) /\ s[x] \in S
    BY DEF Passing
  <2>3. \A i \in 1 .. x - 1 : s[i] \notin S
    BY <1>1, <2>1, <2>2 DEF Passing
  <2>4. \A i \in (x - 1) + 1 .. Len(s) : s[i] \in S
    BY <1>1, <2>2
  <2>5. x - 1 \in 0 .. Len(s)
    BY <1>1, <2>2
  <2>6. QED
    BY <2>3, <2>4, <2>5
<1>4. QED
  BY <1>2, <1>3

\* Time passes for a list whose older records come first: what is left is an end
\* of it, each record one tick older.
LEMMA AgedParts ==
    ASSUME NEW R \in {Hits, Attempts}, NEW s \in Seq(R),
           \A i, j \in 1 .. Len(s) : i < j => s[j].age <= s[i].age
    PROVE  \E k \in 0 .. Len(s) :
              /\ Aged(s) \in Seq(R) /\ Len(Aged(s)) = Len(s) - k
              /\ \A i \in 1 .. k : s[i].age + 1 >= Window
              /\ \A i \in k + 1 .. Len(s) : s[i].age + 1 < Window
              /\ \A i \in 1 .. Len(s) - k : Aged(s)[i] = [s[k + i] EXCEPT !.age = @ + 1]
<1> DEFINE t == Older(s)
           A == [age : Nat] \cup [age : Nat, what : Outcomes]
<1>1. /\ DOMAIN s = 1 .. Len(s) /\ Len(s) \in Nat
      /\ \A i \in 1 .. Len(s) : s[i] \in R /\ s[i].age \in Ages
  <2>1. \A a \in R : a.age \in Ages
    <3>1. \A a \in Hits : a.age \in Ages
      BY DEF Hits
    <3>2. \A a \in Attempts : a.age \in Ages
      BY DEF Attempts
    <3>3. QED
      BY <3>1, <3>2
  <2>2. DOMAIN s = 1 .. Len(s) /\ Len(s) \in Nat /\ \A i \in 1 .. Len(s) : s[i] \in R
    OBVIOUS
  <2>3. QED
    BY <2>1, <2>2
<1>2. /\ Len(t) = Len(s) /\ t = [i \in 1 .. Len(s) |-> t[i]]
      /\ \A i \in 1 .. Len(s) : t[i] = [s[i] EXCEPT !.age = @ + 1]
  BY <1>1 DEF Older
<1>3. ASSUME NEW i \in 1 .. Len(s)
      PROVE  /\ [s[i] EXCEPT !.age = @ + 1] \in A
             /\ [s[i] EXCEPT !.age = @ + 1].age = s[i].age + 1
             /\ [s[i] EXCEPT !.age = @ + 1] \in Counting <=> s[i].age + 1 < Window
             /\ s[i].age + 1 < Window => [s[i] EXCEPT !.age = @ + 1] \in R
  <2>1. CASE R = Hits
    BY <1>1, <2>1, AccessAssumption DEF Hits, Ages, Counting
  <2>2. CASE R = Attempts
    BY <1>1, <2>2, AccessAssumption DEF Attempts, Ages, Counting
  <2>3. QED
    BY <2>1, <2>2
<1> HIDE DEF t, A
<1>4. t \in Seq(A)
  BY <1>1, <1>2, <1>3
<1>5. \A i \in 1 .. Len(t) : t[i] \in Counting <=> s[i].age + 1 < Window
  BY <1>2, <1>3
<1>6. \A i, j \in 1 .. Len(t) : i < j /\ t[i] \in Counting => t[j] \in Counting
  BY <1>1, <1>2, <1>5, AccessAssumption DEF Ages
<1>7. PICK k \in 0 .. Len(t) : /\ Filter(t, Counting) = SubSeq(t, k + 1, Len(t))
                               /\ \A i \in 1 .. k : t[i] \notin Counting
                               /\ \A i \in k + 1 .. Len(t) : t[i] \in Counting
  BY <1>4, <1>6, CutExists, FilterCut
<1> DEFINE u == SubSeq(t, k + 1, Len(t))
<1>8. /\ u \in Seq(A) /\ Len(u) = Len(s) - k /\ k \in 0 .. Len(s)
      /\ \A i \in 1 .. Len(s) - k : u[i] = t[k + i]
  BY <1>1, <1>2, <1>4
<1> HIDE DEF u
<1>9. \A i \in 1 .. Len(s) - k : k + i \in 1 .. Len(s) /\ k + i \in k + 1 .. Len(s)
  BY <1>1, <1>8
<1>10. \A i \in 1 .. Len(s) - k : u[i] = [s[k + i] EXCEPT !.age = @ + 1]
  BY <1>2, <1>8, <1>9
<1>11. /\ \A i \in 1 .. k : s[i].age + 1 >= Window
       /\ \A i \in k + 1 .. Len(s) : s[i].age + 1 < Window
  <2>1. ASSUME NEW i \in 1 .. k PROVE s[i].age + 1 >= Window
    <3>1. i \in 1 .. Len(s) /\ i \in 1 .. Len(t)
      BY <1>1, <1>2, <1>8
    <3>2. t[i] \notin Counting
      BY <1>7
    <3>3. s[i].age \in Int /\ Window \in Int /\ ~(s[i].age + 1 < Window)
      BY <1>1, <1>5, <3>1, <3>2, AccessAssumption DEF Ages
    <3>4. QED
      BY <3>3
  <2>2. ASSUME NEW i \in k + 1 .. Len(s) PROVE s[i].age + 1 < Window
    <3>1. i \in 1 .. Len(t) /\ i \in k + 1 .. Len(t)
      BY <1>1, <1>2, <1>8
    <3>2. t[i] \in Counting
      BY <1>7, <3>1
    <3>3. QED
      BY <1>5, <3>1, <3>2
  <2>3. QED
    BY <2>1, <2>2
<1>12. ASSUME NEW i \in 1 .. Len(u) PROVE u[i] \in R
  <2>1. /\ k + i \in 1 .. Len(s) /\ s[k + i].age + 1 < Window
        /\ u[i] = [s[k + i] EXCEPT !.age = @ + 1]
    BY <1>8, <1>9, <1>10, <1>11
  <2>2. QED
    BY <1>3, <2>1
<1>13. u \in Seq(R)
  BY <1>8, <1>12
<1>14. Aged(s) = u
  BY <1>7 DEF Aged, t, u
<1>15. QED
  BY <1>8, <1>10, <1>11, <1>13, <1>14

\* A record a tick older, field by field.
LEMMA OlderFields ==
    /\ \A a \in Hits : [a EXCEPT !.age = @ + 1].age = a.age + 1
    /\ \A a \in Attempts : /\ [a EXCEPT !.age = @ + 1].age = a.age + 1
                           /\ [a EXCEPT !.age = @ + 1].what = a.what
BY DEF Hits, Attempts

\* Time keeps the limiter in step with the history: it drops the same attempts
\* from both.
LEMMA FollowsPass ==
    ASSUME NEW h, NEW p, NEW l, Follows(h, p, l)
    PROVE  /\ \E m \in Nat : Follows(Aged(h), Aged(p), m)
           /\ Len(Aged(h)) <= Len(h)
<1>1. /\ h \in Seq(Hits) /\ p \in Seq(Attempts) /\ Len(h) \in Nat /\ Len(p) \in Nat
      /\ l \in 0 .. Len(p) /\ Len(h) = Len(p) - l
      /\ l > 0 => p[l].what # "failed"
      /\ \A i \in l + 1 .. Len(p) : p[i].what = "failed"
      /\ \A i \in 1 .. Len(h) : h[i].age = p[l + i].age
      /\ \A i, j \in 1 .. Len(p) : i < j => p[j].age <= p[i].age
      /\ \A i \in 1 .. Len(h) : h[i] \in Hits /\ l + i \in 1 .. Len(p)
      /\ \A i \in 1 .. Len(p) : p[i] \in Attempts
  BY DEF Follows, IsLastClear
<1>2. \A i, j \in 1 .. Len(h) : i < j => h[j].age <= h[i].age
  <2> SUFFICES ASSUME NEW i \in 1 .. Len(h), NEW j \in 1 .. Len(h), i < j
               PROVE  h[j].age <= h[i].age
    OBVIOUS
  <2>1. l + i \in 1 .. Len(p) /\ l + j \in 1 .. Len(p)
    BY <1>1
  <2>2. l \in Nat /\ l + i < l + j
    BY <1>1
  <2>3. p[l + j].age <= p[l + i].age
    BY <1>1, <2>1, <2>2
  <2>4. h[i].age = p[l + i].age /\ h[j].age = p[l + j].age
    BY <1>1
  <2>5. QED
    BY <2>3, <2>4
<1>3. PICK k \in 0 .. Len(p) :
         /\ Aged(p) \in Seq(Attempts) /\ Len(Aged(p)) = Len(p) - k
         /\ \A i \in 1 .. k : p[i].age + 1 >= Window
         /\ \A i \in k + 1 .. Len(p) : p[i].age + 1 < Window
         /\ \A i \in 1 .. Len(p) - k : Aged(p)[i] = [p[k + i] EXCEPT !.age = @ + 1]
  BY <1>1, AgedParts
<1>4. PICK j \in 0 .. Len(h) :
         /\ Aged(h) \in Seq(Hits) /\ Len(Aged(h)) = Len(h) - j
         /\ \A i \in 1 .. j : h[i].age + 1 >= Window
         /\ \A i \in j + 1 .. Len(h) : h[i].age + 1 < Window
         /\ \A i \in 1 .. Len(h) - j : Aged(h)[i] = [h[j + i] EXCEPT !.age = @ + 1]
  BY <1>1, <1>2, AgedParts
<1>0. /\ l \in Nat /\ k \in Nat /\ j \in Nat /\ Len(h) \in Nat /\ Len(p) \in Nat
      /\ l <= Len(p) /\ k <= Len(p) /\ j <= Len(h) /\ Len(h) = Len(p) - l
  BY <1>1, <1>3, <1>4
<1> DEFINE m == IF k >= l THEN 0 ELSE l - k
           hh == Aged(h)
           pp == Aged(p)
<1>5. k + m = l + j /\ m \in Nat /\ m <= Len(p) - k
  <2>1. /\ \A i \in 1 .. Len(p) : p[i].age \in Int
        /\ Window \in Int
    BY <1>1, AccessAssumption DEF Attempts, Ages
  <2>2. CASE k >= l
    \* The first of h that stays is the first of p that stays.
    <3>1. j <= k - l
      <4> SUFFICES ASSUME j > k - l PROVE FALSE
        BY <1>0, <2>2
      <4>1. k - l + 1 \in 1 .. j /\ k - l + 1 \in 1 .. Len(h) /\ l + (k - l + 1) = k + 1
            /\ k + 1 \in k + 1 .. Len(p) /\ k + 1 \in 1 .. Len(p)
        BY <1>0, <2>2
      <4>2. h[k - l + 1].age = p[k + 1].age
        BY <1>1, <4>1
      <4>3. h[k - l + 1].age + 1 >= Window /\ p[k + 1].age + 1 < Window
        BY <1>3, <1>4, <4>1
      <4>4. QED
        BY <2>1, <4>1, <4>2, <4>3
    <3>2. j >= k - l
      <4> SUFFICES ASSUME j < k - l PROVE FALSE
        BY <1>0, <2>2
      <4>1. /\ k - l \in j + 1 .. Len(h) /\ k - l \in 1 .. Len(h) /\ l + (k - l) = k
            /\ k \in 1 .. k /\ k \in 1 .. Len(p)
        BY <1>0, <2>2
      <4>2. h[k - l].age = p[k].age
        BY <1>1, <4>1
      <4>3. h[k - l].age + 1 < Window /\ p[k].age + 1 >= Window
        BY <1>3, <1>4, <4>1
      <4>4. QED
        BY <2>1, <4>1, <4>2, <4>3
    <3>3. QED
      BY <1>0, <2>2, <3>1, <3>2
  <2>3. CASE k < l
    <3>1. j = 0
      <4> SUFFICES ASSUME j >= 1 PROVE FALSE
        BY <1>0
      <4>1. 1 \in 1 .. j /\ 1 \in 1 .. Len(h) /\ l + 1 \in k + 1 .. Len(p) /\ l + 1 \in 1 .. Len(p)
        BY <1>0, <2>3
      <4>2. h[1].age = p[l + 1].age /\ h[1].age + 1 >= Window /\ p[l + 1].age + 1 < Window
        BY <1>1, <1>3, <1>4, <4>1
      <4>3. QED
        BY <2>1, <4>1, <4>2
    <3>2. QED
      BY <1>0, <2>3, <3>1
  <2>4. QED
    BY <1>0, <2>2, <2>3
<1>6. m > 0 => k + m = l
  BY <1>0
<1> HIDE DEF m, hh, pp
<1>7. /\ hh \in Seq(Hits) /\ pp \in Seq(Attempts)
      /\ Len(hh) = Len(h) - j /\ Len(pp) = Len(p) - k
  BY <1>3, <1>4 DEF hh, pp
<1>8. /\ Len(hh) \in Nat /\ Len(pp) \in Nat /\ m <= Len(pp)
      /\ Len(hh) = Len(pp) - m /\ Len(hh) <= Len(h)
  BY <1>0, <1>5, <1>7
<1>9. \A i \in 1 .. Len(pp) : /\ k + i \in 1 .. Len(p)
                              /\ pp[i].age = p[k + i].age + 1 /\ pp[i].what = p[k + i].what
  <2>1. \A i \in 1 .. Len(pp) : k + i \in 1 .. Len(p) /\ i \in 1 .. Len(p) - k
    BY <1>1, <1>3, <1>7
  <2>2. \A i \in 1 .. Len(pp) : pp[i] = [p[k + i] EXCEPT !.age = @ + 1]
    BY <1>3, <2>1 DEF pp
  <2>3. QED
    BY <1>1, <2>1, <2>2, OlderFields
<1>10. \A i \in 1 .. Len(hh) : /\ j + i \in 1 .. Len(h)
                               /\ hh[i].age = h[j + i].age + 1
  <2>1. \A i \in 1 .. Len(hh) : j + i \in 1 .. Len(h) /\ i \in 1 .. Len(h) - j
    BY <1>1, <1>4, <1>7
  <2>2. \A i \in 1 .. Len(hh) : hh[i] = [h[j + i] EXCEPT !.age = @ + 1]
    BY <1>4, <2>1 DEF hh
  <2>3. QED
    BY <1>1, <2>1, <2>2, OlderFields
<1>11. IsLastClear(pp, m)
  <2>1. m > 0 => pp[m].what # "failed"
    <3>1. m > 0 => m \in 1 .. Len(pp) /\ k + m = l /\ l > 0
      BY <1>0, <1>5, <1>6, <1>8
    <3>2. QED
      BY <1>1, <1>9, <3>1
  <2>2. ASSUME NEW i \in m + 1 .. Len(pp) PROVE pp[i].what = "failed"
    <3>1. i \in 1 .. Len(pp) /\ k + i \in l + 1 .. Len(p)
      BY <1>0, <1>5, <1>6, <1>7, <1>8
    <3>2. QED
      BY <1>1, <1>9, <3>1
  <2>3. QED
    BY <1>5, <1>7, <2>1, <2>2 DEF IsLastClear
<1>12. \A i \in 1 .. Len(hh) : hh[i].age = pp[m + i].age
  <2> SUFFICES ASSUME NEW i \in 1 .. Len(hh) PROVE hh[i].age = pp[m + i].age
    OBVIOUS
  <2>1. m + i \in 1 .. Len(pp) /\ k + (m + i) = l + (j + i)
    BY <1>0, <1>5, <1>8
  <2>2. hh[i].age = h[j + i].age + 1 /\ h[j + i].age = p[l + (j + i)].age
    BY <1>1, <1>10
  <2>3. pp[m + i].age = p[k + (m + i)].age + 1
    BY <1>9, <2>1
  <2>4. QED
    BY <2>1, <2>2, <2>3
<1>13. \A i, o \in 1 .. Len(pp) : i < o => pp[o].age <= pp[i].age
  <2> SUFFICES ASSUME NEW i \in 1 .. Len(pp), NEW o \in 1 .. Len(pp), i < o
               PROVE  pp[o].age <= pp[i].age
    OBVIOUS
  <2>1. /\ k + i \in 1 .. Len(p) /\ k + o \in 1 .. Len(p) /\ k + i < k + o
        /\ pp[i].age = p[k + i].age + 1 /\ pp[o].age = p[k + o].age + 1
    BY <1>3, <1>7, <1>9
  <2>2. p[k + o].age <= p[k + i].age /\ p[k + o].age \in Int /\ p[k + i].age \in Int
    BY <1>1, <2>1 DEF Attempts, Ages
  <2>3. QED
    BY <2>1, <2>2
<1>14. Follows(hh, pp, m)
  BY <1>7, <1>8, <1>11, <1>12, <1>13 DEF Follows
<1>15. QED
  BY <1>5, <1>8, <1>14 DEF hh, pp

\* An attempt whose token was tested, or a restart: a success or a restart empties
\* the limiter's list, a failure is counted in both.
LEMMA FollowsAppend ==
    ASSUME NEW h, NEW p, NEW l, Follows(h, p, l)
    PROVE  /\ \A w \in Outcomes \ {"failed"} :
                 Follows(<<>>, Append(p, [age |-> 0, what |-> w]), Len(p) + 1)
           /\ Follows(Append(h, [age |-> 0]), Append(p, [age |-> 0, what |-> "failed"]), l)
           /\ Len(Append(h, [age |-> 0])) = Len(h) + 1 /\ Len(h) \in Nat
<1>1. /\ h \in Seq(Hits) /\ p \in Seq(Attempts) /\ Len(h) \in Nat /\ Len(p) \in Nat
      /\ l \in 0 .. Len(p) /\ Len(h) = Len(p) - l
      /\ l > 0 => p[l].what # "failed"
      /\ \A i \in l + 1 .. Len(p) : p[i].what = "failed"
      /\ \A i \in 1 .. Len(h) : h[i].age = p[l + i].age
      /\ \A i, j \in 1 .. Len(p) : i < j => p[j].age <= p[i].age
      /\ \A i \in 1 .. Len(p) : p[i].age \in Nat
  <2>1. \A i \in 1 .. Len(p) : p[i].age \in Nat
    <3>1. p \in Seq(Attempts)
      BY DEF Follows
    <3>2. \A a \in Attempts : a.age \in Nat
      BY DEF Attempts, Ages
    <3>3. QED
      BY <3>1, <3>2
  <2>2. h \in Seq(Hits) /\ p \in Seq(Attempts) /\ Len(h) \in Nat /\ Len(p) \in Nat
    BY DEF Follows
  <2>3. QED
    BY <2>1, <2>2 DEF Follows, IsLastClear
<1>2. 0 \in Ages
  BY AccessAssumption DEF Ages
<1>3. ASSUME NEW o \in Outcomes, NEW q, q = Append(p, [age |-> 0, what |-> o])
      PROVE  /\ q \in Seq(Attempts) /\ Len(q) = Len(p) + 1
             /\ q[Len(p) + 1].age = 0 /\ q[Len(p) + 1].what = o
             /\ \A i \in 1 .. Len(p) : q[i] = p[i]
             /\ \A i, j \in 1 .. Len(q) : i < j => q[j].age <= q[i].age
  <2>1. [age |-> 0, what |-> o] \in Attempts
    BY <1>2 DEF Attempts
  <2> DEFINE r == [age |-> 0, what |-> o]
  <2>2. r.age = 0 /\ r.what = o
    OBVIOUS
  <2> HIDE DEF r
  <2>3. /\ q \in Seq(Attempts) /\ Len(q) = Len(p) + 1 /\ q[Len(p) + 1] = r
        /\ \A i \in 1 .. Len(p) : q[i] = p[i]
    BY <1>1, <1>3, <2>1 DEF r
  <2>4. ASSUME NEW i \in 1 .. Len(q), NEW j \in 1 .. Len(q), i < j PROVE q[j].age <= q[i].age
    <3>1. i \in 1 .. Len(p) /\ (j \in 1 .. Len(p) \/ j = Len(p) + 1)
      BY <1>1, <2>3, <2>4
    <3>2. QED
      BY <1>1, <2>2, <2>3, <2>4, <3>1
  <2>5. QED
    BY <2>2, <2>3, <2>4
<1>4. ASSUME NEW w \in Outcomes \ {"failed"}
      PROVE  Follows(<<>>, Append(p, [age |-> 0, what |-> w]), Len(p) + 1)
  <2> DEFINE q == Append(p, [age |-> 0, what |-> w])
  <2>0. q = Append(p, [age |-> 0, what |-> w]) /\ w \in Outcomes /\ w # "failed"
    OBVIOUS
  <2> HIDE DEF q
  <2>1. /\ q \in Seq(Attempts) /\ Len(q) = Len(p) + 1 /\ q[Len(p) + 1].what # "failed"
        /\ \A i, j \in 1 .. Len(q) : i < j => q[j].age <= q[i].age
    <3>1. /\ q \in Seq(Attempts) /\ Len(q) = Len(p) + 1 /\ q[Len(p) + 1].what = w
          /\ \A i, j \in 1 .. Len(q) : i < j => q[j].age <= q[i].age
      BY ONLY <1>3, <2>0
    <3>2. QED
      BY <2>0, <3>1
  <2>2. IsLastClear(q, Len(p) + 1)
    BY <1>1, <2>1 DEF IsLastClear
  <2>3. <<>> \in Seq(Hits) /\ Len(<<>>) = 0
    OBVIOUS
  <2>4. Follows(<<>>, q, Len(p) + 1)
    BY <1>1, <2>1, <2>2, <2>3 DEF Follows
  <2>5. QED
    BY <2>4 DEF q
<1>5. /\ Append(h, [age |-> 0]) \in Seq(Hits)
      /\ Len(Append(h, [age |-> 0])) = Len(h) + 1
      /\ Append(h, [age |-> 0])[Len(h) + 1].age = 0
      /\ \A i \in 1 .. Len(h) : Append(h, [age |-> 0])[i] = h[i]
  <2>1. [age |-> 0] \in Hits /\ [age |-> 0].age = 0
    BY <1>2 DEF Hits
  <2> DEFINE r == [age |-> 0]
  <2> HIDE DEF r
  <2>2. /\ Append(h, r) \in Seq(Hits) /\ Len(Append(h, r)) = Len(h) + 1
        /\ Append(h, r)[Len(h) + 1] = r /\ \A i \in 1 .. Len(h) : Append(h, r)[i] = h[i]
    <3>1. r \in Hits /\ h \in Seq(Hits)
      BY <1>1, <2>1 DEF r
    <3>2. QED
      BY <3>1
  <2>3. QED
    BY <2>1, <2>2 DEF r
<1>6. Follows(Append(h, [age |-> 0]), Append(p, [age |-> 0, what |-> "failed"]), l)
  <2> DEFINE q == Append(p, [age |-> 0, what |-> "failed"])
             g == Append(h, [age |-> 0])
  <2>1. /\ q \in Seq(Attempts) /\ Len(q) = Len(p) + 1
        /\ q[Len(p) + 1].age = 0 /\ q[Len(p) + 1].what = "failed"
        /\ \A i \in 1 .. Len(p) : q[i] = p[i]
        /\ \A i, j \in 1 .. Len(q) : i < j => q[j].age <= q[i].age
    BY <1>3 DEF Outcomes
  <2>2. /\ g \in Seq(Hits) /\ Len(g) = Len(h) + 1 /\ g[Len(h) + 1].age = 0
        /\ \A i \in 1 .. Len(h) : g[i] = h[i]
    BY <1>5
  <2> HIDE DEF q, g
  <2>3. IsLastClear(q, l)
    <3>1. \A i \in l + 1 .. Len(q) : i \in l + 1 .. Len(p) \/ i = Len(p) + 1
      BY <1>1, <2>1
    <3>2. \A i \in l + 1 .. Len(q) : q[i].what = "failed"
      BY <1>1, <2>1, <3>1
    <3>3. l > 0 => l \in 1 .. Len(p)
      BY <1>1
    <3>4. l \in 0 .. Len(q)
      BY <1>1, <2>1
    <3>5. QED
      BY <1>1, <2>1, <3>2, <3>3, <3>4 DEF IsLastClear
  <2>4. ASSUME NEW i \in 1 .. Len(g) PROVE g[i].age = q[l + i].age
    <3>0. /\ Len(h) \in Nat /\ Len(p) \in Nat /\ l \in 0 .. Len(p)
          /\ Len(h) = Len(p) - l /\ Len(g) = Len(h) + 1
      BY <1>1, <2>2
    <3>1. \/ i \in 1 .. Len(h) /\ l + i \in 1 .. Len(p)
          \/ i = Len(h) + 1 /\ l + i = Len(p) + 1
      BY <3>0
    <3>2. CASE i \in 1 .. Len(h) /\ l + i \in 1 .. Len(p)
      BY <1>1, <2>1, <2>2, <3>2
    <3>3. CASE i = Len(h) + 1 /\ l + i = Len(p) + 1
      BY <2>1, <2>2, <3>3
    <3>4. QED
      BY <3>1, <3>2, <3>3
  <2>5. Len(g) = Len(q) - l
    BY <1>1, <2>1, <2>2
  <2>6. Follows(g, q, l)
    BY <2>1, <2>2, <2>3, <2>4, <2>5 DEF Follows
  <2>7. QED
    BY <2>6 DEF g, q
<1>7. QED
  BY <1>1, <1>4, <1>5, <1>6

\* Rows grow at their end only: by a failure, where the row it ends is short enough.
LEMMA RowsAppend ==
    ASSUME NEW p \in Seq(Attempts), Rows(p), NEW r \in Attempts,
           r.what = "failed" =>
              \A i \in 1 .. Len(p) + 1 :
                  (\A k \in i .. Len(p) : p[k].what = "failed") => Len(p) + 1 - i < Max
    PROVE  Rows(Append(p, r))
<1> DEFINE q == Append(p, r)
           n == Len(p)
<1>1. /\ n \in Nat /\ Len(q) = n + 1 /\ q[n + 1] = r
      /\ \A i \in 1 .. n : q[i] = p[i]
  OBVIOUS
<1> HIDE DEF q, n
<1> SUFFICES ASSUME NEW i \in 1 .. n + 1, NEW j \in 1 .. n + 1, i <= j,
                    \A k \in i .. j : q[k].what = "failed"
             PROVE  j - i < Max
  BY <1>1 DEF Rows, q
<1>2. CASE j \in 1 .. n
  <2>1. i \in 1 .. n /\ \A k \in i .. j : k \in 1 .. n
    BY <1>1, <1>2
  <2>2. \A k \in i .. j : p[k].what = "failed"
    BY <1>1, <2>1
  <2>3. QED
    BY <1>2, <2>1, <2>2 DEF Rows, n
<1>3. CASE j = n + 1
  <2>1. r.what = "failed" /\ \A k \in i .. n : k \in i .. j /\ k \in 1 .. n
    BY <1>1, <1>3
  <2>2. \A k \in i .. n : p[k].what = "failed"
    BY <1>1, <2>1
  <2>3. n + 1 - i < Max
    BY <2>1, <2>2 DEF n
  <2>4. QED
    BY <1>1, <1>3, <2>3
<1>4. QED
  BY <1>1, <1>2, <1>3

\* What ages out of a history is a beginning of it, which makes no row longer.
LEMMA RowsPass ==
    ASSUME NEW h, NEW p, NEW l, Follows(h, p, l), Rows(p)
    PROVE  Rows(Aged(p))
<1>1. /\ p \in Seq(Attempts) /\ Len(p) \in Nat
      /\ \A i, j \in 1 .. Len(p) : i < j => p[j].age <= p[i].age
  BY DEF Follows
<1>2. PICK k \in 0 .. Len(p) :
         /\ Aged(p) \in Seq(Attempts) /\ Len(Aged(p)) = Len(p) - k
         /\ \A i \in 1 .. Len(p) - k : Aged(p)[i] = [p[k + i] EXCEPT !.age = @ + 1]
  BY <1>1, AgedParts
<1> DEFINE q == Aged(p)
           n == Len(p)
<1>3. \A i \in 1 .. n - k : k + i \in 1 .. n /\ q[i].what = p[k + i].what
  <2>1. \A i \in 1 .. n - k : k + i \in 1 .. n
    BY <1>1, <1>2
  <2>2. \A i \in 1 .. n - k : p[k + i] \in Attempts
    BY <1>1, <2>1
  <2>3. QED
    BY <1>2, <2>1, <2>2, OlderFields
<1>4. n \in Nat /\ k \in 0 .. n /\ Len(q) = n - k
  BY <1>1, <1>2
<1> HIDE DEF q, n
<1> SUFFICES ASSUME NEW i \in 1 .. n - k, NEW j \in 1 .. n - k, i <= j,
                    \A o \in i .. j : q[o].what = "failed"
             PROVE  j - i < Max
  BY <1>4 DEF Rows, q
<1>5. k + i \in 1 .. n /\ k + j \in 1 .. n /\ k + i <= k + j /\ (k + j) - (k + i) = j - i
  BY <1>3, <1>4
<1>6. ASSUME NEW o \in k + i .. k + j PROVE p[o].what = "failed"
  <2>1. o - k \in i .. j /\ o - k \in 1 .. n - k /\ k + (o - k) = o
    BY <1>4
  <2>2. q[o - k].what = "failed"
    BY <2>1
  <2>3. q[o - k].what = p[k + (o - k)].what
    BY <1>3, <2>1
  <2>4. QED
    BY <2>1, <2>2, <2>3
<1>7. (k + j) - (k + i) < Max
  BY <1>5, <1>6 DEF Rows, n
<1>8. QED
  BY <1>5, <1>7

\* The guards keep the limiter within its limit.
LEMMA LimitStep ==
    ASSUME TypeOK, LimitInv, [Next]_vars
    PROVE  LimitInv'
<1>1. DOMAIN hits = Ips /\ DOMAIN past = Ips
  BY DEF TypeOK
<1>2. CASE UNCHANGED <<hits, past>>
  BY <1>2 DEF LimitInv
<1>3. CASE Crash
  <2> SUFFICES ASSUME NEW ip \in Ips
               PROVE  /\ Len(hits'[ip]) <= Max /\ Rows(past'[ip])
                      /\ \E l \in Nat : Follows(hits'[ip], past'[ip], l)
    BY DEF LimitInv
  <2> DEFINE p == past[ip]
             r == [age |-> 0, what |-> "restart"]
  <2>1. PICK l \in Nat : Follows(hits[ip], p, l)
    BY DEF LimitInv
  <2>2. /\ hits'[ip] = <<>> /\ Len(<<>>) <= Max /\ Len(<<>>) = 0 /\ <<>> \in Seq(Hits)
        /\ past'[ip] = CutShort(p)
    BY <1>3, AccessAssumption DEF Crash, NoAttempts
  <2>3. p \in Seq(Attempts) /\ Len(p) \in Nat /\ IsLastClear(p, l) /\ Rows(p)
    BY <2>1 DEF Follows, LimitInv
  <2>4. CASE p # <<>> /\ p[Len(p)].what = "failed"
    <3>1. past'[ip] = Append(p, r)
      BY <2>2, <2>4 DEF CutShort
    <3>2. "restart" \in Outcomes \ {"failed"}
      BY DEF Outcomes
    <3>3. Follows(<<>>, Append(p, r), Len(p) + 1)
      BY <2>1, <3>2, FollowsAppend
    <3>4. r \in Attempts /\ r.what # "failed"
      BY AccessAssumption DEF Attempts, Outcomes, Ages
    <3>5. Rows(Append(p, r))
      BY <2>3, <3>4, RowsAppend
    <3>6. Len(p) + 1 \in Nat
      BY <2>3
    <3>7. QED
      BY <2>2, <3>1, <3>3, <3>5, <3>6
  <2>5. CASE ~(p # <<>> /\ p[Len(p)].what = "failed")
    <3>1. past'[ip] = p
      BY <2>2, <2>5 DEF CutShort
    <3>2. IsLastClear(p, Len(p))
      BY <2>3, <2>5 DEF IsLastClear
    <3>3. Follows(<<>>, p, Len(p))
      <4>1. \A i, j \in 1 .. Len(p) : i < j => p[j].age <= p[i].age
        BY <2>1 DEF Follows
      <4>2. QED
        BY <2>2, <2>3, <3>2, <4>1 DEF Follows
    <3>4. QED
      BY <2>2, <2>3, <3>1, <3>3
  <2>6. QED
    BY <2>4, <2>5
<1>4. CASE Pass
  <2> SUFFICES ASSUME NEW ip \in Ips
               PROVE  /\ Len(hits'[ip]) <= Max /\ Rows(past'[ip])
                      /\ \E l \in Nat : Follows(hits'[ip], past'[ip], l)
    BY DEF LimitInv
  <2>1. PICK l \in Nat : Follows(hits[ip], past[ip], l)
    BY DEF LimitInv
  <2>2. hits'[ip] = Aged(hits[ip]) /\ past'[ip] = Aged(past[ip])
    BY <1>4 DEF Pass
  <2>3. /\ \E m \in Nat : Follows(Aged(hits[ip]), Aged(past[ip]), m)
        /\ Len(Aged(hits[ip])) <= Len(hits[ip])
    BY <2>1, FollowsPass
  <2>4. Len(hits'[ip]) <= Max
    <3>1. Len(hits[ip]) \in Nat /\ Len(Aged(hits[ip])) \in Nat
      BY <2>1, <2>3 DEF Follows
    <3>2. QED
      BY <2>2, <2>3, <3>1, AccessAssumption DEF LimitInv
  <2>5. Rows(Aged(past[ip]))
    BY <2>1, RowsPass DEF LimitInv
  <2>6. QED
    BY <2>2, <2>3, <2>4, <2>5
<1>5. ASSUME NEW i \in Ips, NEW route, NEW cred, Attempt(i, route, cred)
      PROVE  LimitInv'
  <2> SUFFICES ASSUME NEW ip \in Ips
               PROVE  /\ Len(hits'[ip]) <= Max /\ Rows(past'[ip])
                      /\ \E l \in Nat : Follows(hits'[ip], past'[ip], l)
    BY DEF LimitInv
  <2> DEFINE ok == IF route = "admin" THEN AdminOk(cred) ELSE ManageOk(i, cred)
             h == hits[ip]
             p == past[ip]
  <2>1. PICK l \in Nat : Follows(h, p, l)
    BY DEF LimitInv
  <2>2. /\ p \in Seq(Attempts) /\ Len(p) \in Nat /\ Rows(p)
        /\ \A w \in Outcomes : [age |-> 0, what |-> w] \in Attempts
    BY <2>1, AccessAssumption DEF Follows, LimitInv, Attempts, Ages
  <2>3. CASE ip # i
    <3>1. hits'[ip] = h /\ past'[ip] = p
      BY <1>1, <1>5, <2>3 DEF Attempt, Fail, Reset
    <3>2. QED
      BY <2>1, <3>1 DEF LimitInv
  <2>4. CASE ip = i /\ ok
    <3> DEFINE r == [age |-> 0, what |-> "passed"]
    <3>1. hits'[ip] = <<>> /\ past'[ip] = Append(p, r)
      BY <1>1, <1>5, <2>4 DEF Attempt, Reset
    <3>2. "passed" \in Outcomes \ {"failed"} /\ "passed" \in Outcomes
      BY DEF Outcomes
    <3>3. Follows(<<>>, Append(p, r), Len(p) + 1)
      BY <2>1, <3>2, FollowsAppend
    <3>4. Rows(Append(p, r))
      <4>1. r \in Attempts /\ r.what # "failed"
        BY <2>2, <3>2
      <4>2. QED
        BY <2>2, <4>1, RowsAppend
    <3>5. Len(p) + 1 \in Nat /\ Len(<<>>) <= Max
      BY <2>2, AccessAssumption
    <3>6. QED
      BY <3>1, <3>3, <3>4, <3>5
  <2>5. CASE ip = i /\ ~ok
    <3> DEFINE r == [age |-> 0, what |-> "failed"]
    <3>1. /\ hits'[ip] = Append(h, [age |-> 0]) /\ past'[ip] = Append(p, r)
          /\ ~(Len(h) >= Max)
      <4>1. hits'[ip] = Append(h, [age |-> 0]) /\ past'[ip] = Append(p, r)
        BY <1>1, <1>5, <2>5 DEF Attempt, Fail
      <4>2. ~(Len(h) >= Max)
        BY <1>5, <2>5 DEF Attempt, Counted, Locked
      <4>3. QED
        BY <4>1, <4>2
    <3>2. /\ Follows(Append(h, [age |-> 0]), Append(p, r), l)
          /\ Len(Append(h, [age |-> 0])) = Len(h) + 1 /\ Len(h) \in Nat
      BY <2>1, FollowsAppend
    <3>3. Len(h) + 1 <= Max
      BY <3>1, <3>2, AccessAssumption
    <3>4. Rows(Append(p, r))
      <4>1. /\ l \in 0 .. Len(p) /\ Len(h) = Len(p) - l
            /\ l > 0 => p[l].what # "failed"
        BY <2>1 DEF Follows, IsLastClear
      <4>2. ASSUME NEW a \in 1 .. Len(p) + 1, \A k \in a .. Len(p) : p[k].what = "failed"
            PROVE  Len(p) + 1 - a < Max
        <5>1. l < a
          BY <2>2, <4>1, <4>2
        <5>2. QED
          BY <2>2, <3>2, <3>3, <4>1, <5>1, AccessAssumption
      <4>3. r \in Attempts
        BY <2>2 DEF Outcomes
      <4> HIDE DEF r, p
      <4>4. QED
        BY <2>2, <4>2, <4>3, RowsAppend
    <3>5. QED
      BY <3>1, <3>2, <3>3, <3>4
  <2>6. QED
    BY <2>3, <2>4, <2>5
<1>6. QED
  BY <1>2, <1>3, <1>4, <1>5 DEF Next, Boot, TokenLands, MarkerLands, RevealBegins,
                                Unlinks, Answers, ShareAttempt, vars, limiterVars

\* The limiter and the history are empty at first.
LEMMA LimitInit == Init => LimitInv
<1>1. Follows(<<>>, <<>>, 0) /\ Len(<<>>) <= Max /\ Rows(<<>>)
  BY AccessAssumption DEF Follows, IsLastClear, Rows
<1>2. QED
  BY <1>1 DEF Init, LimitInv, NoAttempts

\* Whatever the order of failures, successes, lock-outs, waits and restarts, an
\* address that asks the guarded routes fails at most Max times in a row within a
\* window (ratelimit.ts:5), in this life of the process and in the earlier ones,
\* though the limiter forgets at a success, with age and at a restart.
THEOREM GuessesBoundedHolds == Spec => []GuessesBounded
<1>1. LimitInv => GuessesBounded
  <2> SUFFICES ASSUME LimitInv, NEW ip \in Ips
               PROVE  \A i, j \in DOMAIN past[ip] :
                         i <= j /\ (\A k \in i .. j : past[ip][k].what = "failed") => j - i < Max
    BY DEF GuessesBounded
  <2>1. past[ip] \in Seq(Attempts) /\ Rows(past[ip])
    BY DEF LimitInv, Follows
  <2>2. DOMAIN past[ip] = 1 .. Len(past[ip])
    BY <2>1
  <2>3. QED
    BY <2>1, <2>2 DEF Rows
<1>2. Init => TypeOK
  BY DEF Init, TypeOK, NoAttempts
<1>3. QED
  BY <1>1, <1>2, TypeStep, LimitInit, LimitStep, PTL DEF Spec
=============================================================================
