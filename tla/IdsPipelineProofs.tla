-------------------------- MODULE IdsPipelineProofs --------------------------
(***************************************************************************)
(* Proofs about IdsPipeline for every value of its constants.              *)
(*                                                                         *)
(* Induction is stated over sets instead of predicates, so that a proof    *)
(* can cite it. It rests on the library's fact that finite sets are well   *)
(* founded under inclusion: among the intervals 0 .. n with n in a set of  *)
(* naturals there is a least one.                                          *)
(***************************************************************************)
EXTENDS IdsPipeline, FiniteSetTheorems, WellFoundedInduction, SequenceTheorems, TLAPS

\* A set of naturals that is not empty has a least element.
LEMMA LeastNat ==
    ASSUME NEW T \in SUBSET Nat, T # {}
    PROVE  \E x \in T : \A y \in T : x <= y
<1> DEFINE Below == {0 .. n : n \in T}
<1>1. IsWellFoundedOn(StrictSubsetOrdering(Nat), FiniteSubsetsOf(Nat))
  BY FS_StrictSubsetOrderingWellFounded
<1>2. ASSUME NEW n \in T PROVE 0 .. n \in FiniteSubsetsOf(Nat)
  <2>1. n \in Nat /\ IsFiniteSet(0 .. n) /\ 0 .. n \in SUBSET Nat
    BY FS_Interval
  <2>2. QED
    BY <2>1 DEF FiniteSubsetsOf
<1>3. Below \subseteq FiniteSubsetsOf(Nat) /\ Below # {}
  BY <1>2
<1>4. PICK I \in Below : \A J \in Below : ~(<<J, I>> \in StrictSubsetOrdering(Nat))
  <2> HIDE DEF Below
  <2> QED
    BY <1>1, <1>3, WFMin
<1>5. PICK x \in T : I = 0 .. x
  OBVIOUS
<1>6. ASSUME NEW y \in T, y < x PROVE FALSE
  <2>1. 0 .. y \in Below /\ 0 .. y \subseteq 0 .. x /\ x \in 0 .. x /\ x \notin 0 .. y
    BY <1>6
  <2>2. <<0 .. y, 0 .. x>> \in StrictSubsetOrdering(Nat)
    BY <2>1 DEF StrictSubsetOrdering
  <2>3. QED
    BY <1>4, <1>5, <2>1, <2>2
<1>7. QED
  BY <1>6

\* Induction over the naturals.
LEMMA NatSetInduction ==
    ASSUME NEW P, 0 \in P, \A n \in Nat : n \in P => n + 1 \in P
    PROVE  Nat \subseteq P
<1> SUFFICES ASSUME Nat \ P # {} PROVE FALSE
  OBVIOUS
<1>1. PICK x \in Nat \ P : \A y \in Nat \ P : x <= y
  BY LeastNat, Nat \ P \in SUBSET Nat
<1>2. x # 0 /\ x - 1 \in Nat /\ x - 1 < x
  OBVIOUS
<1>3. x - 1 \in P
  BY <1>1, <1>2
<1>4. QED
  BY <1>1, <1>2, <1>3

-----------------------------------------------------------------------------
(* Lists of events and blobs.                                              *)

\* The end of a list.
LEMMA LastOfParts ==
    ASSUME NEW A, NEW s \in Seq(A), NEW k \in Nat
    PROVE  /\ LastOf(s, k) \in Seq(A)
           /\ Len(LastOf(s, k)) <= Len(s)
           /\ Len(LastOf(s, k)) = IF Len(s) > k THEN k ELSE Len(s)
           /\ \A i \in 1 .. Len(LastOf(s, k)) :
                 /\ Len(s) - Len(LastOf(s, k)) + i \in 1 .. Len(s)
                 /\ LastOf(s, k)[i] = s[Len(s) - Len(LastOf(s, k)) + i]
<1>1. CASE Len(s) > k
  <2> DEFINE u == SubSeq(s, Len(s) - k + 1, Len(s))
  <2>1. /\ u \in Seq(A) /\ Len(u) = k
        /\ \A i \in 1 .. k : u[i] = s[Len(s) - k + i] /\ Len(s) - k + i \in 1 .. Len(s)
    BY <1>1
  <2>2. LastOf(s, k) = u
    BY <1>1 DEF LastOf
  <2> HIDE DEF u
  <2>3. QED
    BY <1>1, <2>1, <2>2
<1>2. CASE ~(Len(s) > k)
  <2>1. LastOf(s, k) = s /\ Len(s) \in Nat
    BY <1>2 DEF LastOf
  <2>2. \A i \in 1 .. Len(s) : Len(s) - Len(s) + i = i
    BY <2>1
  <2>3. QED
    BY <1>2, <2>1, <2>2
<1>3. QED
  BY <1>1, <1>2

\* The elements of a list that is cut.
LEMMA ElemsLastOf ==
    ASSUME NEW A, NEW s \in Seq(A), NEW k \in Nat
    PROVE  Elems(LastOf(s, k)) \subseteq Elems(s)
BY LastOfParts DEF Elems

\* The elements of a list that grows by one.
LEMMA ElemsAppend ==
    ASSUME NEW A, NEW s \in Seq(A), NEW x \in A
    PROVE  /\ Elems(Append(s, x)) = Elems(s) \cup {x}
           /\ Append(s, x) \in Seq(A) /\ Len(Append(s, x)) = Len(s) + 1 /\ Len(s) \in Nat
           /\ Append(s, x)[Len(s) + 1] = x
           /\ \A i \in 1 .. Len(s) : Append(s, x)[i] = s[i]
           /\ Elems(s) \subseteq A
<1> DEFINE t == Append(s, x)
<1>1. /\ t \in Seq(A) /\ Len(t) = Len(s) + 1 /\ Len(s) \in Nat
      /\ t[Len(s) + 1] = x /\ \A i \in 1 .. Len(s) : t[i] = s[i]
  OBVIOUS
<1> HIDE DEF t
<1>2. Elems(t) \subseteq Elems(s) \cup {x}
  <2>1. \A i \in 1 .. Len(t) : i = Len(s) + 1 \/ i \in 1 .. Len(s)
    BY <1>1
  <2>2. QED
    BY <1>1, <2>1 DEF Elems
<1>3. Elems(s) \cup {x} \subseteq Elems(t)
  <2>1. Len(s) + 1 \in 1 .. Len(t) /\ \A i \in 1 .. Len(s) : i \in 1 .. Len(t)
    BY <1>1
  <2>2. QED
    BY <1>1, <2>1 DEF Elems
<1>4. Elems(s) \subseteq A
  BY DEF Elems
<1>5. QED
  BY <1>1, <1>2, <1>3, <1>4 DEF t

-----------------------------------------------------------------------------
(* Merging what was drained.                                               *)

\* No two blobs of a list have the same node and number.
Keyed(s) == \A i, j \in 1 .. Len(s) : SameKey(s[i], s[j]) => i = j

\* What merging one blob leaves.
LEMMA MergedParts ==
    ASSUME NEW s \in Seq(Blobs), NEW b \in Blobs
    PROVE  /\ Merged(s, b) \in Seq(Blobs)
           /\ Elems(Merged(s, b)) \subseteq Elems(s) \cup {b}
           /\ Keyed(s) => Keyed(Merged(s, b))
<1>1. CASE \E c \in Elems(s) : SameKey(b, c)
  BY <1>1 DEF Merged
<1>2. CASE ~ \E c \in Elems(s) : SameKey(b, c)
  <2> DEFINE t == Append(s, b)
             u == LastOf(t, MeshCap)
  <2>1. /\ t \in Seq(Blobs) /\ Len(t) = Len(s) + 1 /\ Len(s) \in Nat
        /\ t[Len(s) + 1] = b /\ \A i \in 1 .. Len(s) : t[i] = s[i]
        /\ Elems(t) = Elems(s) \cup {b}
    BY ElemsAppend
  <2> HIDE DEF t
  <2>2. /\ u \in Seq(Blobs) /\ Elems(u) \subseteq Elems(t) /\ Len(u) <= Len(t)
        /\ \A i \in 1 .. Len(u) : /\ Len(t) - Len(u) + i \in 1 .. Len(t)
                                  /\ u[i] = t[Len(t) - Len(u) + i]
    BY <2>1, LastOfParts, ElemsLastOf, IdsAssumption
  <2> HIDE DEF u
  <2>3. ASSUME Keyed(s), NEW i \in 1 .. Len(t), NEW j \in 1 .. Len(t), SameKey(t[i], t[j])
        PROVE  i = j
    <3>1. \A k \in 1 .. Len(s) : ~SameKey(b, t[k]) /\ ~SameKey(t[k], b)
      BY <1>2, <2>1 DEF Elems, SameKey
    <3>2. (i = Len(s) + 1 \/ i \in 1 .. Len(s)) /\ (j = Len(s) + 1 \/ j \in 1 .. Len(s))
      BY <2>1
    <3>3. QED
      BY <2>1, <2>3, <3>1, <3>2 DEF Keyed
  <2>4. Keyed(s) => Keyed(u)
    <3> SUFFICES ASSUME Keyed(s), NEW i \in 1 .. Len(u), NEW j \in 1 .. Len(u),
                        SameKey(u[i], u[j])
                 PROVE  i = j
      BY DEF Keyed
    <3>1. Len(t) - Len(u) + i = Len(t) - Len(u) + j
      BY <2>2, <2>3
    <3>2. Len(t) \in Nat /\ Len(u) \in Nat
      BY <2>1, <2>2
    <3>3. QED
      BY <3>1, <3>2
  <2>5. Merged(s, b) = u
    BY <1>2 DEF Merged, u, t
  <2>6. QED
    BY <2>1, <2>2, <2>4, <2>5
<1>3. QED
  BY <1>1, <1>2

\* The bounds of a drain lie within what the hub has.
LEMMA DrainBounds ==
    ASSUME cursor \in 0 .. Len(relay), Len(relay) \in Nat, FirstNew <= Len(relay)
    PROVE  /\ FirstNew \in 1 .. Len(relay) /\ LastDrained \in FirstNew .. Len(relay)
           /\ NewCursor \in 0 .. Len(relay)
BY IdsAssumption DEF FirstNew, LastDrained, NewCursor

\* One blob after the other is merged: what merging a blob of the hub's keeps, the
\* whole merge keeps.
LEMMA MergedInTurnParts ==
    ASSUME NEW G, mesh \in G, \A s \in G, b \in Elems(relay) : Merged(s, b) \in G,
           cursor \in 0 .. Len(relay), Len(relay) \in Nat, FirstNew <= Len(relay)
    PROVE  MergedInTurn \in G
<1> DEFINE k == LastDrained - FirstNew + 1
           Step(f, i) == IF i = 0 THEN mesh ELSE Merged(f[i - 1], relay[FirstNew + i - 1])
           Is(f, n) == f = [i \in 0 .. n |-> Step(f, i)]
           g == CHOOSE f : Is(f, k)
           P == {n \in Nat : n <= k => \E f : Is(f, n) /\ f[n] \in G}
<1>1. k \in Nat /\ \A i \in 1 .. k : relay[FirstNew + i - 1] \in Elems(relay)
  BY DrainBounds DEF Elems
<1>2. 0 \in P
  <2> DEFINE h == [i \in 0 .. 0 |-> mesh]
  <2>1. \A i \in 0 .. 0 : i = 0
    OBVIOUS
  <2>2. h = [i \in 0 .. 0 |-> Step(h, i)] /\ h[0] \in G
    BY <2>1
  <2>3. QED
    BY <2>2
<1>3. ASSUME NEW n \in Nat, n \in P PROVE n + 1 \in P
  <2> SUFFICES ASSUME n + 1 <= k PROVE \E f : Is(f, n + 1) /\ f[n + 1] \in G
    OBVIOUS
  <2> HIDE DEF k
  <2>1. PICK f : Is(f, n) /\ f[n] \in G
    BY <1>1, <1>3
  <2> DEFINE x == Merged(f[n], relay[FirstNew + (n + 1) - 1])
             h == [i \in 0 .. n + 1 |-> IF i = n + 1 THEN x ELSE f[i]]
  <2>2. x \in G
    <3>1. n + 1 \in 1 .. k
      BY <1>1
    <3>2. relay[FirstNew + (n + 1) - 1] \in Elems(relay)
      BY <1>1, <3>1
    <3>3. QED
      BY <2>1, <3>2
  <2>3. \A i \in 0 .. n : h[i] = f[i] /\ f[i] = Step(f, i)
    BY <2>1
  <2>4. ASSUME NEW i \in 0 .. n + 1 PROVE h[i] = Step(h, i)
    <3>1. CASE i = n + 1
      <4>1. h[i] = x /\ h[i - 1] = f[n] /\ i # 0
        BY <3>1
      <4>2. QED
        BY <3>1, <4>1
    <3>2. CASE i \in 0 .. n
      <4>1. i # 0 => h[i - 1] = f[i - 1]
        BY <3>2
      <4>2. h[i] = Step(f, i)
        BY <2>3, <3>2
      <4> HIDE DEF h
      <4>3. QED
        BY <4>1, <4>2
    <3>3. QED
      BY <3>1, <3>2
  <2>5. h = [i \in 0 .. n + 1 |-> h[i]] /\ h[n + 1] = x
    OBVIOUS
  <2> HIDE DEF x, h, Step
  <2>6. Is(h, n + 1)
    BY <2>4, <2>5
  <2>7. QED
    BY <2>2, <2>5, <2>6
<1>4. Nat \subseteq P
  <2> HIDE DEF P
  <2> QED
    BY <1>2, <1>3, NatSetInduction
<1>5. PICK f : Is(f, k) /\ f[k] \in G
  BY <1>1, <1>4
<1>6. Is(g, k)
  BY <1>5
<1>7. g[k] = f[k]
  <2> DEFINE Q == {n \in Nat : n <= k => g[n] = f[n]}
  <2>1. \A i \in 0 .. k : f[i] = Step(f, i) /\ g[i] = Step(g, i)
    <3>1. f = [i \in 0 .. k |-> Step(f, i)] /\ g = [i \in 0 .. k |-> Step(g, i)]
      BY <1>5, <1>6
    <3> HIDE DEF g, Step
    <3>2. QED
      BY <3>1
  <2> HIDE DEF g, k
  <2>2. 0 \in Q
    BY <1>1, <2>1
  <2>3. ASSUME NEW n \in Nat, n \in Q PROVE n + 1 \in Q
    <3> SUFFICES ASSUME n + 1 <= k PROVE g[n + 1] = f[n + 1]
      OBVIOUS
    <3>1. n + 1 \in 0 .. k /\ n + 1 # 0 /\ (n + 1) - 1 = n /\ g[n] = f[n]
      BY <1>1, <2>3
    <3>2. QED
      BY <2>1, <3>1
  <2>4. Nat \subseteq Q
    <3> HIDE DEF Q
    <3> QED
      BY <2>2, <2>3, NatSetInduction
  <2>5. QED
    BY <1>1, <2>4
<1>8. MergedInTurn = g[k]
  BY DEF MergedInTurn
<1>9. QED
  BY <1>5, <1>7, <1>8
-----------------------------------------------------------------------------
(* Types.                                                                  *)

\* A batch that is not empty has an oldest event.
LEMMA OldestParts ==
    ASSUME NEW B \in SUBSET Dated, B # {}
    PROVE  Oldest(B) \in B /\ \A c \in B : Oldest(B).at <= c.at
<1> DEFINE T == {b.at : b \in B}
<1>1. \A b \in B : b.at \in 0 .. MaxClock
  BY DEF Dated
<1>2. T \in SUBSET Nat /\ T # {}
  BY <1>1, IdsAssumption
<1>3. PICK x \in T : \A y \in T : x <= y
  <2> HIDE DEF T
  <2> QED
    BY <1>2, LeastNat
<1>4. \E b \in B : \A c \in B : b.at <= c.at
  BY <1>3
<1>5. QED
  BY <1>4 DEF Oldest

\* A cycle that ships has something left to ship.
TypeInv == TypeOK /\ \A n \in Nodes : pc[n] = "ship" => batch[n] # {}

\* What a node posts next.
LEMMA BlobType ==
    ASSUME TypeInv, NEW n \in Nodes, pc[n] = "ship"
    PROVE  /\ Oldest(batch[n]) \in batch[n] /\ Oldest(batch[n]).event \in Events
           /\ Blob(n, Oldest(batch[n]).event) \in Blobs
           /\ Blob(n, Oldest(batch[n]).event).node = n
           /\ Blob(n, Oldest(batch[n]).event).seq = seq[n] + 1
           /\ Blob(n, Oldest(batch[n]).event).event = Oldest(batch[n]).event
           /\ seq[n] \in Nat
<1>1. batch[n] \in SUBSET Dated /\ batch[n] # {} /\ seq[n] \in Nat
  BY DEF TypeInv, TypeOK
<1>2. Oldest(batch[n]) \in batch[n]
  BY <1>1, OldestParts
<1>3. Oldest(batch[n]).event \in Events
  BY <1>1, <1>2 DEF Dated
<1>4. ASSUME NEW e \in Events
      PROVE  /\ Blob(n, e) \in Blobs
             /\ Blob(n, e).node = n /\ Blob(n, e).seq = seq[n] + 1 /\ Blob(n, e).event = e
  BY <1>1 DEF Blob, Blobs
<1>5. QED
  BY <1>1, <1>2, <1>3, <1>4

\* A blob more in the relay.
LEMMA RelayAppend ==
    ASSUME TypeInv, NEW b \in Blobs, relay' = Append(relay, b)
    PROVE  /\ relay' \in Seq(Blobs) /\ Len(relay') = Len(relay) + 1 /\ Len(relay) \in Nat
           /\ cursor \in 0 .. Len(relay')
           /\ Elems(relay') = Elems(relay) \cup {b}
<1>1. relay \in Seq(Blobs) /\ cursor \in 0 .. Len(relay)
  BY DEF TypeInv, TypeOK
<1>2. QED
  BY <1>1, ElemsAppend

\* Each step keeps the types.
LEMMA TypeStep == TypeInv /\ [Next]_vars => TypeInv'
<1> SUFFICES ASSUME TypeInv, [Next]_vars PROVE TypeInv'
  OBVIOUS
<1>0. /\ TypeOK /\ \A n \in Nodes : pc[n] = "ship" => batch[n] # {}
      /\ MaxClock \in Nat /\ MaxFaults \in Nat /\ Window \in Nat /\ Sensors \in Nat \ {0}
  BY IdsAssumption DEF TypeInv
<1>1. ASSUME NEW e \in Events, Happens(e) PROVE TypeInv'
  <2>1. clock' \in 0 .. MaxClock /\ at' \in [Events -> 0 .. MaxClock]
    BY <1>0, <1>1 DEF TypeOK, Happens
  <2>2. QED
    BY <1>0, <1>1, <2>1 DEF TypeInv, TypeOK, Happens, sweepVars, shipperVars, masterVars
<1>11. ASSUME NEW n \in Nodes, NEW t \in 0 .. clock, Query(n, t) PROVE TypeInv'
  <2> DEFINE all == found[n] \cup Shown(n, t)
  <2>1. all \in SUBSET Dated
    <3>1. found[n] \in SUBSET Dated /\ at \in [Events -> 0 .. MaxClock]
      BY <1>0 DEF TypeOK
    <3>2. Shown(n, t) \in SUBSET Dated
      BY <3>1 DEF Shown, Happened, Dated
    <3>3. QED
      BY <3>1, <3>2
  <2>2. /\ IF asked[n] + 1 < Sensors
           THEN /\ asked' = [asked EXCEPT ![n] = asked[n] + 1]
                /\ found' = [found EXCEPT ![n] = all]
                /\ cache' = cache
           ELSE /\ asked' = [asked EXCEPT ![n] = 0]
                /\ found' = [found EXCEPT ![n] = {}]
                /\ cache' = [cache EXCEPT ![n] = all]
        /\ faults' = faults \/ (faults < MaxFaults /\ faults' = faults + 1)
        /\ UNCHANGED <<clock, at, pc, batch, seq, order, file, misled, relay, cursor, mesh>>
    BY <1>11 DEF Query, feedVars, shipperVars, masterVars
  <2> HIDE DEF all
  <2>3. asked' \in [Nodes -> 0 .. Sensors - 1]
    <3>1. asked \in [Nodes -> 0 .. Sensors - 1]
      BY <1>0 DEF TypeOK
    <3>2. asked[n] + 1 < Sensors => asked[n] + 1 \in 0 .. Sensors - 1
      BY <1>0, <3>1
    <3>3. 0 \in 0 .. Sensors - 1
      BY <1>0
    <3>4. QED
      BY <2>2, <3>1, <3>2, <3>3
  <2>4. found' \in [Nodes -> SUBSET Dated] /\ cache' \in [Nodes -> SUBSET Dated]
    <3>1. found \in [Nodes -> SUBSET Dated] /\ cache \in [Nodes -> SUBSET Dated]
      BY <1>0 DEF TypeOK
    <3>2. QED
      BY <2>1, <2>2, <3>1
  <2>5. faults' \in 0 .. MaxFaults
    BY <1>0, <2>2 DEF TypeOK
  <2>6. QED
    BY <1>0, <2>2, <2>3, <2>4, <2>5 DEF TypeInv, TypeOK
<1>2. ASSUME NEW n \in Nodes, CycleBegins(n) PROVE TypeInv'
  <2>1. Unshipped(n) \in SUBSET Dated
    BY <1>0 DEF TypeOK, Unshipped, Feed
  <2>2. batch' \in [Nodes -> SUBSET Dated] /\ pc' \in [Nodes -> {"sleep", "ship", "save"}]
    BY <1>0, <1>2, <2>1 DEF TypeOK, CycleBegins
  <2>3. \A k \in Nodes : pc'[k] = "ship" => batch'[k] # {}
    BY <1>0, <1>2 DEF TypeOK, CycleBegins
  <2>4. misled' \subseteq Nodes
    <3>1. misled \subseteq Nodes
      BY <1>0 DEF TypeOK
    <3>2. misled' \subseteq misled \cup {n}
      BY <1>2 DEF CycleBegins
    <3>3. QED
      BY <3>1, <3>2
  <2>5. UNCHANGED <<clock, at, asked, found, cache, seq, order, file, relay, cursor, mesh, faults>>
    BY <1>2 DEF CycleBegins, feedVars, sweepVars, masterVars
  <2>6. QED
    BY <1>0, <2>2, <2>3, <2>4, <2>5 DEF TypeInv, TypeOK
<1>3. ASSUME NEW n \in Nodes, PostSucceeds(n) PROVE TypeInv'
  <2> DEFINE b == Oldest(batch[n])
             rest == batch[n] \ {b}
  <2>1. /\ pc[n] = "ship" /\ b.event \in Events /\ Blob(n, b.event) \in Blobs
        /\ relay' = Append(relay, Blob(n, b.event))
    BY <1>3, BlobType DEF PostSucceeds
  <2>2. relay' \in Seq(Blobs) /\ cursor \in 0 .. Len(relay')
    BY <2>1, RelayAppend
  <2>3. order' \in [Nodes -> Seq(Events)] /\ seq' \in [Nodes -> Nat]
    <3>1. order[n] \in Seq(Events) /\ seq[n] \in Nat
      BY <1>0 DEF TypeOK
    <3>2. Append(order[n], b.event) \in Seq(Events) /\ seq[n] + 1 \in Nat
      BY <2>1, <3>1
    <3>3. order' = [order EXCEPT ![n] = Append(order[n], b.event)]
          /\ seq' = [seq EXCEPT ![n] = seq[n] + 1]
      BY <1>3 DEF PostSucceeds
    <3> HIDE DEF b
    <3>4. QED
      BY <1>0, <3>2, <3>3 DEF TypeOK
  <2>4. /\ batch' = [batch EXCEPT ![n] = rest]
        /\ pc' = [pc EXCEPT ![n] = IF rest = {} THEN "save" ELSE "ship"]
        /\ UNCHANGED <<clock, at, asked, found, cache, file, misled, cursor, mesh, faults>>
    BY <1>3 DEF PostSucceeds, feedVars, sweepVars, masterVars
  <2>5. rest \subseteq batch[n]
    OBVIOUS
  <2> HIDE DEF b, rest
  <2>6. /\ batch' \in [Nodes -> SUBSET Dated] /\ pc' \in [Nodes -> {"sleep", "ship", "save"}]
        /\ \A k \in Nodes : pc'[k] = "ship" => batch'[k] # {}
    BY <1>0, <2>4, <2>5 DEF TypeOK
  <2>7. QED
    BY <1>0, <2>2, <2>3, <2>4, <2>6 DEF TypeInv, TypeOK
<1>4. ASSUME NEW n \in Nodes, PostFails(n) \/ PostRefused(n) PROVE TypeInv'
  <2> DEFINE b == Oldest(batch[n])
  <2>1. /\ pc[n] = "ship" /\ Blob(n, b.event) \in Blobs
        /\ relay' = relay \/ relay' = Append(relay, Blob(n, b.event))
        /\ faults' = faults \/ (faults < MaxFaults /\ faults' = faults + 1)
    BY <1>4, BlobType DEF PostFails, PostRefused, CycleBreaks
  <2>2. relay' \in Seq(Blobs) /\ cursor \in 0 .. Len(relay')
    <3>1. relay \in Seq(Blobs) /\ cursor \in 0 .. Len(relay)
      BY <1>0 DEF TypeOK
    <3>2. QED
      BY <2>1, <3>1, RelayAppend
  <2>3. seq' = [seq EXCEPT ![n] = seq[n]] /\ faults' \in 0 .. MaxFaults
    BY <1>0, <1>4, <2>1 DEF TypeOK, PostFails, PostRefused, CycleBreaks, SeqAfterFailure
  <2>4. /\ batch' = [batch EXCEPT ![n] = {}] /\ pc' = [pc EXCEPT ![n] = "save"]
        /\ UNCHANGED <<clock, at, asked, found, cache, order, file, misled, cursor, mesh>>
    BY <1>4 DEF PostFails, PostRefused, CycleBreaks, feedVars, sweepVars, masterVars
  <2>5. /\ batch' \in [Nodes -> SUBSET Dated] /\ pc' \in [Nodes -> {"sleep", "ship", "save"}]
        /\ seq' \in [Nodes -> Nat]
        /\ \A k \in Nodes : pc'[k] = "ship" => batch'[k] # {}
    BY <1>0, <2>3, <2>4 DEF TypeOK
  <2>6. QED
    BY <1>0, <2>2, <2>3, <2>4, <2>5 DEF TypeInv, TypeOK
<1>5. ASSUME NEW n \in Nodes, Save(n) PROVE TypeInv'
  <2> DEFINE o == LastOf(order[n], 2 * Window)
  <2>1. o \in Seq(Events) /\ seq[n] \in Nat
    <3>1. order[n] \in Seq(Events) /\ 2 * Window \in Nat /\ seq[n] \in Nat
      BY <1>0 DEF TypeOK
    <3>2. QED
      BY <3>1, LastOfParts
  <2>2. /\ order' = [order EXCEPT ![n] = o]
        /\ file' = [file EXCEPT ![n] = [seq |-> seq[n], order |-> o]]
        /\ pc' = [pc EXCEPT ![n] = "sleep"]
        /\ UNCHANGED <<clock, at, asked, found, cache, batch, seq, misled, relay, cursor, mesh,
                       faults>>
    BY <1>5 DEF Save, feedVars, sweepVars, masterVars
  <2> HIDE DEF o
  <2>3. /\ order' \in [Nodes -> Seq(Events)]
        /\ file' \in [Nodes -> [seq : Nat, order : Seq(Events)]]
        /\ pc' \in [Nodes -> {"sleep", "ship", "save"}]
        /\ \A k \in Nodes : pc'[k] = "ship" => pc[k] = "ship"
    BY <1>0, <2>1, <2>2 DEF TypeOK
  <2>4. QED
    BY <1>0, <2>2, <2>3 DEF TypeInv, TypeOK
<1>6. ASSUME NEW n \in Nodes, ShipperRestarts(n) PROVE TypeInv'
  <2>1. file[n].seq \in Nat /\ file[n].order \in Seq(Events)
    BY <1>0 DEF TypeOK
  <2>2. /\ seq' = [seq EXCEPT ![n] = file[n].seq] /\ order' = [order EXCEPT ![n] = file[n].order]
        /\ pc' = [pc EXCEPT ![n] = "sleep"] /\ batch' = [batch EXCEPT ![n] = {}]
        /\ asked' = [asked EXCEPT ![n] = 0] /\ found' = [found EXCEPT ![n] = {}]
        /\ cache' = [cache EXCEPT ![n] = {}]
        /\ faults' = faults + 1 /\ faults < MaxFaults
        /\ UNCHANGED <<clock, at, file, misled, relay, cursor, mesh>>
    BY <1>6 DEF ShipperRestarts, feedVars, masterVars
  <2>3. /\ seq' \in [Nodes -> Nat] /\ order' \in [Nodes -> Seq(Events)]
        /\ pc' \in [Nodes -> {"sleep", "ship", "save"}] /\ faults' \in 0 .. MaxFaults
        /\ batch' \in [Nodes -> SUBSET Dated]
        /\ \A k \in Nodes : pc'[k] = "ship" => batch'[k] # {}
    BY <1>0, <2>1, <2>2 DEF TypeOK
  <2>4. /\ asked' \in [Nodes -> 0 .. Sensors - 1]
        /\ found' \in [Nodes -> SUBSET Dated] /\ cache' \in [Nodes -> SUBSET Dated]
    <3>1. 0 \in 0 .. Sensors - 1
      BY <1>0
    <3>2. QED
      BY <1>0, <2>2, <3>1 DEF TypeOK
  <2>5. QED
    BY <1>0, <2>2, <2>3, <2>4 DEF TypeInv, TypeOK
<1>7. CASE Poll
  <2>1. /\ relay \in Seq(Blobs) /\ Len(relay) \in Nat /\ cursor \in 0 .. Len(relay)
        /\ mesh \in Seq(Blobs)
    BY <1>0 DEF TypeOK
  <2>2. \A r \in Seq(Blobs), b \in Elems(relay) : Merged(r, b) \in Seq(Blobs)
    <3>1. Elems(relay) \subseteq Blobs
      BY <2>1 DEF Elems
    <3>2. QED
      BY <3>1, MergedParts
  <2>3. MergedInTurn \in Seq(Blobs) /\ NewCursor \in 0 .. Len(relay)
    BY <1>7, <2>1, <2>2, MergedInTurnParts, DrainBounds DEF Poll
  <2>4. QED
    BY <1>0, <1>7, <2>3 DEF TypeInv, TypeOK, Poll, feedVars, sweepVars, shipperVars
<1>8. CASE MasterRestarts
  <2>1. cursor' \in 0 .. Len(relay) /\ mesh' \in Seq(Blobs) /\ faults' \in 0 .. MaxFaults
    <3>1. Len(relay) \in Nat
      BY <1>0 DEF TypeOK
    <3>2. QED
      BY <1>0, <1>8, <3>1 DEF TypeOK, MasterRestarts
  <2>2. QED
    BY <1>0, <1>8, <2>1 DEF TypeInv, TypeOK, MasterRestarts, feedVars, sweepVars, shipperVars
<1>9. CASE UNCHANGED vars
  BY <1>0, <1>9 DEF TypeInv, TypeOK, vars, feedVars, sweepVars, shipperVars, masterVars
<1>10. QED
  BY <1>1, <1>2, <1>3, <1>4, <1>5, <1>6, <1>7, <1>8, <1>9, <1>11 DEF Next, Cycle

\* Nothing has happened at first.
LEMMA TypeInit == Init => TypeInv
<1>1. <<>> \in Seq(Events) /\ <<>> \in Seq(Blobs) /\ Len(<<>>) = 0
  OBVIOUS
<1>2. Blank \in [seq : Nat, order : Seq(Events)]
  BY <1>1 DEF Blank
<1>3. QED
  BY <1>1, <1>2, IdsAssumption DEF Init, TypeInv, TypeOK

\* The feed, the shippers, the relay and the master's events keep their types: numbers
\* start at one and the master's cursor is never past what the hub has deposited
\* (ids_shipper.py:71, relay.py:114).
THEOREM TypeCorrect == Spec => []TypeOK
<1>1. TypeInv => TypeOK
  BY DEF TypeInv
<1>2. QED
  BY <1>1, TypeInit, TypeStep, PTL DEF Spec
-----------------------------------------------------------------------------
(* No gaps.                                                                *)

\* A relay r has got a node's blob of this number.
Deposited(r, n, k) == \E c \in Elems(r) : c.node = n /\ c.seq = k

\* Why there is no gap: whatever number a shipper is at, in memory or after it has
\* read its file, the hub has got all numbers up to it, so the next one continues
\* what is there. The file is never ahead of the memory.
GapInv ==
    /\ \A n \in Nodes : file[n].seq <= seq[n]
    /\ \A n \in Nodes : \A k \in 1 .. seq[n] : Deposited(relay, n, k)
    /\ \A b \in Elems(relay) : \A k \in 1 .. b.seq - 1 : Deposited(relay, b.node, k)

\* A deposit under the next number leaves no gap.
LEMMA GapPost ==
    ASSUME TypeInv, GapInv, NEW n \in Nodes, pc[n] = "ship",
           relay' = Append(relay, Blob(n, Oldest(batch[n]).event))
    PROVE  /\ \A m \in Nodes : \A k \in 1 .. seq[m] : Deposited(relay', m, k)
           /\ Deposited(relay', n, seq[n] + 1)
           /\ \A b \in Elems(relay') : \A k \in 1 .. b.seq - 1 : Deposited(relay', b.node, k)
<1> DEFINE d == Blob(n, Oldest(batch[n]).event)
<1>1. d \in Blobs /\ d.node = n /\ d.seq = seq[n] + 1 /\ seq[n] \in Nat
  BY BlobType
<1>2. Elems(relay') = Elems(relay) \cup {d}
  BY <1>1, RelayAppend
<1> HIDE DEF d
<1>3. \A m \in Nodes, k \in Nat : Deposited(relay, m, k) => Deposited(relay', m, k)
  BY <1>2 DEF Deposited
<1>4. Deposited(relay', n, seq[n] + 1)
  BY <1>1, <1>2 DEF Deposited
<1>5. relay \in Seq(Blobs) /\ seq \in [Nodes -> Nat]
  BY DEF TypeInv, TypeOK
<1>6. ASSUME NEW m \in Nodes, NEW k \in 1 .. seq[m] PROVE Deposited(relay', m, k)
  BY <1>3, <1>5, <1>6 DEF GapInv
<1>7. ASSUME NEW b \in Elems(relay'), NEW k \in 1 .. b.seq - 1 PROVE Deposited(relay', b.node, k)
  <2>1. CASE b = d
    BY <1>1, <1>6, <2>1
  <2>2. CASE b \in Elems(relay)
    <3>1. b \in Blobs
      BY <1>5, <2>2 DEF Elems
    <3>2. b.node \in Nodes /\ b.seq \in Nat /\ k \in Nat
      BY <3>1 DEF Blobs
    <3>3. Deposited(relay, b.node, k)
      BY <2>2 DEF GapInv
    <3>4. QED
      BY <1>3, <3>2, <3>3
  <2>3. QED
    BY <1>2, <2>1, <2>2
<1>8. QED
  BY <1>4, <1>6, <1>7

\* Each step keeps this.
LEMMA GapStep == TypeInv /\ GapInv /\ [Next]_vars => GapInv'
<1> SUFFICES ASSUME TypeInv, GapInv, [Next]_vars PROVE GapInv'
  OBVIOUS
<1>0. seq \in [Nodes -> Nat] /\ file \in [Nodes -> [seq : Nat, order : Seq(Events)]]
  BY DEF TypeInv, TypeOK
<1>1. CASE UNCHANGED <<relay, seq, file>>
  BY <1>1 DEF GapInv, Deposited
<1>2. ASSUME NEW n \in Nodes, PostSucceeds(n) PROVE GapInv'
  <2>1. /\ pc[n] = "ship" /\ relay' = Append(relay, Blob(n, Oldest(batch[n]).event))
        /\ seq' = [seq EXCEPT ![n] = seq[n] + 1] /\ file' = file
    BY <1>2 DEF PostSucceeds
  <2>2. /\ \A m \in Nodes : \A k \in 1 .. seq[m] : Deposited(relay', m, k)
        /\ Deposited(relay', n, seq[n] + 1)
        /\ \A b \in Elems(relay') : \A k \in 1 .. b.seq - 1 : Deposited(relay', b.node, k)
    BY <2>1, GapPost
  <2>3. ASSUME NEW m \in Nodes PROVE file'[m].seq <= seq'[m]
    BY <1>0, <2>1 DEF GapInv
  <2>4. ASSUME NEW m \in Nodes, NEW k \in 1 .. seq'[m] PROVE Deposited(relay', m, k)
    <3>1. k \in 1 .. seq[m] \/ (m = n /\ k = seq[n] + 1)
      BY <1>0, <2>1
    <3>2. QED
      BY <2>2, <3>1
  <2>5. QED
    BY <2>2, <2>3, <2>4 DEF GapInv
<1>3. ASSUME NEW n \in Nodes, PostFails(n) \/ PostRefused(n) PROVE GapInv'
  <2>1. seq' = seq /\ file' = file /\ pc[n] = "ship"
    BY <1>0, <1>3 DEF PostFails, PostRefused, CycleBreaks, SeqAfterFailure
  <2>2. CASE relay' = relay
    BY <1>1, <2>1, <2>2
  <2>3. CASE relay' = Append(relay, Blob(n, Oldest(batch[n]).event))
    BY <2>1, <2>3, GapPost DEF GapInv
  <2>4. QED
    BY <1>3, <2>2, <2>3 DEF PostFails, PostRefused
<1>4. ASSUME NEW n \in Nodes, Save(n) PROVE GapInv'
  <2>1. seq' = seq /\ relay' = relay
    BY <1>4 DEF Save
  <2>2. ASSUME NEW m \in Nodes PROVE file'[m].seq <= seq[m]
    <3>1. m # n => file'[m] = file[m]
      BY <1>0, <1>4 DEF Save
    <3>2. file'[n].seq = seq[n] /\ seq[n] \in Nat
      BY <1>0, <1>4 DEF Save
    <3>3. QED
      BY <3>1, <3>2 DEF GapInv
  <2>3. QED
    BY <2>1, <2>2 DEF GapInv, Deposited
<1>5. ASSUME NEW n \in Nodes, ShipperRestarts(n) PROVE GapInv'
  <2>1. /\ relay' = relay /\ file' = file
        /\ seq' = [seq EXCEPT ![n] = file[n].seq]
    BY <1>5 DEF ShipperRestarts
  <2>2. \A m \in Nodes : /\ seq'[m] \in Nat /\ file[m].seq <= seq'[m] /\ seq'[m] <= seq[m]
    BY <1>0, <2>1 DEF GapInv
  <2>3. \A m \in Nodes : \A k \in 1 .. seq'[m] : k \in 1 .. seq[m]
    BY <1>0, <2>2
  <2>4. QED
    BY <2>1, <2>2, <2>3 DEF GapInv, Deposited
<1>6. QED
  BY <1>1, <1>2, <1>3, <1>4, <1>5 DEF Next, Cycle, Happens, Query, CycleBegins, Poll,
                                      MasterRestarts, vars, shipperVars

\* There is no gap at first.
LEMMA GapInit == Init => GapInv
<1>1. Init => Elems(relay) = {}
  BY DEF Init, Elems
<1>2. QED
  BY <1>1 DEF Init, GapInv, Blank

\* The numbers of a node leave no gap, whatever is lost on the way, whenever a
\* shipper dies and however its events are dated: a number "is consumed only on a
\* successful POST" (ids_shipper.py:9), so that the master can tell a gap.
THEOREM NoGapHolds == Spec => []NoGap
<1>1. GapInv => NoGap
  BY DEF GapInv, NoGap, Deposited
<1>2. QED
  BY <1>1, GapInit, TypeInit, TypeStep, GapStep, PTL DEF Spec
-----------------------------------------------------------------------------
(* The rank of an event among those of its node, by a function a of dates. *)

\* The events of a node that have happened, how many there are, and those that an
\* event does not precede.
Of(a, n) == {e \in Events : Origin[e] = n /\ a[e] > 0}
Size(a, n) == Cardinality(Of(a, n))
Upto(a, e) == {f \in Of(a, Origin[e]) : a[f] <= a[e]}
Rank(a, e) == Cardinality(Upto(a, e))

\* No two events have the same date.
Dates(a) ==
    /\ a \in [Events -> Nat]
    /\ \A e, f \in Events : a[e] = a[f] /\ a[e] > 0 => e = f

\* The later of two events has the higher rank.
LEMMA RankOrder ==
    ASSUME NEW a, Dates(a), NEW n, NEW e \in Of(a, n), NEW f \in Of(a, n), a[e] < a[f]
    PROVE  Rank(a, e) < Rank(a, f)
<1>1. Upto(a, e) \subseteq Upto(a, f) /\ f \in Upto(a, f) /\ f \notin Upto(a, e)
  BY DEF Dates, Upto, Of
<1>2. IsFiniteSet(Upto(a, f)) /\ IsFiniteSet(Upto(a, e))
  <2>1. Upto(a, f) \in SUBSET Events /\ Upto(a, e) \in SUBSET Events
    BY DEF Upto, Of
  <2>2. QED
    BY <2>1, FS_Subset, IdsAssumption
<1>3. /\ Cardinality(Upto(a, e)) <= Cardinality(Upto(a, f))
      /\ Cardinality(Upto(a, f)) # Cardinality(Upto(a, e))
  <2>1. Upto(a, e) \in SUBSET Upto(a, f) /\ Upto(a, f) # Upto(a, e)
    BY <1>1
  <2>2. QED
    BY <1>2, <2>1, FS_Subset
<1>4. Cardinality(Upto(a, e)) \in Nat /\ Cardinality(Upto(a, f)) \in Nat
  BY <1>2, FS_CardinalityType
<1>5. QED
  BY <1>3, <1>4 DEF Rank

\* The ranks of a node's events are the numbers from one to how many there are, and
\* what is newer than an event makes up the rest.
LEMMA RankParts ==
    ASSUME NEW a, Dates(a), NEW n
    PROVE  /\ Size(a, n) \in Nat
           /\ \A e \in Of(a, n) :
                 /\ Rank(a, e) \in 1 .. Size(a, n)
                 /\ Cardinality({f \in Of(a, n) : a[f] > a[e]}) = Size(a, n) - Rank(a, e)
           /\ \A e, f \in Of(a, n) : Rank(a, e) = Rank(a, f) => e = f
           /\ \A e, f \in Of(a, n) : Rank(a, e) <= Rank(a, f) => a[e] <= a[f]
           /\ \A k \in 1 .. Size(a, n) : \E e \in Of(a, n) : Rank(a, e) = k
<1> DEFINE H == Of(a, n)
<1>1. IsFiniteSet(H) /\ Size(a, n) \in Nat
  <2>1. H \in SUBSET Events
    BY DEF Of
  <2>2. IsFiniteSet(H)
    BY <2>1, FS_Subset, IdsAssumption
  <2>3. QED
    BY <2>2, FS_CardinalityType DEF Size
<1>2. ASSUME NEW e \in H
      PROVE  /\ Rank(a, e) \in 1 .. Size(a, n)
             /\ Cardinality({f \in H : a[f] > a[e]}) = Size(a, n) - Rank(a, e)
  <2> DEFINE U == Upto(a, e)
  <2>1. U \in SUBSET H /\ e \in U /\ {f \in H : a[f] > a[e]} = H \ U /\ H \cap U = U
    BY DEF Dates, Upto, Of
  <2>2. IsFiniteSet(U) /\ Cardinality(U) <= Cardinality(H)
    BY <1>1, <2>1, FS_Subset
  <2>3. Cardinality(U) \in Nat /\ Cardinality(U) # 0
    BY <2>1, <2>2, FS_CardinalityType, FS_EmptySet
  <2>4. Cardinality(H \ U) = Cardinality(H) - Cardinality(U)
    <3>1. Cardinality(H \ U) = Cardinality(H) - Cardinality(H \cap U)
      BY <1>1, FS_Difference
    <3>2. QED
      BY <2>1, <3>1
  <2>5. Rank(a, e) = Cardinality(U) /\ Size(a, n) = Cardinality(H)
    BY DEF Rank, Size
  <2> HIDE DEF U, H
  <2>6. QED
    BY <1>1, <2>1, <2>2, <2>3, <2>4, <2>5
<1>3. \A e, f \in H : a[e] < a[f] => Rank(a, e) < Rank(a, f)
  BY RankOrder
<1>4. \A e \in H : a[e] \in Nat /\ Rank(a, e) \in Nat
  <2>1. \A e \in H : a[e] \in Nat
    BY DEF Dates, Of
  <2>2. ASSUME NEW e \in H PROVE Rank(a, e) \in Nat
    <3>1. Rank(a, e) \in 1 .. Size(a, n) /\ Size(a, n) \in Nat
      BY <1>1, <1>2
    <3>2. QED
      BY <3>1
  <2>3. QED
    BY <2>1, <2>2
<1>5. \A e, f \in H : a[e] < a[f] \/ a[f] < a[e] \/ e = f
  <2>1. \A e, f \in H : a[e] = a[f] => e = f
    BY DEF Dates, Of
  <2> HIDE DEF H
  <2>2. QED
    BY <1>4, <2>1
<1>6. \A e, f \in H : Rank(a, e) = Rank(a, f) => e = f
  <2> HIDE DEF H
  <2> QED
    BY <1>3, <1>4, <1>5
<1>7. \A e, f \in H : Rank(a, e) <= Rank(a, f) => a[e] <= a[f]
  <2> HIDE DEF H
  <2> QED
    BY <1>3, <1>4
<1>8. ASSUME NEW k \in 1 .. Size(a, n) PROVE \E e \in H : Rank(a, e) = k
  <2> DEFINE g == [e \in H |-> Rank(a, e)]
             N == 1 .. Size(a, n)
  <2>1. g \in Injection(H, N)
    <3>1. g \in [H -> N]
      BY <1>2
    <3>2. \A e, f \in H : g[e] = g[f] => e = f
      BY <1>6
    <3> HIDE DEF g
    <3>3. QED
      BY <3>1, <3>2 DEF Injection, IsInjective
  <2>2. IsFiniteSet(N) /\ Cardinality(N) = Cardinality(H)
    <3>1. 1 \in Int /\ Size(a, n) \in Int
      BY <1>1
    <3>2. IsFiniteSet(N) /\ Cardinality(N) = IF 1 > Size(a, n) THEN 0 ELSE Size(a, n) - 1 + 1
      BY <3>1, FS_Interval
    <3>3. Cardinality(N) = Size(a, n)
      BY <1>1, <3>2
    <3>4. QED
      BY <3>2, <3>3 DEF Size
  <2>3. g \in Surjection(H, N)
    <3> HIDE DEF g, N
    <3> QED
      BY <2>1, <2>2, FS_Injection
  <2>4. PICK e \in H : g[e] = k
    BY <2>3 DEF Surjection
  <2>5. QED
    BY <2>4
<1>9. QED
  BY <1>1, <1>2, <1>6, <1>7, <1>8

\* An event that happens after all others leaves their ranks alone.
LEMMA RankGrows ==
    ASSUME NEW a, Dates(a), NEW o \in Events, a[o] = 0,
           NEW x \in Nat, \A e \in Events : a[e] < x,
           NEW z, z = [a EXCEPT ![o] = x]
    PROVE  /\ Dates(z)
           /\ \A n : /\ Size(a, n) <= Size(z, n)
                     /\ \A e \in Of(a, n) :
                           e \in Of(z, n) /\ Rank(z, e) = Rank(a, e) /\ z[e] = a[e]
                     /\ \A e \in Of(z, n) : e \in Of(a, n) \/ Rank(z, e) > Size(a, n)
<1>1. /\ a \in [Events -> Nat] /\ z \in [Events -> Nat] /\ z[o] = x
      /\ \A e \in Events : e # o => z[e] = a[e]
      /\ \A e \in Events : a[e] \in Nat /\ a[e] < x
  BY DEF Dates
<1>2. Dates(z)
  BY <1>1 DEF Dates
<1>3. ASSUME NEW n, NEW e \in Of(a, n)
      PROVE  e \in Of(z, n) /\ Rank(z, e) = Rank(a, e) /\ z[e] = a[e]
  <2>1. e \in Events /\ e # o /\ Origin[e] = n /\ a[e] > 0 /\ z[e] = a[e]
    BY <1>1 DEF Of
  <2>2. Upto(z, e) = Upto(a, e)
    <3>1. \A f \in Events : z[f] > 0 /\ z[f] <= z[e] <=> a[f] > 0 /\ a[f] <= a[e]
      BY <1>1, <2>1
    <3>2. QED
      BY <3>1 DEF Upto, Of
  <2>3. QED
    BY <2>1, <2>2 DEF Of, Rank
<1>4. ASSUME NEW n PROVE Size(a, n) <= Size(z, n)
  <2>1. Of(a, n) \in SUBSET Of(z, n) /\ Of(z, n) \in SUBSET Events
    BY <1>3 DEF Of
  <2>2. IsFiniteSet(Of(z, n))
    BY <2>1, FS_Subset, IdsAssumption
  <2>3. QED
    BY <2>1, <2>2, FS_Subset DEF Size
<1>5. ASSUME NEW n, NEW e \in Of(z, n), e \notin Of(a, n) PROVE Rank(z, e) > Size(a, n)
  <2>1. e = o /\ Origin[o] = n /\ z[o] > 0
    BY <1>1, <1>5 DEF Of
  <2>2. Upto(z, o) = Of(a, n) \cup {o} /\ o \notin Of(a, n)
    <3>1. \A f \in Events : z[f] <= z[o]
      BY <1>1
    <3>2. \A f \in Events : f \in Of(z, n) <=> f \in Of(a, n) \/ f = o
      BY <1>1, <2>1 DEF Of
    <3>3. QED
      BY <1>5, <2>1, <3>1, <3>2 DEF Upto, Of
  <2>3. IsFiniteSet(Of(a, n))
    <3>1. Of(a, n) \in SUBSET Events
      BY DEF Of
    <3>2. QED
      BY <3>1, FS_Subset, IdsAssumption
  <2>4. Cardinality(Of(a, n) \cup {o}) = Cardinality(Of(a, n)) + 1 /\ Cardinality(Of(a, n)) \in Nat
    BY <2>2, <2>3, FS_AddElement, FS_CardinalityType
  <2>5. Rank(z, e) = Size(a, n) + 1 /\ Size(a, n) \in Nat
    BY <2>1, <2>2, <2>4 DEF Rank, Size
  <2>6. QED
    BY <2>5
<1>6. QED
  BY <1>2, <1>3, <1>4, <1>5

\* An event as a query shows it.
Row(a, e) == [event |-> e, at |-> a[e]]

Rows(a, n) == {Row(a, e) : e \in Of(a, n)}

\* A set of rows is finite.
LEMMA RowsFinite ==
    ASSUME NEW a, NEW n, NEW C, C \subseteq Rows(a, n)
    PROVE  IsFiniteSet(C)
<1> DEFINE g == [f \in Of(a, n) |-> Row(a, f)]
           R == Rows(a, n)
<1>1. IsFiniteSet(Of(a, n))
  <2>1. Of(a, n) \in SUBSET Events
    BY DEF Of
  <2>2. QED
    BY <2>1, FS_Subset, IdsAssumption
<1>2. g \in Surjection(Of(a, n), R)
  BY DEF Surjection, Rows
<1>3. C \in SUBSET R
  OBVIOUS
<1> HIDE DEF g, R
<1>4. IsFiniteSet(R)
  BY <1>1, <1>2, FS_Surjection
<1>5. QED
  BY <1>3, <1>4, FS_Subset

\* A set of rows that has those of the next so many events after an event is at least
\* as large.
LEMMA ManyNewer ==
    ASSUME NEW a, Dates(a), NEW n, NEW e \in Of(a, n), NEW w \in Nat,
           Rank(a, e) + w <= Size(a, n),
           NEW C, C \subseteq Rows(a, n),
           \A f \in Of(a, n) :
              Rank(a, e) < Rank(a, f) /\ Rank(a, f) <= Rank(a, e) + w => Row(a, f) \in C
    PROVE  w <= Cardinality(C)
<1> DEFINE k == Rank(a, e)
           h == [j \in 1 .. w |-> Row(a, CHOOSE f \in Of(a, n) : Rank(a, f) = k + j)]
<1>1. IsFiniteSet(C)
  BY RowsFinite
<1>2. k \in Nat /\ Size(a, n) \in Nat /\ k \in 1 .. Size(a, n)
  <2>1. k \in 1 .. Size(a, n) /\ Size(a, n) \in Nat
    BY RankParts
  <2>2. QED
    BY <2>1
<1>3. ASSUME NEW j \in 1 .. w
      PROVE  \E f \in Of(a, n) : Rank(a, f) = k + j /\ h[j] = Row(a, f) /\ Row(a, f) \in C
  <2>1. k + j \in 1 .. Size(a, n)
    BY <1>2
  <2>2. \E f \in Of(a, n) : Rank(a, f) = k + j
    BY <2>1, RankParts
  <2>3. PICK f \in Of(a, n) : Rank(a, f) = k + j /\ h[j] = Row(a, f)
    BY <2>2
  <2>4. k < Rank(a, f) /\ Rank(a, f) <= k + w
    <3> HIDE DEF h, k
    <3> QED
      BY <1>2, <2>3
  <2>5. QED
    BY <2>3, <2>4
<1>4. h \in Injection(1 .. w, C)
  <2>1. h \in [1 .. w -> C]
    <3>1. h = [j \in 1 .. w |-> h[j]]
      OBVIOUS
    <3> HIDE DEF h
    <3>2. \A j \in 1 .. w : h[j] \in C
      BY <1>3
    <3>3. QED
      BY <3>1, <3>2
  <2>2. ASSUME NEW i \in 1 .. w, NEW j \in 1 .. w, h[i] = h[j] PROVE i = j
    <3>1. PICK f \in Of(a, n) : Rank(a, f) = k + i /\ h[i] = Row(a, f)
      BY <1>3
    <3>2. PICK f2 \in Of(a, n) : Rank(a, f2) = k + j /\ h[j] = Row(a, f2)
      BY <1>3
    <3>3. f = f2
      <4>1. Row(a, f).event = f /\ Row(a, f2).event = f2
        BY DEF Row
      <4> HIDE DEF h
      <4>2. QED
        BY <2>2, <3>1, <3>2, <4>1
    <3>4. k + i = k + j
      BY <3>1, <3>2, <3>3
    <3> HIDE DEF k, h
    <3>5. QED
      BY <1>2, <3>4
  <2> HIDE DEF h
  <2>3. QED
    BY <2>1, <2>2 DEF Injection, IsInjective
<1>5. Cardinality(1 .. w) = w
  <2>1. 1 \in Int /\ w \in Int
    OBVIOUS
  <2>2. Cardinality(1 .. w) = IF 1 > w THEN 0 ELSE w - 1 + 1
    BY <2>1, FS_Interval
  <2>3. QED
    BY <2>2
<1> HIDE DEF h
<1>6. QED
  BY <1>1, <1>4, <1>5, FS_Injection
-----------------------------------------------------------------------------
(* What the ids in a list say of the numbers that were given out.          *)

\* The ids of a list are those of the events up to a number, the last ones of them
\* at least, in the order of their ranks.
Tallied(a, n, o, k) ==
    /\ o \in Seq(Events) /\ k \in Nat /\ Len(o) <= k
    /\ \A i \in 1 .. Len(o) : o[i] \in Of(a, n) /\ Rank(a, o[i]) = k - Len(o) + i
    /\ \A e \in Of(a, n) : k - 2 * Window < Rank(a, e) /\ Rank(a, e) <= k => e \in Elems(o)

\* The events after one rank and up to another, as a batch.
Between(a, n, k, t) ==
    {[event |-> e, at |-> a[e]] : e \in {e \in Of(a, n) : k < Rank(a, e) /\ Rank(a, e) <= t}}

\* Bounding the ids keeps those that count.
LEMMA TalliedCut ==
    ASSUME NEW a, Dates(a), NEW n, NEW o, NEW k, Tallied(a, n, o, k)
    PROVE  Tallied(a, n, LastOf(o, 2 * Window), k)
<1> DEFINE u == LastOf(o, 2 * Window)
<1>0. o \in Seq(Events) /\ k \in Nat /\ Len(o) \in Nat /\ Len(o) <= k /\ Window \in Nat
      /\ 2 * Window \in Nat
  BY IdsAssumption DEF Tallied
<1>1. /\ u \in Seq(Events) /\ Len(u) \in Nat /\ Len(u) <= Len(o)
      /\ Len(u) = IF Len(o) > 2 * Window THEN 2 * Window ELSE Len(o)
      /\ \A i \in 1 .. Len(u) : /\ Len(o) - Len(u) + i \in 1 .. Len(o)
                                /\ u[i] = o[Len(o) - Len(u) + i]
  BY <1>0, LastOfParts
<1> HIDE DEF u
<1>2. ASSUME NEW i \in 1 .. Len(u)
      PROVE  u[i] \in Of(a, n) /\ Rank(a, u[i]) = k - Len(u) + i
  <2>1. o[Len(o) - Len(u) + i] \in Of(a, n)
        /\ Rank(a, o[Len(o) - Len(u) + i]) = k - Len(o) + (Len(o) - Len(u) + i)
    BY <1>1 DEF Tallied
  <2>2. k - Len(o) + (Len(o) - Len(u) + i) = k - Len(u) + i
    BY <1>0, <1>1
  <2>3. QED
    BY <1>1, <2>1, <2>2
<1>3. ASSUME NEW e \in Of(a, n), k - 2 * Window < Rank(a, e), Rank(a, e) <= k
      PROVE  e \in Elems(u)
  <2>1. PICK i \in 1 .. Len(o) : e = o[i]
    BY <1>3 DEF Tallied, Elems
  <2>2. k - 2 * Window < k - Len(o) + i
    BY <1>3, <2>1 DEF Tallied
  <2>3. i - (Len(o) - Len(u)) \in 1 .. Len(u)
        /\ Len(o) - Len(u) + (i - (Len(o) - Len(u))) = i
    <3>1. i \in Nat /\ i >= 1 /\ i <= Len(o) /\ i > Len(o) - 2 * Window
      BY <1>0, <2>1, <2>2
    <3>2. CASE Len(o) > 2 * Window
      <4>1. Len(u) = 2 * Window /\ Len(u) \in Nat
        BY <1>0, <1>1, <3>2
      <4>2. QED
        BY <1>0, <3>1, <4>1
    <3>3. CASE ~(Len(o) > 2 * Window)
      <4>1. Len(u) = Len(o)
        BY <1>0, <1>1, <3>3
      <4>2. QED
        BY <1>0, <3>1, <4>1
    <3>4. QED
      BY <3>2, <3>3
  <2>4. u[i - (Len(o) - Len(u))] = e
    BY <1>1, <2>1, <2>3
  <2>5. QED
    BY <2>3, <2>4 DEF Elems
<1>4. Len(u) <= k
  BY <1>0, <1>1
<1>5. QED
  BY <1>0, <1>1, <1>2, <1>3, <1>4 DEF Tallied, u

\* The next event is added to the ids.
LEMMA TalliedAppend ==
    ASSUME NEW a, Dates(a), NEW n, NEW o, NEW k, Tallied(a, n, o, k),
           NEW x \in Of(a, n), Rank(a, x) = k + 1
    PROVE  Tallied(a, n, Append(o, x), k + 1)
<1> DEFINE t == Append(o, x)
<1>0. /\ o \in Seq(Events) /\ k \in Nat /\ Len(o) \in Nat /\ Len(o) <= k /\ Window \in Nat
      /\ x \in Events
  BY IdsAssumption DEF Tallied, Of
<1>1. /\ t \in Seq(Events) /\ Len(t) = Len(o) + 1 /\ t[Len(o) + 1] = x
      /\ \A i \in 1 .. Len(o) : t[i] = o[i]
      /\ Elems(t) = Elems(o) \cup {x}
  BY <1>0, ElemsAppend
<1> HIDE DEF t
<1>2. ASSUME NEW i \in 1 .. Len(t)
      PROVE  t[i] \in Of(a, n) /\ Rank(a, t[i]) = (k + 1) - Len(t) + i
  <2>1. CASE i = Len(o) + 1
    BY <1>0, <1>1, <2>1
  <2>2. CASE i \in 1 .. Len(o)
    <3>1. o[i] \in Of(a, n) /\ Rank(a, o[i]) = k - Len(o) + i /\ t[i] = o[i]
      BY <1>1, <2>2 DEF Tallied
    <3>2. (k + 1) - Len(t) + i = k - Len(o) + i
      BY <1>0, <1>1
    <3>3. QED
      BY <3>1, <3>2
  <2>3. QED
    BY <1>0, <1>1, <2>1, <2>2
<1>3. ASSUME NEW e \in Of(a, n), (k + 1) - 2 * Window < Rank(a, e), Rank(a, e) <= k + 1
      PROVE  e \in Elems(t)
  <2>1. Rank(a, e) \in Nat
    <3>1. Rank(a, e) \in 1 .. Size(a, n) /\ Size(a, n) \in Nat
      BY RankParts
    <3>2. QED
      BY <3>1
  <2>2. CASE Rank(a, e) = k + 1
    <3>1. e = x
      BY <2>2, RankParts
    <3>2. QED
      BY <1>1, <3>1
  <2>3. CASE Rank(a, e) # k + 1
    <3>1. k - 2 * Window < Rank(a, e) /\ Rank(a, e) <= k
      BY <1>0, <1>3, <2>1, <2>3
    <3>2. e \in Elems(o)
      BY <3>1 DEF Tallied
    <3>3. QED
      BY <1>1, <3>2
  <2>4. QED
    BY <2>2, <2>3
<1>4. Len(t) <= k + 1 /\ k + 1 \in Nat
  BY <1>0, <1>1
<1>5. QED
  BY <1>1, <1>2, <1>3, <1>4 DEF Tallied, t

\* A batch is posted in the order of the ranks.
LEMMA BetweenOldest ==
    ASSUME NEW a, Dates(a), NEW n, NEW k \in Nat, NEW t \in k + 1 .. Size(a, n)
    PROVE  LET b == Oldest(Between(a, n, k, t)) IN
           /\ b.event \in Of(a, n) /\ Rank(a, b.event) = k + 1
           /\ Between(a, n, k, t) \ {b} = Between(a, n, k + 1, t)
           /\ Between(a, n, k, t) \ {b} # {} => t \in (k + 1) + 1 .. Size(a, n)
<1> DEFINE B == Between(a, n, k, t)
           r(e) == [event |-> e, at |-> a[e]]
<1>0. /\ Size(a, n) \in Nat /\ t \in Nat /\ k + 1 \in 1 .. Size(a, n)
      /\ \A e \in Of(a, n) : Rank(a, e) \in Nat
      /\ \A e, f \in Of(a, n) : Rank(a, e) = Rank(a, f) => e = f
      /\ \A e, f \in Of(a, n) : Rank(a, e) <= Rank(a, f) => a[e] <= a[f]
      /\ \A e \in Of(a, n) : a[e] \in Nat
      /\ \A e, f \in Of(a, n) : a[e] = a[f] => e = f
  <2>1. Size(a, n) \in Nat /\ \A e \in Of(a, n) : Rank(a, e) \in 1 .. Size(a, n)
    BY RankParts
  <2>2. \A e \in Of(a, n) : Rank(a, e) \in Nat
    BY <2>1
  <2>3. /\ \A e \in Of(a, n) : a[e] \in Nat
        /\ \A e, f \in Of(a, n) : a[e] = a[f] => e = f
    BY DEF Dates, Of
  <2>4. t \in Nat /\ k + 1 \in 1 .. Size(a, n)
    BY <2>1
  <2>5. QED
    BY <2>1, <2>2, <2>3, <2>4, RankParts
<1>1. PICK x \in Of(a, n) : Rank(a, x) = k + 1
  BY <1>0, RankParts
<1>2. \A b \in B : \E e \in Of(a, n) : b = r(e) /\ k < Rank(a, e) /\ Rank(a, e) <= t
  BY DEF Between
<1>3. \A e \in Of(a, n) : k < Rank(a, e) /\ Rank(a, e) <= t => r(e) \in B
  BY DEF Between
<1>4. r(x) \in B
  BY <1>0, <1>1, <1>3
<1>5. \A b \in B : r(x).at <= b.at
  <2> SUFFICES ASSUME NEW b \in B PROVE r(x).at <= b.at
    OBVIOUS
  <2>1. PICK e \in Of(a, n) : b = r(e) /\ k < Rank(a, e)
    BY <1>2
  <2>2. Rank(a, x) <= Rank(a, e)
    BY <1>0, <1>1, <2>1
  <2>3. QED
    BY <1>0, <2>1, <2>2
<1>6. ASSUME NEW b \in B, \A c \in B : b.at <= c.at PROVE b = r(x)
  <2>1. PICK e \in Of(a, n) : b = r(e)
    BY <1>2
  <2>2. a[e] <= a[x] /\ a[x] <= a[e]
    <3>1. b.at = a[e] /\ r(x).at = a[x]
      BY <2>1
    <3>2. QED
      BY <1>4, <1>5, <1>6, <3>1
  <2>3. a[e] = a[x]
    BY <1>0, <2>2
  <2>4. QED
    BY <1>0, <2>1, <2>3
<1>7. Oldest(B) = r(x)
  <2> HIDE DEF B, r
  <2> QED
    BY <1>4, <1>5, <1>6 DEF Oldest
<1>8. B \ {r(x)} = Between(a, n, k + 1, t)
  <2>1. ASSUME NEW b \in B, b # r(x) PROVE b \in Between(a, n, k + 1, t)
    <3>1. PICK e \in Of(a, n) : b = r(e) /\ k < Rank(a, e) /\ Rank(a, e) <= t
      BY <1>2
    <3>2. Rank(a, e) # k + 1
      BY <1>0, <1>1, <2>1, <3>1
    <3>3. k + 1 < Rank(a, e)
      BY <1>0, <3>1, <3>2
    <3>4. QED
      BY <3>1, <3>3 DEF Between
  <2>2. ASSUME NEW b \in Between(a, n, k + 1, t) PROVE b \in B /\ b # r(x)
    <3>1. PICK e \in Of(a, n) : b = r(e) /\ k + 1 < Rank(a, e) /\ Rank(a, e) <= t
      BY DEF Between
    <3>2. k < Rank(a, e) /\ Rank(a, e) # k + 1
      BY <1>0, <3>1
    <3>3. b \in B /\ e # x
      BY <1>1, <1>3, <3>1, <3>2
    <3>4. b.event = e /\ r(x).event = x
      BY <3>1
    <3>5. QED
      BY <3>3, <3>4
  <2> HIDE DEF B, r
  <2>3. QED
    BY <2>1, <2>2
<1>9. ASSUME Between(a, n, k + 1, t) # {} PROVE t \in (k + 1) + 1 .. Size(a, n)
  <2>1. PICK e \in Of(a, n) : k + 1 < Rank(a, e) /\ Rank(a, e) <= t
    BY <1>9 DEF Between
  <2>2. QED
    BY <1>0, <2>1
<1>10. r(x).event = x
  OBVIOUS
<1> HIDE DEF B, r
<1>11. QED
  BY <1>1, <1>7, <1>8, <1>9, <1>10 DEF B

\* An event that happens after all others is not among the ids, nor in a batch.
LEMMA TalliedGrows ==
    ASSUME NEW a, NEW z, NEW n, NEW o, NEW k, Tallied(a, n, o, k), k <= Size(a, n),
           Size(a, n) \in Nat,
           \A e \in Of(a, n) : e \in Of(z, n) /\ Rank(z, e) = Rank(a, e) /\ z[e] = a[e],
           \A e \in Of(z, n) : e \in Of(a, n) \/ Rank(z, e) > Size(a, n),
           \A e \in Of(z, n) : Rank(z, e) \in Nat
    PROVE  /\ Tallied(z, n, o, k)
           /\ \A t \in Nat : t <= Size(a, n) => Between(z, n, k, t) = Between(a, n, k, t)
<1>0. k \in Nat
  BY DEF Tallied
<1>1. \A e \in Of(z, n) : \A t \in Nat :
         t <= Size(a, n) /\ Rank(z, e) <= t => e \in Of(a, n) /\ Rank(z, e) = Rank(a, e)
  <2> SUFFICES ASSUME NEW e \in Of(z, n), NEW t \in Nat, t <= Size(a, n), Rank(z, e) <= t
               PROVE  e \in Of(a, n)
    OBVIOUS
  <2>1. ~(Rank(z, e) > Size(a, n))
    OBVIOUS
  <2>2. QED
    BY <2>1
<1>2. Tallied(z, n, o, k)
  <2>1. \A i \in 1 .. Len(o) : o[i] \in Of(z, n) /\ Rank(z, o[i]) = k - Len(o) + i
    BY DEF Tallied
  <2>2. \A e \in Of(z, n) : k - 2 * Window < Rank(z, e) /\ Rank(z, e) <= k => e \in Elems(o)
    BY <1>0, <1>1 DEF Tallied
  <2>3. QED
    BY <2>1, <2>2 DEF Tallied
<1>3. ASSUME NEW t \in Nat, t <= Size(a, n) PROVE Between(z, n, k, t) = Between(a, n, k, t)
  <2>1. ASSUME NEW b \in Between(z, n, k, t) PROVE b \in Between(a, n, k, t)
    <3>1. PICK e \in Of(z, n) : b = [event |-> e, at |-> z[e]] /\ k < Rank(z, e) /\ Rank(z, e) <= t
      BY DEF Between
    <3>2. e \in Of(a, n) /\ Rank(a, e) = Rank(z, e) /\ z[e] = a[e]
      BY <1>1, <1>3, <3>1
    <3>3. QED
      BY <3>1, <3>2 DEF Between
  <2>2. ASSUME NEW b \in Between(a, n, k, t) PROVE b \in Between(z, n, k, t)
    <3>1. PICK e \in Of(a, n) : b = [event |-> e, at |-> a[e]] /\ k < Rank(a, e) /\ Rank(a, e) <= t
      BY DEF Between
    <3>2. e \in Of(z, n) /\ Rank(a, e) = Rank(z, e) /\ z[e] = a[e]
      BY <3>1
    <3>3. QED
      BY <3>1, <3>2 DEF Between
  <2>3. QED
    BY <2>1, <2>2
<1>4. QED
  BY <1>2, <1>3
-----------------------------------------------------------------------------
(* A number stands for one event.                                          *)

\* Why a number stands for one event, if each happens once: it is the rank of the
\* event among those of its node. Whatever was found, by the sweep under way or by
\* the last one, is dated as it is. A shipper's ids are those of the events up to its
\* number, in memory as in its file, to which a restart goes back; so what a cycle
\* has to ship are the events that follow, and it ships them by their dates. It is so
\* at the nodes that have not been misled.
DatesInv == Dates(at) /\ \A e \in Events : at[e] <= clock

SweepInv == \A n \in Nodes : found[n] \subseteq Rows(at, n) /\ cache[n] \subseteq Rows(at, n)

CountInv ==
    \A n \in Nodes \ misled :
        /\ file[n].seq <= seq[n] /\ seq[n] <= Size(at, n)
        /\ Tallied(at, n, order[n], seq[n])
        /\ Tallied(at, n, file[n].order, file[n].seq)
        /\ pc[n] = "ship" =>
              \E t \in seq[n] + 1 .. Size(at, n) : batch[n] = Between(at, n, seq[n], t)

RankedInv ==
    \A b \in Elems(relay) :
        b.event \in Of(at, b.node) /\ (b.node \notin misled => Rank(at, b.event) = b.seq)

BatchInv == \A n \in Nodes : batch[n] \subseteq Rows(at, n)

NumberInv ==
    TypeInv /\ GapInv /\ DatesInv /\ SweepInv /\ BatchInv /\ CountInv /\ RankedInv

\* The events that are counted are those up to the number the shipper is at.
LEMMA CountedParts ==
    ASSUME NumberInv, NEW n \in Nodes \ misled
    PROVE  Counted(n) = {e \in Of(at, n) : Rank(at, e) <= seq[n]}
<1>1. ASSUME NEW b \in Elems(relay), b.node = n, b.seq <= seq[n]
      PROVE  b.event \in Of(at, n) /\ Rank(at, b.event) <= seq[n]
  BY <1>1 DEF NumberInv, RankedInv
<1>2. ASSUME NEW e \in Of(at, n), Rank(at, e) <= seq[n] PROVE e \in Counted(n)
  <2>1. Dates(at) /\ seq[n] \in Nat
    BY DEF NumberInv, DatesInv, TypeInv, TypeOK
  <2>2. Rank(at, e) \in 1 .. Size(at, n) /\ Size(at, n) \in Nat
    BY <2>1, RankParts
  <2>3. Rank(at, e) \in 1 .. seq[n]
    BY <1>2, <2>1, <2>2
  <2>4. \A k \in 1 .. seq[n] : \E c \in Elems(relay) : c.node = n /\ c.seq = k
    BY DEF NumberInv, GapInv, Deposited
  <2>5. PICK c \in Elems(relay) : c.node = n /\ c.seq = Rank(at, e)
    BY <2>3, <2>4
  <2>6. c.event \in Of(at, n) /\ Rank(at, c.event) = Rank(at, e)
    BY <2>5 DEF NumberInv, RankedInv
  <2>7. c.event = e
    BY <2>1, <2>6, RankParts
  <2>8. QED
    BY <1>2, <2>5, <2>7 DEF Counted
<1>3. QED
  BY <1>1, <1>2 DEF Counted

\* The ids a shipper remembers are of events up to its number.
LEMMA OrderParts ==
    ASSUME NumberInv, NEW n \in Nodes \ misled
    PROVE  \A e \in Elems(order[n]) : e \in Of(at, n) /\ Rank(at, e) <= seq[n]
<1> DEFINE k == seq[n]
<1>1. k \in Nat /\ Tallied(at, n, order[n], k)
  BY DEF NumberInv, CountInv, TypeInv, TypeOK
<1> HIDE DEF k
<1> SUFFICES ASSUME NEW i \in 1 .. Len(order[n])
             PROVE  order[n][i] \in Of(at, n) /\ Rank(at, order[n][i]) <= k
  BY DEF Elems, k
<1>2. /\ order[n][i] \in Of(at, n) /\ Rank(at, order[n][i]) = k - Len(order[n]) + i
      /\ Len(order[n]) \in Nat
  <2>1. order[n] \in Seq(Events)
    BY <1>1 DEF Tallied
  <2>2. Len(order[n]) \in Nat
    BY <2>1
  <2>3. \A j \in 1 .. Len(order[n]) :
           order[n][j] \in Of(at, n) /\ Rank(at, order[n][j]) = k - Len(order[n]) + j
    BY <1>1 DEF Tallied
  <2>4. QED
    BY <2>2, <2>3
<1>3. k - Len(order[n]) + i <= k
  BY <1>1, <1>2
<1>4. QED
  BY <1>2, <1>3

\* A cycle that begins with nothing overlooked has the events to ship that follow the
\* number its shipper is at: one that was counted and is forgotten is not shown, for
\* between it and the last one counted there are more events than the feed holds, and
\* they would all be shown.
LEMMA UnshippedParts ==
    ASSUME NumberInv, NEW n \in Nodes \ misled, Overlooked(n) = {}, Unshipped(n) # {}
    PROVE  \E t \in seq[n] + 1 .. Size(at, n) : Unshipped(n) = Between(at, n, seq[n], t)
<1> DEFINE N == Size(at, n)
           k == seq[n]
           O == Of(at, n)
           In(e) == Row(at, e) \in Feed(n)
<1>1. /\ Dates(at) /\ k \in Nat /\ N \in Nat /\ Window \in Nat \ {0} /\ k <= N
      /\ Tallied(at, n, order[n], k)
  BY RankParts, IdsAssumption DEF NumberInv, DatesInv, CountInv, TypeInv, TypeOK
<1>2. /\ \A e \in O : Rank(at, e) \in Nat /\ Rank(at, e) <= N /\ at[e] \in Nat
      /\ \A e, f \in O : Rank(at, e) < Rank(at, f) => at[e] < at[f]
      /\ \A e, f \in O : at[e] < at[f] => Rank(at, e) < Rank(at, f)
      /\ \A e, f \in O : Rank(at, e) = Rank(at, f) => e = f
  <2>1. \A e \in O : Rank(at, e) \in 1 .. N
    BY <1>1, RankParts
  <2>2. \A e \in O : Rank(at, e) \in Nat /\ Rank(at, e) <= N /\ at[e] \in Nat
    BY <1>1, <2>1 DEF Dates, Of
  <2>3. \A e, f \in O : Rank(at, e) = Rank(at, f) => e = f
    BY <1>1, RankParts
  <2>4. \A e, f \in O : at[e] < at[f] => Rank(at, e) < Rank(at, f)
    BY <1>1, RankOrder
  <2>5. \A e, f \in O : at[e] = at[f] => e = f
    BY <1>1 DEF Dates, Of
  <2>6. ASSUME NEW e \in O, NEW f \in O, Rank(at, e) < Rank(at, f) PROVE at[e] < at[f]
    <3>1. ~(at[f] < at[e])
      BY <2>2, <2>4, <2>6
    <3>2. at[e] # at[f]
      BY <2>2, <2>5, <2>6
    <3>3. QED
      BY <2>2, <3>1, <3>2
  <2>7. QED
    BY <2>2, <2>3, <2>4, <2>6
<1>3. /\ cache[n] \subseteq Rows(at, n) /\ Feed(n) \subseteq cache[n]
      /\ \A e \in O : Row(at, e).event = e /\ Row(at, e).at = at[e]
  BY DEF NumberInv, SweepInv, Feed, Row
<1>4. ASSUME NEW e \in O, ~In(e), NEW f \in O, In(f)
      PROVE  /\ Rank(at, e) <= k => ~(at[f] < at[e])
             /\ ~(Rank(at, e) <= k) => ~(at[f] > at[e])
  <2>1. e \in Happened(n)
    BY DEF Of, Happened
  <2>2. e \notin {b.event : b \in Feed(n)}
    <3> SUFFICES ASSUME NEW b \in Feed(n) PROVE b.event # e
      OBVIOUS
    <3>1. PICK g \in O : b = Row(at, g)
      BY <1>3 DEF Rows
    <3>2. QED
      BY <1>3, <1>4, <3>1
  <2>3. Row(at, f) \in Feed(n) /\ Row(at, f).at = at[f]
    BY <1>3, <1>4
  <2>4. e \in Counted(n) <=> Rank(at, e) <= k
    BY CountedParts
  <2>5. ~ IF e \in Counted(n) THEN at[f] < at[e] ELSE at[f] > at[e]
    BY <2>1, <2>2, <2>3 DEF Overlooked
  <2>6. QED
    BY <2>4, <2>5
<1>5. \A e \in O : e \in Elems(order[n]) => Rank(at, e) <= k
  BY OrderParts
<1>6. ASSUME NEW e \in O, In(e), e \notin Elems(order[n]) PROVE k < Rank(at, e)
  <2> SUFFICES ASSUME Rank(at, e) <= k PROVE FALSE
    BY <1>1, <1>2
  <2>1. Rank(at, e) + Window <= k
    <3>1. ~(k - 2 * Window < Rank(at, e))
      BY <1>1, <1>6 DEF Tallied
    <3>2. Rank(at, e) \in Nat
      BY <1>2
    <3> HIDE DEF k
    <3>3. QED
      BY <1>1, <3>1, <3>2
  <2> DEFINE C == {c \in cache[n] : c.at > Row(at, e).at}
  <2>2. Cardinality(C) < Window
    BY <1>6 DEF Feed
  <2>3. ASSUME NEW f \in O, Rank(at, e) < Rank(at, f), Rank(at, f) <= Rank(at, e) + Window
        PROVE  Row(at, f) \in C
    <3>1. at[e] < at[f]
      BY <1>2, <2>3
    <3>2. Rank(at, f) <= k
      <4>1. Rank(at, f) \in Nat /\ Rank(at, e) \in Nat
        BY <1>2
      <4> HIDE DEF k
      <4>2. QED
        BY <1>1, <2>1, <2>3, <4>1
    <3>3. In(f)
      BY <1>4, <1>6, <3>1, <3>2
    <3>4. Row(at, f) \in cache[n]
      BY <1>3, <3>3
    <3>5. Row(at, f).at > Row(at, e).at
      <4>1. Row(at, f).at = at[f] /\ Row(at, e).at = at[e] /\ at[f] \in Nat /\ at[e] \in Nat
        BY <1>2, <1>3
      <4>2. QED
        BY <3>1, <4>1
    <3>6. QED
      BY <3>4, <3>5
  <2>4. C \subseteq Rows(at, n)
    BY <1>3
  <2>5. Rank(at, e) + Window <= N
    <3>1. Rank(at, e) \in Nat
      BY <1>2
    <3> HIDE DEF k, N
    <3>2. QED
      BY <1>1, <2>1, <3>1
  <2> HIDE DEF C
  <2>6. \A X : X \subseteq Rows(at, n) /\
              (\A f \in O : Rank(at, e) < Rank(at, f) /\ Rank(at, f) <= Rank(at, e) + Window
                           => Row(at, f) \in X)
              => Window <= Cardinality(X)
    BY <1>1, <2>5, ManyNewer
  <2>7. Window <= Cardinality(C) /\ IsFiniteSet(C)
    <3>1. Window <= Cardinality(C)
      BY <2>3, <2>4, <2>6
    <3>2. IsFiniteSet(C)
      BY <2>4, RowsFinite
    <3>3. QED
      BY <3>1, <3>2
  <2>8. Cardinality(C) \in Nat
    BY <2>7, FS_CardinalityType
  <2>9. QED
    BY <1>1, <2>2, <2>7, <2>8
<1>7. \A b \in Unshipped(n) : \E e \in O : b = Row(at, e) /\ In(e) /\ e \notin Elems(order[n])
  BY <1>3 DEF Unshipped, Rows
<1>8. \A e \in O : In(e) /\ e \notin Elems(order[n]) => Row(at, e) \in Unshipped(n)
  BY <1>3 DEF Unshipped
<1> DEFINE L == {e \in O : Row(at, e) \in Unshipped(n)}
           T == {N - Rank(at, e) : e \in L}
<1>9. PICK f \in L : \A e \in L : Rank(at, e) <= Rank(at, f)
  <2>1. T \in SUBSET Nat /\ T # {}
    <3>1. L # {}
      BY <1>7
    <3>2. \A e \in L : N - Rank(at, e) \in Nat
      BY <1>1, <1>2
    <3> HIDE DEF L
    <3>3. QED
      BY <3>1, <3>2
  <2>2. PICK x \in T : \A y \in T : x <= y
    <3> HIDE DEF T
    <3> QED
      BY <2>1, LeastNat
  <2>3. PICK f \in L : x = N - Rank(at, f)
    OBVIOUS
  <2>4. ASSUME NEW e \in L PROVE Rank(at, e) <= Rank(at, f)
    <3>1. N - Rank(at, f) <= N - Rank(at, e)
      BY <2>2, <2>3
    <3>2. Rank(at, e) \in Nat /\ Rank(at, f) \in Nat
      BY <1>2
    <3> HIDE DEF L, T, N
    <3>3. QED
      BY <1>1, <3>1, <3>2
  <2>5. QED
    BY <2>4
<1> DEFINE t == Rank(at, f)
<1>10. /\ f \in O /\ In(f) /\ f \notin Elems(order[n]) /\ k < t /\ t <= N /\ t \in Nat
  <2>1. PICK e \in O : Row(at, f) = Row(at, e) /\ In(e) /\ e \notin Elems(order[n])
    BY <1>7
  <2>2. f \in O /\ e = f
    BY <1>3, <2>1
  <2>3. QED
    BY <1>2, <1>6, <2>1, <2>2
<1>11. \A e \in O : Row(at, e) \in Unshipped(n) => k < Rank(at, e) /\ Rank(at, e) <= t
  <2> SUFFICES ASSUME NEW e \in O, Row(at, e) \in Unshipped(n)
               PROVE  k < Rank(at, e) /\ Rank(at, e) <= t
    OBVIOUS
  <2>1. PICK g \in O : Row(at, e) = Row(at, g) /\ In(g) /\ g \notin Elems(order[n])
    BY <1>7
  <2>2. g = e
    BY <1>3, <2>1
  <2>3. QED
    BY <1>6, <1>9, <2>1, <2>2
<1>12. ASSUME NEW e \in O, k < Rank(at, e), Rank(at, e) <= t
       PROVE  Row(at, e) \in Unshipped(n)
  <2>1. e \notin Elems(order[n])
    <3>1. Rank(at, e) \in Nat
      BY <1>2
    <3>2. ~(Rank(at, e) <= k)
      BY <1>1, <1>12, <3>1
    <3>3. QED
      BY <1>5, <3>2
  <2>2. In(e)
    <3>1. CASE e = f
      BY <1>10, <3>1
    <3>2. CASE e # f
      <4>1. Rank(at, e) # t /\ Rank(at, e) \in Nat
        BY <1>2, <1>10, <3>2
      <4>2. Rank(at, e) < t /\ ~(Rank(at, e) <= k)
        <5> HIDE DEF t, k
        <5> QED
          BY <1>1, <1>10, <1>12, <4>1
      <4>3. at[f] > at[e]
        <5>1. at[e] < at[f] /\ at[e] \in Nat /\ at[f] \in Nat
          BY <1>2, <1>10, <4>2
        <5>2. QED
          BY <5>1
      <4>4. QED
        BY <1>4, <1>10, <4>2, <4>3
    <3>3. QED
      BY <3>1, <3>2
  <2>3. QED
    BY <1>8, <2>1, <2>2
<1>13. Unshipped(n) = Between(at, n, k, t)
  <2>1. Between(at, n, k, t) = {Row(at, e) : e \in {e \in O : k < Rank(at, e) /\ Rank(at, e) <= t}}
    BY DEF Between, Row
  <2>2. \A b \in Unshipped(n) : \E e \in O : b = Row(at, e)
    BY <1>7
  <2>3. QED
    BY <1>11, <1>12, <2>1, <2>2
<1>14. t \in k + 1 .. N
  <2> HIDE DEF t, k, N
  <2> QED
    BY <1>1, <1>10
<1>15. QED
  BY <1>13, <1>14

\* What a node posts next is the event of the next rank.
LEMMA NextPosted ==
    ASSUME NumberInv, NEW n \in Nodes \ misled, pc[n] = "ship"
    PROVE  LET b == Oldest(batch[n]) IN
           /\ b.event \in Of(at, n) /\ Rank(at, b.event) = seq[n] + 1
           /\ seq[n] + 1 <= Size(at, n)
           /\ batch[n] \ {b} # {} =>
                 \E t \in (seq[n] + 1) + 1 .. Size(at, n) :
                     batch[n] \ {b} = Between(at, n, seq[n] + 1, t)
<1>1. Dates(at) /\ seq[n] \in Nat /\ Size(at, n) \in Nat
  BY RankParts DEF NumberInv, DatesInv, TypeInv, TypeOK
<1>2. PICK t \in seq[n] + 1 .. Size(at, n) : batch[n] = Between(at, n, seq[n], t)
  BY DEF NumberInv, CountInv
<1>3. \A k \in Nat : \A u \in k + 1 .. Size(at, n) :
         LET b == Oldest(Between(at, n, k, u)) IN
         /\ b.event \in Of(at, n) /\ Rank(at, b.event) = k + 1
         /\ Between(at, n, k, u) \ {b} = Between(at, n, k + 1, u)
         /\ Between(at, n, k, u) \ {b} # {} => u \in (k + 1) + 1 .. Size(at, n)
  BY <1>1, BetweenOldest
<1>4. seq[n] + 1 <= Size(at, n)
  BY <1>1, <1>2
<1>5. QED
  BY <1>1, <1>2, <1>3, <1>4

\* The shippers that do not move keep their count while no event happens.
LEMMA CountOthers ==
    ASSUME CountInv, NEW n \in Nodes, UNCHANGED at, misled \subseteq misled',
           \A k \in Nodes : k # n =>
              /\ file'[k] = file[k] /\ seq'[k] = seq[k] /\ order'[k] = order[k]
              /\ pc'[k] = pc[k] /\ batch'[k] = batch[k],
           n \notin misled' =>
              /\ file'[n].seq <= seq'[n] /\ seq'[n] <= Size(at, n)
              /\ Tallied(at, n, order'[n], seq'[n])
              /\ Tallied(at, n, file'[n].order, file'[n].seq)
              /\ pc'[n] = "ship" =>
                   \E t \in seq'[n] + 1 .. Size(at, n) : batch'[n] = Between(at, n, seq'[n], t)
    PROVE  CountInv'
<1> SUFFICES ASSUME NEW k \in Nodes \ misled'
             PROVE  /\ file'[k].seq <= seq'[k] /\ seq'[k] <= Size(at, k)
                    /\ Tallied(at, k, order'[k], seq'[k])
                    /\ Tallied(at, k, file'[k].order, file'[k].seq)
                    /\ pc'[k] = "ship" =>
                          \E t \in seq'[k] + 1 .. Size(at, k) :
                              batch'[k] = Between(at, k, seq'[k], t)
  BY DEF CountInv
<1>1. CASE k = n
  BY <1>1
<1>2. CASE k # n
  <2>1. k \in Nodes \ misled
    OBVIOUS
  <2>2. QED
    BY <1>2, <2>1 DEF CountInv
<1>3. QED
  BY <1>1, <1>2

\* An event happens.
LEMMA NumberHappens ==
    ASSUME NumberInv, Recurring = {}, NEW e \in Events, Happens(e)
    PROVE  DatesInv' /\ SweepInv' /\ BatchInv' /\ CountInv' /\ RankedInv'
<1>1. /\ Dates(at) /\ \A f \in Events : at[f] \in Nat /\ at[f] <= clock
      /\ clock \in Nat /\ at[e] = 0
      /\ clock' = clock + 1 /\ at' = [at EXCEPT ![e] = clock + 1]
      /\ UNCHANGED <<found, cache, pc, batch, seq, order, file, misled, relay>>
  BY DEF NumberInv, DatesInv, TypeInv, TypeOK, Happens, sweepVars, shipperVars
<1>2. clock + 1 \in Nat /\ \A f \in Events : at[f] < clock + 1
  BY <1>1
<1>3. /\ Dates(at')
      /\ \A n : /\ Size(at, n) <= Size(at', n)
                /\ \A f \in Of(at, n) :
                      f \in Of(at', n) /\ Rank(at', f) = Rank(at, f) /\ at'[f] = at[f]
                /\ \A f \in Of(at', n) : f \in Of(at, n) \/ Rank(at', f) > Size(at, n)
  <2>1. \A x \in Nat : \A z : (\A f \in Events : at[f] < x) /\ z = [at EXCEPT ![e] = x] =>
           /\ Dates(z)
           /\ \A n : /\ Size(at, n) <= Size(z, n)
                     /\ \A f \in Of(at, n) :
                           f \in Of(z, n) /\ Rank(z, f) = Rank(at, f) /\ z[f] = at[f]
                     /\ \A f \in Of(z, n) : f \in Of(at, n) \/ Rank(z, f) > Size(at, n)
    BY <1>1, RankGrows
  <2>2. QED
    BY <1>1, <1>2, <2>1
<1>4. DatesInv'
  BY <1>1, <1>3 DEF DatesInv, Dates
<1>5. ASSUME NEW n \in Nodes \ misled
      PROVE  /\ file[n].seq <= seq[n] /\ seq[n] <= Size(at', n)
             /\ Tallied(at', n, order[n], seq[n])
             /\ Tallied(at', n, file[n].order, file[n].seq)
             /\ pc[n] = "ship" =>
                   \E t \in seq[n] + 1 .. Size(at', n) : batch[n] = Between(at', n, seq[n], t)
  <2>1. /\ Size(at, n) \in Nat /\ Size(at', n) \in Nat /\ Size(at, n) <= Size(at', n)
        /\ seq[n] \in Nat /\ file[n].seq \in Nat
        /\ file[n].seq <= seq[n] /\ seq[n] <= Size(at, n)
    <3>1. file[n] \in [seq : Nat, order : Seq(Events)] /\ seq[n] \in Nat
      BY DEF NumberInv, TypeInv, TypeOK
    <3>2. Size(at, n) \in Nat /\ Size(at', n) \in Nat
      BY <1>1, <1>3, RankParts
    <3>3. QED
      BY <1>3, <3>1, <3>2 DEF NumberInv, CountInv
  <2>2. \A f \in Of(at', n) : Rank(at', f) \in Nat
    <3>1. \A f \in Of(at', n) : Rank(at', f) \in 1 .. Size(at', n)
      BY <1>3, RankParts
    <3>2. QED
      BY <2>1, <3>1
  <2>3. \A o, k : Tallied(at, n, o, k) /\ k <= Size(at, n) =>
           /\ Tallied(at', n, o, k)
           /\ \A t \in Nat : t <= Size(at, n) => Between(at', n, k, t) = Between(at, n, k, t)
    <3>1. /\ \A f \in Of(at, n) :
                f \in Of(at', n) /\ Rank(at', f) = Rank(at, f) /\ at'[f] = at[f]
          /\ \A f \in Of(at', n) : f \in Of(at, n) \/ Rank(at', f) > Size(at, n)
      BY <1>3
    <3> SUFFICES ASSUME NEW o, NEW k, Tallied(at, n, o, k), k <= Size(at, n)
                 PROVE  /\ Tallied(at', n, o, k)
                        /\ \A t \in Nat : t <= Size(at, n) =>
                              Between(at', n, k, t) = Between(at, n, k, t)
      OBVIOUS
    <3>2. Size(at, n) \in Nat
      BY <2>1
    <3>3. \A z : (/\ \A f \in Of(at, n) :
                        f \in Of(z, n) /\ Rank(z, f) = Rank(at, f) /\ z[f] = at[f]
                  /\ \A f \in Of(z, n) : f \in Of(at, n) \/ Rank(z, f) > Size(at, n)
                  /\ \A f \in Of(z, n) : Rank(z, f) \in Nat)
                 => /\ Tallied(z, n, o, k)
                    /\ \A t \in Nat : t <= Size(at, n) =>
                          Between(z, n, k, t) = Between(at, n, k, t)
      <4> SUFFICES ASSUME NEW z,
                          \A f \in Of(at, n) :
                             f \in Of(z, n) /\ Rank(z, f) = Rank(at, f) /\ z[f] = at[f],
                          \A f \in Of(z, n) : f \in Of(at, n) \/ Rank(z, f) > Size(at, n),
                          \A f \in Of(z, n) : Rank(z, f) \in Nat
                   PROVE  /\ Tallied(z, n, o, k)
                          /\ \A t \in Nat : t <= Size(at, n) =>
                                Between(z, n, k, t) = Between(at, n, k, t)
        OBVIOUS
      <4>1. QED
        BY <3>2, TalliedGrows
    <3>4. QED
      BY <2>2, <3>1, <3>3
  <2>4. Tallied(at, n, order[n], seq[n]) /\ Tallied(at, n, file[n].order, file[n].seq)
    BY DEF NumberInv, CountInv
  <2>5. ASSUME pc[n] = "ship"
        PROVE  \E t \in seq[n] + 1 .. Size(at', n) : batch[n] = Between(at', n, seq[n], t)
    <3>1. PICK t \in seq[n] + 1 .. Size(at, n) : batch[n] = Between(at, n, seq[n], t)
      BY <2>5 DEF NumberInv, CountInv
    <3>2. t \in Nat /\ t <= Size(at, n) /\ t \in seq[n] + 1 .. Size(at', n)
      BY <2>1
    <3>3. QED
      BY <2>1, <2>3, <2>4, <3>1, <3>2
  <2>6. file[n].seq <= Size(at, n) /\ seq[n] <= Size(at', n)
    BY <2>1
  <2>7. QED
    BY <2>1, <2>3, <2>4, <2>5, <2>6
<1>6. CountInv'
  BY <1>1, <1>5 DEF CountInv
<1>7. RankedInv'
  <2>1. \A b \in Elems(relay) :
           b.event \in Of(at', b.node) /\ (b.node \notin misled => Rank(at', b.event) = b.seq)
    BY <1>3 DEF NumberInv, RankedInv
  <2>2. QED
    BY <1>1, <2>1 DEF RankedInv
<1>8. SweepInv' /\ BatchInv'
  <2>1. \A n : Rows(at, n) \subseteq Rows(at', n)
    <3> SUFFICES ASSUME NEW n, NEW f \in Of(at, n) PROVE Row(at, f) \in Rows(at', n)
      BY DEF Rows
    <3>1. f \in Of(at', n) /\ at'[f] = at[f]
      BY <1>3
    <3>2. QED
      BY <3>1 DEF Rows, Row
  <2>2. /\ \A n \in Nodes : found[n] \subseteq Rows(at', n) /\ cache[n] \subseteq Rows(at', n)
        /\ \A n \in Nodes : batch[n] \subseteq Rows(at', n)
    BY <2>1 DEF NumberInv, SweepInv, BatchInv
  <2>3. QED
    BY <1>1, <2>2 DEF SweepInv, BatchInv
<1>9. QED
  BY <1>4, <1>6, <1>7, <1>8

\* A blob is deposited under the rank of its event.
LEMMA RankedPost ==
    ASSUME NumberInv, NEW n \in Nodes, pc[n] = "ship", UNCHANGED <<at, misled>>,
           relay' = Append(relay, Blob(n, Oldest(batch[n]).event))
    PROVE  RankedInv'
<1> DEFINE d == Blob(n, Oldest(batch[n]).event)
<1>1. /\ d \in Blobs /\ d.node = n /\ d.seq = seq[n] + 1 /\ d.event = Oldest(batch[n]).event
      /\ Oldest(batch[n]) \in batch[n]
  BY BlobType DEF NumberInv
<1>2. n \notin misled => Rank(at, d.event) = seq[n] + 1
  BY <1>1, NextPosted
<1>3. d.event \in Of(at, n)
  BY <1>1 DEF NumberInv, BatchInv, Rows, Row
<1>4. Elems(relay') = Elems(relay) \cup {d}
  BY <1>1, RelayAppend DEF NumberInv
<1> HIDE DEF d
<1>5. \A b \in Elems(relay') :
         b.event \in Of(at, b.node) /\ (b.node \notin misled => Rank(at, b.event) = b.seq)
  BY <1>1, <1>2, <1>3, <1>4 DEF NumberInv, RankedInv
<1>6. QED
  BY <1>5 DEF RankedInv

\* A post that succeeds.
LEMMA NumberPostSucceeds ==
    ASSUME NumberInv, NEW n \in Nodes, PostSucceeds(n)
    PROVE  SweepInv' /\ BatchInv' /\ CountInv' /\ RankedInv'
<1> DEFINE b == Oldest(batch[n])
           rest == batch[n] \ {b}
<1>1. /\ pc[n] = "ship" /\ relay' = Append(relay, Blob(n, b.event))
      /\ UNCHANGED <<at, found, cache, file, misled>>
      /\ seq' = [seq EXCEPT ![n] = seq[n] + 1]
      /\ order' = [order EXCEPT ![n] = Append(order[n], b.event)]
      /\ batch' = [batch EXCEPT ![n] = rest]
      /\ pc' = [pc EXCEPT ![n] = IF rest = {} THEN "save" ELSE "ship"]
  BY DEF PostSucceeds, feedVars, sweepVars
<1>2. n \notin misled =>
         /\ b.event \in Of(at, n) /\ Rank(at, b.event) = seq[n] + 1
         /\ seq[n] + 1 <= Size(at, n)
         /\ rest # {} => \E t \in (seq[n] + 1) + 1 .. Size(at, n) :
                             rest = Between(at, n, seq[n] + 1, t)
  BY <1>1, NextPosted
<1>3. RankedInv'
  BY <1>1, RankedPost
<1> HIDE DEF b, rest
<1>4. /\ pc \in [Nodes -> {"sleep", "ship", "save"}] /\ seq \in [Nodes -> Nat]
      /\ order \in [Nodes -> Seq(Events)] /\ batch \in [Nodes -> SUBSET Dated]
      /\ file[n].seq \in Nat /\ Dates(at)
  BY DEF NumberInv, DatesInv, TypeInv, TypeOK, Dated
<1>5. /\ seq'[n] = seq[n] + 1 /\ order'[n] = Append(order[n], b.event)
      /\ batch'[n] = rest /\ (pc'[n] = "ship" => rest # {}) /\ file'[n] = file[n]
      /\ \A k \in Nodes : k # n =>
            /\ file'[k] = file[k] /\ seq'[k] = seq[k] /\ order'[k] = order[k]
            /\ pc'[k] = pc[k] /\ batch'[k] = batch[k]
  BY <1>1, <1>4
<1>6. n \notin misled =>
         /\ file[n].seq <= seq[n]
         /\ Tallied(at, n, order[n], seq[n]) /\ Tallied(at, n, file[n].order, file[n].seq)
  BY DEF NumberInv, CountInv
<1>7. n \notin misled => Tallied(at, n, order'[n], seq'[n])
  <2>1. n \notin misled =>
           \A o, k : Tallied(at, n, o, k) /\ Rank(at, b.event) = k + 1 =>
              Tallied(at, n, Append(o, b.event), k + 1)
    BY <1>2, <1>4, TalliedAppend
  <2>2. QED
    BY <1>2, <1>5, <1>6, <2>1
<1>8. n \notin misled => file'[n].seq <= seq'[n] /\ seq'[n] <= Size(at, n)
  <2>1. seq[n] \in Nat
    BY <1>4
  <2>2. QED
    BY <1>2, <1>4, <1>5, <1>6, <2>1
<1>9. n \notin misled /\ pc'[n] = "ship" =>
         \E t \in seq'[n] + 1 .. Size(at, n) : batch'[n] = Between(at, n, seq'[n], t)
  BY <1>2, <1>5
<1>10. n \notin misled => Tallied(at, n, file'[n].order, file'[n].seq)
  BY <1>5, <1>6
<1>11. CountInv /\ UNCHANGED <<at, misled>>
  BY <1>1 DEF NumberInv
<1>12. CountInv'
  BY <1>5, <1>7, <1>8, <1>9, <1>10, <1>11, CountOthers
<1>13. SweepInv'
  BY <1>1 DEF NumberInv, SweepInv
<1>14. BatchInv'
  <2>1. \A k \in Nodes : batch'[k] \subseteq batch[k]
    <3>1. rest \subseteq batch[n]
      BY DEF rest
    <3>2. QED
      BY <1>5, <3>1
  <2>2. \A k \in Nodes : batch[k] \subseteq Rows(at, k)
    BY DEF NumberInv, BatchInv
  <2>3. \A k \in Nodes : batch'[k] \subseteq Rows(at, k)
    BY <2>1, <2>2
  <2>4. QED
    BY <1>1, <2>3 DEF BatchInv
<1>15. QED
  BY <1>3, <1>12, <1>13, <1>14

\* A post that fails or is refused, the end of a cycle and a restart.
LEMMA NumberElse ==
    ASSUME NumberInv, NEW n \in Nodes,
           PostFails(n) \/ PostRefused(n) \/ Save(n) \/ ShipperRestarts(n)
    PROVE  SweepInv' /\ BatchInv' /\ CountInv' /\ RankedInv'
<1>1. /\ pc \in [Nodes -> {"sleep", "ship", "save"}] /\ seq \in [Nodes -> Nat]
      /\ order \in [Nodes -> Seq(Events)] /\ batch \in [Nodes -> SUBSET Dated]
      /\ found \in [Nodes -> SUBSET Dated] /\ cache \in [Nodes -> SUBSET Dated]
      /\ file \in [Nodes -> [seq : Nat, order : Seq(Events)]] /\ Dates(at)
      /\ Size(at, n) \in Nat
  BY RankParts DEF NumberInv, DatesInv, TypeInv, TypeOK
<1>2. /\ n \notin misled =>
            /\ file[n].seq <= seq[n] /\ seq[n] <= Size(at, n)
            /\ Tallied(at, n, order[n], seq[n]) /\ Tallied(at, n, file[n].order, file[n].seq)
      /\ SweepInv /\ BatchInv /\ CountInv /\ RankedInv
  BY DEF NumberInv, CountInv
<1>3. UNCHANGED <<at, misled>>
  BY DEF PostFails, PostRefused, CycleBreaks, Save, ShipperRestarts, feedVars
<1>4. \A k \in Nodes : batch'[k] \subseteq batch[k] /\ found'[k] \subseteq found[k]
                         /\ cache'[k] \subseteq cache[k]
  <2>1. batch' = [batch EXCEPT ![n] = {}] \/ batch' = batch
    BY DEF PostFails, PostRefused, CycleBreaks, Save, ShipperRestarts
  <2>2. \/ UNCHANGED <<found, cache>>
        \/ found' = [found EXCEPT ![n] = {}] /\ cache' = [cache EXCEPT ![n] = {}]
    BY DEF PostFails, PostRefused, CycleBreaks, Save, ShipperRestarts, sweepVars
  <2>3. \A k \in Nodes : batch'[k] \subseteq batch[k]
    BY <1>1, <2>1
  <2>4. \A k \in Nodes : found'[k] \subseteq found[k] /\ cache'[k] \subseteq cache[k]
    BY <1>1, <2>2
  <2>5. QED
    BY <2>3, <2>4
<1>5. SweepInv' /\ BatchInv'
  <2>1. \A k \in Nodes : /\ batch'[k] \subseteq Rows(at, k)
                          /\ found'[k] \subseteq Rows(at, k) /\ cache'[k] \subseteq Rows(at, k)
    BY <1>2, <1>4 DEF SweepInv, BatchInv
  <2>2. QED
    BY <1>3, <2>1 DEF SweepInv, BatchInv
<1>6. CASE PostFails(n) \/ PostRefused(n)
  <2>1. /\ pc[n] = "ship" /\ UNCHANGED <<file, order>>
        /\ seq' = [seq EXCEPT ![n] = seq[n]]
        /\ batch' = [batch EXCEPT ![n] = {}] /\ pc' = [pc EXCEPT ![n] = "save"]
        /\ relay' = relay \/ relay' = Append(relay, Blob(n, Oldest(batch[n]).event))
    BY <1>6 DEF PostFails, PostRefused, CycleBreaks, SeqAfterFailure
  <2>2. RankedInv'
    <3>1. CASE relay' = relay
      BY <1>2, <1>3, <3>1 DEF RankedInv
    <3>2. QED
      BY <1>3, <2>1, <3>1, RankedPost
  <2>3. /\ seq'[n] = seq[n] /\ order'[n] = order[n] /\ file'[n] = file[n] /\ pc'[n] # "ship"
        /\ \A k \in Nodes : k # n =>
              /\ file'[k] = file[k] /\ seq'[k] = seq[k] /\ order'[k] = order[k]
              /\ pc'[k] = pc[k] /\ batch'[k] = batch[k]
    BY <1>1, <2>1
  <2>4. CountInv'
    BY <1>2, <1>3, <2>1, <2>3, CountOthers
  <2>5. QED
    BY <1>5, <2>2, <2>4
<1>7. CASE Save(n)
  <2> DEFINE o == LastOf(order[n], 2 * Window)
  <2>1. /\ UNCHANGED <<seq, batch, relay>>
        /\ order' = [order EXCEPT ![n] = o] /\ pc' = [pc EXCEPT ![n] = "sleep"]
        /\ file' = [file EXCEPT ![n] = [seq |-> seq[n], order |-> o]]
    BY <1>7 DEF Save
  <2>2. n \notin misled => Tallied(at, n, o, seq[n])
    <3>1. \A q, k : Tallied(at, n, q, k) => Tallied(at, n, LastOf(q, 2 * Window), k)
      BY <1>1, TalliedCut
    <3>2. QED
      BY <1>2, <3>1
  <2> HIDE DEF o
  <2>3. /\ seq'[n] = seq[n] /\ order'[n] = o /\ pc'[n] # "ship"
        /\ file'[n].seq = seq[n] /\ file'[n].order = o
        /\ \A k \in Nodes : k # n =>
              /\ file'[k] = file[k] /\ seq'[k] = seq[k] /\ order'[k] = order[k]
              /\ pc'[k] = pc[k] /\ batch'[k] = batch[k]
    BY <1>1, <2>1
  <2>4. file'[n].seq <= seq'[n]
    <3>1. seq[n] \in Nat
      BY <1>1
    <3>2. QED
      BY <2>3, <3>1
  <2>5. CountInv'
    BY <1>2, <1>3, <2>2, <2>3, <2>4, CountOthers
  <2>6. QED
    BY <1>2, <1>3, <1>5, <2>1, <2>5 DEF RankedInv
<1>8. CASE ShipperRestarts(n)
  <2>1. /\ UNCHANGED <<file, relay>>
        /\ seq' = [seq EXCEPT ![n] = file[n].seq]
        /\ order' = [order EXCEPT ![n] = file[n].order]
        /\ batch' = [batch EXCEPT ![n] = {}] /\ pc' = [pc EXCEPT ![n] = "sleep"]
    BY <1>8 DEF ShipperRestarts
  <2>2. /\ seq'[n] = file[n].seq /\ order'[n] = file[n].order /\ file'[n] = file[n]
        /\ pc'[n] # "ship"
        /\ \A k \in Nodes : k # n =>
              /\ file'[k] = file[k] /\ seq'[k] = seq[k] /\ order'[k] = order[k]
              /\ pc'[k] = pc[k] /\ batch'[k] = batch[k]
    BY <1>1, <2>1
  <2>3. file'[n].seq <= seq'[n] /\ (n \notin misled => file[n].seq <= Size(at, n))
    <3>1. file[n].seq \in Nat /\ seq[n] \in Nat
      BY <1>1
    <3>2. QED
      BY <1>1, <1>2, <2>2, <3>1
  <2>4. CountInv'
    BY <1>2, <1>3, <2>2, <2>3, CountOthers
  <2>5. QED
    BY <1>2, <1>3, <1>5, <2>1, <2>4 DEF RankedInv
<1>9. QED
  BY <1>6, <1>7, <1>8

\* A query shows events as they are dated.
LEMMA NumberQuery ==
    ASSUME NumberInv, NEW n \in Nodes, NEW t, Query(n, t)
    PROVE  SweepInv'
<1> DEFINE all == found[n] \cup Shown(n, t)
<1>1. Shown(n, t) \subseteq Rows(at, n)
  BY DEF Shown, Happened, Rows, Row, Of
<1>2. /\ at' = at
      /\ found' = [found EXCEPT ![n] = all] \/ found' = [found EXCEPT ![n] = {}]
      /\ cache' = [cache EXCEPT ![n] = all] \/ cache' = cache
  BY DEF Query, feedVars
<1>3. /\ \A k \in Nodes : found[k] \subseteq Rows(at, k) /\ cache[k] \subseteq Rows(at, k)
      /\ found \in [Nodes -> SUBSET Dated] /\ cache \in [Nodes -> SUBSET Dated]
  BY DEF NumberInv, SweepInv, TypeInv, TypeOK
<1>4. all \subseteq Rows(at, n)
  BY <1>1, <1>3
<1> HIDE DEF all
<1>5. \A k \in Nodes : found'[k] \subseteq Rows(at, k)
  BY <1>2, <1>3, <1>4
<1>6. \A k \in Nodes : cache'[k] \subseteq Rows(at, k)
  BY <1>2, <1>3, <1>4
<1>7. QED
  BY <1>2, <1>5, <1>6 DEF SweepInv

\* A cycle begins: it has the next events to ship, or has been misled.
LEMMA NumberBegins ==
    ASSUME NumberInv, NEW n \in Nodes, CycleBegins(n)
    PROVE  SweepInv' /\ BatchInv' /\ CountInv' /\ RankedInv'
<1>1. /\ UNCHANGED <<at, found, cache, seq, order, file, relay>> /\ Unshipped(n) # {}
      /\ pc' = [pc EXCEPT ![n] = "ship"] /\ batch' = [batch EXCEPT ![n] = Unshipped(n)]
      /\ misled' = IF Overlooked(n) = {} THEN misled ELSE misled \cup {n}
  BY DEF CycleBegins, feedVars, sweepVars
<1>2. misled \subseteq misled' /\ (n \notin misled' => n \notin misled /\ Overlooked(n) = {})
  BY <1>1
<1>3. n \notin misled' =>
         \E t \in seq[n] + 1 .. Size(at, n) : Unshipped(n) = Between(at, n, seq[n], t)
  BY <1>1, <1>2, UnshippedParts
<1>4. /\ seq'[n] = seq[n] /\ order'[n] = order[n] /\ file'[n] = file[n]
      /\ batch'[n] = Unshipped(n)
      /\ \A k \in Nodes : k # n =>
            /\ file'[k] = file[k] /\ seq'[k] = seq[k] /\ order'[k] = order[k]
            /\ pc'[k] = pc[k] /\ batch'[k] = batch[k]
  <2>1. batch \in [Nodes -> SUBSET Dated] /\ pc \in [Nodes -> {"sleep", "ship", "save"}]
    BY DEF NumberInv, TypeInv, TypeOK
  <2>2. QED
    BY <1>1, <2>1
<1>5. n \notin misled =>
         /\ file[n].seq <= seq[n] /\ seq[n] <= Size(at, n)
         /\ Tallied(at, n, order[n], seq[n]) /\ Tallied(at, n, file[n].order, file[n].seq)
  BY DEF NumberInv, CountInv
<1>6. CountInv /\ UNCHANGED at
  BY <1>1 DEF NumberInv
<1>7. CountInv'
  BY <1>2, <1>3, <1>4, <1>5, <1>6, CountOthers
<1>8. SweepInv'
  BY <1>1 DEF NumberInv, SweepInv
<1>9. BatchInv'
  <2>1. Unshipped(n) \subseteq Rows(at, n)
    BY DEF Unshipped, Feed, NumberInv, SweepInv
  <2>2. \A k \in Nodes : batch[k] \subseteq Rows(at, k)
    BY DEF NumberInv, BatchInv
  <2>3. \A k \in Nodes : batch'[k] \subseteq Rows(at, k)
    BY <1>4, <2>1, <2>2
  <2>4. QED
    BY <1>1, <2>3 DEF BatchInv
<1>10. RankedInv'
  BY <1>1, <1>2 DEF NumberInv, RankedInv
<1>11. QED
  BY <1>7, <1>8, <1>9, <1>10

\* Each step keeps the invariant, if events happen once.
LEMMA NumberStep ==
    ASSUME Recurring = {}
    PROVE  NumberInv /\ [Next]_vars => NumberInv'
<1> DEFINE Kept == DatesInv' /\ SweepInv' /\ BatchInv' /\ CountInv' /\ RankedInv'
<1> SUFFICES ASSUME NumberInv, [Next]_vars PROVE Kept
  BY TypeStep, GapStep DEF NumberInv
<1>0. DatesInv /\ SweepInv /\ BatchInv /\ CountInv /\ RankedInv
  BY DEF NumberInv
<1>1. ASSUME NEW e \in Events, Happens(e) PROVE Kept
  BY <1>1, NumberHappens
<1>2. ASSUME UNCHANGED <<clock, at>> PROVE DatesInv'
  BY <1>0, <1>2 DEF DatesInv, Dates
<1>3. ASSUME NEW n \in Nodes, CycleBegins(n) PROVE Kept
  BY <1>2, <1>3, NumberBegins DEF CycleBegins, feedVars
<1>4. ASSUME NEW n \in Nodes, PostSucceeds(n) PROVE Kept
  BY <1>2, <1>4, NumberPostSucceeds DEF PostSucceeds, feedVars
<1>5. ASSUME NEW n \in Nodes, PostFails(n) \/ PostRefused(n) \/ Save(n) \/ ShipperRestarts(n)
      PROVE  Kept
  <2>1. UNCHANGED <<clock, at>>
    BY <1>5 DEF PostFails, PostRefused, CycleBreaks, Save, ShipperRestarts, feedVars
  <2>2. QED
    BY <1>2, <1>5, <2>1, NumberElse
<1>6. ASSUME UNCHANGED <<clock, at, pc, batch, seq, order, file, misled, relay>>
      PROVE  DatesInv' /\ BatchInv' /\ CountInv' /\ RankedInv'
  BY <1>0, <1>2, <1>6 DEF BatchInv, CountInv, RankedInv
<1>7. ASSUME NEW n \in Nodes, NEW t \in 0 .. clock, Query(n, t) PROVE Kept
  <2>1. UNCHANGED <<clock, at, pc, batch, seq, order, file, misled, relay>>
    BY <1>7 DEF Query, feedVars, shipperVars
  <2>2. QED
    BY <1>6, <1>7, <2>1, NumberQuery
<1>8. ASSUME UNCHANGED <<clock, at, found, cache, pc, batch, seq, order, file, misled, relay>>
      PROVE  Kept
  BY <1>0, <1>6, <1>8 DEF SweepInv
<1> HIDE DEF Kept
<1>9. QED
  BY <1>1, <1>3, <1>4, <1>5, <1>7, <1>8
  DEF Next, Cycle, Poll, MasterRestarts, vars, feedVars, sweepVars, shipperVars

\* Nothing is numbered at first.
LEMMA NumberInit == Init => NumberInv
<1> SUFFICES ASSUME Init PROVE DatesInv /\ SweepInv /\ BatchInv /\ CountInv /\ RankedInv
  BY TypeInit, GapInit DEF NumberInv
<1>1. DatesInv
  BY DEF Init, DatesInv, Dates
<1>2. ASSUME NEW n \in Nodes
      PROVE  /\ file[n].seq <= seq[n] /\ seq[n] <= Size(at, n)
             /\ Tallied(at, n, order[n], seq[n])
             /\ Tallied(at, n, file[n].order, file[n].seq)
             /\ pc[n] # "ship"
  <2>1. /\ file[n].seq = 0 /\ seq[n] = 0 /\ order[n] = <<>> /\ file[n].order = <<>>
        /\ pc[n] = "sleep"
    BY DEF Init, Blank
  <2>2. Of(at, n) = {}
    BY DEF Init, Of
  <2>3. Size(at, n) \in Nat
    BY <1>1, RankParts DEF DatesInv
  <2>4. Tallied(at, n, <<>>, 0)
    <3>1. <<>> \in Seq(Events) /\ Len(<<>>) = 0
      OBVIOUS
    <3>2. QED
      BY <2>2, <3>1 DEF Tallied
  <2>5. QED
    BY <2>1, <2>3, <2>4
<1>3. RankedInv
  BY DEF Init, RankedInv, Elems
<1>4. SweepInv /\ BatchInv
  BY DEF Init, SweepInv, BatchInv
<1>5. QED
  BY <1>1, <1>2, <1>3, <1>4 DEF CountInv

\* Numbers that are ranks name their events.
LEMMA NumbersName == NumberInv => SeqNamesEvent
<1> SUFFICES ASSUME NumberInv, NEW b \in Elems(relay), NEW c \in Elems(relay), SameKey(b, c),
                    b.node \notin misled
             PROVE  b.event = c.event
  BY DEF SeqNamesEvent
<1>1. /\ b.event \in Of(at, b.node) /\ c.event \in Of(at, b.node)
      /\ Rank(at, b.event) = Rank(at, c.event)
  BY DEF NumberInv, RankedInv, SameKey
<1>2. Dates(at)
  BY DEF NumberInv, DatesInv
<1>3. QED
  BY <1>1, <1>2, RankParts

\* If events happen once, a node's number stands for one event, through answers that
\* are lost, crashes before the save and retries, queries that fail and sweeps under
\* way while events happen, for every number of nodes, events, sensors, faults and
\* every window, unless the node has shipped from a feed that lacked what it should
\* have shown: then "the master's (node, seq) dedupe and future gap detection are
\* meaningful" (ids_shipper.py:8-9).
THEOREM NumbersMeaningful ==
    ASSUME Recurring = {}
    PROVE  Spec => []SeqNamesEvent
BY NumberInit, NumberStep, NumbersName, PTL DEF Spec
-----------------------------------------------------------------------------
(* The panel shows an event once.                                          *)

\* What the master holds are blobs of the hub's, each key once.
MeshInv == Elems(mesh) \subseteq Elems(relay) /\ Keyed(mesh)

\* Each step keeps this.
LEMMA MeshStep == TypeInv /\ MeshInv /\ [Next]_vars => MeshInv'
<1> SUFFICES ASSUME TypeInv, MeshInv, [Next]_vars PROVE MeshInv'
  OBVIOUS
<1>0. /\ relay \in Seq(Blobs) /\ Len(relay) \in Nat /\ cursor \in 0 .. Len(relay)
      /\ mesh \in Seq(Blobs)
  BY DEF TypeInv, TypeOK
<1>1. CASE UNCHANGED <<relay, mesh>>
  BY <1>1 DEF MeshInv, Keyed
<1>2. ASSUME NEW n \in Nodes, pc[n] = "ship", mesh' = mesh,
             relay' = Append(relay, Blob(n, Oldest(batch[n]).event))
      PROVE  MeshInv'
  <2>1. Elems(relay) \subseteq Elems(relay')
    BY <1>2, BlobType, RelayAppend
  <2>2. QED
    BY <1>2, <2>1 DEF MeshInv, Keyed
<1>3. ASSUME NEW n \in Nodes, PostSucceeds(n) \/ PostFails(n) \/ PostRefused(n)
      PROVE  MeshInv'
  <2>1. /\ pc[n] = "ship" /\ mesh' = mesh
        /\ relay' = relay \/ relay' = Append(relay, Blob(n, Oldest(batch[n]).event))
    BY <1>3 DEF PostSucceeds, PostFails, PostRefused, CycleBreaks, masterVars
  <2>2. QED
    BY <1>1, <1>2, <2>1
<1>4. CASE Poll
  <2> DEFINE G == {s \in Seq(Blobs) : Elems(s) \subseteq Elems(relay) /\ Keyed(s)}
  <2>1. mesh \in G
    BY <1>0 DEF MeshInv
  <2>2. ASSUME NEW s \in G, NEW b \in Elems(relay) PROVE Merged(s, b) \in G
    <3>1. b \in Blobs
      BY <1>0 DEF Elems
    <3>2. QED
      BY <3>1, MergedParts
  <2> HIDE DEF G
  <2>3. MergedInTurn \in G
    BY <1>0, <1>4, <2>1, <2>2, MergedInTurnParts DEF Poll
  <2>4. mesh' = MergedInTurn /\ relay' = relay
    BY <1>4 DEF Poll
  <2>5. Elems(mesh') \subseteq Elems(relay') /\ Keyed(mesh')
    BY <2>3, <2>4 DEF G
  <2>6. QED
    BY <2>5 DEF MeshInv
<1>5. CASE MasterRestarts
  <2>1. mesh' = <<>> /\ relay' = relay
    BY <1>5 DEF MasterRestarts
  <2>2. QED
    BY <2>1 DEF MeshInv, Keyed, Elems
<1>6. QED
  BY <1>1, <1>3, <1>4, <1>5 DEF Next, Cycle, Happens, Query, CycleBegins, Save, ShipperRestarts,
                                vars, masterVars

\* An event has one number, so what is kept once by its key is shown once.
LEMMA ShownByKey == NumberInv /\ MeshInv => ShownOnce
<1> SUFFICES ASSUME NumberInv, MeshInv, NEW i \in 1 .. Len(mesh), NEW j \in 1 .. Len(mesh),
                    mesh[i].event = mesh[j].event, mesh[i].node \notin misled
             PROVE  i = j
  BY DEF ShownOnce
<1>1. mesh[i] \in Elems(relay) /\ mesh[j] \in Elems(relay)
  BY DEF MeshInv, Elems
<1>2. mesh[i].event \in Of(at, mesh[i].node) /\ mesh[j].event \in Of(at, mesh[j].node)
  BY <1>1 DEF NumberInv, RankedInv
<1>3. mesh[i].node = mesh[j].node
  BY <1>2 DEF Of
<1>4. Rank(at, mesh[i].event) = mesh[i].seq /\ Rank(at, mesh[j].event) = mesh[j].seq
  BY <1>1, <1>3 DEF NumberInv, RankedInv
<1>5. SameKey(mesh[i], mesh[j])
  BY <1>3, <1>4 DEF SameKey
<1>6. QED
  BY <1>5 DEF MeshInv, Keyed

\* Under the same hypotheses the panel shows each event once, whatever was deposited
\* twice, drained twice after a restart, or evicted meanwhile (mesh.py:92-96).
THEOREM ShownOnceHolds ==
    ASSUME Recurring = {}
    PROVE  Spec => []ShownOnce
<1>1. Init => MeshInv
  BY DEF Init, MeshInv, Keyed, Elems
<1>2. NumberInv => TypeInv
  BY DEF NumberInv
<1>3. QED
  BY <1>1, <1>2, NumberInit, NumberStep, MeshStep, ShownByKey, PTL DEF Spec
=============================================================================
