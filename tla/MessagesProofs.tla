---------------------------- MODULE MessagesProofs ----------------------------
(* Proofs about Messages for every value of its constants. *)
EXTENDS Messages, FiniteSetTheorems, SequenceTheorems, TLAPS
-----------------------------------------------------------------------------
(* Types.                                                                  *)

\* A book, and one within its caps.
Books == [logs : [Nodes -> Seq(Messages)], seen : Seq(Messages),
          ever : SUBSET Messages, twice : SUBSET Messages, evicted : SUBSET Messages]
Capped(b) ==
    /\ \A p \in Nodes : Len(b.logs[p]) <= MaxPerPeer
    /\ Len(b.seen) <= MaxSeen
    /\ b.twice \subseteq b.ever

Work == [pc : {"idle", "changed", "writing", "sent"}, msg : Messages \cup {None},
         first : BOOLEAN, snap : Books]

\* What a handler is at: its message is there once it is at work.
Sound(w) == Capped(w.snap) /\ (w.pc # "idle" => w.msg \in Messages)
WorkTyped(w) ==
    /\ w = [n \in Nodes |-> w[n]]
    /\ \A n \in Nodes : w[n] \in [Slots[n] -> Work] /\ \A s \in Slots[n] : Sound(w[n][s])

Typed ==
    /\ book \in [Nodes -> Books] /\ disk \in [Nodes -> Books]
    /\ \A n \in Nodes : Capped(book[n]) /\ Capped(disk[n])
    /\ WorkTyped(work)
    /\ net \in [Messages -> {"unsealed", "sealed", "coming", "past"}]
    /\ age \in [Messages -> Int]
    /\ delivered \subseteq Messages /\ overlapped \subseteq Nodes

\* What is kept of a list is within its limit, and comes from the list.
LEMMA NewestParts ==
    ASSUME NEW A, NEW s \in Seq(A), NEW limit \in Nat
    PROVE  /\ Newest(s, limit) \in Seq(A)
           /\ Len(Newest(s, limit)) <= limit
           /\ \A i \in 1 .. Len(Newest(s, limit)) :
                 \E j \in 1 .. Len(s) : Newest(s, limit)[i] = s[j]
<1>1. CASE Len(s) <= limit
  <2>1. Newest(s, limit) = s
    BY <1>1 DEF Newest
  <2>2. QED
    BY <1>1, <2>1
<1>2. CASE Len(s) > limit
  <2> DEFINE k == Len(s) - limit
  <2>1. Newest(s, limit) = SubSeq(s, k + 1, Len(s)) /\ k \in Nat /\ k <= Len(s) /\ Len(s) \in Nat
    BY <1>2 DEF Newest
  <2>2. /\ SubSeq(s, k + 1, Len(s)) \in Seq(A)
        /\ Len(SubSeq(s, k + 1, Len(s))) = Len(s) - k
        /\ \A i \in 1 .. Len(s) - k : SubSeq(s, k + 1, Len(s))[i] = s[k + i]
    BY <2>1
  <2>3. Len(s) - k = limit
    BY <2>1
  <2> HIDE DEF k
  <2>4. \A i \in 1 .. Len(s) - k : k + i \in 1 .. Len(s)
    BY <2>1
  <2>5. QED
    BY <2>1, <2>2, <2>3, <2>4
<1>3. QED
  BY <1>1, <1>2

\* The elements of a list, by their indices, and of one that grew or was cut.
LEMMA ToSetParts ==
    ASSUME NEW A, NEW s \in Seq(A)
    PROVE  ToSet(s) = {s[i] : i \in 1 .. Len(s)} /\ ToSet(s) \subseteq A
BY DEF ToSet

\* A list that grows has one element more.
LEMMA ToSetAppend ==
    ASSUME NEW A, NEW s \in Seq(A), NEW x \in A
    PROVE  ToSet(Append(s, x)) = ToSet(s) \cup {x}
<1>1. /\ Append(s, x) \in Seq(A) /\ Len(Append(s, x)) = Len(s) + 1
      /\ Append(s, x)[Len(s) + 1] = x /\ Len(s) \in Nat
      /\ \A i \in 1 .. Len(s) : Append(s, x)[i] = s[i]
  OBVIOUS
<1>2. /\ ToSet(Append(s, x)) = {Append(s, x)[i] : i \in 1 .. Len(s) + 1}
      /\ ToSet(s) = {s[i] : i \in 1 .. Len(s)}
  BY <1>1, ToSetParts
<1>3. 1 .. Len(s) + 1 = (1 .. Len(s)) \cup {Len(s) + 1}
  BY <1>1
<1>4. QED
  BY <1>1, <1>2, <1>3

\* A list that is cut has no element it did not have.
LEMMA ToSetNewest ==
    ASSUME NEW A, NEW s \in Seq(A), NEW limit \in Nat
    PROVE  ToSet(Newest(s, limit)) \subseteq ToSet(s)
<1>1. /\ ToSet(s) = {s[i] : i \in 1 .. Len(s)}
      /\ ToSet(Newest(s, limit)) = {Newest(s, limit)[i] : i \in 1 .. Len(Newest(s, limit))}
  BY NewestParts, ToSetParts
<1>2. QED
  BY <1>1, NewestParts

\* The elements that pass have the places 1, 2, 3, ... in their order.
LEMMA Places ==
    ASSUME NEW A, NEW s \in Seq(A), NEW S
    PROVE  LET I == Passing(s, S) IN
           /\ IsFiniteSet(I) /\ Cardinality(I) \in Nat /\ Cardinality(I) <= Len(s)
           /\ \A i \in I : Place(s, S, i) \in 1 .. Cardinality(I)
           /\ \A i, j \in I : Place(s, S, i) = Place(s, S, j) => i = j
           /\ \A k \in 1 .. Cardinality(I) : \E i \in I : Place(s, S, i) = k
<1> DEFINE I == Passing(s, S)
           upto(i) == {j \in I : j <= i}
           c == Cardinality(I)
<1>1. I \subseteq 1 .. Len(s) /\ Len(s) \in Nat /\ I \subseteq Nat
  BY DEF Passing
<1> HIDE DEF I
<1>2. IsFiniteSet(I) /\ c \in Nat /\ c <= Len(s)
  <2>1. IsFiniteSet(1 .. Len(s)) /\ Cardinality(1 .. Len(s)) = Len(s)
    <3>1. Cardinality(1 .. Len(s)) = IF 1 > Len(s) THEN 0 ELSE Len(s) - 1 + 1
      BY <1>1, FS_Interval
    <3>2. QED
      BY <1>1, <3>1, FS_Interval
  <2>2. IsFiniteSet(I) /\ Cardinality(I) <= Len(s)
    BY <1>1, <2>1, FS_Subset
  <2>3. QED
    BY <2>2, FS_CardinalityType
<1>3. ASSUME NEW i \in I
      PROVE  /\ IsFiniteSet(upto(i)) /\ Place(s, S, i) = Cardinality(upto(i))
             /\ Place(s, S, i) \in 1 .. c
  <2>1. upto(i) \in SUBSET I /\ i \in upto(i)
    BY <1>1
  <2>2. Place(s, S, i) = Cardinality(upto(i))
    BY DEF Place, I
  <2> HIDE DEF upto
  <2>3. IsFiniteSet(upto(i)) /\ Cardinality(upto(i)) <= c
    BY <1>2, <2>1, FS_Subset
  <2>4. Cardinality(upto(i)) \in Nat /\ Cardinality(upto(i)) # 0
    BY <2>1, <2>3, FS_CardinalityType, FS_EmptySet
  <2>5. QED
    BY <1>2, <2>2, <2>3, <2>4
<1>4. ASSUME NEW i \in I, NEW j \in I, i < j PROVE Place(s, S, i) # Place(s, S, j)
  <2>1. upto(i) \in SUBSET upto(j) /\ j \in upto(j) /\ j \notin upto(i)
    <3>1. /\ i \in Nat /\ j \in Nat /\ j <= j /\ ~(j <= i)
          /\ \A x \in I : x <= i => x <= j
      BY <1>1, <1>4
    <3>2. QED
      BY <3>1
  <2> HIDE DEF upto
  <2>2. upto(i) # upto(j)
    BY <2>1
  <2>3. Cardinality(upto(j)) # Cardinality(upto(i))
    BY <1>3, <2>1, <2>2, FS_Subset
  <2>4. QED
    BY <1>3, <2>3
<1>5. \A i, j \in I : Place(s, S, i) = Place(s, S, j) => i = j
  <2>1. \A i, j \in I : i < j \/ j < i \/ i = j
    BY <1>1
  <2>2. QED
    BY <1>4, <2>1
<1> DEFINE f == [i \in I |-> Place(s, S, i)]
<1>6. f \in Injection(I, 1 .. c)
  BY <1>3, <1>5 DEF Injection, IsInjective
<1>7. f \in Surjection(I, 1 .. c)
  <2>1. IsFiniteSet(1 .. c) /\ Cardinality(1 .. c) = c
    <3> HIDE DEF c, f
    <3>1. IsFiniteSet(1 .. c) /\ Cardinality(1 .. c) = IF 1 > c THEN 0 ELSE c - 1 + 1
      BY <1>2, FS_Interval
    <3>2. QED
      BY <1>2, <3>1
  <2> HIDE DEF f
  <2>2. QED
    BY <1>6, <2>1, FS_Injection
<1>8. ASSUME NEW k \in 1 .. c PROVE \E i \in I : Place(s, S, i) = k
  BY <1>7 DEF Surjection
<1>9. QED
  BY <1>2, <1>3, <1>5, <1>8 DEF I

\* Filter keeps elements that are in S, all of them, and adds none.
LEMMA FilterParts ==
    ASSUME NEW A, NEW s \in Seq(A), NEW S
    PROVE  /\ Filter(s, S) \in Seq(A)
           /\ \A i \in 1 .. Len(Filter(s, S)) :
                 Filter(s, S)[i] \in S /\ \E j \in 1 .. Len(s) : s[j] = Filter(s, S)[i]
           /\ \A j \in 1 .. Len(s) :
                 s[j] \in S => \E i \in 1 .. Len(Filter(s, S)) : s[j] = Filter(s, S)[i]
<1> DEFINE I == Passing(s, S)
           c == Cardinality(I)
           at(k) == CHOOSE i \in I : Place(s, S, i) = k
<1>1. /\ c \in Nat
      /\ \A i \in I : Place(s, S, i) \in 1 .. c
      /\ \A i, j \in I : Place(s, S, i) = Place(s, S, j) => i = j
      /\ \A k \in 1 .. c : \E i \in I : Place(s, S, i) = k
  BY Places
<1>2. \A i \in I : i \in 1 .. Len(s) /\ s[i] \in S /\ s[i] \in A
  BY DEF Passing
<1>3. \A i \in 1 .. Len(s) : s[i] \in S => i \in I
  BY DEF Passing
<1>4. Filter(s, S) = [k \in 1 .. c |-> s[at(k)]]
  BY DEF Filter
<1> HIDE DEF I, c
<1>5. \A k \in 1 .. c : at(k) \in I /\ Place(s, S, at(k)) = k
  BY <1>1
<1> HIDE DEF at
<1>6. /\ Filter(s, S) \in Seq(A) /\ Len(Filter(s, S)) = c
      /\ \A k \in 1 .. c : Filter(s, S)[k] = s[at(k)]
  BY <1>1, <1>2, <1>4, <1>5
<1>7. ASSUME NEW j \in 1 .. Len(s), s[j] \in S
      PROVE  \E i \in 1 .. c : s[j] = Filter(s, S)[i]
  <2>1. j \in I /\ Place(s, S, j) \in 1 .. c
    BY <1>1, <1>3, <1>7
  <2>2. at(Place(s, S, j)) = j
    BY <1>1, <1>5, <2>1
  <2>3. QED
    BY <1>6, <2>1, <2>2
<1>8. QED
  BY <1>2, <1>5, <1>6, <1>7
\* A list that is filtered has what passes the test.
LEMMA ToSetFilter ==
    ASSUME NEW A, NEW s \in Seq(A), NEW S
    PROVE  ToSet(Filter(s, S)) = ToSet(s) \cap S
<1> DEFINE f == Filter(s, S)
<1>1. /\ f \in Seq(A)
      /\ \A i \in 1 .. Len(f) : f[i] \in S /\ \E j \in 1 .. Len(s) : s[j] = f[i]
      /\ \A j \in 1 .. Len(s) : s[j] \in S => \E i \in 1 .. Len(f) : s[j] = f[i]
  BY FilterParts
<1> HIDE DEF f
<1>2. ToSet(f) = {f[i] : i \in 1 .. Len(f)} /\ ToSet(s) = {s[i] : i \in 1 .. Len(s)}
  BY <1>1, ToSetParts
<1>3. ToSet(f) = ToSet(s) \cap S
  BY <1>1, <1>2
<1>4. QED
  BY <1>3 DEF f

\* append() keeps a book in form and remembers what it was.
LEMMA AppendedParts ==
    ASSUME NEW b \in Books, Capped(b), NEW p \in Nodes, NEW m \in Messages
    PROVE  /\ Appended(b, p, m) \in Books /\ Capped(Appended(b, p, m))
           /\ Appended(b, p, m).seen = b.seen
           /\ Appended(b, p, m).ever = b.ever \cup {m}
           /\ m \in b.ever => Appended(b, p, m).twice = b.twice \cup {m}
           /\ m \notin b.ever => Appended(b, p, m).twice = b.twice
           /\ Appended(b, p, m).evicted = b.evicted
<1> DEFINE log == Newest(Append(b.logs[p], m), MaxPerPeer)
           c == Appended(b, p, m)
<1>1. b.logs \in [Nodes -> Seq(Messages)] /\ Append(b.logs[p], m) \in Seq(Messages)
  BY DEF Books
<1>2. log \in Seq(Messages) /\ Len(log) <= MaxPerPeer
  BY <1>1, NewestParts, MessagesAssumption
<1>3. c.logs = [b.logs EXCEPT ![p] = log] /\ c.seen = b.seen
  BY DEF Appended, Books
<1>4. c.ever = b.ever \cup {m} /\ c.evicted = b.evicted
  BY DEF Appended, Books
<1>5. c.twice = IF m \in b.ever THEN b.twice \cup {m} ELSE b.twice
  BY DEF Appended, Books
<1>6. c \in Books
  BY <1>2 DEF Appended, Books
<1> HIDE DEF log, c
<1>7. Capped(c)
  BY <1>1, <1>2, <1>3, <1>4, <1>5 DEF Capped
<1>8. QED
  BY <1>3, <1>4, <1>5, <1>6, <1>7 DEF c

\* markSeen(): what is no longer seen was forgettable or driven out.
LEMMA MarkedParts ==
    ASSUME NEW b \in Books, Capped(b), NEW m \in Messages
    PROVE  /\ Marked(b, m) \in Books /\ Capped(Marked(b, m))
           /\ Marked(b, m).ever = b.ever /\ Marked(b, m).twice = b.twice
           /\ ToSet(Marked(b, m).seen) \subseteq ToSet(b.seen) \cup {m}
           /\ m \in ToSet(Marked(b, m).seen)
           /\ b.evicted \subseteq Marked(b, m).evicted
           /\ \A x \in ToSet(b.seen) :
                 \/ x \in ToSet(Marked(b, m).seen)
                 \/ Forgettable(x)
                 \/ Fresh(x) => x \in Marked(b, m).evicted
<1> DEFINE live == {x \in Messages : ~Forgettable(x)}
           kept == Filter(b.seen, live)
           room == Newest(kept, MaxSeen - 1)
           driven == {x \in ToSet(kept) \ ToSet(room) : Fresh(x)}
           c == Marked(b, m)
<1>1. b.seen \in Seq(Messages) /\ MaxSeen - 1 \in Nat
  BY MessagesAssumption DEF Books
<1>2. c.logs = b.logs /\ c.ever = b.ever /\ c.twice = b.twice
  BY DEF Marked, Books
<1>3. c.seen = Append(room, m)
  BY DEF Marked, Books
<1>4. c.evicted = b.evicted \cup driven
  BY DEF Marked, Books
<1>5. kept \in Seq(Messages)
  BY <1>1, FilterParts
<1>6. ToSet(kept) = ToSet(b.seen) \cap live
  BY <1>1, ToSetFilter
<1>7. room \in Seq(Messages) /\ Len(room) <= MaxSeen - 1 /\ ToSet(room) \subseteq ToSet(kept)
  BY <1>1, <1>5, NewestParts, ToSetNewest
<1>8. ToSet(b.seen) \subseteq Messages
  BY <1>1, ToSetParts
<1>9. driven \subseteq Messages
  BY <1>6
<1>10. /\ Append(room, m) \in Seq(Messages) /\ Len(Append(room, m)) <= MaxSeen
       /\ ToSet(Append(room, m)) = ToSet(room) \cup {m}
  <2>1. room \in Seq(Messages) /\ Len(room) <= MaxSeen - 1
    BY <1>7
  <2> HIDE DEF room
  <2>2. ToSet(Append(room, m)) = ToSet(room) \cup {m}
    BY <2>1, ToSetAppend
  <2>3. Append(room, m) \in Seq(Messages) /\ Len(Append(room, m)) = Len(room) + 1
    BY <2>1
  <2>4. Len(room) \in Nat /\ MaxSeen \in Nat
    BY <2>1, MessagesAssumption
  <2>5. QED
    BY <2>1, <2>2, <2>3, <2>4
<1>11. c \in Books
  <2>1. c = [b EXCEPT !.seen = Append(room, m), !.evicted = b.evicted \cup driven]
    BY DEF Marked
  <2> HIDE DEF c, room, driven
  <2>2. QED
    BY <1>9, <1>10, <2>1 DEF Books
<1>12. ASSUME NEW x \in ToSet(b.seen)
       PROVE  x \in ToSet(c.seen) \/ Forgettable(x) \/ (Fresh(x) => x \in c.evicted)
  <2>1. x \in ToSet(kept) \/ Forgettable(x)
    BY <1>6, <1>8
  <2>2. x \in ToSet(kept) => x \in ToSet(room) \/ ~Fresh(x) \/ x \in driven
    OBVIOUS
  <2> HIDE DEF c, room, driven, kept
  <2>3. QED
    BY <1>3, <1>4, <1>10, <2>1, <2>2
<1> HIDE DEF c, room, driven, kept
<1>13. Capped(c)
  BY <1>2, <1>3, <1>10 DEF Capped
<1>14. QED
  BY <1>2, <1>3, <1>4, <1>6, <1>7, <1>10, <1>11, <1>12, <1>13 DEF c
-----------------------------------------------------------------------------
(* The handlers.                                                           *)

\* An empty book is in form.
LEMMA NoBookParts ==
    /\ NoBook \in Books /\ Capped(NoBook)
    /\ NoBook.ever = {} /\ NoBook.twice = {} /\ NoBook.seen = <<>>
<1>1. NoBook.logs = [p \in Nodes |-> <<>>] /\ <<>> \in Seq(Messages) /\ Len(<<>>) = 0
  BY DEF NoBook
<1>2. /\ NoBook.seen = <<>> /\ NoBook.ever = {} /\ NoBook.twice = {}
      /\ NoBook \in Books
  BY <1>1 DEF NoBook, Books
<1>3. Capped(NoBook)
  BY <1>1, <1>2, MessagesAssumption DEF Capped
<1>4. QED
  BY <1>2, <1>3

\* What a handler can be at.
LEMMA WorkParts ==
    /\ Idle \in Work /\ Sound(Idle) /\ Idle.pc = "idle"
    /\ \A m \in Messages, first \in BOOLEAN :
          /\ Changed(m, first) \in Work /\ Sound(Changed(m, first))
          /\ Changed(m, first).pc = "changed" /\ Changed(m, first).msg = m
          /\ Changed(m, first).snap = NoBook
    /\ \A m \in Messages :
          /\ Waiting(m) \in Work /\ Sound(Waiting(m))
          /\ Waiting(m).pc = "sent" /\ Waiting(m).snap = NoBook
    /\ Idle.snap = NoBook
<1>1. Idle \in Work /\ Sound(Idle) /\ Idle.pc = "idle" /\ Idle.snap = NoBook
  BY NoBookParts DEF Idle, Work, Sound
<1>2. ASSUME NEW m \in Messages, NEW first \in BOOLEAN
      PROVE  /\ Changed(m, first) \in Work /\ Sound(Changed(m, first))
             /\ Changed(m, first).pc = "changed" /\ Changed(m, first).msg = m
             /\ Changed(m, first).snap = NoBook
  BY NoBookParts DEF Changed, Work, Sound
<1>3. ASSUME NEW m \in Messages
      PROVE  /\ Waiting(m) \in Work /\ Sound(Waiting(m))
             /\ Waiting(m).pc = "sent" /\ Waiting(m).snap = NoBook
  BY NoBookParts DEF Waiting, Work, Sound
<1>4. QED
  BY <1>1, <1>2, <1>3

\* One handler moves; the others stay.
Moves(w, x, n, s, v) ==
    /\ x[n][s] = v
    /\ \A k \in Nodes : \A o \in Slots[k] : k # n \/ o # s => x[k][o] = w[k][o]

\* A step that moves one handler keeps the types of all, and moves no other.
LEMMA SetWork ==
    ASSUME NEW w, WorkTyped(w), NEW n \in Nodes, NEW s \in Slots[n], NEW v \in Work, Sound(v),
           NEW x, x = [w EXCEPT ![n][s] = v]
    PROVE  /\ WorkTyped(x)
           /\ Moves(w, x, n, s, v)
<1>1. w = [k \in Nodes |-> w[k]] /\ \A k \in Nodes : w[k] \in [Slots[k] -> Work]
  BY DEF WorkTyped
<1>2. x = [k \in Nodes |-> x[k]]
  BY <1>1
<1>3. \A k \in Nodes : x[k] = IF k = n THEN [w[n] EXCEPT ![s] = v] ELSE w[k]
  BY <1>1
<1>4. [w[n] EXCEPT ![s] = v] \in [Slots[n] -> Work]
  BY <1>1
<1>5. \A o \in Slots[n] : [w[n] EXCEPT ![s] = v][o] = IF o = s THEN v ELSE w[n][o]
  BY <1>1
<1>6. \A k \in Nodes : \A o \in Slots[k] :
         x[k][o] = IF k = n /\ o = s THEN v ELSE w[k][o]
  BY <1>3, <1>5
<1>7. WorkTyped(x)
  BY <1>1, <1>2, <1>3, <1>4, <1>6 DEF WorkTyped
<1>8. Moves(w, x, n, s, v)
  BY <1>6 DEF Moves
<1>9. QED
  BY <1>7, <1>8

\* The handler of a write that begins.
Writing(n, s) == [work[n][s] EXCEPT !.pc = "writing", !.snap = book[n]]

\* What the steps do to the handlers: a write begins with the book as it is.
LEMMA WriteBeginsWork ==
    ASSUME Typed, NEW n \in Nodes, NEW s \in Slots[n], WriteBegins(n, s)
    PROVE  /\ Writing(n, s) \in Work /\ Sound(Writing(n, s))
           /\ Writing(n, s).pc = "writing" /\ Writing(n, s).snap = book[n]
           /\ Writing(n, s).msg = work[n][s].msg
           /\ work' = [work EXCEPT ![n][s] = Writing(n, s)]
<1>1. /\ work[n][s] \in Work /\ work[n] \in [Slots[n] -> Work] /\ work[n][s].msg \in Messages
      /\ book[n] \in Books /\ Capped(book[n]) /\ work = [k \in Nodes |-> work[k]]
  BY DEF Typed, WorkTyped, Sound, WriteBegins
<1>2. Writing(n, s) \in Work
  BY <1>1 DEF Work, Writing
<1>3. Sound(Writing(n, s))
  BY <1>1 DEF Sound, Writing
<1>4. work' = [work EXCEPT ![n][s] = Writing(n, s)]
  BY DEF WriteBegins, Writing
<1>5. Writing(n, s).pc = "writing" /\ Writing(n, s).snap = book[n]
  BY <1>1 DEF Work, Writing
<1>6. Writing(n, s).msg = work[n][s].msg
  BY <1>1 DEF Work, Writing
<1>7. QED
  BY <1>2, <1>3, <1>4, <1>5, <1>6

\* An answer ends a handler, and those of its sender that are told.
LEMMA AnsweredWork ==
    ASSUME Typed, NEW n \in Nodes, NEW s \in Slots[n], work[n][s].pc = "writing",
           Answered(n, s, work[n][s].msg)
    PROVE  /\ WorkTyped(work') /\ work'[n][s] = Idle
           /\ \A k \in Nodes : \A o \in Slots[k] : work'[k][o] \in {work[k][o], Idle}
           /\ n = Recipient[work[n][s].msg] /\ work[n][s].msg \in Messages
           /\ delivered' \in {delivered, delivered \cup {work[n][s].msg}}
<1> DEFINE m == work[n][s].msg
<1>1. /\ m \in Messages /\ n = Recipient[m] /\ Sender[m] \in Nodes /\ n # Sender[m]
      /\ work = [k \in Nodes |-> work[k]]
      /\ \A k \in Nodes : work[k] \in [Slots[k] -> Work] /\ \A o \in Slots[k] : Sound(work[k][o])
  BY MessagesAssumption DEF Typed, WorkTyped, Sound, Answered
<1> HIDE DEF m
<1>2. PICK told : work' = [work EXCEPT ![n][s] = Idle,
                        ![Sender[m]] = [o \in Slots[Sender[m]] |->
                            IF o \in told THEN Idle ELSE work[Sender[m]][o]]]
  BY DEF Answered, m
<1>3. delivered' \in {delivered, delivered \cup {m}}
  BY DEF Answered, m
<1> DEFINE f == [o \in Slots[Sender[m]] |-> IF o \in told THEN Idle ELSE work[Sender[m]][o]]
<1>4. /\ work' = [k \in Nodes |-> work'[k]]
      /\ work'[n] = [work[n] EXCEPT ![s] = Idle]
      /\ work'[Sender[m]] = f
      /\ \A k \in Nodes : k # n /\ k # Sender[m] => work'[k] = work[k]
  BY <1>1, <1>2
<1>5. f \in [Slots[Sender[m]] -> Work]
  BY <1>1, WorkParts
<1>6. \A o \in Slots[Sender[m]] : f[o] \in {work[Sender[m]][o], Idle}
  OBVIOUS
<1> HIDE DEF f
<1>7. /\ work'[n] \in [Slots[n] -> Work] /\ work'[n][s] = Idle
      /\ \A o \in Slots[n] : work'[n][o] \in {work[n][o], Idle}
  BY <1>1, <1>4, WorkParts
<1>8. \A k \in Nodes : work'[k] \in [Slots[k] -> Work]
  BY <1>1, <1>4, <1>5, <1>7
<1>9. \A k \in Nodes : \A o \in Slots[k] : work'[k][o] \in {work[k][o], Idle}
  BY <1>4, <1>6, <1>7
<1>10. WorkTyped(work')
  BY <1>1, <1>4, <1>8, <1>9, WorkParts DEF WorkTyped
<1>11. QED
  BY <1>1, <1>3, <1>7, <1>9, <1>10 DEF m

\* A crash ends the handlers of its node.
LEMMA CrashWork ==
    ASSUME Typed, NEW n \in Nodes, Crash(n)
    PROVE  /\ WorkTyped(work')
           /\ \A k \in Nodes : \A o \in Slots[k] :
                 work'[k][o] = IF k = n THEN Idle ELSE work[k][o]
<1>1. /\ work = [k \in Nodes |-> work[k]]
      /\ \A k \in Nodes : work[k] \in [Slots[k] -> Work] /\ \A o \in Slots[k] : Sound(work[k][o])
  BY DEF Typed, WorkTyped
<1>2. /\ work' = [k \in Nodes |-> work'[k]]
      /\ work'[n] = [o \in Slots[n] |-> Idle]
      /\ \A k \in Nodes : k # n => work'[k] = work[k]
  BY <1>1 DEF Crash
<1>3. \A k \in Nodes : \A o \in Slots[k] : work'[k][o] = IF k = n THEN Idle ELSE work[k][o]
  BY <1>2
<1>4. work'[n] \in [Slots[n] -> Work]
  BY <1>2, WorkParts
<1>5. WorkTyped(work')
  BY <1>1, <1>2, <1>3, <1>4, WorkParts DEF WorkTyped
<1>6. QED
  BY <1>3, <1>5
-----------------------------------------------------------------------------
(* Every step keeps the types.                                             *)

\* Every operation keeps the types and the caps.
LEMMA TypedStep ==
    ASSUME Typed, [Next]_vars
    PROVE  Typed'
<1> USE DEF Typed
<1>1. ASSUME NEW n \in Nodes, NEW s \in Slots[n], NEW m \in Messages, Send(n, s, m)
      PROVE  Typed'
  <2>1. Appended(book[n], Recipient[m], m) \in Books /\ Capped(Appended(book[n], Recipient[m], m))
    BY AppendedParts, MessagesAssumption
  <2>2. /\ book' \in [Nodes -> Books] /\ \A k \in Nodes : Capped(book'[k])
    BY <1>1, <2>1 DEF Send
  <2>3. WorkTyped(work')
    BY <1>1, SetWork, WorkParts DEF Send
  <2>4. age' \in [Messages -> Int]
    <3>1. -Ahead[m] \in Int
      BY MessagesAssumption
    <3>2. QED
      BY <1>1, <3>1 DEF Send, Dated
  <2>5. net' \in [Messages -> {"unsealed", "sealed", "coming", "past"}]
    BY <1>1 DEF Send
  <2>6. QED
    BY <1>1, <2>2, <2>3, <2>4, <2>5 DEF Send
<1>2. ASSUME NEW n \in Nodes, NEW s \in Slots[n], NEW m \in Messages, NEW first \in BOOLEAN,
             TakeIn(n, s, m, first)
      PROVE  Typed'
  <2>1. net' \in [Messages -> {"unsealed", "sealed", "coming", "past"}]
    BY <1>2 DEF TakeIn
  <2>2. CASE UNCHANGED <<book, work>>
    <3>1. book' = book /\ work' = work
      BY <2>2
    <3>2. QED
      BY <1>2, <2>1, <3>1 DEF TakeIn
  <2>3. CASE ~UNCHANGED <<book, work>>
    <3>1. /\ book' = [book EXCEPT ![n] = Appended(Marked(@, m), Sender[m], m)]
          /\ work' = [work EXCEPT ![n][s] = Changed(m, first)]
      BY <1>2, <2>3 DEF TakeIn, Untrusted
    <3>2. Marked(book[n], m) \in Books /\ Capped(Marked(book[n], m))
      BY MarkedParts
    <3>3. /\ Appended(Marked(book[n], m), Sender[m], m) \in Books
          /\ Capped(Appended(Marked(book[n], m), Sender[m], m))
      BY <3>2, AppendedParts, MessagesAssumption
    <3>4. /\ book' \in [Nodes -> Books] /\ \A k \in Nodes : Capped(book'[k])
      BY <3>1, <3>3
    <3>5. WorkTyped(work')
      BY <3>1, SetWork, WorkParts
    <3>6. QED
      BY <1>2, <2>1, <3>4, <3>5 DEF TakeIn
  <2>4. QED
    BY <2>2, <2>3
<1>3. ASSUME NEW n \in Nodes, NEW s \in Slots[n], WriteBegins(n, s)
      PROVE  Typed'
  <2>1. WorkTyped(work')
    BY <1>3, WriteBeginsWork, SetWork
  <2>2. QED
    BY <1>3, <2>1 DEF WriteBegins
<1>4. ASSUME NEW n \in Nodes, NEW s \in Slots[n], WriteLands(n, s)
      PROVE  Typed'
  <2>1. work[n][s] \in Work /\ Capped(work[n][s].snap) /\ work[n][s].msg \in Messages
    BY <1>4 DEF WriteLands, WorkTyped, Sound
  <2>2. disk' \in [Nodes -> Books] /\ \A k \in Nodes : Capped(disk'[k])
    BY <1>4, <2>1 DEF WriteLands, Work
  <2>3. CASE Posted(n, s, work[n][s].msg)
    <3>1. WorkTyped(work')
      BY <2>1, <2>3, SetWork, WorkParts DEF Posted
    <3>2. net' \in [Messages -> {"unsealed", "sealed", "coming", "past"}]
      BY <2>3 DEF Posted
    <3>3. QED
      BY <1>4, <2>2, <2>3, <3>1, <3>2 DEF WriteLands, Posted
  <2>4. CASE Answered(n, s, work[n][s].msg)
    <3>1. WorkTyped(work') /\ delivered' \subseteq Messages
      BY <1>4, <2>4, AnsweredWork DEF WriteLands
    <3>2. QED
      BY <1>4, <2>2, <2>4, <3>1 DEF WriteLands, Answered
  <2>5. QED
    BY <1>4, <2>3, <2>4 DEF WriteLands
<1>5. ASSUME NEW n \in Nodes, NEW s \in Slots[n], Undelivered(n, s)
      PROVE  Typed'
  <2>1. WorkTyped(work')
    BY <1>5, SetWork, WorkParts DEF Undelivered
  <2>2. net' \in [Messages -> {"unsealed", "sealed", "coming", "past"}]
    BY <1>5 DEF Undelivered
  <2>3. QED
    BY <1>5, <2>1, <2>2 DEF Undelivered
<1>6. ASSUME NEW n \in Nodes, Crash(n)
      PROVE  Typed'
  <2>1. WorkTyped(work')
    BY <1>6, CrashWork
  <2>2. QED
    BY <1>6, <2>1 DEF Crash, Restored
<1>7. CASE Pass
  <2>1. age' \in [Messages -> Int]
    BY <1>7 DEF Pass
  <2>2. QED
    BY <1>7, <2>1 DEF Pass
<1>8. CASE UNCHANGED vars
  BY <1>8 DEF vars
<1>9. QED
  BY <1>1, <1>2, <1>3, <1>4, <1>5, <1>6, <1>7, <1>8 DEF Next

\* They hold as nodes start for the first time.
LEMMA TypedInit == Init => Typed
<1> SUFFICES ASSUME Init PROVE Typed
  OBVIOUS
<1>1. WorkTyped(work)
  BY WorkParts DEF Init, WorkTyped
<1>2. QED
  BY <1>1, NoBookParts DEF Init, Typed

\* They hold for good.
LEMMA TypedHolds == Spec => []Typed
BY TypedInit, TypedStep, PTL DEF Spec

\* The caps hold for good: no log and no replay set outgrows its cap, in memory,
\* in the file or in a write that is on its way (messages.ts:126).
THEOREM TypeCorrect == Spec => []TypeOK
<1>1. ASSUME NEW b \in Books, Capped(b)
      PROVE  BookOK(b)
  <2>1. /\ b.logs \in [Nodes -> Seq(Messages)] /\ b.seen \in Seq(Messages)
        /\ b.ever \subseteq Messages /\ b.evicted \subseteq Messages
    BY DEF Books
  <2>2. /\ ToSet(b.seen) \subseteq Messages
        /\ \A p \in Nodes : ToSet(b.logs[p]) \subseteq Messages
    BY <2>1, ToSetParts
  <2>3. QED
    BY <1>1, <2>1, <2>2 DEF BookOK, Capped
<1>2. Typed => TypeOK
  <2> SUFFICES ASSUME Typed PROVE TypeOK
    OBVIOUS
  <2>1. \A n \in Nodes : BookOK(book[n]) /\ BookOK(disk[n])
    BY <1>1 DEF Typed
  <2>2. ASSUME NEW n \in Nodes, NEW s \in Slots[n]
        PROVE  /\ work[n][s].pc \in {"idle", "changed", "writing", "sent"}
               /\ work[n][s].msg \in Messages \cup {None}
               /\ BookOK(work[n][s].snap)
    <3>1. work[n][s] \in Work /\ Capped(work[n][s].snap)
      BY DEF Typed, WorkTyped, Sound
    <3>2. QED
      BY <1>1, <3>1 DEF Work
  <2>3. QED
    BY <2>1, <2>2 DEF Typed, TypeOK
<1>3. QED
  BY <1>2, TypedHolds, PTL
-----------------------------------------------------------------------------
(* TakenOnce: the ids a book has kept are enough to know a blob again.     *)

\* What a version of the book of n says of the messages it took in, with ages a
\* and blobs t: each is sealed; one taken in from another is in the replay set, or
\* the cap drove it out of it, or it is too old to be welcome again.
Owned(n, b, a, t) ==
    /\ b.twice \subseteq b.evicted
    /\ ToSet(b.seen) \subseteq b.ever
    /\ \A m \in ToSet(b.seen) : a[m] >= -MaxSkew
    /\ \A m \in b.ever :
          /\ t[m] # "unsealed"
          /\ n = Recipient[m] => m \in ToSet(b.seen) \/ m \in b.evicted \/ a[m] > MaxAge

AllOwned ==
    \A n \in Nodes :
       /\ Owned(n, book[n], age, net) /\ Owned(n, disk[n], age, net)
       /\ \A s \in Slots[n] : Owned(n, work[n][s].snap, age, net)

\* What is sealed stays sealed and gets no younger.
Grown(a, t, a1, t1) ==
    \A m \in Messages : t[m] # "unsealed" => t1[m] # "unsealed" /\ a1[m] >= a[m]

\* No operation makes a sealed message younger or unsealed.
LEMMA GrownStep ==
    ASSUME Typed, [Next]_vars
    PROVE  Grown(age, net, age', net')
<1>0. \A m \in Messages : age[m] \in Int /\ age[m] >= age[m]
  BY DEF Typed
<1>1. ASSUME NEW n \in Nodes, NEW s \in Slots[n], NEW m \in Messages, Send(n, s, m)
      PROVE  Grown(age, net, age', net')
  BY <1>0, <1>1 DEF Send, Dated, Grown, Typed
<1>2. ASSUME NEW n \in Nodes, NEW s \in Slots[n], NEW m \in Messages, NEW first \in BOOLEAN,
             TakeIn(n, s, m, first)
      PROVE  Grown(age, net, age', net')
  BY <1>0, <1>2 DEF TakeIn, Grown, Typed
<1>3. ASSUME NEW n \in Nodes, NEW s \in Slots[n], WriteBegins(n, s)
      PROVE  Grown(age, net, age', net')
  BY <1>0, <1>3 DEF WriteBegins, Grown
<1>4. ASSUME NEW n \in Nodes, NEW s \in Slots[n], WriteLands(n, s)
      PROVE  Grown(age, net, age', net')
  BY <1>0, <1>4 DEF WriteLands, Posted, Answered, Grown, Typed
<1>5. ASSUME NEW n \in Nodes, NEW s \in Slots[n], Undelivered(n, s)
      PROVE  Grown(age, net, age', net')
  BY <1>0, <1>5 DEF Undelivered, Grown, Typed
<1>6. ASSUME NEW n \in Nodes, Crash(n)
      PROVE  Grown(age, net, age', net')
  BY <1>0, <1>6 DEF Crash, Grown
<1>7. CASE Pass
  BY <1>0, <1>7 DEF Pass, Grown
<1>8. CASE UNCHANGED vars
  BY <1>0, <1>8 DEF vars, Grown
<1>9. QED
  BY <1>1, <1>2, <1>3, <1>4, <1>5, <1>6, <1>7, <1>8 DEF Next

\* What a book says stays true while its messages age.
LEMMA OwnedGrown ==
    ASSUME NEW n \in Nodes, NEW b \in Books, NEW a \in [Messages -> Int],
           NEW a1 \in [Messages -> Int], NEW t, NEW t1, Owned(n, b, a, t), Grown(a, t, a1, t1)
    PROVE  Owned(n, b, a1, t1)
<1>1. b.ever \subseteq Messages /\ MaxAge \in Int /\ MaxSkew \in Int
  BY MessagesAssumption DEF Books
<1>2. QED
  BY <1>1 DEF Owned, Grown

\* An empty book says nothing.
LEMMA OwnedNoBook ==
    ASSUME NEW n, NEW a, NEW t
    PROVE  Owned(n, NoBook, a, t)
<1>1. ToSet(<<>>) = {}
  BY DEF ToSet
<1>2. QED
  BY <1>1, NoBookParts DEF Owned

\* A copy of what was just sealed is nothing that was taken in.
LEMMA OwnedCopy ==
    ASSUME NEW n \in Nodes, NEW b \in Books, Capped(b), NEW p \in Nodes, NEW m \in Messages,
           NEW a, NEW t, NEW a1, NEW t1, n = Sender[m], t[m] = "unsealed",
           Owned(n, b, a, t), Owned(n, b, a1, t1), t1[m] # "unsealed"
    PROVE  Owned(n, Appended(b, p, m), a1, t1)
<1> DEFINE c == Appended(b, p, m)
<1>1. m \notin b.ever /\ n # Recipient[m]
  BY MessagesAssumption DEF Owned
<1>2. c.seen = b.seen /\ c.ever = b.ever \cup {m} /\ c.twice = b.twice /\ c.evicted = b.evicted
  BY <1>1, AppendedParts
<1> HIDE DEF c
<1>3. Owned(n, c, a1, t1)
  BY <1>1, <1>2 DEF Owned
<1>4. QED
  BY <1>3 DEF c

\* A blob that is welcome was not taken in before, or the cap has forgotten it.
LEMMA OwnedTakenIn ==
    ASSUME Typed, NEW n \in Nodes, NEW b \in Books, Capped(b), NEW p \in Nodes, NEW m \in Messages,
           Owned(n, b, age, net), Welcome(b, m), n = Recipient[m], net[m] # "unsealed"
    PROVE  Owned(n, Appended(Marked(b, m), p, m), age, net)
<1> DEFINE d == Marked(b, m)
           c == Appended(d, p, m)
<1>1. /\ d \in Books /\ Capped(d) /\ d.ever = b.ever /\ d.twice = b.twice
      /\ ToSet(d.seen) \subseteq ToSet(b.seen) \cup {m} /\ m \in ToSet(d.seen)
      /\ b.evicted \subseteq d.evicted
      /\ \A x \in ToSet(b.seen) :
            x \in ToSet(d.seen) \/ Forgettable(x) \/ (Fresh(x) => x \in d.evicted)
  BY MarkedParts
<1> HIDE DEF d
<1>2. /\ c.seen = d.seen /\ c.ever = d.ever \cup {m} /\ c.evicted = d.evicted
      /\ c.twice \subseteq d.twice \cup {m}
      /\ m \notin d.ever => c.twice = d.twice
  <2>1. d \in Books /\ Capped(d)
    BY <1>1
  <2>2. QED
    BY <2>1, AppendedParts
<1> HIDE DEF c
<1>3. MaxAge \in Nat /\ MaxSkew \in Nat /\ age \in [Messages -> Int]
  BY MessagesAssumption DEF Typed
<1>4. m \notin ToSet(b.seen) /\ age[m] <= MaxAge /\ age[m] >= -MaxSkew
  <2>1. b.seen \in Seq(Messages)
    BY DEF Books
  <2>2. ToSet(b.seen) = {b.seen[i] : i \in 1 .. Len(b.seen)}
    BY <2>1, ToSetParts
  <2>3. QED
    BY <2>2 DEF Welcome, Fresh, Contains
<1>5. m \in b.ever => m \in b.evicted
  <2>1. age[m] \in Int /\ ~(age[m] > MaxAge)
    BY <1>3, <1>4
  <2>2. QED
    BY <1>4, <2>1 DEF Owned
<1>6. c.twice \subseteq c.evicted
  BY <1>1, <1>2, <1>5 DEF Owned
<1>7. ToSet(c.seen) \subseteq c.ever /\ \A x \in ToSet(c.seen) : age[x] >= -MaxSkew
  BY <1>1, <1>2, <1>4 DEF Owned
<1>8. ASSUME NEW x \in ToSet(b.seen)
      PROVE  x \in ToSet(d.seen) \/ age[x] > MaxAge \/ x \in d.evicted
  <2>1. x \in Messages /\ age[x] >= -MaxSkew /\ age[x] \in Int
    BY <1>3 DEF Owned, Books
  <2>2. Forgettable(x) => age[x] > MaxAge
    BY <1>3, <2>1 DEF Forgettable
  <2>3. ~Fresh(x) => age[x] > MaxAge
    BY <1>3, <2>1 DEF Fresh
  <2>4. QED
    BY <1>1, <2>2, <2>3
<1>9. \A x \in c.ever : /\ net[x] # "unsealed"
                        /\ n = Recipient[x] =>
                              x \in ToSet(c.seen) \/ x \in c.evicted \/ age[x] > MaxAge
  <2>1. ASSUME NEW x \in b.ever
        PROVE  net[x] # "unsealed" /\ (n = Recipient[x] =>
                  x \in ToSet(d.seen) \/ x \in d.evicted \/ age[x] > MaxAge)
    BY <1>1, <1>8 DEF Owned
  <2>2. QED
    BY <1>1, <1>2, <2>1
<1>10. Owned(n, c, age, net)
  BY <1>6, <1>7, <1>9 DEF Owned
<1>11. QED
  BY <1>10 DEF c, d

\* Every operation keeps what the versions of the books say.
LEMMA OwnedStep ==
    ASSUME Typed, AllOwned, [Next]_vars
    PROVE  AllOwned'
<1> DEFINE Mine(n, b) == Owned(n, b, age', net')
<1>1. /\ book \in [Nodes -> Books] /\ disk \in [Nodes -> Books]
      /\ age \in [Messages -> Int] /\ age' \in [Messages -> Int]
      /\ \A n \in Nodes : Capped(book[n])
  BY TypedStep DEF Typed
<1>2. \A n \in Nodes : \A s \in Slots[n] : work[n][s] \in Work /\ work[n][s].snap \in Books
  BY DEF Typed, WorkTyped, Work
<1>3. Grown(age, net, age', net')
  BY GrownStep
<1>4. \A n \in Nodes : Mine(n, book[n]) /\ Mine(n, disk[n])
  BY <1>1, <1>3, OwnedGrown DEF AllOwned
<1>5. \A n \in Nodes : \A s \in Slots[n] : Mine(n, work[n][s].snap)
  BY <1>1, <1>2, <1>3, OwnedGrown DEF AllOwned
<1>6. \A n \in Nodes : Mine(n, NoBook)
  BY OwnedNoBook
<1> HIDE DEF Mine
<1> SUFFICES /\ \A n \in Nodes : Mine(n, book'[n]) /\ Mine(n, disk'[n])
             /\ \A n \in Nodes : \A s \in Slots[n] : Mine(n, work'[n][s].snap)
  BY DEF AllOwned, Mine
<1>7. ASSUME NEW n \in Nodes, NEW s \in Slots[n], NEW v \in Work, Sound(v),
             work' = [work EXCEPT ![n][s] = v], Mine(n, v.snap)
      PROVE  \A k \in Nodes : \A o \in Slots[k] : Mine(k, work'[k][o].snap)
  <2>1. /\ work'[n][s] = v
        /\ \A k \in Nodes : \A o \in Slots[k] :
              k # n \/ o # s => work'[k][o] = work[k][o]
    <3>1. WorkTyped(work)
      BY DEF Typed
    <3>2. Moves(work, work', n, s, v)
      BY <1>7, <3>1, SetWork
    <3>3. QED
      BY <3>2 DEF Moves
  <2>2. QED
    BY <1>5, <1>7, <2>1
<1>8. ASSUME NEW n \in Nodes, NEW s \in Slots[n], NEW m \in Messages, Send(n, s, m)
      PROVE  /\ \A k \in Nodes : Mine(k, book'[k]) /\ Mine(k, disk'[k])
             /\ \A k \in Nodes : \A o \in Slots[k] : Mine(k, work'[k][o].snap)
  <2>1. Owned(n, Appended(book[n], Recipient[m], m), age', net')
    <3>1. /\ n = Sender[m] /\ net[m] = "unsealed" /\ net'[m] # "unsealed"
          /\ Recipient[m] \in Nodes
      BY <1>8, MessagesAssumption DEF Send, Typed
    <3>2. Owned(n, book[n], age, net) /\ Owned(n, book[n], age', net')
      BY <1>4 DEF AllOwned, Mine
    <3>3. QED
      BY <1>1, <3>1, <3>2, OwnedCopy
  <2>2. \A k \in Nodes : Mine(k, book'[k]) /\ Mine(k, disk'[k])
    BY <1>1, <1>4, <1>8, <2>1 DEF Send, Mine
  <2>3. QED
    BY <1>6, <1>7, <1>8, <2>2, WorkParts DEF Send
<1>9. ASSUME NEW n \in Nodes, NEW s \in Slots[n], NEW m \in Messages, NEW first \in BOOLEAN,
             TakeIn(n, s, m, first)
      PROVE  /\ \A k \in Nodes : Mine(k, book'[k]) /\ Mine(k, disk'[k])
             /\ \A k \in Nodes : \A o \in Slots[k] : Mine(k, work'[k][o].snap)
  <2>1. CASE UNCHANGED <<book, work>>
    <3>1. book' = book /\ work' = work /\ disk' = disk
      BY <1>9, <2>1 DEF TakeIn
    <3>2. QED
      BY <1>4, <1>5, <3>1
  <2>2. CASE ~UNCHANGED <<book, work>>
    <3>1. /\ book' = [book EXCEPT ![n] = Appended(Marked(@, m), Sender[m], m)]
          /\ work' = [work EXCEPT ![n][s] = Changed(m, first)]
          /\ Welcome(book[n], m) /\ n = Recipient[m] /\ net[m] # "unsealed"
          /\ age' = age /\ disk' = disk
      BY <1>9, <2>2 DEF TakeIn, Untrusted
    <3>2. Owned(n, book[n], age, net) /\ Sender[m] \in Nodes
      BY MessagesAssumption DEF AllOwned
    <3>3. Owned(n, Appended(Marked(book[n], m), Sender[m], m), age, net)
      BY <1>1, <3>1, <3>2, OwnedTakenIn
    <3>4. Appended(Marked(book[n], m), Sender[m], m) \in Books
      <4>1. Marked(book[n], m) \in Books /\ Capped(Marked(book[n], m))
        BY <1>1, MarkedParts
      <4>2. QED
        BY <3>2, <4>1, AppendedParts
    <3>5. Mine(n, Appended(Marked(book[n], m), Sender[m], m))
      BY <1>1, <1>3, <3>3, <3>4, OwnedGrown DEF Mine
    <3>6. \A k \in Nodes : Mine(k, book'[k]) /\ Mine(k, disk'[k])
      BY <1>1, <1>4, <3>1, <3>5
    <3>7. QED
      BY <1>6, <1>7, <3>1, <3>6, WorkParts
  <2>3. QED
    BY <2>1, <2>2
<1>10. ASSUME NEW n \in Nodes, NEW s \in Slots[n], WriteBegins(n, s)
      PROVE  /\ \A k \in Nodes : Mine(k, book'[k]) /\ Mine(k, disk'[k])
             /\ \A k \in Nodes : \A o \in Slots[k] : Mine(k, work'[k][o].snap)
  <2>1. book' = book /\ disk' = disk
    BY <1>10 DEF WriteBegins
  <2>2. QED
    BY <1>4, <1>7, <1>10, <2>1, WriteBeginsWork
<1>11. ASSUME NEW n \in Nodes, NEW s \in Slots[n], WriteLands(n, s)
      PROVE  /\ \A k \in Nodes : Mine(k, book'[k]) /\ Mine(k, disk'[k])
             /\ \A k \in Nodes : \A o \in Slots[k] : Mine(k, work'[k][o].snap)
  <2>1. /\ work[n][s].msg \in Messages /\ work[n][s].pc = "writing"
        /\ book' = book /\ disk' = [disk EXCEPT ![n] = work[n][s].snap]
    BY <1>11 DEF WriteLands, Typed, WorkTyped, Sound
  <2>2. \A k \in Nodes : Mine(k, book'[k]) /\ Mine(k, disk'[k])
    BY <1>1, <1>4, <1>5, <2>1
  <2>3. CASE Posted(n, s, work[n][s].msg)
    BY <1>6, <1>7, <2>1, <2>2, <2>3, WorkParts DEF Posted
  <2>4. CASE Answered(n, s, work[n][s].msg)
    BY <1>5, <1>6, <2>1, <2>2, <2>4, AnsweredWork, WorkParts
  <2>5. QED
    BY <1>11, <2>3, <2>4 DEF WriteLands
<1>12. ASSUME NEW n \in Nodes, NEW s \in Slots[n], Undelivered(n, s)
      PROVE  /\ \A k \in Nodes : Mine(k, book'[k]) /\ Mine(k, disk'[k])
             /\ \A k \in Nodes : \A o \in Slots[k] : Mine(k, work'[k][o].snap)
  BY <1>4, <1>6, <1>7, <1>12, WorkParts DEF Undelivered
<1>13. ASSUME NEW n \in Nodes, Crash(n)
      PROVE  /\ \A k \in Nodes : Mine(k, book'[k]) /\ Mine(k, disk'[k])
             /\ \A k \in Nodes : \A o \in Slots[k] : Mine(k, work'[k][o].snap)
  <2>1. \A k \in Nodes : Mine(k, book'[k]) /\ Mine(k, disk'[k])
    BY <1>1, <1>4, <1>13 DEF Crash, Restored
  <2>2. QED
    BY <1>5, <1>6, <1>13, <2>1, CrashWork, WorkParts
<1>14. CASE Pass
  BY <1>4, <1>5, <1>14 DEF Pass
<1>15. CASE UNCHANGED vars
  BY <1>4, <1>5, <1>15 DEF vars
<1>16. QED
  BY <1>8, <1>9, <1>10, <1>11, <1>12, <1>13, <1>14, <1>15 DEF Next

\* The books are empty at first.
LEMMA OwnedInit == Init => AllOwned
<1> SUFFICES ASSUME Init PROVE AllOwned
  OBVIOUS
<1>1. \A n \in Nodes : /\ book[n] = NoBook /\ disk[n] = NoBook
                       /\ \A s \in Slots[n] : work[n][s].snap = NoBook
  BY WorkParts DEF Init
<1>2. QED
  BY <1>1, OwnedNoBook DEF AllOwned

\* A blob that comes again, after any crash, loss, prune or overlapping handler,
\* is not taken in again, unless the cap has driven its id out (messages.ts:17, 133).
THEOREM TakenOnceHolds == Spec => []TakenOnce
<1>1. AllOwned => TakenOnce
  BY DEF AllOwned, Owned, TakenOnce
<1>2. Spec => []AllOwned
  BY OwnedInit, OwnedStep, TypedHolds, PTL DEF Spec
<1>3. QED
  BY <1>1, <1>2, PTL
-----------------------------------------------------------------------------
(* DeliveredKept: what is answered is in the file.                         *)

\* A handler that has taken a message in finds it in the book, and in what it
\* writes; the file never runs ahead of the book; and where no two writes were
\* in flight at once, the write in flight runs ahead of the file.
AllKept ==
    /\ \A n \in Nodes :
          /\ disk[n].ever \subseteq book[n].ever
          /\ \A s \in Slots[n] :
                /\ work[n][s].pc = "changed" => work[n][s].msg \in book[n].ever
                /\ work[n][s].pc = "writing" =>
                      /\ work[n][s].msg \in work[n][s].snap.ever
                      /\ work[n][s].snap.ever \subseteq book[n].ever
                      /\ n \notin overlapped =>
                            /\ disk[n].ever \subseteq work[n][s].snap.ever
                            /\ \A o \in Slots[n] : work[n][o].pc = "writing" => o = s
    /\ DeliveredKept

\* Every operation keeps the order of file, write and book.
LEMMA KeptStep ==
    ASSUME Typed, AllKept, [Next]_vars
    PROVE  AllKept'
<1>1. /\ book \in [Nodes -> Books] /\ disk \in [Nodes -> Books]
      /\ WorkTyped(work) /\ \A n \in Nodes : Capped(book[n])
  BY DEF Typed
<1>2. \A n \in Nodes : \A s \in Slots[n] :
         work[n][s].pc # "idle" => work[n][s].msg \in Messages
  BY <1>1 DEF WorkTyped, Sound
<1>3. ASSUME NEW n \in Nodes, NEW s \in Slots[n], NEW v \in Work, Sound(v),
             work' = [work EXCEPT ![n][s] = v]
      PROVE  Moves(work, work', n, s, v)
  BY <1>1, <1>3, SetWork
<1>4. ASSUME NEW n \in Nodes, NEW s \in Slots[n], NEW b \in Books, NEW m \in Messages,
             NEW first \in BOOLEAN, book' = [book EXCEPT ![n] = b],
             work' = [work EXCEPT ![n][s] = Changed(m, first)],
             b.ever = book[n].ever \cup {m}, work[n][s].pc = "idle",
             UNCHANGED <<disk, delivered, overlapped>>
      PROVE  AllKept'
  <2>1. /\ book'[n].ever = book[n].ever \cup {m}
        /\ \A k \in Nodes : k # n => book'[k] = book[k]
    BY <1>1, <1>4
  <2>2. /\ work'[n][s].pc = "changed" /\ work'[n][s].msg = m
        /\ \A k \in Nodes : \A o \in Slots[k] :
              k # n \/ o # s => work'[k][o] = work[k][o]
    <3>1. Moves(work, work', n, s, Changed(m, first))
      BY <1>3, <1>4, WorkParts
    <3>2. QED
      BY <3>1, WorkParts DEF Moves
  <2>3. \A k \in Nodes : book[k].ever \subseteq book'[k].ever
    BY <2>1
  <2>4. DeliveredKept'
    BY <1>4 DEF AllKept, DeliveredKept, Kept
  <2>5. QED
    BY <1>4, <2>1, <2>2, <2>3, <2>4 DEF AllKept
<1>5. ASSUME NEW n \in Nodes, NEW s \in Slots[n], NEW m \in Messages, Send(n, s, m)
      PROVE  AllKept'
  <2>1. /\ Appended(book[n], Recipient[m], m) \in Books
        /\ Appended(book[n], Recipient[m], m).ever = book[n].ever \cup {m}
    BY <1>1, AppendedParts, MessagesAssumption
  <2>2. QED
    BY <1>4, <1>5, <2>1, WorkParts DEF Send
<1>6. ASSUME NEW n \in Nodes, NEW s \in Slots[n], NEW m \in Messages, NEW first \in BOOLEAN,
             TakeIn(n, s, m, first)
      PROVE  AllKept'
  <2>1. CASE UNCHANGED <<book, work>>
    <3>1. UNCHANGED <<book, work, disk, delivered, overlapped>>
      BY <1>6, <2>1 DEF TakeIn
    <3>2. QED
      BY <3>1 DEF AllKept, DeliveredKept, Kept
  <2>2. CASE ~UNCHANGED <<book, work>>
    <3>1. /\ book' = [book EXCEPT ![n] = Appended(Marked(@, m), Sender[m], m)]
          /\ work' = [work EXCEPT ![n][s] = Changed(m, first)]
          /\ UNCHANGED <<disk, delivered, overlapped>>
          /\ work[n][s].pc = "idle"
      BY <1>6, <2>2, WorkParts DEF TakeIn, Untrusted
    <3>2. /\ Marked(book[n], m) \in Books /\ Capped(Marked(book[n], m))
          /\ Marked(book[n], m).ever = book[n].ever
      BY <1>1, MarkedParts
    <3>3. /\ Appended(Marked(book[n], m), Sender[m], m) \in Books
          /\ Appended(Marked(book[n], m), Sender[m], m).ever = book[n].ever \cup {m}
      BY <3>2, AppendedParts, MessagesAssumption
    <3>4. QED
      BY <1>4, <3>1, <3>3
  <2>3. QED
    BY <2>1, <2>2
<1>7. ASSUME NEW n \in Nodes, NEW s \in Slots[n], WriteBegins(n, s)
      PROVE  AllKept'
  <2>1. /\ work[n][s].pc = "changed" /\ UNCHANGED <<book, disk, delivered>>
        /\ overlapped \subseteq overlapped'
        /\ n \notin overlapped' => \A o \in Slots[n] : work[n][o].pc # "writing"
    BY <1>7 DEF WriteBegins
  <2>2. /\ work'[n][s].pc = "writing" /\ work'[n][s].snap = book[n]
        /\ work'[n][s].msg = work[n][s].msg
        /\ \A k \in Nodes : \A o \in Slots[k] :
              k # n \/ o # s => work'[k][o] = work[k][o]
    <3>1. Moves(work, work', n, s, Writing(n, s))
      BY <1>3, <1>7, WriteBeginsWork
    <3>2. QED
      BY <1>7, <3>1, WriteBeginsWork DEF Moves
  <2>3. DeliveredKept'
    BY <2>1 DEF AllKept, DeliveredKept, Kept
  <2>4. QED
    BY <2>1, <2>2, <2>3 DEF AllKept
<1>8. ASSUME NEW n \in Nodes, NEW s \in Slots[n], WriteLands(n, s)
      PROVE  AllKept'
  <2> DEFINE m == work[n][s].msg
  <2>1. /\ m \in Messages /\ work[n][s].pc = "writing" /\ UNCHANGED <<book, overlapped>>
        /\ disk' = [disk EXCEPT ![n] = work[n][s].snap]
        /\ Posted(n, s, m) \/ Answered(n, s, m)
    BY <1>2, <1>8 DEF WriteLands
  <2>2. /\ disk'[n].ever = work[n][s].snap.ever
        /\ \A k \in Nodes : k # n => disk'[k] = disk[k]
    BY <1>1, <2>1
  <2>3. /\ work'[n][s].pc \in {"idle", "sent"}
        /\ \A k \in Nodes : \A o \in Slots[k] :
              k # n \/ o # s => work'[k][o] = work[k][o] \/ work'[k][o].pc = "idle"
        /\ delivered' \subseteq delivered \cup {m}
        /\ m \in delivered' \ delivered => n = Recipient[m]
    <3>1. CASE Posted(n, s, m)
      <4>1. Moves(work, work', n, s, Waiting(m)) /\ delivered' = delivered
        BY <1>3, <2>1, <3>1, WorkParts DEF Posted
      <4>2. QED
        BY <2>1, <4>1, WorkParts DEF Moves
    <3>2. CASE Answered(n, s, m)
      BY <2>1, <3>2, AnsweredWork, WorkParts
    <3>3. QED
      BY <2>1, <3>1, <3>2
  <2> HIDE DEF m
  <2>4. /\ m \in work[n][s].snap.ever /\ work[n][s].snap.ever \subseteq book[n].ever
        /\ n \notin overlapped => /\ disk[n].ever \subseteq work[n][s].snap.ever
                                  /\ \A o \in Slots[n] : work[n][o].pc = "writing" => o = s
    BY <2>1 DEF AllKept, m
  <2>5. \A x \in delivered' : x \in disk'[Recipient[x]].ever \/ Recipient[x] \in overlapped
    <3>1. \A x \in delivered : x \in disk[Recipient[x]].ever \/ Recipient[x] \in overlapped
      BY DEF AllKept, DeliveredKept, Kept
    <3>2. \A x \in delivered : Recipient[x] \in Nodes
      BY MessagesAssumption DEF Typed
    <3>3. QED
      BY <2>2, <2>3, <2>4, <3>1, <3>2
  <2>6. DeliveredKept'
    BY <2>1, <2>5 DEF DeliveredKept, Kept
  <2>7. \A k \in Nodes : disk'[k].ever \subseteq book'[k].ever
    BY <2>1, <2>2, <2>4 DEF AllKept
  <2>8. ASSUME NEW k \in Nodes, NEW o \in Slots[k], work'[k][o].pc \in {"changed", "writing"}
        PROVE  /\ work'[k][o] = work[k][o] /\ (k # n \/ o # s)
    BY <2>3, <2>8
  <2>9. QED
    BY <2>1, <2>2, <2>4, <2>6, <2>7, <2>8 DEF AllKept
<1>9. ASSUME NEW n \in Nodes, NEW s \in Slots[n], Undelivered(n, s)
      PROVE  AllKept'
  <2>1. /\ work'[n][s].pc = "idle" /\ UNCHANGED <<book, disk, delivered, overlapped>>
        /\ \A k \in Nodes : \A o \in Slots[k] :
              k # n \/ o # s => work'[k][o] = work[k][o]
    <3>1. Moves(work, work', n, s, Idle)
      BY <1>3, <1>9, WorkParts DEF Undelivered
    <3>2. QED
      BY <1>9, <3>1, WorkParts DEF Moves, Undelivered
  <2>2. DeliveredKept'
    BY <2>1 DEF AllKept, DeliveredKept, Kept
  <2>3. QED
    BY <2>1, <2>2 DEF AllKept
<1>10. ASSUME NEW n \in Nodes, Crash(n)
       PROVE  AllKept'
  <2>1. /\ UNCHANGED <<disk, delivered, overlapped>>
        /\ book'[n] = disk[n] /\ \A k \in Nodes : k # n => book'[k] = book[k]
    BY <1>1, <1>10 DEF Crash, Restored
  <2>2. \A k \in Nodes : \A o \in Slots[k] :
           IF k = n THEN work'[k][o].pc = "idle" ELSE work'[k][o] = work[k][o]
    BY <1>10, CrashWork, WorkParts
  <2>3. DeliveredKept'
    BY <2>1 DEF AllKept, DeliveredKept, Kept
  <2>4. QED
    BY <2>1, <2>2, <2>3 DEF AllKept
<1>11. CASE Pass
  BY <1>11 DEF Pass, AllKept, DeliveredKept, Kept
<1>12. CASE UNCHANGED vars
  BY <1>12 DEF vars, AllKept, DeliveredKept, Kept
<1>13. QED
  BY <1>5, <1>6, <1>7, <1>8, <1>9, <1>10, <1>11, <1>12 DEF Next

\* It holds of empty books and files.
LEMMA KeptInit == Init => AllKept
<1> SUFFICES ASSUME Init PROVE AllKept
  OBVIOUS
<1>1. \A n \in Nodes : /\ book[n] = NoBook /\ disk[n] = NoBook
                       /\ \A s \in Slots[n] : work[n][s].pc = "idle"
  BY WorkParts DEF Init
<1>2. QED
  BY <1>1 DEF Init, AllKept, DeliveredKept

\* A sender that is told "delivered" (main.ts:846) is right for good: the message
\* is in its recipient's file, or was, unless two saves of the recipient overlapped.
THEOREM DeliveredKeptHolds == Spec => []DeliveredKept
<1>1. AllKept => DeliveredKept
  BY DEF AllKept
<1>2. Spec => []AllKept
  BY KeptInit, KeptStep, TypedHolds, PTL DEF Spec
<1>3. QED
  BY <1>1, <1>2, PTL
=============================================================================
