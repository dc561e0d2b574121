----------------------------- MODULE ShareProofs -----------------------------
(* Proofs about Share for every value of its constants. *)
EXTENDS Share, FiniteSetTheorems, TLAPS

\* A call's parts: what an add, a removal or a download still needs is there, and of an add
\* whose body is being read the caller is known; a friend with its own address
\* is known by its own name.
CallOK(c) ==
    /\ c \in CallSet
    /\ c.op = "add" /\ c.stage \in {"sent", "reading"} => c.file \in Files
    /\ c.stage = "reading" => c.node \in Spokes \cup {Hub} /\ (c.friend => c.node = c.from)
    /\ c.op # "add" /\ c.stage = "sent" => c.meant \in RowSet

\* A row that somebody means to remove or read has had its number for good.
Fits(m) == m.id < nextId /\ \A r \in rows : r.id = m.id => r = m

MeantOK(c) == backend = "sqlite" /\ c.meant # None => Fits(c.meant)

Inv ==
    /\ TypeOK
    /\ \A k \in Slots : calls[k] # None => CallOK(calls[k]) /\ MeantOK(calls[k])
    /\ RightlyNamed /\ AckedListed

\* What is known of a call that is under way.
LEMMA CallParts ==
    ASSUME Inv, NEW k \in Slots, calls[k] # None
    PROVE  CallOK(calls[k]) /\ MeantOK(calls[k]) /\ calls[k] \in CallSet
BY DEF Inv, CallOK

\* friendByWg0(): exactly one friend has the address, or nobody is let in.
LEMMA NodeKnown ==
    ASSUME claim \in [Spokes -> Spokes \cup {Hub, None}], NEW ip, Node(ip) # None
    PROVE  /\ Node(ip) \in Spokes \cup {Hub}
           /\ \A s \in Spokes : ip # Hub /\ claim[s] = ip => Node(ip) = s
<1>1. CASE ip = Hub
  BY <1>1 DEF Node
<1>2. CASE ip # Hub
  <2>1. Cardinality(Claimants(ip)) = 1 /\ Node(ip) = CHOOSE s \in Spokes : claim[s] = ip
    BY <1>2 DEF Node
  <2>2. IsFiniteSet(Claimants(ip))
    BY ShareAssumption, FS_Subset DEF Claimants
  <2>3. PICK s : Claimants(ip) = {s}
    BY <2>1, <2>2, FS_Singleton
  <2>4. s \in Spokes /\ claim[s] = ip /\ \A x \in Spokes : claim[x] = ip => x = s
    BY <2>3 DEF Claimants
  <2>5. Node(ip) = s
    BY <2>1, <2>4
  <2>6. QED
    BY <2>4, <2>5
<1>3. QED
  BY <1>1, <1>2

\* A call that is answered needs nothing more.
LEMMA AnswerOK ==
    ASSUME NEW c \in CallSet, NEW r \in RowSet \cup {None}, Answer(c, r) # None
    PROVE  CallOK(Answer(c, r)) /\ Answer(c, r).meant = None
BY DEF Answer, CallOK, CallSet

\* A call whose answer is lost needs nothing more.
LEMMA GoneOK ==
    ASSUME NEW c \in CallSet
    PROVE  CallOK(Gone(c)) /\ Gone(c).meant = None
BY DEF Gone, CallOK, CallSet

\* A step that leaves the table alone, and gives each call one that may be there.
LEMMA CallStep ==
    ASSUME Inv, UNCHANGED <<backend, rows, nextId, acked>>,
           claim' \in [Spokes -> Spokes \cup {Hub, None}],
           NEW k \in Slots, NEW c, calls' = [calls EXCEPT ![k] = c],
           c # None => CallOK(c) /\ MeantOK(c)
    PROVE  Inv'
<1>1. c \in CallSet \cup {None}
  BY DEF CallOK
<1>2. calls' \in [Slots -> CallSet \cup {None}]
  BY <1>1 DEF Inv, TypeOK
<1>3. TypeOK'
  BY <1>2 DEF Inv, TypeOK
<1>4. ASSUME NEW j \in Slots, calls'[j] # None
      PROVE  CallOK(calls'[j]) /\ MeantOK(calls[j])'
  <2>1. calls'[j] = IF j = k THEN c ELSE calls[j]
    BY DEF Inv, TypeOK
  <2>2. CallOK(calls'[j]) /\ MeantOK(calls'[j])
    BY <1>4, <2>1 DEF Inv
  <2>3. QED
    BY <2>2 DEF MeantOK, Fits
<1>5. RightlyNamed'
  BY DEF Inv, RightlyNamed
<1>6. AckedListed'
  BY DEF Inv, AckedListed
<1>7. QED
  BY <1>3, <1>4, <1>5, <1>6 DEF Inv
-----------------------------------------------------------------------------
(* Each action keeps the invariant.                                        *)

\* The invariant holds at the start: no rows and no calls.
LEMMA InvInit == Init => Inv
BY ShareAssumption DEF Init, Inv, TypeOK, RightlyNamed, AckedListed

\* A friend is made or removed: names already given stay.
LEMMA StepFriendship ==
    ASSUME Inv, NEW s \in Spokes, Befriend(s) \/ Unfriend(s)
    PROVE  Inv'
<1>1. claim' \in [Spokes -> Spokes \cup {Hub, None}]
  BY ShareAssumption DEF Inv, TypeOK, Befriend, Unfriend
<1>2. UNCHANGED <<backend, rows, nextId, acked, calls>>
  BY DEF Befriend, Unfriend, storeVars
<1>3. TypeOK'
  BY <1>1, <1>2 DEF Inv, TypeOK
<1>4. ASSUME NEW k \in Slots, calls'[k] # None PROVE CallOK(calls'[k]) /\ MeantOK(calls[k])'
  BY <1>2, <1>4 DEF Inv, MeantOK, Fits
<1>5. RightlyNamed' /\ AckedListed'
  BY <1>2 DEF Inv, RightlyNamed, AckedListed
<1>6. QED
  BY <1>3, <1>4, <1>5 DEF Inv

\* A caller starts an add, a removal or a download.
LEMMA StepCall ==
    ASSUME Inv, NEW k \in Slots, NEW c \in Users,
           (\E f \in Files : CallsAdd(k, c, f)) \/ (\E r \in Listed(c) : CallsRemove(k, c, r) \/ CallsGet(k, c, r))
    PROVE  Inv'
<1>1. PICK op \in {"add", "remove", "get"}, f \in Files \cup {None}, r \in rows \cup {None} :
        /\ Call(k, op, c, f, r)
        /\ op = "add" => f \in Files /\ r = None
        /\ op # "add" => r \in rows
  BY DEF CallsAdd, CallsRemove, CallsGet, Listed
<1> DEFINE x == [op |-> op, from |-> c, file |-> f, meant |-> r, stage |-> "sent",
                 waited |-> TRUE, node |-> None, friend |-> FALSE, row |-> None]
<1>2. /\ calls' = [calls EXCEPT ![k] = x]
      /\ UNCHANGED <<backend, rows, nextId, acked, claim>>
  BY <1>1 DEF Call, storeVars
<1>3. rows \subseteq RowSet
  BY DEF Inv, TypeOK
<1>4. CallOK(x)
  BY <1>1, <1>3 DEF CallOK, CallSet
<1>5. MeantOK(x)
  BY <1>1 DEF Inv, TypeOK, MeantOK, Fits
<1>6. claim' \in [Spokes -> Spokes \cup {Hub, None}]
  BY <1>2 DEF Inv, TypeOK
<1> HIDE DEF x
<1>7. QED
  BY <1>2, <1>4, <1>5, <1>6, CallStep

\* The caller gives up on a call that goes on.
LEMMA StepTimesOut ==
    ASSUME Inv, NEW k \in Slots, TimesOut(k)
    PROVE  Inv'
<1> DEFINE x == IF calls[k].stage \in {"done", "lost"} THEN None
                ELSE [calls[k] EXCEPT !.waited = FALSE]
<1>1. calls[k] # None
  BY DEF TimesOut, Overdue
<1>2. CallOK(calls[k]) /\ MeantOK(calls[k]) /\ calls[k] \in CallSet
  BY <1>1, CallParts
<1>3. x # None => CallOK(x) /\ MeantOK(x)
  BY <1>2 DEF CallOK, CallSet, MeantOK
<1>4. /\ calls' = [calls EXCEPT ![k] = x]
      /\ UNCHANGED <<backend, rows, nextId, acked, claim>>
  BY DEF TimesOut, storeVars
<1>5. claim' \in [Spokes -> Spokes \cup {Hub, None}]
  BY <1>4 DEF Inv, TypeOK
<1> HIDE DEF x
<1>6. QED
  BY <1>3, <1>4, <1>5, CallStep

\* A call or its answer is lost.
LEMMA StepLost ==
    ASSUME Inv, NEW k \in Slots, Lost(k)
    PROVE  Inv'
<1> DEFINE x == IF calls[k].waited THEN Gone(calls[k]) ELSE None
<1>1. calls[k] # None /\ calls[k] \in CallSet
  BY CallParts DEF Lost
<1>2. x # None => CallOK(x) /\ MeantOK(x)
  BY <1>1, GoneOK DEF MeantOK
<1>3. /\ calls' = [calls EXCEPT ![k] = x]
      /\ UNCHANGED <<backend, rows, nextId, acked, claim>>
  BY DEF Lost, storeVars
<1>4. claim' \in [Spokes -> Spokes \cup {Hub, None}]
  BY <1>3 DEF Inv, TypeOK
<1> HIDE DEF x
<1>5. QED
  BY <1>2, <1>3, <1>4, CallStep

\* The caller is named as it is known when its body begins to arrive.
LEMMA StepAddArrives ==
    ASSUME Inv, NEW k \in Slots, AddArrives(k)
    PROVE  Inv'
<1> DEFINE c == calls[k]
           y == [c EXCEPT !.stage = "reading", !.node = Node(c.from),
                          !.friend = c.from = Hub \/ claim[c.from] = c.from]
           x == IF ~LetIn(c.from) THEN Answer(c, None) ELSE y
<1>1. c # None /\ c.op = "add" /\ c.stage = "sent"
  BY DEF AddArrives
<1>2. CallOK(c) /\ MeantOK(c) /\ c \in CallSet
  BY <1>1, CallParts
<1>3. ASSUME LetIn(c.from) PROVE CallOK(y) /\ MeantOK(y)
  <2>1. claim \in [Spokes -> Spokes \cup {Hub, None}] /\ c.from \in Spokes \cup {Hub}
    BY <1>2, ShareAssumption DEF Inv, TypeOK, CallSet
  <2>2. /\ Node(c.from) \in Spokes \cup {Hub}
        /\ \A s \in Spokes : c.from # Hub /\ claim[s] = c.from => Node(c.from) = s
    BY <1>3, <2>1, NodeKnown DEF LetIn
  <2>3. c.from = Hub => Node(c.from) = c.from
    BY DEF Node
  <2>4. (c.from = Hub \/ claim[c.from] = c.from) \in BOOLEAN
    OBVIOUS
  <2>5. y \in CallSet /\ y.node = Node(c.from) /\ y.from = c.from /\ y.file = c.file
        /\ y.op = "add" /\ y.stage = "reading" /\ y.meant = c.meant
        /\ y.friend = (c.from = Hub \/ claim[c.from] = c.from)
    BY <1>1, <1>2, <2>2, <2>4 DEF CallSet
  <2>6. y.friend => y.node = y.from
    BY <2>1, <2>2, <2>3, <2>5
  <2> HIDE DEF y
  <2>7. QED
    BY <1>1, <1>2, <2>2, <2>5, <2>6 DEF CallOK, MeantOK
<1>4. Answer(c, None) # None => CallOK(Answer(c, None)) /\ MeantOK(Answer(c, None))
  BY <1>2, AnswerOK DEF MeantOK
<1>5. x # None => CallOK(x) /\ MeantOK(x)
  BY <1>3, <1>4
<1>6. /\ calls' = [calls EXCEPT ![k] = x]
      /\ UNCHANGED <<backend, rows, nextId, acked, claim>>
  BY DEF AddArrives, storeVars
<1>7. claim' \in [Spokes -> Spokes \cup {Hub, None}]
  BY <1>6 DEF Inv, TypeOK
<1> HIDE DEF x
<1>8. QED
  BY <1>5, <1>6, <1>7, CallStep

\* An answer reaches its caller.
LEMMA StepReturns ==
    ASSUME Inv, NEW k \in Slots, Returns(k)
    PROVE  Inv'
<1>1. /\ calls' = [calls EXCEPT ![k] = None]
      /\ acked' \subseteq acked \cup rows
      /\ UNCHANGED <<backend, rows, nextId, total, claim>>
  BY DEF Returns
<1>2. TypeOK'
  BY <1>1 DEF Inv, TypeOK
<1>3. ASSUME NEW j \in Slots, calls'[j] # None PROVE CallOK(calls'[j]) /\ MeantOK(calls[j])'
  <2>1. calls'[j] = calls[j]
    BY <1>1, <1>3 DEF Inv, TypeOK
  <2>2. QED
    BY <1>1, <1>3, <2>1 DEF Inv, MeantOK, Fits
<1>4. RightlyNamed' /\ AckedListed'
  BY <1>1 DEF Inv, RightlyNamed, AckedListed
<1>5. QED
  BY <1>2, <1>3, <1>4 DEF Inv

\* A row is stored under a number that no row and no old list has.
LEMMA StepAddRuns ==
    ASSUME Inv, NEW k \in Slots, AddRuns(k)
    PROVE  Inv'
<1> DEFINE c == calls[k]
           r == NewRow(c)
           stored == Size[c.file] <= MaxUpload /\ Room(c.file)
           x == Answer(c, IF stored THEN r ELSE None)
<1>1. c # None /\ c.op = "add" /\ c.stage = "reading" /\ nextId <= MaxId
  BY DEF AddRuns
<1>2. CallOK(c) /\ c \in CallSet
  BY <1>1, CallParts
<1>3. nextId \in 1 .. MaxId /\ Size[c.file] \in Nat
  BY <1>1, <1>2, ShareAssumption DEF Inv, TypeOK, CallOK
<1>4. r \in RowSet /\ r.id = nextId /\ r.file = c.file /\ (r.friend => r.node = r.from)
  BY <1>1, <1>2, <1>3 DEF CallOK, CallSet, RowSet, NewRow, NewId
<1>5. x # None => CallOK(x) /\ x.meant = None
  BY <1>2, <1>4, AnswerOK
<1>6. x \in CallSet \cup {None}
  BY <1>5 DEF CallOK
<1>7. calls' = [calls EXCEPT ![k] = x] /\ UNCHANGED <<backend, claim, acked>>
  BY DEF AddRuns
<1>8. calls' \in [Slots -> CallSet \cup {None}]
  BY <1>6, <1>7 DEF Inv, TypeOK
<1>9. \A q \in rows : q.id < nextId /\ q.id \in Nat
  BY DEF Inv, TypeOK, RowSet
<1>10. \/ stored /\ rows' = rows \cup {r} /\ nextId' = nextId + 1
       \/ UNCHANGED <<rows, nextId>>
  BY DEF AddRuns
<1>11. TypeOK'
  <2>1. backend' \in Backends /\ claim' \in [Spokes -> Spokes \cup {Hub, None}]
    BY <1>7 DEF Inv, TypeOK
  <2>2. rows' \subseteq RowSet /\ nextId' \in 1 .. MaxId + 1
    BY <1>3, <1>4, <1>10, ShareAssumption DEF Inv, TypeOK
  <2>3. \A q \in rows' : q.id < nextId' /\ Size[q.file] <= MaxUpload
    BY <1>3, <1>4, <1>9, <1>10 DEF Inv, TypeOK
  <2>4. \A q1, q2 \in rows' : q1.id = q2.id => q1 = q2
    BY <1>3, <1>4, <1>9, <1>10 DEF Inv, TypeOK
  <2>5. QED
    BY <1>8, <2>1, <2>2, <2>3, <2>4 DEF TypeOK
<1>12. ASSUME NEW j \in Slots, calls'[j] # None PROVE CallOK(calls'[j]) /\ MeantOK(calls[j])'
  <2>1. calls'[j] = IF j = k THEN x ELSE calls[j]
    BY <1>7 DEF Inv, TypeOK
  <2>2. CASE j = k
    BY <1>5, <1>12, <2>1, <2>2 DEF MeantOK
  <2>3. CASE j # k
    <3>1. calls'[j] = calls[j] /\ CallOK(calls[j]) /\ MeantOK(calls[j]) /\ calls[j] \in CallSet
      BY <1>12, <2>1, <2>3, CallParts
    <3>2. ASSUME backend = "sqlite", calls[j].meant # None PROVE Fits(calls[j].meant)'
      <4>1. Fits(calls[j].meant) /\ calls[j].meant \in RowSet
        BY <3>1, <3>2 DEF MeantOK, CallSet
      <4>2. calls[j].meant.id < nextId' /\ \A q \in rows' : q.id = calls[j].meant.id => q = calls[j].meant
        BY <1>3, <1>4, <1>10, <4>1 DEF Fits, RowSet
      <4>3. QED
        BY <3>1, <4>2 DEF Fits
    <3>3. QED
      BY <1>7, <3>1, <3>2 DEF MeantOK
  <2>4. QED
    BY <2>2, <2>3
<1>13. RightlyNamed'
  BY <1>4, <1>10 DEF Inv, RightlyNamed
<1>14. AckedListed'
  BY <1>7, <1>10 DEF Inv, AckedListed
<1>15. QED
  BY <1>11, <1>12, <1>13, <1>14 DEF Inv

\* A removal runs: the row it names goes, or none.
LEMMA StepRemoveRuns ==
    ASSUME Inv, NEW k \in Slots, RemoveRuns(k)
    PROVE  Inv'
<1> DEFINE x == Answer(calls[k], None)
<1>1. calls[k] # None /\ calls[k] \in CallSet
  BY CallParts DEF RemoveRuns
<1>2. x # None => CallOK(x) /\ x.meant = None
  BY <1>1, AnswerOK
<1>3. PICK gone : /\ rows' = rows \ gone /\ acked' = acked \ gone
                  /\ calls' = [calls EXCEPT ![k] = x]
                  /\ UNCHANGED <<backend, nextId, claim>>
  BY DEF RemoveRuns
<1>4. calls' \in [Slots -> CallSet \cup {None}]
  BY <1>2, <1>3 DEF Inv, TypeOK, CallOK
<1>5. TypeOK'
  BY <1>3, <1>4 DEF Inv, TypeOK
<1>6. ASSUME NEW j \in Slots, calls'[j] # None PROVE CallOK(calls'[j]) /\ MeantOK(calls[j])'
  <2>1. calls'[j] = IF j = k THEN x ELSE calls[j]
    BY <1>3 DEF Inv, TypeOK
  <2>2. CASE j = k
    BY <1>2, <1>6, <2>1, <2>2 DEF MeantOK
  <2>3. CASE j # k
    BY <1>3, <1>6, <2>1, <2>3 DEF Inv, MeantOK, Fits
  <2>4. QED
    BY <2>2, <2>3
<1>7. RightlyNamed' /\ AckedListed'
  BY <1>3 DEF Inv, RightlyNamed, AckedListed
<1>8. QED
  BY <1>5, <1>6, <1>7 DEF Inv

\* A download runs, and changes nothing but the call.
LEMMA StepGetRuns ==
    ASSUME Inv, NEW k \in Slots, GetRuns(k)
    PROVE  Inv'
<1> DEFINE x == Answer(calls[k], None)
<1>1. calls[k] \in CallSet
  BY CallParts DEF GetRuns
<1>2. x # None => CallOK(x) /\ MeantOK(x)
  BY <1>1, AnswerOK DEF MeantOK
<1>3. /\ calls' = [calls EXCEPT ![k] = x]
      /\ UNCHANGED <<backend, rows, nextId, acked, claim>>
  BY DEF GetRuns, storeVars
<1>4. claim' \in [Spokes -> Spokes \cup {Hub, None}]
  BY <1>3 DEF Inv, TypeOK
<1> HIDE DEF x
<1>5. QED
  BY <1>2, <1>3, <1>4, CallStep

\* The numbers start again only where no row is left.
LEMMA StepHubCrash ==
    ASSUME Inv, HubCrash
    PROVE  Inv'
<1>1. \A j \in Slots : calls'[j] \in {calls[j], Gone(calls[j]), None}
  BY DEF HubCrash
<1>2. ASSUME NEW j \in Slots, calls'[j] # None
      PROVE  /\ CallOK(calls'[j])
             /\ calls'[j].meant = None \/ (calls'[j] = calls[j] /\ MeantOK(calls[j]))
  <2>1. CASE calls'[j] = calls[j]
    BY <1>2, <2>1, CallParts
  <2>2. CASE calls'[j] = Gone(calls[j]) /\ calls'[j] # calls[j]
    <3>1. calls[j] # None /\ calls[j] \in CallSet
      BY <1>2, <2>2, CallParts DEF HubCrash
    <3>2. QED
      BY <2>2, <3>1, GoneOK
  <2>3. QED
    BY <1>1, <1>2, <2>1, <2>2
<1>3. backend' = backend /\ claim' = claim /\ backend \in {"memory", "sqlite"}
  BY ShareAssumption DEF Inv, TypeOK, HubCrash
<1>4. \/ backend = "memory" /\ rows' = {} /\ nextId' = 1 /\ acked' = {}
      \/ backend = "sqlite" /\ UNCHANGED <<rows, nextId, acked>>
  BY <1>3 DEF HubCrash, AfterCrash
<1>5. calls' \in [Slots -> CallSet \cup {None}]
  <2>1. \A j \in Slots : calls'[j] \in CallSet \cup {None}
    BY <1>2 DEF CallOK
  <2>2. calls' = [j \in Slots |-> calls'[j]]
    BY DEF HubCrash
  <2>3. QED
    BY <2>1, <2>2
<1>6. TypeOK'
  BY <1>3, <1>4, <1>5, ShareAssumption DEF Inv, TypeOK
<1>7. ASSUME NEW j \in Slots, calls'[j] # None PROVE CallOK(calls'[j]) /\ MeantOK(calls[j])'
  BY <1>2, <1>3, <1>4, <1>7 DEF MeantOK, Fits
<1>8. RightlyNamed' /\ AckedListed'
  BY <1>4 DEF Inv, RightlyNamed, AckedListed
<1>9. QED
  BY <1>6, <1>7, <1>8 DEF Inv

\* Every step keeps the invariant.
LEMMA InvStep == Inv /\ [Next]_vars => Inv'
<1> SUFFICES ASSUME Inv, [Next]_vars PROVE Inv'
  OBVIOUS
<1>1. CASE UNCHANGED vars
  <2>1. ASSUME NEW j \in Slots, calls'[j] # None PROVE CallOK(calls'[j]) /\ MeantOK(calls[j])'
    BY <1>1, <2>1 DEF vars, storeVars, Inv, MeantOK, Fits
  <2>2. TypeOK' /\ RightlyNamed' /\ AckedListed'
    BY <1>1 DEF vars, storeVars, Inv, TypeOK, RightlyNamed, AckedListed
  <2>3. QED
    BY <2>1, <2>2 DEF Inv
<1>2. CASE \E n \in Spokes : Befriend(n) \/ Unfriend(n)
  BY <1>2, StepFriendship
<1>3. ASSUME NEW k \in Slots, NEW c \in Users,
             \/ \E f \in Files : CallsAdd(k, c, f)
             \/ \E r \in Listed(c) : CallsRemove(k, c, r) \/ CallsGet(k, c, r)
      PROVE  Inv'
  BY <1>3, StepCall
<1>4. ASSUME NEW k \in Slots, TimesOut(k) \/ Lost(k) \/ Returns(k)
      PROVE  Inv'
  BY <1>4, StepTimesOut, StepLost, StepReturns
<1>5. ASSUME NEW k \in Slots, AddArrives(k) \/ AddRuns(k) \/ RemoveRuns(k) \/ GetRuns(k)
      PROVE  Inv'
  BY <1>5, StepAddArrives, StepAddRuns, StepRemoveRuns, StepGetRuns
<1>6. CASE HubCrash
  BY <1>6, StepHubCrash
<1>7. QED
  BY <1>1, <1>2, <1>3, <1>4, <1>5, <1>6 DEF Next

\* The invariant holds throughout.
LEMMA InvHolds == Spec => []Inv
BY InvInit, InvStep, PTL DEF Spec
-----------------------------------------------------------------------------
(* The cap.                                                                *)

\* A row's bytes are those of its file and no other row's.
LEMMA BytesAdded ==
    ASSUME NEW rs, IsFiniteSet(Bytes(rs)), NEW r, r \notin rs, Size[r.file] \in Nat
    PROVE  /\ IsFiniteSet(Bytes(rs \cup {r}))
           /\ Sizes(rs \cup {r}) = Sizes(rs) + Size[r.file]
<1> DEFINE own == {r} \X (1 .. Size[r.file])
<1>1. Bytes(rs \cup {r}) = Bytes(rs) \cup own
  BY DEF Bytes
<1>2. Bytes(rs) \cap own = {}
  BY DEF Bytes
<1>3. IsFiniteSet(own) /\ Cardinality(own) = Size[r.file]
  <2>1. IsFiniteSet({r}) /\ Cardinality({r}) = 1
    BY FS_Singleton
  <2>2. ASSUME NEW n \in Nat PROVE IsFiniteSet(1 .. n) /\ Cardinality(1 .. n) = n
    BY FS_Interval
  <2>3. ASSUME NEW A, NEW B, IsFiniteSet(A), IsFiniteSet(B), Cardinality(A) = 1, Cardinality(B) \in Nat
        PROVE  IsFiniteSet(A \X B) /\ Cardinality(A \X B) = Cardinality(B)
    BY <2>3, FS_Product
  <2>4. ASSUME NEW n \in Nat
        PROVE  IsFiniteSet({r} \X (1 .. n)) /\ Cardinality({r} \X (1 .. n)) = n
    <3>1. IsFiniteSet(1 .. n) /\ Cardinality(1 .. n) = n
      BY <2>2
    <3> DEFINE A == {r}
               B == 1 .. n
    <3>2. IsFiniteSet(A) /\ IsFiniteSet(B) /\ Cardinality(A) = 1 /\ Cardinality(B) = n
      BY <2>1, <3>1
    <3> HIDE DEF A, B
    <3>3. IsFiniteSet(A \X B) /\ Cardinality(A \X B) = n
      BY <2>3, <3>2
    <3>4. QED
      BY <3>3 DEF A, B
  <2>5. QED
    BY <2>4
<1> HIDE DEF own
<1>4. /\ IsFiniteSet(Bytes(rs) \cup own)
      /\ Cardinality(Bytes(rs) \cup own)
           = Cardinality(Bytes(rs)) + Cardinality(own) - Cardinality(Bytes(rs) \cap own)
  BY <1>3, FS_Union
<1>5. Cardinality(Bytes(rs) \cap own) = 0 /\ Cardinality(Bytes(rs)) \in Nat
  BY <1>2, FS_EmptySet, FS_CardinalityType
<1>6. Cardinality(Bytes(rs) \cup own) = Cardinality(Bytes(rs)) + Size[r.file]
  BY <1>3, <1>4, <1>5
<1>7. QED
  BY <1>1, <1>4, <1>6 DEF Sizes

\* What goes takes its own bytes with it.
LEMMA BytesRemoved ==
    ASSUME NEW rs, IsFiniteSet(Bytes(rs)), NEW gone \in SUBSET rs
    PROVE  /\ IsFiniteSet(Bytes(rs \ gone))
           /\ Sizes(rs \ gone) = Sizes(rs) - Sizes(gone)
           /\ Sizes(gone) \in Nat /\ Sizes(rs) \in Nat
<1>1. Bytes(rs \ gone) = Bytes(rs) \ Bytes(gone)
  BY DEF Bytes
<1>2. Bytes(gone) \subseteq Bytes(rs) /\ Bytes(rs) \cap Bytes(gone) = Bytes(gone)
  BY DEF Bytes
<1>3. IsFiniteSet(Bytes(gone))
  BY <1>2, FS_Subset
<1>4. QED
  BY <1>1, <1>2, <1>3, FS_Difference, FS_CardinalityType DEF Sizes

\* No rows have no bytes.
LEMMA NoBytes == IsFiniteSet(Bytes({})) /\ Sizes({}) = 0
<1>1. Bytes({}) = {}
  BY DEF Bytes
<1>2. QED
  BY <1>1, FS_EmptySet DEF Sizes

\* The sum of the table can be taken, it is within the cap, and the memory share
\* keeps it in its running sum.
CapInv == IsFiniteSet(Bytes(rows)) /\ WithinCap

\* The cap holds at the start.
LEMMA CapInit == Init => CapInv
BY NoBytes, ShareAssumption DEF Init, CapInv, WithinCap

\* The quota check is made of the sum that the insert then grows.
LEMMA CapAddRuns ==
    ASSUME Inv, CapInv, NEW k \in Slots, AddRuns(k)
    PROVE  CapInv'
<1> DEFINE c == calls[k]
           r == NewRow(c)
           stored == Size[c.file] <= MaxUpload /\ Room(c.file)
<1>1. c # None /\ c.op = "add" /\ c.stage = "reading"
  BY DEF AddRuns
<1>2. CallOK(c)
  BY <1>1, CallParts
<1>3. Size[c.file] \in Nat /\ r.file = c.file /\ r.id = nextId /\ Cap \in Nat
  BY <1>1, <1>2, ShareAssumption DEF CallOK, NewRow, NewId
<1>4. r \notin rows
  <2>1. \A q \in rows : q.id < nextId /\ q.id \in Int
    BY DEF Inv, TypeOK, RowSet
  <2>2. nextId \in Int
    BY ShareAssumption DEF Inv, TypeOK
  <2>3. ~(nextId < nextId)
    BY <2>2
  <2>4. QED
    BY <1>3, <2>1, <2>3
<1> HIDE DEF c, r
<1>5. IsFiniteSet(Bytes(rows)) /\ Sizes(rows) \in Nat
  BY FS_CardinalityType DEF CapInv, Sizes
<1>6. IsFiniteSet(Bytes(rows \cup {r})) /\ Sizes(rows \cup {r}) = Sizes(rows) + Size[c.file]
  BY <1>3, <1>4, <1>5, BytesAdded
<1>7. CASE stored
  <2>1. rows' = rows \cup {r} /\ total' = total + Size[c.file] /\ backend' = backend
    BY <1>7 DEF AddRuns, c, r
  <2>2. (IF backend = "memory" THEN total ELSE Sizes(rows)) = Sizes(rows)
    BY DEF CapInv, WithinCap
  <2>3. Sizes(rows) + Size[c.file] <= Cap
    BY <1>7, <2>2 DEF Room
  <2>4. Sizes(rows') <= Cap
    BY <1>6, <2>1, <2>3
  <2>5. backend' = "memory" => total' = Sizes(rows')
    BY <1>6, <2>1 DEF CapInv, WithinCap
  <2>6. QED
    BY <1>6, <2>1, <2>4, <2>5 DEF CapInv, WithinCap, Sizes, Bytes
<1>8. CASE ~stored
  <2>1. UNCHANGED <<rows, total, backend>>
    BY <1>8 DEF AddRuns, c, r
  <2>2. QED
    BY <2>1 DEF CapInv, WithinCap, Sizes, Bytes
<1>9. QED
  BY <1>7, <1>8

\* A removal takes as much from the running sum as from the table.
LEMMA CapRemoveRuns ==
    ASSUME CapInv, NEW k \in Slots, RemoveRuns(k)
    PROVE  CapInv'
<1>1. PICK gone \in SUBSET rows :
         rows' = rows \ gone /\ total' = total - Sizes(gone) /\ backend' = backend
  BY DEF RemoveRuns, WithId, Freed
<1>2. /\ IsFiniteSet(Bytes(rows \ gone))
      /\ Sizes(rows \ gone) = Sizes(rows) - Sizes(gone)
      /\ Sizes(gone) \in Nat /\ Sizes(rows) \in Nat
  BY BytesRemoved DEF CapInv
<1>3. Sizes(rows') <= Cap
  BY <1>1, <1>2, ShareAssumption DEF CapInv, WithinCap
<1>4. backend' = "memory" => total' = Sizes(rows')
  BY <1>1, <1>2 DEF CapInv, WithinCap
<1>5. QED
  BY <1>1, <1>2, <1>3, <1>4 DEF CapInv, WithinCap, Sizes, Bytes

\* A restarted memory share is empty and so is its sum; the durable one sums its table.
LEMMA CapHubCrash ==
    ASSUME Inv, CapInv, HubCrash
    PROVE  CapInv'
<1>1. backend' = backend /\ total' = 0
  BY DEF HubCrash
<1>2. CASE backend = "memory"
  <2>1. rows' = {}
    BY <1>2 DEF HubCrash, AfterCrash
  <2>2. QED
    BY <1>1, <2>1, NoBytes, ShareAssumption DEF CapInv, WithinCap, Sizes, Bytes
<1>3. CASE backend # "memory"
  <2>1. rows' = rows
    BY <1>3 DEF HubCrash, AfterCrash
  <2>2. QED
    BY <1>1, <1>3, <2>1 DEF CapInv, WithinCap, Sizes, Bytes
<1>4. QED
  BY <1>2, <1>3

\* Every step keeps the table within the cap.
LEMMA CapStep == Inv /\ CapInv /\ [Next]_vars => CapInv'
<1> SUFFICES ASSUME Inv, CapInv, [Next]_vars PROVE CapInv'
  OBVIOUS
<1>1. ASSUME UNCHANGED <<backend, rows, total>> PROVE CapInv'
  BY <1>1 DEF CapInv, WithinCap, Sizes, Bytes
<1>2. CASE UNCHANGED vars
  BY <1>1, <1>2 DEF vars, storeVars
<1>3. CASE \E n \in Spokes : Befriend(n) \/ Unfriend(n)
  BY <1>1, <1>3 DEF Befriend, Unfriend, storeVars
<1>4. ASSUME NEW k \in Slots, NEW c \in Users,
             \/ \E f \in Files : CallsAdd(k, c, f)
             \/ \E r \in Listed(c) : CallsRemove(k, c, r) \/ CallsGet(k, c, r)
      PROVE  CapInv'
  BY <1>1, <1>4 DEF CallsAdd, CallsRemove, CallsGet, Call, storeVars
<1>5. ASSUME NEW k \in Slots, TimesOut(k) \/ Lost(k) \/ Returns(k) \/ AddArrives(k) \/ GetRuns(k)
      PROVE  CapInv'
  BY <1>1, <1>5 DEF TimesOut, Lost, Returns, AddArrives, GetRuns, storeVars
<1>6. ASSUME NEW k \in Slots, AddRuns(k) \/ RemoveRuns(k) PROVE CapInv'
  BY <1>6, CapAddRuns, CapRemoveRuns
<1>7. CASE HubCrash
  BY <1>7, CapHubCrash
<1>8. QED
  BY <1>2, <1>3, <1>4, <1>5, <1>6, <1>7 DEF Next
-----------------------------------------------------------------------------
(* What the invariant is for.                                              *)

\* The table, the friends' addresses and the calls keep their types: rows are
\* numbered apart and below the next id, stored for a caller that was let in
\* (share.ts:117-126, main.ts:864-869).
THEOREM TypeCorrect == Spec => []TypeOK
<1>1. Inv => TypeOK
  BY DEF Inv
<1>2. QED
  BY <1>1, InvHolds, PTL

\* A removal or download finds the row that was meant, or none (share.ts:119,
\* 161-173), however late it arrives.
THEOREM FindsMeantHolds == Spec => []FindsMeant
<1>1. Inv => FindsMeant
  BY DEF Inv, FindsMeant, MeantOK, Fits
<1>2. QED
  BY <1>1, InvHolds, PTL

\* A file of a friend with its own address is put down to it (friends.ts:366-376).
THEOREM RightlyNamedHolds == Spec => []RightlyNamed
<1>1. Inv => RightlyNamed
  BY DEF Inv
<1>2. QED
  BY <1>1, InvHolds, PTL

\* An answered add stays listed until its row is removed (share.ts:9, 131-139).
THEOREM AckedListedHolds == Spec => []AckedListed
<1>1. Inv => AckedListed
  BY DEF Inv
<1>2. QED
  BY <1>1, InvHolds, PTL

\* "Total share-size cap — a disk-fill DoS guard on the durable node" (share.ts:45):
\* uploads that were read at the same time, removals and restarts leave no more in
\* the table than the cap, and the sum that MemoryFileShare keeps (share.ts:81) is
\* that of its rows.
THEOREM WithinCapHolds == Spec => []WithinCap
<1>1. Inv /\ CapInv /\ [Next]_vars => CapInv'
  BY CapStep
<1>2. CapInv => WithinCap
  BY DEF CapInv
<1>3. QED
  BY <1>1, <1>2, CapInit, InvHolds, PTL DEF Spec
=============================================================================
