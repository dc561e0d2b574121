---------------------------- MODULE SelfHealProofs ----------------------------
(* Proofs about SelfHeal for every value of its constants. *)
EXTENDS SelfHeal, FiniteSetTheorems, WellFoundedInduction, SequenceTheorems, TLAPS

\* The types of what the health ladder reads and writes.
HealthTypes ==
    /\ age \in [Peers -> 0 .. Old \cup {Never}]
    /\ memo \in [Peers -> States \cup {"absent"}]
    /\ held \in [Peers -> 0 .. RestoredHold]
    /\ well \in [Peers -> 0 .. RestoredHold \cup {Never}]

\* The hold counts time in which no tick found the peer ill: since then at least
\* as much has passed as it was held. Of a peer the daemon does not know it has
\* seen nothing.
HoldInv ==
    \A p \in Peers :
        /\ memo[p] = "absent" => p \notin seenIll
        /\ memo[p] = "restored" => well[p] >= held[p]
        /\ memo[p] \in {"stale", "degraded"} => well[p] >= 0

Inv == HealthTypes /\ HoldInv /\ RecoveryEarned

\* Ages, in any step of time, stay within their bound.
LEMMA LaterType ==
    ASSUME NEW bound \in Nat, NEW a \in 0 .. bound \cup {Never}
    PROVE  /\ Later(a, bound) \in 0 .. bound \cup {Never}
           /\ a # Never => Later(a, bound) \in 0 .. bound
           /\ a = Never <=> Later(a, bound) = Never
BY DEF Later, Never

\* The age beyond which handshakes are alike is a number.
LEMMA OldType == Old \in Nat
BY SelfHealAssumption DEF Old, MaxOf

\* A tick finds a peer ok or restored just if it does not find it ill.
LEMMA LadderParts ==
    ASSUME HealthTypes, NEW p \in Peers
    PROVE  /\ StepPeer(p) \in States
           /\ StepPeer(p) \in {"ok", "restored"} <=> ~AtLeast(p, StaleAfter)
           /\ Observed(p) = IF AtLeast(p, StaleAfter) THEN StepPeer(p) ELSE "ok"
           /\ Held(p) \in 0 .. RestoredHold
<1>1. age[p] \in 0 .. Old \cup {Never} /\ held[p] \in 0 .. RestoredHold
  BY DEF HealthTypes
<1>2. AtLeast(p, DegradedAfter) => AtLeast(p, StaleAfter)
  BY <1>1, OldType, SelfHealAssumption DEF AtLeast, Never
<1>3. Held(p) \in 0 .. RestoredHold
  BY <1>1, SelfHealAssumption DEF Held
<1>4. QED
  BY <1>2, <1>3 DEF StepPeer, Observed, States

\* The one step that moves peers along the ladder.
LEMMA TickStep ==
    ASSUME Inv, NEW failed, Tick(failed)
    PROVE  Inv'
<1>1. /\ age' = age
      /\ memo' = [p \in Peers |-> IF p \in present THEN StepPeer(p) ELSE "absent"]
      /\ held' = [p \in Peers |-> IF p \in present /\ StepPeer(p) = "restored"
                                  THEN Held(p) ELSE 0]
      /\ well' = [p \in Peers |-> IF p \in present /\ AtLeast(p, StaleAfter)
                                  THEN 0 ELSE well[p]]
      /\ seenIll' = {p \in present : AtLeast(p, StaleAfter) \/ p \in seenIll}
  BY DEF Tick
<1>2. HealthTypes /\ \A p \in Peers : well[p] \in 0 .. RestoredHold \cup {Never}
  BY DEF Inv, HealthTypes
<1>3. HealthTypes'
  <2>1. age' \in [Peers -> 0 .. Old \cup {Never}]
    BY <1>1, <1>2 DEF HealthTypes
  <2>2. memo' \in [Peers -> States \cup {"absent"}]
    BY <1>1, <1>2, LadderParts
  <2>3. held' \in [Peers -> 0 .. RestoredHold]
    BY <1>1, <1>2, LadderParts, SelfHealAssumption
  <2>4. well' \in [Peers -> 0 .. RestoredHold \cup {Never}]
    BY <1>1, <1>2, SelfHealAssumption
  <2>5. QED
    BY <2>1, <2>2, <2>3, <2>4 DEF HealthTypes
<1>4. ASSUME NEW p \in Peers
      PROVE  /\ memo'[p] = "absent" => p \notin seenIll'
             /\ memo'[p] = "restored" => well'[p] >= held'[p]
             /\ memo'[p] \in {"stale", "degraded"} => well'[p] >= 0
             /\ p \in seenIll' /\ memo'[p] = "ok" => well'[p] = RestoredHold
  <2>1. CASE p \notin present
    BY <1>1, <2>1
  <2>2. CASE p \in present /\ AtLeast(p, StaleAfter)
    \* Ill: neither ok nor restored.
    BY <1>1, <1>2, <2>2, LadderParts DEF States
  <2>3. CASE p \in present /\ ~AtLeast(p, StaleAfter)
    <3>1. /\ memo'[p] = StepPeer(p) /\ well'[p] = well[p]
          /\ p \in seenIll' <=> p \in seenIll
          /\ StepPeer(p) = "restored" => held'[p] = Held(p)
          /\ StepPeer(p) \in {"ok", "restored"}
      BY <1>1, <1>2, <2>3, LadderParts
    <3>2. memo[p] \in States \cup {"absent"} /\ held[p] \in 0 .. RestoredHold
      BY <1>2 DEF HealthTypes
    <3>3. CASE StepPeer(p) = "restored"
      <4>1. memo[p] \in {"stale", "degraded", "restored"}
        BY <2>3, <3>2, <3>3 DEF StepPeer, States
      <4>2. well[p] >= Held(p)
        BY <1>2, <3>2, <4>1, SelfHealAssumption DEF Inv, HoldInv, Held
      <4>3. QED
        BY <3>1, <3>3, <4>2
    <3>4. CASE StepPeer(p) = "ok"
      <4>1. memo[p] \in {"ok", "absent"} \/ Served(p)
        BY <2>3, <3>2, <3>4 DEF StepPeer, States
      <4>2. CASE Served(p)
        \* The hold is over, so as much time has passed since it was last ill.
        <5>1. memo[p] = "restored" /\ held[p] >= RestoredHold
          BY <4>2 DEF Served, Held
        <5>2. well[p] = RestoredHold
          BY <1>2, <3>2, <5>1, SelfHealAssumption DEF Inv, HoldInv, Never
        <5>3. QED
          BY <3>1, <3>4, <5>2
      <4>3. CASE memo[p] \in {"ok", "absent"}
        BY <3>1, <3>4, <4>3 DEF Inv, HoldInv, RecoveryEarned
      <4>4. QED
        BY <4>1, <4>2, <4>3
    <3>5. QED
      BY <3>1, <3>3, <3>4
  <2>4. QED
    BY <2>1, <2>2, <2>3
<1>5. QED
  BY <1>3, <1>4 DEF Inv, HoldInv, RecoveryEarned

\* Time passes for the hold and for what it is measured against alike.
LEMMA PassStep ==
    ASSUME Inv, Pass
    PROVE  Inv'
<1>1. /\ age' = [p \in Peers |-> Later(age[p], Old)] /\ memo' = memo
      /\ held' = [p \in Peers |-> IF memo[p] = "restored"
                                  THEN Later(held[p], RestoredHold) ELSE held[p]]
      /\ well' = [p \in Peers |-> Later(well[p], RestoredHold)] /\ seenIll' = seenIll
  BY DEF Pass
<1>2. ASSUME NEW p \in Peers
      PROVE  /\ age'[p] \in 0 .. Old \cup {Never} /\ held'[p] \in 0 .. RestoredHold
             /\ well'[p] \in 0 .. RestoredHold \cup {Never}
             /\ well[p] = RestoredHold => well'[p] = RestoredHold
             /\ memo[p] = "restored" => well'[p] >= held'[p]
             /\ memo[p] \in {"stale", "degraded"} => well'[p] >= 0
  <2>1. /\ age[p] \in 0 .. Old \cup {Never} /\ held[p] \in 0 .. RestoredHold
        /\ well[p] \in 0 .. RestoredHold \cup {Never}
        /\ memo[p] = "restored" => well[p] >= held[p]
        /\ memo[p] \in {"stale", "degraded"} => well[p] >= 0
    BY DEF Inv, HealthTypes, HoldInv
  <2>2. age'[p] \in 0 .. Old \cup {Never}
    BY <1>1, <2>1, LaterType, OldType
  <2>3. held'[p] \in 0 .. RestoredHold
    BY <1>1, <2>1, SelfHealAssumption DEF Later, Never
  <2>4. /\ well'[p] \in 0 .. RestoredHold \cup {Never}
        /\ well[p] = RestoredHold => well'[p] = RestoredHold
        /\ memo[p] \in {"stale", "degraded"} => well'[p] >= 0
    BY <1>1, <2>1, SelfHealAssumption DEF Later, Never
  <2>5. memo[p] = "restored" => well'[p] >= held'[p]
    BY <1>1, <2>1, SelfHealAssumption DEF Later, Never
  <2>6. QED
    BY <2>2, <2>3, <2>4, <2>5
<1>3. HealthTypes'
  BY <1>1, <1>2 DEF Inv, HealthTypes
<1>4. QED
  BY <1>1, <1>2, <1>3 DEF Inv, HoldInv, RecoveryEarned

\* Each step keeps the invariant.
LEMMA InvStep == Inv /\ [Next]_vars => Inv'
<1> SUFFICES ASSUME Inv, [Next]_vars PROVE Inv'
  OBVIOUS
<1>1. ASSUME UNCHANGED <<memo, held, well, seenIll>>, age' \in [Peers -> 0 .. Old \cup {Never}]
      PROVE  Inv'
  BY <1>1 DEF Inv, HealthTypes, HoldInv, RecoveryEarned
<1>2. ASSUME NEW failed, Tick(failed) PROVE Inv'
  BY <1>2, TickStep
<1>3. CASE Restart
  <2>1. /\ age' = age /\ memo' = [p \in Peers |-> "absent"] /\ held' = [p \in Peers |-> 0]
        /\ well' = well /\ seenIll' = {}
    BY <1>3 DEF Restart, kernelVars
  <2>2. QED
    BY <2>1, SelfHealAssumption DEF Inv, HealthTypes, HoldInv, RecoveryEarned
<1>4. CASE Pass
  BY <1>4, PassStep
<1>5. CASE GoesWrong
  BY <1>1, <1>5 DEF GoesWrong, daemonVars, historyVars, Inv, HealthTypes
<1>6. ASSUME NEW p \in Peers, Handshake(p) PROVE Inv'
  BY <1>1, <1>6, OldType DEF Handshake, daemonVars, historyVars, Inv, HealthTypes
<1>7. ASSUME NEW p \in Peers, LinkUp(p) PROVE Inv'
  BY <1>1, <1>7 DEF LinkUp, daemonVars, historyVars, Inv, HealthTypes
<1>8. ASSUME NEW p \in Peers, AddPeer(p) PROVE Inv'
  BY <1>1, <1>8 DEF AddPeer, daemonVars, historyVars, Inv, HealthTypes
<1>9. CASE UNCHANGED vars
  BY <1>1, <1>9 DEF vars, kernelVars, daemonVars, historyVars, Inv, HealthTypes
<1>10. QED
  BY <1>2, <1>3, <1>4, <1>5, <1>6, <1>7, <1>8, <1>9 DEF Next

\* The invariant holds at the start: nothing is remembered, nothing logged.
LEMMA InvInit == Init => Inv
BY SelfHealAssumption, OldType DEF Init, Inv, HealthTypes, HoldInv, RecoveryEarned

\* The invariant holds throughout.
LEMMA InvHolds == Spec => []Inv
BY InvInit, InvStep, PTL DEF Spec

\* A peer this life of the daemon has found ill is ok again only after the hold
\* (status.go:100-120), unless it was taken off the interface in between.
THEOREM RecoveryEarnedHolds == Spec => []RecoveryEarned
<1>1. Inv => RecoveryEarned
  BY DEF Inv
<1>2. QED
  BY <1>1, InvHolds, PTL

\* With --snapshot the last line about a peer tells its state (main.go:103-139),
\* though the snapshot line comes before the transition and knows no "restored".
THEOREM RosterTruthfulHolds == Spec => []RosterTruthful
<1>1. Init => RosterTruthful
  BY DEF Init, RosterTruthful
<1>2. ASSUME Inv, RosterTruthful, [Next]_vars PROVE RosterTruthful'
  <2>1. ASSUME NEW failed, Tick(failed) PROVE RosterTruthful'
    <3> SUFFICES ASSUME NEW p \in Peers, Snapshot, memo'[p] # "absent"
                 PROVE  roster'[p] = memo'[p] \/ (memo'[p] = "restored" /\ roster'[p] = "ok")
      BY DEF RosterTruthful
    <3>1. p \in present /\ memo'[p] = StepPeer(p) /\ roster'[p] = LastLine(p)
      BY <2>1 DEF Tick
    <3>2. StepPeer(p) \in States /\ Observed(p) \in {StepPeer(p), "ok"}
      BY <1>2, LadderParts DEF Inv
    <3>3. AtLeast(p, StaleAfter) => Observed(p) = StepPeer(p)
      BY <1>2, LadderParts DEF Inv
    <3>4. ~AtLeast(p, StaleAfter) => StepPeer(p) \in {"ok", "restored"} /\ Observed(p) = "ok"
      BY <1>2, LadderParts DEF Inv
    <3>5. QED
      BY <3>1, <3>2, <3>3, <3>4 DEF LastLine
  <2>2. CASE Restart
    BY <2>2 DEF Restart, RosterTruthful
  <2>3. CASE UNCHANGED <<memo, roster>>
    BY <1>2, <2>3 DEF RosterTruthful
  <2>4. QED
    BY <1>2, <2>1, <2>2, <2>3 DEF Next, Pass, GoesWrong, Handshake, LinkUp, AddPeer, vars,
                                  kernelVars, daemonVars
<1>3. QED
  BY <1>1, <1>2, InvHolds, PTL DEF Spec
-----------------------------------------------------------------------------
(* Types.                                                                  *)

\* The types of the kernel's table, the cache, the roster and the faults.
TableTypes ==
    /\ present \subseteq Peers /\ up \subseteq Peers
    /\ endpoint \in [Peers -> Endpoints]
    /\ cache \in [Peers -> Endpoints]
    /\ roster \in [Peers -> States \cup {Unread}]
    /\ faults \in 0 .. MaxFaults /\ life \in 0 .. faults
    /\ seenIll \subseteq Peers

\* Every step keeps them, the tick with the states the ladder derives.
LEMMA TableStep ==
    ASSUME TableTypes, HealthTypes, [Next]_vars
    PROVE  TableTypes'
<1> USE DEF TableTypes
<1>1. ASSUME NEW failed \in SUBSET Targets, Tick(failed) PROVE TableTypes'
  <2>1. \A p \in Peers : Cached(p) \in Endpoints /\ LastLine(p) \in States \cup {Unread}
    <3>1. \A p \in Peers : StepPeer(p) \in States /\ Observed(p) \in States
      BY LadderParts DEF States
    <3>2. \A p \in Peers : Cached(p) \in Endpoints
      BY DEF Cached, Endpoints
    <3>3. QED
      BY <3>1, <3>2 DEF LastLine
  <2>2. faults' \in 0 .. MaxFaults /\ life' \in 0 .. faults'
    <3>1. failed \subseteq Peers /\ IsFiniteSet(Peers) /\ MaxFaults \in Nat
      BY SelfHealAssumption DEF Targets
    <3>2. Cardinality(failed) \in Nat
      BY <3>1, FS_Subset, FS_CardinalityType
    <3>3. QED
      BY <1>1, <3>1, <3>2 DEF Tick
  <2>3. cache' \in [Peers -> Endpoints] /\ roster' \in [Peers -> States \cup {Unread}]
    BY <1>1, <2>1 DEF Tick
  <2>4. endpoint' \in [Peers -> Endpoints]
    BY <1>1, <2>1 DEF Tick
  <2>5. seenIll' \subseteq Peers
    BY <1>1 DEF Tick
  <2>6. QED
    BY <1>1, <2>2, <2>3, <2>4, <2>5 DEF Tick
<1>2. CASE Restart
  <2>1. /\ cache' \in [Peers -> Endpoints]
        /\ faults' \in 0 .. MaxFaults /\ life' \in 0 .. faults'
    BY <1>2, SelfHealAssumption DEF Restart, Endpoints
  <2>2. QED
    BY <1>2, <2>1 DEF Restart, kernelVars
<1>3. CASE Pass
  BY <1>3 DEF Pass
<1>4. CASE GoesWrong
  <2>1. faults' \in 0 .. MaxFaults /\ life' \in 0 .. faults'
    BY <1>4, SelfHealAssumption DEF GoesWrong, historyVars
  <2>2. endpoint' \in [Peers -> Endpoints]
    BY <1>4, SelfHealAssumption DEF GoesWrong, Endpoints
  <2>3. present' \subseteq Peers /\ up' \subseteq Peers
    BY <1>4 DEF GoesWrong
  <2>4. QED
    BY <1>4, <2>1, <2>2, <2>3 DEF GoesWrong, daemonVars, historyVars
<1>5. ASSUME NEW p \in Peers, Handshake(p) \/ LinkUp(p) \/ AddPeer(p) PROVE TableTypes'
  <2>1. endpoint' \in [Peers -> Endpoints]
    BY <1>5 DEF Handshake, LinkUp, AddPeer, Endpoints
  <2>2. QED
    BY <1>5, <2>1 DEF Handshake, LinkUp, AddPeer, daemonVars, historyVars
<1>6. CASE UNCHANGED vars
  BY <1>6 DEF vars, kernelVars, daemonVars, historyVars
<1>7. QED
  BY <1>1, <1>2, <1>3, <1>4, <1>5, <1>6 DEF Next

\* The types hold as the daemon starts for the first time.
LEMMA TableInit == Init => TableTypes
BY SelfHealAssumption DEF Init, TableTypes, Endpoints

-----------------------------------------------------------------------------
(* The circuit breaker.                                                    *)

\* A list whose end passes, and nothing before it, is filtered to that end.
LEMMA FilterCut ==
    ASSUME NEW A, NEW s \in Seq(A), NEW S, NEW k \in 0 .. Len(s),
           \A i \in 1 .. k : s[i] \notin S, \A i \in k + 1 .. Len(s) : s[i] \in S
    PROVE  Filter(s, S) = SubSeq(s, k + 1, Len(s))
<1> DEFINE n == Len(s)
<1>1. n \in Nat /\ k \in Nat /\ k <= n
  OBVIOUS
<1> HIDE DEF n
<1>2. Passing(s, S) = k + 1 .. n
  BY <1>1 DEF Passing, n
<1>3. Cardinality(Passing(s, S)) = n - k
  <2>1. Cardinality(k + 1 .. n) = IF k + 1 > n THEN 0 ELSE n - (k + 1) + 1
    BY <1>1, FS_Interval, k + 1 \in Int, n \in Int
  <2>2. QED
    BY <1>1, <1>2, <2>1
<1>4. ASSUME NEW i \in Passing(s, S) PROVE Place(s, S, i) = i - k
  <2>1. {j \in Passing(s, S) : j <= i} = k + 1 .. i /\ i \in Int /\ k + 1 <= i
    BY <1>1, <1>2
  <2>2. Cardinality(k + 1 .. i) = IF k + 1 > i THEN 0 ELSE i - (k + 1) + 1
    BY <1>1, <2>1, FS_Interval, k + 1 \in Int
  <2>3. Place(s, S, i) = Cardinality(k + 1 .. i)
    BY <2>1 DEF Place
  <2>4. QED
    BY <1>1, <2>1, <2>2, <2>3
<1> DEFINE at(m) == CHOOSE i \in Passing(s, S) : Place(s, S, i) = m
<1>5. ASSUME NEW m \in 1 .. n - k PROVE at(m) = k + m
  <2>1. k + m \in Passing(s, S) /\ Place(s, S, k + m) = m
    <3>1. k + m \in Passing(s, S) /\ (k + m) - k = m
      BY <1>1, <1>2
    <3>2. QED
      BY <1>4, <3>1
  <2>2. \A i \in Passing(s, S) : Place(s, S, i) = m => i = k + m
    BY <1>1, <1>2, <1>4
  <2>3. QED
    BY <2>1, <2>2
<1>6. Filter(s, S) = [m \in 1 .. n - k |-> s[k + m]]
  <2>1. Filter(s, S) = [m \in 1 .. Cardinality(Passing(s, S)) |-> s[at(m)]]
    BY DEF Filter
  <2> HIDE DEF at
  <2>2. QED
    BY <1>3, <1>5, <2>1
<1>7. SubSeq(s, k + 1, n) = [m \in 1 .. n - k |-> s[k + m]]
  <2>1. /\ SubSeq(s, k + 1, n) \in Seq(A) /\ Len(SubSeq(s, k + 1, n)) = n - k
        /\ \A m \in 1 .. n - k : SubSeq(s, k + 1, n)[m] = s[k + m]
    BY <1>1 DEF n
  <2>2. DOMAIN SubSeq(s, k + 1, n) = 1 .. n - k
    BY <2>1
  <2>3. SubSeq(s, k + 1, n) = [m \in 1 .. n - k |-> SubSeq(s, k + 1, n)[m]]
    BY <2>1, <2>2
  <2>4. QED
    BY <2>1, <2>3
<1>8. QED
  BY <1>6, <1>7 DEF n

\* A set of naturals that is not empty has a least element.
LEMMA LeastNat ==
    ASSUME NEW T \in SUBSET Nat, T # {}
    PROVE  \E x \in T : \A y \in T : x <= y
<1> DEFINE Below == {0 .. n : n \in T}
<1>1. IsWellFoundedOn(StrictSubsetOrdering(Nat), FiniteSubsetsOf(Nat))
  BY FS_StrictSubsetOrderingWellFounded
<1>2. ASSUME NEW n \in T PROVE 0 .. n \in FiniteSubsetsOf(Nat)
  <2>1. n \in Nat /\ IsFiniteSet(0 .. n) /\ 0 .. n \in SUBSET Nat
    BY FS_Interval
  <2>2. QED
    BY <2>1 DEF FiniteSubsetsOf
<1>3. Below \subseteq FiniteSubsetsOf(Nat) /\ Below # {}
  BY <1>2
<1>4. PICK I \in Below : \A J \in Below : ~(<<J, I>> \in StrictSubsetOrdering(Nat))
  <2> HIDE DEF Below
  <2> QED
    BY <1>1, <1>3, WFMin
<1>5. PICK x \in T : I = 0 .. x
  OBVIOUS
<1>6. ASSUME NEW y \in T, y < x PROVE FALSE
  <2>1. 0 .. y \in Below /\ 0 .. y \subseteq 0 .. x /\ x \in 0 .. x /\ x \notin 0 .. y
    BY <1>6
  <2>2. <<0 .. y, 0 .. x>> \in StrictSubsetOrdering(Nat)
    BY <2>1 DEF StrictSubsetOrdering
  <2>3. QED
    BY <1>4, <1>5, <2>1, <2>2
<1>7. QED
  BY <1>6

\* If nothing that passes is followed by something that does not, what passes is
\* the end of the list.
LEMMA CutExists ==
    ASSUME NEW A, NEW s \in Seq(A), NEW S,
           \A i, j \in 1 .. Len(s) : i < j /\ s[i] \in S => s[j] \in S
    PROVE  \E k \in 0 .. Len(s) : /\ \A i \in 1 .. k : s[i] \notin S
                                  /\ \A i \in k + 1 .. Len(s) : s[i] \in S
<1> DEFINE I == Passing(s, S)
<1>1. I \in SUBSET Nat /\ I \subseteq 1 .. Len(s) /\ Len(s) \in Nat
  BY DEF Passing
<1>2. CASE I = {}
  <2>1. /\ Len(s) \in 0 .. Len(s) /\ \A i \in 1 .. Len(s) : s[i] \notin S
        /\ Len(s) + 1 .. Len(s) = {}
    BY <1>1, <1>2 DEF Passing
  <2>2. QED
    BY <2>1
<1>3. CASE I # {}
  <2>1. PICK x \in I : \A y \in I : x <= y
    BY <1>1, <1>3, LeastNat
  <2>2. x \in 1 .. Len(s) /\ s[x] \in S
    BY DEF Passing
  <2>3. \A i \in 1 .. x - 1 : s[i] \notin S
    BY <1>1, <2>1, <2>2 DEF Passing
  <2>4. \A i \in (x - 1) + 1 .. Len(s) : s[i] \in S
    BY <1>1, <2>2
  <2>5. x - 1 \in 0 .. Len(s)
    BY <1>1, <2>2
  <2>6. QED
    BY <2>3, <2>4, <2>5
<1>4. QED
  BY <1>2, <1>3

\* The end of a list, after its first k elements.
LEMMA EndParts ==
    ASSUME NEW A, NEW s \in Seq(A), NEW k \in 0 .. Len(s)
    PROVE  /\ SubSeq(s, k + 1, Len(s)) \in Seq(A) /\ Len(SubSeq(s, k + 1, Len(s))) = Len(s) - k
           /\ \A i \in 1 .. Len(s) - k : SubSeq(s, k + 1, Len(s))[i] = s[k + i]
           /\ Len(s) \in Nat
OBVIOUS

\* A list with one element more.
LEMMA AppendParts ==
    ASSUME NEW A, NEW s \in Seq(A), NEW x \in A
    PROVE  /\ Append(s, x) \in Seq(A) /\ Len(Append(s, x)) = Len(s) + 1 /\ Len(s) \in Nat
           /\ Append(s, x)[Len(s) + 1] = x
           /\ \A i \in 1 .. Len(s) : Append(s, x)[i] = s[i] /\ s[i] \in A
OBVIOUS

\* The older records of a list come first.
OldestFirst(s) == \A i, j \in 1 .. Len(s) : i < j => s[j] <= s[i]

\* Older, the records of a list stay records, in their order.
LEMMA LaterAllParts ==
    ASSUME NEW s \in Tries
    PROVE  /\ LaterAll(s) \in Tries /\ Len(LaterAll(s)) = Len(s)
           /\ \A i \in 1 .. Len(s) : LaterAll(s)[i] = Later(s[i], Window)
           /\ OldestFirst(s) => OldestFirst(LaterAll(s))
<1>1. \A i \in 1 .. Len(s) : s[i] \in 0 .. Window /\ Window \in Nat
  BY SelfHealAssumption DEF Tries
<1>2. \A i \in 1 .. Len(s) : Later(s[i], Window) \in 0 .. Window
  BY <1>1, SelfHealAssumption DEF Later, Never
<1>3. Len(s) \in Nat
  BY DEF Tries
<1>4. /\ LaterAll(s) \in Tries /\ Len(LaterAll(s)) = Len(s)
      /\ \A i \in 1 .. Len(s) : LaterAll(s)[i] = Later(s[i], Window)
  BY <1>2, <1>3 DEF LaterAll, Tries
<1>5. \A a, b \in 0 .. Window : a <= b => Later(a, Window) <= Later(b, Window)
  BY SelfHealAssumption DEF Later, Never
<1>6. OldestFirst(s) => OldestFirst(LaterAll(s))
  BY <1>1, <1>4, <1>5 DEF OldestFirst
<1>7. QED
  BY <1>4, <1>6

\* What is recent of a list is its end, and what is before it has left the window.
LEMMA RecentCut ==
    ASSUME NEW s \in Tries, OldestFirst(s)
    PROVE  \E k \in 0 .. Len(s) :
              /\ \A i \in 1 .. k : s[i] \notin Recent
              /\ \A i \in k + 1 .. Len(s) : s[i] \in Recent
              /\ Filter(s, Recent) = SubSeq(s, k + 1, Len(s))
<1>1. s \in Seq(0 .. Window) /\ Window \in Nat
  BY SelfHealAssumption DEF Tries
<1>2. \A i, j \in 1 .. Len(s) : i < j /\ s[i] \in Recent => s[j] \in Recent
  <2>1. \A i \in 1 .. Len(s) : s[i] \in 0 .. Window
    BY <1>1
  <2>2. QED
    BY <1>1, <2>1 DEF OldestFirst, Recent
<1>3. QED
  BY <1>1, <1>2, CutExists, FilterCut

\* A list all of which is recent is kept as it is.
LEMMA RecentAll ==
    ASSUME NEW s \in Tries, \A i \in 1 .. Len(s) : s[i] \in Recent
    PROVE  Filter(s, Recent) = s
<1>1. s \in Seq(0 .. Window) /\ Len(s) \in Nat /\ 0 \in 0 .. Len(s) /\ 1 .. 0 = {}
  BY DEF Tries
<1>2. Filter(s, Recent) = SubSeq(s, 0 + 1, Len(s))
  BY <1>1, FilterCut
<1>3. /\ SubSeq(s, 1, Len(s)) \in Seq(0 .. Window) /\ Len(SubSeq(s, 1, Len(s))) = Len(s)
      /\ \A i \in 1 .. Len(s) : SubSeq(s, 1, Len(s))[i] = s[i]
  <2>1. /\ SubSeq(s, 0 + 1, Len(s)) \in Seq(0 .. Window)
        /\ Len(SubSeq(s, 0 + 1, Len(s))) = Len(s) - 0
        /\ \A i \in 1 .. Len(s) - 0 : SubSeq(s, 0 + 1, Len(s))[i] = s[0 + i]
    BY <1>1, EndParts
  <2>2. 0 + 1 = 1 /\ Len(s) - 0 = Len(s) /\ \A i \in 1 .. Len(s) : 0 + i = i
    BY <1>1
  <2>3. QED
    BY <2>1, <2>2
<1>4. SubSeq(s, 1, Len(s)) = s
  BY <1>1, <1>3, SeqEqual
<1>5. QED
  BY <1>2, <1>4

\* What is recent of a list is a list of records, in their order, and no longer.
LEMMA RecentParts ==
    ASSUME NEW s \in Tries, OldestFirst(s)
    PROVE  /\ Filter(s, Recent) \in Tries /\ OldestFirst(Filter(s, Recent))
           /\ Len(Filter(s, Recent)) <= Len(s)
           /\ \A i \in 1 .. Len(Filter(s, Recent)) : Filter(s, Recent)[i] \in Recent
           /\ Filter(Filter(s, Recent), Recent) = Filter(s, Recent)
<1>1. PICK k \in 0 .. Len(s) : /\ \A i \in k + 1 .. Len(s) : s[i] \in Recent
                               /\ Filter(s, Recent) = SubSeq(s, k + 1, Len(s))
  BY RecentCut
<1> DEFINE u == SubSeq(s, k + 1, Len(s))
<1>2. /\ u \in Tries /\ Len(u) = Len(s) - k /\ Len(s) \in Nat
      /\ \A i \in 1 .. Len(s) - k : u[i] = s[k + i]
  BY EndParts DEF Tries
<1>3. \A i \in 1 .. Len(s) - k : k + i \in 1 .. Len(s) /\ k + i \in k + 1 .. Len(s)
  BY <1>2
<1> HIDE DEF u
<1>4. \A i \in 1 .. Len(u) : u[i] \in Recent
  BY <1>1, <1>2, <1>3
<1>5. OldestFirst(u)
  <2> SUFFICES ASSUME NEW i \in 1 .. Len(u), NEW j \in 1 .. Len(u), i < j PROVE u[j] <= u[i]
    BY DEF OldestFirst
  <2>1. k + i \in 1 .. Len(s) /\ k + j \in 1 .. Len(s) /\ k + i < k + j
    BY <1>2, <1>3
  <2>2. s[k + j] <= s[k + i]
    BY <2>1 DEF OldestFirst
  <2>3. QED
    BY <1>2, <2>2
<1>6. Len(u) <= Len(s)
  BY <1>2
<1>7. Filter(u, Recent) = u
  BY <1>2, <1>4, RecentAll
<1>8. QED
  BY <1>1, <1>2, <1>4, <1>5, <1>6, <1>7 DEF u

\* What has left the window does not come back: filtering before time passes
\* changes nothing of what is recent after.
LEMMA RecentLater ==
    ASSUME NEW s \in Tries, OldestFirst(s)
    PROVE  Filter(LaterAll(Filter(s, Recent)), Recent) = Filter(LaterAll(s), Recent)
<1>0. \A i \in 1 .. Len(s) : s[i] \in 0 .. Window
  BY SelfHealAssumption DEF Tries
<1> DEFINE n == Len(s)
           t == LaterAll(s)
<1>1. /\ n \in Nat /\ t \in Tries /\ Len(t) = n /\ OldestFirst(t)
      /\ \A i \in 1 .. n : t[i] = Later(s[i], Window)
  BY LaterAllParts DEF Tries
<1>2. PICK k \in 0 .. n : /\ \A i \in 1 .. k : s[i] \notin Recent
                          /\ Filter(s, Recent) = SubSeq(s, k + 1, n)
  BY RecentCut
<1>3. PICK m \in 0 .. n : /\ \A i \in 1 .. m : t[i] \notin Recent
                          /\ \A i \in m + 1 .. n : t[i] \in Recent
                          /\ Filter(t, Recent) = SubSeq(t, m + 1, n)
  <2> HIDE DEF t
  <2>1. QED
    BY <1>1, RecentCut
<1> DEFINE u == SubSeq(s, k + 1, n)
           v == LaterAll(u)
<1>4. /\ u \in Tries /\ Len(u) = n - k
      /\ \A i \in 1 .. n - k : u[i] = s[k + i]
  BY EndParts DEF Tries
<1>5. /\ v \in Tries /\ Len(v) = n - k
      /\ \A i \in 1 .. n - k : v[i] = t[k + i]
  <2>1. \A i \in 1 .. n - k : k + i \in 1 .. n
    BY <1>1
  <2> HIDE DEF u, t, n
  <2>2. v \in Tries /\ Len(v) = n - k /\ \A i \in 1 .. n - k : v[i] = Later(u[i], Window)
    BY <1>4, LaterAllParts
  <2>3. QED
    BY <1>1, <1>4, <2>1, <2>2
\* A record that was out of the window stays out of it.
<1>6. k <= m
  <2> SUFFICES ASSUME m < k PROVE FALSE
    BY <1>1
  <2>1. m + 1 \in 1 .. k /\ m + 1 \in 1 .. n /\ m + 1 \in m + 1 .. n
    BY <1>1
  <2>2. s[m + 1] \notin Recent /\ s[m + 1] \in 0 .. Window
    BY <1>0, <1>2, <2>1
  <2>3. Later(s[m + 1], Window) \notin Recent
    BY <2>2, SelfHealAssumption DEF Later, Recent, Never
  <2>4. QED
    BY <1>1, <1>3, <2>1, <2>3
<1> HIDE DEF n, t, u, v
<1>7. Filter(v, Recent) = SubSeq(v, (m - k) + 1, n - k)
  <2>1. m - k \in 0 .. n - k /\ v \in Seq(0 .. Window)
    BY <1>1, <1>5, <1>6 DEF Tries
  <2>2. ASSUME NEW i \in 1 .. m - k PROVE v[i] \notin Recent
    <3>1. i \in 1 .. n - k /\ k + i \in 1 .. m
      BY <1>1, <1>6
    <3>2. QED
      BY <1>3, <1>5, <3>1
  <2>3. ASSUME NEW i \in (m - k) + 1 .. n - k PROVE v[i] \in Recent
    <3>1. i \in 1 .. n - k /\ k + i \in m + 1 .. n
      BY <1>1, <1>6
    <3>2. QED
      BY <1>3, <1>5, <3>1
  <2>4. QED
    BY <1>5, <2>1, <2>2, <2>3, FilterCut
<1>8. SubSeq(v, (m - k) + 1, n - k) = SubSeq(t, m + 1, n)
  <2> DEFINE x == SubSeq(v, (m - k) + 1, n - k)
             y == SubSeq(t, m + 1, n)
  <2>1. /\ x \in Seq(0 .. Window) /\ Len(x) = n - m
        /\ \A i \in 1 .. n - m : x[i] = v[(m - k) + i]
    <3>1. m - k \in 0 .. Len(v) /\ (n - k) - (m - k) = n - m
      BY <1>1, <1>5, <1>6
    <3>2. v \in Seq(0 .. Window) /\ Len(v) = n - k
      BY <1>5 DEF Tries
    <3>3. /\ SubSeq(v, (m - k) + 1, Len(v)) \in Seq(0 .. Window)
          /\ Len(SubSeq(v, (m - k) + 1, Len(v))) = Len(v) - (m - k)
          /\ \A i \in 1 .. Len(v) - (m - k) :
                SubSeq(v, (m - k) + 1, Len(v))[i] = v[(m - k) + i]
      BY <3>1, <3>2, EndParts
    <3>4. QED
      BY <3>1, <3>2, <3>3
  <2>2. /\ y \in Seq(0 .. Window) /\ Len(y) = n - m
        /\ \A i \in 1 .. n - m : y[i] = t[m + i]
    <3>1. t \in Seq(0 .. Window) /\ Len(t) = n /\ m \in 0 .. Len(t)
      BY <1>1 DEF Tries
    <3>2. /\ SubSeq(t, m + 1, Len(t)) \in Seq(0 .. Window)
          /\ Len(SubSeq(t, m + 1, Len(t))) = Len(t) - m
          /\ \A i \in 1 .. Len(t) - m : SubSeq(t, m + 1, Len(t))[i] = t[m + i]
      BY <3>1, EndParts
    <3>3. QED
      BY <3>1, <3>2
  <2> HIDE DEF x, y
  <2>3. ASSUME NEW i \in 1 .. n - m PROVE x[i] = y[i]
    <3>1. (m - k) + i \in 1 .. n - k /\ k + ((m - k) + i) = m + i
      BY <1>1, <1>6
    <3>2. QED
      BY <1>5, <2>1, <2>2, <3>1
  <2>4. x = y
    BY <2>1, <2>2, <2>3, SeqEqual
  <2>5. QED
    BY <2>4 DEF x, y
<1>9. QED
  BY <1>2, <1>3, <1>7, <1>8 DEF t, u, v

\* A try that is recorded now is recent, and the newest.
LEMMA RecentAppend ==
    ASSUME NEW s \in Tries, OldestFirst(s), \A i \in 1 .. Len(s) : s[i] \in Recent
    PROVE  /\ Append(s, 0) \in Tries /\ Len(Append(s, 0)) = Len(s) + 1 /\ Len(s) \in Nat
           /\ OldestFirst(Append(s, 0))
           /\ Filter(Append(s, 0), Recent) = Append(s, 0)
<1> DEFINE t == Append(s, 0)
<1>1. 0 \in Recent /\ 0 \in 0 .. Window /\ \A a \in 0 .. Window : 0 <= a
  BY SelfHealAssumption DEF Recent
<1>2. /\ t \in Tries /\ Len(t) = Len(s) + 1 /\ Len(s) \in Nat /\ t[Len(s) + 1] = 0
      /\ \A i \in 1 .. Len(s) : t[i] = s[i] /\ s[i] \in 0 .. Window
  BY <1>1, AppendParts DEF Tries
<1> HIDE DEF t
<1>3. \A i \in 1 .. Len(t) : i \in 1 .. Len(s) \/ i = Len(s) + 1
  BY <1>2
<1>4. Filter(t, Recent) = t
  <2>1. \A i \in 1 .. Len(t) : t[i] \in Recent
    BY <1>1, <1>2, <1>3
  <2>2. QED
    BY <1>2, <2>1, RecentAll
<1>5. OldestFirst(t)
  <2> SUFFICES ASSUME NEW i \in 1 .. Len(t), NEW j \in 1 .. Len(t), i < j PROVE t[j] <= t[i]
    BY DEF OldestFirst
  <2>1. i \in 1 .. Len(s)
    BY <1>2, <1>3
  <2>2. CASE j \in 1 .. Len(s)
    BY <1>2, <2>1, <2>2 DEF OldestFirst
  <2>3. CASE j = Len(s) + 1
    BY <1>1, <1>2, <2>1, <2>3
  <2>4. QED
    BY <1>3, <2>2, <2>3
<1>6. QED
  BY <1>2, <1>4, <1>5 DEF t

\* Of no records none is recent.
LEMMA RecentNone ==
    /\ <<>> \in Tries /\ OldestFirst(<<>>) /\ Len(<<>>) = 0
    /\ Filter(<<>>, Recent) = <<>>
<1>1. <<>> \in Tries /\ Len(<<>>) = 0 /\ 1 .. 0 = {}
  BY DEF Tries
<1>2. QED
  BY <1>1, RecentAll DEF OldestFirst

\* The daemon appends its records, so the older ones come first; they are those of
\* what its present life pushed, as far as the breaker looks back. What each life
\* pushed within the window is within the limit, and the next lives pushed nothing.
BreakerInv ==
    /\ history \in [Peers -> Tries] /\ pushed \in [Peers -> [Lives -> Tries]]
    /\ \A p \in Peers : /\ OldestFirst(history[p])
                       /\ pushed[p][life] = RecentTries(p)
    /\ \A p \in Peers, l \in Lives :
          /\ OldestFirst(pushed[p][l])
          /\ Len(pushed[p][l]) <= MaxReResolve
          /\ l > life => pushed[p][l] = <<>>

\* Time takes from what was pushed what leaves the window, and adds nothing.
LEMMA PushedLater ==
    ASSUME NEW s \in Tries, OldestFirst(s), Len(s) <= MaxReResolve
    PROVE  LET t == Filter(LaterAll(s), Recent)
           IN  /\ t \in Tries /\ OldestFirst(t) /\ Len(t) <= MaxReResolve
               /\ s = <<>> => t = <<>>
<1> DEFINE u == LaterAll(s)
           t == Filter(u, Recent)
<1>1. u \in Tries /\ OldestFirst(u) /\ Len(u) = Len(s)
  BY LaterAllParts
<1> HIDE DEF u
<1>2. t \in Tries /\ OldestFirst(t) /\ Len(t) <= Len(u)
  BY <1>1, RecentParts
<1>3. Len(t) \in Nat /\ Len(u) \in Nat
  BY <1>1, <1>2 DEF Tries
<1>4. s = <<>> => t = <<>>
  <2> SUFFICES ASSUME s = <<>> PROVE t = <<>>
    OBVIOUS
  <2>1. Len(t) = 0
    BY <1>1, <1>2, <1>3, Len(<<>>) = 0
  <2>2. QED
    BY <1>2, <2>1 DEF Tries
<1>5. Len(t) <= MaxReResolve
  BY <1>1, <1>2, <1>3, SelfHealAssumption
<1>6. QED
  BY <1>2, <1>4, <1>5 DEF u

\* The present life is one of those that are counted.
LEMMA LifeType == TableTypes => life \in Lives /\ life \in Nat
BY SelfHealAssumption DEF TableTypes, Lives

\* A tick records what it pushes, and pushes only what the records allow.
LEMMA BreakerTick ==
    ASSUME BreakerInv, TableTypes, NEW failed, Tick(failed)
    PROVE  BreakerInv'
<1>1. life' = life /\ life \in Lives /\ life \in Nat
  BY LifeType DEF Tick
<1>2. /\ history' = [p \in Peers |-> IF p \in Targets THEN Append(RecentTries(p), 0)
                                     ELSE RecentTries(p)]
      /\ pushed' = [p \in Peers |-> IF p \in Targets
                                    THEN [pushed[p] EXCEPT ![life] = Append(@, 0)]
                                    ELSE pushed[p]]
  BY DEF Tick, Recorded
<1>3. ASSUME NEW p \in Peers
      PROVE  /\ history'[p] \in Tries /\ OldestFirst(history'[p])
             /\ pushed'[p] \in [Lives -> Tries]
             /\ pushed'[p][life] = Filter(history'[p], Recent)
             /\ pushed'[p][life] = history'[p] /\ Len(history'[p]) <= MaxReResolve
             /\ \A l \in Lives : l # life => pushed'[p][l] = pushed[p][l]
  <2> DEFINE r == RecentTries(p)
  <2>1. r \in Tries /\ OldestFirst(r) /\ Filter(r, Recent) = r
        /\ \A i \in 1 .. Len(r) : r[i] \in Recent
    <3>1. history[p] \in Tries /\ OldestFirst(history[p])
      BY DEF BreakerInv
    <3>2. QED
      BY <3>1, RecentParts DEF RecentTries
  <2>2. pushed[p][life] = r /\ Len(r) <= MaxReResolve /\ pushed[p] \in [Lives -> Tries]
    BY <1>1 DEF BreakerInv
  <2>3. p \in Targets => Len(r) < MaxReResolve
    BY DEF Targets, Decision
  <2>4. /\ p \in Targets => /\ history'[p] = Append(r, 0)
                            /\ pushed'[p] = [pushed[p] EXCEPT ![life] = Append(r, 0)]
        /\ p \notin Targets => history'[p] = r /\ pushed'[p] = pushed[p]
    BY <1>2, <2>2
  <2> HIDE DEF r
  <2>5. /\ Filter(Append(r, 0), Recent) = Append(r, 0) /\ OldestFirst(Append(r, 0))
        /\ Append(r, 0) \in Tries /\ Len(Append(r, 0)) = Len(r) + 1 /\ Len(r) \in Nat
    BY <2>1, RecentAppend
  <2>6. CASE p \in Targets
    <3> DEFINE a == Append(r, 0)
    <3>1. history'[p] = a /\ pushed'[p] = [pushed[p] EXCEPT ![life] = a]
      BY <2>4, <2>6
    <3>2. Len(a) <= MaxReResolve
      BY <2>3, <2>5, <2>6, SelfHealAssumption
    <3>3. a \in Tries /\ OldestFirst(a) /\ Filter(a, Recent) = a
      BY <2>5
    <3> HIDE DEF a
    <3>4. /\ pushed'[p] \in [Lives -> Tries] /\ pushed'[p][life] = a
          /\ \A l \in Lives : l # life => pushed'[p][l] = pushed[p][l]
      BY <1>1, <2>2, <3>1, <3>3
    <3>5. QED
      BY <3>1, <3>2, <3>3, <3>4
  <2>7. CASE p \notin Targets
    BY <2>1, <2>2, <2>4, <2>7
  <2>8. QED
    BY <2>6, <2>7
<1>4. ASSUME NEW p \in Peers, NEW l \in Lives
      PROVE  /\ OldestFirst(pushed'[p][l])
             /\ Len(pushed'[p][l]) <= MaxReResolve
             /\ l > life => pushed'[p][l] = <<>>
  <2>1. CASE l = life
    BY <1>1, <1>3, <2>1
  <2>2. CASE l # life
    BY <1>3, <2>2 DEF BreakerInv
  <2>3. QED
    BY <2>1, <2>2
<1>5. history' \in [Peers -> Tries] /\ pushed' \in [Peers -> [Lives -> Tries]]
  <2>1. \A p \in Peers : history'[p] \in Tries /\ pushed'[p] \in [Lives -> Tries]
    BY <1>3
  <2>2. history' = [p \in Peers |-> history'[p]] /\ pushed' = [p \in Peers |-> pushed'[p]]
    BY <1>2
  <2>3. QED
    BY <2>1, <2>2
<1>6. \A p \in Peers : OldestFirst(history'[p]) /\ pushed'[p][life'] = Filter(history'[p], Recent)
  BY <1>1, <1>3
<1>7. QED
  BY <1>1, <1>4, <1>5, <1>6 DEF BreakerInv, RecentTries

\* Every operation keeps the records and what was pushed in step.
LEMMA BreakerStep ==
    ASSUME BreakerInv, TableTypes, TableTypes', [Next]_vars
    PROVE  BreakerInv'
<1>1. CASE UNCHANGED <<history, pushed, life>>
  BY <1>1 DEF RecentTries, BreakerInv
<1>2. ASSUME NEW failed, Tick(failed) PROVE BreakerInv'
  BY <1>2, BreakerTick
<1>3. CASE Restart
  <2>1. /\ history' = [p \in Peers |-> <<>>]
        /\ pushed' = pushed /\ life' = life + 1 /\ life \in Nat /\ life' \in Lives
    <3>1. life \in Nat /\ life' \in Lives
      BY LifeType, SelfHealAssumption DEF TableTypes, Lives
    <3>2. QED
      BY <1>3, <3>1 DEF Restart
  <2>2. life' > life /\ \A l \in Lives : l > life' => l > life
    BY <2>1, SelfHealAssumption DEF Lives
  <2>3. ASSUME NEW p \in Peers PROVE pushed'[p][life'] = <<>> /\ RecentTries(p)' = <<>>
    BY <2>1, <2>2, RecentNone DEF BreakerInv, RecentTries
  <2>4. \A p \in Peers : OldestFirst(history'[p]) /\ history'[p] \in Tries
    BY <2>1, RecentNone
  <2>5. QED
    BY <2>1, <2>2, <2>3, <2>4 DEF BreakerInv
<1>4. CASE Pass
  <2>1. /\ history' = [p \in Peers |-> LaterAll(history[p])]
        /\ pushed' = [p \in Peers |-> [l \in Lives |-> Filter(LaterAll(pushed[p][l]), Recent)]]
        /\ life' = life /\ life \in Lives
    BY <1>4, LifeType DEF Pass, Recent
  <2>2. ASSUME NEW p \in Peers
        PROVE  /\ history'[p] \in Tries /\ OldestFirst(history'[p])
               /\ pushed'[p][life] = Filter(history'[p], Recent)
    <3>1. history[p] \in Tries /\ OldestFirst(history[p])
      BY DEF BreakerInv
    <3>2. LaterAll(history[p]) \in Tries /\ OldestFirst(LaterAll(history[p]))
      BY <3>1, LaterAllParts
    <3>3. Filter(LaterAll(Filter(history[p], Recent)), Recent) = Filter(LaterAll(history[p]), Recent)
      BY <3>1, RecentLater
    <3>4. pushed[p][life] = Filter(history[p], Recent)
      BY DEF BreakerInv, RecentTries
    <3>5. QED
      BY <2>1, <3>2, <3>3, <3>4
  <2>3. ASSUME NEW p \in Peers, NEW l \in Lives
        PROVE  /\ pushed'[p][l] \in Tries /\ OldestFirst(pushed'[p][l])
               /\ Len(pushed'[p][l]) <= MaxReResolve
               /\ l > life => pushed'[p][l] = <<>>
    <3> DEFINE q == pushed[p][l]
    <3>1. q \in Tries /\ OldestFirst(q) /\ Len(q) <= MaxReResolve /\ (l > life => q = <<>>)
      BY DEF BreakerInv
    <3>2. pushed'[p][l] = Filter(LaterAll(q), Recent)
      BY <2>1
    <3> HIDE DEF q
    <3>3. QED
      BY <3>1, <3>2, PushedLater
  <2>4. history' \in [Peers -> Tries] /\ pushed' \in [Peers -> [Lives -> Tries]]
    <3>1. \A p \in Peers : history'[p] \in Tries
      BY <2>2
    <3>2. \A p \in Peers, l \in Lives : pushed'[p][l] \in Tries
      BY <2>3
    <3>3. \A p \in Peers, l \in Lives : Filter(LaterAll(pushed[p][l]), Recent) \in Tries
      BY <2>1, <3>2
    <3>4. QED
      BY <2>1, <3>1, <3>3
  <2>5. QED
    BY <2>1, <2>2, <2>3, <2>4 DEF BreakerInv, RecentTries
<1>5. QED
  BY <1>1, <1>2, <1>3, <1>4 DEF Next, GoesWrong, Handshake, LinkUp, AddPeer, vars,
                                daemonVars, historyVars

\* Nothing is recorded and nothing pushed at first.
LEMMA BreakerInit == Init => BreakerInv
<1> SUFFICES ASSUME Init PROVE BreakerInv
  OBVIOUS
<1>1. /\ history = [p \in Peers |-> <<>>] /\ pushed = [p \in Peers |-> [l \in Lives |-> <<>>]]
      /\ life = 0 /\ 0 \in Lives /\ 0 <= MaxReResolve
  BY SelfHealAssumption DEF Init, Lives
<1>2. QED
  BY <1>1, RecentNone DEF BreakerInv, RecentTries

\* What the breaker knows and the types hold together, throughout.
LEMMA BreakerInvHolds == Spec => [](BreakerInv /\ TableTypes)
<1>1. Inv => HealthTypes
  BY DEF Inv
<1>2. QED
  BY <1>1, InvHolds, BreakerInit, BreakerStep, TableInit, TableStep, PTL DEF Spec

\* However often pushes fail, time passes and the daemon restarts, no life of the
\* daemon pushes an endpoint more than MaxReResolve times within Window
\* (decide.go:67-76, main.go:164-168).
THEOREM BreakerHoldsAlways == Spec => []BreakerHolds
<1>1. BreakerInv => BreakerHolds
  BY DEF BreakerInv, BreakerHolds
<1>2. QED
  BY <1>1, BreakerInvHolds, PTL

\* The daemon's memory, its records and the roster keep their form for ever.
THEOREM TypeCorrect == Spec => []TypeOK
<1>1. BreakerInv /\ HealthTypes /\ TableTypes => TypeOK
  BY DEF BreakerInv, HealthTypes, TableTypes, TypeOK
<1>2. Inv => HealthTypes
  BY DEF Inv
<1>3. QED
  BY <1>1, <1>2, InvHolds, BreakerInvHolds, PTL
=============================================================================
