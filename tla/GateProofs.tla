----------------------------- MODULE GateProofs -----------------------------
(* Proofs about Gate for every value of its constants. *)
EXTENDS Gate, SequenceTheorems, TLAPS

\* The helpers that move the queue and the timer keep their types.
LEMMA QueueTypes ==
    ASSUME TypeOK, lockQ # <<>>
    PROVE  /\ Head(lockQ) \in Ops
           /\ Tail(lockQ) \in Seq(Ops)
BY HeadTailProperties DEF TypeOK

\* A timer that starts from a well-typed value stays well-typed.
LEMMA OnStartType ==
    ASSUME NEW q, NEW t \in Int, t >= Off
    PROVE  OnStart(q, t) \in Int /\ OnStart(q, t) >= Off
BY DEF OnStart, Off

\* Joining the lock keeps the types of the queue and of the timer.
LEMMA EnqueueTypes ==
    ASSUME TypeOK, NEW op \in Ops, NEW t \in Int, t >= Off, Enqueue(op, t)
    PROVE  /\ lockQ' \in Seq(Ops) /\ lockQ' # <<>>
           /\ timer' \in Int /\ timer' >= Off
<1>1. lockQ \in Seq(Ops)
  BY DEF TypeOK
<1>2. lockQ' \in Seq(Ops) /\ lockQ' # <<>>
  BY <1>1, AppendProperties DEF Enqueue
<1>3. timer' \in Int /\ timer' >= Off
  BY OnStartType DEF Enqueue
<1>4. QED
  BY <1>2, <1>3

\* So does leaving it.
LEMMA ReleaseTypes ==
    ASSUME TypeOK, lockQ # <<>>, NEW t \in Int, t >= Off, Release(t)
    PROVE  /\ lockQ' \in Seq(Ops)
           /\ timer' \in Int /\ timer' >= Off
BY QueueTypes, OnStartType DEF Release

\* Delays and the timers that are set from them are of the right type.
LEMMA DelayTypes ==
    ASSUME TypeOK
    PROVE  /\ RetryDelay \in Nat /\ RetryDelay > 1 /\ RetryDelay <= BackoffCap
           /\ RestoredTimer \in Int /\ RestoredTimer >= Off
           /\ TimerAfterClose \in Int /\ TimerAfterClose >= Off
           /\ Ttl \in Int /\ Ttl >= Off
BY GateAssumption DEF TypeOK, RetryDelay, MinOf, RestoredTimer, TimerAfterClose, Off

\* Each step keeps the types.
LEMMA TypeStep == TypeOK /\ [Next]_vars => TypeOK'
<1> SUFFICES ASSUME TypeOK, [Next]_vars PROVE TypeOK'
  OBVIOUS
<1>1. ASSUME NEW r \in Reqs, NEW n \in Nonces, Submit(r, n) PROVE TypeOK'
  <2>1. Prunable \subseteq Nonces
    BY DEF TypeOK, Prunable
  <2>2. PICK a \in Ages(n) : Fresh(a) /\ age' = [age EXCEPT ![n] = a]
    BY <1>1 DEF Submit, Consume
  <2>3. a \in Unseen .. Stale
    BY <2>2 DEF TypeOK, Ages, Unseen, Stale
  <2>4. age' \in [Nonces -> Unseen .. Stale]
    BY <2>2, <2>3 DEF TypeOK
  <2>5. consumed' \subseteq Nonces
    BY <1>1, <2>1 DEF TypeOK, Submit, Consume
  <2>6. \/ UNCHANGED <<since, pc, canary>>
        \/ /\ since' = [since EXCEPT ![n] = 0]
           /\ pc' = [pc EXCEPT ![r] = "llm"]
           /\ canary' = [canary EXCEPT ![r] = n]
    BY <1>1 DEF Submit, Consume
  <2>7. 0 \in 0 .. Forgotten
    BY GateAssumption DEF Forgotten
  <2>8. since' \in [Nonces -> 0 .. Forgotten]
    <3>1. since \in [Nonces -> 0 .. Forgotten]
      BY DEF TypeOK
    <3>2. QED
      BY <2>6, <2>7, <3>1
  <2>9. /\ pc' \in [Reqs -> PCs]
        /\ canary' \in [Reqs -> Nonces \cup {NoNonce}]
        /\ \A q \in Reqs : pc'[q] \in {"llm", "locked"} => canary'[q] \in Nonces
    <3>1. /\ pc \in [Reqs -> PCs] /\ "llm" \in PCs
          /\ canary \in [Reqs -> Nonces \cup {NoNonce}]
          /\ \A q \in Reqs : pc[q] \in {"llm", "locked"} => canary[q] \in Nonces
      BY DEF TypeOK, PCs
    <3>2. CASE UNCHANGED <<since, pc, canary>>
      BY <3>1, <3>2
    <3>3. CASE /\ pc' = [pc EXCEPT ![r] = "llm"]
               /\ canary' = [canary EXCEPT ![r] = n]
      BY <3>1, <3>3
    <3>4. QED
      BY <2>6, <3>2, <3>3
  <2>10. UNCHANGED <<gateVars, snap, disk, egress, historyVars>>
    BY <1>1 DEF Submit, Consume
  <2>11. QED
    BY <2>4, <2>5, <2>8, <2>9, <2>10 DEF TypeOK, gateVars, historyVars
<1>2. ASSUME NEW r \in Reqs, Deny(r) PROVE TypeOK'
  BY <1>2 DEF TypeOK, Deny, gateVars, nonceVars, PCs
<1>3. ASSUME NEW r \in Reqs, Approve(r) PROVE TypeOK'
  <2>1. [verb |-> "open", by |-> r] \in Ops
    BY DEF Ops
  <2>2. /\ lockQ' \in Seq(Ops)
        /\ timer' \in Int /\ timer' >= Off
    BY <1>3, <2>1, EnqueueTypes DEF TypeOK, Approve
  <2>3. QED
    BY <1>3, <2>2 DEF TypeOK, Approve, nonceVars, historyVars, PCs
<1>4. ASSUME NEW r \in Reqs, OpenSucceeds(r) PROVE TypeOK'
  <2>1. /\ lockQ' \in Seq(Ops)
        /\ timer' \in Int /\ timer' >= Off
    BY <1>4, DelayTypes, ReleaseTypes DEF OpenSucceeds, Running
  <2>2. opened' = [opened EXCEPT ![canary[r]] = opened[canary[r]] + 1]
    BY <1>4 DEF OpenSucceeds
  <2>3. opened' \in [Nonces -> Nat]
    <3>1. opened' = [n \in Nonces |-> IF n = canary[r] THEN opened[n] + 1
                                                       ELSE opened[n]]
      BY <2>2 DEF TypeOK
    <3>2. \A n \in Nonces : opened[n] \in Nat
      BY DEF TypeOK
    <3>3. QED
      BY <3>1, <3>2
  <2>4. /\ state' = "internet" /\ egress' = "open" /\ backoff' = 1
        /\ timerReason' = "ttl" /\ left' = Ttl
        /\ pc' = [pc EXCEPT ![r] = "persist"]
        /\ UNCHANGED <<nonceVars, canary, snap, disk, denied, acked>>
    BY <1>4 DEF OpenSucceeds
  <2>5. /\ pc' \in [Reqs -> PCs]
        /\ \A q \in Reqs : pc'[q] \in {"llm", "locked"} => canary'[q] \in Nonces
    BY <2>4 DEF TypeOK, PCs
  <2>6. /\ left' \in Nat /\ backoff' \in Nat \ {0}
        /\ state' \in {"island", "internet"} /\ timerReason' \in Reasons
        /\ egress' \in {"closed", "partial", "open"}
    BY <2>4, GateAssumption DEF Reasons
  <2>7. UNCHANGED <<consumed, age, since, canary, snap, disk, denied, acked>>
    BY <2>4 DEF nonceVars
  <2>8. QED
    BY <2>1, <2>3, <2>5, <2>6, <2>7 DEF TypeOK
<1>5. ASSUME NEW r \in Reqs, OpenFails(r) PROVE TypeOK'
  <2>1. /\ lockQ' \in Seq(Ops)
        /\ timer' \in Int /\ timer' >= Off
    BY <1>5, DelayTypes, ReleaseTypes DEF OpenFails, Running
  <2>2. egress' \in {"closed", "partial", "open"}
    BY <1>5 DEF TypeOK, OpenFails, AfterFailedOpen
  <2>3. QED
    BY <1>5, <2>1, <2>2 DEF TypeOK, OpenFails, nonceVars, historyVars, PCs, Reasons
<1>6. ASSUME NEW why \in Reasons, CloseSucceeds(why) PROVE TypeOK'
  <2>1. /\ lockQ' \in Seq(Ops)
        /\ timer' \in Int /\ timer' >= Off
    BY <1>6, DelayTypes, ReleaseTypes DEF CloseSucceeds, Running
  <2>2. egress' \in {"closed", "partial", "open"}
    BY <1>6 DEF TypeOK, CloseSucceeds, AfterClose
  <2>3. QED
    BY <1>6, <2>1, <2>2 DEF TypeOK, CloseSucceeds, nonceVars, handlerVars
<1>7. ASSUME NEW why \in Reasons, CloseFails(why) PROVE TypeOK'
  <2>1. RetryDelay \in Nat \ {0}
    BY DelayTypes
  <2>2. RetryDelay \in Int /\ RetryDelay >= Off
    BY <2>1 DEF Off
  <2>3. /\ lockQ' \in Seq(Ops)
        /\ timer' \in Int /\ timer' >= Off
    BY <1>7, <2>2, ReleaseTypes DEF CloseFails, Running
  <2>4. QED
    BY <1>7, <2>1, <2>3 DEF TypeOK, CloseFails, nonceVars, handlerVars, historyVars
<1>8. ASSUME TimerFires PROVE TypeOK'
  <2>1. [verb |-> "close", by |-> timerReason] \in Ops
    BY DEF TypeOK, Ops
  <2>2. /\ lockQ' \in Seq(Ops)
        /\ timer' \in Int /\ timer' >= Off
    BY <1>8, <2>1, EnqueueTypes DEF TimerFires, Off
  <2>3. QED
    BY <1>8, <2>2 DEF TypeOK, TimerFires, nonceVars, handlerVars, historyVars
<1>9. ASSUME ManualClose PROVE TypeOK'
  <2>1. [verb |-> "close", by |-> "manual"] \in Ops
    BY DEF Ops, Reasons
  <2>2. /\ lockQ' \in Seq(Ops)
        /\ timer' \in Int /\ timer' >= Off
    BY <1>9, <2>1, EnqueueTypes DEF TypeOK, ManualClose
  <2>3. QED
    BY <1>9, <2>2 DEF TypeOK, ManualClose, nonceVars, handlerVars, historyVars
<1>10. ASSUME NEW r \in Reqs, OtherRoute(r) PROVE TypeOK'
  BY <1>10 DEF TypeOK, OtherRoute, gateVars, nonceVars, historyVars, PCs
<1>11. ASSUME NEW r \in Reqs, WriteBegins(r) PROVE TypeOK'
  BY <1>11 DEF TypeOK, WriteBegins, Saved, gateVars, nonceVars, historyVars, PCs
<1>12. ASSUME NEW r \in Reqs, WriteLands(r) PROVE TypeOK'
  BY <1>12 DEF TypeOK, WriteLands, gateVars, nonceVars, PCs
<1>13. ASSUME Tick PROVE TypeOK'
  <2>1. timer' \in Int /\ timer' >= Off /\ left' \in Nat
    BY <1>13 DEF TypeOK, Tick, Younger, Off
  <2>2. age' \in [Nonces -> Unseen .. Stale]
    BY <1>13, GateAssumption DEF TypeOK, Tick, MinOf, Unseen, Stale
  <2>3. since' \in [Nonces -> 0 .. Forgotten]
    BY <1>13, GateAssumption DEF TypeOK, Tick, MinOf, Forgotten
  <2>4. QED
    BY <1>13, <2>1, <2>2, <2>3 DEF TypeOK, Tick, handlerVars
<1>14. CASE UNCHANGED vars
  BY <1>14 DEF TypeOK, vars, gateVars, nonceVars, handlerVars, historyVars
<1>15. QED
  BY <1>1, <1>2, <1>3, <1>4, <1>5, <1>6, <1>7, <1>8, <1>9, <1>10, <1>11,
     <1>12, <1>13, <1>14 DEF Next, HelperSettles

\* Type correctness: every variable keeps to the values its component stores,
\* in every run of a daemon that does not crash.
THEOREM TypeCorrect == Spec => []TypeOK
<1>1. Init => TypeOK
  BY GateAssumption
  DEF Init, TypeOK, Off, Unseen, Stale, Forgotten, Reasons, PCs, Ops
<1>2. QED
  BY <1>1, TypeStep, PTL DEF Spec
-----------------------------------------------------------------------------
(* The window. *)

\* Joining the lock leaves it held; leaving it either hands it on or leaves
\* the timer as the operation set it.
LEMMA TimerMoves ==
    ASSUME TypeOK, NEW t
    PROVE  /\ \A op \in Ops : Enqueue(op, t) => lockQ' # <<>> /\ timer' \in {t, Off}
           /\ Release(t) => (lockQ' # <<>> \/ timer' = t) /\ timer' \in {t, Off}
<1>1. ASSUME NEW op \in Ops, Enqueue(op, t)
      PROVE  lockQ' # <<>> /\ timer' \in {t, Off}
  <2>1. lockQ' # <<>>
    BY <1>1, AppendProperties DEF Enqueue, TypeOK
  <2>2. QED
    BY <1>1, <2>1 DEF Enqueue, OnStart
<1>2. ASSUME Release(t)
      PROVE  (lockQ' # <<>> \/ timer' = t) /\ timer' \in {t, Off}
  BY <1>2 DEF Release, OnStart
<1>3. QED
  BY <1>1, <1>2

\* What no step but those of the helper, the lock and the clock touches.
LEMMA WindowFrame ==
    ASSUME [Next]_vars
    PROVE  \/ UNCHANGED <<state, timer, lockQ, backoff, left, egress>>
           \/ \E r \in Reqs : Approve(r) \/ OpenSucceeds(r) \/ OpenFails(r)
           \/ \E why \in Reasons : CloseSucceeds(why) \/ CloseFails(why)
           \/ TimerFires \/ ManualClose \/ Tick
BY DEF Next, HelperSettles, vars, gateVars, historyVars, Submit, Consume, Deny,
       OtherRoute, WriteBegins, WriteLands

\* The two facts the timer is there for, by one step of each kind.
WindowInv == WindowTimeBoxed /\ NoLeftoverTimer

\* Each step keeps the window invariant.
LEMMA WindowStep == TypeOK /\ WindowInv /\ [Next]_vars => WindowInv'
<1> SUFFICES ASSUME TypeOK, WindowInv, [Next]_vars PROVE WindowInv'
  OBVIOUS
<1> USE DEF WindowInv, WindowTimeBoxed, NoLeftoverTimer
<1>1. CASE UNCHANGED <<state, timer, lockQ, backoff, left, egress>>
  BY <1>1
<1>2. ASSUME NEW r \in Reqs, Approve(r) PROVE WindowInv'
  <2>1. [verb |-> "open", by |-> r] \in Ops
    BY DEF Ops
  <2>2. lockQ' # <<>> /\ timer' \in {timer, Off}
    BY <1>2, <2>1, TimerMoves DEF Approve
  <2>3. QED
    BY <1>2, <2>2 DEF Approve, historyVars
<1>3. ASSUME NEW r \in Reqs, OpenSucceeds(r) PROVE WindowInv'
  <2>1. (lockQ' # <<>> \/ timer' = Ttl)
    BY <1>3, TimerMoves DEF OpenSucceeds
  <2>2. state' = "internet" /\ left' = Ttl
    BY <1>3 DEF OpenSucceeds
  <2>3. QED
    BY <2>1, <2>2, GateAssumption DEF Off
<1>4. ASSUME NEW r \in Reqs, OpenFails(r) PROVE WindowInv'
  <2>1. lockQ' # <<>> \/ timer' = RestoredTimer
    BY <1>4, TimerMoves DEF OpenFails
  <2>2. timer' \in {RestoredTimer, Off}
    BY <1>4, TimerMoves DEF OpenFails
  <2>3. UNCHANGED <<state, backoff, left>> /\ left \in Nat
    BY <1>4 DEF OpenFails, historyVars, TypeOK
  <2>4. QED
    BY <2>1, <2>2, <2>3 DEF RestoredTimer, Off, TypeOK
<1>5. ASSUME NEW why \in Reasons, CloseSucceeds(why) PROVE WindowInv'
  <2>1. timer' = Off
    BY <1>5, TimerMoves DEF CloseSucceeds, TimerAfterClose
  <2>2. QED
    BY <1>5, <2>1 DEF CloseSucceeds
<1>6. ASSUME NEW why \in Reasons, CloseFails(why) PROVE WindowInv'
  <2>1. lockQ' # <<>> \/ timer' = RetryDelay
    BY <1>6, TimerMoves DEF CloseFails
  <2>2. backoff' = RetryDelay /\ RetryDelay > 1 /\ RetryDelay <= BackoffCap
    BY <1>6, DelayTypes DEF CloseFails
  <2>3. RetryDelay \in Nat
    BY DelayTypes
  <2>4. QED
    BY <2>1, <2>2, <2>3 DEF Off
<1>7. ASSUME TimerFires PROVE WindowInv'
  <2>1. [verb |-> "close", by |-> timerReason] \in Ops
    BY DEF TypeOK, Ops
  <2>2. lockQ' # <<>> /\ timer' = Off
    BY <1>7, <2>1, TimerMoves DEF TimerFires
  <2>3. QED
    BY <2>2
<1>8. ASSUME ManualClose PROVE WindowInv'
  <2>1. [verb |-> "close", by |-> "manual"] \in Ops
    BY DEF Ops, Reasons
  <2>2. lockQ' # <<>> /\ timer' \in {timer, Off} /\ UNCHANGED <<state, backoff>>
    BY <1>8, <2>1, TimerMoves DEF ManualClose
  <2>3. QED
    BY <2>2
<1>9. ASSUME Tick PROVE WindowInv'
  <2>1. /\ timer # 0 /\ timer \in Int /\ timer >= Off /\ left \in Nat
        /\ timer' = Younger(timer) /\ left' = Younger(left)
        /\ UNCHANGED <<state, lockQ, backoff>>
    BY <1>9 DEF Tick, TypeOK
  <2>2. /\ timer' = Off <=> timer = Off
        /\ timer' <= timer
        /\ timer # Off /\ timer <= left => timer' <= left'
    BY <2>1 DEF Younger, Off
  <2>3. timer' \in Int /\ BackoffCap \in Int
    BY <2>1, GateAssumption DEF Younger
  <2>4. QED
    BY <2>1, <2>2, <2>3
<1>10. QED
  BY <1>1, <1>2, <1>3, <1>4, <1>5, <1>6, <1>7, <1>8, <1>9, WindowFrame

\* While the gate says internet it holds the lock or has a reclose timer that
\* fires within the Ttl, or within the longest backoff after a failed close.
THEOREM WindowAlwaysTimeBoxed == Spec => []WindowTimeBoxed
<1>1. Init => WindowInv
  BY DEF Init, WindowInv, WindowTimeBoxed, NoLeftoverTimer
<1>2. WindowInv => WindowTimeBoxed
  BY DEF WindowInv
<1>3. QED
  BY <1>1, <1>2, WindowStep, TypeCorrect, PTL DEF Spec

\* No timer outlives the window it was armed for, except to retry a close.
THEOREM NoTimerIsLeftOver == Spec => []NoLeftoverTimer
<1>1. Init => WindowInv
  BY DEF Init, WindowInv, WindowTimeBoxed, NoLeftoverTimer
<1>2. WindowInv => NoLeftoverTimer
  BY DEF WindowInv
<1>3. QED
  BY <1>1, <1>2, WindowStep, TypeCorrect, PTL DEF Spec
-----------------------------------------------------------------------------
(* The table. *)

\* The assumption about the helper under which the gate's word can be taken:
\* a verb that fails has changed nothing, and a verb that succeeds is done.
HonestHelper == HelperFaults \subseteq {"spawn"}

\* With an honest helper each step keeps the reported state true.
LEMMA EgressStep ==
    ASSUME HonestHelper, TypeOK, EgressHonest, [Next]_vars
    PROVE  EgressHonest'
<1> USE DEF EgressHonest
<1>1. CASE UNCHANGED <<state, timer, lockQ, backoff, left, egress>>
  BY <1>1
<1>2. ASSUME NEW r \in Reqs, OpenSucceeds(r) PROVE EgressHonest'
  BY <1>2 DEF OpenSucceeds
<1>3. ASSUME NEW r \in Reqs, OpenFails(r) PROVE EgressHonest'
  BY <1>3 DEF OpenFails, AfterFailedOpen, HonestHelper
<1>4. ASSUME NEW why \in Reasons, CloseSucceeds(why) PROVE EgressHonest'
  BY <1>4 DEF CloseSucceeds, AfterClose, HonestHelper
<1>5. ASSUME NEW why \in Reasons, CloseFails(why) PROVE EgressHonest'
  BY <1>5 DEF CloseFails
<1>6. ASSUME NEW r \in Reqs, Approve(r) PROVE EgressHonest'
  BY <1>6 DEF Approve
<1>7. CASE TimerFires \/ ManualClose \/ Tick
  BY <1>7 DEF TimerFires, ManualClose, Tick
<1>8. QED
  BY <1>1, <1>2, <1>3, <1>4, <1>5, <1>6, <1>7, WindowFrame

\* With such a helper the state the gate reports is the state of the table.
THEOREM GateIsHonest == HonestHelper => (Spec => []EgressHonest)
<1>1. Init => EgressHonest
  BY DEF Init, EgressHonest
<1>2. HonestHelper /\ TypeOK /\ EgressHonest /\ [Next]_vars => EgressHonest'
  BY EgressStep
<1>3. SUFFICES ASSUME HonestHelper PROVE Spec => []EgressHonest
  OBVIOUS
<1>4. TypeOK /\ EgressHonest /\ [Next]_vars => EgressHonest'
  BY <1>2, <1>3
<1>5. QED
  BY <1>1, <1>4, TypeCorrect, PTL DEF Spec

\* With such a helper traffic can leave only while a reclose is under way or
\* armed.
THEOREM EgressAlwaysTimeBoxed == HonestHelper => (Spec => []EgressTimeBoxed)
<1>1. TypeOK /\ EgressHonest /\ WindowTimeBoxed => EgressTimeBoxed
  BY DEF EgressHonest, WindowTimeBoxed, EgressTimeBoxed
<1>2. SUFFICES ASSUME HonestHelper PROVE Spec => []EgressTimeBoxed
  OBVIOUS
<1>3. Spec => []EgressHonest
  BY <1>2, GateIsHonest
<1>4. QED
  BY <1>1, <1>3, TypeCorrect, WindowAlwaysTimeBoxed, PTL
-----------------------------------------------------------------------------
(* The nonces. *)

\* Handing the lock on moves every waiting operation one place up.
LEMMA TailOps ==
    ASSUME TypeOK, lockQ # <<>>, lockQ' = Tail(lockQ)
    PROVE  /\ Len(lockQ') = Len(lockQ) - 1
           /\ \A i \in 1 .. Len(lockQ') :
                 i + 1 \in 1 .. Len(lockQ) /\ lockQ'[i] = lockQ[i + 1]
<1>1. lockQ \in Seq(Ops)
  BY DEF TypeOK
<1>2. Len(lockQ') = Len(lockQ) - 1
  BY <1>1, HeadTailProperties
<1>3. \A i \in 1 .. Len(Tail(lockQ)) : Tail(lockQ)[i] = lockQ[i + 1]
  BY <1>1, HeadTailProperties
<1>4. Len(lockQ) \in Nat
  BY <1>1
<1>5. QED
  BY <1>2, <1>3, <1>4

\* Joining it moves none.
LEMMA AppendOps ==
    ASSUME TypeOK, NEW op \in Ops, lockQ' = Append(lockQ, op)
    PROVE  /\ Len(lockQ') = Len(lockQ) + 1 /\ Len(lockQ) \in Nat
           /\ \A i \in 1 .. Len(lockQ) : lockQ'[i] = lockQ[i]
           /\ lockQ'[Len(lockQ) + 1] = op
<1>1. lockQ \in Seq(Ops)
  BY DEF TypeOK
<1>2. QED
  BY <1>1, AppendProperties

\* A close that joins the lock, and an operation that leaves it, keep the
\* opens that wait matched with their handlers.
LEMMA QueueKeeps ==
    ASSUME TypeOK, QueueInv, UNCHANGED pc,
           \/ \E why \in Reasons :
                 lockQ' = Append(lockQ, [verb |-> "close", by |-> why])
           \/ lockQ # <<>> /\ lockQ' = Tail(lockQ)
    PROVE  QueueInv'
<1>1. ASSUME NEW why \in Reasons,
             lockQ' = Append(lockQ, [verb |-> "close", by |-> why])
      PROVE  QueueInv'
  <2>1. [verb |-> "close", by |-> why] \in Ops
    BY DEF Ops
  <2>2. /\ Len(lockQ') = Len(lockQ) + 1 /\ Len(lockQ) \in Nat
        /\ \A i \in 1 .. Len(lockQ) : lockQ'[i] = lockQ[i]
        /\ lockQ'[Len(lockQ) + 1].verb = "close"
    BY <1>1, <2>1, AppendOps
  <2>3. QED
    BY <2>2 DEF QueueInv
<1>2. ASSUME lockQ # <<>>, lockQ' = Tail(lockQ) PROVE QueueInv'
  <2>1. \A i \in 1 .. Len(lockQ') :
           i + 1 \in 1 .. Len(lockQ) /\ lockQ'[i] = lockQ[i + 1]
    BY <1>2, TailOps
  <2>2. ASSUME NEW i \in 1 .. Len(lockQ'), lockQ'[i].verb = "open"
        PROVE  pc'[lockQ'[i].by] = "locked"
    BY <2>1, <2>2 DEF QueueInv
  <2>3. ASSUME NEW i \in 1 .. Len(lockQ'), lockQ'[i].verb = "open",
               NEW j \in 1 .. Len(lockQ'), lockQ'[j].verb = "open",
               lockQ'[j].by = lockQ'[i].by
        PROVE  i = j
    <3>1. i + 1 = j + 1
      BY <2>1, <2>3 DEF QueueInv
    <3>2. QED
      BY <3>1
  <2>4. QED
    BY <2>2, <2>3 DEF QueueInv
<1>3. QED
  BY <1>1, <1>2

\* The handler whose open ran leaves; no other open was its own.
LEMMA QueueLeaves ==
    ASSUME TypeOK, QueueInv, NEW r \in Reqs, NEW p,
           Running([verb |-> "open", by |-> r]), lockQ' = Tail(lockQ),
           pc' = [pc EXCEPT ![r] = p]
    PROVE  QueueInv' /\ pc[r] = "locked"
<1>1. lockQ # <<>> /\ lockQ \in Seq(Ops) /\ lockQ[1] = [verb |-> "open", by |-> r]
  <2>1. lockQ # <<>> /\ Head(lockQ) = [verb |-> "open", by |-> r]
    BY DEF Running
  <2>2. lockQ \in Seq(Ops)
    BY DEF TypeOK
  <2>3. Head(lockQ) = lockQ[1]
    BY <2>1, <2>2
  <2>4. QED
    BY <2>1, <2>2, <2>3
<1>2. 1 \in 1 .. Len(lockQ)
  BY <1>1, EmptySeq
<1>3. pc[r] = "locked"
  BY <1>1, <1>2 DEF QueueInv
<1>4. \A i \in 1 .. Len(lockQ') :
         i + 1 \in 1 .. Len(lockQ) /\ lockQ'[i] = lockQ[i + 1]
  BY <1>1, TailOps
<1>5. \A i \in 1 .. Len(lockQ') : lockQ'[i].verb = "open" => lockQ'[i].by # r
  BY <1>1, <1>2, <1>4 DEF QueueInv
<1>6. \A i \in 1 .. Len(lockQ') :
         lockQ'[i].verb = "open" => pc'[lockQ'[i].by] = pc[lockQ'[i].by]
  BY <1>5 DEF TypeOK
<1>7. QED
  BY <1>3, <1>4, <1>5, <1>6 DEF QueueInv

\* While the lock is left alone, a handler that waits for it goes on waiting.
LEMMA QueueWaits ==
    ASSUME TypeOK, QueueInv, UNCHANGED lockQ,
           \A r \in Reqs : pc[r] = "locked" => pc'[r] = "locked"
    PROVE  QueueInv'
<1>1. \A i \in 1 .. Len(lockQ) : lockQ[i] \in Ops
  BY DEF TypeOK
<1>2. QED
  BY <1>1 DEF QueueInv, Ops

\* An open joins the lock for the handler that waits for it from then on.
LEMMA QueueJoins ==
    ASSUME TypeOK, QueueInv, NEW r \in Reqs, Approve(r)
    PROVE  QueueInv'
<1>1. /\ pc[r] = "llm" /\ pc' = [pc EXCEPT ![r] = "locked"]
      /\ lockQ' = Append(lockQ, [verb |-> "open", by |-> r])
  BY DEF Approve, Enqueue
<1>2. [verb |-> "open", by |-> r] \in Ops
  BY DEF Ops
<1>3. /\ Len(lockQ') = Len(lockQ) + 1 /\ Len(lockQ) \in Nat
      /\ \A i \in 1 .. Len(lockQ) : lockQ'[i] = lockQ[i]
      /\ lockQ'[Len(lockQ) + 1] = [verb |-> "open", by |-> r]
  BY <1>1, <1>2, AppendOps
<1>4. \A i \in 1 .. Len(lockQ) : lockQ[i].verb = "open" =>
         /\ lockQ[i].by # r
         /\ pc'[lockQ[i].by] = "locked"
  BY <1>1 DEF QueueInv, TypeOK
<1>5. pc'[r] = "locked"
  BY <1>1 DEF TypeOK
<1>6. QED
  BY <1>3, <1>4, <1>5 DEF QueueInv

\* Each step keeps the opens on the lock matched with their handlers.
LEMMA QueueStep == TypeOK /\ QueueInv /\ [Next]_vars => QueueInv'
<1> SUFFICES ASSUME TypeOK, QueueInv, [Next]_vars PROVE QueueInv'
  OBVIOUS
<1>1. ASSUME NEW r \in Reqs, OpenSucceeds(r) \/ OpenFails(r) PROVE QueueInv'
  <2>1. /\ Running([verb |-> "open", by |-> r]) /\ lockQ' = Tail(lockQ)
        /\ \E p \in PCs : pc' = [pc EXCEPT ![r] = p]
    BY <1>1 DEF OpenSucceeds, OpenFails, Release, PCs
  <2>2. QED
    BY <2>1, QueueLeaves
<1>2. ASSUME NEW why \in Reasons, CloseSucceeds(why) \/ CloseFails(why) PROVE QueueInv'
  <2>1. lockQ # <<>> /\ lockQ' = Tail(lockQ) /\ UNCHANGED pc
    BY <1>2 DEF CloseSucceeds, CloseFails, Running, Release, handlerVars
  <2>2. QED
    BY <2>1, QueueKeeps
<1>3. CASE TimerFires \/ ManualClose
  <2>1. /\ \E why \in Reasons : lockQ' = Append(lockQ, [verb |-> "close", by |-> why])
        /\ UNCHANGED pc
    BY <1>3 DEF TimerFires, ManualClose, Enqueue, Reasons, TypeOK, handlerVars
  <2>2. QED
    BY <2>1, QueueKeeps
<1>4. ASSUME NEW r \in Reqs,
             Deny(r) \/ OtherRoute(r) \/ WriteBegins(r) \/ WriteLands(r)
             \/ \E n \in Nonces : Submit(r, n)
      PROVE  QueueInv'
  <2>1. /\ UNCHANGED lockQ /\ pc[r] # "locked"
        /\ pc' = pc \/ \E p \in PCs : pc' = [pc EXCEPT ![r] = p]
    BY <1>4 DEF Submit, Consume, Deny, OtherRoute, WriteBegins, WriteLands, gateVars, PCs
  <2>2. \A q \in Reqs : pc[q] = "locked" => pc'[q] = "locked"
    BY <2>1 DEF TypeOK
  <2>3. QED
    BY <2>1, <2>2, QueueWaits
<1>5. CASE Tick \/ UNCHANGED vars
  BY <1>5, QueueWaits DEF Tick, vars, gateVars, handlerVars
<1>6. QED
  BY <1>1, <1>2, <1>3, <1>4, <1>5, QueueJoins DEF Next, HelperSettles

\* What open() prunes is stale: its canary cannot pass the freshness check.
LEMMA PrunedIsStale ==
    ASSUME TypeOK, MemoryInv, NEW n \in Prunable
    PROVE  n \in Nonces /\ age[n] = Stale
<1>1. n \in Nonces /\ n \in consumed /\ since[n] > Prune
  BY DEF Prunable, TypeOK
<1>2. age[n] \in Unseen .. Stale /\ since[n] \in 0 .. Forgotten
  BY <1>1 DEF TypeOK
<1>3. age[n] >= since[n] - Freshness \/ age[n] = Stale
  BY <1>1 DEF MemoryInv
<1>4. QED
  BY <1>1, <1>2, <1>3, GateAssumption DEF Unseen, Stale, Forgotten

\* A canary that passed the freshness check and was not refused as used has
\* never been carried, refused or spent on a window.
LEMMA FreshIsUnspent ==
    ASSUME TypeOK, MemoryInv, NEW n \in Nonces, n \notin consumed \ Prunable,
           NEW a \in Ages(n), Fresh(a)
    PROVE  ~Spent(n) /\ a \in -Freshness .. Freshness
<1>1. age[n] \in Unseen .. Stale
  BY DEF TypeOK
<1>2. a \in Unseen .. Stale
  BY <1>1, GateAssumption DEF Ages, Unseen, Stale
<1>3. age[n] # Stale
  BY <1>1, <1>2, GateAssumption DEF Ages, Fresh, Unseen, Stale
<1>4. n \notin consumed
  BY <1>3, PrunedIsStale
<1>5. QED
  BY <1>2, <1>3, <1>4, GateAssumption DEF MemoryInv, Fresh, Unseen, Stale

\* A consumed canary has been seen, so presenting it again does not age it.
LEMMA SeenKeepsAge ==
    ASSUME TypeOK, MemoryInv, NEW n \in consumed, NEW a \in Ages(n)
    PROVE  a = age[n]
<1>1. n \in Nonces /\ age[n] \in Unseen .. Stale /\ since[n] \in 0 .. Forgotten
  BY DEF TypeOK
<1>2. age[n] >= since[n] - Freshness \/ age[n] = Stale
  BY <1>1 DEF MemoryInv
<1>3. age[n] # Unseen
  BY <1>1, <1>2, GateAssumption DEF Unseen, Stale, Forgotten
<1>4. QED
  BY <1>3 DEF Ages

\* A canary that is presented keeps the invariant, whether it is refused or consumed.
LEMMA SubmitKeepsNonces ==
    ASSUME TypeOK, NonceInv, NEW r \in Reqs, NEW n \in Nonces, Submit(r, n)
    PROVE  NonceInv'
<1>1. PICK a \in Ages(n) : Fresh(a) /\ age' = [age EXCEPT ![n] = a]
  BY DEF Submit, Consume
<1>2. /\ pc[r] = "idle"
      /\ UNCHANGED <<lockQ, opened, denied>>
  BY DEF Submit, Consume, gateVars, historyVars
<1>3. NonceOnce'
  BY <1>2 DEF NonceInv, NonceOnce
<1>4. \A m \in Prunable : age[m] = Stale
  BY PrunedIsStale DEF NonceInv
<1>5. CASE n \in consumed \ Prunable /\ consumed' = consumed \ Prunable
           /\ UNCHANGED <<since, pc, canary>>
  <2>1. a = age[n]
    BY <1>5, SeenKeepsAge DEF NonceInv
  <2>2. age' = age
    BY <1>1, <2>1 DEF TypeOK
  <2>3. QueueInv' /\ CarrierInv'
    BY <1>2, <1>5 DEF NonceInv, QueueInv, CarrierInv, InFlight
  <2>4. \A m \in Nonces : Spent(m)' = Spent(m)
    BY <1>2, <1>5 DEF Spent, InFlight
  <2>5. MemoryInv'
    BY <1>4, <1>5, <2>2, <2>4 DEF NonceInv, MemoryInv, Stale
  <2>6. QED
    BY <1>3, <2>3, <2>5 DEF NonceInv
<1>6. CASE /\ n \notin consumed \ Prunable
           /\ consumed' = (consumed \ Prunable) \cup {n}
           /\ since' = [since EXCEPT ![n] = 0]
           /\ pc' = [pc EXCEPT ![r] = "llm"]
           /\ canary' = [canary EXCEPT ![r] = n]
  <2>1. ~Spent(n) /\ a \in -Freshness .. Freshness
    BY <1>1, <1>6, FreshIsUnspent DEF NonceInv
  <2>2. /\ \A q \in Reqs : q # r => pc'[q] = pc[q] /\ canary'[q] = canary[q]
        /\ pc'[r] = "llm" /\ canary'[r] = n
    BY <1>6 DEF TypeOK
  <2>3. QueueInv'
    <3>1. \A i \in 1 .. Len(lockQ) :
             lockQ[i].verb = "open" => pc'[lockQ[i].by] = pc[lockQ[i].by]
      BY <1>2, <1>6 DEF NonceInv, QueueInv, TypeOK
    <3>2. QED
      BY <1>2, <3>1 DEF NonceInv, QueueInv
  <2>4. \A q \in Reqs : InFlight(q) => canary[q] # n
    BY <2>1 DEF Spent
  <2>5. opened[n] = 0 /\ n \notin denied
    BY <2>1 DEF Spent, TypeOK
  <2>6. CarrierInv'
    BY <1>2, <2>2, <2>4, <2>5 DEF NonceInv, CarrierInv, InFlight
  <2>7. \A m \in Nonces : m # n => (Spent(m)' <=> Spent(m))
    BY <1>2, <2>2 DEF Spent, InFlight
  <2>8. MemoryInv'
    <3>1. age'[n] = a /\ since'[n] = 0 /\ n \in consumed'
      BY <1>1, <1>6 DEF TypeOK
    <3>2. a >= 0 - Freshness
      BY <2>1, GateAssumption
    <3>3. \A m \in Nonces : m # n =>
             /\ age'[m] = age[m] /\ since'[m] = since[m]
             /\ m \in consumed' <=> m \in consumed \ Prunable
      BY <1>1, <1>6 DEF TypeOK
    <3>4. QED
      BY <1>4, <2>7, <3>1, <3>2, <3>3 DEF NonceInv, MemoryInv, Stale
  <2>9. QED
    BY <1>3, <2>3, <2>6, <2>8 DEF NonceInv
<1>7. QED
  BY <1>5, <1>6 DEF Submit, Consume

\* A handler that stops carrying its canary, refused or not, keeps the rest.
LEMMA LeavingKeepsNonces ==
    ASSUME TypeOK, NonceInv, NEW r \in Reqs, InFlight(r), NEW p \in PCs,
           p \notin {"llm", "locked"}, pc' = [pc EXCEPT ![r] = p],
           \A q \in Reqs : q # r => canary'[q] = canary[q],
           UNCHANGED <<consumed, age, since>>, QueueInv',
           \A m \in Nonces \ {canary[r]} :
              opened'[m] = opened[m] /\ (m \in denied' <=> m \in denied),
           \/ opened'[canary[r]] = 0
           \/ opened'[canary[r]] = 1 /\ canary[r] \notin denied'
    PROVE  NonceInv'
<1>1. /\ \A q \in Reqs : q # r => pc'[q] = pc[q]
      /\ pc'[r] = p /\ canary[r] \in Nonces
  BY DEF TypeOK, InFlight
<1>2. NonceOnce'
  BY <1>1 DEF NonceInv, NonceOnce
<1>3. CarrierInv'
  <2>1. \A q \in Reqs : InFlight(q)' => q # r /\ InFlight(q)
    BY <1>1 DEF InFlight
  <2>2. \A q \in Reqs : InFlight(q)' => canary[q] # canary[r] /\ canary[q] \in Nonces
    BY <2>1 DEF NonceInv, CarrierInv, TypeOK, InFlight
  <2>3. QED
    BY <2>1, <2>2 DEF NonceInv, CarrierInv
<1>4. MemoryInv'
  <2>1. \A m \in Nonces : Spent(m)' => Spent(m)
    <3>1. ASSUME NEW m \in Nonces, m # canary[r], Spent(m)' PROVE Spent(m)
      BY <1>1, <3>1 DEF Spent, InFlight
    <3>2. Spent(canary[r])
      BY DEF Spent
    <3>3. QED
      BY <3>1, <3>2
  <2>2. QED
    BY <2>1 DEF NonceInv, MemoryInv, Stale
<1>5. QED
  BY <1>2, <1>3, <1>4 DEF NonceInv

\* A step that leaves handlers in flight, canaries and memory alone.
LEMMA FrameKeepsNonces ==
    ASSUME TypeOK, NonceInv, QueueInv',
           \A r \in Reqs : InFlight(r)' <=> InFlight(r),
           \A r \in Reqs : InFlight(r) => canary'[r] = canary[r],
           UNCHANGED <<consumed, age, since, opened, denied>>
    PROVE  NonceInv'
<1>1. \A m \in Nonces : Spent(m)' <=> Spent(m)
  BY DEF Spent
<1>2. QED
  BY <1>1 DEF NonceInv, NonceOnce, CarrierInv, MemoryInv, Stale

\* Each step keeps the nonce invariant.
LEMMA NonceStep == TypeOK /\ NonceInv /\ [Next]_vars => NonceInv'
<1> SUFFICES ASSUME TypeOK, NonceInv, [Next]_vars PROVE NonceInv'
  OBVIOUS
<1>0. QueueInv'
  BY QueueStep DEF NonceInv
<1>1. ASSUME NEW r \in Reqs, NEW n \in Nonces, Submit(r, n) PROVE NonceInv'
  BY <1>1, SubmitKeepsNonces
<1>2. ASSUME NEW r \in Reqs, Deny(r) PROVE NonceInv'
  <2>1. InFlight(r) /\ canary[r] \in Nonces /\ "persist" \in PCs
    BY <1>2 DEF Deny, InFlight, TypeOK, PCs
  <2>2. opened[canary[r]] = 0
    BY <2>1 DEF NonceInv, CarrierInv
  <2>3. /\ pc' = [pc EXCEPT ![r] = "persist"]
        /\ denied' = denied \cup {canary[r]}
        /\ UNCHANGED <<lockQ, canary, opened, consumed, age, since>>
    BY <1>2 DEF Deny, gateVars, nonceVars
  <2>4. QED
    BY <1>0, <2>1, <2>2, <2>3, LeavingKeepsNonces
<1>3. ASSUME NEW r \in Reqs, Approve(r) PROVE NonceInv'
  <2>1. /\ pc[r] = "llm" /\ pc' = [pc EXCEPT ![r] = "locked"]
        /\ UNCHANGED <<canary, opened, denied, consumed, age, since>>
    BY <1>3 DEF Approve, nonceVars, historyVars
  <2>2. \A q \in Reqs : InFlight(q)' <=> InFlight(q)
    BY <2>1 DEF InFlight, TypeOK
  <2>3. QED
    BY <1>0, <2>1, <2>2, FrameKeepsNonces
<1>4. ASSUME NEW r \in Reqs, OpenSucceeds(r) PROVE NonceInv'
  <2>1. /\ Running([verb |-> "open", by |-> r]) /\ lockQ' = Tail(lockQ)
        /\ pc' = [pc EXCEPT ![r] = "persist"]
        /\ opened' = [opened EXCEPT ![canary[r]] = opened[canary[r]] + 1]
        /\ UNCHANGED <<canary, denied, consumed, age, since>>
    BY <1>4 DEF OpenSucceeds, Release, nonceVars
  <2>2. pc[r] = "locked"
    BY <2>1, QueueLeaves DEF NonceInv
  <2>3. InFlight(r) /\ canary[r] \in Nonces /\ "persist" \in PCs
    BY <2>2 DEF InFlight, TypeOK, PCs
  <2>4. opened[canary[r]] = 0 /\ canary[r] \notin denied
    BY <2>3 DEF NonceInv, CarrierInv
  <2>5. /\ opened'[canary[r]] = 1
        /\ \A m \in Nonces \ {canary[r]} : opened'[m] = opened[m]
    BY <2>1, <2>3, <2>4 DEF TypeOK
  <2>6. QED
    BY <1>0, <2>1, <2>3, <2>4, <2>5, LeavingKeepsNonces
<1>5. ASSUME NEW r \in Reqs, OpenFails(r) PROVE NonceInv'
  <2>1. /\ Running([verb |-> "open", by |-> r]) /\ lockQ' = Tail(lockQ)
        /\ pc' = [pc EXCEPT ![r] = "idle"]
        /\ canary' = [canary EXCEPT ![r] = NoNonce]
        /\ UNCHANGED <<opened, denied, consumed, age, since>>
    BY <1>5 DEF OpenFails, Release, nonceVars, historyVars
  <2>2. pc[r] = "locked"
    BY <2>1, QueueLeaves DEF NonceInv
  <2>3. InFlight(r) /\ "idle" \in PCs
    BY <2>2 DEF InFlight, PCs
  <2>4. opened[canary[r]] = 0
    BY <2>3 DEF NonceInv, CarrierInv
  <2>5. \A q \in Reqs : q # r => canary'[q] = canary[q]
    BY <2>1 DEF TypeOK
  <2>6. QED
    BY <1>0, <2>1, <2>3, <2>4, <2>5, LeavingKeepsNonces
<1>6. ASSUME NEW why \in Reasons, CloseSucceeds(why) \/ CloseFails(why)
      PROVE  NonceInv'
  <2>1. UNCHANGED <<pc, canary, opened, denied, consumed, age, since>>
    BY <1>6 DEF CloseSucceeds, CloseFails, nonceVars, handlerVars, historyVars
  <2>2. QED
    BY <1>0, <2>1, FrameKeepsNonces DEF InFlight
<1>7. ASSUME TimerFires \/ ManualClose PROVE NonceInv'
  <2>1. UNCHANGED <<pc, canary, opened, denied, consumed, age, since>>
    BY <1>7 DEF TimerFires, ManualClose, nonceVars, handlerVars, historyVars
  <2>2. QED
    BY <1>0, <2>1, FrameKeepsNonces DEF InFlight
<1>8. ASSUME NEW r \in Reqs, OtherRoute(r) \/ WriteBegins(r) \/ WriteLands(r)
      PROVE  NonceInv'
  <2>1. /\ pc[r] \notin {"llm", "locked"}
        /\ \E p \in PCs \ {"llm", "locked"} : pc' = [pc EXCEPT ![r] = p]
        /\ \A q \in Reqs : q # r => canary'[q] = canary[q]
        /\ UNCHANGED <<opened, denied, consumed, age, since>>
    BY <1>8 DEF OtherRoute, WriteBegins, WriteLands, PCs, TypeOK, gateVars,
                nonceVars, historyVars
  <2>2. \A q \in Reqs : /\ InFlight(q)' <=> InFlight(q)
                        /\ InFlight(q) => canary'[q] = canary[q]
    BY <2>1 DEF InFlight, TypeOK
  <2>3. QED
    BY <1>0, <2>1, <2>2, FrameKeepsNonces
<1>9. ASSUME Tick PROVE NonceInv'
  <2>1. /\ UNCHANGED <<lockQ, pc, canary, opened, denied, consumed>>
        /\ \A n \in Nonces :
              /\ age'[n] = IF age[n] = Unseen THEN Unseen ELSE MinOf(age[n] + 1, Stale)
              /\ since'[n] = MinOf(since[n] + 1, Forgotten)
    BY <1>9 DEF Tick, handlerVars
  <2>2. NonceOnce' /\ CarrierInv'
    BY <2>1 DEF NonceInv, NonceOnce, CarrierInv, InFlight
  <2>3. \A n \in Nonces : Spent(n)' <=> Spent(n)
    BY <2>1 DEF Spent, InFlight
  <2>4. ASSUME NEW n \in Nonces
        PROVE  /\ age[n] = Stale => age'[n] = Stale
               /\ n \in consumed /\ age[n] >= since[n] - Freshness =>
                    age'[n] >= since'[n] - Freshness \/ age'[n] = Stale
    <3>1. age[n] \in Unseen .. Stale /\ since[n] \in 0 .. Forgotten
      BY DEF TypeOK
    <3>2. QED
      BY <2>1, <3>1, GateAssumption DEF MinOf, Unseen, Stale, Forgotten
  <2>5. MemoryInv'
    BY <2>1, <2>3, <2>4 DEF NonceInv, MemoryInv, Stale
  <2>6. QED
    BY <1>0, <2>2, <2>5 DEF NonceInv
<1>10. CASE UNCHANGED vars
  <2>1. UNCHANGED <<pc, canary, opened, denied, consumed, age, since>>
    BY <1>10 DEF vars, nonceVars, handlerVars, historyVars
  <2>2. QED
    BY <1>0, <2>1, FrameKeepsNonces DEF InFlight
<1>11. QED
  BY <1>1, <1>2, <1>3, <1>4, <1>5, <1>6, <1>7, <1>8, <1>9, <1>10
  DEF Next, HelperSettles

\* The nonce invariant holds at the start.
LEMMA NonceStart == Init => NonceInv
BY DEF Init, NonceInv, NonceOnce, QueueInv, CarrierInv, MemoryInv, InFlight, Spent

\* A canary opens at most one window, and none once the policy refused it,
\* whatever the number of handlers that present it, the clock skew within the
\* freshness window, and what has been pruned meanwhile.
THEOREM NonceOpensOnce == Spec => []NonceOnce
<1>1. NonceInv => NonceOnce
  BY DEF NonceInv
<1>2. QED
  BY <1>1, NonceStart, NonceStep, TypeCorrect, PTL DEF Spec
-----------------------------------------------------------------------------
(* The abstract egress window. *)

\* Every step of the gate opens, refuses or closes a window, or is no step of
\* the window at all.
LEMMA WindowRefinementStep ==
    TypeOK /\ NonceInv /\ [Next]_vars => [Window!Next]_(Window!vars)
<1> SUFFICES ASSUME TypeOK, NonceInv, [Next]_vars
             PROVE  [Window!Next]_(Window!vars)
  OBVIOUS
<1>1. CASE UNCHANGED <<state, opened, denied>>
  BY <1>1 DEF Window!vars
<1>2. ASSUME NEW r \in Reqs, Deny(r) PROVE Window!Next
  <2>1. canary[r] \in Nonces /\ opened[canary[r]] = 0 /\ canary[r] \notin denied
    BY <1>2 DEF Deny, NonceInv, CarrierInv, InFlight, TypeOK
  <2>2. denied' = denied \cup {canary[r]} /\ UNCHANGED <<state, opened>>
    BY <1>2 DEF Deny, gateVars
  <2>3. PICK n \in Nonces : n = canary[r]
    BY <2>1
  <2>4. Window!Refuse(n)
    BY <2>1, <2>2, <2>3 DEF Window!Refuse
  <2>5. QED
    BY <2>4 DEF Window!Next
<1>3. ASSUME NEW r \in Reqs, OpenSucceeds(r) PROVE Window!Next
  <2>1. /\ Running([verb |-> "open", by |-> r]) /\ lockQ' = Tail(lockQ)
        /\ pc' = [pc EXCEPT ![r] = "persist"]
        /\ opened' = [opened EXCEPT ![canary[r]] = opened[canary[r]] + 1]
        /\ state' = "internet" /\ UNCHANGED denied
    BY <1>3 DEF OpenSucceeds, Release
  <2>2. pc[r] = "locked"
    BY <2>1, QueueLeaves DEF NonceInv
  <2>3. canary[r] \in Nonces /\ opened[canary[r]] = 0 /\ canary[r] \notin denied
    BY <2>2 DEF NonceInv, CarrierInv, InFlight, TypeOK
  <2>4. \A n \in Nonces : opened'[n] > 0 <=> opened[n] > 0 \/ n = canary[r]
    BY <2>1, <2>3 DEF TypeOK
  <2>5. PICK m \in Nonces : m = canary[r]
    BY <2>3
  <2>6. Window!Open(m)
    BY <2>1, <2>3, <2>4, <2>5 DEF Window!Open
  <2>7. QED
    BY <2>6 DEF Window!Next
<1>4. ASSUME NEW why \in Reasons, CloseSucceeds(why) PROVE Window!Next
  BY <1>4 DEF CloseSucceeds, Window!Close, Window!Next
<1>5. \/ UNCHANGED <<state, opened, denied>>
      \/ \E r \in Reqs : Deny(r) \/ OpenSucceeds(r)
      \/ \E why \in Reasons : CloseSucceeds(why)
  BY DEF Next, HelperSettles, vars, gateVars, historyVars, Submit, Consume, Approve,
         OpenFails, CloseFails, TimerFires, ManualClose, OtherRoute,
         WriteBegins, WriteLands, Tick
<1>6. QED
  BY <1>1, <1>2, <1>3, <1>4, <1>5

\* The gate, with its timers, lock, helper and files, is an egress window:
\* only an unspent canary opens it, and a refused one is spent.
THEOREM GateIsAWindow == Spec => ImplementsWindow
<1>1. Init => Window!Init
  BY DEF Init, Window!Init
<1>2. QED
  BY <1>1, WindowRefinementStep, NonceStart, NonceStep, TypeCorrect, PTL
  DEF Spec, ImplementsWindow, Window!Spec
-----------------------------------------------------------------------------
(* Crashes. *)

\* What a crash leaves is well-typed.
LEMMA CrashTypes == TypeOK /\ Crash => TypeOK'
<1> SUFFICES ASSUME TypeOK, Crash PROVE TypeOK'
  OBVIOUS
<1>1. disk' \in SUBSET Nonces
  BY DEF TypeOK, Crash, SurvivingFiles
<1>2. consumed' \subseteq Nonces
  BY <1>1 DEF Crash, Loaded
<1>3. egress' \in {"closed", "partial", "open"}
  BY DEF TypeOK, Crash, AfterKilledHelper
<1>4. lockQ' \in Seq(Ops)
  BY DEF Crash
<1>5. /\ pc' \in [Reqs -> PCs]
      /\ canary' \in [Reqs -> Nonces \cup {NoNonce}]
      /\ \A r \in Reqs : pc'[r] \in {"llm", "locked"} => canary'[r] \in Nonces
      /\ snap' \in [Reqs -> SUBSET Nonces]
  BY DEF Crash, PCs
<1>6. /\ timer' \in Int /\ timer' >= Off
      /\ state' = "island" /\ timerReason' = "ttl" /\ backoff' = 1 /\ left' = 0
      /\ UNCHANGED <<age, since, opened, denied, acked>>
  BY DEF Crash, Off
<1>7. QED
  <2>1. lockQ' \in Seq(Ops) /\ disk' \subseteq Nonces
    BY <1>1, <1>4
  <2>2. /\ state' \in {"island", "internet"} /\ timerReason' \in Reasons
        /\ backoff' \in Nat \ {0} /\ left' \in Nat
    BY <1>6 DEF Reasons
  <2>3. QED
    BY <1>2, <1>3, <1>5, <1>6, <2>1, <2>2 DEF TypeOK

\* A nonce is in the set, or its canary is stale and the set may forget it.
Kept(n, S) == n \in S \/ age[n] = Stale

\* Memory and the files hold canaries that were presented, and one that was
\* spent longer ago than the pruning delay is stale.
AgesInv ==
    /\ \A n \in Nonces : \/ age[n] \in {Unseen, Stale}
                         \/ age[n] >= since[n] - Freshness
    /\ \A n \in consumed \cup disk : age[n] # Unseen
    /\ \A r \in Reqs : \A n \in snap[r] : age[n] # Unseen

\* The canary of a handler is kept in memory from the moment it is consumed,
\* and in the snapshot from the moment that is taken; it is no one else's.
HandlersInv ==
    \A r \in Reqs :
        /\ pc[r] = "idle" => canary[r] = NoNonce
        /\ canary[r] # NoNonce => /\ Kept(canary[r], consumed)
                                  /\ pc[r] = "writing" => Kept(canary[r], snap[r])
                                  /\ \A q \in Reqs : canary[q] = canary[r] => q = r

\* A canary whose request was answered is kept wherever a crash may send the
\* daemon: in memory, in the file, and in the snapshot that will replace it.
\* So no handler carries it again.
AckedInv ==
    \A n \in acked :
        /\ Kept(n, consumed) /\ Kept(n, disk)
        /\ \A r \in Reqs : /\ pc[r] = "writing" => Kept(n, snap[r])
                           /\ canary[r] # n

CrashInv == AgesInv /\ HandlersInv /\ AckedInv

\* No write of gate.json begins while another is under way. The code does not
\* see to it: two handlers that answer at the same time may break it.
WritesApart == \A q, r \in Reqs : pc[q] = "writing" /\ pc[r] = "writing" => q = r

\* What open() prunes is stale, after any number of crashes.
LEMMA PrunedIsStaleAfterCrash ==
    ASSUME TypeOK, AgesInv, NEW n \in Prunable
    PROVE  n \in Nonces /\ age[n] = Stale
<1>1. n \in Nonces /\ n \in consumed /\ since[n] > Prune
  BY DEF Prunable, TypeOK
<1>2. age[n] \in Unseen .. Stale /\ since[n] \in 0 .. Forgotten
  BY <1>1 DEF TypeOK
<1>3. age[n] = Stale \/ age[n] >= since[n] - Freshness
  BY <1>1 DEF AgesInv
<1>4. QED
  BY <1>1, <1>2, <1>3, GateAssumption DEF Unseen, Stale, Forgotten

\* A step that changes neither what is kept nor the ages, and only takes
\* handlers forward, keeps the invariant.
LEMMA FrameKeepsAcked ==
    ASSUME TypeOK, CrashInv,
           UNCHANGED <<consumed, disk, snap, age, since, acked>>,
           \A r \in Reqs :
              /\ pc'[r] = "writing" => pc[r] = "writing"
              /\ pc'[r] = "idle" => pc[r] = "idle" \/ canary'[r] = NoNonce
              /\ canary'[r] \in {canary[r], NoNonce}
    PROVE  CrashInv'
<1>1. AgesInv'
  BY DEF CrashInv, AgesInv, Unseen, Stale
<1>2. HandlersInv'
  BY DEF CrashInv, HandlersInv, Kept, Stale
<1>3. AckedInv'
  BY GateAssumption DEF CrashInv, AckedInv, Kept, Stale, TypeOK
<1>4. QED
  BY <1>1, <1>2, <1>3 DEF CrashInv

\* Presenting a canary: a nonce that is in memory, or belongs to an answered
\* request, is refused or already stale; one that is consumed joins memory.
LEMMA SubmitKeepsAcked ==
    ASSUME TypeOK, CrashInv, NEW r \in Reqs, NEW n \in Nonces, Submit(r, n)
    PROVE  CrashInv'
<1>1. PICK a \in Ages(n) : Fresh(a) /\ age' = [age EXCEPT ![n] = a]
  BY DEF Submit
<1>2. pc[r] = "idle" /\ UNCHANGED <<snap, disk, acked>>
  BY DEF Submit, historyVars
<1>3. \A m \in Prunable : m \in Nonces /\ age[m] = Stale
  BY PrunedIsStaleAfterCrash DEF CrashInv
<1>4. age[n] \in Unseen .. Stale /\ age[n] # Stale /\ a \in -Freshness .. Freshness
  <2>1. age[n] \in Unseen .. Stale
    BY DEF TypeOK
  <2>2. age[n] # Unseen => a = age[n]
    BY DEF Ages
  <2>3. a \in Unseen .. Stale /\ Unseen # Stale
    BY <2>1, GateAssumption DEF Ages, Unseen, Stale
  <2>4. QED
    BY <1>1, <2>1, <2>2, <2>3, GateAssumption DEF Fresh, Unseen, Stale
<1>5. \A m \in Nonces : age[m] # Unseen => age'[m] = age[m]
  BY <1>1 DEF TypeOK, Ages
<1>6. a # Unseen /\ age'[n] = a /\ a >= 0 - Freshness
  BY <1>1, <1>4, GateAssumption DEF TypeOK, Unseen
<1>7. \A m \in Nonces : m # n => age'[m] = age[m]
  BY <1>1 DEF TypeOK
<1>8. Unseen # Stale
  BY GateAssumption DEF Unseen, Stale
<1>9. /\ \A m \in consumed : m \in consumed' \/ age'[m] = Stale
      /\ consumed' \subseteq consumed \cup {n}
      /\ consumed \subseteq Nonces /\ disk \subseteq Nonces /\ acked \subseteq Nonces
  <2>1. /\ consumed \ Prunable \subseteq consumed'
        /\ consumed' \subseteq consumed \cup {n}
    BY DEF Submit, Consume
  <2>2. QED
    BY <1>3, <1>5, <1>8, <2>1 DEF TypeOK
<1>10. \A m \in Nonces, S \in SUBSET Nonces : Kept(m, S) => m \in S \/ age'[m] = Stale
  BY <1>5, <1>8 DEF Kept
<1>11. \A m \in Nonces : Kept(m, consumed) => m \in consumed' \/ age'[m] = Stale
  BY <1>9, <1>10 DEF Kept
<1>12. \A q \in Reqs : snap[q] \in SUBSET Nonces /\ snap'[q] = snap[q]
  BY <1>2 DEF TypeOK
<1>13. /\ \A q \in Reqs : q # r => pc'[q] = pc[q] /\ canary'[q] = canary[q]
       /\ \/ pc'[r] = pc[r] /\ canary'[r] = canary[r]
          \/ /\ pc'[r] = "llm" /\ canary'[r] = n /\ n \in consumed'
             /\ n \notin acked /\ \A q \in Reqs : canary[q] # n
  <2>1. CASE UNCHANGED <<since, pc, canary>>
    BY <2>1
  <2>2. CASE /\ n \notin consumed \ Prunable
             /\ consumed' = (consumed \ Prunable) \cup {n}
             /\ pc' = [pc EXCEPT ![r] = "llm"]
             /\ canary' = [canary EXCEPT ![r] = n]
    <3>1. n \notin consumed
      BY <1>3, <1>4, <2>2
    <3>2. n \notin acked
      BY <1>4, <3>1 DEF CrashInv, AckedInv, Kept
    <3>3. \A q \in Reqs : canary[q] # n
      BY <1>4, <3>1, GateAssumption DEF CrashInv, HandlersInv, Kept
    <3>4. QED
      BY <2>2, <3>2, <3>3 DEF TypeOK
  <2>3. QED
    BY <2>1, <2>2 DEF Submit, Consume
<1>14. AgesInv'
  <2>1. \A m \in Nonces : \/ age'[m] \in {Unseen, Stale}
                          \/ age'[m] >= since'[m] - Freshness
    <3>1. CASE UNCHANGED since /\ n \in consumed
      <4>1. age'[n] = age[n]
        BY <1>5, <3>1 DEF CrashInv, AgesInv
      <4>2. QED
        BY <1>7, <3>1, <4>1 DEF CrashInv, AgesInv
    <3>2. CASE since' = [since EXCEPT ![n] = 0]
      <4>1. since'[n] = 0 /\ \A m \in Nonces : m # n => since'[m] = since[m]
        BY <3>2 DEF TypeOK
      <4>2. QED
        BY <1>6, <1>7, <4>1 DEF CrashInv, AgesInv
    <3>3. QED
      BY <3>1, <3>2 DEF Submit, Consume
  <2>2. \A m \in consumed' \cup disk' : age'[m] # Unseen
    BY <1>2, <1>5, <1>6, <1>9 DEF CrashInv, AgesInv
  <2>3. \A q \in Reqs : \A m \in snap'[q] : age'[m] # Unseen
    BY <1>5, <1>6, <1>12 DEF CrashInv, AgesInv
  <2>4. QED
    BY <2>1, <2>2, <2>3 DEF AgesInv, Unseen, Stale
<1>15. HandlersInv'
  <2>1. ASSUME NEW q \in Reqs, pc'[q] = pc[q], canary'[q] = canary[q]
        PROVE  /\ pc'[q] = "idle" => canary'[q] = NoNonce
               /\ canary'[q] # NoNonce =>
                     /\ canary'[q] \in consumed' \/ age'[canary'[q]] = Stale
                     /\ pc'[q] = "writing" =>
                           canary'[q] \in snap'[q] \/ age'[canary'[q]] = Stale
    <3>1. canary[q] # NoNonce => canary[q] \in Nonces
      BY DEF TypeOK
    <3>2. QED
      BY <1>10, <1>11, <1>12, <2>1, <3>1 DEF CrashInv, HandlersInv
  <2>2. NoNonce # n
    BY GateAssumption
  <2>3. ASSUME NEW p \in Reqs, NEW q \in Reqs, canary'[p] # NoNonce,
               canary'[q] = canary'[p]
        PROVE  q = p
    BY <1>13, <2>3 DEF CrashInv, HandlersInv
  <2>4. QED
    BY <1>13, <2>1, <2>2, <2>3 DEF HandlersInv, Kept, Stale
<1>16. AckedInv'
  <2>1. ASSUME NEW m \in acked
        PROVE  /\ m \in consumed' \/ age'[m] = Stale
               /\ m \in disk \/ age'[m] = Stale
               /\ \A q \in Reqs : pc[q] = "writing" => m \in snap[q] \/ age'[m] = Stale
               /\ \A q \in Reqs : canary[q] # m
    BY <1>9, <1>10, <1>11, <1>12 DEF CrashInv, AckedInv
  <2>2. \A q \in Reqs : /\ pc'[q] = "writing" => pc[q] = "writing"
                        /\ canary'[q] = canary[q] \/ canary'[q] \notin acked
    BY <1>13
  <2>3. QED
    BY <1>2, <1>12, <2>1, <2>2 DEF AckedInv, Kept, Stale
<1>17. QED
  BY <1>14, <1>15, <1>16 DEF CrashInv

\* The snapshot a write starts from holds all that memory keeps.
LEMMA WriteBeginsKeepsAcked ==
    ASSUME TypeOK, CrashInv, NEW r \in Reqs, WriteBegins(r)
    PROVE  CrashInv'
<1>1. /\ pc'[r] = "writing" /\ snap'[r] = consumed
      /\ \A q \in Reqs : q # r => pc'[q] = pc[q] /\ snap'[q] = snap[q]
      /\ UNCHANGED <<consumed, age, since, canary, disk, acked>>
  BY DEF WriteBegins, Saved, TypeOK, nonceVars, historyVars
<1>2. AgesInv'
  BY <1>1 DEF CrashInv, AgesInv, Unseen, Stale
<1>3. HandlersInv'
  BY <1>1 DEF CrashInv, HandlersInv, Kept, Stale
<1>4. AckedInv'
  BY <1>1 DEF CrashInv, AckedInv, Kept, Stale
<1>5. QED
  BY <1>2, <1>3, <1>4 DEF CrashInv

\* The write that ends a request leaves its nonce in the file. Were another
\* under way, its older snapshot could land after this one.
LEMMA WriteLandsKeepsAcked ==
    ASSUME WritesApart, TypeOK, CrashInv, NEW r \in Reqs, WriteLands(r)
    PROVE  CrashInv'
<1>1. /\ pc[r] = "writing" /\ pc'[r] = "idle"
      /\ canary'[r] = NoNonce /\ snap'[r] = {} /\ disk' = snap[r]
      /\ acked' = acked \cup ({canary[r]} \ {NoNonce})
      /\ UNCHANGED <<consumed, age, since>>
  BY DEF WriteLands, TypeOK, nonceVars
<1>2. \A q \in Reqs : q # r => /\ pc'[q] = pc[q] /\ pc[q] # "writing"
                               /\ canary'[q] = canary[q] /\ snap'[q] = snap[q]
  BY <1>1 DEF WriteLands, WritesApart, TypeOK
<1>3. AgesInv'
  BY <1>1, <1>2 DEF CrashInv, AgesInv, Unseen, Stale
<1>4. HandlersInv'
  BY <1>1, <1>2 DEF CrashInv, HandlersInv, Kept, Stale
<1>5. \A n \in acked' : Kept(n, consumed) /\ Kept(n, snap[r])
  BY <1>1 DEF CrashInv, HandlersInv, AckedInv
<1>6. \A n \in acked' : \A q \in Reqs : canary'[q] # n
  <2>1. acked \subseteq Nonces /\ NoNonce \notin Nonces
    BY GateAssumption DEF TypeOK
  <2>2. QED
    BY <1>1, <1>2, <2>1 DEF CrashInv, HandlersInv, AckedInv
<1>7. AckedInv'
  BY <1>1, <1>2, <1>5, <1>6 DEF AckedInv, Kept, Stale
<1>8. QED
  BY <1>3, <1>4, <1>7 DEF CrashInv

\* Time makes canaries stale and never fresh again.
LEMMA TickKeepsAcked ==
    ASSUME TypeOK, CrashInv, Tick
    PROVE  CrashInv'
<1>1. /\ UNCHANGED <<consumed, pc, canary, snap, disk, acked>>
      /\ \A n \in Nonces :
            /\ age'[n] = IF age[n] = Unseen THEN Unseen ELSE MinOf(age[n] + 1, Stale)
            /\ since'[n] = MinOf(since[n] + 1, Forgotten)
  BY DEF Tick, handlerVars
<1>2. ASSUME NEW n \in Nonces
      PROVE  /\ age[n] = Stale => age'[n] = Stale
             /\ age[n] # Unseen => age'[n] # Unseen
             /\ age[n] \in {Unseen, Stale} \/ age[n] >= since[n] - Freshness =>
                  age'[n] \in {Unseen, Stale} \/ age'[n] >= since'[n] - Freshness
  <2>1. age[n] \in Unseen .. Stale /\ since[n] \in 0 .. Forgotten
    BY DEF TypeOK
  <2>2. QED
    BY <1>1, <2>1, GateAssumption DEF MinOf, Unseen, Stale, Forgotten
<1>3. /\ consumed \subseteq Nonces /\ disk \subseteq Nonces /\ acked \subseteq Nonces
      /\ \A q \in Reqs : /\ snap[q] \subseteq Nonces
                         /\ canary[q] # NoNonce => canary[q] \in Nonces
  BY DEF TypeOK
<1>4. AgesInv'
  BY <1>1, <1>2, <1>3 DEF CrashInv, AgesInv, Unseen, Stale
<1>5. HandlersInv'
  BY <1>1, <1>2, <1>3 DEF CrashInv, HandlersInv, Kept, Stale
<1>6. AckedInv'
  BY <1>1, <1>2, <1>3 DEF CrashInv, AckedInv, Kept, Stale
<1>7. QED
  BY <1>4, <1>5, <1>6 DEF CrashInv

\* A crash loses what was in memory and reads back a file that keeps every
\* answered canary, the old one or the one a write had ready.
LEMMA CrashKeepsAcked ==
    ASSUME ~TornWrites, TypeOK, CrashInv, Crash
    PROVE  CrashInv'
<1>1. /\ disk' \in SurvivingFiles /\ consumed' = disk'
      /\ \A r \in Reqs : pc'[r] = "idle" /\ canary'[r] = NoNonce /\ snap'[r] = {}
      /\ UNCHANGED <<age, since, acked>>
  BY DEF Crash, Loaded
<1>2. disk' = disk \/ \E r \in Reqs : pc[r] = "writing" /\ disk' = snap[r]
  BY <1>1 DEF SurvivingFiles
<1>3. AgesInv'
  BY <1>1, <1>2 DEF CrashInv, AgesInv, Unseen, Stale
<1>4. HandlersInv'
  BY <1>1 DEF HandlersInv
<1>5. \A n \in acked : Kept(n, disk')
  BY <1>2 DEF CrashInv, AckedInv
<1>6. AckedInv'
  BY <1>1, <1>5, GateAssumption DEF AckedInv, Kept, Stale, TypeOK
<1>7. QED
  BY <1>3, <1>4, <1>6 DEF CrashInv

\* Each step, and each crash, keeps the invariant.
LEMMA CrashStep ==
    ASSUME ~TornWrites, WritesApart, TypeOK, CrashInv, [Next \/ Crash]_vars
    PROVE  CrashInv'
<1>1. ASSUME NEW r \in Reqs, Deny(r) \/ Approve(r) \/ OtherRoute(r) PROVE CrashInv'
  <2>1. /\ \/ pc[r] = "llm" /\ \E p \in {"persist", "locked"} : pc' = [pc EXCEPT ![r] = p]
           \/ pc[r] = "idle" /\ pc' = [pc EXCEPT ![r] = "persist"]
        /\ UNCHANGED <<consumed, disk, snap, age, since, acked, canary>>
    BY <1>1, Zenon DEF Deny, Approve, OtherRoute, nonceVars, historyVars
  <2>2. \A q \in Reqs : q # r => pc'[q] = pc[q]
    BY <2>1 DEF TypeOK
  <2>3. \/ pc[r] = "llm" /\ pc'[r] \in {"persist", "locked"}
        \/ pc[r] = "idle" /\ pc'[r] = "persist"
    BY <2>1 DEF TypeOK
  <2>4. QED
    BY <2>1, <2>2, <2>3, FrameKeepsAcked
<1>2. ASSUME NEW r \in Reqs, OpenSucceeds(r) PROVE CrashInv'
  <2>1. /\ pc' = [pc EXCEPT ![r] = "persist"]
        /\ UNCHANGED <<consumed, disk, snap, age, since, acked, canary>>
    BY <1>2 DEF OpenSucceeds, nonceVars
  <2>2. pc'[r] = "persist" /\ \A q \in Reqs : q # r => pc'[q] = pc[q]
    BY <2>1 DEF TypeOK
  <2>3. QED
    BY <2>1, <2>2, FrameKeepsAcked
<1>3. ASSUME NEW r \in Reqs, OpenFails(r) PROVE CrashInv'
  <2>1. /\ pc' = [pc EXCEPT ![r] = "idle"]
        /\ canary' = [canary EXCEPT ![r] = NoNonce]
        /\ UNCHANGED <<consumed, disk, snap, age, since, acked>>
    BY <1>3 DEF OpenFails, nonceVars, historyVars
  <2>2. /\ pc'[r] = "idle" /\ canary'[r] = NoNonce
        /\ \A q \in Reqs : q # r => pc'[q] = pc[q] /\ canary'[q] = canary[q]
    BY <2>1 DEF TypeOK
  <2>3. QED
    BY <2>1, <2>2, FrameKeepsAcked
<1>4. CASE \/ \E why \in Reasons : CloseSucceeds(why) \/ CloseFails(why)
           \/ TimerFires \/ ManualClose \/ UNCHANGED vars
  <2>1. UNCHANGED <<consumed, disk, snap, age, since, acked, pc, canary>>
    BY <1>4 DEF CloseSucceeds, CloseFails, TimerFires, ManualClose, vars,
                nonceVars, handlerVars, historyVars
  <2>2. QED
    BY <2>1, FrameKeepsAcked
<1>5. CASE Tick
  BY <1>5, TickKeepsAcked
<1>6. CASE Crash
  BY <1>6, CrashKeepsAcked
<1>7. ASSUME NEW r \in Reqs,
             WriteBegins(r) \/ WriteLands(r) \/ \E n \in Nonces : Submit(r, n)
      PROVE  CrashInv'
  BY <1>7, WriteBeginsKeepsAcked, WriteLandsKeepsAcked, SubmitKeepsAcked
<1>8. QED
  BY <1>1, <1>2, <1>3, <1>4, <1>5, <1>6, <1>7 DEF Next, HelperSettles

\* The step that AckedFinal speaks of: no answered canary opens a window or is
\* refused.
AckedStep == \A n \in acked : /\ opened'[n] = opened[n]
                              /\ n \in denied' => n \in denied

\* A handler is refused or opens a window for the canary it carries, and none
\* carries an answered one.
LEMMA AckedUntouched ==
    ASSUME TypeOK, AckedInv, [Next \/ Crash]_vars
    PROVE  AckedStep
<1>1. acked \subseteq Nonces
  BY DEF TypeOK
<1>2. ASSUME NEW r \in Reqs, Deny(r) PROVE AckedStep
  <2>1. denied' = denied \cup {canary[r]} /\ UNCHANGED opened
    BY <1>2 DEF Deny
  <2>2. \A n \in acked : canary[r] # n
    BY DEF AckedInv
  <2>3. QED
    BY <2>1, <2>2 DEF AckedStep
<1>3. ASSUME NEW r \in Reqs, OpenSucceeds(r) PROVE AckedStep
  <2>1. /\ opened' = [opened EXCEPT ![canary[r]] = opened[canary[r]] + 1]
        /\ UNCHANGED denied
    BY <1>3 DEF OpenSucceeds
  <2>2. \A n \in acked : canary[r] # n
    BY DEF AckedInv
  <2>3. QED
    BY <1>1, <2>1, <2>2 DEF AckedStep, TypeOK
<1>4. CASE UNCHANGED <<opened, denied>>
  BY <1>4 DEF AckedStep
<1>5. [Next]_vars => \/ UNCHANGED <<opened, denied>>
                     \/ \E r \in Reqs : Deny(r) \/ OpenSucceeds(r)
  BY DEF Next, HelperSettles, vars, gateVars, historyVars, Submit, Consume, Approve,
         OpenFails, CloseSucceeds, CloseFails, TimerFires, ManualClose, OtherRoute,
         WriteBegins, WriteLands, Tick
<1>6. Crash => UNCHANGED <<opened, denied>>
  BY DEF Crash
<1>7. QED
  BY <1>2, <1>3, <1>4, <1>5, <1>6

\* Once a request was answered its canary opens nothing more, through any
\* number of crashes and restarts (main.ts: "save it so a restart can't replay
\* it"), for any number of handlers and canaries and any clock skew within the
\* freshness window, as long as no two writes of gate.json overlap and a crash
\* tears none.
THEOREM AckedStaysFinal == ~TornWrites => (CrashSpec /\ []WritesApart => AckedFinal)
<1>1. SUFFICES ASSUME ~TornWrites PROVE CrashSpec /\ []WritesApart => AckedFinal
  OBVIOUS
<1>2. Init => TypeOK /\ CrashInv
  <2>1. Init => TypeOK
    BY GateAssumption
    DEF Init, TypeOK, Off, Unseen, Stale, Forgotten, Reasons, PCs, Ops
  <2>2. Init => CrashInv
    BY DEF Init, CrashInv, AgesInv, HandlersInv, AckedInv, Unseen
  <2>3. QED
    BY <2>1, <2>2
<1>3. TypeOK /\ CrashInv /\ WritesApart /\ [Next \/ Crash]_vars
        => (TypeOK /\ CrashInv)'
  BY <1>1, TypeStep, CrashTypes, CrashStep
<1>4. TypeOK /\ CrashInv /\ [Next \/ Crash]_vars
        => [\A n \in acked : /\ opened'[n] = opened[n]
                             /\ n \in denied' => n \in denied]_vars
  BY AckedUntouched DEF CrashInv, AckedStep
<1>5. QED
  BY <1>2, <1>3, <1>4, PTL DEF CrashSpec, AckedFinal

\* In particular with one handler, the instance the crash run checks.
COROLLARY AckedFinalAlone ==
    (\A q, r \in Reqs : q = r) /\ ~TornWrites => (CrashSpec => AckedFinal)
<1>1. SUFFICES ASSUME \A q, r \in Reqs : q = r, ~TornWrites
               PROVE  CrashSpec => AckedFinal
  OBVIOUS
<1>2. WritesApart
  BY <1>1 DEF WritesApart
<1>3. CrashSpec /\ []WritesApart => AckedFinal
  BY <1>1, AckedStaysFinal
<1>4. QED
  BY <1>2, <1>3, PTL
=============================================================================
