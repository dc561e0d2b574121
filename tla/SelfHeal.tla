------------------------------ MODULE SelfHeal -------------------------------
(***************************************************************************)
(* The self-healing daemon wg-selfheal: its loop (daemon/cmd/wg-selfheal/  *)
(* main.go), the health ladder and the remediation ladder (internal/heal), *)
(* the transitions it logs (internal/alert), the kernel's peer table as it *)
(* reads and writes it (internal/wg), and the roster that the island       *)
(* daemon makes of the log (island/src/core/sysinfo.ts, readDaemon).       *)
(*                                                                         *)
(* One tick of the daemon is one step: it is a single goroutine, and all   *)
(* it decides it decides from one read of the table. Time is relative, and *)
(* ages stop where the thresholds no longer tell them apart. A failed read *)
(* changes nothing. Definitions introduced as a "slip" are mistakes the    *)
(* code could have made; no action uses them.                              *)
(***************************************************************************)
EXTENDS Integers, Sequences, FiniteSets, Lists

CONSTANTS Peers,
          Role,          \* "spoke" or "relay"
          StaleAfter, DegradedAfter, RestoredHold,   \* the health ladder
          Staleness, Window, MaxReResolve, MaxBounce, \* the remediation
          Rekey,         \* a link that is up shakes hands this often
          Snapshot,      \* the flag --snapshot
          Drifts,        \* how the kernel's endpoint goes bad: "none", "wrong"
          Restarts,      \* whether the daemon may restart
          MaxFaults      \* bound: things that go wrong

ASSUME SelfHealAssumption ==
    /\ Role \in {"spoke", "relay"}
    /\ StaleAfter \in Nat \ {0} /\ DegradedAfter \in Nat /\ RestoredHold \in Nat
    /\ StaleAfter <= DegradedAfter
    /\ Staleness \in Nat /\ Window \in Nat \ {0}
    /\ MaxReResolve \in Nat /\ MaxBounce \in Nat
    /\ Rekey \in Nat /\ Rekey < StaleAfter
    /\ Snapshot \in BOOLEAN /\ Restarts \in BOOLEAN
    /\ Drifts \subseteq {"none", "wrong"}
    /\ IsFiniteSet(Peers)
    /\ MaxFaults \in Nat

VARIABLES present,       \* kernel: peers on the interface
          age,           \* kernel: time since the last handshake, or Never
          endpoint,      \* kernel: "none", "home" or "wrong"
          up,            \* peers that answer at their home endpoint
          memo,          \* st.memo: the last state, or "absent"
          held,          \* st.memo: time since RestoredSince
          cache,         \* st.endpointCache, "none" if there is no entry
          history,       \* st.history: per peer, the ages of its records
          roster,        \* what islandd last read about each wg0 address
          faults,        \* things that went wrong so far
          life,          \* history: how often the daemon was started anew
          pushed,        \* history: per peer and life, the ages of its pushes
          well,          \* history: time since a tick last found a peer ill
          seenIll        \* history: peers found ill since the daemon knows them

kernelVars == <<present, age, endpoint, up>>
daemonVars == <<memo, held, cache, history>>
historyVars == <<life, pushed, well, seenIll>>
vars == <<kernelVars, daemonVars, roster, faults, historyVars>>

States == {"ok", "stale", "degraded", "restored"}
Endpoints == {"none", "home", "wrong"}
Never == -1
Unread == "unlisted"

MaxOf(a, b) == IF a >= b THEN a ELSE b
Old == MaxOf(DegradedAfter, Staleness)   \* older is not told apart
Lives == 0 .. MaxFaults                  \* every restart counts as a fault

\* One unit of time later, up to a bound; Never stays Never.
Later(a, bound) == IF a = Never \/ a >= bound THEN a ELSE a + 1
LaterAll(s) == [i \in 1 .. Len(s) |-> Later(s[i], Window)]

\* Slip: the breaker's window is one unit of time too short.
RecentShort == 0 .. Window - 2

\* The ages within the breaker's window.
Recent == 0 .. Window - 1

\* staleness(now) >= d; a peer that never shook hands is infinitely stale.
AtLeast(p, d) == age[p] = Never \/ age[p] >= d
-----------------------------------------------------------------------------
(* The health ladder (heal.Step).                                          *)

\* How long a peer found healthy has been restored.
Held(p) == IF memo[p] = "restored" THEN held[p] ELSE 0

\* Slip: the hold is over at the next tick.
ServedAtNextTick(p) == memo[p] = "restored"

Served(p) == memo[p] = "restored" /\ Held(p) >= RestoredHold

\* The state stepPeer derives from the handshake's age and the memory.
StepPeer(p) ==
    IF AtLeast(p, DegradedAfter) THEN "degraded"
    ELSE IF AtLeast(p, StaleAfter) THEN "stale"
    ELSE IF memo[p] \in {"stale", "degraded", "restored"} /\ ~Served(p) THEN "restored"
    ELSE "ok"

\* Slip: the snapshot knows no peer that is merely stale.
ObservedTwoStates(p) == IF AtLeast(p, DegradedAfter) THEN "degraded" ELSE "ok"

\* Slip: a merely stale peer has no status of its own.
ObservedUnnamed(p) == IF AtLeast(p, DegradedAfter) THEN "degraded"
                      ELSE IF AtLeast(p, StaleAfter) THEN "unknown"
                      ELSE "ok"

\* The status of a snapshot line (observe), which has no memory.
Observed(p) == IF AtLeast(p, DegradedAfter) THEN "degraded"
               ELSE IF AtLeast(p, StaleAfter) THEN "stale"
               ELSE "ok"
-----------------------------------------------------------------------------
(* The remediation ladder (heal.Decide, remediate) and the endpoint cache. *)

\* Slip: records never leave the breaker's window.
AllTries(p) == history[p]

\* The records of a peer the breaker still counts (pruneHistory, countRecent).
RecentTries(p) == Filter(history[p], Recent)

\* What decidePeer answers. No bounce is ever executed or recorded.
Decision(p) ==
    IF ~AtLeast(p, Staleness) THEN "nothing"
    ELSE IF Len(RecentTries(p)) < MaxReResolve THEN "re-resolve"
    ELSE IF Role = "spoke" /\ MaxBounce > 0 THEN "bounce"
    ELSE "alert"

\* The cache after pruneCache and cacheHealthy.
Cached(p) ==
    IF p \notin present THEN "none"
    ELSE IF StepPeer(p) \in {"ok", "restored"} /\ endpoint[p] # "none"
         THEN endpoint[p]
    ELSE cache[p]

\* Peers whose endpoint is re-asserted: the others have none to push.
Targets == {p \in present : Decision(p) = "re-resolve" /\ Cached(p) # "none"}

\* Slip: only a push that succeeded is recorded.
RecordedIfDone(T, failed) == T \ failed

\* Attempts that are recorded, whether or not they succeed.
Recorded(T, failed) == T
-----------------------------------------------------------------------------
(* One cycle of the loop.                                                  *)

\* Whether Diff makes a transition of a peer on the interface: one it does not
\* know counts as having been ok.
Transition(p) == StepPeer(p) # IF memo[p] = "absent" THEN "ok" ELSE memo[p]

\* The line about p that islandd finds last in the log after this cycle: a
\* transition if there is one, else the snapshot line, else an older line. A
\* "gone" transition carries the key, not the address, and is no line about p.
LastLine(p) ==
    IF p \notin present THEN roster[p]
    ELSE IF Transition(p) THEN StepPeer(p)
    ELSE IF Snapshot THEN Observed(p)
    ELSE roster[p]

\* tick: read, prune, observe, step, cache, log transitions, remediate.
Tick(failed) ==
    /\ failed \subseteq Targets
    /\ faults + Cardinality(failed) <= MaxFaults
    /\ faults' = faults + Cardinality(failed)
    /\ memo' = [p \in Peers |-> IF p \in present THEN StepPeer(p) ELSE "absent"]
    /\ held' = [p \in Peers |-> IF p \in present /\ StepPeer(p) = "restored"
                                THEN Held(p) ELSE 0]
    /\ cache' = [p \in Peers |-> Cached(p)]
    /\ roster' = [p \in Peers |-> LastLine(p)]
    /\ history' = [p \in Peers |->
          IF p \in Recorded(Targets, failed) THEN Append(RecentTries(p), 0)
          ELSE RecentTries(p)]
    /\ endpoint' = [p \in Peers |-> IF p \in Targets \ failed THEN Cached(p)
                                    ELSE endpoint[p]]
    /\ pushed' = [p \in Peers |->
          IF p \in Targets THEN [pushed[p] EXCEPT ![life] = Append(@, 0)] ELSE pushed[p]]
    /\ well' = [p \in Peers |-> IF p \in present /\ AtLeast(p, StaleAfter)
                                THEN 0 ELSE well[p]]
    /\ seenIll' = {p \in present : AtLeast(p, StaleAfter) \/ p \in seenIll}
    /\ UNCHANGED <<present, age, up, life>>

\* The daemon starts anew with an empty memory. What it did and found before is
\* past, but not undone.
Restart ==
    /\ Restarts /\ faults < MaxFaults
    /\ faults' = faults + 1
    /\ memo' = [p \in Peers |-> "absent"]
    /\ held' = [p \in Peers |-> 0]
    /\ cache' = [p \in Peers |-> "none"]
    /\ history' = [p \in Peers |-> <<>>]
    /\ life' = life + 1
    /\ seenIll' = {}
    /\ UNCHANGED <<kernelVars, roster, pushed, well>>
-----------------------------------------------------------------------------
(* The kernel and the network.                                             *)

\* A handshake with a peer that is up. It dials in from its home endpoint, or
\* the kernel dials it there.
Handshake(p) ==
    /\ p \in present \cap up
    /\ age' = [age EXCEPT ![p] = 0]
    /\ endpoint' = [endpoint EXCEPT ![p] = "home"]
    /\ UNCHANGED <<present, up, daemonVars, roster, faults, historyVars>>

\* Whether the kernel, knowing where p is, must have shaken hands by now.
Due(p) == p \in present \cap up /\ endpoint[p] = "home" /\ AtLeast(p, Rekey)

\* Time passes, unless a handshake is due.
Pass ==
    /\ \A p \in Peers : ~Due(p)
    /\ age' = [p \in Peers |-> Later(age[p], Old)]
    /\ held' = [p \in Peers |-> IF memo[p] = "restored"
                                THEN Later(held[p], RestoredHold) ELSE held[p]]
    /\ history' = [p \in Peers |-> LaterAll(history[p])]
    /\ pushed' = [p \in Peers |->
          [l \in Lives |-> Filter(LaterAll(pushed[p][l]), 0 .. Window - 1)]]
    /\ well' = [p \in Peers |-> Later(well[p], RestoredHold)]
    /\ UNCHANGED <<present, endpoint, up, memo, cache, roster, faults, life, seenIll>>

\* A link fails, the kernel's endpoint goes bad, or a peer is taken off the
\* interface.
GoesWrong ==
    /\ faults < MaxFaults /\ faults' = faults + 1
    /\ \E p \in present :
         \/ /\ up' = up \ {p}
            /\ UNCHANGED <<present, endpoint>>
         \/ /\ \E e \in Drifts : endpoint' = [endpoint EXCEPT ![p] = e]
            /\ UNCHANGED <<present, up>>
         \/ /\ present' = present \ {p}
            /\ UNCHANGED <<endpoint, up>>
    /\ UNCHANGED <<age, daemonVars, roster, historyVars>>

LinkUp(p) == /\ p \notin up /\ up' = up \cup {p}
             /\ UNCHANGED <<present, age, endpoint, daemonVars, roster, faults, historyVars>>

\* A peer is put on the interface, with or without an endpoint to dial.
AddPeer(p) ==
    /\ p \notin present /\ present' = present \cup {p}
    /\ age' = [age EXCEPT ![p] = Never]
    /\ \E e \in {"none", "home"} : endpoint' = [endpoint EXCEPT ![p] = e]
    /\ UNCHANGED <<up, daemonVars, roster, faults, historyVars>>

Init ==
    /\ present = Peers /\ up = Peers
    /\ age = [p \in Peers |-> Never]
    /\ endpoint \in [Peers -> {"none", "home"}]
    /\ memo = [p \in Peers |-> "absent"]
    /\ held = [p \in Peers |-> 0]
    /\ cache = [p \in Peers |-> "none"]
    /\ history = [p \in Peers |-> <<>>]
    /\ roster = [p \in Peers |-> Unread]
    /\ faults = 0 /\ life = 0
    /\ pushed = [p \in Peers |-> [l \in Lives |-> <<>>]]
    /\ well = [p \in Peers |-> Never]
    /\ seenIll = {}

Next ==
    \/ \E failed \in SUBSET Targets : Tick(failed)
    \/ Restart \/ Pass \/ GoesWrong
    \/ \E p \in Peers : Handshake(p) \/ LinkUp(p) \/ AddPeer(p)

Spec == Init /\ [][Next]_vars

\* The ticker fires for ever, time passes, and a handshake that is due is made.
FairSpec ==
    /\ Spec
    /\ WF_vars(\E failed \in SUBSET Targets : Tick(failed))
    /\ WF_vars(Pass)
    /\ \A p \in Peers : WF_vars(Due(p) /\ Handshake(p))
-----------------------------------------------------------------------------
(* Properties.                                                             *)

Tries == Seq(0 .. Window)

\* The shape of the kernel's table, the daemon's memory and the roster.
TypeOK ==
    /\ present \subseteq Peers /\ up \subseteq Peers
    /\ age \in [Peers -> 0 .. Old \cup {Never}]
    /\ endpoint \in [Peers -> Endpoints]
    /\ memo \in [Peers -> States \cup {"absent"}]
    /\ held \in [Peers -> 0 .. RestoredHold]
    /\ cache \in [Peers -> Endpoints]
    /\ history \in [Peers -> Tries]
    /\ roster \in [Peers -> States \cup {Unread}]
    /\ faults \in 0 .. MaxFaults /\ life \in 0 .. faults
    /\ pushed \in [Peers -> [Lives -> Tries]]
    /\ well \in [Peers -> 0 .. RestoredHold \cup {Never}]
    /\ seenIll \subseteq Peers

\* However often pushing fails and the daemon ticks, no life of the daemon pushes
\* a peer's endpoint more than MaxReResolve times within Window (pushed holds no
\* older pushes): "the circuit breaker counts attempts" (main.go l. 164-165). It
\* counts what it remembers: a restart gives a fresh allowance.
BreakerHolds ==
    \A p \in Peers, l \in Lives : Len(pushed[p][l]) <= MaxReResolve

\* A peer that the daemon found ill, since it was started and the peer was put on
\* the interface, is reported ok only when RestoredHold has passed since a tick
\* last found it ill (status.go l. 74-77). A peer it does not know is ok at once,
\* however ill it was before (l. 117-118).
RecoveryEarned ==
    \A p \in Peers : p \in seenIll /\ memo[p] = "ok" => well[p] = RestoredHold

\* With --snapshot the roster shows what the daemon last found of each peer,
\* after restarts and removals too; only the hold may read as ok.
RosterTruthful ==
    \A p \in Peers : Snapshot /\ memo[p] # "absent" =>
        \/ roster[p] = memo[p]
        \/ (memo[p] = "restored" /\ roster[p] = "ok")

\* A peer that stays on the interface and answers is ok in the end and stays
\* so, whatever was pushed, tried and forgotten before, unless the daemon never
\* saw it healthy and nobody gives the kernel the right endpoint, or the daemon
\* keeps a wrong one for it: a push is "the remediation for a peer whose kernel
\* endpoint was cleared or wrong" (act.go l. 12-14).
HealsUnlessMisled ==
    \A p \in Peers :
        <>[](p \in present \cap up) =>
            <>[](\/ memo[p] = "ok"
                 \/ endpoint[p] # "home" /\ cache[p] = "none"
                 \/ cache[p] = "wrong")

\* A peer that stays on the interface and answers, and whose right endpoint the
\* daemon once cached, is ok in the end, also when the kernel's endpoint was set
\* wrong: a push is "the remediation for a peer whose kernel endpoint was cleared
\* or wrong", with "the value it cached while the peer was healthy" (act.go l.
\* 12-18). It is violated: while the last handshake is fresh, the wrong endpoint
\* replaces the right one in the cache.
Heals ==
    \A p \in Peers :
        <>(cache[p] = "home") /\ <>[](p \in present \cap up) => <>[](memo[p] = "ok")
=============================================================================
