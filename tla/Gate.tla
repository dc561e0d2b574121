-------------------------------- MODULE Gate --------------------------------
(***************************************************************************)
(* The internet gate of the island daemon (island/src/core/gate.ts), the   *)
(* route that feeds it (POST /admin/canary in island/src/main.ts), the     *)
(* freshness check of a canary (core/canary.ts), the file the spent nonces *)
(* are kept in, and the privileged helper (island/deploy/island-gate).     *)
(*                                                                         *)
(* Time is relative: a canary has an age, a timer has the ticks left       *)
(* before it fires, so no clock grows and ages stop where they no longer   *)
(* make a difference.                                                      *)
(*                                                                         *)
(* A definition introduced as a "slip" is a mistake the code could have    *)
(* made; no action uses it. It stands next to the definition it would      *)
(* replace, and README.md names the property that rules it out.            *)
(***************************************************************************)
EXTENDS Integers, Sequences, FiniteSets

CONSTANTS Nonces,        \* canaries, each named by its nonce
          Reqs,          \* slots for request handlers that are in progress
          NoNonce,       \* the canary of a handler that carries none
          Freshness,     \* ISLAND_CANARY_FRESHNESS, in ticks
          Prune,         \* noncePruneSeconds, in ticks
          Ttl,           \* ttlSeconds, in ticks
          BackoffCap,    \* the longest wait between two close attempts
          HelperFaults,  \* how the helper may fail: "spawn", "nft"
          TornWrites,    \* a crash in the middle of a write loses the file
          MaxQueue,      \* bound: no manual close joins a longer queue
          MaxOpens       \* bound: windows counted per canary

\* gate.ts asks for a pruning delay that "must comfortably exceed" the
\* freshness window; canaries dated ahead are accepted, hence the factor 2.
ASSUME GateAssumption ==
    /\ Freshness \in Nat /\ Prune \in Nat /\ Prune >= 2 * Freshness
    /\ Ttl \in Nat /\ BackoffCap \in Nat /\ BackoffCap >= 2
    /\ HelperFaults \subseteq {"spawn", "nft"}
    /\ TornWrites \in BOOLEAN
    /\ MaxQueue \in Nat /\ MaxOpens \in Nat \ {0}
    /\ NoNonce \notin Nonces

VARIABLES state,         \* _state.state: "island" or "internet"
          timer,         \* ticks until the reclose timer fires, or Off
          timerReason,   \* the reason the armed timer will close with
          backoff,       \* 2^recloseAttempts, capped
          lockQ,         \* operations on the lock, the running one first
          consumed,      \* consumed: the spent nonces in memory
          pc,            \* where each request handler is
          canary,        \* the canary each handler carries
          snap,          \* the spent nonces a handler is writing to disk
          disk,          \* the spent nonces in gate.json
          egress,        \* the table island_gate: "closed", "partial", "open"
          age,           \* per canary: time since it was issued, or Unseen
          since,         \* per canary: time since its nonce was consumed
          left,          \* history: what remains of the window's Ttl
          opened,        \* history: per canary, the windows it opened
          denied,        \* history: canaries the policy refused
          acked          \* history: canaries whose request was answered

gateVars == <<state, timer, timerReason, backoff, lockQ>>
nonceVars == <<consumed, age, since>>
handlerVars == <<pc, canary, snap, disk>>
historyVars == <<left, opened, denied, acked>>
vars == <<gateVars, nonceVars, handlerVars, egress, historyVars>>

Off == -1
Unseen == -Freshness - 1
Stale == Freshness + 1      \* ages above it are never told apart
Forgotten == Prune + 1      \* likewise for the time since consumption

Reasons == {"ttl", "failed re-open", "manual"}
Ops == [verb : {"open"}, by : Reqs] \cup [verb : {"close"}, by : Reasons]
PCs == {"idle", "llm", "locked", "persist", "writing"}

MinOf(a, b) == IF a < b THEN a ELSE b
\* Slip: a countdown that goes below zero.
YoungerUnclamped(a) == a - 1

\* One tick less, never below zero; Off stays Off.
Younger(a) == IF a > 0 THEN a - 1 ELSE a
-----------------------------------------------------------------------------
(* The lock: Gate.locked chains operations on a promise, so they run one   *)
(* at a time in the order they were asked for.                             *)

Running(op) == lockQ # <<>> /\ Head(lockQ) = op

\* The first thing an open does when its turn comes is to clear the reclose
\* timer; a close leaves it armed. t is the timer before that.
OnStart(q, t) == IF q # <<>> /\ Head(q).verb = "open" THEN Off ELSE t

\* An operation joins the lock, and starts at once if it is free.
Enqueue(op, t) == /\ lockQ' = Append(lockQ, op)
                  /\ timer' = IF lockQ = <<>> THEN OnStart(<<op>>, t) ELSE t

\* Slip: the chain of promises breaks, and what waited on it never runs.
ReleaseAndForget(t) == lockQ' = <<>> /\ timer' = t

\* The running operation ends with the timer at t; the next one starts.
Release(t) == /\ lockQ' = Tail(lockQ)
              /\ timer' = OnStart(Tail(lockQ), t)
-----------------------------------------------------------------------------
(* Canaries and spent nonces.                                              *)

\* The canary is neither stale nor future-dated (verifyCanary).
Fresh(a) == -Freshness <= a /\ a <= Freshness

\* The ages a canary may show: any, the first time it is presented.
Ages(n) == IF age[n] = Unseen THEN Unseen .. Stale ELSE {age[n]}

\* Slip: a nonce is kept as long as a canary is fresh, and no longer.
PrunableTooEarly == {n \in consumed : since[n] > Freshness}

\* Nonces the next open drops from memory.
Prunable == {n \in consumed : since[n] > Prune}

\* Gate.open() up to the question to the policy: prune, refuse a spent nonce, or
\* consume the nonce.
Consume(r, n) ==
    \/ /\ n \in consumed \ Prunable          \* "canary already used"
       /\ consumed' = consumed \ Prunable
       /\ UNCHANGED <<since, pc, canary>>
    \/ /\ n \notin consumed \ Prunable
       /\ consumed' = (consumed \ Prunable) \cup {n}
       /\ since' = [since EXCEPT ![n] = 0]
       /\ pc' = [pc EXCEPT ![r] = "llm"]
       /\ canary' = [canary EXCEPT ![r] = n]

\* POST /admin/canary: verify the canary and consume its nonce.
Submit(r, n) ==
    /\ pc[r] = "idle" /\ opened[n] < MaxOpens
    /\ \E a \in Ages(n) :
         /\ Fresh(a)
         /\ age' = [age EXCEPT ![n] = a]
    /\ Consume(r, n)
    /\ UNCHANGED <<gateVars, snap, disk, egress, historyVars>>

\* The policy refuses, cannot be reached, or does not answer within 15 s.
Deny(r) ==
    /\ pc[r] = "llm"
    /\ pc' = [pc EXCEPT ![r] = "persist"]
    /\ denied' = denied \cup {canary[r]}
    /\ UNCHANGED <<gateVars, nonceVars, canary, snap, disk, egress,
                   left, opened, acked>>

\* The policy approves: the open waits for the lock.
Approve(r) ==
    /\ pc[r] = "llm"
    /\ pc' = [pc EXCEPT ![r] = "locked"]
    /\ Enqueue([verb |-> "open", by |-> r], timer)
    /\ UNCHANGED <<state, timerReason, backoff, nonceVars, canary, snap, disk,
                   egress, historyVars>>
-----------------------------------------------------------------------------
(* The helper. "spawn": sudo or the process fails before the script runs,  *)
(* so the verb fails and nothing changed. "nft": an nft command inside the *)
(* script fails. Under `set -e` an open stops there and fails, the table   *)
(* as it was, deleted or half built; a close has `|| true` and succeeds.   *)

AfterFailedOpen ==
    {e \in {egress, "closed", "partial"} :
        \/ "nft" \in HelperFaults
        \/ "spawn" \in HelperFaults /\ e = egress}

\* Slip: the exit code of a close that failed is ignored.
AfterCloseUnchecked == {"closed", egress}

AfterClose == {"closed"} \cup (IF "nft" \in HelperFaults THEN {egress} ELSE {})

\* Slip: the catch block of a failed open forgets the window it disarmed.
RestoredTimerDropped == Off

\* The timer a failed open leaves: it had cleared the one of a live window.
RestoredTimer == IF state = "internet" THEN 0 ELSE Off

\* The wait before the next attempt to close: 2, 4, 8 ... up to the cap.
RetryDelay == MinOf(2 * backoff, BackoffCap)

\* Slip: a close that succeeds leaves the timer armed.
TimerAfterCloseKept == timer

\* The reclose timer is torn down once the close has happened.
TimerAfterClose == Off

OpenSucceeds(r) ==
    /\ Running([verb |-> "open", by |-> r])
    /\ egress' = "open"
    /\ state' = "internet"
    /\ backoff' = 1
    /\ timerReason' = "ttl"
    /\ Release(Ttl)
    /\ pc' = [pc EXCEPT ![r] = "persist"]
    /\ left' = Ttl
    /\ opened' = [opened EXCEPT ![canary[r]] = @ + 1]
    /\ UNCHANGED <<nonceVars, canary, snap, disk, denied, acked>>

\* The handler throws, so it never gets to its persist; a window whose timer
\* this open had cleared is given one that fires at once.
OpenFails(r) ==
    /\ Running([verb |-> "open", by |-> r])
    /\ egress' \in AfterFailedOpen
    /\ Release(RestoredTimer)
    /\ timerReason' = IF state = "internet" THEN "failed re-open" ELSE timerReason
    /\ pc' = [pc EXCEPT ![r] = "idle"]
    /\ canary' = [canary EXCEPT ![r] = NoNonce]
    /\ UNCHANGED <<state, backoff, nonceVars, snap, disk, historyVars>>

CloseSucceeds(why) ==
    /\ Running([verb |-> "close", by |-> why])
    /\ egress' \in AfterClose
    /\ state' = "island"
    /\ backoff' = 1
    /\ Release(TimerAfterClose)
    /\ left' = 0
    /\ UNCHANGED <<timerReason, nonceVars, handlerVars, opened, denied, acked>>

\* The state stays as it is and a retry is armed, each later than the last.
CloseFails(why) ==
    /\ Running([verb |-> "close", by |-> why])
    /\ "spawn" \in HelperFaults
    /\ backoff' = RetryDelay
    /\ timerReason' = why
    /\ Release(RetryDelay)
    /\ UNCHANGED <<state, nonceVars, handlerVars, egress, historyVars>>

TimerFires ==
    /\ timer = 0
    /\ Enqueue([verb |-> "close", by |-> timerReason], Off)
    /\ UNCHANGED <<state, timerReason, backoff, nonceVars, handlerVars, egress,
                   historyVars>>

\* POST /admin/gate/close.
ManualClose ==
    /\ Len(lockQ) < MaxQueue
    /\ Enqueue([verb |-> "close", by |-> "manual"], timer)
    /\ UNCHANGED <<state, timerReason, backoff, nonceVars, handlerVars, egress,
                   historyVars>>
-----------------------------------------------------------------------------
(* persist(): gate.json is the last of three files; its content is taken   *)
(* when its write begins, and writes of two handlers may land in any order.*)

\* Any other route that changed something starts a persist of its own.
OtherRoute(r) ==
    /\ pc[r] = "idle"
    /\ pc' = [pc EXCEPT ![r] = "persist"]
    /\ UNCHANGED <<gateVars, nonceVars, canary, snap, disk, egress, historyVars>>

\* Slip: the spent nonces are left out of the file.
SavedNothing == {}

\* What JSON.stringify(gate) saves.
Saved == consumed

WriteBegins(r) ==
    /\ pc[r] = "persist"
    /\ pc' = [pc EXCEPT ![r] = "writing"]
    /\ snap' = [snap EXCEPT ![r] = Saved]
    /\ UNCHANGED <<gateVars, nonceVars, canary, disk, egress, historyVars>>

WriteLands(r) ==
    /\ pc[r] = "writing"
    /\ disk' = snap[r]
    /\ acked' = acked \cup ({canary[r]} \ {NoNonce})
    /\ pc' = [pc EXCEPT ![r] = "idle"]
    /\ canary' = [canary EXCEPT ![r] = NoNonce]
    /\ snap' = [snap EXCEPT ![r] = {}]
    /\ UNCHANGED <<gateVars, nonceVars, egress, left, opened, denied>>
-----------------------------------------------------------------------------
(* Time. A timer that is due fires before time goes on.                    *)

Tick ==
    /\ timer # 0
    /\ timer' = Younger(timer)
    /\ left' = Younger(left)
    /\ age' = [n \in Nonces |-> IF age[n] = Unseen THEN Unseen
                                ELSE MinOf(age[n] + 1, Stale)]
    /\ since' = [n \in Nonces |-> MinOf(since[n] + 1, Forgotten)]
    /\ UNCHANGED <<state, timerReason, backoff, lockQ, consumed, handlerVars,
                   egress, opened, denied, acked>>

(* A crash and the boot after it (systemd restarts the daemon). The table  *)
(* stays in the kernel: boot neither runs the helper nor arms a timer.     *)

\* What gate.json holds after a crash: a write in progress did not begin,
\* ended, or left a file boot cannot parse, which it takes for an empty one.
SurvivingFiles ==
    LET writers == {r \in Reqs : pc[r] = "writing"}
    IN  {disk} \cup {snap[r] : r \in writers}
               \cup (IF TornWrites /\ writers # {} THEN {{}} ELSE {})

\* A helper that was running is killed with the daemon, at any point.
AfterKilledHelper ==
    {e \in {egress, "closed", "partial", "open"} :
        \/ e = egress
        \/ lockQ # <<>> /\ (Head(lockQ).verb = "close" => e = "closed")}

\* loadConsumed(): every nonce of the file is taken over, with its date.
Loaded(file) == file

Crash ==
    /\ egress' \in AfterKilledHelper
    /\ disk' \in SurvivingFiles
    /\ consumed' = Loaded(disk')
    /\ state' = "island"
    /\ timer' = Off
    /\ timerReason' = "ttl"
    /\ backoff' = 1
    /\ lockQ' = <<>>
    /\ pc' = [r \in Reqs |-> "idle"]
    /\ canary' = [r \in Reqs |-> NoNonce]
    /\ snap' = [r \in Reqs |-> {}]
    /\ left' = 0
    /\ UNCHANGED <<age, since, opened, denied, acked>>
-----------------------------------------------------------------------------
Init ==
    /\ state = "island"
    /\ timer = Off /\ timerReason = "ttl" /\ backoff = 1
    /\ lockQ = <<>>
    /\ consumed = {} /\ disk = {}
    /\ pc = [r \in Reqs |-> "idle"]
    /\ canary = [r \in Reqs |-> NoNonce]
    /\ snap = [r \in Reqs |-> {}]
    /\ egress = "closed"
    /\ age = [n \in Nonces |-> Unseen]
    /\ since = [n \in Nonces |-> Forgotten]
    /\ left = 0
    /\ opened = [n \in Nonces |-> 0]
    /\ denied = {} /\ acked = {}

HelperSettles ==
    \/ \E r \in Reqs : OpenSucceeds(r) \/ OpenFails(r)
    \/ \E why \in Reasons : CloseSucceeds(why) \/ CloseFails(why)

Next ==
    \/ \E r \in Reqs, n \in Nonces : Submit(r, n)
    \/ \E r \in Reqs : Deny(r) \/ Approve(r)
    \/ HelperSettles
    \/ TimerFires
    \/ ManualClose
    \/ \E r \in Reqs : OtherRoute(r) \/ WriteBegins(r) \/ WriteLands(r)
    \/ Tick

Spec == Init /\ [][Next]_vars

\* The event loop runs a due timer, the policy answers or times out, files
\* are written, the helper exits, and a close that is retried for ever
\* succeeds in the end.
Fairness ==
    /\ WF_vars(Tick) /\ WF_vars(TimerFires) /\ WF_vars(HelperSettles)
    /\ \A why \in Reasons : SF_vars(CloseSucceeds(why))
    /\ \A r \in Reqs : /\ WF_vars(Deny(r) \/ Approve(r))
                       /\ WF_vars(WriteBegins(r))
                       /\ WF_vars(WriteLands(r))

FairSpec == Spec /\ Fairness

CrashSpec == Init /\ [][Next \/ Crash]_vars
-----------------------------------------------------------------------------
TypeOK ==
    /\ state \in {"island", "internet"}
    /\ timer \in Int /\ timer >= Off
    /\ timerReason \in Reasons
    /\ backoff \in Nat \ {0}
    /\ lockQ \in Seq(Ops)
    /\ consumed \subseteq Nonces /\ disk \subseteq Nonces
    /\ pc \in [Reqs -> PCs]
    /\ canary \in [Reqs -> Nonces \cup {NoNonce}]
    /\ \A r \in Reqs : pc[r] \in {"llm", "locked"} => canary[r] \in Nonces
    /\ snap \in [Reqs -> SUBSET Nonces]
    /\ egress \in {"closed", "partial", "open"}
    /\ age \in [Nonces -> Unseen .. Stale]
    /\ since \in [Nonces -> 0 .. Forgotten]
    /\ left \in Nat
    /\ opened \in [Nonces -> Nat]
    /\ denied \subseteq Nonces /\ acked \subseteq Nonces

\* A canary opens at most one window, and none once the policy refused it
\* (gate.ts: "consume on use, even if denied - no retries"), however many
\* handlers present it at the same time and whatever open() has pruned.
NonceOnce ==
    \A n \in Nonces : opened[n] <= 1 /\ (n \in denied => opened[n] = 0)

\* Why NonceOnce holds: a nonce is in memory from the moment its canary is
\* consumed until the canary is stale, so no second handler can carry it.
InFlight(r) == pc[r] \in {"llm", "locked"}
Spent(n) == \/ opened[n] > 0 \/ n \in denied
            \/ \E r \in Reqs : InFlight(r) /\ canary[r] = n

\* An open on the lock belongs to the one handler that waits for it.
QueueInv ==
    \A i \in 1 .. Len(lockQ) : lockQ[i].verb = "open" =>
        /\ pc[lockQ[i].by] = "locked"
        /\ \A j \in 1 .. Len(lockQ) :
              lockQ[j].verb = "open" /\ lockQ[j].by = lockQ[i].by => i = j

CarrierInv ==
    \A r \in Reqs : InFlight(r) =>
        /\ opened[canary[r]] = 0 /\ canary[r] \notin denied
        /\ \A q \in Reqs : InFlight(q) /\ canary[q] = canary[r] => q = r

MemoryInv ==
    \A n \in Nonces :
        /\ n \in consumed => age[n] >= since[n] - Freshness \/ age[n] = Stale
        /\ Spent(n) => n \in consumed \/ age[n] = Stale

NonceInv == NonceOnce /\ QueueInv /\ CarrierInv /\ MemoryInv

\* While the gate says internet, either an operation holds the lock or the
\* reclose timer is armed, to fire before the Ttl runs out or, after a failed
\* close, within the longest backoff (gate.ts: "never 'gate open, no timer,
\* no retry'").
WindowTimeBoxed ==
    state = "internet" /\ lockQ = <<>> =>
        /\ timer # Off
        /\ timer <= left \/ (backoff > 1 /\ timer <= BackoffCap)

\* An armed timer belongs to the window that is open or to a close that
\* failed: none is left over to cut the next window short.
NoLeftoverTimer ==
    timer # Off /\ state = "island" => backoff > 1

\* The state the gate reports is the state of the table (gate.ts: "it reflects
\* reality"), provided a helper that fails has changed nothing.
EgressHonest == state = "internet" <=> egress # "closed"

\* Traffic can leave only while a reclose is under way or armed
\* (06-canary-gate.md: 'There is no "open indefinitely" path').
EgressTimeBoxed == egress # "closed" /\ lockQ = <<>> => timer # Off

\* Once a request was answered its nonce is on disk, so its canary opens
\* nothing more whatever crashes (main.ts: "save it so a restart can't replay
\* it").
AckedFinal ==
    [][\A n \in acked : /\ opened'[n] = opened[n]
                        /\ n \in denied' => n \in denied]_vars

\* Every window ends: the gate returns to island and the table is gone.
WindowEnds ==
    (state = "internet" \/ egress # "closed")
        ~> (state = "island" /\ egress = "closed")

\* Every request gets an answer: no handler waits on the lock for ever.
RequestsAnswered == \A r \in Reqs : pc[r] # "idle" ~> pc[r] = "idle"

\* The gate implements the abstract egress window.
Window == INSTANCE EgressWindow WITH
    window <- IF state = "internet" THEN "open" ELSE "shut",
    spent  <- {n \in Nonces : opened[n] > 0} \cup denied

ImplementsWindow == Window!Spec
=============================================================================
