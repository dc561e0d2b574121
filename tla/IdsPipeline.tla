---------------------------- MODULE IdsPipeline ------------------------------
(***************************************************************************)
(* The way of an alert from a sensor node to the master: a sweep           *)
(* (gui-and-app/backend/app/sources/host.py) asks the node's journal for   *)
(* one sensor after the other, the shipper (ids_shipper.py) numbers, seals *)
(* and posts what the last sweep found, the hub's relay (relay.py) keeps   *)
(* the newest blobs without reading them, and the master (sources/mesh.py) *)
(* drains them and drops what it has under the same node and number.       *)
(*                                                                         *)
(* Sealing and verification are abstracted: a blob says truly which node   *)
(* made it, with which number, about which event. Definitions introduced   *)
(* as a "slip" are mistakes the code could have made; no action uses them. *)
(***************************************************************************)
EXTENDS Integers, Sequences, FiniteSets

CONSTANTS Nodes, Events,
          Origin,        \* the node whose journal an event is in
          Sensors,       \* queries a sweep makes: sshd, fail2ban, kernel
          Sensor,        \* the query, by its turn, that shows an event
          Recurring,     \* events that are dated anew when they recur
          Refused,       \* events whose blob the hub refuses for good, as
                         \* one that is too large (main.py:181-182)
          Window,        \* GUI_IDS_SHIP_WINDOW: events a cycle looks at
          RelayCap,      \* GUI_IDS_RELAY_CAP
          MeshCap,       \* _MESH_CAP
          PullLimit,     \* blobs the master drains at a time
          Faults,        \* "blind": a query does not show all it should;
                         \* "down": the hub is not reached; "late": its
                         \* answer is not; "crash": of shipper or master
          MaxClock,      \* bound: times that events happen
          MaxFaults      \* bound: queries and posts that fail, crashes

ASSUME IdsAssumption ==
    /\ IsFiniteSet(Events) /\ Origin \in [Events -> Nodes]
    /\ Sensors \in Nat \ {0} /\ Sensor \in [Events -> 1 .. Sensors]
    /\ Recurring \subseteq Events /\ Refused \subseteq Events
    /\ Window \in Nat \ {0} /\ RelayCap \in Nat \ {0} /\ MeshCap \in Nat \ {0}
    /\ PullLimit \in Nat \ {0}
    /\ Faults \subseteq {"blind", "down", "late", "crash"}
    /\ MaxClock \in Nat /\ MaxFaults \in Nat

VARIABLES clock,
          at,            \* per event: the time it is dated, 0 if not yet
          asked,         \* per node: queries the sweep under way has made
          found,         \* per node: what they showed, as dated then
          cache,         \* per node: _cache, what the last sweep found
          pc,            \* per node: "sleep", "ship" or "save"
          batch,         \* per node: events the cycle has yet to ship
          seq,           \* per node: _seq
          order,         \* per node: _order, the ids shipped, oldest first
          file,          \* per node: seq and order in the state file
          relay,         \* all blobs ever deposited; the index is the id
          cursor,        \* the master: the last id it drained
          mesh,          \* the master: _events, in the order of insertion
          misled,        \* history: nodes that shipped from a feed that
                         \* lacked what it should have shown
          faults

feedVars == <<clock, at>>
sweepVars == <<asked, found, cache>>
shipperVars == <<pc, batch, seq, order, file, misled>>
masterVars == <<cursor, mesh>>
vars == <<feedVars, sweepVars, shipperVars, relay, masterVars, faults>>

Elems(s) == {s[i] : i \in 1 .. Len(s)}
LastOf(s, k) == IF Len(s) > k THEN SubSeq(s, Len(s) - k + 1, Len(s)) ELSE s
-----------------------------------------------------------------------------
(* The node's journal and the sweeps.                                      *)

\* Something happens, or a brute-force attempt is repeated: its event keeps
\* its id and takes the date of the latest attempt.
Happens(e) ==
    /\ clock < MaxClock
    /\ at[e] = 0 \/ e \in Recurring
    /\ clock' = clock + 1
    /\ at' = [at EXCEPT ![e] = clock + 1]
    /\ UNCHANGED <<sweepVars, shipperVars, relay, masterVars, faults>>

\* What the node's journal holds.
Happened(n) == {e \in Events : Origin[e] = n /\ at[e] > 0}

\* What the query whose turn it is shows of the events after a time.
Shown(n, t) ==
    {[event |-> e, at |-> at[e]] :
        e \in {e \in Happened(n) : Sensor[e] = asked[n] + 1 /\ at[e] > t}}

\* journal.run of one query, for the panel or for the shipper. It may show no
\* more than the newest events, or none: it failed, or other records than these
\* have used up its limit. The last query of a sweep fills the cache.
Query(n, t) ==
    LET all == found[n] \cup Shown(n, t) IN
    /\ \/ t = 0 /\ UNCHANGED faults
       \/ /\ "blind" \in Faults /\ faults < MaxFaults /\ faults' = faults + 1
          /\ Shown(n, t) # Shown(n, 0)
    /\ IF asked[n] + 1 < Sensors
       THEN /\ asked' = [asked EXCEPT ![n] = @ + 1]
            /\ found' = [found EXCEPT ![n] = all]
            /\ UNCHANGED cache
       ELSE /\ asked' = [asked EXCEPT ![n] = 0]
            /\ found' = [found EXCEPT ![n] = {}]
            /\ cache' = [cache EXCEPT ![n] = all]
    /\ UNCHANGED <<feedVars, shipperVars, relay, masterVars>>
-----------------------------------------------------------------------------
(* The shipper.                                                            *)

\* source.ids: the newest of the events the last sweep found.
Feed(n) == {b \in cache[n] : Cardinality({c \in cache[n] : c.at > b.at}) < Window}

\* The events a cycle ships: those not shipped before.
Unshipped(n) == {b \in Feed(n) : b.event \notin Elems(order[n])}

\* Slip: newest first, the order in which the source gives them.
Newest(B) == CHOOSE b \in B : \A c \in B : c.at <= b.at

\* The one of a batch whose turn it is: oldest first.
Oldest(B) == CHOOSE b \in B : \A c \in B : b.at <= c.at

\* The events that have the numbers a node has counted so far.
Counted(n) == {b.event : b \in {c \in Elems(relay) : c.node = n /\ c.seq <= seq[n]}}

\* What the feed should show and does not: an event yet to be counted, though it
\* shows a later one, or one that was counted, though it shows an earlier one.
Overlooked(n) ==
    {e \in Happened(n) \ {b.event : b \in Feed(n)} :
        \E b \in Feed(n) : IF e \in Counted(n) THEN b.at < at[e] ELSE b.at > at[e]}

CycleBegins(n) ==
    /\ pc[n] = "sleep" /\ Unshipped(n) # {}
    /\ pc' = [pc EXCEPT ![n] = "ship"]
    /\ batch' = [batch EXCEPT ![n] = Unshipped(n)]
    /\ misled' = IF Overlooked(n) = {} THEN misled ELSE misled \cup {n}
    /\ UNCHANGED <<feedVars, sweepVars, seq, order, file, relay, masterVars, faults>>

\* Slip: numbers start at nought.
BlobFromNought(n, e) == [node |-> n, seq |-> seq[n], event |-> e]

Blob(n, e) == [node |-> n, seq |-> seq[n] + 1, event |-> e]

\* The hub stores the blob; its answer makes the shipper count it.
PostSucceeds(n) ==
    LET b == Oldest(batch[n])
        rest == batch[n] \ {b}
    IN
    /\ pc[n] = "ship" /\ b.event \notin Refused
    /\ relay' = Append(relay, Blob(n, b.event))
    /\ seq' = [seq EXCEPT ![n] = @ + 1]
    /\ order' = [order EXCEPT ![n] = Append(@, b.event)]
    /\ batch' = [batch EXCEPT ![n] = rest]
    /\ pc' = [pc EXCEPT ![n] = IF rest = {} THEN "save" ELSE "ship"]
    /\ UNCHANGED <<feedVars, sweepVars, file, misled, masterVars, faults>>

\* Slip: a number is used up by a post that fails.
SeqAfterFailureUsed(n) == seq[n] + 1

\* The number the shipper is at after a post that failed.
SeqAfterFailure(n) == seq[n]

\* A post that fails, for whatever reason, ends the cycle: the rest waits for the
\* next one.
CycleBreaks(n) ==
    /\ pc[n] = "ship"
    /\ seq' = [seq EXCEPT ![n] = SeqAfterFailure(n)]
    /\ batch' = [batch EXCEPT ![n] = {}]
    /\ pc' = [pc EXCEPT ![n] = "save"]
    /\ UNCHANGED <<feedVars, sweepVars, order, file, misled, masterVars>>

\* The hub cannot be reached, or has stored the blob and its answer is lost or late.
PostFails(n) ==
    LET e == Oldest(batch[n]).event IN
    /\ CycleBreaks(n)
    /\ faults < MaxFaults /\ faults' = faults + 1
    /\ \/ "down" \in Faults /\ UNCHANGED relay
       \/ "late" \in Faults /\ e \notin Refused /\ relay' = Append(relay, Blob(n, e))

\* The hub refuses the blob, today as in every cycle to come.
PostRefused(n) ==
    /\ CycleBreaks(n)
    /\ Oldest(batch[n]).event \in Refused
    /\ UNCHANGED <<relay, faults>>

\* The cycle ends: if it shipped anything, ids are bounded and the file is
\* replaced as a whole.
Save(n) ==
    /\ pc[n] = "save"
    /\ pc' = [pc EXCEPT ![n] = "sleep"]
    /\ LET o == LastOf(order[n], 2 * Window) IN
       /\ order' = [order EXCEPT ![n] = o]
       /\ file' = [file EXCEPT ![n] = [seq |-> seq[n], order |-> o]]
    /\ UNCHANGED <<feedVars, sweepVars, batch, seq, misled, relay, masterVars, faults>>

Blank == [seq |-> 0, order |-> <<>>]

\* The process dies: the shipper starts anew from its file, with nothing cached.
ShipperRestarts(n) ==
    /\ "crash" \in Faults
    /\ pc[n] # "sleep" /\ faults < MaxFaults
    /\ faults' = faults + 1
    /\ seq' = [seq EXCEPT ![n] = file[n].seq]
    /\ order' = [order EXCEPT ![n] = file[n].order]
    /\ pc' = [pc EXCEPT ![n] = "sleep"]
    /\ batch' = [batch EXCEPT ![n] = {}]
    /\ asked' = [asked EXCEPT ![n] = 0]
    /\ found' = [found EXCEPT ![n] = {}]
    /\ cache' = [cache EXCEPT ![n] = {}]
    /\ UNCHANGED <<feedVars, file, misled, relay, masterVars>>
-----------------------------------------------------------------------------
(* The hub and the master.                                                 *)

\* drain: of the blobs the hub still has, those newer than the cursor, oldest
\* first and not too many.
FirstNew == (IF cursor > Len(relay) - RelayCap THEN cursor ELSE Len(relay) - RelayCap) + 1
LastDrained == IF Len(relay) < FirstNew + PullLimit THEN Len(relay)
               ELSE FirstNew + PullLimit - 1


\* The cursor a drain returns: the last id in the answer.
NewCursor == LastDrained

SameKey(b, c) == b.node = c.node /\ b.seq = c.seq

\* Slip: every blob is kept, whatever came before.
MergedAll(m, b) == LastOf(Append(m, b), MeshCap)

\* Merging one blob: the first under a key wins, the oldest is evicted.
Merged(m, b) == IF \E c \in Elems(m) : SameKey(b, c) THEN m
                ELSE LastOf(Append(m, b), MeshCap)

\* The events after merging all that was drained, in its order.
MergedInTurn ==
    LET after[i \in 0 .. LastDrained - FirstNew + 1] ==
            IF i = 0 THEN mesh ELSE Merged(after[i - 1], relay[FirstNew + i - 1])
    IN  after[LastDrained - FirstNew + 1]

\* MeshDataSource.ids: the master asks the hub and merges what it gets.
Poll ==
    /\ FirstNew <= Len(relay)
    /\ mesh' = MergedInTurn
    /\ cursor' = NewCursor
    /\ UNCHANGED <<feedVars, sweepVars, shipperVars, relay, faults>>

\* The master keeps its events in memory only.
MasterRestarts ==
    /\ "crash" \in Faults
    /\ cursor > 0 /\ faults < MaxFaults
    /\ faults' = faults + 1
    /\ cursor' = 0 /\ mesh' = <<>>
    /\ UNCHANGED <<feedVars, sweepVars, shipperVars, relay>>

Init ==
    /\ clock = 0
    /\ at = [e \in Events |-> 0]
    /\ asked = [n \in Nodes |-> 0]
    /\ found = [n \in Nodes |-> {}] /\ cache = [n \in Nodes |-> {}]
    /\ pc = [n \in Nodes |-> "sleep"]
    /\ batch = [n \in Nodes |-> {}]
    /\ seq = [n \in Nodes |-> 0]
    /\ order = [n \in Nodes |-> <<>>]
    /\ file = [n \in Nodes |-> Blank]
    /\ relay = <<>>
    /\ cursor = 0
    /\ mesh = <<>>
    /\ misled = {}
    /\ faults = 0

Cycle(n) == CycleBegins(n) \/ PostSucceeds(n) \/ PostRefused(n) \/ Save(n)

Next ==
    \/ \E e \in Events : Happens(e)
    \/ \E n \in Nodes : \E t \in 0 .. clock : Query(n, t)
    \/ \E n \in Nodes : Cycle(n) \/ PostFails(n) \/ ShipperRestarts(n)
    \/ Poll
    \/ MasterRestarts

Spec == Init /\ [][Next]_vars

\* Each shipper's loop runs for ever and asks for the feed, and the master's
\* panel stays open.
FairSpec ==
    /\ Spec
    /\ \A n \in Nodes : WF_vars(Query(n, 0)) /\ WF_vars(Cycle(n))
    /\ WF_vars(Poll)
-----------------------------------------------------------------------------
(* Properties.                                                             *)

Blobs == [node : Nodes, seq : Nat \ {0}, event : Events]
Dated == [event : Events, at : 0 .. MaxClock]

\* The shape of the feed, the sweeps, the shippers, the relay and the master's
\* events.
TypeOK ==
    /\ clock \in 0 .. MaxClock
    /\ at \in [Events -> 0 .. MaxClock]
    /\ asked \in [Nodes -> 0 .. Sensors - 1]
    /\ found \in [Nodes -> SUBSET Dated] /\ cache \in [Nodes -> SUBSET Dated]
    /\ pc \in [Nodes -> {"sleep", "ship", "save"}]
    /\ batch \in [Nodes -> SUBSET Dated]
    /\ seq \in [Nodes -> Nat]
    /\ order \in [Nodes -> Seq(Events)]
    /\ file \in [Nodes -> [seq : Nat, order : Seq(Events)]]
    /\ relay \in Seq(Blobs)
    /\ cursor \in 0 .. Len(relay)
    /\ mesh \in Seq(Blobs)
    /\ misled \subseteq Nodes
    /\ faults \in 0 .. MaxFaults

\* "the master's (node, seq) dedupe and future gap detection are meaningful"
\* (ids_shipper.py l. 8-9): a node's number stands for one event, through
\* lost answers, crashes before the save, retries, and sweeps under way while
\* it ships and while events happen (host.py l. 117-127), unless the node
\* shipped from a feed that lacked what it should have shown.
SeqNamesEvent ==
    \A b, c \in Elems(relay) : SameKey(b, c) => b.event = c.event \/ b.node \in misled

\* The panel shows an event once, with the same exception, and the numbers of a
\* node leave no gap.
ShownOnce ==
    \A i, j \in 1 .. Len(mesh) :
        mesh[i].event = mesh[j].event => i = j \/ mesh[i].node \in misled
NoGap ==
    \A b \in Elems(relay) : \A k \in 1 .. b.seq - 1 :
        \E c \in Elems(relay) : c.node = b.node /\ c.seq = k

\* An event the hub refuses is, or was before this one, in the node's queue.
Behind(e) ==
    \E f \in Refused : Origin[f] = Origin[e] /\ at[f] \in 1 .. at[e]

=============================================================================
