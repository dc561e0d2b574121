------------------------------- MODULE Polaris -------------------------------
(***************************************************************************)
(* The two books that polaris, the mesh's directory and collector, keeps   *)
(* about the other nodes (island/src/core/registry.ts, events.ts) and what *)
(* feeds them: the record a node announces when it boots, and the report   *)
(* of its links that it pushes every minute (main.ts), made of the kernel's*)
(* peer table and of the self-heal daemon's log (sysinfo.ts).              *)
(*                                                                         *)
(* Both books keep what arrived last. A record or report that is signed    *)
(* says truly who made it. A report is refused unless polaris is friends    *)
(* with its node, which is the same as a report that is lost.              *)
(*                                                                         *)
(* Definitions introduced as a "slip" are mistakes the code could have     *)
(* made; no action uses them.                                              *)
(***************************************************************************)
EXTENDS Integers, FiniteSets

CONSTANTS Nodes,
          Peers,         \* the peers each node has a link to
          Other,         \* a key that is no node's
          Never,         \* the age of a handshake that was never made
          Ages,          \* handshake ages, in seconds, and Never
          StaleAfter, DegradedAfter,
          MaxBoots,      \* bound: boots of a node, each at an address of its own
          MaxFlying      \* bound: reports of a node on their way at once

ASSUME PolarisAssumption ==
    /\ Other \notin Nodes
    /\ Never \in Ages /\ Ages \ {Never} \subseteq Nat
    /\ StaleAfter \in Nat /\ DegradedAfter \in Nat /\ StaleAfter =< DegradedAfter
    /\ MaxBoots \in Nat \ {0} /\ MaxFlying \in Nat \ {0}

VARIABLES age,           \* per node and peer: the age of the last handshake
          mayRead,       \* per node: whether islandd may read the peer table
          daemon,        \* per node: whether its self-heal daemon runs
          crowded,       \* per node: more rows to report than MAX_REPORT_EVENTS
          said,          \* per node and peer: what its daemon logged last
          reports,       \* per node: reports on their way
          feed,          \* per node: the report in EventStore, or Nothing
          addr,          \* per node: its address, one per boot
          announced,     \* announcements on their way
          registry       \* per code (a node's key): the record in RegistryStore

linkVars == <<age, mayRead, crowded, daemon, said>>
feedVars == <<reports, feed>>
directoryVars == <<addr, announced, registry>>
vars == <<linkVars, feedVars, directoryVars>>

States == {"ok", "stale", "degraded", "restored"}
Silent == "silent"       \* no line in the part of the log that is read
Nothing == [p \in Peers |-> Silent]
Crowd == [p \in Peers |-> "crowd"]   \* a report of too many rows, whatever they say
ReportRows == [Peers -> States \cup {Silent}]

\* Slip: a link that never shook hands has a state of its own.
ClassNever(a) == IF a = Never THEN "never"
                 ELSE IF a >= DegradedAfter THEN "degraded"
                 ELSE IF a >= StaleAfter THEN "stale"
                 ELSE "ok"

\* classifyLink().
Class(a) == IF a = Never \/ a >= DegradedAfter THEN "degraded"
            ELSE IF a >= StaleAfter THEN "stale"
            ELSE "ok"
-----------------------------------------------------------------------------
(* The report of links.                                                    *)

\* Slip: what the daemon last said overrides the peer table.
LiveThenSaid(a, s) == IF s # Silent THEN s ELSE Class(a)

\* A row made of the peer table, to which the daemon may only add "restored".
Live(a, s) == IF s = "restored" /\ Class(a) = "ok" THEN "restored" ELSE Class(a)

\* The peers readWg() finds: none without the right to read the table.
ReadWg(n) == IF mayRead[n] THEN Peers ELSE {}

\* collectLocal(): a row per peer, from the peer table or else from the log. Of
\* the blocked addresses, which are rows too, only their number counts.
CollectLocal(n) ==
    IF crowded[n] THEN Crowd
    ELSE [p \in Peers |-> IF p \in ReadWg(n) THEN Live(age[n][p], said[n][p])
                                             ELSE said[n][p]]

\* push(), once a minute, whether or not the last one has ended.
Push(n) ==
    /\ Cardinality(reports[n]) < MaxFlying
    /\ reports' = [reports EXCEPT ![n] = @ \cup {CollectLocal(n)}]
    /\ UNCHANGED <<linkVars, feed, directoryVars>>

\* Slip: a report is kept only where there is none.
KeptFirst(old, new) == IF old = Nothing THEN new ELSE old

\* upsert() into node_events: the last report to arrive stays.
KeptLast(old, new) == new

\* parseReport(): too many rows are an error.
Parses(r) == r # Crowd

\* POST /events/report: a report comes, in any order.
Ingest(n, r) ==
    /\ r \in reports[n]
    /\ reports' = [reports EXCEPT ![n] = @ \ {r}]
    /\ feed' = IF Parses(r) THEN [feed EXCEPT ![n] = KeptLast(@, r)] ELSE feed
    /\ UNCHANGED <<linkVars, directoryVars>>

\* report() tries once; polaris refuses the report of a node it is not friends
\* with.
LoseReport(n, r) ==
    /\ r \in reports[n]
    /\ reports' = [reports EXCEPT ![n] = @ \ {r}]
    /\ UNCHANGED <<linkVars, feed, directoryVars>>
-----------------------------------------------------------------------------
(* The links and the daemon, of which SelfHeal says more.                  *)

\* A handshake is made, or time passes without one.
LinkChanges(n, p) ==
    /\ \E a \in Ages : age' = [age EXCEPT ![n][p] = a]
    /\ UNCHANGED <<mayRead, crowded, daemon, said, feedVars, directoryVars>>

\* Addresses are blocked or freed: the rows come to more or fewer than the limit.
BlocksChange(n) ==
    /\ crowded' = [crowded EXCEPT ![n] = ~@]
    /\ UNCHANGED <<age, mayRead, daemon, said, feedVars, directoryVars>>

\* What the daemon may log of a peer: one whose handshakes come again is
\* "restored" before it is "ok".
Loggable(a) == IF Class(a) = "ok" THEN {"ok", "restored"} ELSE {Class(a)}

\* A tick of the daemon.
DaemonLogs(n) ==
    /\ daemon[n]
    /\ \E line \in [Peers -> States] :
          /\ \A p \in Peers : line[p] \in Loggable(age[n][p])
          /\ said' = [said EXCEPT ![n] = line]
    /\ UNCHANGED <<age, mayRead, crowded, daemon, feedVars, directoryVars>>

\* The daemon stops or starts.
DaemonTurns(n) ==
    /\ daemon' = [daemon EXCEPT ![n] = ~@]
    /\ UNCHANGED <<age, mayRead, crowded, said, feedVars, directoryVars>>

\* The lines of a daemon that stopped leave the part of the log readDaemon()
\* looks at.
LinesExpire(n) ==
    /\ ~daemon[n]
    /\ said' = [said EXCEPT ![n] = Nothing]
    /\ UNCHANGED <<age, mayRead, crowded, daemon, feedVars, directoryVars>>
-----------------------------------------------------------------------------
(* The directory.                                                          *)

Addresses == 1 .. MaxBoots
Records == [key : Nodes \cup {Other}, addr : Addresses]

\* signRecord(): a record with a signature, which holds for what it was made of.
Sign(r) == [record |-> r, sig |-> r]
NoRecord == Sign([key |-> Other, addr |-> 0])

\* announce(): the record a node makes of itself for the registry.
Announcement(n, a) == Sign([key |-> n, addr |-> a])

\* A node boots, at a new address, and announces itself; deployed anew, it may
\* have gained or lost the right to read the peer table.
Boot(n) ==
    /\ addr[n] < MaxBoots
    /\ addr' = [addr EXCEPT ![n] = @ + 1]
    /\ announced' = announced \cup {Announcement(n, addr[n] + 1)}
    /\ \E b \in BOOLEAN : mayRead' = [mayRead EXCEPT ![n] = b]
    /\ UNCHANGED <<age, crowded, daemon, said, feedVars, registry>>

\* verifyAnnounce().
Verifies(e) == e.sig = e.record

\* upsert() into the registry: the last record to arrive under a code stays.
Recorded(e) == [registry EXCEPT ![e.record.key] = e]

\* POST /registry/announce: an announcement comes, in any order, or is lost.
Register(e) ==
    /\ e \in announced /\ announced' = announced \ {e}
    /\ \/ /\ Verifies(e)
          /\ registry' = Recorded(e)
       \/ UNCHANGED registry
    /\ UNCHANGED <<linkVars, feedVars, addr>>

\* A record is altered in polaris's database; its signature is kept.
Alter(n) ==
    /\ registry[n] # NoRecord
    /\ \E r \in Records : registry' = [registry EXCEPT ![n].record = r]
    /\ UNCHANGED <<linkVars, feedVars, addr, announced>>

\* Slip: resolve() checks the key against the code and not the signature.
AcceptsUnsigned(n, e) == e.record.key = n

\* Whether resolve() of n's code returns the record it was answered with.
Accepts(n, e) == e.record.key = n /\ Verifies(e)
-----------------------------------------------------------------------------
Init ==
    /\ age = [n \in Nodes |-> [p \in Peers |-> Never]]
    /\ mayRead \in [Nodes -> BOOLEAN]
    /\ crowded = [n \in Nodes |-> FALSE]
    /\ daemon = [n \in Nodes |-> FALSE]
    /\ said = [n \in Nodes |-> Nothing]
    /\ reports = [n \in Nodes |-> {}]
    /\ feed = [n \in Nodes |-> Nothing]
    /\ addr = [n \in Nodes |-> 1]
    /\ announced = {Announcement(n, 1) : n \in Nodes}
    /\ registry = [n \in Nodes |-> NoRecord]

Next ==
    \/ \E n \in Nodes :
         \/ Push(n)
         \/ \E r \in reports[n] : Ingest(n, r) \/ LoseReport(n, r)
         \/ \E p \in Peers : LinkChanges(n, p)
         \/ BlocksChange(n) \/ DaemonLogs(n) \/ DaemonTurns(n) \/ LinesExpire(n)
         \/ Boot(n) \/ Alter(n)
    \/ \E e \in announced : Register(e)

Spec == Init /\ [][Next]_vars

\* setInterval keeps pushing; a report is not on its way for ever, and not all of
\* them are lost or refused; a daemon that runs keeps logging.
Fairness ==
    \A n \in Nodes :
        /\ WF_vars(Push(n)) /\ WF_vars(DaemonLogs(n))
        /\ SF_vars(\E r \in reports[n] : Parses(r) /\ Ingest(n, r))
        /\ \A r \in ReportRows \cup {Crowd} : WF_vars(Ingest(n, r) \/ LoseReport(n, r))

FairSpec == Spec /\ Fairness
-----------------------------------------------------------------------------
(* Properties.                                                             *)

\* The variables hold what the code keeps in them.
TypeOK ==
    /\ age \in [Nodes -> [Peers -> Ages]]
    /\ {mayRead, crowded, daemon} \subseteq [Nodes -> BOOLEAN]
    /\ \A n \in Nodes :
         /\ {said[n], feed[n]} \subseteq ReportRows
         /\ reports[n] \subseteq ReportRows \cup {Crowd}
    /\ addr \in [Nodes -> Addresses]
    /\ \A e \in announced : Verifies(e) /\ e.record \in Records
    /\ \A n \in Nodes : registry[n] = NoRecord \/ registry[n].record \in Records

\* The feed shows a link as it is: "restored" is a way of being ok.
Shows(n, p, c) == feed[n][p] = c \/ (c = "ok" /\ feed[n][p] = "restored")

\* A link that stays in one state is shown in that state in the end and for good
\* ("the live handshake age (always current, always present)", events.ts:78),
\* though reports overtake each other and old lines remain in the log, as long as
\* islandd reads the peer table or the daemon runs, and the rows are not too many
\* ("a legit snapshot is a handful of events", events.ts:20).
FeedSettles ==
    \A n \in Nodes, p \in Peers : \A c \in {"ok", "stale", "degraded"} :
        <>[](Class(age[n][p]) = c /\ (mayRead[n] \/ daemon[n]) /\ ~crowded[n])
            => <>[]Shows(n, p, c)

\* Whoever resolves a code gets an address that the code's owner has announced,
\* whatever became of the record in the directory ("a compromised registry could
\* swap the x25519/wg0 under a matching key", registry.ts:127).
ResolvedOwn ==
    \A n \in Nodes : Accepts(n, registry[n]) => registry[n].record.addr \in 1 .. addr[n]
=============================================================================
