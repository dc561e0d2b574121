------------------------------- MODULE Share --------------------------------
(***************************************************************************)
(* The island-wide file share: the hub keeps the rows (MemoryFileShare,    *)
(* SqliteFileShare), and spokes reach it over the mesh with a time limit   *)
(* (RemoteFileShare, island/src/core/share.ts). The hub knows a spoke by   *)
(* the address a friend claims (friendByWg0, core/friends.ts; authorizeShare *)
(* and the /api/files routes, island/src/main.ts).                         *)
(*                                                                         *)
(* Listing only reads and is left out; a removal or a download starts from *)
(* a row of a list, which is old when the call arrives. Names, content and *)
(* headers are abstracted.                                                 *)
(*                                                                         *)
(* Definitions introduced as a "slip" are mistakes the code could have     *)
(* made; no action uses them.                                              *)
(***************************************************************************)
EXTENDS Integers, FiniteSets, FiniteSetsExt

CONSTANTS Hub, Spokes,   \* nodes; a spoke's source address is its own
          Users,         \* of them, those that use the share
          Claims,        \* of which addresses a spoke may say they are its own
          Files, Size,   \* what is uploaded
          Cap,           \* ISLAND_SHARE_MAX_BYTES
          MaxUpload,     \* MAX_UPLOAD
          Backends,      \* among "memory", "sqlite"
          Slots,         \* calls under way at once; which is which does not matter
          None,
          MaxId          \* bound: rows ever stored

ASSUME ShareAssumption ==
    /\ Hub \notin Spokes /\ None \notin Spokes \cup {Hub} \cup Files
    /\ IsFiniteSet(Spokes) /\ Users \subseteq Spokes \cup {Hub}
    /\ Claims \in [Spokes -> SUBSET (Spokes \cup {Hub})]
    /\ Size \in [Files -> Nat] /\ Cap \in Nat /\ MaxUpload \in Nat
    /\ Backends \subseteq {"memory", "sqlite"} /\ MaxId \in Nat
    /\ Slots \subseteq Nat

VARIABLES backend,       \* ISLAND_SHARE at the hub
          rows,          \* [id, file, node, from, friend]: the table, and of each row
                         \* who sent it, and whether that was a friend, as history
          nextId,        \* the next id
          total,         \* the running sum of MemoryFileShare
          claim,         \* per spoke: the address it gave as a friend, or None
          calls,         \* per slot: a call under way, or None
          acked          \* history: rows whose add was answered and that nobody removed

storeVars == <<rows, nextId, total, acked>>
vars == <<backend, storeVars, claim, calls>>

\* The bytes of some rows, each with its place in its file, and their number.
Bytes(rs) == UNION {{r} \X (1 .. Size[r.file]) : r \in rs}
Sizes(rs) == Cardinality(Bytes(rs))
-----------------------------------------------------------------------------
(* Who a caller is.                                                        *)

\* The friends that claim an address.
Claimants(ip) == {s \in Spokes : claim[s] = ip}

\* Slip: the first of several friends that claim an address.
NodeFirst(ip) == IF ip = Hub THEN Hub
                 ELSE IF Claimants(ip) = {} THEN None
                 ELSE CHOOSE s \in Claimants(ip) : Claimants(ip) = {ip} \/ s # ip

\* authorizeShare(): the hub's operator, or the one friend with that address. A
\* valid token makes a caller the hub's operator from any address; a spoke's
\* daemon sends none, so its calls are told by their address alone.
Node(ip) == IF ip = Hub THEN Hub
            ELSE IF Cardinality(Claimants(ip)) = 1 THEN CHOOSE s \in Spokes : claim[s] = ip
            ELSE None

\* Slip: a stranger is let in, under no name.
LetInAll(ip) == TRUE

LetIn(ip) == Node(ip) # None

\* A friendship is made, with the address the friend asserts, or ended.
Befriend(s) ==
    /\ claim[s] = None
    /\ \E ip \in Claims[s] : claim' = [claim EXCEPT ![s] = ip]
    /\ UNCHANGED <<backend, storeVars, calls>>

Unfriend(s) ==
    /\ claim[s] # None /\ claim' = [claim EXCEPT ![s] = None]
    /\ UNCHANGED <<backend, storeVars, calls>>
-----------------------------------------------------------------------------
(* A caller's side.                                                        *)

Call(k, op, c, f, r) ==
    /\ calls[k] = None /\ \A j \in Slots : j < k => calls[j] # None
    /\ calls' = [calls EXCEPT ![k] = [op |-> op, from |-> c, file |-> f, meant |-> r, stage |-> "sent",
                                      waited |-> TRUE, node |-> None, friend |-> FALSE, row |-> None]]
    /\ UNCHANGED <<backend, storeVars, claim>>

CallsAdd(k, c, f) == Call(k, "add", c, f, None)

\* The rows a caller may be shown.
Listed(c) == IF LetIn(c) THEN rows ELSE {}

\* A removal or a download of a row of such a list.
CallsRemove(k, c, r) == Call(k, "remove", c, None, r)
CallsGet(k, c, r) == Call(k, "get", c, None, r)

\* AbortSignal.timeout() covers a call until its answer is read.
Overdue(k) == calls[k] # None /\ calls[k].waited

\* The caller is told that it failed; at the hub the call goes on.
TimesOut(k) ==
    /\ Overdue(k) /\ calls[k].from # Hub
    /\ calls' = [calls EXCEPT ![k] = IF calls[k].stage \in {"done", "lost"} THEN None
                                     ELSE [calls[k] EXCEPT !.waited = FALSE]]
    /\ UNCHANGED <<backend, storeVars, claim>>

\* The call c, of which nothing is under way but the caller's wait.
Gone(c) == [c EXCEPT !.stage = "lost", !.row = None, !.file = None, !.meant = None,
                     !.node = None, !.friend = FALSE]

\* A request or an answer is lost; who waits for it waits until the time limit.
Lost(k) ==
    /\ calls[k] # None /\ calls[k].from # Hub /\ calls[k].stage \in {"sent", "done"}
    /\ calls' = [calls EXCEPT ![k] = IF calls[k].waited
                                     THEN Gone(calls[k]) ELSE None]
    /\ UNCHANGED <<backend, storeVars, claim>>

\* The answer arrives.
Returns(k) ==
    /\ calls[k] # None /\ calls[k].stage = "done"
    /\ calls' = [calls EXCEPT ![k] = None]
    /\ acked' = IF calls[k].row \in rows THEN acked \cup {calls[k].row} ELSE acked
    /\ UNCHANGED <<backend, rows, nextId, total, claim>>
-----------------------------------------------------------------------------
(* The hub's side.                                                         *)

\* The call c, answered: an error, or done, with the row it stored. Who waits no
\* longer does not read it.
Answer(c, r) == IF ~c.waited THEN None ELSE
               [c EXCEPT !.stage = "done", !.row = r, !.file = None, !.meant = None,
                         !.node = None, !.friend = FALSE]

\* POST /api/files: the caller is identified, then its body is read.
AddArrives(k) ==
    LET c == calls[k] IN
    /\ c # None /\ c.op = "add" /\ c.stage = "sent"
    /\ calls' = [calls EXCEPT ![k] =
           IF ~LetIn(c.from) THEN Answer(c, None)
           ELSE [c EXCEPT !.stage = "reading", !.node = Node(c.from),
                          !.friend = c.from = Hub \/ claim[c.from] = c.from]]
    /\ UNCHANGED <<backend, storeVars, claim>>

\* Slip: what is there is within the cap, with no regard to what is added.
RoomBefore(f) == (IF backend = "memory" THEN total ELSE Sizes(rows)) < Cap

\* The quota check of add().
Room(f) == (IF backend = "memory" THEN total ELSE Sizes(rows)) + Size[f] <= Cap

\* Slip: an id without AUTOINCREMENT, one more than the greatest in the table.
IdReused == IF rows = {} THEN 1 ELSE Max({r.id : r \in rows}) + 1

\* The id of a new row.
NewId == nextId

\* The row that add() makes of a call.
NewRow(c) == [id |-> NewId, file |-> c.file, node |-> c.node, from |-> c.from, friend |-> c.friend]

\* The body is read, and add() runs without an await.
AddRuns(k) ==
    LET c == calls[k]
        r == NewRow(c)
        stored == Size[c.file] <= MaxUpload /\ Room(c.file) IN
    /\ c # None /\ c.op = "add" /\ c.stage = "reading" /\ nextId <= MaxId
    /\ IF stored THEN /\ rows' = rows \cup {r} /\ nextId' = nextId + 1
                      /\ total' = total + Size[c.file]
                 ELSE UNCHANGED <<rows, nextId, total>>
    /\ calls' = [calls EXCEPT ![k] = Answer(c, IF stored THEN r ELSE None)]
    /\ UNCHANGED <<backend, claim, acked>>

\* Slip: a row that goes leaves its bytes in the sum.
FreedNothing(rs) == 0

Freed(rs) == Sizes(rs)

\* What the table has under an id.
WithId(id) == {r \in rows : r.id = id}

\* DELETE /api/files/<id>, without an await between the guard and the removal.
RemoveRuns(k) ==
    LET c == calls[k]
        gone == IF LetIn(c.from) THEN WithId(c.meant.id) ELSE {} IN
    /\ c # None /\ c.op = "remove" /\ c.stage = "sent"
    /\ rows' = rows \ gone /\ total' = total - Freed(gone)
    /\ acked' = acked \ gone
    /\ calls' = [calls EXCEPT ![k] = Answer(c, None)]
    /\ UNCHANGED <<backend, nextId, claim>>

\* GET /api/files/<id>/download: what is found is read in one query.
GetRuns(k) ==
    LET c == calls[k] IN
    /\ c # None /\ c.op = "get" /\ c.stage = "sent"
    /\ calls' = [calls EXCEPT ![k] = Answer(c, None)]
    /\ UNCHANGED <<backend, storeVars, claim>>

\* Slip: the last row stored may not have reached the disk.
AfterCrashLess == {r \in rows : r.id < nextId - 1}

\* What a restarted hub finds.
AfterCrash == IF backend = "memory" THEN {} ELSE rows

\* The hub restarts: its handlers are gone, and a request may still arrive.
HubCrash ==
    /\ rows' = AfterCrash /\ total' = 0
    /\ nextId' = IF backend = "memory" THEN 1 ELSE nextId
    /\ calls' = [k \in Slots |-> IF calls[k] = None \/ calls[k].stage = "sent" THEN calls[k]
                                 ELSE IF calls[k].waited /\ calls[k].from # Hub
                                      THEN Gone(calls[k]) ELSE None]
    /\ acked' = IF backend = "memory" THEN {} ELSE acked
    /\ UNCHANGED <<backend, claim>>
-----------------------------------------------------------------------------
Init ==
    /\ backend \in Backends
    /\ rows = {} /\ nextId = 1 /\ total = 0 /\ acked = {}
    /\ claim = [s \in Spokes |-> None]
    /\ calls = [k \in Slots |-> None]

Next ==
    \/ \E s \in Spokes : Befriend(s) \/ Unfriend(s)
    \/ \E k \in Slots, c \in Users : \/ \E f \in Files : CallsAdd(k, c, f)
                                       \/ \E r \in Listed(c) :
                                            CallsRemove(k, c, r) \/ CallsGet(k, c, r)
    \/ \E k \in Slots : TimesOut(k) \/ Lost(k) \/ Returns(k)
    \/ \E k \in Slots : AddArrives(k) \/ AddRuns(k) \/ RemoveRuns(k) \/ GetRuns(k)
    \/ HubCrash

Spec == Init /\ [][Next]_vars
-----------------------------------------------------------------------------
(* Properties.                                                             *)

\* The variables hold what the code keeps in them: rows of upload size, numbered
\* apart and below the next id, stored for a caller that was let in.
RowSet == [id : 1 .. MaxId, file : Files, node : Spokes \cup {Hub}, from : Users, friend : BOOLEAN]
CallSet == [op : {"add", "remove", "get"}, from : Users, file : Files \cup {None},
            meant : RowSet \cup {None}, stage : {"sent", "reading", "done", "lost"},
            waited : BOOLEAN, node : Spokes \cup {Hub, None}, friend : BOOLEAN,
            row : RowSet \cup {None}]
TypeOK ==
    /\ backend \in Backends /\ rows \subseteq RowSet /\ nextId \in 1 .. MaxId + 1
    /\ \A r \in rows : r.id < nextId /\ Size[r.file] <= MaxUpload
    /\ \A r1, r2 \in rows : r1.id = r2.id => r1 = r2
    /\ claim \in [Spokes -> Spokes \cup {Hub, None}]
    /\ calls \in [Slots -> CallSet \cup {None}]

\* "Total share-size cap — a disk-fill DoS guard on the durable node" (share.ts:45):
\* adds that wait for their bodies at the same time, removals and restarts never
\* leave more in the table than the cap, and the running sum of the memory share
\* (share.ts:81) is the sum of its rows.
WithinCap ==
    /\ Sizes(rows) <= Cap
    /\ backend = "memory" => total = Sizes(rows)

\* An id names one row for ever (AUTOINCREMENT, share.ts:119): a removal or download
\* that was chosen from a list some time ago, and reaches the hub after other
\* removals, adds and a restart, finds the row that was meant or none.
FindsMeant ==
    backend = "sqlite" =>
      \A k \in Slots : calls[k] # None /\ calls[k].meant # None =>
        \A r \in rows : r.id = calls[k].meant.id => r = calls[k].meant

\* "if two friends claim the same wg0 the claim is ambiguous and neither is
\* authorized" (friends.ts:361): what a friend with its own address sends is put
\* down to it and nobody else, whoever else claims that address, and also if the
\* friendship ends while the body is read.
RightlyNamed == \A r \in rows : r.friend => r.node = r.from

\* "durable" (share.ts:9): a file whose add was answered is there until somebody
\* removes it, also after the hub has restarted.
AckedListed == acked \subseteq rows
=============================================================================
