------------------------------ MODULE Messages ------------------------------
(***************************************************************************)
(* Direct messages between island nodes: the MessageBook of each node      *)
(* (island/src/core/messages.ts), the routes that send and take messages   *)
(* (island/src/main.ts) and messages.json, over a network that loses,      *)
(* delays and repeats blobs.                                               *)
(*                                                                         *)
(* A message is its signed and sealed blob: it says truly who made it, for *)
(* whom and when, and only its addressee opens it. What a handler awaits   *)
(* while it opens a blob is libsodium alone, so it opens, marks and        *)
(* appends in one step; saving and delivering are steps of their own.      *)
(*                                                                         *)
(* Definitions introduced as a "slip" are mistakes the code could have     *)
(* made; no action uses them.                                              *)
(***************************************************************************)
EXTENDS Integers, FiniteSets, SequencesExt, Lists

CONSTANTS Nodes,
          Messages,      \* messages, each named by its id
          Sender, Recipient,
          Slots,         \* per node: the handlers it may have at work at once
          None,          \* no message
          Ahead,         \* how far the sender's clock runs before the recipient's
          MaxAge,        \* MAX_MSG_AGE_MS, in ticks
          MaxSkew,       \* MAX_MSG_SKEW_MS, in ticks
          MaxPerPeer,    \* MAX_PER_PEER
          MaxSeen        \* MAX_SEEN_IDS

ASSUME MessagesAssumption ==
    /\ Sender \in [Messages -> Nodes] /\ Recipient \in [Messages -> Nodes]
    /\ \A m \in Messages : Sender[m] # Recipient[m]
    /\ None \notin Messages
    /\ Ahead \in [Messages -> Int]
    /\ MaxAge \in Nat /\ MaxSkew \in Nat
    /\ MaxPerPeer \in Nat \ {0} /\ MaxSeen \in Nat \ {0}

VARIABLES book,          \* per node: the book in memory
          disk,          \* per node: messages.json
          work,          \* per node and slot: what its handler is at
          net,           \* per message: not sealed, sealed, on its way, or past
          age,           \* per sealed message: its age by the recipient's clock
          \* History, read by the properties only:
          delivered,     \* messages whose sender was told "delivered"
          overlapped     \* nodes of which two saves were in flight at once

vars == <<book, disk, work, net, age, delivered, overlapped>>

\* Ages stop where nothing tells them apart any more.
Stale == MaxAge + MaxSkew + 1

\* A MessageBook: the log of each peer and the ids taken in, both oldest first.
\* History in it: the messages appended, those appended again, and those whose
\* id the cap drove out of seen while they were fresh.
NoBook == [logs |-> [p \in Nodes |-> <<>>], seen |-> <<>>,
           ever |-> {}, twice |-> {}, evicted |-> {}]
Idle == [pc |-> "idle", msg |-> None, first |-> FALSE, snap |-> NoBook]
Changed(m, first) == [pc |-> "changed", msg |-> m, first |-> first, snap |-> NoBook]
Waiting(m) == [pc |-> "sent", msg |-> m, first |-> FALSE, snap |-> NoBook]

\* The log of n that message m belongs to: that of the other party.
Peer(n, m) == IF n = Sender[m] THEN Recipient[m] ELSE Sender[m]

\* Slip: a cap that is tested before the new element counts.
NewestLate(s, limit) ==
    IF Len(s) > limit + 1 THEN SubSeq(s, Len(s) - limit, Len(s)) ELSE s

\* A sequence without what is over its limit at the front.
Newest(s, limit) ==
    IF Len(s) > limit THEN SubSeq(s, Len(s) - limit + 1, Len(s)) ELSE s
-----------------------------------------------------------------------------
(* The book.                                                               *)

\* append(): the log of a peer, cut to its cap.
Appended(b, p, m) == [b EXCEPT !.logs[p] = Newest(Append(@, m), MaxPerPeer),
                               !.ever = @ \cup {m},
                               !.twice = IF m \in b.ever THEN @ \cup {m} ELSE @]

\* The freshness window of openMessage().
Fresh(m) == age[m] =< MaxAge /\ age[m] >= -MaxSkew

\* Slip: an id is kept only for the allowance of the clocks.
ForgettableEarly(m) == age[m] > MaxSkew

\* The ids markSeen() prunes.
Forgettable(m) == age[m] > MaxAge + MaxSkew

\* markSeen(): prune by date, make room under the cap, add.
Marked(b, m) ==
    LET kept == Filter(b.seen, {x \in Messages : ~Forgettable(x)})
        room == Newest(kept, MaxSeen - 1)
        out == ToSet(kept) \ ToSet(room)
    IN  [b EXCEPT !.seen = Append(room, m),
                  !.evicted = @ \cup {x \in out : Fresh(x)}]
-----------------------------------------------------------------------------
(* The routes.                                                             *)

\* sealMessage(): the blob of m, dated by the sender's clock.
Dated(m) == [age EXCEPT ![m] = -Ahead[m]]

\* POST /api/messages: seal, keep a copy, save; the blob leaves after that.
Send(n, s, m) ==
    /\ n = Sender[m] /\ net[m] = "unsealed" /\ work[n][s] = Idle
    /\ age' = Dated(m) /\ net' = [net EXCEPT ![m] = "sealed"]
    /\ book' = [book EXCEPT ![n] = Appended(@, Recipient[m], m)]
    /\ work' = [work EXCEPT ![n][s] = Changed(m, FALSE)]
    /\ UNCHANGED <<disk, delivered, overlapped>>

\* What openMessage() demands of a blob whose sender is a friend.
Welcome(b, m) == Fresh(m) /\ ~Contains(b.seen, m)

\* openVerify() throws: a seal, a form, a sender or a signature it does not trust,
\* for which being no friend just now is enough. Nothing is kept.
Untrusted == UNCHANGED <<book, work>>

\* POST /api/messages/inbound: a blob comes, for the first time or again. It
\* is refused if it is not welcome, or if its sender is no friend just then.
TakeIn(n, s, m, first) ==
    /\ n = Recipient[m] /\ work[n][s] = Idle
    /\ net[m] \in (IF first THEN {"coming"} ELSE {"coming", "past"})
    /\ net' = IF first THEN [net EXCEPT ![m] = "past"] ELSE net
    /\ \/ /\ Welcome(book[n], m)
          /\ book' = [book EXCEPT ![n] = Appended(Marked(@, m), Sender[m], m)]
          /\ work' = [work EXCEPT ![n][s] = Changed(m, first)]
       \/ Untrusted
       \/ ~Welcome(book[n], m) /\ UNCHANGED <<book, work>>
    /\ UNCHANGED <<disk, age, delivered, overlapped>>

\* The save of a handler, the second write of persist(): the book is read as
\* the write begins, and the file holds it when the write is done.
WriteBegins(n, s) ==
    /\ work[n][s].pc = "changed"
    /\ work' = [work EXCEPT ![n][s] = [@ EXCEPT !.pc = "writing", !.snap = book[n]]]
    /\ overlapped' = IF \E o \in Slots[n] : work[n][o].pc = "writing"
                     THEN overlapped \cup {n} ELSE overlapped
    /\ UNCHANGED <<book, disk, net, age, delivered>>

\* A sender has saved: deliver(), once, and wait for the answer.
Posted(n, s, m) ==
    /\ n = Sender[m]
    /\ work' = [work EXCEPT ![n][s] = Waiting(m)]
    /\ net' = [net EXCEPT ![m] = "coming"]
    /\ UNCHANGED delivered

\* A recipient has saved: it answers, and its sender may be told.
Answered(n, s, m) ==
    /\ n = Recipient[m]
    /\ \E told \in {{}} \cup {{o} : o \in {o \in Slots[Sender[m]] :
                     work[n][s].first /\ work[Sender[m]][o] = Waiting(m)}} :
          /\ work' = [work EXCEPT ![n][s] = Idle,
                        ![Sender[m]] = [o \in Slots[Sender[m]] |->
                            IF o \in told THEN Idle ELSE work[Sender[m]][o]]]
          /\ delivered' = IF told # {} THEN delivered \cup {m} ELSE delivered
    /\ UNCHANGED net

WriteLands(n, s) ==
    /\ work[n][s].pc = "writing"
    /\ disk' = [disk EXCEPT ![n] = work[n][s].snap]
    /\ Posted(n, s, work[n][s].msg) \/ Answered(n, s, work[n][s].msg)
    /\ UNCHANGED <<book, age, overlapped>>

\* deliver() gives up: the blob or its answer is lost, or was refused.
Undelivered(n, s) ==
    LET m == work[n][s].msg IN
    /\ work[n][s].pc = "sent"
    /\ work' = [work EXCEPT ![n][s] = Idle]
    /\ net' \in {net, [net EXCEPT ![m] = "past"]}
    /\ UNCHANGED <<book, disk, age, delivered, overlapped>>
-----------------------------------------------------------------------------
(* Around the book.                                                        *)

\* Slip: boot does not find the file, and the next save empties it.
RestoredNothing(b) == NoBook

\* fromJSON(): the ids are uuids, so the object they were kept in lists them in
\* the order in which they were added.
Restored(b) == b

\* A node dies and boots. A write that had begun has landed before, or it is
\* lost; a file torn in between, with which the node does not start, is left out.
Crash(n) ==
    /\ book' = [book EXCEPT ![n] = Restored(disk[n])]
    /\ work' = [work EXCEPT ![n] = [s \in Slots[n] |-> Idle]]
    /\ UNCHANGED <<disk, net, age, delivered, overlapped>>

\* A tick of the clocks.
Pass == /\ age' = [m \in Messages |->
                     IF net[m] = "unsealed" \/ age[m] >= Stale THEN age[m] ELSE age[m] + 1]
        /\ UNCHANGED <<book, disk, work, net, delivered, overlapped>>

Init ==
    /\ book = [n \in Nodes |-> NoBook]
    /\ disk = [n \in Nodes |-> NoBook]
    /\ work = [n \in Nodes |-> [s \in Slots[n] |-> Idle]]
    /\ net = [m \in Messages |-> "unsealed"]
    /\ age = [m \in Messages |-> 0]
    /\ delivered = {} /\ overlapped = {}

Next ==
    \/ \E n \in Nodes : \E s \in Slots[n] :
         \/ \E m \in Messages :
              \/ Send(n, s, m)
              \/ TakeIn(n, s, m, TRUE)
              \/ TakeIn(n, s, m, FALSE)
         \/ WriteBegins(n, s)
         \/ WriteLands(n, s)
         \/ Undelivered(n, s)
    \/ \E n \in Nodes : Crash(n)
    \/ Pass

Spec == Init /\ [][Next]_vars
-----------------------------------------------------------------------------
(* Properties.                                                             *)

\* The variables hold what the code keeps in them. The replay set and every
\* log stay within their caps, in memory and in the file ("Bounded ... plus a
\* hard size cap", messages.ts:126).
BookOK(b) ==
    /\ DOMAIN b.logs = Nodes
    /\ \A p \in Nodes : ToSet(b.logs[p]) \subseteq Messages /\ Len(b.logs[p]) =< MaxPerPeer
    /\ ToSet(b.seen) \subseteq Messages /\ Len(b.seen) =< MaxSeen
    /\ b.ever \subseteq Messages /\ b.twice \subseteq b.ever
    /\ b.evicted \subseteq Messages

TypeOK ==
    /\ \A n \in Nodes : BookOK(book[n]) /\ BookOK(disk[n])
    /\ \A n \in Nodes : \A s \in Slots[n] :
         /\ work[n][s].pc \in {"idle", "changed", "writing", "sent"}
         /\ work[n][s].msg \in Messages \cup {None}
         /\ BookOK(work[n][s].snap)
    /\ net \in [Messages -> {"unsealed", "sealed", "coming", "past"}]
    /\ age \in [Messages -> Int]
    /\ delivered \subseteq Messages /\ overlapped \subseteq Nodes

\* A blob that comes again is not taken in again ("id ... used for replay
\* dedup", messages.ts:17), whatever was pruned or lost in a crash meanwhile.
\* Only the cap on seen ids (messages.ts:133) may let it through: an id it
\* drives out while its message is still fresh.
TakenOnce == \A n \in Nodes : \A b \in {book[n], disk[n]} : b.twice \subseteq b.evicted

\* The file of n holds m, or held it until the cap of the log dropped it.
Kept(n, m) == m \in disk[n].ever

\* A sender that is told "delivered" (main.ts:846) is right for good: the
\* message is in the recipient's file and survives its crashes, unless two of
\* the recipient's saves overlapped.
DeliveredKept ==
    \A m \in delivered : Kept(Recipient[m], m) \/ Recipient[m] \in overlapped
=============================================================================
