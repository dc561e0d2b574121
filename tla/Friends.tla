------------------------------- MODULE Friends -------------------------------
(***************************************************************************)
(* Friendships between island nodes: the FriendBook of each node           *)
(* (island/src/core/friends.ts), the routes that drive it, the file it is  *)
(* saved in and the messages between nodes (island/src/main.ts).           *)
(*                                                                         *)
(* Keys, signatures and sealing are abstracted: a message says who made it *)
(* and only its addressee can use it. The methods of the book await        *)
(* nothing but libsodium being ready, so each is one step. A route changes *)
(* the book, saves it and only then sends. A save copies the book when its *)
(* write begins, and no lock keeps a second one from beginning before the  *)
(* first has landed.                                                       *)
(*                                                                         *)
(* Definitions introduced as a "slip" are mistakes the code could have     *)
(* made; no action uses them.                                              *)
(***************************************************************************)
EXTENDS Integers, FiniteSets

CONSTANTS Nodes,
          Tokens,        \* friend tokens, each named by its nonce
          Giver,         \* the node that mints each token
          Bearers,       \* the nodes each token's code is handed to
          None,          \* no token
          Ahead,         \* how far each node's clock runs ahead, in ticks
          Ttl,           \* lifetime of a token, in ticks
          Skew,          \* REVOKE_SKEW_MS, in ticks
          Faults,        \* "replay": messages may come again; "crash";
                         \* "overlap": so may the saves of a node
          MaxNotices,    \* bound: revoke notices minted
          MaxNow         \* bound: ticks of the clock

ASSUME FriendsAssumption ==
    /\ Giver \in [Tokens -> Nodes]
    /\ Bearers \in [Tokens -> SUBSET Nodes]
    /\ None \notin Tokens
    /\ Ahead \in [Nodes -> Nat]
    /\ Ttl \in Nat /\ Skew \in Nat /\ MaxNow \in Nat /\ MaxNotices \in Nat
    /\ Tokens \cap (1 .. MaxNotices) = {}
    /\ Faults \subseteq {"replay", "crash", "overlap"}

VARIABLES offered,       \* per node: its open tokens
          pending,       \* per node and giver: the token waiting for a yes
          friends,       \* per node and peer: the friendship, or Stranger
          consumed,      \* per node: spent nonces of tokens and notices
          saved,         \* per node: the book in friends.json
          outbox,        \* per node: what each of its routes will send once saved
          writes,        \* per node: the writes of friends.json under way
          net,           \* messages on their way
          minted,        \* revoke notices made so far
          issued,        \* per token: its giver's clock when it was made
          now            \* real time

bookVars == <<offered, pending, friends, consumed>>
wireVars == <<outbox, writes, net>>
vars == <<bookVars, saved, wireVars, minted, issued, now>>

Unissued == -1
Notices == 1 .. MaxNotices
Stranger == [nonce |-> None, since |-> 0]
Clock(n) == now + Ahead[n]

\* The messages: a token for one bearer, the accept of a token by a node,
\* and a revoke notice.
Tok(t, n) == [kind |-> "token", ref |-> t, to |-> n]

\* Slip: the accept names the giver and not the nonce it answers.
AccNamingGiver(t, n) ==
    [kind |-> "accept", ref |-> Giver[t], from |-> n, to |-> Giver[t]]

Acc(t, n) == [kind |-> "accept", ref |-> t, from |-> n, to |-> Giver[t]]

Rev(i, n, p, at) == [kind |-> "revoke", ref |-> i, from |-> n, to |-> p, at |-> at]

\* A message reaches its addressee; it comes once, or again and again.
Deliver(m) == /\ m \in net
              /\ \/ net' = net \ {m}
                 \/ "replay" \in Faults /\ net' = net

\* A peer's route is called with a message of this kind.
Inbound(m, kind) == m.kind = kind /\ Deliver(m)

Expired(t, n) == issued[t] + Ttl < Clock(n)
-----------------------------------------------------------------------------
(* The handshake.                                                          *)

\* Slip: a message leaves before the book is saved.
SendAtOnce(n, ms) == net' = net \cup ms /\ UNCHANGED <<outbox, writes>>

\* A route leaves messages to send for when its save is done.
SendOnceSaved(n, ms) ==
    outbox' = [outbox EXCEPT ![n] = @ \cup {ms}] /\ UNCHANGED <<writes, net>>

\* A code that is pasted to its bearers, or the request that /api/friends/add
\* sends to the node it has resolved.
Invitations(t) == {Tok(t, b) : b \in Bearers[t]}

\* POST /api/friends/token and /api/friends/add.
IssueToken(n, t) ==
    /\ Giver[t] = n /\ issued[t] = Unissued
    /\ issued' = [issued EXCEPT ![t] = Clock(n)]
    /\ offered' = [offered EXCEPT ![n] = @ \cup {t}]
    /\ SendOnceSaved(n, Invitations(t))
    /\ UNCHANGED <<pending, friends, consumed, saved, minted, now>>

\* Slip: receive() does not look at the spent nonces.
SpentReceivable(n, t) == n # Giver[t] /\ ~Expired(t, n)

\* What receive() demands of a token.
Receivable(n, t) == n # Giver[t] /\ ~Expired(t, n) /\ t \notin consumed[n]

\* POST /api/friends/receive and /api/friends/request: a token waits for the
\* operator's yes, in place of an earlier one from the same giver.
Receive(m) ==
    LET n == m.to  t == m.ref IN
    /\ Inbound(m, "token")
    /\ pending' = IF Receivable(n, t) THEN [pending EXCEPT ![n][Giver[t]] = t]
                                      ELSE pending
    /\ UNCHANGED <<offered, friends, consumed, saved, outbox, writes, minted, issued, now>>

\* POST /api/friends/accept.
Accept(n, g) ==
    LET t == pending[n][g] IN
    /\ t # None /\ ~Expired(t, n)
    /\ pending' = [pending EXCEPT ![n][g] = None]
    /\ consumed' = [consumed EXCEPT ![n] = @ \cup {t}]
    /\ friends' = [friends EXCEPT ![n][g] = [nonce |-> t, since |-> Clock(n)]]
    /\ SendOnceSaved(n, {Acc(t, n)})
    /\ UNCHANGED <<offered, saved, minted, issued, now>>

\* Slip: an offer may be confirmed again after it was closed.
ConfirmableTwice(n, t) == issued[t] # Unissued /\ ~Expired(t, n)

\* What confirm() demands of the offer an accept refers to.
Confirmable(n, t) == t \in offered[n] /\ t \notin consumed[n] /\ ~Expired(t, n)

\* What confirm() does then: the offer is closed, its nonce spent.
Confirmed(n, p, t) ==
    /\ offered' = [offered EXCEPT ![n] = @ \ {t}]
    /\ consumed' = [consumed EXCEPT ![n] = @ \cup {t}]
    /\ friends' = [friends EXCEPT ![n][p] = [nonce |-> t, since |-> Clock(n)]]

\* POST /api/friends/confirm and /api/friends/accept-inbound.
Confirm(m) ==
    LET n == m.to  t == m.ref IN
    /\ Inbound(m, "accept")
    /\ IF Confirmable(n, t) THEN Confirmed(n, m.from, t)
       ELSE UNCHANGED <<offered, consumed, friends>>
    /\ UNCHANGED <<pending, saved, outbox, writes, minted, issued, now>>
-----------------------------------------------------------------------------
(* The end of a friendship.                                                *)

\* DELETE /api/friends/<peer> and /admin/friends/<peer>.
IssueRevoke(n, p) ==
    /\ friends[n][p] # Stranger /\ minted < MaxNotices
    /\ minted' = minted + 1
    /\ friends' = [friends EXCEPT ![n][p] = Stranger]
    /\ SendOnceSaved(n, {Rev(minted', n, p, Clock(n))})
    /\ UNCHANGED <<offered, pending, consumed, saved, issued, now>>

\* What receiveRevoke() demands of a notice.
Revocable(m) ==
    /\ friends[m.to][m.from] # Stranger
    /\ m.ref \notin consumed[m.to]
    /\ m.at >= friends[m.to][m.from].since - Skew

\* POST /api/friends/revoke-inbound.
ReceiveRevoke(m) ==
    /\ Inbound(m, "revoke")
    /\ IF Revocable(m)
       THEN /\ consumed' = [consumed EXCEPT ![m.to] = @ \cup {m.ref}]
            /\ friends' = [friends EXCEPT ![m.to][m.from] = Stranger]
       ELSE UNCHANGED <<consumed, friends>>
    /\ UNCHANGED <<offered, pending, saved, outbox, writes, minted, issued, now>>
-----------------------------------------------------------------------------
(* The file and the clock.                                                 *)

\* toJSON: what persist() writes of a book.
Book(n) == [offered |-> offered[n], pending |-> pending[n],
            friends |-> friends[n], consumed |-> consumed[n]]

\* Slip: the spent nonces are left out of the file.
BookWithoutNonces(n) == [Book(n) EXCEPT !.consumed = {}]

\* What persist() takes of the book.
Written(n) == Book(n)

\* Saves that send nothing are steps only where a crash may read what they wrote.
Silent(n) ==
    "crash" \in Faults /\ (writes[n] # {} \/ saved[n] # Written(n))

\* A save takes its copy of the book: that of a route that will send ms, or of one
\* that sends nothing, as many do that save all three files.
WriteBegins(n, ms) ==
    /\ writes[n] = {} \/ "overlap" \in Faults
    /\ ms # {} \/ Silent(n)
    /\ writes' = [writes EXCEPT ![n] = @ \cup {[book |-> Written(n), msgs |-> ms]}]
    /\ outbox' = [outbox EXCEPT ![n] = @ \ {ms}]
    /\ UNCHANGED <<bookVars, saved, net, minted, issued, now>>

\* The copy reaches the file, whatever has landed since it was taken, and the route
\* sends what it has to.
WriteLands(n, w) ==
    /\ writes' = [writes EXCEPT ![n] = @ \ {w}]
    /\ saved' = [saved EXCEPT ![n] = w.book]
    /\ net' = net \cup w.msgs
    /\ UNCHANGED <<bookVars, outbox, minted, issued, now>>

\* The daemon dies and boots from the file.
Crash(n) ==
    /\ "crash" \in Faults
    /\ saved[n] # Book(n) \/ outbox[n] # {} \/ writes[n] # {}
    /\ offered' = [offered EXCEPT ![n] = saved[n].offered]
    /\ pending' = [pending EXCEPT ![n] = saved[n].pending]
    /\ friends' = [friends EXCEPT ![n] = saved[n].friends]
    /\ consumed' = [consumed EXCEPT ![n] = saved[n].consumed]
    /\ outbox' = [outbox EXCEPT ![n] = {}]
    /\ writes' = [writes EXCEPT ![n] = {}]
    /\ UNCHANGED <<saved, net, minted, issued, now>>

Tick == /\ now < MaxNow
        /\ now' = now + 1
        /\ UNCHANGED <<bookVars, saved, wireVars, minted, issued>>

EmptyBook == [offered |-> {}, pending |-> [p \in Nodes |-> None],
              friends |-> [p \in Nodes |-> Stranger], consumed |-> {}]

Init ==
    /\ offered = [n \in Nodes |-> EmptyBook.offered]
    /\ pending = [n \in Nodes |-> EmptyBook.pending]
    /\ friends = [n \in Nodes |-> EmptyBook.friends]
    /\ consumed = [n \in Nodes |-> EmptyBook.consumed]
    /\ saved = [n \in Nodes |-> EmptyBook]
    /\ outbox = [n \in Nodes |-> {}]
    /\ writes = [n \in Nodes |-> {}]
    /\ net = {}
    /\ minted = 0
    /\ issued = [t \in Tokens |-> Unissued]
    /\ now = 0

Next ==
    \/ \E n \in Nodes, t \in Tokens : IssueToken(n, t)
    \/ \E n, p \in Nodes : Accept(n, p) \/ IssueRevoke(n, p)
    \/ \E m \in net : Receive(m) \/ Confirm(m) \/ ReceiveRevoke(m)
    \/ \E n \in Nodes : \/ \E ms \in outbox[n] \cup {{}} : WriteBegins(n, ms)
                        \/ \E w \in writes[n] : WriteLands(n, w)
                        \/ Crash(n)
    \/ Tick

Spec == Init /\ [][Next]_vars
-----------------------------------------------------------------------------
(* Properties.                                                             *)

Nonces == Tokens \cup Notices
Friendships == [nonce : Tokens \cup {None}, since : Nat]
Books == [offered : SUBSET Tokens, pending : [Nodes -> Tokens \cup {None}],
          friends : [Nodes -> Friendships], consumed : SUBSET Nonces]
Messages == [kind : {"token"}, ref : Tokens, to : Nodes]
            \cup [kind : {"accept"}, ref : Tokens, from : Nodes, to : Nodes]
            \cup [kind : {"revoke"}, ref : Notices, from : Nodes, to : Nodes, at : Nat]

\* The shape of every book, file and message.
TypeOK ==
    /\ offered \in [Nodes -> SUBSET Tokens]
    /\ pending \in [Nodes -> [Nodes -> Tokens \cup {None}]]
    /\ friends \in [Nodes -> [Nodes -> Friendships]]
    /\ consumed \in [Nodes -> SUBSET Nonces]
    /\ saved \in [Nodes -> Books]
    /\ outbox \in [Nodes -> SUBSET SUBSET Messages]
    /\ writes \in [Nodes -> SUBSET [book : Books, msgs : SUBSET Messages]]
    /\ net \subseteq Messages
    /\ minted \in 0 .. MaxNotices
    /\ issued \in [Tokens -> Nat \cup {Unissued}]
    /\ now \in 0 .. MaxNow

\* A token makes one friendship at a node, however many nodes answer it and
\* however often they do: consumed and the offer's removal (friends.ts, l.
\* 272-276) spend it before anybody else's answer is looked at.
OneFriendPerToken ==
    \A n, p, q \in Nodes :
        friends[n][p].nonce = friends[n][q].nonce /\ p # q
            => friends[n][p] = Stranger

\* A friendship is never news to the other side: a giver has a friend only
\* if that node's file says it used the token, and a receiver only if its
\* giver's file knows the token, whoever crashes when. persist() comes before
\* deliver() in every route of main.ts (l. 751-755, 774-776). Two saves that
\* overlap break it: the older copy may be the one that stays (l. 317-322).
Backed ==
    \A n, p \in Nodes :
        LET t == friends[n][p].nonce IN
        t # None =>
            IF n = Giver[t] THEN t \in saved[p].consumed
            ELSE p = Giver[t] /\ t \in saved[p].offered \cup saved[p].consumed

\* The friendship node n made with token t has ended, and so say n's book, its file
\* and every copy on its way there.
Over(n, t) ==
    \A b \in {Book(n), saved[n]} \cup {w.book : w \in writes[n]} :
        t \in b.consumed /\ \A p \in Nodes : b.friends[p].nonce # t

\* A friendship that ended does not come back: no replayed token or accept, crash,
\* restart or late copy makes one from a spent token ("consumed nonces (replay
\* protection, survives restart)", friends.ts l. 214).
NoRevival == [][\A n \in Nodes, t \in Tokens : Over(n, t) => Over(n, t)']_vars

\* The files of all nodes together implement the abstract handshake.
OffersOnDisk == {t \in Tokens : t \in saved[Giver[t]].offered \cup saved[Giver[t]].consumed}
PhaseOnDisk == [n \in Nodes |-> [t \in Tokens |->
    IF t \notin saved[n].consumed THEN "unused"
    ELSE IF \E p \in Nodes : saved[n].friends[p].nonce = t THEN "friends"
    ELSE "spent"]]
Promise == INSTANCE Handshake WITH offers <- OffersOnDisk, phase <- PhaseOnDisk

\* Seen through its file, each node takes every token forward only, and uses
\* it only when the other side has done its part (friends.ts l. 234-285), as long
\* as no older copy of the book lands on a newer one (main.ts l. 317-322).
ImplementsHandshake == Promise!Spec

\* Nothing is on its way and nothing waits to be sent.
Quiet == net = {} /\ \A n \in Nodes : outbox[n] = {} /\ writes[n] = {}

\* "One token, one accept, mutual result" (docs/phase-two/
\* 04-friending-protocol.md l. 47): as long as nobody revokes, nothing is lost
\* and no token expires, friendship is symmetric once all messages have
\* arrived, in whatever order the two nodes invite and answer each other. The
\* one exception is a code that several nodes answer: accept() makes a
\* friendship before the giver confirms (l. 257), and the giver confirms one.
Mutual ==
    Quiet => \A n, p \in Nodes :
        LET t == friends[n][p].nonce IN
        t # None /\ friends[p][n] = Stranger =>
            p = Giver[t] /\ \E q \in Bearers[t] \ {n, p} : t \in consumed[q]
=============================================================================
