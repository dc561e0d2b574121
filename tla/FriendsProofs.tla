---------------------------- MODULE FriendsProofs ----------------------------
(* Proofs about Friends for every value of its constants. *)
EXTENDS Friends, TLAPS

\* What a message of each kind carries.
LEMMA MessageParts ==
    ASSUME NEW m \in Messages
    PROVE  /\ m.kind = "token" => m.ref \in Tokens /\ m.to \in Nodes
           /\ m.kind = "accept" => m.ref \in Tokens /\ m.from \in Nodes /\ m.to \in Nodes
           /\ m.kind = "revoke" => /\ m.ref \in Notices /\ m.from \in Nodes /\ m.to \in Nodes
                                   /\ m.at \in Nat
BY DEF Messages

\* Messages are made with the parts they need, and clocks are numbers.
LEMMA Made ==
    ASSUME TypeOK, NEW n \in Nodes
    PROVE  /\ Clock(n) \in Nat
           /\ \A t \in Tokens : Invitations(t) \subseteq Messages
           /\ \A t \in Tokens : Acc(t, n) \in Messages
           /\ \A i \in Notices, p \in Nodes : Rev(i, n, p, Clock(n)) \in Messages
<1>1. Clock(n) \in Nat
  BY FriendsAssumption DEF TypeOK, Clock
<1>2. \A t \in Tokens : Invitations(t) \subseteq Messages
  BY FriendsAssumption DEF Invitations, Tok, Messages
<1>3. \A t \in Tokens : Acc(t, n) \in Messages
  BY FriendsAssumption DEF Acc, Messages
<1>4. \A i \in Notices, p \in Nodes : Rev(i, n, p, Clock(n)) \in Messages
  BY <1>1 DEF Rev, Messages
<1>5. QED
  BY <1>1, <1>2, <1>3, <1>4

\* A message that is delivered may stay on its way; none is added.
LEMMA DeliverType ==
    ASSUME TypeOK, NEW m, NEW kind, Inbound(m, kind)
    PROVE  net' \subseteq Messages /\ m \in Messages /\ m.kind = kind
BY DEF TypeOK, Inbound, Deliver

\* A route's messages wait in the outbox.
LEMMA OutboxType ==
    ASSUME TypeOK, NEW n \in Nodes, NEW ms \in SUBSET Messages, SendOnceSaved(n, ms)
    PROVE  outbox' \in [Nodes -> SUBSET SUBSET Messages] /\ UNCHANGED <<writes, net>>
BY DEF TypeOK, SendOnceSaved

\* One entry of a table of pairs changes.
LEMMA PairType ==
    ASSUME NEW S, NEW f \in [Nodes -> [Nodes -> S]], NEW n \in Nodes, NEW p \in Nodes, NEW x \in S
    PROVE  [f EXCEPT ![n][p] = x] \in [Nodes -> [Nodes -> S]]
OBVIOUS

\* A book is of the shape of the file.
LEMMA BookType == TypeOK => \A n \in Nodes : Book(n) \in Books
BY DEF TypeOK, Book, Books

\* Each step keeps the types.
LEMMA TypeStep == TypeOK /\ [Next]_vars => TypeOK'
<1> SUFFICES ASSUME TypeOK, [Next]_vars PROVE TypeOK'
  OBVIOUS
<1>1. ASSUME NEW n \in Nodes, NEW t \in Tokens, IssueToken(n, t) PROVE TypeOK'
  <2>1. outbox' \in [Nodes -> SUBSET SUBSET Messages] /\ UNCHANGED <<writes, net>>
    BY <1>1, Made, OutboxType DEF IssueToken
  <2>2. offered' \in [Nodes -> SUBSET Tokens]
    BY <1>1 DEF TypeOK, IssueToken
  <2>3. issued' \in [Tokens -> Nat \cup {Unissued}]
    BY <1>1, Made DEF TypeOK, IssueToken
  <2>4. QED
    BY <1>1, <2>1, <2>2, <2>3 DEF TypeOK, IssueToken
<1>2. ASSUME NEW n \in Nodes, NEW p \in Nodes, Accept(n, p) PROVE TypeOK'
  <2>1. pending[n][p] \in Tokens
    BY <1>2 DEF TypeOK, Accept
  <2>2. outbox' \in [Nodes -> SUBSET SUBSET Messages] /\ UNCHANGED <<writes, net>>
    BY <1>2, <2>1, Made, OutboxType DEF Accept
  <2>3. pending' \in [Nodes -> [Nodes -> Tokens \cup {None}]]
    BY <1>2 DEF TypeOK, Accept
  <2>4. consumed' \in [Nodes -> SUBSET Nonces]
    BY <1>2, <2>1 DEF TypeOK, Accept, Nonces
  <2>5. [nonce |-> pending[n][p], since |-> Clock(n)] \in Friendships
    BY <2>1, Made DEF Friendships
  <2>6. friends' \in [Nodes -> [Nodes -> Friendships]]
    BY <1>2, <2>5 DEF TypeOK, Accept
  <2>7. QED
    BY <1>2, <2>2, <2>3, <2>4, <2>6 DEF TypeOK, Accept
<1>3. ASSUME NEW n \in Nodes, NEW p \in Nodes, IssueRevoke(n, p) PROVE TypeOK'
  <2>1. minted' \in 0 .. MaxNotices /\ minted' \in Notices
    BY <1>3, FriendsAssumption DEF TypeOK, IssueRevoke, Notices
  <2>2. outbox' \in [Nodes -> SUBSET SUBSET Messages] /\ UNCHANGED <<writes, net>>
    BY <1>3, <2>1, Made, OutboxType DEF IssueRevoke
  <2>3. friends' \in [Nodes -> [Nodes -> Friendships]]
    BY <1>3 DEF TypeOK, IssueRevoke, Stranger, Friendships
  <2>4. QED
    BY <1>3, <2>1, <2>2, <2>3 DEF TypeOK, IssueRevoke
<1>4. ASSUME NEW m \in net, Receive(m) PROVE TypeOK'
  <2>1. net' \subseteq Messages /\ m.ref \in Tokens /\ m.to \in Nodes
    BY <1>4, DeliverType, MessageParts DEF Receive
  <2>2. pending' \in [Nodes -> [Nodes -> Tokens \cup {None}]]
    BY <1>4, <2>1 DEF TypeOK, Receive
  <2>3. QED
    BY <1>4, <2>1, <2>2 DEF TypeOK, Receive
<1>5. ASSUME NEW m \in net, Confirm(m) PROVE TypeOK'
  <2>1. net' \subseteq Messages /\ m.ref \in Tokens /\ m.to \in Nodes /\ m.from \in Nodes
    BY <1>5, DeliverType, MessageParts DEF Confirm
  <2>2. CASE Confirmable(m.to, m.ref)
    <3>1. Confirmed(m.to, m.from, m.ref)
      BY <1>5, <2>2 DEF Confirm
    <3>2. offered' \in [Nodes -> SUBSET Tokens] /\ consumed' \in [Nodes -> SUBSET Nonces]
      BY <2>1, <3>1 DEF TypeOK, Confirmed, Nonces
    <3>3. [nonce |-> m.ref, since |-> Clock(m.to)] \in Friendships
      BY <2>1, Made DEF Friendships
    <3>4. friends' \in [Nodes -> [Nodes -> Friendships]]
      BY <2>1, <3>1, <3>3 DEF TypeOK, Confirmed
    <3>5. QED
      BY <1>5, <2>1, <3>2, <3>4 DEF TypeOK, Confirm
  <2>3. CASE ~Confirmable(m.to, m.ref)
    BY <1>5, <2>1, <2>3 DEF TypeOK, Confirm
  <2>4. QED
    BY <2>2, <2>3
<1>6. ASSUME NEW m \in net, ReceiveRevoke(m) PROVE TypeOK'
  <2>1. net' \subseteq Messages /\ m.ref \in Notices /\ m.to \in Nodes /\ m.from \in Nodes
    BY <1>6, DeliverType, MessageParts DEF ReceiveRevoke
  <2>2. consumed' \in [Nodes -> SUBSET Nonces]
    <3>1. consumed' = consumed \/ consumed' = [consumed EXCEPT ![m.to] = @ \cup {m.ref}]
      BY <1>6 DEF ReceiveRevoke
    <3>2. consumed \in [Nodes -> SUBSET Nonces] /\ m.ref \in Nonces
      BY <2>1 DEF TypeOK, Nonces
    <3>3. QED
      BY <2>1, <3>1, <3>2
  <2>3. friends' \in [Nodes -> [Nodes -> Friendships]]
    <3>1. Stranger \in Friendships
      BY DEF Stranger, Friendships
    <3>2. \/ friends' = [friends EXCEPT ![m.to][m.from] = Stranger]
          \/ friends' = friends
      BY <1>6 DEF ReceiveRevoke
    <3>3. friends \in [Nodes -> [Nodes -> Friendships]]
      BY DEF TypeOK
    <3>4. [friends EXCEPT ![m.to][m.from] = Stranger] \in [Nodes -> [Nodes -> Friendships]]
      BY <2>1, <3>1, <3>3, PairType
    <3>5. QED
      BY <3>2, <3>3, <3>4
  <2>4. QED
    BY <1>6, <2>1, <2>2, <2>3 DEF TypeOK, ReceiveRevoke
<1>7. ASSUME NEW n \in Nodes, NEW ms \in outbox[n] \cup {{}}, WriteBegins(n, ms) PROVE TypeOK'
  <2>1. ms \in SUBSET Messages
    BY DEF TypeOK
  <2>2. [book |-> Book(n), msgs |-> ms] \in [book : Books, msgs : SUBSET Messages]
    BY <2>1, BookType
  <2>3. writes' \in [Nodes -> SUBSET [book : Books, msgs : SUBSET Messages]]
    BY <1>7, <2>2 DEF TypeOK, WriteBegins, Written
  <2>4. outbox' \in [Nodes -> SUBSET SUBSET Messages]
    BY <1>7 DEF TypeOK, WriteBegins
  <2>5. QED
    BY <1>7, <2>3, <2>4 DEF TypeOK, WriteBegins, bookVars
<1>12. ASSUME NEW n \in Nodes, NEW w \in writes[n], WriteLands(n, w) PROVE TypeOK'
  <2>1. w \in [book : Books, msgs : SUBSET Messages]
    BY DEF TypeOK
  <2>2. w.book \in Books /\ w.msgs \subseteq Messages
    BY <2>1
  <2>3. /\ writes' \in [Nodes -> SUBSET [book : Books, msgs : SUBSET Messages]]
        /\ saved' \in [Nodes -> Books] /\ net' \subseteq Messages
    BY <1>12, <2>2 DEF TypeOK, WriteLands
  <2>4. QED
    BY <1>12, <2>3 DEF TypeOK, WriteLands, bookVars
<1>8. ASSUME NEW n \in Nodes, Crash(n) PROVE TypeOK'
  <2>1. saved[n] \in Books
    BY DEF TypeOK
  <2>2. /\ saved[n].offered \in SUBSET Tokens /\ saved[n].consumed \in SUBSET Nonces
        /\ saved[n].pending \in [Nodes -> Tokens \cup {None}]
        /\ saved[n].friends \in [Nodes -> Friendships]
    BY <2>1 DEF Books
  <2>3. QED
    BY <1>8, <2>2 DEF TypeOK, Crash
<1>9. CASE Tick
  BY <1>9, FriendsAssumption DEF TypeOK, Tick, bookVars, wireVars
<1>10. CASE UNCHANGED vars
  BY <1>10 DEF TypeOK, vars, bookVars, wireVars
<1>11. QED
  BY <1>1, <1>2, <1>3, <1>4, <1>5, <1>6, <1>7, <1>8, <1>9, <1>10, <1>12 DEF Next

\* Nobody knows anybody at the start, and nothing is under way.
LEMMA TypeInit == Init => TypeOK
BY FriendsAssumption
   DEF Init, TypeOK, EmptyBook, Books, Friendships, Stranger, Unissued

\* Books, files and messages keep their shape (friends.ts:40-91, 210-226).
THEOREM TypeCorrect == Spec => []TypeOK
BY TypeInit, TypeStep, PTL DEF Spec
-----------------------------------------------------------------------------
(* The invariant behind the properties. K stands for the tokens whose giver *)
(* knows them in its file, U for the nonces each node's file has as spent.  *)

\* A book's offers are its own node's.
OwnOffers(n, b) == \A t \in b.offered : Giver[t] = n

\* An invitation waits under its giver's name, unspent, and the giver's file knows it.
Invited(n, b, K) ==
    \A g \in Nodes : LET t == b.pending[g] IN
        t # None => Giver[t] = g /\ g # n /\ t \notin b.consumed /\ t \in K

\* A friendship has a spent token of its own, and the other side's file knows.
Befriended(n, b, K, U) ==
    \A p \in Nodes : LET t == b.friends[p].nonce IN
        IF t = None THEN b.friends[p] = Stranger
        ELSE /\ t \in b.consumed
             /\ \A q \in Nodes : b.friends[q].nonce = t => q = p
             /\ IF n = Giver[t] THEN t \in U[p] ELSE p = Giver[t] /\ t \in K

\* A token was spent after the other side had done its part.
Earned(n, b, K, U) ==
    \A t \in Tokens \cap b.consumed :
        IF n = Giver[t] THEN \E p \in Nodes \ {n} : t \in U[p] ELSE t \in K

BookGood(n, b, K, U) ==
    OwnOffers(n, b) /\ Invited(n, b, K) /\ Befriended(n, b, K, U) /\ Earned(n, b, K, U)

\* The book b may become the book c: nothing it knew is forgotten, and no spent
\* token makes a friendship again.
Follows(b, c) ==
    /\ b.consumed \subseteq c.consumed
    /\ b.offered \subseteq c.offered \cup c.consumed
    /\ \A t \in b.consumed \cap Tokens, p \in Nodes :
          c.friends[p].nonce = t => \E q \in Nodes : b.friends[q].nonce = t

\* What a message that waits for the save says is in the book it is saved with.
Sendable(n, b, m) ==
    /\ m.kind = "token" => m.ref \in b.offered \cup b.consumed /\ Giver[m.ref] = n
    /\ m.kind = "accept" => m.from = n /\ m.ref \in b.consumed /\ n # Giver[m.ref]

\* What a message on its way says is in its sender's file.
Sent(m, K, U) ==
    /\ m.kind = "token" => m.ref \in K
    /\ m.kind = "accept" => m.ref \in U[m.from] /\ m.from # Giver[m.ref]

\* No node writes its file twice at a time.
WritesApart == \A n \in Nodes : \A v, w \in writes[n] : v = w

SpentOnDisk == [p \in Nodes |-> saved[p].consumed]

\* What the files say where a node's writes stay apart; where they may not, a file
\* may fall back, and all that is left to say of a token is that it is one.
Known(a) == IF a THEN OffersOnDisk ELSE Tokens
SpentKnown(a) == IF a THEN SpentOnDisk ELSE [p \in Nodes |-> Nonces]

\* What is known of a node: of its file, its book, the writes under way and the
\* messages that wait for one.
NodeGood(n, a) ==
    /\ BookGood(n, saved[n], Known(a), SpentKnown(a))
    /\ BookGood(n, Book(n), Known(a), SpentKnown(a))
    /\ \A w \in writes[n] : /\ BookGood(n, w.book, Known(a), SpentKnown(a))
                           /\ \A m \in w.msgs : Sendable(n, w.book, m)
    /\ \A ms \in outbox[n] : \A m \in ms : Sendable(n, Book(n), m)
    /\ a => /\ Follows(saved[n], Book(n))
            /\ \A w \in writes[n] : Follows(saved[n], w.book) /\ Follows(w.book, Book(n))

\* a says whether the writes of each node stay apart.
Inv(a) ==
    /\ TypeOK
    /\ \A n \in Nodes : NodeGood(n, a)
    /\ \A m \in net : Sent(m, Known(a), SpentKnown(a))

\* What a step does to a node: its book grows or is the file's again, and whatever
\* the file and the writes under way have, they have from the book.
Moves(n) ==
    /\ Follows(Book(n), Book(n)') \/ Book(n)' = saved[n]
    /\ saved'[n] \in {saved[n]} \cup {w.book : w \in writes[n]}
    /\ \A w \in writes'[n] : w.book \in {Book(n)} \cup {v.book : v \in writes[n]}
-----------------------------------------------------------------------------
(* How the parts move.                                                     *)

\* What was on disk stays on disk: more known offers and spent nonces do no harm.
LEMMA BookMonotone ==
    ASSUME NEW n \in Nodes, NEW b \in Books, NEW K, NEW L, NEW U, NEW V,
           BookGood(n, b, K, U), K \subseteq L, \A p \in Nodes : U[p] \subseteq V[p]
    PROVE  BookGood(n, b, L, V)
<1>1. Invited(n, b, L)
  BY DEF BookGood, Invited
<1>2. Befriended(n, b, L, V)
  BY DEF BookGood, Befriended
<1>3. Earned(n, b, L, V)
  BY DEF BookGood, Earned
<1>4. QED
  BY <1>1, <1>2, <1>3 DEF BookGood

\* What was sent for in an earlier file was sent for in a later one.
LEMMA SentMonotone ==
    ASSUME NEW m \in Messages, NEW K, NEW L, NEW U, NEW V,
           Sent(m, K, U), K \subseteq L, \A p \in Nodes : U[p] \subseteq V[p]
    PROVE  Sent(m, L, V)
BY MessageParts DEF Sent

\* A book follows itself.
LEMMA FollowsSelf == \A b \in Books : Follows(b, b)
BY DEF Follows

\* A book follows all the books it grew from.
LEMMA FollowsTransitive ==
    ASSUME NEW a \in Books, NEW b \in Books, NEW c \in Books, Follows(a, b), Follows(b, c)
    PROVE  Follows(a, c)
BY DEF Follows

\* A message that may be sent with a book may be sent with every later one.
LEMMA SendableMonotone ==
    ASSUME NEW n \in Nodes, NEW b \in Books, NEW c \in Books, NEW m \in Messages,
           Sendable(n, b, m), Follows(b, c)
    PROVE  Sendable(n, c, m)
BY DEF Sendable, Follows

\* A step that changes the book of one node in memory, leaves messages to send
\* for when it is saved, and takes messages off the network or leaves them there.
LEMMA BookStep ==
    ASSUME NEW a \in BOOLEAN, Inv(a), TypeOK', NEW n \in Nodes, UNCHANGED <<saved, writes>>,
           \A k \in Nodes \ {n} : Book(k)' = Book(k),
           BookGood(n, Book(n)', Known(a), SpentKnown(a)),
           Follows(Book(n), Book(n)'),
           \A k \in Nodes : \A ms \in outbox'[k] :
               ms \in outbox[k] \/ \A m \in ms : Sendable(k, Book(k)', m),
           net' \subseteq net
    PROVE  Inv(a)' /\ \A k \in Nodes : Moves(k)
<1>1. TypeOK /\ \A k \in Nodes : Book(k) \in Books /\ saved[k] \in Books
  BY BookType DEF Inv, TypeOK
<1>2. \A k \in Nodes : Book(k)' \in Books
  BY DEF TypeOK, Book, Books
<1>3. Known(a)' = Known(a) /\ SpentKnown(a)' = SpentKnown(a)
  BY DEF Known, SpentKnown, OffersOnDisk, SpentOnDisk
<1>4. ASSUME NEW k \in Nodes PROVE Follows(Book(k), Book(k)')
  BY <1>1, FollowsSelf
<1>5. ASSUME NEW k \in Nodes PROVE NodeGood(k, a)'
  <2>1. NodeGood(k, a)
    BY DEF Inv
  <2>2. BookGood(k, Book(k)', Known(a), SpentKnown(a))
    BY <2>1 DEF NodeGood
  <2>3. ASSUME NEW ms \in outbox'[k], NEW m \in ms PROVE Sendable(k, Book(k)', m)
    <3>1. CASE ms \in outbox[k]
      <4>1. m \in Messages /\ Sendable(k, Book(k), m)
        BY <1>1, <2>1, <3>1 DEF NodeGood, TypeOK
      <4>2. QED
        BY <1>1, <1>2, <1>4, <4>1, SendableMonotone
    <3>2. QED
      BY <3>1
  <2>4. ASSUME NEW b \in Books, Follows(b, Book(k)) PROVE Follows(b, Book(k)')
    BY <1>1, <1>2, <1>4, <2>4, FollowsTransitive
  <2>5. \A w \in writes[k] : w.book \in Books
    BY <1>1 DEF TypeOK
  <2>6. a => /\ Follows(saved[k], Book(k)')
            /\ \A w \in writes[k] : Follows(saved[k], w.book) /\ Follows(w.book, Book(k)')
    BY <1>1, <2>1, <2>4, <2>5 DEF NodeGood
  <2>7. saved' = saved /\ writes' = writes
    OBVIOUS
  <2>8. /\ BookGood(k, saved[k], Known(a), SpentKnown(a))
        /\ \A w \in writes[k] : /\ BookGood(k, w.book, Known(a), SpentKnown(a))
                               /\ \A m \in w.msgs : Sendable(k, w.book, m)
    BY <2>1 DEF NodeGood
  <2>9. QED
    BY <1>3, <2>2, <2>3, <2>6, <2>7, <2>8 DEF NodeGood
<1>8. ASSUME NEW m \in net' PROVE Sent(m, Known(a), SpentKnown(a))
  BY DEF Inv
<1>9. \A k \in Nodes : Moves(k)
  BY <1>4 DEF Moves
<1>10. QED
  BY <1>3, <1>5, <1>8, <1>9 DEF Inv
-----------------------------------------------------------------------------
(* What each operation does to a book, as a pair of books.                 *)

\* issueToken().
LEMMA BookOffers ==
    ASSUME NEW n \in Nodes, NEW b \in Books, NEW c \in Books, NEW K, NEW U,
           NEW t \in Tokens, BookGood(n, b, K, U), Giver[t] = n,
           c.offered = b.offered \cup {t}, c.pending = b.pending,
           c.friends = b.friends, c.consumed = b.consumed
    PROVE  BookGood(n, c, K, U) /\ Follows(b, c)
<1>1. OwnOffers(n, c) /\ Invited(n, c, K)
  BY DEF BookGood, OwnOffers, Invited
<1>2. Befriended(n, c, K, U) /\ Earned(n, c, K, U)
  BY DEF BookGood, Befriended, Earned
<1>3. Follows(b, c)
  BY DEF Follows
<1>4. QED
  BY <1>1, <1>2, <1>3 DEF BookGood

\* receive().
LEMMA BookInvites ==
    ASSUME NEW n \in Nodes, NEW b \in Books, NEW c \in Books, NEW K, NEW U,
           NEW t \in Tokens, BookGood(n, b, K, U),
           n # Giver[t], t \notin b.consumed, t \in K,
           c.pending = [b.pending EXCEPT ![Giver[t]] = t],
           c.offered = b.offered, c.friends = b.friends, c.consumed = b.consumed
    PROVE  BookGood(n, c, K, U) /\ Follows(b, c)
<1>1. OwnOffers(n, c)
  BY DEF BookGood, OwnOffers
<1>2. Invited(n, c, K)
  BY DEF BookGood, Invited, Books
<1>3. Befriended(n, c, K, U) /\ Earned(n, c, K, U)
  BY DEF BookGood, Befriended, Earned
<1>4. Follows(b, c)
  BY DEF Follows
<1>5. QED
  BY <1>1, <1>2, <1>3, <1>4 DEF BookGood

\* accept(): the invitation was unspent, so no friendship has its token.
LEMMA BookAccepts ==
    ASSUME NEW n \in Nodes, NEW b \in Books, NEW c \in Books, NEW K, NEW U,
           NEW g \in Nodes, NEW x, BookGood(n, b, K, U), b.pending[g] # None,
           c.pending = [b.pending EXCEPT ![g] = None],
           c.consumed = b.consumed \cup {b.pending[g]},
           c.friends = [b.friends EXCEPT ![g] = [nonce |-> b.pending[g], since |-> x]],
           c.offered = b.offered
    PROVE  BookGood(n, c, K, U) /\ Follows(b, c)
<1> DEFINE t == b.pending[g]
<1>1. /\ b.pending \in [Nodes -> Tokens \cup {None}]
      /\ b.friends \in [Nodes -> Friendships]
  BY DEF Books
<1>2. /\ t \in Tokens /\ Giver[t] = g /\ g # n /\ t \notin b.consumed /\ t \in K
  BY <1>1 DEF BookGood, Invited
<1>3. \A q \in Nodes : b.friends[q].nonce # t
  BY <1>2, FriendsAssumption DEF BookGood, Befriended
<1>4. /\ c.friends[g].nonce = t
      /\ \A q \in Nodes \ {g} : c.friends[q] = b.friends[q]
  BY <1>1
<1>5. OwnOffers(n, c)
  BY DEF BookGood, OwnOffers
<1>6. Invited(n, c, K)
  BY <1>1, <1>2 DEF BookGood, Invited
<1>7. Befriended(n, c, K, U)
  BY <1>2, <1>3, <1>4, FriendsAssumption DEF BookGood, Befriended
<1>8. Earned(n, c, K, U)
  BY <1>2 DEF BookGood, Earned
<1>9. Follows(b, c)
  BY <1>2, <1>4 DEF Follows
<1>10. QED
  BY <1>5, <1>6, <1>7, <1>8, <1>9 DEF BookGood

\* confirm(): the offer was open and its nonce unspent, so no friendship has it.
LEMMA BookConfirms ==
    ASSUME NEW n \in Nodes, NEW b \in Books, NEW c \in Books, NEW K, NEW U,
           NEW t \in Tokens, NEW p \in Nodes, NEW x, BookGood(n, b, K, U),
           t \in b.offered, t \notin b.consumed, t \in U[p], p # n,
           c.offered = b.offered \ {t}, c.consumed = b.consumed \cup {t},
           c.friends = [b.friends EXCEPT ![p] = [nonce |-> t, since |-> x]],
           c.pending = b.pending
    PROVE  BookGood(n, c, K, U) /\ Follows(b, c)
<1>1. Giver[t] = n
  BY DEF BookGood, OwnOffers
<1>2. \A q \in Nodes : b.friends[q].nonce # t
  BY FriendsAssumption DEF BookGood, Befriended
<1>3. b.friends \in [Nodes -> Friendships]
  BY DEF Books
<1>4. /\ c.friends[p].nonce = t
      /\ \A q \in Nodes \ {p} : c.friends[q] = b.friends[q]
  BY <1>3
<1>5. OwnOffers(n, c)
  BY DEF BookGood, OwnOffers
<1>6. Invited(n, c, K)
  BY <1>1 DEF BookGood, Invited
<1>7. Befriended(n, c, K, U)
  BY <1>1, <1>2, <1>4, FriendsAssumption DEF BookGood, Befriended
<1>8. Earned(n, c, K, U)
  BY <1>1 DEF BookGood, Earned
<1>9. Follows(b, c)
  BY <1>4 DEF Follows
<1>10. QED
  BY <1>5, <1>6, <1>7, <1>8, <1>9 DEF BookGood

\* revoke() and receiveRevoke(): a friendship ends, a notice may be spent.
LEMMA BookForgets ==
    ASSUME NEW n \in Nodes, NEW b \in Books, NEW c \in Books, NEW K, NEW U,
           NEW p \in Nodes, NEW X, X \cap Tokens = {}, BookGood(n, b, K, U),
           c.friends = [b.friends EXCEPT ![p] = Stranger],
           c.consumed = b.consumed \cup X,
           c.offered = b.offered, c.pending = b.pending
    PROVE  BookGood(n, c, K, U) /\ Follows(b, c)
<1>1. /\ b.friends \in [Nodes -> Friendships]
      /\ b.pending \in [Nodes -> Tokens \cup {None}]
  BY DEF Books
<1>2. /\ c.friends[p] = Stranger /\ Stranger.nonce = None
      /\ \A q \in Nodes \ {p} : c.friends[q] = b.friends[q]
  BY <1>1 DEF Stranger
<1>3. OwnOffers(n, c)
  BY DEF BookGood, OwnOffers
<1>4. Invited(n, c, K)
  BY <1>1 DEF BookGood, Invited
<1>5. Befriended(n, c, K, U)
  BY <1>2 DEF BookGood, Befriended
<1>6. Earned(n, c, K, U)
  BY DEF BookGood, Earned
<1>7. Follows(b, c)
  BY <1>2, FriendsAssumption DEF Follows
<1>8. QED
  BY <1>3, <1>4, <1>5, <1>6, <1>7 DEF BookGood
-----------------------------------------------------------------------------
(* The invariant holds.                                                    *)

\* The invariant holds at the start, where all books are empty.
LEMMA InvInit == \A a \in BOOLEAN : Init => Inv(a)
<1> SUFFICES ASSUME NEW a \in BOOLEAN, Init PROVE Inv(a)
  OBVIOUS
<1>1. TypeOK
  BY TypeInit
<1>2. \A n \in Nodes : Book(n) = EmptyBook /\ saved[n] = EmptyBook
  BY DEF Init, Book, EmptyBook
<1>3. \A n \in Nodes : \A K, U : BookGood(n, EmptyBook, K, U)
  BY DEF BookGood, OwnOffers, Invited, Befriended, Earned, EmptyBook, Stranger
<1>4. Follows(EmptyBook, EmptyBook)
  BY DEF Follows, EmptyBook
<1>5. net = {} /\ \A n \in Nodes : outbox[n] = {} /\ writes[n] = {}
  BY DEF Init
<1>6. \A n \in Nodes : NodeGood(n, a)
  BY <1>2, <1>3, <1>4, <1>5 DEF NodeGood
<1>7. QED
  BY <1>1, <1>5, <1>6 DEF Inv

\* What the invariant says of one node.
LEMMA InvParts ==
    ASSUME NEW a \in BOOLEAN, Inv(a), NEW n \in Nodes
    PROVE  /\ TypeOK /\ Book(n) \in Books /\ saved[n] \in Books
           /\ BookGood(n, saved[n], Known(a), SpentKnown(a))
           /\ BookGood(n, Book(n), Known(a), SpentKnown(a))
           /\ a => Follows(saved[n], Book(n))
           /\ \A ms \in outbox[n] : ms \subseteq Messages /\ \A m \in ms : Sendable(n, Book(n), m)
<1>1. TypeOK /\ NodeGood(n, a)
  BY DEF Inv
<1>2. Book(n) \in Books /\ saved[n] \in Books /\ outbox[n] \subseteq SUBSET Messages
  BY <1>1, BookType DEF TypeOK
<1>3. QED
  BY <1>1, <1>2 DEF NodeGood

\* What the invariant says of a write under way.
LEMMA WriteParts ==
    ASSUME NEW a \in BOOLEAN, Inv(a), NEW n \in Nodes, NEW w \in writes[n]
    PROVE  /\ w.book \in Books /\ w.msgs \subseteq Messages
           /\ BookGood(n, w.book, Known(a), SpentKnown(a))
           /\ \A m \in w.msgs : Sendable(n, w.book, m)
           /\ a => Follows(saved[n], w.book) /\ Follows(w.book, Book(n))
<1>1. TypeOK /\ NodeGood(n, a)
  BY DEF Inv
<1>2. w \in [book : Books, msgs : SUBSET Messages]
  BY <1>1 DEF TypeOK
<1>3. QED
  BY <1>1, <1>2 DEF NodeGood

\* A message a route leaves to send; the other outboxes stay as they are.
LEMMA Posted ==
    ASSUME TypeOK, NEW n \in Nodes, NEW ms \in SUBSET Messages, SendOnceSaved(n, ms),
           \A m \in ms : Sendable(n, Book(n)', m)
    PROVE  /\ \A k \in Nodes : \A batch \in outbox'[k] :
               batch \in outbox[k] \/ \A m \in batch : Sendable(k, Book(k)', m)
           /\ net' \subseteq net /\ UNCHANGED writes
<1>1. outbox' = [outbox EXCEPT ![n] = @ \cup {ms}] /\ UNCHANGED <<writes, net>>
  BY DEF SendOnceSaved
<1>2. outbox'[n] = outbox[n] \cup {ms} /\ \A k \in Nodes \ {n} : outbox'[k] = outbox[k]
  BY <1>1 DEF TypeOK
<1>3. QED
  BY <1>1, <1>2

\* A message comes in.
LEMMA TakenIn ==
    ASSUME NEW a \in BOOLEAN, Inv(a), NEW m, NEW kind, Inbound(m, kind)
    PROVE  /\ net' \subseteq net /\ m \in Messages /\ m.kind = kind
           /\ Sent(m, Known(a), SpentKnown(a))
BY DEF Inv, TypeOK, Inbound, Deliver

\* POST /api/friends/token: a new offer, and its code for whoever gets it.
LEMMA StepIssueToken ==
    ASSUME NEW a \in BOOLEAN, Inv(a), TypeOK', NEW n \in Nodes, NEW t \in Tokens, IssueToken(n, t)
    PROVE  Inv(a)' /\ \A k \in Nodes : Moves(k)
<1>1. Book(n)' \in Books
  BY DEF TypeOK, Book, Books
<1>2. /\ Book(n)'.offered = Book(n).offered \cup {t} /\ Book(n)'.pending = Book(n).pending
      /\ Book(n)'.friends = Book(n).friends /\ Book(n)'.consumed = Book(n).consumed
  BY InvParts DEF TypeOK, IssueToken, Book
<1>3. Giver[t] = n
  BY DEF IssueToken
<1>4. /\ BookGood(n, Book(n)', Known(a), SpentKnown(a))
      /\ Follows(Book(n), Book(n)')
  BY <1>1, <1>2, <1>3, InvParts, BookOffers
<1>5. \A m \in Invitations(t) : Sendable(n, Book(n)', m)
  BY <1>2, <1>3 DEF Invitations, Tok, Sendable
<1>6. TypeOK /\ Invitations(t) \subseteq Messages
  BY InvParts, Made
<1>7. /\ \A k \in Nodes : \A ms \in outbox'[k] :
             ms \in outbox[k] \/ \A m \in ms : Sendable(k, Book(k)', m)
      /\ net' \subseteq net /\ UNCHANGED writes
  BY <1>5, <1>6, Posted DEF IssueToken
<1>8. \A k \in Nodes \ {n} : Book(k)' = Book(k)
  BY <1>6 DEF TypeOK, IssueToken, Book
<1>9. UNCHANGED saved
  BY DEF IssueToken
<1>10. QED
  BY <1>4, <1>7, <1>8, <1>9, BookStep

\* POST /api/friends/accept: a friend, and the accept for the giver.
LEMMA StepAccept ==
    ASSUME NEW a \in BOOLEAN, Inv(a), TypeOK', NEW n \in Nodes, NEW g \in Nodes, Accept(n, g)
    PROVE  Inv(a)' /\ \A k \in Nodes : Moves(k)
<1> DEFINE t == pending[n][g]
<1>1. Book(n)' \in Books
  BY DEF TypeOK, Book, Books
<1>2. TypeOK /\ t \in Tokens
  BY InvParts DEF TypeOK, Accept
<1>3. /\ Book(n).pending[g] = t /\ t # None
      /\ Book(n)'.pending = [Book(n).pending EXCEPT ![g] = None]
      /\ Book(n)'.consumed = Book(n).consumed \cup {t}
      /\ Book(n)'.friends = [Book(n).friends EXCEPT ![g] = [nonce |-> t, since |-> Clock(n)]]
      /\ Book(n)'.offered = Book(n).offered
  BY <1>2 DEF TypeOK, Accept, Book
<1>4. /\ BookGood(n, Book(n)', Known(a), SpentKnown(a))
      /\ Follows(Book(n), Book(n)')
  <2> DEFINE b == Book(n)
             c == Book(n)'
  <2>1. /\ b \in Books /\ c \in Books
        /\ BookGood(n, b, Known(a), SpentKnown(a))
    BY <1>1, InvParts
  <2>2. /\ b.pending[g] # None /\ c.pending = [b.pending EXCEPT ![g] = None]
        /\ c.consumed = b.consumed \cup {b.pending[g]}
        /\ c.friends = [b.friends EXCEPT ![g] = [nonce |-> b.pending[g], since |-> Clock(n)]]
        /\ c.offered = b.offered
    BY <1>3
  <2> HIDE DEF b, c
  <2>3. BookGood(n, c, Known(a), SpentKnown(a)) /\ Follows(b, c)
    BY <2>1, <2>2, BookAccepts
  <2>4. QED
    BY <2>3 DEF b, c
<1>5. n # Giver[t]
  BY <1>3, InvParts DEF BookGood, Invited
<1>6. Acc(t, n) \in Messages /\ Sendable(n, Book(n)', Acc(t, n))
  BY <1>2, <1>3, <1>5, Made DEF Acc, Sendable
<1>7. /\ \A k \in Nodes : \A ms \in outbox'[k] :
             ms \in outbox[k] \/ \A m \in ms : Sendable(k, Book(k)', m)
      /\ net' \subseteq net /\ UNCHANGED writes
  BY <1>2, <1>6, Posted DEF Accept
<1>8. \A k \in Nodes \ {n} : Book(k)' = Book(k)
  BY <1>2 DEF TypeOK, Accept, Book
<1>9. UNCHANGED saved
  BY DEF Accept
<1>10. QED
  BY <1>4, <1>7, <1>8, <1>9, BookStep

\* POST /api/friends/revoke: a friend less, and a notice to it.
LEMMA StepIssueRevoke ==
    ASSUME NEW a \in BOOLEAN, Inv(a), TypeOK', NEW n \in Nodes, NEW p \in Nodes, IssueRevoke(n, p)
    PROVE  Inv(a)' /\ \A k \in Nodes : Moves(k)
<1>1. Book(n)' \in Books
  BY DEF TypeOK, Book, Books
<1>2. TypeOK
  BY InvParts
<1>3. /\ Book(n)'.friends = [Book(n).friends EXCEPT ![p] = Stranger]
      /\ Book(n)'.consumed = Book(n).consumed \cup {}
      /\ Book(n)'.offered = Book(n).offered /\ Book(n)'.pending = Book(n).pending
  BY <1>2 DEF TypeOK, IssueRevoke, Book
<1>4. /\ BookGood(n, Book(n)', Known(a), SpentKnown(a))
      /\ Follows(Book(n), Book(n)')
  <2>1. {} \cap Tokens = {}
    OBVIOUS
  <2>2. QED
    BY <1>1, <1>3, <2>1, InvParts, BookForgets
<1>5. minted' \in Notices
  BY <1>2, FriendsAssumption DEF TypeOK, IssueRevoke, Notices
<1>6. /\ Rev(minted', n, p, Clock(n)) \in Messages
      /\ Sendable(n, Book(n)', Rev(minted', n, p, Clock(n)))
  BY <1>2, <1>5, Made DEF Rev, Sendable
<1>7. /\ \A k \in Nodes : \A ms \in outbox'[k] :
             ms \in outbox[k] \/ \A m \in ms : Sendable(k, Book(k)', m)
      /\ net' \subseteq net /\ UNCHANGED writes
  BY <1>2, <1>6, Posted DEF IssueRevoke
<1>8. \A k \in Nodes \ {n} : Book(k)' = Book(k)
  BY <1>2 DEF TypeOK, IssueRevoke, Book
<1>9. UNCHANGED saved
  BY DEF IssueRevoke
<1>10. QED
  BY <1>4, <1>7, <1>8, <1>9, BookStep

\* A message comes in and the book of its addressee stays as it is.
LEMMA BooksStay ==
    ASSUME NEW a \in BOOLEAN, Inv(a), TypeOK', UNCHANGED <<bookVars, saved, outbox, writes>>, net' \subseteq net,
           Nodes # {}
    PROVE  Inv(a)' /\ \A k \in Nodes : Moves(k)
<1>1. \A k \in Nodes : Book(k)' = Book(k)
  BY DEF Book, bookVars
<1>2. PICK n \in Nodes : TRUE
  OBVIOUS
<1>3. /\ BookGood(n, Book(n)', Known(a), SpentKnown(a))
      /\ Follows(Book(n), Book(n)')
  BY <1>1, InvParts, FollowsSelf
<1>4. QED
  BY <1>1, <1>3, BookStep

\* A code is pasted, or a request comes in.
LEMMA StepReceive ==
    ASSUME NEW a \in BOOLEAN, Inv(a), TypeOK', NEW m, Receive(m)
    PROVE  Inv(a)' /\ \A k \in Nodes : Moves(k)
<1> DEFINE n == m.to
           t == m.ref
<1>1. /\ net' \subseteq net /\ n \in Nodes /\ t \in Tokens /\ t \in Known(a)
  BY TakenIn, MessageParts DEF Receive, Sent
<1>2. CASE ~Receivable(n, t)
  BY <1>1, <1>2, BooksStay DEF Receive, bookVars
<1>3. CASE Receivable(n, t)
  <2> DEFINE b == Book(n)
             c == Book(n)'
  <2>1. /\ TypeOK /\ b \in Books /\ c \in Books
        /\ BookGood(n, b, Known(a), SpentKnown(a))
    BY <1>1, InvParts DEF TypeOK, Book, Books
  <2>2. /\ n # Giver[t] /\ t \notin b.consumed
        /\ c.pending = [b.pending EXCEPT ![Giver[t]] = t]
        /\ c.offered = b.offered /\ c.friends = b.friends /\ c.consumed = b.consumed
    BY <1>1, <1>3, <2>1 DEF TypeOK, Receive, Receivable, Book
  <2>3. \A k \in Nodes \ {n} : Book(k)' = Book(k)
    BY <1>1, <2>1 DEF TypeOK, Receive, Book
  <2> HIDE DEF b, c
  <2>4. BookGood(n, c, Known(a), SpentKnown(a)) /\ Follows(b, c)
    BY <1>1, <2>1, <2>2, BookInvites
  <2>5. UNCHANGED <<saved, outbox, writes>>
    BY DEF Receive
  <2>6. QED
    BY <1>1, <2>3, <2>4, <2>5, BookStep DEF b, c
<1>4. QED
  BY <1>2, <1>3

\* An accept comes in.
LEMMA StepConfirm ==
    ASSUME NEW a \in BOOLEAN, Inv(a), TypeOK', NEW m, Confirm(m)
    PROVE  Inv(a)' /\ \A k \in Nodes : Moves(k)
<1> DEFINE n == m.to
           t == m.ref
           p == m.from
<1>1. /\ net' \subseteq net /\ n \in Nodes /\ t \in Tokens /\ p \in Nodes
      /\ t \in SpentKnown(a)[p] /\ p # Giver[t]
  BY TakenIn, MessageParts DEF Confirm, Sent
<1>2. CASE ~Confirmable(n, t)
  BY <1>1, <1>2, BooksStay DEF Confirm, bookVars
<1>3. CASE Confirmable(n, t)
  <2> DEFINE b == Book(n)
             c == Book(n)'
  <2>1. /\ TypeOK /\ b \in Books /\ c \in Books
        /\ BookGood(n, b, Known(a), SpentKnown(a))
    BY <1>1, InvParts DEF TypeOK, Book, Books
  <2>2. Confirmed(n, p, t) /\ UNCHANGED <<pending, saved, outbox, writes>>
    BY <1>3 DEF Confirm
  <2>3. /\ t \in b.offered /\ t \notin b.consumed
        /\ c.offered = b.offered \ {t} /\ c.consumed = b.consumed \cup {t}
        /\ c.friends = [b.friends EXCEPT ![p] = [nonce |-> t, since |-> Clock(n)]]
        /\ c.pending = b.pending
    BY <1>1, <1>3, <2>1, <2>2 DEF TypeOK, Confirmed, Confirmable, Book
  <2>4. p # n
    BY <1>1, <2>1, <2>3 DEF BookGood, OwnOffers
  <2>5. \A k \in Nodes \ {n} : Book(k)' = Book(k)
    BY <1>1, <2>1, <2>2 DEF TypeOK, Confirmed, Book
  <2> HIDE DEF b, c
  <2>6. BookGood(n, c, Known(a), SpentKnown(a)) /\ Follows(b, c)
    BY <1>1, <2>1, <2>3, <2>4, BookConfirms
  <2>7. QED
    BY <1>1, <2>2, <2>5, <2>6, BookStep DEF b, c
<1>4. QED
  BY <1>2, <1>3

\* A notice comes in.
LEMMA StepReceiveRevoke ==
    ASSUME NEW a \in BOOLEAN, Inv(a), TypeOK', NEW m, ReceiveRevoke(m)
    PROVE  Inv(a)' /\ \A k \in Nodes : Moves(k)
<1> DEFINE n == m.to
           p == m.from
<1>1. /\ net' \subseteq net /\ n \in Nodes /\ p \in Nodes /\ m.ref \in Notices
  BY TakenIn, MessageParts DEF ReceiveRevoke
<1>2. CASE ~Revocable(m)
  BY <1>1, <1>2, BooksStay DEF ReceiveRevoke, bookVars
<1>3. CASE Revocable(m)
  <2> DEFINE b == Book(n)
             c == Book(n)'
  <2>1. /\ TypeOK /\ b \in Books /\ c \in Books
        /\ BookGood(n, b, Known(a), SpentKnown(a))
    BY <1>1, InvParts DEF TypeOK, Book, Books
  <2>2. /\ consumed' = [consumed EXCEPT ![n] = @ \cup {m.ref}]
        /\ friends' = [friends EXCEPT ![n][p] = Stranger]
        /\ UNCHANGED <<offered, pending, saved, outbox, writes>>
    BY <1>3 DEF ReceiveRevoke
  <2>3. /\ c.friends = [b.friends EXCEPT ![p] = Stranger]
        /\ c.consumed = b.consumed \cup {m.ref}
        /\ c.offered = b.offered /\ c.pending = b.pending
    BY <1>1, <2>1, <2>2 DEF TypeOK, Book
  <2>4. {m.ref} \cap Tokens = {}
    BY <1>1, FriendsAssumption DEF Notices
  <2>5. \A k \in Nodes \ {n} : Book(k)' = Book(k)
    BY <1>1, <2>1, <2>2 DEF TypeOK, Book
  <2> HIDE DEF b, c
  <2>6. BookGood(n, c, Known(a), SpentKnown(a)) /\ Follows(b, c)
    BY <1>1, <2>1, <2>3, <2>4, BookForgets
  <2>7. QED
    BY <1>1, <2>2, <2>5, <2>6, BookStep DEF b, c
<1>4. QED
  BY <1>2, <1>3

\* A save takes its copy of the book, and the messages that waited for it.
LEMMA StepWriteBegins ==
    ASSUME NEW a \in BOOLEAN, Inv(a), TypeOK', NEW n \in Nodes, NEW ms \in outbox[n] \cup {{}},
           WriteBegins(n, ms)
    PROVE  Inv(a)' /\ \A k \in Nodes : Moves(k)
<1> DEFINE new == [book |-> Book(n), msgs |-> ms]
<1>1. /\ TypeOK /\ UNCHANGED <<bookVars, saved, net>>
      /\ writes' = [writes EXCEPT ![n] = @ \cup {new}]
      /\ outbox' = [outbox EXCEPT ![n] = @ \ {ms}]
  BY DEF WriteBegins, Written, Inv
<1>2. /\ \A k \in Nodes : Book(k)' = Book(k) /\ outbox'[k] \subseteq outbox[k]
      /\ \A k \in Nodes : \A w \in writes'[k] : w \in writes[k] \/ (k = n /\ w = new)
  BY <1>1 DEF TypeOK, bookVars, Book
<1>3. Known(a)' = Known(a) /\ SpentKnown(a)' = SpentKnown(a)
  BY <1>1 DEF Known, SpentKnown, OffersOnDisk, SpentOnDisk
<1>4. new.book = Book(n) /\ new.msgs = ms
  OBVIOUS
<1> HIDE DEF new
<1>5. \A m \in ms : Sendable(n, Book(n), m)
  BY InvParts
<1>6. ASSUME NEW k \in Nodes PROVE NodeGood(k, a)'
  <2>1. NodeGood(k, a)
    BY DEF Inv
  <2>2. ASSUME NEW w \in writes'[k]
        PROVE  /\ BookGood(k, w.book, Known(a), SpentKnown(a))
               /\ \A m \in w.msgs : Sendable(k, w.book, m)
               /\ a => Follows(saved[k], w.book) /\ Follows(w.book, Book(k))
    <3>1. CASE w \in writes[k]
      BY <3>1, WriteParts
    <3>2. CASE k = n /\ w = new
      BY <1>4, <1>5, <3>2, InvParts, FollowsSelf
    <3>3. QED
      BY <1>2, <3>1, <3>2
  <2>3. saved' = saved
    BY <1>1
  <2>4. QED
    BY <1>2, <1>3, <2>1, <2>2, <2>3 DEF NodeGood
<1>7. ASSUME NEW k \in Nodes PROVE Moves(k)
  <2>1. Follows(Book(k), Book(k)')
    BY <1>2, InvParts, FollowsSelf
  <2>2. saved'[k] = saved[k]
    BY <1>1
  <2>3. \A w \in writes'[k] : w.book \in {Book(k)} \cup {v.book : v \in writes[k]}
    BY <1>2, <1>4
  <2>4. QED
    BY <2>1, <2>2, <2>3 DEF Moves
<1>8. QED
  BY <1>1, <1>3, <1>6, <1>7 DEF Inv

\* The copy lands on a file that it follows, if the writes of the node stay apart:
\* nothing that was on the disk is forgotten.
LEMMA DiskGrows ==
    ASSUME NEW a \in BOOLEAN, Inv(a), NEW n \in Nodes, NEW w \in writes[n], WriteLands(n, w)
    PROVE  /\ saved' = [saved EXCEPT ![n] = w.book] /\ saved'[n] = w.book
           /\ \A k \in Nodes \ {n} : saved'[k] = saved[k]
           /\ a => OffersOnDisk \subseteq OffersOnDisk'
           /\ Known(a) \subseteq Known(a)'
           /\ \A p \in Nodes : SpentKnown(a)[p] \subseteq SpentKnown(a)'[p]
<1>1. /\ saved' = [saved EXCEPT ![n] = w.book] /\ saved'[n] = w.book
      /\ \A k \in Nodes \ {n} : saved'[k] = saved[k]
  BY InvParts DEF TypeOK, WriteLands
<1>2. a => /\ saved[n].consumed \subseteq w.book.consumed
          /\ saved[n].offered \subseteq w.book.offered \cup w.book.consumed
  BY WriteParts DEF Follows
<1>3. a => OffersOnDisk \subseteq OffersOnDisk'
  BY <1>1, <1>2, FriendsAssumption DEF OffersOnDisk
<1>4. a => \A p \in Nodes : SpentOnDisk[p] \subseteq SpentOnDisk'[p]
  BY <1>1, <1>2 DEF SpentOnDisk
<1>5. Known(a) \subseteq Known(a)'
  BY <1>3 DEF Known
<1>6. \A p \in Nodes : SpentKnown(a)[p] \subseteq SpentKnown(a)'[p]
  BY <1>4 DEF SpentKnown
<1>7. QED
  BY <1>1, <1>3, <1>5, <1>6

\* The copy is in the file, and what waited for it is sent: every message says what
\* the file it follows says.
LEMMA StepWriteLands ==
    ASSUME NEW a \in BOOLEAN, Inv(a), a => WritesApart, TypeOK',
           NEW n \in Nodes, NEW w \in writes[n], WriteLands(n, w)
    PROVE  Inv(a)' /\ \A k \in Nodes : Moves(k)
<1> DEFINE K == Known(a)'
           U == SpentKnown(a)'
<1>1. /\ saved'[n] = w.book /\ \A k \in Nodes \ {n} : saved'[k] = saved[k]
      /\ Known(a) \subseteq K /\ \A p \in Nodes : SpentKnown(a)[p] \subseteq U[p]
  BY DiskGrows
<1>2. /\ TypeOK /\ UNCHANGED <<bookVars, outbox>> /\ net' = net \cup w.msgs
      /\ writes' = [writes EXCEPT ![n] = @ \ {w}]
  BY DEF WriteLands, Inv
<1>3. \A k \in Nodes : Book(k)' = Book(k) /\ writes'[k] \subseteq writes[k]
  BY <1>2 DEF TypeOK, bookVars, Book
<1>4. a => writes'[n] = {}
  BY <1>2 DEF TypeOK, WritesApart
<1>5. ASSUME NEW m \in w.msgs PROVE Sent(m, K, U)
  <2>1. m \in Messages /\ Sendable(n, w.book, m)
    BY WriteParts
  <2>2. m.kind = "token" => m.ref \in K
    BY <1>1, <2>1, MessageParts DEF Known, OffersOnDisk, Sendable
  <2>3. m.kind = "accept" => m.ref \in U[m.from] /\ m.from # Giver[m.ref]
    BY <1>1, <2>1, MessageParts DEF SpentKnown, SpentOnDisk, Sendable, Nonces
  <2>4. QED
    BY <2>2, <2>3 DEF Sent
<1> HIDE DEF K, U
<1>6. ASSUME NEW k \in Nodes, NEW b \in Books, BookGood(k, b, Known(a), SpentKnown(a))
      PROVE  BookGood(k, b, K, U)
  BY <1>1, <1>6, BookMonotone
<1>7. ASSUME NEW k \in Nodes
      PROVE  /\ BookGood(k, saved'[k], K, U) /\ BookGood(k, Book(k), K, U)
             /\ a => Follows(saved'[k], Book(k))
  <2>1. BookGood(k, saved[k], K, U) /\ BookGood(k, Book(k), K, U)
    BY <1>6, InvParts
  <2>2. BookGood(n, w.book, K, U)
    BY <1>6, WriteParts
  <2>3. QED
    BY <1>1, <2>1, <2>2, InvParts, WriteParts
<1>8. ASSUME NEW k \in Nodes, NEW v \in writes'[k]
      PROVE  /\ BookGood(k, v.book, K, U) /\ \A m \in v.msgs : Sendable(k, v.book, m)
             /\ a => Follows(saved'[k], v.book) /\ Follows(v.book, Book(k))
  <2>1. v \in writes[k]
    BY <1>3
  <2>2. BookGood(k, v.book, K, U)
    BY <1>6, <2>1, WriteParts
  <2>3. QED
    BY <1>1, <1>4, <2>1, <2>2, WriteParts
<1>9. ASSUME NEW k \in Nodes PROVE NodeGood(k, a)'
  <2>1. \A ms \in outbox'[k] : \A m \in ms : Sendable(k, Book(k), m)
    BY <1>2, InvParts
  <2>2. Book(k)' = Book(k)
    BY <1>3
  <2>3. QED
    BY <1>7, <1>8, <2>1, <2>2 DEF NodeGood, K, U
<1>10. ASSUME NEW m \in net' PROVE Sent(m, K, U)
  <2>1. CASE m \in net
    <3>1. m \in Messages /\ Sent(m, Known(a), SpentKnown(a))
      BY <2>1 DEF Inv, TypeOK
    <3>2. QED
      BY <1>1, <3>1, SentMonotone
  <2>2. QED
    BY <1>2, <1>5, <2>1 DEF K, U
<1>11. ASSUME NEW k \in Nodes PROVE Moves(k)
  BY <1>1, <1>3, InvParts, FollowsSelf DEF Moves
<1>12. QED
  BY <1>9, <1>10, <1>11 DEF Inv, K, U

\* A restart: the book is the file's again, unsent messages and writes are lost.
LEMMA StepCrash ==
    ASSUME NEW a \in BOOLEAN, Inv(a), TypeOK', NEW n \in Nodes, Crash(n)
    PROVE  Inv(a)' /\ \A k \in Nodes : Moves(k)
<1>1. /\ Known(a)' = Known(a) /\ SpentKnown(a)' = SpentKnown(a)
      /\ TypeOK /\ UNCHANGED <<saved, net>>
  BY DEF Crash, Known, SpentKnown, OffersOnDisk, SpentOnDisk, Inv
<1>2. Book(n)' = saved[n] /\ outbox'[n] = {} /\ writes'[n] = {}
  BY <1>1 DEF TypeOK, Crash, Book, Books
<1>3. \A k \in Nodes \ {n} : /\ Book(k)' = Book(k)
                            /\ outbox'[k] = outbox[k] /\ writes'[k] = writes[k]
  BY <1>1 DEF TypeOK, Crash, Book
<1>4. ASSUME NEW k \in Nodes PROVE NodeGood(k, a)'
  <2>1. saved' = saved
    BY <1>1
  <2>2. CASE k = n
    <3>1. BookGood(k, saved[k], Known(a), SpentKnown(a)) /\ Follows(saved[k], saved[k])
      BY InvParts, FollowsSelf
    <3>2. QED
      BY <1>1, <1>2, <2>1, <2>2, <3>1 DEF NodeGood
  <2>3. CASE k # n
    <3>1. NodeGood(k, a)
      BY DEF Inv
    <3>2. QED
      BY <1>1, <1>3, <2>1, <2>3, <3>1 DEF NodeGood
  <2>4. QED
    BY <2>2, <2>3
<1>5. \A k \in Nodes : Moves(k)
  BY <1>1, <1>2, <1>3, InvParts, FollowsSelf DEF Moves
<1>6. QED
  BY <1>1, <1>4, <1>5 DEF Inv

\* Every step keeps the invariant, and each book and file follows what it was.
LEMMA InvStep ==
    ASSUME NEW a \in BOOLEAN, Inv(a), a => WritesApart, [Next]_vars
    PROVE  Inv(a)' /\ \A k \in Nodes : Moves(k)
<1> DEFINE Goal == Inv(a)' /\ \A k \in Nodes : Moves(k)
<1>0. TypeOK'
  BY TypeStep DEF Inv
<1>1. ASSUME NEW n \in Nodes, NEW t \in Tokens, IssueToken(n, t) PROVE Goal
  BY <1>0, <1>1, StepIssueToken
<1>2. ASSUME NEW n \in Nodes, NEW p \in Nodes, Accept(n, p) PROVE Goal
  BY <1>0, <1>2, StepAccept
<1>3. ASSUME NEW n \in Nodes, NEW p \in Nodes, IssueRevoke(n, p) PROVE Goal
  BY <1>0, <1>3, StepIssueRevoke
<1>4. ASSUME NEW m \in net, Receive(m) PROVE Goal
  BY <1>0, <1>4, StepReceive
<1>5. ASSUME NEW m \in net, Confirm(m) PROVE Goal
  BY <1>0, <1>5, StepConfirm
<1>6. ASSUME NEW m \in net, ReceiveRevoke(m) PROVE Goal
  BY <1>0, <1>6, StepReceiveRevoke
<1>7. ASSUME NEW n \in Nodes, NEW ms \in outbox[n] \cup {{}}, WriteBegins(n, ms) PROVE Goal
  BY <1>0, <1>7, StepWriteBegins
<1>8. ASSUME NEW n \in Nodes, NEW w \in writes[n], WriteLands(n, w) PROVE Goal
  BY <1>0, <1>8, StepWriteLands
<1>9. ASSUME NEW n \in Nodes, Crash(n) PROVE Goal
  BY <1>0, <1>9, StepCrash
<1>10. ASSUME UNCHANGED <<bookVars, saved, wireVars>> PROVE Goal
  <2>1. /\ Known(a)' = Known(a) /\ SpentKnown(a)' = SpentKnown(a)
        /\ \A k \in Nodes : Book(k)' = Book(k)
    BY <1>10 DEF Known, SpentKnown, OffersOnDisk, SpentOnDisk, Book, bookVars
  <2>2. UNCHANGED <<saved, outbox, writes, net>>
    BY <1>10 DEF wireVars
  <2>3. ASSUME NEW k \in Nodes PROVE NodeGood(k, a)'
    <3>1. NodeGood(k, a)
      BY DEF Inv
    <3>2. QED
      BY <2>1, <2>2, <3>1 DEF NodeGood
  <2>4. \A k \in Nodes : Moves(k)
    BY <2>1, <2>2, InvParts, FollowsSelf DEF Moves
  <2>5. QED
    BY <1>0, <2>1, <2>2, <2>3, <2>4 DEF Inv
<1>11. CASE Tick
  BY <1>10, <1>11 DEF Tick
<1>12. CASE UNCHANGED vars
  BY <1>10, <1>12 DEF vars
<1>13. QED
  BY <1>1, <1>2, <1>3, <1>4, <1>5, <1>6, <1>7, <1>8, <1>9, <1>11, <1>12 DEF Next

\* What is left of the invariant where writes may overlap holds throughout.
LEMMA InvHolds == Spec => []Inv(FALSE)
<1>1. Init => Inv(FALSE)
  BY InvInit
<1>2. Inv(FALSE) /\ [Next]_vars => Inv(FALSE)'
  BY InvStep
<1>3. QED
  BY <1>1, <1>2, PTL DEF Spec

\* All of it holds where the writes of each node stay apart.
LEMMA InvHoldsApart == Spec /\ []WritesApart => []Inv(TRUE)
<1>1. Init => Inv(TRUE)
  BY InvInit
<1>2. Inv(TRUE) /\ WritesApart /\ [Next]_vars => Inv(TRUE)'
  BY InvStep
<1>3. QED
  BY <1>1, <1>2, PTL DEF Spec

\* They stay apart where no save begins before the one before it has landed.
LEMMA ApartHolds == ASSUME "overlap" \notin Faults PROVE Spec => []WritesApart
<1>1. Init => WritesApart
  BY DEF Init, WritesApart
<1>2. TypeOK /\ WritesApart /\ [Next]_vars => WritesApart'
  <2> SUFFICES ASSUME TypeOK, WritesApart, [Next]_vars, NEW n \in Nodes,
                      NEW v \in writes'[n], NEW w \in writes'[n]
               PROVE  v = w
    BY DEF WritesApart
  <2>1. ASSUME writes'[n] \subseteq writes[n] PROVE v = w
    BY <2>1 DEF WritesApart
  <2>2. ASSUME NEW k \in Nodes, NEW ms, WriteBegins(k, ms) PROVE v = w
    <3>1. writes[k] = {}
      BY <2>2 DEF WriteBegins
    <3>2. writes' = [writes EXCEPT ![k] = @ \cup {[book |-> Written(k), msgs |-> ms]}]
      BY <2>2 DEF WriteBegins
    <3>3. CASE k = n
      BY <3>1, <3>2, <3>3 DEF TypeOK
    <3>4. CASE k # n
      BY <2>1, <3>2, <3>4 DEF TypeOK
    <3>5. QED
      BY <3>3, <3>4
  <2>3. ASSUME NEW k \in Nodes, NEW u, WriteLands(k, u) PROVE v = w
    BY <2>1, <2>3 DEF TypeOK, WriteLands
  <2>4. ASSUME NEW k \in Nodes, Crash(k) PROVE v = w
    BY <2>1, <2>4 DEF TypeOK, Crash
  <2>5. ASSUME UNCHANGED writes PROVE v = w
    BY <2>1, <2>5
  <2>6. QED
    BY <2>2, <2>3, <2>4, <2>5 DEF Next, vars, wireVars, IssueToken, Accept, IssueRevoke, Receive,
       Confirm, ReceiveRevoke, SendOnceSaved, Tick
<1>3. QED
  BY <1>1, <1>2, TypeCorrect, PTL DEF Spec
-----------------------------------------------------------------------------
(* What the invariant is for.                                              *)

\* A token makes one friend at a node (friends.ts:268-276), whoever answers it,
\* however the saves overlap.
THEOREM OneFriendHolds == Spec => []OneFriendPerToken
<1>1. Inv(FALSE) => OneFriendPerToken
  <2> SUFFICES ASSUME Inv(FALSE), NEW n \in Nodes, NEW p \in Nodes, NEW q \in Nodes,
                      friends[n][p].nonce = friends[n][q].nonce, p # q
               PROVE  friends[n][p] = Stranger
    BY DEF OneFriendPerToken
  <2>1. BookGood(n, Book(n), Known(FALSE), SpentKnown(FALSE))
    BY InvParts
  <2>2. Befriended(n, Book(n), Known(FALSE), SpentKnown(FALSE))
    BY <2>1 DEF BookGood
  <2>3. QED
    BY <2>2 DEF Befriended, Book
<1>2. QED
  BY <1>1, InvHolds, PTL

\* What the invariant says of one node, where the writes stay apart.
LEMMA InvApart ==
    ASSUME Inv(TRUE), NEW n \in Nodes
    PROVE  /\ TypeOK /\ Book(n) \in Books /\ saved[n] \in Books
           /\ BookGood(n, Book(n), OffersOnDisk, SpentOnDisk)
           /\ BookGood(n, saved[n], OffersOnDisk, SpentOnDisk)
           /\ Follows(saved[n], Book(n))
           /\ SpentOnDisk[n] = saved[n].consumed
<1>1. Known(TRUE) = OffersOnDisk /\ SpentKnown(TRUE) = SpentOnDisk
  BY DEF Known, SpentKnown
<1>2. TRUE \in BOOLEAN
  OBVIOUS
<1>3. /\ TypeOK /\ Book(n) \in Books /\ saved[n] \in Books
      /\ BookGood(n, Book(n), Known(TRUE), SpentKnown(TRUE))
      /\ BookGood(n, saved[n], Known(TRUE), SpentKnown(TRUE))
      /\ Follows(saved[n], Book(n))
  BY <1>2, InvParts
<1>4. SpentOnDisk[n] = saved[n].consumed
  BY DEF SpentOnDisk
<1>5. QED
  BY <1>1, <1>3, <1>4

\* A friendship is backed by the other side's file, whoever crashes when, as each
\* route sends only what it has saved (main.ts:751-755); but not if an older copy
\* may land on a newer one, which nothing in persist() (main.ts:317-322) keeps from
\* happening.
THEOREM BackedHolds == Spec /\ []WritesApart => []Backed
<1>1. Inv(TRUE) => Backed
  <2> SUFFICES ASSUME Inv(TRUE), NEW n \in Nodes, NEW p \in Nodes, friends[n][p].nonce # None
               PROVE  LET t == friends[n][p].nonce IN
                      IF n = Giver[t] THEN t \in saved[p].consumed
                      ELSE p = Giver[t] /\ t \in saved[p].offered \cup saved[p].consumed
    BY DEF Backed
  <2>1. Befriended(n, Book(n), OffersOnDisk, SpentOnDisk)
    BY InvApart DEF BookGood
  <2>2. QED
    BY <2>1 DEF Befriended, Book, OffersOnDisk, SpentOnDisk
<1>2. QED
  BY <1>1, InvHoldsApart, PTL

\* A friendship that ended does not come back (friends.ts:214), whatever message
\* comes again, when the node restarts and however its saves overlap: once no copy
\* is left from before its end (main.ts:317-322), it is over for good.
THEOREM NoRevivalHolds == Spec => NoRevival
<1>1. ASSUME Inv(FALSE), [Next]_vars, NEW n \in Nodes, NEW t \in Tokens, Over(n, t) PROVE Over(n, t)'
  <2> DEFINE Ended(b) == t \in b.consumed /\ \A p \in Nodes : b.friends[p].nonce # t
  <2>1. Ended(Book(n)) /\ Ended(saved[n]) /\ \A w \in writes[n] : Ended(w.book)
    BY <1>1 DEF Over
  <2>2. Moves(n)
    BY <1>1, InvStep
  <2>3. \A b, c : Ended(b) /\ Follows(b, c) => Ended(c)
    BY DEF Follows
  <2> HIDE DEF Ended
  <2>4. Ended(Book(n)')
    <3> DEFINE b == Book(n)
               c == Book(n)'
    <3> HIDE DEF b, c
    <3>1. Follows(b, c) \/ c = saved[n]
      BY <2>2 DEF Moves, b, c
    <3>2. Ended(b)
      BY <2>1 DEF b
    <3>3. Ended(c)
      BY <2>1, <2>3, <3>1, <3>2
    <3>4. QED
      BY <3>3 DEF c
  <2>5. Ended(saved'[n]) /\ \A w \in writes'[n] : Ended(w.book)
    BY <2>1, <2>2 DEF Moves
  <2>6. \A b \in {Book(n)', saved'[n]} \cup {w.book : w \in writes'[n]} : Ended(b)
    BY <2>4, <2>5
  <2>7. QED
    BY <2>6 DEF Over, Ended
<1>2. Inv(FALSE) /\ [Next]_vars => [\A n \in Nodes, t \in Tokens : Over(n, t) => Over(n, t)']_vars
  BY <1>1
<1>3. QED
  BY <1>2, InvHolds, PTL DEF Spec, NoRevival
-----------------------------------------------------------------------------
(* The files implement the abstract handshake.                             *)

\* The phase a token is in, as a book has it.
PhaseIn(b, t) == IF t \notin b.consumed THEN "unused"
                 ELSE IF \E p \in Nodes : b.friends[p].nonce = t THEN "friends"
                 ELSE "spent"

\* A book that follows another has moved every token forward only.
LEMMA PhasesForward ==
    ASSUME NEW b, NEW c, Follows(b, c), NEW t \in Tokens
    PROVE  PhaseIn(c, t) \in Promise!From(PhaseIn(b, t))
BY DEF Follows, PhaseIn, Promise!From, Promise!Phases

\* Only a write that lands changes what is on the disk.
LEMMA OnlySaves ==
    ASSUME [Next]_vars
    PROVE  UNCHANGED saved \/ \E n \in Nodes : \E w \in writes[n] : WriteLands(n, w)
BY DEF Next, vars, IssueToken, Accept, IssueRevoke, Receive, Confirm, ReceiveRevoke, WriteBegins,
   Crash, Tick

\* A write that lands is a step of Handshake for every token it moves.
LEMMA SaveImplements ==
    ASSUME Inv(TRUE), NEW n \in Nodes, NEW w \in writes[n], WriteLands(n, w)
    PROVE  Promise!Step(n)
<1> DEFINE b == w.book
           f == [t \in Tokens |-> PhaseIn(b, t)]
           S == {t \in Tokens : Giver[t] = n /\ t \in b.offered \cup b.consumed}
<1>0. TRUE \in BOOLEAN /\ Known(TRUE) = OffersOnDisk /\ SpentKnown(TRUE) = SpentOnDisk
  BY DEF Known, SpentKnown
<1>1. /\ saved'[n] = b /\ \A k \in Nodes \ {n} : saved'[k] = saved[k]
      /\ OffersOnDisk \subseteq OffersOnDisk'
  BY <1>0, DiskGrows
<1>2. /\ b \in Books /\ BookGood(n, b, OffersOnDisk, SpentOnDisk) /\ Follows(saved[n], b)
  BY <1>0, WriteParts
<1> HIDE DEF b
<1>3. /\ S \in SUBSET {t \in Tokens : Giver[t] = n}
      /\ OffersOnDisk' = OffersOnDisk \cup S
  BY <1>1, FriendsAssumption DEF OffersOnDisk
<1>4. /\ PhaseOnDisk = [k \in Nodes |-> [t \in Tokens |-> PhaseIn(saved[k], t)]]
      /\ PhaseOnDisk' = [k \in Nodes |-> [t \in Tokens |-> PhaseIn(saved'[k], t)]]
  BY DEF PhaseOnDisk, PhaseIn
<1>5. PhaseOnDisk' = [PhaseOnDisk EXCEPT ![n] = f]
  BY <1>1, <1>4
<1>6. f \in [Tokens -> Promise!Phases]
  BY DEF Promise!Phases, PhaseIn
<1>7. ASSUME NEW t \in Tokens PROVE f[t] \in Promise!From(PhaseOnDisk[n][t])
  BY <1>2, <1>4, PhasesForward
<1>8. ASSUME NEW t \in Tokens, PhaseOnDisk[n][t] = "unused", f[t] # "unused"
      PROVE  Promise!Usable(n, t)
  <2>1. t \in Tokens \cap b.consumed
    BY <1>8 DEF PhaseIn
  <2>2. IF n = Giver[t] THEN \E p \in Nodes \ {n} : t \in SpentOnDisk[p] ELSE t \in OffersOnDisk
    BY <1>2, <2>1 DEF BookGood, Earned
  <2>3. \A p \in Nodes : t \in SpentOnDisk[p] => PhaseOnDisk[p][t] # "unused"
    BY <1>4 DEF SpentOnDisk, PhaseIn
  <2>4. QED
    BY <2>2, <2>3 DEF Promise!Usable
<1>9. QED
  BY <1>3, <1>5, <1>6, <1>7, <1>8 DEF Promise!Step

\* Seen through their files the nodes take every token from unused to a friendship
\* to spent, and use one only when the other side has done its part
\* (friends.ts:234-285): every write that lands is a step of Handshake, as long as
\* the writes of a node (main.ts:317-322) stay apart, and nothing else shows.
THEOREM HandshakeImplemented == Spec /\ []WritesApart => ImplementsHandshake
<1>1. Init => Promise!Init
  <2> SUFFICES ASSUME Init PROVE Promise!Init
    OBVIOUS
  <2>1. \A n \in Nodes : saved[n].offered = {} /\ saved[n].consumed = {}
    BY DEF Init, EmptyBook
  <2>2. OffersOnDisk = {}
    BY <2>1, FriendsAssumption DEF OffersOnDisk
  <2>3. PhaseOnDisk = [n \in Nodes |-> [t \in Tokens |-> "unused"]]
    BY <2>1 DEF PhaseOnDisk
  <2>4. QED
    BY <2>2, <2>3 DEF Promise!Init
<1>2. Inv(TRUE) /\ [Next]_vars => [Promise!Next]_(Promise!vars)
  <2> SUFFICES ASSUME Inv(TRUE), [Next]_vars PROVE [Promise!Next]_(Promise!vars)
    OBVIOUS
  <2>1. CASE UNCHANGED saved
    BY <2>1 DEF Promise!vars, OffersOnDisk, PhaseOnDisk
  <2>2. ASSUME NEW n \in Nodes, NEW w \in writes[n], WriteLands(n, w) PROVE Promise!Next
    BY <2>2, SaveImplements DEF Promise!Next
  <2>3. QED
    BY <2>1, <2>2, OnlySaves
<1>3. QED
  BY <1>1, <1>2, InvHoldsApart, PTL DEF Spec, ImplementsHandshake, Promise!Spec
-----------------------------------------------------------------------------
(* Friendship is mutual where nobody revokes, dies or lets an offer expire. *)

\* Messages may come again and in any order, clocks may differ at will; only the
\* giver's own clock, which says how long an offer is open, stays within the lifetime.
Calm == Faults \subseteq {"replay"} /\ MaxNotices = 0 /\ MaxNow <= Ttl

\* What a node's routes will send once it is saved.
Unsent(n) == (UNION outbox[n]) \cup (UNION {w.msgs : w \in writes[n]})

\* A code goes to those it was handed to, an answer to the giver.
Addressed(m) == /\ m.kind = "token" => m.to \in Bearers[m.ref]
                /\ m.kind = "accept" => m.to = Giver[m.ref]

AllAddressed == /\ \A m \in net : Addressed(m)
                /\ \A n \in Nodes : \A m \in Unsent(n) : Addressed(m)
                /\ \A n, g \in Nodes : pending[n][g] # None => n \in Bearers[pending[n][g]]

\* An open offer has been made, and not before its giver's clock began.
Dated == \A t \in Tokens :
             /\ \A n \in Nodes : t \in offered[n] => issued[t] # Unissued
             /\ issued[t] # Unissued => issued[t] >= Ahead[Giver[t]]

\* Who answered a code is the giver's friend in its own eyes, and its answer is on
\* the way, or the giver has taken somebody's.
Answered(n, t) ==
    t \in consumed[n] /\ n # Giver[t] =>
        /\ n \in Bearers[t] /\ friends[n][Giver[t]] # Stranger
        /\ Acc(t, n) \in Unsent(n) \cup net \/ t \in consumed[Giver[t]]

\* A giver that has spent its offer is friends with one who answered it.
Taken(n, t) ==
    t \in consumed[n] /\ n = Giver[t] =>
        \E q \in Bearers[t] \ {n} : t \in consumed[q] /\ friends[n][q] # Stranger

MutualInv == /\ AllAddressed /\ Dated
             /\ \A n \in Nodes, t \in Tokens : Answered(n, t) /\ Taken(n, t)

\* Nobody has answered anything at the start.
LEMMA MutualInit == Init => MutualInv
BY DEF Init, EmptyBook, MutualInv, AllAddressed, Dated, Answered, Taken, Unsent

\* Books only grow: no nonce and no friend is lost.
Grows == \A n \in Nodes : /\ consumed[n] \subseteq consumed'[n]
                          /\ \A p \in Nodes : friends[n][p] # Stranger => friends'[n][p] # Stranger

\* A step that answers no code, and loses no answer, keeps what was answered.
LEMMA AnsweredStays ==
    ASSUME Inv(TRUE), MutualInv, Grows, UNCHANGED consumed, NEW n \in Nodes, NEW t \in Tokens,
           Acc(t, n) \in Unsent(n) \cup net => Acc(t, n) \in (Unsent(n) \cup net)'
    PROVE  Answered(n, t)' /\ Taken(n, t)'
<1>1. Giver[t] \in Nodes /\ Bearers[t] \subseteq Nodes
  BY FriendsAssumption
<1>2. Answered(n, t) /\ Taken(n, t)
  BY DEF MutualInv
<1>3. Answered(n, t)'
  BY <1>1, <1>2 DEF Grows, Answered
<1>4. Taken(n, t)'
  BY <1>1, <1>2 DEF Grows, Taken
<1>5. QED
  BY <1>3, <1>4

\* A batch that a route leaves to send is unsent; nothing else changes.
LEMMA PostedUnsent ==
    ASSUME TypeOK, NEW n \in Nodes, NEW ms,
           outbox' = [outbox EXCEPT ![n] = @ \cup {ms}], UNCHANGED writes
    PROVE  /\ ms \subseteq Unsent(n)'
           /\ \A k \in Nodes : Unsent(k)' \subseteq Unsent(k) \cup ms /\ Unsent(k) \subseteq Unsent(k)'
<1>1. outbox'[n] = outbox[n] \cup {ms} /\ \A k \in Nodes \ {n} : outbox'[k] = outbox[k]
  BY DEF TypeOK
<1>2. QED
  BY <1>1 DEF Unsent

\* A new code goes to its bearers, and is dated by its giver's clock.
LEMMA MutualIssueToken ==
    ASSUME Inv(TRUE), MutualInv, NEW n \in Nodes, NEW t \in Tokens, IssueToken(n, t)
    PROVE  MutualInv'
<1>1. TypeOK
  BY DEF Inv
<1>2. /\ Giver[t] = n /\ outbox' = [outbox EXCEPT ![n] = @ \cup {Invitations(t)}]
      /\ issued' = [issued EXCEPT ![t] = Clock(n)] /\ offered' = [offered EXCEPT ![n] = @ \cup {t}]
      /\ UNCHANGED <<pending, friends, consumed, writes, net>>
  BY DEF IssueToken, SendOnceSaved
<1>3. \A m \in Invitations(t) : Addressed(m)
  BY DEF Invitations, Tok, Addressed
<1>4. \A k \in Nodes : Unsent(k)' \subseteq Unsent(k) \cup Invitations(t) /\ Unsent(k) \subseteq Unsent(k)'
  BY <1>1, <1>2, PostedUnsent
<1>5. AllAddressed'
  BY <1>2, <1>3, <1>4 DEF MutualInv, AllAddressed, Addressed
<1>6. Clock(n) >= Ahead[n] /\ Clock(n) # Unissued
  BY <1>1, FriendsAssumption DEF TypeOK, Clock, Unissued
<1>7. Dated'
  BY <1>1, <1>2, <1>6 DEF MutualInv, Dated, TypeOK
<1>8. Grows
  BY <1>2 DEF Grows
<1>9. \A k \in Nodes, u \in Tokens : Answered(k, u)' /\ Taken(k, u)'
  BY <1>2, <1>4, <1>8, AnsweredStays
<1>10. QED
  BY <1>5, <1>7, <1>9 DEF MutualInv

\* Who says yes is one of the bearers, has the giver as its friend, and answers.
LEMMA MutualAccept ==
    ASSUME Inv(TRUE), MutualInv, NEW n \in Nodes, NEW g \in Nodes, Accept(n, g)
    PROVE  MutualInv'
<1> DEFINE t == pending[n][g]
<1>1. TypeOK /\ t \in Tokens
  BY DEF Inv, TypeOK, Accept
<1>2. Giver[t] = g /\ g # n
  <2>1. Invited(n, Book(n), OffersOnDisk)
    BY InvApart DEF BookGood
  <2>2. Book(n).pending[g] = t /\ t # None
    BY DEF Book, Accept
  <2>3. QED
    BY <2>1, <2>2 DEF Invited
<1>3. n \in Bearers[t]
  BY <1>1, FriendsAssumption DEF MutualInv, AllAddressed
<1>4. /\ outbox' = [outbox EXCEPT ![n] = @ \cup {{Acc(t, n)}}]
      /\ pending' = [pending EXCEPT ![n][g] = None]
      /\ consumed' = [consumed EXCEPT ![n] = @ \cup {t}]
      /\ friends' = [friends EXCEPT ![n][g] = [nonce |-> t, since |-> Clock(n)]]
      /\ UNCHANGED <<writes, net, offered, issued>>
  BY DEF Accept, SendOnceSaved
<1> HIDE DEF t
<1>5. [nonce |-> t, since |-> Clock(n)] # Stranger
  BY <1>1, FriendsAssumption DEF Stranger
<1>6. Grows
  BY <1>1, <1>4, <1>5 DEF TypeOK, Grows
<1>7. /\ friends'[n][g] # Stranger
      /\ \A k \in Nodes, u \in Tokens : u \in consumed'[k] => u \in consumed[k] \/ (k = n /\ u = t)
  BY <1>1, <1>4, <1>5 DEF TypeOK
<1>12. /\ Acc(t, n) \in Unsent(n)'
       /\ \A k \in Nodes : Unsent(k)' \subseteq Unsent(k) \cup {Acc(t, n)} /\ Unsent(k) \subseteq Unsent(k)'
  BY <1>1, <1>4, PostedUnsent
<1>8. AllAddressed'
  <2>1. Addressed(Acc(t, n))
    BY DEF Addressed, Acc
  <2>2. \A k, h \in Nodes : pending'[k][h] \in {pending[k][h], None}
    BY <1>1, <1>4 DEF TypeOK
  <2>3. QED
    BY <1>4, <1>12, <2>1, <2>2 DEF MutualInv, AllAddressed, Addressed
<1>9. Dated'
  BY <1>4 DEF MutualInv, Dated
<1>10. ASSUME NEW k \in Nodes, NEW u \in Tokens PROVE Answered(k, u)' /\ Taken(k, u)'
  <2>1. Giver[u] \in Nodes /\ Bearers[u] \subseteq Nodes /\ Answered(k, u) /\ Taken(k, u)
    BY FriendsAssumption DEF MutualInv
  <2>2. CASE k = n /\ u = t
    BY <1>2, <1>3, <1>7, <1>12, <2>2 DEF Answered, Taken
  <2>3. CASE ~(k = n /\ u = t)
    <3>1. u \in consumed'[k] => u \in consumed[k]
      BY <1>7, <2>3
    <3>2. Answered(k, u)'
      BY <1>4, <1>6, <1>12, <2>1, <3>1 DEF Grows, Answered
    <3>3. Taken(k, u)'
      BY <1>6, <2>1, <3>1 DEF Grows, Taken
    <3>4. QED
      BY <3>2, <3>3
  <2>4. QED
    BY <2>2, <2>3
<1>11. QED
  BY <1>8, <1>9, <1>10 DEF MutualInv

\* What waits for a yes waits at a bearer.
LEMMA MutualReceive ==
    ASSUME Inv(TRUE), MutualInv, NEW m, Receive(m)
    PROVE  MutualInv'
<1>1. /\ TypeOK /\ m \in net /\ m.kind = "token" /\ m \in Messages /\ net \ {m} \subseteq net'
      /\ net' \subseteq net /\ m.to \in Nodes /\ m.ref \in Tokens
      /\ UNCHANGED <<offered, friends, consumed, outbox, writes, issued>>
      /\ \A k \in Nodes : Unsent(k)' = Unsent(k)
  BY MessageParts DEF Inv, TypeOK, Receive, Inbound, Deliver, Unsent
<1>2. m.to \in Bearers[m.ref]
  BY <1>1 DEF MutualInv, AllAddressed, Addressed
<1>3. \A k, g \in Nodes : pending'[k][g] = pending[k][g] \/ (k = m.to /\ pending'[k][g] = m.ref)
  BY <1>1 DEF TypeOK, Receive
<1>4. AllAddressed'
  BY <1>1, <1>2, <1>3 DEF MutualInv, AllAddressed, Addressed
<1>5. Dated' /\ Grows
  BY <1>1 DEF MutualInv, Dated, Grows
<1>6. \A k \in Nodes, u \in Tokens : Acc(u, k) # m
  BY <1>1 DEF Acc
<1>7. \A k \in Nodes, u \in Tokens : Answered(k, u)' /\ Taken(k, u)'
  BY <1>1, <1>5, <1>6, AnsweredStays
<1>8. QED
  BY <1>4, <1>5, <1>7 DEF MutualInv

\* An answer finds the offer open, or somebody's answer already taken.
LEMMA OfferOpen ==
    ASSUME Inv(TRUE), MutualInv, Calm, NEW t \in Tokens, NEW p \in Nodes, t \in SpentOnDisk[p], p # Giver[t],
           t \notin consumed[Giver[t]]
    PROVE  Confirmable(Giver[t], t)
<1> DEFINE g == Giver[t]
<1>1. TypeOK /\ g \in Nodes
  BY FriendsAssumption DEF Inv
<1>2. t \in OffersOnDisk
  BY InvApart DEF BookGood, Earned
<1>3. t \in saved[g].offered \cup saved[g].consumed
  BY <1>2 DEF OffersOnDisk
<1>4. t \in offered[g]
  BY <1>1, <1>3, InvApart DEF Follows, Book
<1>5. issued[t] # Unissued /\ issued[t] >= Ahead[g]
  BY <1>1, <1>4 DEF MutualInv, Dated
<1>6. /\ issued[t] \in Int /\ now \in Int /\ now <= MaxNow /\ MaxNow <= Ttl
      /\ MaxNow \in Int /\ Ttl \in Int /\ Ahead[g] \in Int
  BY <1>1, <1>5, FriendsAssumption DEF TypeOK, Calm
<1> HIDE DEF g
<1>7. ~Expired(t, g)
  BY <1>5, <1>6 DEF Expired, Clock
<1>8. QED
  BY <1>4, <1>7 DEF Confirmable, g

\* The giver takes the answer, or has taken another.
LEMMA MutualConfirm ==
    ASSUME Inv(TRUE), MutualInv, Calm, NEW m, Confirm(m)
    PROVE  MutualInv'
<1> DEFINE n == m.to
           t == m.ref
           p == m.from
<1>1. /\ TypeOK /\ m \in net /\ m.kind = "accept" /\ m \in Messages /\ net \ {m} \subseteq net'
      /\ net' \subseteq net /\ n \in Nodes /\ t \in Tokens /\ p \in Nodes
      /\ UNCHANGED <<pending, outbox, writes, issued>>
      /\ \A k \in Nodes : Unsent(k)' = Unsent(k)
  BY MessageParts DEF Inv, TypeOK, Confirm, Inbound, Deliver, Unsent
<1>2. n = Giver[t]
  BY <1>1 DEF MutualInv, AllAddressed, Addressed
<1>3. t \in SpentOnDisk[p] /\ p # n
  BY <1>1, <1>2 DEF Inv, Sent, SpentKnown
<1>4. t \in consumed[p]
  BY <1>1, <1>3, InvApart DEF Follows, Book
<1>5. p \in Bearers[t]
  BY <1>1, <1>2, <1>3, <1>4 DEF MutualInv, Answered
<1>6. AllAddressed'
  BY <1>1 DEF MutualInv, AllAddressed, Addressed
<1>7. Dated'
  <2>1. offered' = offered \/ offered' = [offered EXCEPT ![n] = @ \ {t}]
    BY DEF Confirm, Confirmed
  <2>2. \A k \in Nodes : offered'[k] \subseteq offered[k]
    BY <1>1, <2>1 DEF TypeOK
  <2>3. QED
    BY <1>1, <2>2 DEF MutualInv, Dated
<1>8. ASSUME NEW k \in Nodes, NEW u \in Tokens, Acc(u, k) \in Unsent(k) \cup net
      PROVE  Acc(u, k) \in (Unsent(k) \cup net)' \/ u = t
  BY <1>1, <1>8 DEF Acc
<1>9. CASE t \in consumed[n]
  <2>1. UNCHANGED <<offered, consumed, friends>>
    BY <1>9 DEF Confirm, Confirmable
  <2>2. ASSUME NEW k \in Nodes, NEW u \in Tokens PROVE Answered(k, u)' /\ Taken(k, u)'
    <3>1. Answered(k, u) /\ Taken(k, u)
      BY DEF MutualInv
    <3>2. QED
      BY <1>2, <1>8, <1>9, <2>1, <3>1 DEF Answered, Taken
  <2>3. QED
    BY <1>6, <1>7, <2>2 DEF MutualInv
<1>10. CASE t \notin consumed[n]
  <2>1. Confirmed(n, p, t)
    BY <1>1, <1>2, <1>3, <1>10, OfferOpen DEF Confirm
  <2>2. [nonce |-> t, since |-> Clock(n)] # Stranger
    BY <1>1, FriendsAssumption DEF Stranger
  <2>3. /\ friends'[n][p] # Stranger /\ t \in consumed'[n] /\ Grows
        /\ \A k \in Nodes, u \in Tokens : u \in consumed'[k] => u \in consumed[k] \/ (k = n /\ u = t)
    BY <1>1, <2>1, <2>2 DEF TypeOK, Confirmed, Grows
  <2> HIDE DEF n, t, p
  <2>4. ASSUME NEW k \in Nodes, NEW u \in Tokens PROVE Answered(k, u)'
    <3>1. Answered(k, u) /\ Giver[u] \in Nodes
      BY FriendsAssumption DEF MutualInv
    <3>2. k # Giver[u] => (u \in consumed'[k] => u \in consumed[k])
      BY <1>2, <2>3
    <3>3. QED
      BY <1>2, <1>8, <2>3, <3>1, <3>2 DEF Answered, Grows
  <2>5. ASSUME NEW k \in Nodes, NEW u \in Tokens PROVE Taken(k, u)'
    <3>1. Taken(k, u) /\ Bearers[u] \subseteq Nodes
      BY FriendsAssumption DEF MutualInv
    <3>2. CASE u = t
      BY <1>1, <1>2, <1>3, <1>4, <1>5, <2>3, <3>2 DEF Taken, Grows
    <3>3. CASE u # t
      BY <2>3, <3>1, <3>3 DEF Taken, Grows
    <3>4. QED
      BY <3>2, <3>3
  <2>6. QED
    BY <1>6, <1>7, <2>4, <2>5 DEF MutualInv
<1>11. QED
  BY <1>9, <1>10

\* A save takes what waited for it, and sends none of it yet.
LEMMA MutualWriteBegins ==
    ASSUME Inv(TRUE), MutualInv, NEW n \in Nodes, NEW ms \in outbox[n] \cup {{}}, WriteBegins(n, ms)
    PROVE  MutualInv'
<1>1. TypeOK /\ UNCHANGED <<offered, pending, friends, consumed, issued, net>>
  BY DEF Inv, WriteBegins, bookVars
<1>2. /\ outbox'[n] = outbox[n] \ {ms} /\ \A k \in Nodes \ {n} : outbox'[k] = outbox[k]
      /\ writes'[n] = writes[n] \cup {[book |-> Written(n), msgs |-> ms]}
      /\ \A k \in Nodes \ {n} : writes'[k] = writes[k]
  BY <1>1 DEF TypeOK, WriteBegins
<1>3. Unsent(n)' = Unsent(n)
  <2> DEFINE w == [book |-> Written(n), msgs |-> ms]
  <2>1. w.msgs = ms
    OBVIOUS
  <2> HIDE DEF w
  <2>2. UNION {v.msgs : v \in writes'[n]} = (UNION {v.msgs : v \in writes[n]}) \cup ms
    BY <1>2, <2>1 DEF w
  <2>3. (UNION outbox'[n]) \cup ms = (UNION outbox[n]) \cup ms /\ (ms \in outbox[n] \/ ms = {})
    BY <1>2
  <2>4. ms \subseteq UNION outbox[n]
    BY <2>3
  <2>5. QED
    BY <2>2, <2>3, <2>4 DEF Unsent
<1>4. \A k \in Nodes : Unsent(k)' = Unsent(k)
  BY <1>2, <1>3 DEF Unsent
<1>5. AllAddressed'
  BY <1>1, <1>4 DEF MutualInv, AllAddressed, Addressed
<1>6. Dated' /\ Grows
  BY <1>1 DEF MutualInv, Dated, Grows
<1>7. \A k \in Nodes, u \in Tokens : Answered(k, u)' /\ Taken(k, u)'
  BY <1>1, <1>4, <1>6, AnsweredStays
<1>8. QED
  BY <1>5, <1>6, <1>7 DEF MutualInv

\* What waited for a write is on its way when it has landed.
LEMMA MutualWriteLands ==
    ASSUME Inv(TRUE), MutualInv, NEW n \in Nodes, NEW w \in writes[n], WriteLands(n, w)
    PROVE  MutualInv'
<1>1. TypeOK /\ UNCHANGED <<offered, pending, friends, consumed, issued, outbox>>
  BY DEF Inv, WriteLands, bookVars
<1>2. /\ net' = net \cup w.msgs /\ writes'[n] = writes[n] \ {w}
      /\ \A k \in Nodes \ {n} : writes'[k] = writes[k]
  BY <1>1 DEF TypeOK, WriteLands
<1>3. \A k \in Nodes : Unsent(k)' \subseteq Unsent(k) /\ Unsent(k) \subseteq Unsent(k)' \cup net'
  BY <1>1, <1>2 DEF Unsent
<1>4. w.msgs \subseteq Unsent(n)
  BY DEF Unsent
<1>5. AllAddressed'
  BY <1>1, <1>2, <1>3, <1>4 DEF MutualInv, AllAddressed, Addressed
<1>6. Dated' /\ Grows
  BY <1>1 DEF MutualInv, Dated, Grows
<1>7. \A k \in Nodes, u \in Tokens :
          Acc(u, k) \in Unsent(k) \cup net => Acc(u, k) \in (Unsent(k) \cup net)'
  BY <1>2, <1>3
<1>8. \A k \in Nodes, u \in Tokens : Answered(k, u)' /\ Taken(k, u)'
  BY <1>1, <1>6, <1>7, AnsweredStays
<1>9. QED
  BY <1>5, <1>6, <1>8 DEF MutualInv

\* Every step that calm allows keeps the invariant.
LEMMA MutualStep == Calm /\ Inv(TRUE) /\ MutualInv /\ [Next]_vars => MutualInv'
<1> SUFFICES ASSUME Calm, Inv(TRUE), MutualInv, [Next]_vars PROVE MutualInv'
  OBVIOUS
<1>1. TypeOK /\ Notices = {}
  BY DEF Inv, Calm, Notices
<1>2. ASSUME NEW n \in Nodes, NEW p \in Nodes, IssueRevoke(n, p) PROVE FALSE
  BY <1>1, <1>2 DEF TypeOK, IssueRevoke, Calm
<1>3. ASSUME NEW m \in net, ReceiveRevoke(m) PROVE FALSE
  BY <1>1, <1>3, MessageParts DEF TypeOK, ReceiveRevoke, Inbound
<1>4. ASSUME NEW n \in Nodes, Crash(n) PROVE FALSE
  BY <1>4 DEF Crash, Calm
<1>5. ASSUME UNCHANGED <<bookVars, wireVars, issued>> PROVE MutualInv'
  BY <1>5 DEF MutualInv, AllAddressed, Addressed, Dated, Answered, Taken, Unsent, bookVars, wireVars
<1>6. CASE Tick
  BY <1>5, <1>6 DEF Tick
<1>7. CASE UNCHANGED vars
  BY <1>5, <1>7 DEF vars
<1>8. QED
  BY <1>2, <1>3, <1>4, <1>6, <1>7, MutualIssueToken, MutualAccept, MutualReceive, MutualConfirm,
     MutualWriteBegins, MutualWriteLands DEF Next

\* "One token, one accept, mutual result" (04-friending-protocol.md:47): once all
\* messages have arrived each friend of a node has the node as its friend, unless
\* another bearer of the same code was faster (friends.ts:246-285). Nobody revokes or
\* restarts and no offer expires; messages may come again and in any order.
THEOREM MutualHolds == ASSUME Calm PROVE Spec => []Mutual
<1>1. Inv(TRUE) /\ MutualInv => Mutual
  <2> SUFFICES ASSUME Inv(TRUE), MutualInv, Quiet, NEW n \in Nodes, NEW p \in Nodes,
                      friends[n][p].nonce # None, friends[p][n] = Stranger
               PROVE  LET t == friends[n][p].nonce IN
                      p = Giver[t] /\ \E q \in Bearers[t] \ {n, p} : t \in consumed[q]
    BY DEF Mutual
  <2> DEFINE t == friends[n][p].nonce
  <2>1. t \in Tokens
    BY DEF Inv, TypeOK, Friendships
  <2>2. /\ t \in consumed[n]
        /\ IF n = Giver[t] THEN t \in saved[p].consumed ELSE p = Giver[t]
    <3>1. Befriended(n, Book(n), OffersOnDisk, SpentOnDisk) /\ SpentOnDisk[p] = saved[p].consumed
      BY InvApart DEF BookGood
    <3>2. Book(n).friends[p].nonce = t /\ Book(n).consumed = consumed[n] /\ t # None
      BY DEF Book
    <3>3. QED
      BY <3>1, <3>2 DEF Befriended
  <2>3. saved[p].consumed \subseteq consumed[p]
    BY InvApart DEF Follows, Book
  <2>4. Answered(n, t) /\ Answered(p, t) /\ Taken(p, t) /\ Unsent(n) = {} /\ net = {}
    BY <2>1 DEF MutualInv, Quiet, Unsent
  <2>5. n # p
    BY FriendsAssumption DEF Stranger
  <2> HIDE DEF t
  <2>6. n # Giver[t]
    BY <2>2, <2>3, <2>4, <2>5 DEF Answered
  <2>7. p = Giver[t] /\ t \in consumed[p]
    BY <2>2, <2>4, <2>6 DEF Answered
  <2>8. PICK q \in Bearers[t] \ {p} : t \in consumed[q] /\ friends[p][q] # Stranger
    BY <2>4, <2>7 DEF Taken
  <2>9. QED
    BY <2>7, <2>8 DEF t
<1>2. Inv(TRUE) /\ MutualInv /\ [Next]_vars => MutualInv'
  BY MutualStep
<1>4. "overlap" \notin Faults
  BY DEF Calm
<1>3. QED
  BY <1>1, <1>2, <1>4, MutualInit, InvHoldsApart, ApartHolds, PTL DEF Spec
=============================================================================
