------------------------------- MODULE Access -------------------------------
(***************************************************************************)
(* Who may use the management routes of an island node: the admin token,   *)
(* made at the first boot and shown once (provisionAdminToken and GET      *)
(* /admin/firstrun, island/src/main.ts), the guards of the routes          *)
(* (requireOperator, requireAdmin, core/auth.ts), the limiter of failed    *)
(* attempts (core/ratelimit.ts), and the routes of /api/files, which       *)
(* compare the same tokens without it (authorizeShare).                    *)
(*                                                                         *)
(* A guard runs without an await, so a request is one step; a reveal waits *)
(* for the file system. --mock, in which every guard is open, is left out. *)
(* Attempts have ages instead of dates.                                    *)
(*                                                                         *)
(* Definitions introduced as a "slip" are mistakes the code could have     *)
(* made; no action uses them.                                              *)
(***************************************************************************)
EXTENDS Integers, FiniteSets, Sequences, Lists

CONSTANTS Ips,           \* source addresses
          Loopback,      \* those on the host itself
          Slots,         \* GET /admin/firstrun requests at work at once
          EnvChoices,    \* whether ISLAND_ADMIN_TOKEN may be set at a boot
          Max,           \* failures that lock an address out
          Window,        \* how long they count, in ticks
          MaxPast        \* bound: attempts and restarts within a window

ASSUME AccessAssumption ==
    /\ Loopback \subseteq Ips /\ EnvChoices \subseteq BOOLEAN
    /\ Max \in Nat \ {0} /\ Window \in Nat \ {0} /\ MaxPast \in Nat

VARIABLES stage,         \* of the process: down, two stages of boot, up
          token,         \* ctx.adminToken: the operator's own, the node's, or none
          file,          \* admin.token
          marker,        \* whether admin.token.fresh exists
          reveal,        \* per slot: what its reveal is at
          hits,          \* per address: ages of the failures the limiter knows
          \* History, read by the properties only:
          shown,         \* tokens that were shown
          stuck,         \* whether the marker is still there because unlink failed
          past,          \* per address: attempts a guard judged, and restarts
          unlimited      \* per address: failed attempts at the routes of the share

bootVars == <<stage, token, file, marker>>
revealVars == <<reveal, shown, stuck>>
limiterVars == <<hits, past, unlimited>>
vars == <<bootVars, revealVars, limiterVars>>

NoAttempts == [i \in Ips |-> <<>>]

\* The bound on what the history holds, of all addresses together.
Entries(h) == Cardinality({e \in Ips \X (1 .. MaxPast) : e[2] \in DOMAIN h[e[1]]})
HasRoom == Entries(past) + Entries(unlimited) < MaxPast
-----------------------------------------------------------------------------
(* The token and its one showing.                                          *)

\* A boot, provisionAdminToken(): the operator's token wins, else the saved one
\* is read, of which a crash may have left nothing, else one is made.
Boot(env) ==
    /\ stage = "down"
    /\ \/ env /\ stage' = "up" /\ token' = "env" /\ UNCHANGED file
       \/ /\ ~env /\ file # "absent"
          /\ stage' = "up" /\ token' = IF file = "whole" THEN "auto" ELSE "none"
          /\ UNCHANGED file
       \/ /\ ~env /\ file = "absent"
          /\ stage' = "writing" /\ file' = "torn" /\ UNCHANGED token
    /\ UNCHANGED <<marker, revealVars, limiterVars>>

TokenLands ==
    /\ stage = "writing" /\ stage' = "marking" /\ file' = "whole"
    /\ UNCHANGED <<token, marker, revealVars, limiterVars>>

MarkerLands ==
    /\ stage = "marking" /\ stage' = "up" /\ marker' = TRUE /\ token' = "auto"
    /\ UNCHANGED <<file, revealVars, limiterVars>>

\* A restart, where it ends a row of failures.
CutShort(s) ==
    IF s # <<>> /\ s[Len(s)].what = "failed" THEN Append(s, [age |-> 0, what |-> "restart"]) ELSE s

\* The process ends. Its limiter is forgotten; what was tried is not undone.
Crash ==
    /\ stage # "down" /\ stage' = "down" /\ token' = "none"
    /\ HasRoom
    /\ reveal' = [s \in Slots |-> "idle"]
    /\ hits' = NoAttempts
    /\ past' = [ip \in Ips |-> CutShort(past[ip])]
    /\ UNCHANGED <<file, marker, shown, stuck, unlimited>>

\* GET /admin/firstrun: look for the marker, then unlink it, then answer, also if
\* the unlink has failed and the marker is still there.
RevealBegins(s) ==
    /\ stage = "up" /\ token # "none" /\ marker /\ reveal[s] = "idle"
    /\ reveal' = [reveal EXCEPT ![s] = "unlinking"]
    /\ UNCHANGED <<bootVars, shown, stuck, limiterVars>>

\* Slip: the token is answered while the marker is still to be unlinked.
AnswerableEarly(s) == reveal[s] \in {"unlinking", "unlinked"}

Answerable(s) == reveal[s] = "unlinked"

Unlinks(s) ==
    /\ reveal[s] = "unlinking"
    /\ \/ marker' = FALSE /\ stuck' = FALSE
       \/ marker /\ stuck' = TRUE /\ UNCHANGED marker
    /\ reveal' = [reveal EXCEPT ![s] = "unlinked"]
    /\ UNCHANGED <<stage, token, file, shown, limiterVars>>

Answers(s) ==
    /\ Answerable(s)
    /\ shown' = shown \cup {token}
    /\ reveal' = [reveal EXCEPT ![s] = "idle"]
    /\ UNCHANGED <<bootVars, stuck, limiterVars>>
-----------------------------------------------------------------------------
(* The limiter. Ages beyond the window are dropped as time passes, which is *)
(* what recent() does when it is next asked.                               *)

Ages == 0 .. Window - 1
Outcomes == {"failed", "passed", "restart"}
Counting == [age : Ages] \cup [age : Ages, what : Outcomes]

Older(s) == [i \in DOMAIN s |-> [s[i] EXCEPT !.age = @ + 1]]
Aged(s) == Filter(Older(s), Counting)

\* Slip: one attempt too many.
LockedLate(ip) == Len(hits[ip]) > Max

Locked(ip) == Len(hits[ip]) >= Max

\* Slip: an attempt is a failure also while its address is locked out.
CountedLocked(ip) == TRUE

\* Whether the token of a request is looked at, and may count as a failure.
Counted(ip) == ~Locked(ip)

\* fail() and reset().
Fail(ip) == hits' = [hits EXCEPT ![ip] = Append(@, [age |-> 0])]
Reset(ip) == hits' = [hits EXCEPT ![ip] = <<>>]

\* manageOk(): loopback, the operator's token, or the admin's.
ManageOk(ip, cred) == ip \in Loopback \/ cred = "op" \/ (token # "none" /\ cred = token)

\* tokenOk(), where a node without a token admits nobody.
AdminOk(cred) == token # "none" /\ cred = token

\* requireOperator() and requireAdmin(), which answers first of all if the node
\* has no token.
Attempt(ip, route, cred) ==
    LET ok == IF route = "admin" THEN AdminOk(cred) ELSE ManageOk(ip, cred) IN
    /\ stage = "up" /\ (route = "admin" => token # "none")
    /\ Counted(ip) /\ HasRoom
    /\ IF ok THEN Reset(ip) ELSE Fail(ip)
    /\ past' = [past EXCEPT ![ip] = Append(@, [age |-> 0, what |-> IF ok THEN "passed" ELSE "failed"])]
    /\ UNCHANGED <<bootVars, revealVars, unlimited>>

\* authorizeShare(), in front of /api/files: the same test, neither stopped by the
\* limiter nor counted by it. Whoever fails it may still be a friend (Share).
ShareAttempt(ip, cred) ==
    /\ stage = "up" /\ ~ManageOk(ip, cred) /\ HasRoom
    /\ unlimited' = [unlimited EXCEPT ![ip] = Append(@, [age |-> 0])]
    /\ UNCHANGED <<bootVars, revealVars, hits, past>>

Pass ==
    /\ stage = "up"
    /\ hits' = [ip \in Ips |-> Aged(hits[ip])]
    /\ past' = [ip \in Ips |-> Aged(past[ip])]
    /\ unlimited' = [ip \in Ips |-> Aged(unlimited[ip])]
    /\ UNCHANGED <<bootVars, revealVars>>
-----------------------------------------------------------------------------
Init ==
    /\ stage = "down" /\ token = "none" /\ file = "absent" /\ marker = FALSE
    /\ reveal = [s \in Slots |-> "idle"]
    /\ shown = {} /\ stuck = FALSE
    /\ hits = NoAttempts /\ past = NoAttempts /\ unlimited = NoAttempts

Next ==
    \/ \E env \in EnvChoices : Boot(env)
    \/ TokenLands \/ MarkerLands \/ Crash
    \/ \E s \in Slots : RevealBegins(s) \/ Unlinks(s) \/ Answers(s)
    \/ \E ip \in Ips, route \in {"operator", "admin"}, cred \in {"op", "env", "auto", "wrong"} :
         Attempt(ip, route, cred)
    \/ \E ip \in Ips, cred \in {"op", "env", "auto", "wrong"} : ShareAttempt(ip, cred)
    \/ Pass

Spec == Init /\ [][Next]_vars

\* Time passes.
FairSpec == Spec /\ WF_vars(Pass)
-----------------------------------------------------------------------------
(* Properties.                                                             *)

\* The variables hold what the code keeps in them, and a node whose boot is not
\* over has no token in memory, so it admits nobody.
TypeOK ==
    /\ stage \in {"down", "writing", "marking", "up"}
    /\ token \in {"none", "auto", "env"} /\ (stage # "up" => token = "none")
    /\ file \in {"absent", "torn", "whole"} /\ marker \in BOOLEAN
    /\ reveal \in [Slots -> {"idle", "unlinking", "unlinked"}]
    /\ shown \subseteq {"none", "auto", "env"} /\ stuck \in BOOLEAN
    /\ DOMAIN hits = Ips /\ DOMAIN past = Ips /\ DOMAIN unlimited = Ips

\* "This caps FAILED attempts per source IP in a sliding window" (ratelimit.ts:5),
\* for the routes that ask the limiter: whatever the order of failures, successes,
\* lock-outs, waits and restarts, an address fails at most Max times in a row within
\* a window, a row ending where it succeeds or the process restarts. With n restarts
\* in the window it is thus Max * (n + 1) at most. Counted from the history, which
\* outlives the process, and not from the limiter's own list.
GuessesBounded ==
    \A ip \in Ips : \A i, j \in DOMAIN past[ip] :
        i <= j /\ (\A k \in i .. j : past[ip][k].what = "failed") => j - i < Max

\* "consume first, so a re-read can't re-reveal" (main.ts:619): once a token has
\* been shown, no later request finds the marker, also after crashes and boots with
\* another token, however many requests were at work; unless the unlink that was to
\* remove it failed, which the route passes over.
ConsumedFirst == shown # {} /\ marker => stuck

\* "locked out (HTTP 429) until the failures age out" (ratelimit.ts:6): an address
\* that is locked out is not so for ever, also if it goes on trying.
LockEnds == \A ip \in Ips : Locked(ip) ~> ~Locked(ip)
=============================================================================
