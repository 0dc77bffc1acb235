--------------------------- MODULE RefreshTokens ---------------------------
(***************************************************************************)
(* Refresh tokens on the application servers: create_refresh_token, the    *)
(* end of login and refresh_access_token of application_server/main.py,    *)
(* with the sync events between the servers.                               *)
(*                                                                         *)
(* Both routes run on worker threads; every commit that others can see and *)
(* every read that a later step relies on is one step.  Sync events arrive *)
(* in any order, late or never, and each is applied at most once: this is  *)
(* what SyncManager shows of the replication.  An event is therefore       *)
(* created in the step of the commit before it: being on its way is not    *)
(* distinguishable from being created later, nor is being lost from a      *)
(* crash, or an error swallowed by _sync_event, before it was created.     *)
(***************************************************************************)
EXTENDS Naturals, FiniteSets

CONSTANTS
    Nodes,    \* application servers
    Threads,  \* worker threads of all servers
    Server,   \* Server[t]: the server of thread t
    Users,
    Tokens,   \* token hashes, each drawn once
    None,     \* no token, no user
    MaxRequests  \* bound: refreshes that find a row

ASSUME ServerAssumption == Server \in [Threads -> Nodes]
ASSUME FiniteAssumption == IsFiniteSet(Threads) /\ IsFiniteSet(Tokens)
ASSUME RequestsAssumption == MaxRequests \in Nat
ASSUME NoneAssumption == None \notin Tokens \cup Users \cup Nodes

VARIABLES
    status,    \* refresh_tokens of each server: is_revoked of each row
    issued,    \* token -> who got it, where, and in exchange for which token
    events,    \* sync events on their way to a peer
    call,      \* the request each worker thread is executing
    requests,  \* number of refreshes so far
    used,      \* for the properties: tokens exchanged at some server
    replayed   \* for the properties: users whose tokens a replay has revoked

vars == <<status, issued, events, call, requests, used, replayed>>

Statuses == {"absent", "valid", "revoked"}
Issues == [user: Users, home: Nodes, parent: Tokens \cup {None}]
Unissued == [user |-> None, home |-> None, parent |-> None]
Events == [to: Nodes, token: Tokens, revoked: BOOLEAN]
Calls  == [pc: {"idle", "revoke", "exchange", "revokeAll", "announce"},
           old: Tokens \cup {None}]  \* the token the request presented

Idle == [pc |-> "idle", old |-> None]

Init ==
    /\ status = [n \in Nodes |-> [k \in Tokens |-> "absent"]]
    /\ issued = [k \in Tokens |-> Unissued]
    /\ events = {}
    /\ call = [t \in Threads |-> Idle]
    /\ requests = 0
    /\ used = {}
    /\ replayed = {}

At(t, pc) == call[t].pc = pc

Goto(t, pc) == call' = [call EXCEPT ![t].pc = pc]

IsIssued(k) == issued[k] # Unissued

\* The user of the token that the request of t presented.
Owner(t) == issued[call[t].old].user

\* The rows of user u in the table of server n.
TokensOf(n, u) == {k \in Tokens : status[n][k] # "absent" /\ issued[k].user = u}

\* Fault: the server itself is one of the peers.
AnnounceEverywhere(n, tokens, revoked) ==
    events' = events \cup [to: Nodes, token: tokens, revoked: {revoked}]

\* _sync_event about each of the tokens, from server n to every peer.
Announce(n, tokens, revoked) ==
    events' = events \cup [to: Nodes \ {n}, token: tokens, revoked: {revoked}]

-----------------------------------------------------------------------------
\* The end of POST /auth/login, and create_refresh_token.

\* A new token k for user u, and its INSERT event with the literal False.
CreateToken(t, u, k) ==
    /\ ~IsIssued(k)
    /\ issued' = [issued EXCEPT ![k] = [user |-> u, home |-> Server[t], parent |-> call[t].old]]
    /\ status' = [status EXCEPT ![Server[t]][k] = "valid"]
    /\ Announce(Server[t], {k}, FALSE)
    /\ call' = [call EXCEPT ![t] = Idle]
    /\ UNCHANGED <<requests, used, replayed>>

\* The password was right.
Login(t, u, k) == At(t, "idle") /\ CreateToken(t, u, k)

-----------------------------------------------------------------------------
\* POST /auth/refresh.

\* The row is read, and decides how the request goes on.
Begin(t, k, pc) ==
    /\ At(t, "idle")
    /\ requests < MaxRequests
    /\ requests' = requests + 1
    /\ call' = [call EXCEPT ![t] = [pc |-> pc, old |-> k]]
    /\ UNCHANGED <<status, issued, events, used, replayed>>

\* Fault: is_revoked of the row is not looked at.
PresentUnchecked(t, k) == status[Server[t]][k] # "absent" /\ Begin(t, k, "revoke")

\* Fault: a token without a row is not refused.
PresentUnknown(t, k) ==
    \/ status[Server[t]][k] # "revoked" /\ Begin(t, k, "revoke")
    \/ status[Server[t]][k] = "revoked" /\ Begin(t, k, "revokeAll")

\* A revoked token is a replay, expired or not.  A token that is absent or
\* expired is refused, which changes nothing.
Present(t, k) ==
    \/ status[Server[t]][k] = "valid" /\ Begin(t, k, "revoke")
    \/ status[Server[t]][k] = "revoked" /\ Begin(t, k, "revokeAll")

\* The old token is revoked, whatever is_revoked is by now; UPDATE event.
Revoke(t) ==
    /\ At(t, "revoke")
    /\ status' = [status EXCEPT ![Server[t]][call[t].old] = "revoked"]
    /\ Announce(Server[t], {call[t].old}, TRUE)
    /\ used' = used \cup {call[t].old}
    /\ Goto(t, "exchange")
    /\ UNCHANGED <<issued, requests, replayed>>

\* The user's row is read, and a new token created.
Exchange(t, k) == At(t, "exchange") /\ CreateToken(t, Owner(t), k)

\* The row of a user who registered elsewhere may arrive after the token: 401,
\* and the token is spent.
UserUnknown(t) ==
    /\ At(t, "exchange")
    /\ issued[call[t].old].home # Server[t]
    /\ call' = [call EXCEPT ![t] = Idle]
    /\ UNCHANGED <<status, issued, events, requests, used, replayed>>

RevokeRows(t, tokens) ==
    /\ At(t, "revokeAll")
    /\ status' = [status EXCEPT ![Server[t]] =
          [k \in Tokens |-> IF k \in tokens THEN "revoked" ELSE status[Server[t]][k]]]
    /\ replayed' = replayed \cup {Owner(t)}
    /\ Goto(t, "announce")
    /\ UNCHANGED <<issued, events, requests, used>>

\* Fault: the UPDATE is not restricted to the user of the replayed token.
RevokeAllUsers(t) == RevokeRows(t, UNION {TokensOf(Server[t], u) : u \in Users})

\* A replay: one UPDATE revokes all tokens of the user.
RevokeAll(t) == RevokeRows(t, TokensOf(Server[t], Owner(t)))

\* The tokens to announce are read after that commit, newer ones included; one
\* UPDATE event each with the literal True.  The answer is a 401.
AnnounceAll(t) ==
    /\ At(t, "announce")
    /\ Announce(Server[t], TokensOf(Server[t], Owner(t)), TRUE)
    /\ call' = [call EXCEPT ![t] = Idle]
    /\ UNCHANGED <<status, issued, requests, used, replayed>>

-----------------------------------------------------------------------------
\* Replication and crashes.

SetRow(e) ==
    /\ e \in events
    /\ status' = [status EXCEPT ![e.to][e.token] = IF e.revoked THEN "revoked" ELSE "valid"]
    /\ UNCHANGED <<issued, call, requests, used, replayed>>

\* Fault: an event that is pushed again is applied again.
ApplyAgain(e) == SetRow(e) /\ events' \in {events, events \ {e}}

(***************************************************************************)
(* The peer inserts the row or overwrites is_revoked, whichever event it   *)
(* is.  There is one INSERT event per token and peer; several UPDATE       *)
(* events with the same content are one element of the set, so one of them *)
(* may remain.                                                             *)
(***************************************************************************)
Apply(e) ==
    /\ SetRow(e)
    /\ \/ events' = events \ {e}
       \/ e.revoked /\ UNCHANGED events

\* A server process dies, and its requests with it.  Its tables stay.
Crash(n) ==
    /\ call' = [t \in Threads |-> IF Server[t] = n THEN Idle ELSE call[t]]
    /\ UNCHANGED <<status, issued, events, requests, used, replayed>>

Request(t) ==
    \/ \E u \in Users, k \in Tokens : Login(t, u, k)
    \/ \E k \in Tokens : Present(t, k) \/ Exchange(t, k)
    \/ Revoke(t) \/ UserUnknown(t)
    \/ RevokeAll(t) \/ AnnounceAll(t)

Next ==
    \/ \E t \in Threads : Request(t)
    \/ \E e \in events : Apply(e)
    \/ \E n \in Nodes : Crash(n)

Spec == Init /\ [][Next]_vars

-----------------------------------------------------------------------------
\* Properties.

\* Every variable has its type: the tables, the events and the requests.
TypeOK ==
    /\ status \in [Nodes -> [Tokens -> Statuses]]
    /\ issued \in [Tokens -> Issues \cup {Unissued}]
    /\ events \in SUBSET Events
    /\ call \in [Threads -> Calls]
    /\ requests \in 0 .. MaxRequests
    /\ used \in SUBSET Tokens
    /\ replayed \in SUBSET Users

\* The tokens issued at n in exchange for k.
Offspring(n, k) == {c \in Tokens : issued[c].home = n /\ issued[c].parent = k}

\* "The used refresh token is revoked (one-time use) and a new one is issued":
\* no token is exchanged for two.
OneTimeUse ==
    \A k, c, d \in Tokens :
        issued[c].parent = k /\ issued[d].parent = k => c = d

\* What is left of one-time use: although refreshes overlap and a late INSERT
\* event makes a revoked token valid again, one server exchanges a token at
\* most as often as it has worker threads.
ExchangesOverlap ==
    \A n \in Nodes, k \in Tokens :
        Cardinality(Offspring(n, k)) <= Cardinality({t \in Threads : Server[t] = n})

\* A token revoked at the server that issued it never becomes valid there
\* again: no event, refresh, replay or crash brings it back.
HomeStaysRevoked ==
    [][\A k \in Tokens : IsIssued(k) /\ status[issued[k].home][k] = "revoked"
          => status'[issued[k].home][k] = "revoked"]_vars

\* A session is ended for a cause only: a token revoked at any server was
\* exchanged at some server, or a revoked token of the same user was presented.
RevokedForCause ==
    \A n \in Nodes, k \in Tokens :
        status[n][k] = "revoked" => k \in used \/ issued[k].user \in replayed

=============================================================================
