------------------------ MODULE RefreshTokensProofs ------------------------
(***************************************************************************)
(* Proofs about RefreshTokens, for every number of servers, threads, users *)
(* and tokens.                                                             *)
(***************************************************************************)
EXTENDS RefreshTokens, FiniteSetTheorems, TLAPS

-----------------------------------------------------------------------------
\* The inductive invariant.

\* A row and an event are about a token that was issued.
RowsIssued ==
    /\ \A n \in Nodes, k \in Tokens : status[n][k] # "absent" => IsIssued(k)
    /\ \A e \in events : IsIssued(e.token)

\* A request in progress has presented a token that was issued.
CallsIssued ==
    \A t \in Threads : call[t].pc # "idle" => call[t].old \in Tokens /\ IsIssued(call[t].old)

\* What may have ended the session of token k.
Cause(k) == k \in used \/ issued[k].user \in replayed

\* Every revocation has a cause: in the tables, on its way, and in requests
\* that are about to spread it.
Causes ==
    /\ \A n \in Nodes, k \in Tokens : status[n][k] = "revoked" => Cause(k)
    /\ \A e \in events : e.revoked => Cause(e.token)
    /\ \A t \in Threads : call[t].pc = "announce" => issued[call[t].old].user \in replayed

\* The event that a token was inserted never goes to the server that did it.
NotHome == \A e \in events : ~e.revoked => e.to # issued[e.token].home

IInv == TypeOK /\ RowsIssued /\ CallsIssued /\ Causes /\ NotHome

-----------------------------------------------------------------------------
\* A token that was issued has a user and a home.
LEMMA IssuedFields ==
    ASSUME TypeOK, NEW k \in Tokens, IsIssued(k)
    PROVE  issued[k] \in Issues /\ issued[k].user \in Users /\ issued[k].home \in Nodes
BY DEF TypeOK, IsIssued, Issues

\* The request of a busy thread has an owner.
LEMMA OwnerIsUser ==
    ASSUME TypeOK, CallsIssued, NEW t \in Threads, call[t].pc # "idle"
    PROVE  /\ call[t].old \in Tokens /\ IsIssued(call[t].old)
           /\ Owner(t) \in Users /\ Server[t] \in Nodes
BY IssuedFields, ServerAssumption DEF CallsIssued, Owner

\* A new issue record is not the absence of one.
LEMMA NewIssue ==
    ASSUME NEW u \in Users, NEW n \in Nodes, NEW p \in Tokens \cup {None}
    PROVE  /\ [user |-> u, home |-> n, parent |-> p] \in Issues
           /\ [user |-> u, home |-> n, parent |-> p] # Unissued
<1>1. u # None
  BY NoneAssumption
<1> QED BY <1>1 DEF Issues, Unissued

LEMMA InitIInv == Init => IInv
<1> SUFFICES ASSUME Init PROVE IInv
  OBVIOUS
<1> USE DEF Init
<1>1. TypeOK
  BY RequestsAssumption, SMT DEF TypeOK, Statuses, Issues, Unissued, Events, Calls, Idle
<1>2. RowsIssued /\ CallsIssued /\ Causes /\ NotHome
  BY DEF RowsIssued, CallsIssued, Causes, NotHome, Idle
<1> QED BY <1>1, <1>2 DEF IInv

-----------------------------------------------------------------------------
\* A new token, at the end of a login or of a refresh.
LEMMA CreateTokenStep ==
    ASSUME IInv, NEW t \in Threads, NEW u \in Users, NEW k \in Tokens, CreateToken(t, u, k)
    PROVE  IInv'
<1> USE DEF IInv
<1> DEFINE n == Server[t]
           new == [user |-> u, home |-> n, parent |-> call[t].old]
<1>1. n \in Nodes /\ call[t].old \in Tokens \cup {None} /\ call[t] \in Calls
  BY ServerAssumption DEF TypeOK, Calls
<1>2. new \in Issues /\ new # Unissued /\ new.user = u /\ new.home = n
  BY <1>1, NewIssue
<1>3. /\ ~IsIssued(k)
      /\ issued' = [issued EXCEPT ![k] = new]
      /\ status' = [status EXCEPT ![n][k] = "valid"]
      /\ events' = events \cup [to: Nodes \ {n}, token: {k}, revoked: {FALSE}]
      /\ call' = [call EXCEPT ![t] = Idle]
      /\ requests' = requests /\ used' = used /\ replayed' = replayed
  BY DEF CreateToken, Announce
<1> HIDE DEF new, n
<1>4. TypeOK'
  BY <1>1, <1>2, <1>3 DEF TypeOK, Statuses, Events, Calls, Idle
<1>5. /\ issued'[k] = new
      /\ \A j \in Tokens : j # k => issued'[j] = issued[j] /\ (IsIssued(j))' = IsIssued(j)
      /\ (IsIssued(k))'
  BY <1>2, <1>3 DEF TypeOK, IsIssued
<1>6. \A m \in Nodes, j \in Tokens :
          status'[m][j] = status[m][j] \/ (j = k /\ status'[m][j] = "valid")
  BY <1>1, <1>3 DEF TypeOK
<1>7. \A e \in events' :
          \/ e \in events /\ e.token \in Tokens /\ e.token # k
          \/ e.token = k /\ ~e.revoked /\ e.to # n
  BY <1>3 DEF TypeOK, Events, RowsIssued
<1>8. RowsIssued'
  BY <1>5, <1>6, <1>7 DEF RowsIssued
<1>9. \A s \in Threads : call'[s] = Idle \/ (s # t /\ call'[s] = call[s])
  BY <1>3 DEF TypeOK
<1>10. CallsIssued'
  BY <1>3, <1>5, <1>9 DEF CallsIssued, Idle
<1>11. Causes'
  <2>1. \A m \in Nodes, j \in Tokens : status'[m][j] = "revoked" => Cause(j)'
    <3> SUFFICES ASSUME NEW m \in Nodes, NEW j \in Tokens, status'[m][j] = "revoked"
                 PROVE  Cause(j)'
      OBVIOUS
    <3>1. status[m][j] = "revoked"
      BY <1>6
    <3>2. j # k
      BY <3>1, <1>3 DEF RowsIssued
    <3> QED BY <3>1, <3>2, <1>3, <1>5 DEF Causes, Cause
  <2>2. \A e \in events' : e.revoked => Cause(e.token)'
    <3> SUFFICES ASSUME NEW e \in events', e.revoked
                 PROVE  Cause(e.token)'
      OBVIOUS
    <3>1. e \in events /\ e.token \in Tokens /\ e.token # k
      BY <1>7
    <3>2. Cause(e.token) /\ issued'[e.token] = issued[e.token]
      BY <1>5, <3>1 DEF Causes
    <3> QED BY <1>3, <3>2 DEF Cause
  <2>3. \A s \in Threads : call'[s].pc = "announce" => issued'[call'[s].old].user \in replayed'
    BY <1>3, <1>5, <1>9 DEF Causes, Idle, CallsIssued
  <2> QED BY <2>1, <2>2, <2>3 DEF Causes
<1>12. NotHome'
  BY <1>2, <1>5, <1>7 DEF NotHome
<1> QED BY <1>4, <1>8, <1>10, <1>11, <1>12

\* A step that leaves issued alone and only adds causes, and whose new rows,
\* events and calls keep what the invariant says.
LEMMA KeepInvariant ==
    ASSUME IInv, TypeOK', issued' = issued, used \subseteq used', replayed \subseteq replayed',
           \A n \in Nodes, k \in Tokens :
               \/ status'[n][k] = status[n][k]
               \/ IsIssued(k) /\ (status'[n][k] = "revoked" => Cause(k)'),
           \A e \in events' :
               \/ e \in events
               \/ IsIssued(e.token) /\ e.revoked /\ Cause(e.token)',
           \A t \in Threads :
               call'[t].pc # "idle" =>
                   /\ call'[t].old \in Tokens /\ IsIssued(call'[t].old)
                   /\ call'[t].pc = "announce" => issued[call'[t].old].user \in replayed'
    PROVE  IInv'
<1>1. \A k : IsIssued(k)' <=> IsIssued(k)
  BY DEF IsIssued
<1>2. \A k : Cause(k) => Cause(k)'
  BY DEF Cause
<1>3. RowsIssued' /\ CallsIssued'
  BY <1>1 DEF IInv, RowsIssued, CallsIssued
<1>4. Causes'
  BY <1>2 DEF IInv, Causes
<1>5. NotHome'
  BY DEF IInv, NotHome
<1> QED BY <1>3, <1>4, <1>5 DEF IInv

-----------------------------------------------------------------------------
\* Every step of a request keeps the invariant.
LEMMA RequestStep ==
    ASSUME IInv, NEW t \in Threads, Request(t)
    PROVE  IInv'
<1> USE DEF IInv
<1> DEFINE n == Server[t]
           old == call[t].old
<1>0. n \in Nodes /\ call[t] \in Calls /\ TypeOK
  BY ServerAssumption DEF TypeOK
<1>old. ASSUME call[t].pc # "idle"
        PROVE  old \in Tokens /\ IsIssued(old) /\ issued[old].user \in Users /\ Owner(t) = issued[old].user
  BY <1>old, OwnerIsUser DEF Owner
<1>calls. \A s \in Threads : call[s].pc # "idle" =>
              /\ call[s].old \in Tokens /\ IsIssued(call[s].old)
              /\ call[s].pc = "announce" => issued[call[s].old].user \in replayed
  BY DEF CallsIssued, Causes
<1> HIDE DEF n, old
<1>1. ASSUME NEW u \in Users, NEW k \in Tokens, Login(t, u, k)
      PROVE  IInv'
  BY <1>1, CreateTokenStep DEF Login
<1>2. ASSUME NEW k \in Tokens, Exchange(t, k)
      PROVE  IInv'
  <2>1. Owner(t) \in Users
    BY <1>2, <1>old DEF Exchange, At
  <2> QED BY <1>2, <2>1, CreateTokenStep DEF Exchange
<1>3. ASSUME NEW k \in Tokens, Present(t, k)
      PROVE  IInv'
  <2>1. PICK pc \in {"revoke", "revokeAll"} : Begin(t, k, pc) /\ status[n][k] # "absent"
    BY <1>3 DEF Present, n
  <2>2. /\ call' = [call EXCEPT ![t] = [pc |-> pc, old |-> k]]
        /\ requests < MaxRequests /\ requests' = requests + 1
        /\ UNCHANGED <<status, issued, events, used, replayed>>
    BY <2>1 DEF Begin
  <2>3. TypeOK'
    BY <1>0, <2>2, RequestsAssumption, SMT DEF TypeOK, Calls
  <2>4. IsIssued(k)
    BY <1>0, <2>1 DEF RowsIssued
  <2>5. \A s \in Threads : call'[s] = call[s] \/ call'[s] = [pc |-> pc, old |-> k]
    BY <2>2 DEF TypeOK
  <2> QED BY <1>calls, <2>2, <2>3, <2>4, <2>5, KeepInvariant
<1>4. CASE Revoke(t)
  <2>1. /\ call[t].pc = "revoke"
        /\ status' = [status EXCEPT ![n][old] = "revoked"]
        /\ events' = events \cup [to: Nodes \ {n}, token: {old}, revoked: {TRUE}]
        /\ used' = used \cup {old}
        /\ call' = [call EXCEPT ![t].pc = "exchange"]
        /\ UNCHANGED <<issued, requests, replayed>>
    BY <1>4 DEF Revoke, At, Announce, Goto, n, old
  <2>2. old \in Tokens /\ IsIssued(old)
    BY <2>1, <1>old
  <2>3. TypeOK'
    BY <1>0, <2>1, <2>2 DEF TypeOK, Statuses, Events, Calls
  <2>4. \A k \in Tokens : k = old => Cause(k)'
    BY <2>1 DEF Cause
  <2>5. \A m \in Nodes, k \in Tokens : status'[m][k] = status[m][k] \/ k = old
    BY <1>0, <2>1, <2>2 DEF TypeOK
  <2>6. \A e \in events' : e \in events \/ (e.token = old /\ e.revoked)
    BY <2>1
  <2>7. \A s \in Threads : call'[s] = call[s] \/ (s = t /\ call'[s].pc = "exchange" /\ call'[s].old = old)
    BY <1>0, <2>1 DEF TypeOK, Calls, old
  <2>8. \A e \in events' : e \in events \/ (IsIssued(e.token) /\ e.revoked /\ Cause(e.token)')
    BY <2>2, <2>4, <2>6
  <2>9. \A s \in Threads : call'[s].pc # "idle" =>
            /\ call'[s].old \in Tokens /\ IsIssued(call'[s].old)
            /\ call'[s].pc = "announce" => issued[call'[s].old].user \in replayed'
    BY <1>calls, <2>1, <2>2, <2>7
  <2>10. \A m \in Nodes, k \in Tokens :
            \/ status'[m][k] = status[m][k]
            \/ IsIssued(k) /\ (status'[m][k] = "revoked" => Cause(k)')
    BY <2>2, <2>4, <2>5
  <2>11. issued' = issued /\ used \subseteq used' /\ replayed \subseteq replayed'
    BY <2>1
  <2> QED BY <2>3, <2>8, <2>9, <2>10, <2>11, KeepInvariant
<1>5. CASE UserUnknown(t)
  <2>1. call' = [call EXCEPT ![t] = Idle] /\ UNCHANGED <<status, issued, events, requests, used, replayed>>
    BY <1>5 DEF UserUnknown
  <2>2. TypeOK'
    BY <2>1 DEF TypeOK, Calls, Idle
  <2>3. \A s \in Threads : call'[s] = call[s] \/ call'[s].pc = "idle"
    BY <2>1 DEF TypeOK, Idle
  <2> QED BY <1>calls, <2>1, <2>2, <2>3, KeepInvariant
<1>6. CASE RevokeAll(t)
  <2> DEFINE tokens == TokensOf(n, Owner(t))
  <2>1. /\ call[t].pc = "revokeAll"
        /\ status' = [status EXCEPT ![n] = [k \in Tokens |-> IF k \in tokens THEN "revoked" ELSE status[n][k]]]
        /\ replayed' = replayed \cup {Owner(t)}
        /\ call' = [call EXCEPT ![t].pc = "announce"]
        /\ UNCHANGED <<issued, events, requests, used>>
    BY <1>6 DEF RevokeAll, RevokeRows, At, Goto, n
  <2>2. old \in Tokens /\ IsIssued(old) /\ Owner(t) = issued[old].user /\ Owner(t) \in Users
    BY <2>1, <1>old
  <2>3. \A k \in tokens : k \in Tokens /\ IsIssued(k) /\ issued[k].user = Owner(t)
    BY <1>0 DEF TokensOf, RowsIssued
  <2>4. \A k \in tokens : Cause(k)'
    BY <2>1, <2>3 DEF Cause
  <2> HIDE DEF tokens
  <2>5. TypeOK'
    BY <1>0, <2>1, <2>2 DEF TypeOK, Statuses, Calls
  <2>6. \A m \in Nodes, k \in Tokens : status'[m][k] = status[m][k] \/ k \in tokens
    BY <1>0, <2>1 DEF TypeOK
  <2>7. \A s \in Threads : \/ s # t /\ call'[s] = call[s]
                           \/ s = t /\ call'[s].pc = "announce" /\ call'[s].old = old
    BY <1>0, <2>1 DEF TypeOK, Calls, old
  <2> QED BY <1>calls, <2>1, <2>2, <2>3, <2>4, <2>5, <2>6, <2>7, KeepInvariant
<1>7. CASE AnnounceAll(t)
  <2> DEFINE tokens == TokensOf(n, Owner(t))
  <2>1. /\ call[t].pc = "announce"
        /\ events' = events \cup [to: Nodes \ {n}, token: tokens, revoked: {TRUE}]
        /\ call' = [call EXCEPT ![t] = Idle]
        /\ UNCHANGED <<status, issued, requests, used, replayed>>
    BY <1>7 DEF AnnounceAll, At, Announce, n
  <2>2. Owner(t) \in replayed
    BY <2>1 DEF Causes, Owner
  <2>3. \A k \in tokens : k \in Tokens /\ IsIssued(k) /\ Cause(k)'
    BY <1>0, <2>1, <2>2 DEF TokensOf, RowsIssued, Cause
  <2> HIDE DEF tokens
  <2>4. TypeOK'
    BY <1>0, <2>1, <2>3 DEF TypeOK, Events, Calls, Idle
  <2>5. \A e \in events' : e \in events \/ (e.token \in tokens /\ e.revoked)
    BY <2>1
  <2>6. \A s \in Threads : call'[s] = call[s] \/ call'[s].pc = "idle"
    BY <2>1 DEF TypeOK, Idle
  <2>7. \A e \in events' : e \in events \/ (IsIssued(e.token) /\ e.revoked /\ Cause(e.token)')
    BY <2>3, <2>5
  <2>8. \A s \in Threads : call'[s].pc # "idle" =>
            /\ call'[s].old \in Tokens /\ IsIssued(call'[s].old)
            /\ call'[s].pc = "announce" => issued[call'[s].old].user \in replayed'
    BY <1>calls, <2>1, <2>6
  <2>9. /\ issued' = issued /\ used \subseteq used' /\ replayed \subseteq replayed'
        /\ \A m \in Nodes, k \in Tokens : status'[m][k] = status[m][k]
    BY <2>1
  <2> QED BY <2>4, <2>7, <2>8, <2>9, KeepInvariant
<1> QED BY <1>1, <1>2, <1>3, <1>4, <1>5, <1>6, <1>7 DEF Request

\* A peer applies an event.
LEMMA ApplyStep ==
    ASSUME IInv, NEW e \in events, Apply(e)
    PROVE  IInv'
<1> USE DEF IInv
<1>1. /\ status' = [status EXCEPT ![e.to][e.token] = IF e.revoked THEN "revoked" ELSE "valid"]
      /\ UNCHANGED <<issued, call, requests, used, replayed>>
      /\ events' \subseteq events
  BY DEF Apply, SetRow
<1>2. e \in Events /\ IsIssued(e.token) /\ (e.revoked => Cause(e.token))
  BY DEF TypeOK, RowsIssued, Causes
<1>3. TypeOK'
  BY <1>1, <1>2 DEF TypeOK, Statuses, Events
<1>4. \A n \in Nodes, k \in Tokens :
          \/ status'[n][k] = status[n][k]
          \/ k = e.token /\ (status'[n][k] = "revoked" => e.revoked)
  BY <1>1, <1>2 DEF TypeOK, Events
<1>5. Cause(e.token)' <=> Cause(e.token)
  BY <1>1 DEF Cause
<1>6. \A t \in Threads : call'[t].pc # "idle" =>
          /\ call'[t].old \in Tokens /\ IsIssued(call'[t].old)
          /\ call'[t].pc = "announce" => issued[call'[t].old].user \in replayed'
  BY <1>1 DEF CallsIssued, Causes
<1> QED BY <1>1, <1>2, <1>3, <1>4, <1>5, <1>6, KeepInvariant

\* A server dies.
LEMMA CrashStep ==
    ASSUME IInv, NEW n \in Nodes, Crash(n)
    PROVE  IInv'
<1> USE DEF IInv
<1>1. /\ call' = [t \in Threads |-> IF Server[t] = n THEN Idle ELSE call[t]]
      /\ UNCHANGED <<status, issued, events, requests, used, replayed>>
  BY DEF Crash
<1>2. TypeOK'
  BY <1>1 DEF TypeOK, Calls, Idle
<1>3. \A t \in Threads : call'[t].pc # "idle" =>
          /\ call'[t].old \in Tokens /\ IsIssued(call'[t].old)
          /\ call'[t].pc = "announce" => issued[call'[t].old].user \in replayed'
  BY <1>1 DEF CallsIssued, Causes, Idle
<1> QED BY <1>1, <1>2, <1>3, KeepInvariant

LEMMA NextIInv == IInv /\ [Next]_vars => IInv'
<1> SUFFICES ASSUME IInv, [Next]_vars PROVE IInv'
  OBVIOUS
<1>1. ASSUME NEW t \in Threads, Request(t) PROVE IInv'
  BY <1>1, RequestStep
<1>2. ASSUME NEW e \in events, Apply(e) PROVE IInv'
  BY <1>2, ApplyStep
<1>3. ASSUME NEW n \in Nodes, Crash(n) PROVE IInv'
  BY <1>3, CrashStep
<1>4. CASE UNCHANGED vars
  BY <1>4 DEF vars, IInv, TypeOK, RowsIssued, CallsIssued, Causes, Cause, NotHome, IsIssued
<1> QED BY <1>1, <1>2, <1>3, <1>4 DEF Next

-----------------------------------------------------------------------------
\* Theorems.

\* The invariant holds at every instant.
LEMMA Invariant == Spec => []IInv
BY InitIInv, NextIInv, PTL DEF Spec

\* Tables, events and requests keep their types.
THEOREM TokensTypeOK == Spec => []TypeOK
<1>1. IInv => TypeOK
  BY DEF IInv
<1> QED BY <1>1, Invariant, PTL

\* A token revoked anywhere was exchanged, or its user's tokens were revoked
\* because of a replay.
THEOREM SessionsEndForCause == Spec => []RevokedForCause
<1>1. IInv => RevokedForCause
  BY DEF IInv, Causes, Cause, RevokedForCause
<1> QED BY <1>1, Invariant, PTL

\* A step that breaks HomeStaysRevoked would have to insert the token again.
LEMMA HomeStep ==
    ASSUME IInv, [Next]_vars, NEW k \in Tokens,
           IsIssued(k), status[issued[k].home][k] = "revoked"
    PROVE  status'[issued[k].home][k] = "revoked"
<1> USE DEF IInv
<1> DEFINE h == issued[k].home
<1>0. h \in Nodes
  BY IssuedFields
<1>1. ASSUME NEW t \in Threads, NEW u, NEW j \in Tokens, CreateToken(t, u, j)
      PROVE  status'[h][k] = "revoked"
  <2>1. j # k /\ status' = [status EXCEPT ![Server[t]][j] = "valid"]
    BY <1>1 DEF CreateToken
  <2> QED BY <1>0, <2>1, ServerAssumption DEF TypeOK
<1>2. ASSUME NEW t \in Threads, Revoke(t)
      PROVE  status'[h][k] = "revoked"
  BY <1>0, <1>2 DEF Revoke, TypeOK
<1>3. ASSUME NEW t \in Threads, RevokeAll(t)
      PROVE  status'[h][k] = "revoked"
  BY <1>0, <1>3 DEF RevokeAll, RevokeRows, TypeOK
<1>4. ASSUME NEW e \in events, Apply(e)
      PROVE  status'[h][k] = "revoked"
  <2>1. /\ status' = [status EXCEPT ![e.to][e.token] = IF e.revoked THEN "revoked" ELSE "valid"]
        /\ e \in Events /\ (~e.revoked => e.to # issued[e.token].home)
    BY <1>4 DEF Apply, SetRow, TypeOK, NotHome
  <2> QED BY <1>0, <2>1 DEF TypeOK, Events
<1>5. ASSUME UNCHANGED status
      PROVE  status'[h][k] = "revoked"
  BY <1>5
<1> QED BY <1>1, <1>2, <1>3, <1>4, <1>5
        DEF Next, Request, Login, Exchange, Present, Begin, UserUnknown, AnnounceAll, Crash, vars

\* A token revoked at the server that issued it never becomes valid there again.
THEOREM RevokedForGood == Spec => HomeStaysRevoked
<1>1. IInv /\ [Next]_vars =>
          [\A k \in Tokens : IsIssued(k) /\ status[issued[k].home][k] = "revoked"
                => status'[issued[k].home][k] = "revoked"]_vars
  BY HomeStep
<1> QED BY <1>1, Invariant, PTL DEF Spec, HomeStaysRevoked

-----------------------------------------------------------------------------
\* How often a token is exchanged.

\* The threads of server n that may still exchange token k there.
Holders(n, k) ==
    {t \in Threads : /\ Server[t] = n /\ call[t].old = k
                     /\ call[t].pc \in {"revoke", "exchange"}}

ThreadsOf(n) == {t \in Threads : Server[t] = n}

\* Only tokens that were issued have offspring, and an idle thread none to give.
Parents ==
    /\ \A t \in Threads : call[t].pc = "idle" => call[t] = Idle
    /\ \A c \in Tokens : issued[c].parent # None => IsIssued(issued[c].parent)

\* While a token is valid at a server it has not been exchanged there, and until
\* its INSERT event arrives nobody can hold it there.
ValidOnce ==
    /\ \A n \in Nodes, k \in Tokens : status[n][k] = "valid" =>
          /\ Offspring(n, k) = {}
          /\ \A t \in Threads : Server[t] = n /\ call[t].old = k => call[t].pc # "exchange"
    /\ \A e \in events : ~e.revoked =>
          /\ status[e.to][e.token] # "valid"
          /\ Offspring(e.to, e.token) = {} /\ Holders(e.to, e.token) = {}

\* Each exchange uses up a thread of the server: one that holds the token can
\* never hold it again once it has exchanged it.
Counted ==
    \A n \in Nodes, k \in Tokens :
        Cardinality(Offspring(n, k)) + Cardinality(Holders(n, k)) <= Cardinality(ThreadsOf(n))

OInv == IInv /\ Parents /\ ValidOnce /\ Counted

\* All these sets are finite.
LEMMA FiniteParts ==
    ASSUME NEW n \in Nodes, NEW k \in Tokens
    PROVE  /\ IsFiniteSet(Offspring(n, k)) /\ Cardinality(Offspring(n, k)) \in Nat
           /\ IsFiniteSet(Holders(n, k)) /\ Cardinality(Holders(n, k)) \in Nat
           /\ IsFiniteSet(ThreadsOf(n)) /\ Cardinality(ThreadsOf(n)) \in Nat
           /\ Cardinality(Holders(n, k)) <= Cardinality(ThreadsOf(n))
<1>1. Offspring(n, k) \in SUBSET Tokens /\ Holders(n, k) \in SUBSET ThreadsOf(n)
      /\ ThreadsOf(n) \in SUBSET Threads
  BY DEF Offspring, Holders, ThreadsOf
<1>2. IsFiniteSet(Offspring(n, k)) /\ IsFiniteSet(ThreadsOf(n))
  BY <1>1, FiniteAssumption, FS_Subset
<1>3. IsFiniteSet(Holders(n, k)) /\ Cardinality(Holders(n, k)) <= Cardinality(ThreadsOf(n))
  BY <1>1, <1>2, FS_Subset
<1> QED BY <1>2, <1>3, FS_CardinalityType

\* A step that issues nothing, and after which nobody holds a token who did not
\* before unless it is valid there and not exchanged.
LEMMA KeepCount ==
    ASSUME OInv, IInv', issued' = issued,
           \A t \in Threads : call'[t] = Idle \/ (call'[t].pc # "idle" /\
               \/ call'[t] = call[t]
               \/ /\ call[t].old = call'[t].old /\ call[t].pc = "revoke"
                  /\ call'[t].pc = "exchange" /\ status'[Server[t]][call'[t].old] # "valid"
               \/ call'[t].pc \in {"revokeAll", "announce"}
               \/ call'[t].pc = "revoke" /\ status[Server[t]][call'[t].old] = "valid"),
           \A n \in Nodes, k \in Tokens :
               status'[n][k] = "valid" =>
                   \/ status[n][k] = "valid"
                   \/ Offspring(n, k) = {} /\ Holders(n, k) = {},
           \A e \in events' : ~e.revoked =>
               e \in events /\ status'[e.to][e.token] # "valid"
    PROVE  OInv'
<1> USE DEF OInv
<1>types. TypeOK /\ TypeOK'
  BY DEF IInv
<1>1. \A n, k : Offspring(n, k)' = Offspring(n, k)
  BY DEF Offspring
<1>2. ASSUME NEW n \in Nodes, NEW k \in Tokens, status[n][k] # "valid"
      PROVE  Holders(n, k)' \subseteq Holders(n, k)
  BY <1>2 DEF Holders, Idle
<1>3. Parents'
  BY DEF Parents, IsIssued
<1>4. ASSUME NEW n \in Nodes, NEW k \in Tokens, status'[n][k] = "valid"
      PROVE  /\ Offspring(n, k)' = {}
             /\ \A t \in Threads : Server[t] = n /\ call'[t].old = k => call'[t].pc # "exchange"
  <2>1. Offspring(n, k) = {}
    BY <1>4 DEF ValidOnce
  <2>2. \A t \in Threads : Server[t] = n /\ call[t].old = k => call[t].pc # "exchange"
    BY <1>4 DEF ValidOnce, Holders
  <2> QED BY <1>1, <1>4, <2>1, <2>2 DEF Idle
<1>5. ASSUME NEW e \in events', ~e.revoked
      PROVE  /\ status'[e.to][e.token] # "valid"
             /\ Offspring(e.to, e.token)' = {} /\ Holders(e.to, e.token)' = {}
  <2>1. /\ e \in events /\ status'[e.to][e.token] # "valid"
        /\ e.to \in Nodes /\ e.token \in Tokens
    BY <1>types, <1>5 DEF TypeOK, Events
  <2>2. status[e.to][e.token] # "valid" /\ Offspring(e.to, e.token) = {} /\ Holders(e.to, e.token) = {}
    BY <1>5, <2>1 DEF ValidOnce
  <2> QED BY <1>1, <1>2, <2>1, <2>2
<1>6. ASSUME NEW n \in Nodes, NEW k \in Tokens
      PROVE  Cardinality(Offspring(n, k)') + Cardinality(Holders(n, k)') <= Cardinality(ThreadsOf(n))
  <2>1. CASE status[n][k] = "valid"
    <3>1. Offspring(n, k)' = {}
      BY <1>1, <2>1 DEF ValidOnce
    <3>2. Holders(n, k)' \in SUBSET ThreadsOf(n)
      BY DEF Holders, ThreadsOf
    <3>3. IsFiniteSet(ThreadsOf(n)) /\ Cardinality(ThreadsOf(n)) \in Nat
      BY FiniteParts
    <3>4. IsFiniteSet(Holders(n, k)') /\ Cardinality(Holders(n, k)') <= Cardinality(ThreadsOf(n))
      BY <3>2, <3>3, FS_Subset
    <3>5. Cardinality(Holders(n, k)') \in Nat
      BY <3>4, FS_CardinalityType
    <3> QED BY <3>1, <3>3, <3>4, <3>5, FS_EmptySet
  <2>2. CASE status[n][k] # "valid"
    <3>1. Holders(n, k)' \in SUBSET Holders(n, k)
      BY <1>2, <2>2
    <3>2. IsFiniteSet(Holders(n, k)') /\ Cardinality(Holders(n, k)') <= Cardinality(Holders(n, k))
      BY <3>1, FiniteParts, FS_Subset
    <3>3. Cardinality(Holders(n, k)') \in Nat
      BY <3>2, FS_CardinalityType
    <3>4. Cardinality(Offspring(n, k)) + Cardinality(Holders(n, k)) <= Cardinality(ThreadsOf(n))
      BY DEF Counted
    <3> QED BY <1>1, <3>2, <3>3, <3>4, FiniteParts
  <2> QED BY <2>1, <2>2
<1>7. ValidOnce'
  BY <1>4, <1>5 DEF ValidOnce
<1>8. Counted'
  BY <1>6 DEF Counted, ThreadsOf
<1> QED BY <1>3, <1>7, <1>8

\* A new token: the thread that exchanges the old one no longer holds it.
LEMMA CreateCount ==
    ASSUME OInv, IInv', NEW t \in Threads, NEW u \in Users, NEW k \in Tokens,
           CreateToken(t, u, k), call[t].pc \in {"idle", "exchange"}
    PROVE  OInv'
<1> USE DEF OInv
<1> DEFINE n == Server[t]
           p == call[t].old
           new == [user |-> u, home |-> n, parent |-> p]
<1>types. TypeOK /\ RowsIssued /\ CallsIssued
  BY DEF IInv
<1>1. n \in Nodes /\ p \in Tokens \cup {None}
  BY <1>types, ServerAssumption DEF TypeOK, Calls
<1>2. /\ ~IsIssued(k)
      /\ issued' = [issued EXCEPT ![k] = new]
      /\ status' = [status EXCEPT ![n][k] = "valid"]
      /\ events' = events \cup [to: Nodes \ {n}, token: {k}, revoked: {FALSE}]
      /\ call' = [call EXCEPT ![t] = Idle]
  BY DEF CreateToken, Announce
<1>3. \/ call[t].pc = "idle" /\ p = None
      \/ call[t].pc = "exchange" /\ p \in Tokens /\ IsIssued(p) /\ p # k
  BY <1>types, <1>2 DEF Parents, Idle, CallsIssued
<1>new. new.home = n /\ new.parent = p /\ new \in Issues /\ new # Unissued
  BY <1>1, NewIssue
<1>call. call[t].old = p /\ Server[t] = n
  OBVIOUS
<1> HIDE DEF new, n, p
<1>4. \A c \in Tokens : issued'[c] = IF c = k THEN new ELSE issued[c]
  BY <1>types, <1>2 DEF TypeOK
<1>5. \A s \in Threads : call'[s] = IF s = t THEN Idle ELSE call[s]
  BY <1>types, <1>2 DEF TypeOK
<1>6. \A m \in Nodes, j \in Tokens :
          Offspring(m, j)' = IF m = n /\ j = p THEN Offspring(m, j) \cup {k} ELSE Offspring(m, j)
  <2>1. issued[k].home \notin Nodes
    BY <1>2, NoneAssumption DEF IsIssued, Unissued
  <2> QED BY <1>4, <1>new, <2>1 DEF Offspring
<1>7. \A m \in Nodes, j \in Tokens : Holders(m, j)' = Holders(m, j) \ {t}
  BY <1>5 DEF Holders, Idle
<1>8. \A m \in Nodes : Offspring(m, k) = {} /\ Holders(m, k) = {}
  <2>1. \A m \in Nodes : Offspring(m, k) = {}
    <3>1. k # None
      BY NoneAssumption
    <3> QED BY <1>2, <3>1 DEF Parents, Offspring
  <2>2. \A m \in Nodes : Holders(m, k) = {}
    BY <1>types, <1>2 DEF CallsIssued, Holders
  <2> QED BY <2>1, <2>2
<1>9. p \in Tokens => t \in Holders(n, p) /\ call[t].pc = "exchange"
  BY <1>3, <1>call, NoneAssumption DEF Holders
<1>10. Parents'
  <2>1. \A s \in Threads : call'[s].pc = "idle" => call'[s] = Idle
    BY <1>5 DEF Parents
  <2>2. \A c \in Tokens : issued[c] # Unissued => issued'[c] # Unissued
    BY <1>4, <1>new
  <2>3. ASSUME NEW c \in Tokens, issued'[c].parent # None
        PROVE  issued'[issued'[c].parent] # Unissued
    <3>1. CASE c = k
      BY <1>3, <1>4, <1>new, <2>2, <2>3, <3>1 DEF IsIssued
    <3>2. CASE c # k
      <4>1. issued'[c] = issued[c]
        BY <1>4, <3>2
      <4>2. issued[c].parent \in Tokens /\ issued[issued[c].parent] # Unissued
        BY <1>types, <2>3, <4>1 DEF Parents, IsIssued, TypeOK, Issues, Unissued
      <4> QED BY <2>2, <4>1, <4>2
    <3> QED BY <3>1, <3>2
  <2> QED BY <2>1, <2>3 DEF Parents, IsIssued
<1>11. ASSUME NEW m \in Nodes, NEW j \in Tokens, status'[m][j] = "valid"
       PROVE  /\ Offspring(m, j)' = {}
              /\ \A s \in Threads : Server[s] = m /\ call'[s].old = j => call'[s].pc # "exchange"
  <2>1. CASE j = k
    <3>1. p # k
      BY <1>3, NoneAssumption
    <3> QED BY <1>5, <1>6, <1>8, <2>1, <3>1 DEF Holders, Idle
  <2>2. CASE j # k
    <3>1. status[m][j] = "valid"
      BY <1>types, <1>1, <1>2, <1>11, <2>2 DEF TypeOK
    <3>2. /\ Offspring(m, j) = {}
          /\ \A s \in Threads : Server[s] = m /\ call[s].old = j => call[s].pc # "exchange"
      BY <3>1 DEF ValidOnce
    <3>3. ~(m = n /\ j = p)
      BY <1>9, <1>call, <3>2
    <3> QED BY <1>5, <1>6, <3>2, <3>3 DEF Idle
  <2> QED BY <2>1, <2>2
<1>12. ASSUME NEW e \in events', ~e.revoked
       PROVE  /\ status'[e.to][e.token] # "valid"
              /\ Offspring(e.to, e.token)' = {} /\ Holders(e.to, e.token)' = {}
  <2>1. CASE e \in events
    <3>1. /\ e.to \in Nodes /\ e.token \in Tokens /\ e.token # k
          /\ status[e.to][e.token] # "valid"
          /\ Offspring(e.to, e.token) = {} /\ Holders(e.to, e.token) = {}
      BY <1>types, <1>2, <1>12, <2>1 DEF TypeOK, Events, RowsIssued, ValidOnce
    <3>2. ~(e.to = n /\ e.token = p)
      BY <1>9, <3>1
    <3>3. status'[e.to][e.token] = status[e.to][e.token]
      BY <1>types, <1>1, <1>2, <3>1 DEF TypeOK
    <3> QED BY <1>6, <1>7, <3>1, <3>2, <3>3
  <2>2. CASE e \notin events
    <3>1. e.to \in Nodes /\ e.to # n /\ e.token = k
      BY <1>2, <2>2
    <3>2. status'[e.to][k] = status[e.to][k] /\ status[e.to][k] = "absent"
      BY <1>types, <1>1, <1>2, <3>1 DEF TypeOK, RowsIssued
    <3> QED BY <1>6, <1>7, <1>8, <3>1, <3>2
  <2> QED BY <2>1, <2>2
<1>13. ASSUME NEW m \in Nodes, NEW j \in Tokens
       PROVE  Cardinality(Offspring(m, j)') + Cardinality(Holders(m, j)') <= Cardinality(ThreadsOf(m))
  <2>1. /\ Cardinality(Offspring(m, j)) \in Nat /\ IsFiniteSet(Offspring(m, j))
        /\ Cardinality(Holders(m, j)) \in Nat /\ IsFiniteSet(Holders(m, j))
        /\ Cardinality(ThreadsOf(m)) \in Nat
    BY FiniteParts
  <2>2. Cardinality(Offspring(m, j)) + Cardinality(Holders(m, j)) <= Cardinality(ThreadsOf(m))
    BY DEF Counted
  <2>3. Cardinality(Holders(m, j)') = IF t \in Holders(m, j) THEN Cardinality(Holders(m, j)) - 1
                                                              ELSE Cardinality(Holders(m, j))
    BY <1>7, <2>1, FS_RemoveElement
  <2>4. CASE m = n /\ j = p
    <3>1. t \in Holders(m, j)
      BY <1>9, <2>4
    <3>2. Offspring(m, j)' = Offspring(m, j) \cup {k}
      BY <1>6, <2>4
    <3>3. Cardinality(Offspring(m, j)') <= Cardinality(Offspring(m, j)) + 1
          /\ Cardinality(Offspring(m, j)') \in Nat
      <4>1. Cardinality(Offspring(m, j) \cup {k}) =
                IF k \in Offspring(m, j) THEN Cardinality(Offspring(m, j))
                                         ELSE Cardinality(Offspring(m, j)) + 1
        BY <2>1, FS_AddElement
      <4>2. Cardinality(Offspring(m, j)') = Cardinality(Offspring(m, j) \cup {k})
        BY <3>2
      <4> QED BY <2>1, <4>1, <4>2
    <3> QED BY <2>1, <2>2, <2>3, <3>1, <3>3
  <2>5. CASE ~(m = n /\ j = p)
    BY <1>6, <2>1, <2>2, <2>3, <2>5
  <2> QED BY <2>4, <2>5
<1>14. ValidOnce'
  BY <1>11, <1>12 DEF ValidOnce
<1>15. Counted'
  BY <1>13 DEF Counted, ThreadsOf
<1> QED BY <1>10, <1>14, <1>15

LEMMA InitOInv == Init => OInv
<1> SUFFICES ASSUME Init PROVE OInv
  OBVIOUS
<1>1. IInv
  BY InitIInv
<1>2. Parents /\ ValidOnce
  BY DEF Init, Parents, ValidOnce, Idle, Unissued
<1>3. \A n \in Nodes, k \in Tokens : Offspring(n, k) = {}
  BY NoneAssumption DEF Init, Offspring, Unissued
<1>4. Counted
  BY <1>3, FiniteParts, FS_EmptySet DEF Counted
<1> QED BY <1>1, <1>2, <1>4 DEF OInv

LEMMA NextOInv == OInv /\ [Next]_vars => OInv'
<1> SUFFICES ASSUME OInv, [Next]_vars PROVE OInv'
  OBVIOUS
<1>0. IInv /\ IInv' /\ TypeOK /\ CallsIssued
  BY NextIInv DEF OInv, IInv
<1>1. ASSUME NEW t \in Threads, NEW u \in Users, NEW k \in Tokens, Login(t, u, k)
      PROVE  OInv'
  BY <1>0, <1>1, CreateCount DEF Login, At
<1>2. ASSUME NEW t \in Threads, NEW k \in Tokens, Exchange(t, k)
      PROVE  OInv'
  BY <1>0, <1>2, CreateCount, OwnerIsUser DEF Exchange, At
<1>busy. \A t \in Threads : call[t].pc = "idle" => call[t] = Idle
  BY DEF OInv, Parents
<1>3. ASSUME NEW t \in Threads, NEW k \in Tokens, Present(t, k)
      PROVE  OInv'
  <2>1. PICK pc \in {"revoke", "revokeAll"} :
            /\ Begin(t, k, pc)
            /\ pc = "revoke" => status[Server[t]][k] = "valid"
    BY <1>3 DEF Present
  <2>2. /\ call' = [call EXCEPT ![t] = [pc |-> pc, old |-> k]]
        /\ UNCHANGED <<status, issued, events>>
    BY <2>1 DEF Begin
  <2>3. \A s \in Threads : call'[s] = IF s = t THEN [pc |-> pc, old |-> k] ELSE call[s]
    BY <1>0, <2>2 DEF TypeOK
  <2>4. \A e \in events' : ~e.revoked => e \in events /\ status'[e.to][e.token] # "valid"
    BY <2>2 DEF OInv, ValidOnce
  <2> QED BY <1>0, <1>busy, <2>1, <2>2, <2>3, <2>4, KeepCount
<1>4. ASSUME NEW t \in Threads, Revoke(t)
      PROVE  OInv'
  <2> DEFINE n == Server[t]
             old == call[t].old
  <2>1. /\ call[t].pc = "revoke"
        /\ status' = [status EXCEPT ![n][old] = "revoked"]
        /\ events' = events \cup [to: Nodes \ {n}, token: {old}, revoked: {TRUE}]
        /\ call' = [call EXCEPT ![t].pc = "exchange"]
        /\ issued' = issued
    BY <1>4 DEF Revoke, At, Announce, Goto
  <2>2. n \in Nodes /\ old \in Tokens
    BY <1>0, <2>1, ServerAssumption DEF CallsIssued
  <2>3. \A s \in Threads : IF s = t THEN call'[s].pc = "exchange" /\ call'[s].old = old
                                    ELSE call'[s] = call[s]
    BY <1>0, <2>1 DEF TypeOK, Calls
  <2>4. status'[n][old] # "valid"
    BY <1>0, <2>1, <2>2 DEF TypeOK
  <2>5. \A m \in Nodes, k \in Tokens : status'[m][k] = status[m][k] \/ status'[m][k] = "revoked"
    BY <1>0, <2>1, <2>2 DEF TypeOK
  <2>6. ASSUME NEW e \in events', ~e.revoked
        PROVE  e \in events /\ status'[e.to][e.token] # "valid"
    <3>1. e \in events
      BY <2>1, <2>6
    <3>2. /\ e.to \in Nodes /\ e.token \in Tokens
          /\ status[e.to][e.token] # "valid"
      BY <1>0, <2>6, <3>1 DEF OInv, ValidOnce, TypeOK, Events
    <3> QED BY <2>5, <3>1, <3>2
  <2>7. \A s \in Threads : call'[s] = Idle \/ (call'[s].pc # "idle" /\
            \/ call'[s] = call[s]
            \/ /\ call[s].old = call'[s].old /\ call[s].pc = "revoke"
               /\ call'[s].pc = "exchange" /\ status'[Server[s]][call'[s].old] # "valid")
    BY <1>busy, <2>1, <2>3, <2>4
  <2> QED BY <1>0, <2>1, <2>5, <2>6, <2>7, KeepCount
<1>5. ASSUME NEW t \in Threads, UserUnknown(t) \/ AnnounceAll(t)
      PROVE  OInv'
  <2>1. /\ call' = [call EXCEPT ![t] = Idle] /\ UNCHANGED <<status, issued>>
        /\ \A e \in events' : ~e.revoked => e \in events
    BY <1>5 DEF UserUnknown, AnnounceAll, Announce
  <2>2. \A s \in Threads : call'[s] = IF s = t THEN Idle ELSE call[s]
    BY <1>0, <2>1 DEF TypeOK
  <2>3. \A e \in events' : ~e.revoked => e \in events /\ status'[e.to][e.token] # "valid"
    BY <2>1 DEF OInv, ValidOnce
  <2> QED BY <1>0, <1>busy, <2>1, <2>2, <2>3, KeepCount
<1>6. ASSUME NEW t \in Threads, RevokeAll(t)
      PROVE  OInv'
  <2> DEFINE tokens == TokensOf(Server[t], Owner(t))
  <2>1. /\ call[t].pc = "revokeAll"
        /\ status' = [status EXCEPT ![Server[t]] =
              [k \in Tokens |-> IF k \in tokens THEN "revoked" ELSE status[Server[t]][k]]]
        /\ call' = [call EXCEPT ![t].pc = "announce"]
        /\ UNCHANGED <<issued, events>>
    BY <1>6 DEF RevokeAll, RevokeRows, At, Goto
  <2> HIDE DEF tokens
  <2>2. \A s \in Threads : call'[s] = call[s] \/ call'[s].pc = "announce"
    BY <1>0, <2>1 DEF TypeOK, Calls
  <2>3. \A m \in Nodes, k \in Tokens : status'[m][k] = status[m][k] \/ status'[m][k] = "revoked"
    BY <1>0, <2>1 DEF TypeOK
  <2>4. \A e \in events' : ~e.revoked => e \in events /\ status'[e.to][e.token] # "valid"
    BY <1>0, <2>1, <2>3 DEF OInv, ValidOnce, TypeOK, Events
  <2> QED BY <1>0, <1>busy, <2>1, <2>2, <2>3, <2>4, KeepCount
<1>7. ASSUME NEW e \in events, Apply(e)
      PROVE  OInv'
  <2>1. /\ status' = [status EXCEPT ![e.to][e.token] = IF e.revoked THEN "revoked" ELSE "valid"]
        /\ UNCHANGED <<issued, call>>
        /\ events' \subseteq events
        /\ ~e.revoked => e \notin events'
    BY <1>7 DEF Apply, SetRow
  <2>2. e \in Events
    BY <1>0 DEF TypeOK
  <2>3. \A n \in Nodes, k \in Tokens :
            status'[n][k] = "valid" =>
                status[n][k] = "valid" \/ (n = e.to /\ k = e.token /\ ~e.revoked)
    BY <1>0, <2>1, <2>2 DEF TypeOK, Events
  <2>4. ~e.revoked => Offspring(e.to, e.token) = {} /\ Holders(e.to, e.token) = {}
    BY DEF OInv, ValidOnce
  <2>5. ASSUME NEW f \in events', ~f.revoked
        PROVE  f \in events /\ status'[f.to][f.token] # "valid"
    <3>1. f \in events /\ f \in Events /\ status[f.to][f.token] # "valid"
      BY <1>0, <2>1, <2>5 DEF OInv, ValidOnce, TypeOK
    <3>2. ~e.revoked => ~(f.to = e.to /\ f.token = e.token)
      BY <2>1, <2>2, <2>5, <3>1 DEF Events
    <3> QED BY <2>3, <3>1, <3>2 DEF Events
  <2> QED BY <1>0, <1>busy, <2>1, <2>3, <2>4, <2>5, KeepCount
<1>8. ASSUME NEW n \in Nodes, Crash(n)
      PROVE  OInv'
  <2>1. \A t \in Threads : call'[t] = Idle \/ call'[t] = call[t]
    BY <1>8 DEF Crash
  <2>2. UNCHANGED <<status, issued, events>>
    BY <1>8 DEF Crash
  <2>3. \A e \in events' : ~e.revoked => e \in events /\ status'[e.to][e.token] # "valid"
    BY <2>2 DEF OInv, ValidOnce
  <2> QED BY <1>0, <1>busy, <2>1, <2>2, <2>3, KeepCount
<1>9. CASE UNCHANGED vars
  <2>1. UNCHANGED <<status, issued, events, call>>
    BY <1>9 DEF vars
  <2>2. \A e \in events' : ~e.revoked => e \in events /\ status'[e.to][e.token] # "valid"
    BY <2>1 DEF OInv, ValidOnce
  <2> QED BY <1>0, <1>busy, <2>1, <2>2, KeepCount
<1> QED BY <1>1, <1>2, <1>3, <1>4, <1>5, <1>6, <1>7, <1>8, <1>9 DEF Next, Request

\* One server exchanges a token at most as often as it has worker threads.
THEOREM ExchangesBounded == Spec => []ExchangesOverlap
<1>1. OInv => ExchangesOverlap
  <2> SUFFICES ASSUME OInv, NEW n \in Nodes, NEW k \in Tokens
               PROVE  Cardinality(Offspring(n, k)) <= Cardinality(ThreadsOf(n))
    BY DEF ExchangesOverlap, ThreadsOf
  <2>1. Cardinality(Offspring(n, k)) + Cardinality(Holders(n, k)) <= Cardinality(ThreadsOf(n))
    BY DEF OInv, Counted
  <2> QED BY <2>1, FiniteParts
<1> QED BY <1>1, InitOInv, NextOInv, PTL DEF Spec

=============================================================================
