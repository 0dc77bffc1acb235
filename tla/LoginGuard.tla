----------------------------- MODULE LoginGuard -----------------------------
(***************************************************************************)
(* Account lockout and address blocking on the application servers:        *)
(* ip_block_middleware and login of application_server/main.py, with the   *)
(* sync events of a failed login.                                          *)
(*                                                                         *)
(* The middleware runs on the event loop, login on worker threads.  Each   *)
(* statement that reads a row another request may change, and each commit, *)
(* is one step.  The ORM keeps the columns as they were loaded and writes  *)
(* those, and only those, that were assigned another value since.          *)
(*                                                                         *)
(* An event is created in the step that reads its content and arrives      *)
(* late, in any order or never; see SyncManager, which also models the     *)
(* events of a registration: here every server has its users already.      *)
(***************************************************************************)
EXTENDS Integers, FiniteSets

CONSTANTS
    Nodes,      \* application servers
    Threads,    \* worker threads of all servers
    Server,     \* Server[t]: the server of thread t
    Users,      \* registered user names
    Addresses,  \* client addresses
    Nobody,     \* a name that is not registered; no event
    Limit,      \* failures that lock an account or block an address (5)
    Window,     \* longest time between failures that add up (60 seconds)
    BlockTime, LockTime,  \* 15 and 30 minutes
    Day,
    MaxTime,    \* bound of the clock
    MaxLogins   \* bound: login requests that pass the middleware

ASSUME ServerAssumption == Server \in [Threads -> Nodes]
ASSUME NobodyAssumption == Nobody \notin Users \cup Addresses
ASSUME KeyAssumption == Users \cap Addresses = {}
ASSUME TimeAssumption ==
    /\ {Limit, Day, MaxTime} \subseteq Nat \ {0}
    /\ {Window, BlockTime, LockTime, MaxLogins} \subseteq Nat

VARIABLES
    now,      \* the wall clock, from 1
    row,      \* of each server: the counters of users and ip_blacklist
    call,     \* the login each worker thread is executing
    events,   \* sync events on their way to a peer
    serving,  \* the event each server's event loop is applying
    logins,   \* number of logins so far
    wrong     \* for the properties: answers "incorrect" by name and by address

vars == <<now, row, call, events, serving, logins, wrong>>

(***************************************************************************)
(* A row of users is its failed_login_attempts and locked_until, a row of  *)
(* ip_blacklist its failed_attempts, blocked_until and last_attempt; 0     *)
(* stands for None.  An address without a row has NoRow.                   *)
(***************************************************************************)
Times == 0 .. (MaxTime + BlockTime + LockTime)
Rows  == [fails: Nat, until: Times, last: Times]
NoRow == [fails |-> 0, until |-> 0, last |-> 0]

Keys   == Users \cup Addresses
Events == [to: Nodes, key: Keys, row: Rows]
Calls  == [pc: {"idle", "reset", "check", "unlock", "reload", "verify", "fail",
                "succeed", "announce", "announceLock"},
           user: Users \cup {Nobody}, addr: Addresses \cup {Nobody},
           acct: Rows, trk: Rows]  \* the rows as they were loaded
Services == [key: Keys \cup {Nobody}, row: Rows, loaded: Rows]

Idle == [pc |-> "idle", user |-> Nobody, addr |-> Nobody, acct |-> NoRow, trk |-> NoRow]
NotServing == [key |-> Nobody, row |-> NoRow, loaded |-> NoRow]

Init ==
    /\ now = 1
    /\ row = [n \in Nodes |-> [x \in Keys |-> NoRow]]
    /\ call = [t \in Threads |-> Idle]
    /\ events = {}
    /\ serving = [n \in Nodes |-> NotServing]
    /\ logins = 0
    /\ wrong = [x \in Keys |-> 0]

At(t, pc) == call[t].pc = pc
Goto(t, pc) == call' = [call EXCEPT ![t].pc = pc]

Row(t, x) == row[Server[t]][x]

\* Fault: every column is written, changed or not.
WrittenAll(current, loaded, new) == new

\* The UPDATE of a row that was loaded and then assigned: changed columns only.
Written(current, loaded, new) ==
    LET column(c, l, v) == IF v = l THEN c ELSE v
    IN  [fails |-> column(current.fails, loaded.fails, new.fails),
         until |-> column(current.until, loaded.until, new.until),
         last  |-> column(current.last, loaded.last, new.last)]

\* Fault: a counter is taken down by one, not to zero.
ClearedByOne(r) == [r EXCEPT !.fails = r.fails - 1, !.until = 0]

Cleared(r) == [r EXCEPT !.fails = 0, !.until = 0]

-----------------------------------------------------------------------------
\* ip_block_middleware.

\* An address that is blocked gets a 403; a block that has ended is taken off.
Arrive(t, u, a) ==
    /\ At(t, "idle")
    /\ logins < MaxLogins
    /\ Row(t, a).until <= now
    /\ logins' = logins + 1
    /\ call' = [call EXCEPT ![t] =
          [Idle EXCEPT !.pc = IF Row(t, a).until = 0 THEN "check" ELSE "reset",
                       !.user = u, !.addr = a, !.trk = Row(t, a)]]
    /\ UNCHANGED <<now, row, events, serving, wrong>>

EndBlock(t) ==
    /\ At(t, "reset")
    /\ LET n == Server[t]  a == call[t].addr IN
       row' = [row EXCEPT ![n][a] = Written(row[n][a], call[t].trk, Cleared(call[t].trk))]
    /\ Goto(t, "check")
    /\ UNCHANGED <<now, events, serving, logins, wrong>>

-----------------------------------------------------------------------------
\* POST /auth/login.

\* The account is read.  A locked one gets a 403.
Check(t) ==
    /\ At(t, "check")
    /\ LET r == IF call[t].user = Nobody THEN NoRow ELSE Row(t, call[t].user) IN
       call' = [call EXCEPT ![t] =
          IF r.until > now THEN Idle
          ELSE [@ EXCEPT !.pc = IF r.until = 0 THEN "verify" ELSE "unlock", !.acct = r]]
    /\ UNCHANGED <<now, row, events, serving, logins, wrong>>

\* A lock that has ended is taken off.
EndLock(t) ==
    /\ At(t, "unlock")
    /\ LET n == Server[t]  u == call[t].user IN
       row' = [row EXCEPT ![n][u] = Written(row[n][u], call[t].acct, Cleared(call[t].acct))]
    /\ Goto(t, "reload")
    /\ UNCHANGED <<now, events, serving, logins, wrong>>

\* That commit expired the object: reading password_hash loads it again.
Reload(t) ==
    /\ At(t, "reload")
    /\ call' = [call EXCEPT ![t] = [@ EXCEPT !.pc = "verify", !.acct = Row(t, call[t].user)]]
    /\ UNCHANGED <<now, row, events, serving, logins, wrong>>

\* bcrypt, and then the tracker row is read, in either case.
Verify(t, right) ==
    /\ At(t, "verify")
    /\ right => call[t].user # Nobody
    /\ call' = [call EXCEPT ![t] =
          [@ EXCEPT !.pc = IF right THEN "succeed" ELSE "fail", !.trk = Row(t, call[t].addr)]]
    /\ UNCHANGED <<now, row, events, serving, logins, wrong>>

\* .seconds of a time difference: whole days are dropped.
Seconds(later, earlier) == (later - earlier) % Day

\* The tracker and the account after a failure.
Tracked(r) ==
    LET fails == IF r = NoRow \/ Seconds(now, r.last) > Window THEN 1 ELSE r.fails + 1
    IN  [fails |-> fails, last |-> now,
         until |-> IF r # NoRow /\ fails >= Limit THEN now + BlockTime ELSE r.until]

\* Fault: one failure counts twice.
FailedTwice(r) ==
    [r EXCEPT !.fails = r.fails + 2,
              !.until = IF r.fails + 2 >= Limit THEN now + LockTime ELSE r.until]

Failed(r) ==
    [r EXCEPT !.fails = r.fails + 1,
              !.until = IF r.fails + 1 >= Limit THEN now + LockTime ELSE r.until]

\* Tracker and account, if there is one, are written in one transaction.
CommitFailure(t) ==
    LET n == Server[t]  u == call[t].user  a == call[t].addr IN
    /\ At(t, "fail")
    /\ call[t].trk = NoRow => row[n][a] = NoRow
    /\ row' = [row EXCEPT ![n] = [x \in Keys |->
          IF x = a THEN Written(row[n][a], call[t].trk, Tracked(call[t].trk))
          ELSE IF x = u THEN Written(row[n][u], call[t].acct, Failed(call[t].acct))
          ELSE row[n][x]]]
    /\ wrong' = [x \in Keys |-> IF x \in {u, a} THEN wrong[x] + 1 ELSE wrong[x]]
    /\ Goto(t, "announce")
    /\ UNCHANGED <<now, events, serving, logins>>

\* ip_address is UNIQUE: a second INSERT for the address fails and takes the
\* account's counter with it.
FailureClash(t) ==
    /\ At(t, "fail")
    /\ call[t].trk = NoRow /\ Row(t, call[t].addr) # NoRow
    /\ call' = [call EXCEPT ![t] = Idle]
    /\ UNCHANGED <<now, row, events, serving, logins, wrong>>

\* _sync_event with the row of key x as it is now.
Publish(t, x) ==
    events' = events \cup {[to |-> p, key |-> x, row |-> Row(t, x)] : p \in Nodes \ {Server[t]}}

AnnounceTracker(t) ==
    /\ At(t, "announce")
    /\ Publish(t, call[t].addr)
    /\ call' = [call EXCEPT ![t] =
          IF call[t].user = Nobody THEN Idle ELSE [@ EXCEPT !.pc = "announceLock"]]
    /\ UNCHANGED <<now, row, serving, logins, wrong>>

\* Only if the account has a lock, which may have ended.  The answer is a 400.
AnnounceLock(t) ==
    /\ At(t, "announceLock")
    /\ IF Row(t, call[t].user).until # 0 THEN Publish(t, call[t].user) ELSE UNCHANGED events
    /\ call' = [call EXCEPT ![t] = Idle]
    /\ UNCHANGED <<now, row, serving, logins, wrong>>

\* Both counters are cleared; peers are not told.  RefreshTokens goes on here.
CommitSuccess(t) ==
    LET n == Server[t]  u == call[t].user  a == call[t].addr IN
    /\ At(t, "succeed")
    /\ row' = [row EXCEPT ![n] = [x \in Keys |->
          IF x = a THEN Written(row[n][a], call[t].trk, Cleared(call[t].trk))
          ELSE IF x = u THEN Written(row[n][u], call[t].acct, Cleared(call[t].acct))
          ELSE row[n][x]]]
    /\ call' = [call EXCEPT ![t] = Idle]
    /\ UNCHANGED <<now, events, serving, logins, wrong>>

-----------------------------------------------------------------------------
\* apply_remote_event, for these two tables.

BeginApply(e) ==
    /\ e \in events
    /\ serving[e.to] = NotServing
    /\ events' = events \ {e}
    /\ serving' = [serving EXCEPT ![e.to] =
          [key |-> e.key, row |-> e.row, loaded |-> row[e.to][e.key]]]
    /\ UNCHANGED <<now, row, call, logins, wrong>>

(***************************************************************************)
(* The columns that differ from the loaded row are written.  If a login    *)
(* has inserted the tracker since it was found missing, the INSERT fails   *)
(* and the event changes nothing.                                          *)
(***************************************************************************)
CommitApply(n) ==
    LET s == serving[n] IN
    /\ s.key # Nobody
    /\ IF s.key \in Addresses /\ s.loaded = NoRow /\ row[n][s.key] # NoRow
       THEN UNCHANGED row
       ELSE row' = [row EXCEPT ![n][s.key] = Written(row[n][s.key], s.loaded, s.row)]
    /\ serving' = [serving EXCEPT ![n] = NotServing]
    /\ UNCHANGED <<now, call, events, logins, wrong>>

Tick ==
    /\ now < MaxTime
    /\ now' = now + 1
    /\ UNCHANGED <<row, call, events, serving, logins, wrong>>

\* A server process dies, and its requests with it.  Its tables stay.
Crash(n) ==
    /\ call' = [t \in Threads |-> IF Server[t] = n THEN Idle ELSE call[t]]
    /\ serving' = [serving EXCEPT ![n] = NotServing]
    /\ UNCHANGED <<now, row, events, logins, wrong>>

Request(t) ==
    \/ \E u \in Users \cup {Nobody}, a \in Addresses : Arrive(t, u, a)
    \/ EndBlock(t) \/ Check(t) \/ EndLock(t) \/ Reload(t)
    \/ \E right \in BOOLEAN : Verify(t, right)
    \/ CommitFailure(t) \/ FailureClash(t) \/ AnnounceTracker(t) \/ AnnounceLock(t)
    \/ CommitSuccess(t)

Next ==
    \/ \E t \in Threads : Request(t)
    \/ \E e \in events : BeginApply(e)
    \/ \E n \in Nodes : CommitApply(n) \/ Crash(n)
    \/ Tick

Spec == Init /\ [][Next]_vars

-----------------------------------------------------------------------------
\* Properties.

\* Every variable has its type: rows, logins, events, and what they count.
TypeOK ==
    /\ now \in Times
    /\ row \in [Nodes -> [Keys -> Rows]]
    /\ call \in [Threads -> Calls]
    /\ events \in SUBSET Events
    /\ serving \in [Nodes -> Services]
    /\ logins \in Nat
    /\ wrong \in [Keys -> Nat]

\* Whatever stale values logins and events write over each other, nobody is
\* locked out for nothing: a lock or block at any server means that the limit
\* of wrong passwords was reached for that account or from that address.
LocksAreEarned ==
    \A n \in Nodes, x \in Keys : row[n][x].until # 0 => wrong[x] >= Limit

\* The step in which request t takes off a lock of x that had ended when it was
\* loaded.
EndsOlderLock(t, x) ==
    \/ x = call[t].addr /\ call[t].trk.until \in 1 .. now /\ EndBlock(t)
    \/ x = call[t].user /\ call[t].acct.until \in 1 .. now /\ EndLock(t)

\* The step in which login t, which has been shown a lock of x, succeeds.
SucceedsKnowingly(t, x) ==
    /\ CommitSuccess(t)
    /\ \/ x = call[t].addr /\ call[t].trk.until # 0
       \/ x = call[t].user /\ call[t].acct.until # 0

\* A lock or block that runs is shortened by a peer's event, or by the very step
\* of a request that takes off an older one or that had been shown one; the
\* older one need not be the one that runs, see LocksLast.  So a login that was
\* shown no lock, and any failure, leaves running locks alone.
LocksSurviveStaleLogins ==
    [][\A n \in Nodes, x \in Keys :
          row[n][x].until > now /\ row'[n][x].until < row[n][x].until =>
              \/ CommitApply(n)
              \/ \E t \in Threads : /\ Server[t] = n
                                    /\ EndsOlderLock(t, x) \/ SucceedsKnowingly(t, x)]_vars

\* project_plan.txt: the account is locked for 30 minutes.  The code breaks it:
\* of two requests that find an ended lock, the second takes off the new one
\* that was set after the first.
LocksLast ==
    [][\A n \in Nodes, x \in Keys :
          row[n][x].until > now /\ row'[n][x].until < row[n][x].until =>
              \/ CommitApply(n)
              \/ \E t \in Threads : Server[t] = n /\ SucceedsKnowingly(t, x)]_vars

\* project_plan.txt: after 5 consecutive failed password attempts, the account
\* is locked for 30 minutes.
LockedAtLimit ==
    \A u \in Users :
        /\ \A t \in Threads : call[t].pc \in {"idle", "announce", "announceLock"}
        /\ wrong[u] = logins /\ logins >= Limit /\ now <= LockTime
        => \E n \in Nodes : row[n][u].until # 0

=============================================================================
