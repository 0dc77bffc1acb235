-------------------------- MODULE LoginGuardProofs --------------------------
(***************************************************************************)
(* Proofs about LoginGuard, for every number of servers, threads, users    *)
(* and addresses, and every limit and duration.                            *)
(***************************************************************************)
EXTENDS LoginGuard, TLAPS

-----------------------------------------------------------------------------
\* The inductive invariant.

\* How long a lock on key x lasts.
Lasts(x) == IF x \in Users THEN LockTime ELSE BlockTime

(***************************************************************************)
(* A copy r of the row of x is sound if it counts no more failures than    *)
(* there were, has a lock only if the limit was reached, and none longer   *)
(* than one that is set now; w and t stand for wrong and now.              *)
(***************************************************************************)
Sound(r, x, w, t) ==
    /\ r.fails <= w[x]
    /\ r.until # 0 => w[x] >= Limit
    /\ r.until <= t + Lasts(x)

\* Login c names what it is about, the rows it has loaded are sound, and a lock
\* it is to take off has ended; service s works on sound rows.
CallSound(c, w, t) ==
    /\ c.pc # "idle" => c.addr # Nobody
    /\ c.pc \in {"unlock", "reload", "announceLock"} => c.user # Nobody
    /\ c.pc = "reset" => c.trk.until \in 1 .. t
    /\ c.pc = "unlock" => c.acct.until \in 1 .. t
    /\ c.user # Nobody => Sound(c.acct, c.user, w, t)
    /\ c.addr # Nobody => Sound(c.trk, c.addr, w, t)

ServiceSound(s, w, t) ==
    s.key # Nobody => Sound(s.row, s.key, w, t) /\ Sound(s.loaded, s.key, w, t)

\* Every copy there is, in the tables, in requests and in events, is sound.
AllSound ==
    /\ \A n \in Nodes, x \in Keys : Sound(row[n][x], x, wrong, now)
    /\ \A t \in Threads : CallSound(call[t], wrong, now)
    /\ \A e \in events : Sound(e.row, e.key, wrong, now)
    /\ \A n \in Nodes : ServiceSound(serving[n], wrong, now)

Clock == now \in 1 .. MaxTime

IInv == TypeOK /\ Clock /\ AllSound

-----------------------------------------------------------------------------
\* The operators on rows.

LEMMA Constants ==
    /\ Limit \in Nat /\ Limit > 0 /\ Day \in Nat /\ Day > 0 /\ MaxTime \in Nat /\ MaxTime > 0
    /\ Window \in Nat /\ BlockTime \in Nat /\ LockTime \in Nat
    /\ \A x : Lasts(x) \in Nat
    /\ Nobody \notin Keys
BY TimeAssumption, NobodyAssumption DEF Lasts, Keys

\* A copy of a row stays sound while failures are counted and time goes on.
LEMMA SoundLater ==
    ASSUME NEW x \in Keys, NEW r \in Rows,
           NEW w \in [Keys -> Nat], NEW v \in [Keys -> Nat], v[x] >= w[x],
           NEW t \in Nat, NEW u \in Nat, u >= t,
           Sound(r, x, w, t)
    PROVE  Sound(r, x, v, u)
BY Constants DEF Sound, Rows, Times

\* A row in the table or a row in memory: each column comes from one of them,
\* and the lock from memory only if it was assigned another value.
LEMMA WrittenSound ==
    ASSUME NEW x \in Keys, NEW w \in [Keys -> Nat], NEW t \in Nat,
           NEW c \in Rows, NEW l \in Rows, NEW v \in Rows,
           Sound(c, x, w, t), Sound(v, x, w, t)
    PROVE  /\ Written(c, l, v) \in Rows
           /\ Sound(Written(c, l, v), x, w, t)
           /\ Written(c, l, v).until = IF v.until = l.until THEN c.until ELSE v.until
BY DEF Written, Rows, Sound

LEMMA ClearedSound ==
    ASSUME NEW x \in Keys, NEW w \in [Keys -> Nat], NEW t \in Nat,
           NEW r \in Rows, Sound(r, x, w, t)
    PROVE  Cleared(r) \in Rows /\ Sound(Cleared(r), x, w, t) /\ Cleared(r).until = 0
<1>0. 0 \in Times
  BY Constants DEF Times
<1>1. Cleared(r) \in Rows /\ Cleared(r).fails = 0 /\ Cleared(r).until = 0
  BY <1>0 DEF Cleared, Rows
<1>2. w[x] \in Nat /\ 0 <= t + Lasts(x)
  BY Constants
<1> QED BY <1>1, <1>2 DEF Sound

LEMMA NoRowSound ==
    ASSUME NEW x \in Keys, NEW w \in [Keys -> Nat], NEW t \in Nat
    PROVE  NoRow \in Rows /\ Sound(NoRow, x, w, t)
BY Constants DEF NoRow, Rows, Sound, Times

\* One failure more, for the address.
LEMMA TrackedSound ==
    ASSUME Clock, NEW x \in Addresses, NEW w \in [Keys -> Nat], NEW v \in [Keys -> Nat],
           v[x] = w[x] + 1, NEW r \in Rows, Sound(r, x, w, now)
    PROVE  /\ Tracked(r) \in Rows
           /\ Sound(Tracked(r), x, v, now)
           /\ Tracked(r).until \in {r.until, now + Lasts(x)}
<1>1. x \in Keys /\ w[x] \in Nat /\ Lasts(x) = BlockTime /\ now \in Nat /\ now <= MaxTime
  BY Constants, KeyAssumption DEF Keys, Lasts, Clock
<1> DEFINE fails == IF r = NoRow \/ Seconds(now, r.last) > Window THEN 1 ELSE r.fails + 1
           until == IF r # NoRow /\ fails >= Limit THEN now + BlockTime ELSE r.until
<1>2. r.fails \in Nat /\ r.until \in Times
  BY DEF Rows
<1>3. fails \in Nat /\ fails <= v[x]
  BY <1>1, <1>2 DEF Sound
<1> HIDE DEF fails
<1>4. until \in Times /\ (until # 0 => v[x] >= Limit) /\ until <= now + Lasts(x)
      /\ until \in {r.until, now + Lasts(x)}
  BY <1>1, <1>2, <1>3, Constants DEF Sound, Times
<1>5. now \in Times
  BY <1>1, Constants DEF Times
<1> HIDE DEF until
<1>6. Tracked(r) = [fails |-> fails, last |-> now, until |-> until]
  BY DEF Tracked, fails, until
<1> QED BY <1>3, <1>4, <1>5, <1>6 DEF Rows, Sound

\* One failure more, for the account.
LEMMA FailedSound ==
    ASSUME Clock, NEW x \in Users, NEW w \in [Keys -> Nat], NEW v \in [Keys -> Nat],
           v[x] = w[x] + 1, NEW r \in Rows, Sound(r, x, w, now)
    PROVE  /\ Failed(r) \in Rows
           /\ Sound(Failed(r), x, v, now)
           /\ Failed(r).until \in {r.until, now + Lasts(x)}
<1>1. x \in Keys /\ w[x] \in Nat /\ Lasts(x) = LockTime /\ now \in Nat /\ now <= MaxTime
  BY Constants DEF Keys, Lasts, Clock
<1>2. /\ r.fails \in Nat /\ r.until \in Times /\ r.last \in Times
      /\ Failed(r).fails = r.fails + 1
      /\ Failed(r).until = IF r.fails + 1 >= Limit THEN now + LockTime ELSE r.until
  BY DEF Failed, Rows
<1> DEFINE until == IF r.fails + 1 >= Limit THEN now + LockTime ELSE r.until
<1>3. until \in Times /\ r.fails + 1 \in Nat
  BY <1>1, <1>2, Constants DEF Times
<1>4. Failed(r) = [[r EXCEPT !.fails = r.fails + 1] EXCEPT !.until = until]
  BY DEF Failed
<1>5. \A f \in Nat, u \in Times : [[r EXCEPT !.fails = f] EXCEPT !.until = u] \in Rows
  BY DEF Rows
<1> HIDE DEF until
<1>6. Failed(r) \in Rows
  BY <1>3, <1>4, <1>5
<1> QED BY <1>1, <1>2, <1>6, Constants DEF Sound, Times

-----------------------------------------------------------------------------
\* A request that goes on without changing a row; it may send sound copies.
LEMMA CallStep ==
    ASSUME IInv, NEW t \in Threads, NEW c \in Calls,
           CallSound(c, wrong, now),
           call' = [call EXCEPT ![t] = c],
           \A e \in events' : e \in events \/ (e \in Events /\ Sound(e.row, e.key, wrong, now)),
           logins' \in Nat,
           UNCHANGED <<now, row, serving, wrong>>
    PROVE  IInv'
<1>1. TypeOK'
  BY DEF IInv, TypeOK
<1>2. Clock'
  BY DEF IInv, Clock
<1>3. AllSound'
  <2>1. \A s \in Threads : CallSound(call'[s], wrong, now)
    BY DEF IInv, TypeOK, AllSound
  <2>2. \A e \in events' : Sound(e.row, e.key, wrong, now)
    BY DEF IInv, AllSound
  <2> QED BY <2>1, <2>2 DEF IInv, AllSound
<1> QED BY <1>1, <1>2, <1>3 DEF IInv

\* A request that writes sound rows at its server, and may count a failure.
LEMMA RowStep ==
    ASSUME IInv, NEW t \in Threads, NEW n \in Nodes,
           NEW f \in [Keys -> Rows], NEW c \in Calls,
           wrong' \in [Keys -> Nat], \A x \in Keys : wrong'[x] >= wrong[x],
           \A x \in Keys : Sound(f[x], x, wrong', now),
           CallSound(c, wrong', now),
           row' = [row EXCEPT ![n] = f],
           call' = [call EXCEPT ![t] = c],
           UNCHANGED <<now, events, serving, logins>>
    PROVE  IInv'
<1>types. TypeOK /\ now \in Nat
  BY Constants DEF IInv, Clock
<1>1. TypeOK'
  BY DEF IInv, TypeOK
<1>2. Clock'
  BY DEF IInv, Clock
<1>later. ASSUME NEW x \in Keys, NEW r \in Rows, Sound(r, x, wrong, now)
          PROVE  Sound(r, x, wrong', now)
  <2>1. wrong \in [Keys -> Nat] /\ wrong'[x] >= wrong[x] /\ now >= now
    BY <1>types DEF TypeOK
  <2> QED BY <1>types, <1>later, <2>1, SoundLater
<1>3. \A m \in Nodes, x \in Keys : Sound(row'[m][x], x, wrong', now)
  <2> SUFFICES ASSUME NEW m \in Nodes, NEW x \in Keys PROVE Sound(row'[m][x], x, wrong', now)
    OBVIOUS
  <2>1. row[m][x] \in Rows /\ Sound(row[m][x], x, wrong, now)
    BY <1>types DEF IInv, AllSound, TypeOK
  <2>2. row'[m] = IF m = n THEN f ELSE row[m]
    BY <1>types DEF TypeOK
  <2> QED BY <1>later, <2>1, <2>2
<1>4. \A s \in Threads : CallSound(call'[s], wrong', now)
  <2> SUFFICES ASSUME NEW s \in Threads PROVE CallSound(call'[s], wrong', now)
    OBVIOUS
  <2>1. call'[s] = IF s = t THEN c ELSE call[s]
    BY <1>types DEF TypeOK
  <2>2. CallSound(call[s], wrong, now) /\ call[s] \in Calls
    BY <1>types DEF IInv, AllSound, TypeOK
  <2>3. CallSound(call[s], wrong', now)
    BY <1>later, <2>2 DEF CallSound, Calls, Keys
  <2> QED BY <2>1, <2>3
<1>5. \A e \in events : Sound(e.row, e.key, wrong', now)
  BY <1>types, <1>later DEF IInv, AllSound, TypeOK, Events
<1>6. \A m \in Nodes : ServiceSound(serving[m], wrong', now)
  <2> SUFFICES ASSUME NEW m \in Nodes PROVE ServiceSound(serving[m], wrong', now)
    OBVIOUS
  <2>1. serving[m] \in Services /\ ServiceSound(serving[m], wrong, now)
    BY <1>types DEF IInv, AllSound, TypeOK
  <2> QED BY <1>later, <2>1 DEF ServiceSound, Services
<1>7. AllSound'
  BY <1>3, <1>4, <1>5, <1>6 DEF AllSound
<1> QED BY <1>1, <1>2, <1>7 DEF IInv

-----------------------------------------------------------------------------
\* The steps.

LEMMA InitIInv == Init => IInv
<1> SUFFICES ASSUME Init PROVE IInv
  OBVIOUS
<1> USE DEF Init
<1>1. NoRow \in Rows /\ 1 \in Times /\ Idle \in Calls /\ NotServing \in Services
  <2>1. 1 \in Times /\ 0 \in Times
    BY Constants DEF Times
  <2> QED BY <2>1 DEF NoRow, Rows, Idle, Calls, NotServing, Services
<1>2. TypeOK
  BY <1>1 DEF TypeOK
<1>3. Clock
  BY Constants DEF Clock
<1>4. AllSound
  <2>1. \A x \in Keys : Sound(NoRow, x, wrong, now)
    BY <1>2, NoRowSound DEF TypeOK
  <2> QED BY <2>1 DEF AllSound, CallSound, ServiceSound, Idle, NotServing
<1> QED BY <1>2, <1>3, <1>4 DEF IInv

\* What IInv says of the request of thread t.
LEMMA CallParts ==
    ASSUME IInv, NEW t \in Threads
    PROVE  /\ TypeOK /\ call[t] \in Calls /\ Server[t] \in Nodes /\ now \in Nat
           /\ wrong \in [Keys -> Nat]
           /\ call[t].user \in Users \cup {Nobody} /\ call[t].addr \in Addresses \cup {Nobody}
           /\ call[t].acct \in Rows /\ call[t].trk \in Rows
           /\ CallSound(call[t], wrong, now)
           /\ \A x \in Keys : Row(t, x) \in Rows /\ Sound(Row(t, x), x, wrong, now)
           /\ Idle \in Calls /\ CallSound(Idle, wrong, now)
<1>1. TypeOK /\ call[t] \in Calls /\ Server[t] \in Nodes /\ now \in Nat /\ CallSound(call[t], wrong, now)
  BY Constants, ServerAssumption DEF IInv, TypeOK, Clock, AllSound
<1>2. \A x \in Keys : Row(t, x) \in Rows /\ Sound(Row(t, x), x, wrong, now)
  BY <1>1 DEF IInv, TypeOK, AllSound, Row
<1>3. 0 \in Times
  BY Constants DEF Times
<1>4. Idle \in Calls /\ CallSound(Idle, wrong, now)
  BY <1>3 DEF Idle, Calls, NoRow, Rows, CallSound
<1> QED BY <1>1, <1>2, <1>4 DEF TypeOK, Calls

\* A request that only moves on.
LEMMA MoveStep ==
    ASSUME IInv, NEW t \in Threads, NEW pc \in {"check", "verify", "announceLock"},
           call[t].pc # "idle", pc = "announceLock" => call[t].user # Nobody,
           call' = [call EXCEPT ![t] = [call[t] EXCEPT !.pc = pc]],
           UNCHANGED <<now, row, events, serving, logins, wrong>>
    PROVE  IInv'
<1> DEFINE c == [call[t] EXCEPT !.pc = pc]
<1>1. c \in Calls /\ CallSound(c, wrong, now)
  BY CallParts DEF Calls, CallSound
<1>2. call' = [call EXCEPT ![t] = c]
  OBVIOUS
<1> HIDE DEF c
<1> QED BY <1>1, <1>2, CallStep DEF IInv, TypeOK

LEMMA ArriveStep ==
    ASSUME IInv, NEW t \in Threads, NEW u \in Users \cup {Nobody}, NEW a \in Addresses,
           Arrive(t, u, a)
    PROVE  IInv'
<1> DEFINE pc == IF Row(t, a).until = 0 THEN "check" ELSE "reset"
           c == [Idle EXCEPT !.pc = pc, !.user = u, !.addr = a, !.trk = Row(t, a)]
<1>1. a \in Keys /\ Row(t, a) \in Rows /\ Sound(Row(t, a), a, wrong, now) /\ NoRow \in Rows
  BY CallParts, NoRowSound DEF Keys
<1>2. u # Nobody => Sound(NoRow, u, wrong, now)
  BY CallParts, NoRowSound DEF Keys
<1>4. call' = [call EXCEPT ![t] = c]
  BY DEF Arrive
<1>pc. pc \in {"check", "reset"} /\ a # Nobody
  BY <1>1, Constants
<1>ended. pc = "reset" => Row(t, a).until \in 1 .. now
  BY <1>1, Constants, CallParts DEF Arrive, Rows, Times
<1> HIDE DEF pc
<1>3. c \in Calls /\ CallSound(c, wrong, now)
  BY <1>1, <1>2, <1>pc, <1>ended DEF Calls, CallSound, Idle
<1>5. UNCHANGED <<now, row, events, serving, wrong>> /\ logins' \in Nat
  BY CallParts DEF Arrive, TypeOK
<1> HIDE DEF c
<1> QED BY <1>3, <1>4, <1>5, CallStep

LEMMA CheckStep ==
    ASSUME IInv, NEW t \in Threads, Check(t)
    PROVE  IInv'
<1> DEFINE u == call[t].user
           r == IF u = Nobody THEN NoRow ELSE Row(t, u)
           pc == IF r.until = 0 THEN "verify" ELSE "unlock"
           c == [call[t] EXCEPT !.pc = pc, !.acct = r]
<1>1. r \in Rows /\ (u # Nobody => Sound(r, u, wrong, now))
  <2>1. CASE u = Nobody
    <3>1. 0 \in Times
      BY Constants DEF Times
    <3> QED BY <2>1, <3>1 DEF NoRow, Rows
  <2>2. CASE u # Nobody
    BY <2>2, CallParts DEF Keys
  <2> QED BY <2>1, <2>2
<1>2. call' = [call EXCEPT ![t] = IF r.until > now THEN Idle ELSE c]
  BY DEF Check
<1>3. UNCHANGED <<now, row, events, serving, logins, wrong>> /\ logins \in Nat
  BY CallParts DEF Check, TypeOK
<1>u. r.until # 0 => u # Nobody
  BY DEF NoRow
<1>ended. r.until \in Nat /\ now \in Nat
  BY <1>1, Constants, CallParts DEF Rows, Times
<1> HIDE DEF r
<1>4. ASSUME ~(r.until > now)
      PROVE  c \in Calls /\ CallSound(c, wrong, now)
  <2>1. call[t] \in Calls /\ CallSound(call[t], wrong, now) /\ call[t].pc = "check"
    BY CallParts DEF Check, At
  <2>2. pc \in {"verify", "unlock"} /\ (pc = "unlock" => u # Nobody /\ r.until \in 1 .. now)
    BY <1>u, <1>ended, <1>4
  <2> HIDE DEF pc
  <2> QED BY <1>1, <2>1, <2>2 DEF Calls, CallSound
<1> HIDE DEF c
<1>5. (IF r.until > now THEN Idle ELSE c) \in Calls
      /\ CallSound(IF r.until > now THEN Idle ELSE c, wrong, now)
  BY <1>4, CallParts
<1> QED BY <1>2, <1>3, <1>5, CallStep

\* A request that has loaded row r.
LEMMA LoadStep ==
    ASSUME IInv, NEW t \in Threads, NEW c \in Calls, NEW x \in Keys,
           call[t].pc # "idle", c.pc \in {"verify", "succeed", "fail"},
           c.user = call[t].user /\ c.addr = call[t].addr,
           \/ c.user = x /\ c.acct = Row(t, x) /\ c.trk = call[t].trk
           \/ c.addr = x /\ c.trk = Row(t, x) /\ c.acct = call[t].acct,
           call' = [call EXCEPT ![t] = c],
           UNCHANGED <<now, row, events, serving, logins, wrong>>
    PROVE  IInv'
<1>1. CallSound(c, wrong, now)
  BY CallParts DEF CallSound
<1>2. logins' \in Nat
  BY DEF IInv, TypeOK
<1> QED BY <1>1, <1>2, CallStep

LEMMA ReloadStep ==
    ASSUME IInv, NEW t \in Threads, Reload(t)
    PROVE  IInv'
<1> DEFINE u == call[t].user
           c == [call[t] EXCEPT !.pc = "verify", !.acct = Row(t, u)]
<1>1. u \in Keys /\ Row(t, u) \in Rows /\ call[t] \in Calls /\ call[t].pc = "reload"
  BY CallParts DEF Keys, CallSound, Reload, At
<1>2. /\ c \in Calls /\ c.user = u /\ c.acct = Row(t, u) /\ c.pc = "verify"
      /\ c.addr = call[t].addr /\ c.trk = call[t].trk
  BY <1>1 DEF Calls
<1>3. call' = [call EXCEPT ![t] = c] /\ UNCHANGED <<now, row, events, serving, logins, wrong>>
  BY DEF Reload
<1> HIDE DEF c
<1> QED BY <1>1, <1>2, <1>3, LoadStep

LEMMA VerifyStep ==
    ASSUME IInv, NEW t \in Threads, NEW right \in BOOLEAN, Verify(t, right)
    PROVE  IInv'
<1> DEFINE a == call[t].addr
           pc == IF right THEN "succeed" ELSE "fail"
           c == [call[t] EXCEPT !.pc = pc, !.trk = Row(t, a)]
<1>1. a \in Keys /\ Row(t, a) \in Rows /\ call[t] \in Calls /\ pc \in {"succeed", "fail"}
      /\ call[t].pc = "verify"
  BY CallParts DEF Keys, CallSound, Verify, At
<1>3. call' = [call EXCEPT ![t] = c] /\ UNCHANGED <<now, row, events, serving, logins, wrong>>
  BY DEF Verify
<1> HIDE DEF pc
<1>2. /\ c \in Calls /\ c.user = call[t].user /\ c.acct = call[t].acct
      /\ c.pc = pc /\ c.addr = a /\ c.trk = Row(t, a)
  BY <1>1 DEF Calls
<1> HIDE DEF c
<1> QED BY <1>1, <1>2, <1>3, LoadStep

\* The event is a copy of the row as it is now.
LEMMA PublishSound ==
    ASSUME IInv, NEW t \in Threads, NEW x \in Keys, Publish(t, x)
    PROVE  \A e \in events' : e \in events \/ (e \in Events /\ Sound(e.row, e.key, wrong, now))
<1> SUFFICES ASSUME NEW e \in events', e \notin events
             PROVE  e \in Events /\ Sound(e.row, e.key, wrong, now)
  OBVIOUS
<1>1. PICK p \in Nodes : e = [to |-> p, key |-> x, row |-> Row(t, x)]
  BY DEF Publish
<1> QED BY <1>1, CallParts DEF Events

\* The steps that end a login, and the one between the two announcements.
LEMMA AnnounceSteps ==
    ASSUME IInv, NEW t \in Threads, FailureClash(t) \/ AnnounceTracker(t) \/ AnnounceLock(t)
    PROVE  IInv'
<1> DEFINE end == [call EXCEPT ![t] = Idle]
           rest == /\ UNCHANGED <<now, row, serving, logins, wrong>>
                   /\ logins' \in Nat
           sent == \A e \in events' :
                      e \in events \/ (e \in Events /\ Sound(e.row, e.key, wrong, now))
<1>1. CASE FailureClash(t)
  <2>1. call' = end /\ rest /\ sent
    BY <1>1, CallParts DEF FailureClash, TypeOK
  <2> QED BY <2>1, CallParts, CallStep
<1>2. CASE AnnounceTracker(t)
  <2>1. rest /\ call[t].pc = "announce"
    BY <1>2, CallParts DEF AnnounceTracker, TypeOK, At
  <2>2. call[t].addr \in Keys
    BY <2>1, CallParts DEF CallSound, Keys
  <2>3. sent
    BY <1>2, <2>2, PublishSound DEF AnnounceTracker
  <2>4. CASE call[t].user = Nobody
    <3>1. call' = end
      BY <1>2, <2>4 DEF AnnounceTracker
    <3> QED BY <2>1, <2>3, <3>1, CallParts, CallStep
  <2>5. CASE call[t].user # Nobody
    <3> DEFINE c == [call[t] EXCEPT !.pc = "announceLock"]
    <3>1. call' = [call EXCEPT ![t] = c]
      BY <1>2, <2>5 DEF AnnounceTracker
    <3>2. c \in Calls /\ CallSound(c, wrong, now)
      BY <2>1, <2>5, CallParts DEF Calls, CallSound
    <3> HIDE DEF c
    <3> QED BY <2>1, <2>3, <3>1, <3>2, CallStep
  <2> QED BY <2>4, <2>5
<1>3. CASE AnnounceLock(t)
  <2>1. call' = end /\ rest
    BY <1>3, CallParts DEF AnnounceLock, TypeOK
  <2>2. call[t].user \in Keys
    BY <1>3, CallParts DEF AnnounceLock, At, CallSound, Keys
  <2>3. sent
    BY <1>3, <2>2, PublishSound DEF AnnounceLock
  <2> QED BY <2>1, <2>3, CallParts, CallStep
<1> QED BY <1>1, <1>2, <1>3

\* A commit that puts sound rows f into the table and goes on as c, for one
\* that counts no failure.
LEMMA ClearStep ==
    ASSUME IInv, NEW t \in Threads, NEW f \in [Keys -> Rows], NEW c \in Calls,
           \A x \in Keys : Sound(f[x], x, wrong, now), CallSound(c, wrong, now),
           row' = [row EXCEPT ![Server[t]] = f], call' = [call EXCEPT ![t] = c],
           UNCHANGED <<now, events, serving, logins, wrong>>
    PROVE  IInv'
<1>1. wrong' \in [Keys -> Nat] /\ \A x \in Keys : wrong'[x] >= wrong[x]
  BY CallParts
<1>2. Server[t] \in Nodes /\ wrong' = wrong
  BY CallParts
<1> QED BY <1>1, <1>2, RowStep

\* What the middleware and the login make of a row that they clear.
LEMMA ClearedWritten ==
    ASSUME IInv, NEW t \in Threads, NEW x \in Keys, NEW l \in Rows, Sound(l, x, wrong, now)
    PROVE  LET v == Written(Row(t, x), l, Cleared(l))
           IN  v \in Rows /\ Sound(v, x, wrong, now)
BY CallParts, WrittenSound, ClearedSound

LEMMA EndBlockStep ==
    ASSUME IInv, NEW t \in Threads, EndBlock(t)
    PROVE  IInv'
<1> DEFINE n == Server[t]
           a == call[t].addr
           v == Written(row[n][a], call[t].trk, Cleared(call[t].trk))
           f == [row[n] EXCEPT ![a] = v]
           c == [call[t] EXCEPT !.pc = "check"]
<1>1. a \in Keys /\ call[t].trk \in Rows /\ Sound(call[t].trk, a, wrong, now) /\ call[t].pc = "reset"
  BY CallParts DEF EndBlock, At, CallSound, Keys
<1>2. v \in Rows /\ Sound(v, a, wrong, now)
  BY <1>1, ClearedWritten DEF Row
<1>3. row' = [row EXCEPT ![n] = f] /\ call' = [call EXCEPT ![t] = c]
      /\ UNCHANGED <<now, events, serving, logins, wrong>>
  BY CallParts DEF EndBlock, Goto, TypeOK
<1> HIDE DEF v
<1>4. f \in [Keys -> Rows] /\ \A x \in Keys : Sound(f[x], x, wrong, now)
  BY <1>1, <1>2, CallParts DEF TypeOK, Row
<1>5. c \in Calls /\ CallSound(c, wrong, now)
  BY <1>1, CallParts DEF Calls, CallSound
<1> HIDE DEF f, c
<1> QED BY <1>3, <1>4, <1>5, ClearStep

LEMMA EndLockStep ==
    ASSUME IInv, NEW t \in Threads, EndLock(t)
    PROVE  IInv'
<1> DEFINE n == Server[t]
           u == call[t].user
           v == Written(row[n][u], call[t].acct, Cleared(call[t].acct))
           f == [row[n] EXCEPT ![u] = v]
           c == [call[t] EXCEPT !.pc = "reload"]
<1>1. /\ u \in Keys /\ call[t].acct \in Rows /\ Sound(call[t].acct, u, wrong, now)
      /\ call[t].pc = "unlock"
  BY CallParts DEF EndLock, At, CallSound, Keys
<1>2. v \in Rows /\ Sound(v, u, wrong, now)
  BY <1>1, ClearedWritten DEF Row
<1>3. row' = [row EXCEPT ![n] = f] /\ call' = [call EXCEPT ![t] = c]
      /\ UNCHANGED <<now, events, serving, logins, wrong>>
  BY CallParts DEF EndLock, Goto, TypeOK
<1> HIDE DEF v
<1>4. f \in [Keys -> Rows] /\ \A x \in Keys : Sound(f[x], x, wrong, now)
  BY <1>1, <1>2, CallParts DEF TypeOK, Row
<1>5. c \in Calls /\ CallSound(c, wrong, now)
  BY <1>1, CallParts DEF Calls, CallSound
<1> HIDE DEF f, c
<1> QED BY <1>3, <1>4, <1>5, ClearStep

LEMMA CommitSuccessStep ==
    ASSUME IInv, NEW t \in Threads, CommitSuccess(t)
    PROVE  IInv'
<1> DEFINE n == Server[t]
           u == call[t].user
           a == call[t].addr
           va == Written(row[n][a], call[t].trk, Cleared(call[t].trk))
           vu == Written(row[n][u], call[t].acct, Cleared(call[t].acct))
           f == [x \in Keys |-> IF x = a THEN va ELSE IF x = u THEN vu ELSE row[n][x]]
<1>1. \A x \in Keys : x = a => va \in Rows /\ Sound(va, x, wrong, now)
  BY CallParts, ClearedWritten, Constants DEF CallSound, Row, Keys
<1>2. \A x \in Keys : x = u => vu \in Rows /\ Sound(vu, x, wrong, now)
  BY CallParts, ClearedWritten, Constants DEF CallSound, Row, Keys
<1>3. row' = [row EXCEPT ![n] = f] /\ call' = [call EXCEPT ![t] = Idle]
      /\ UNCHANGED <<now, events, serving, logins, wrong>>
  BY DEF CommitSuccess
<1> HIDE DEF va, vu
<1>4. f \in [Keys -> Rows] /\ \A x \in Keys : Sound(f[x], x, wrong, now)
  BY <1>1, <1>2, CallParts DEF TypeOK, Row
<1> HIDE DEF f
<1> QED BY <1>3, <1>4, CallParts, ClearStep

LEMMA CommitFailureStep ==
    ASSUME IInv, NEW t \in Threads, CommitFailure(t)
    PROVE  IInv'
<1> DEFINE n == Server[t]
           u == call[t].user
           a == call[t].addr
           va == Written(row[n][a], call[t].trk, Tracked(call[t].trk))
           vu == Written(row[n][u], call[t].acct, Failed(call[t].acct))
           f == [x \in Keys |-> IF x = a THEN va ELSE IF x = u THEN vu ELSE row[n][x]]
           w == [x \in Keys |-> IF x \in {u, a} THEN wrong[x] + 1 ELSE wrong[x]]
           c == [call[t] EXCEPT !.pc = "announce"]
<1>1. /\ call[t].pc = "fail" /\ row' = [row EXCEPT ![n] = f] /\ wrong' = w
      /\ UNCHANGED <<now, events, serving, logins>>
  BY DEF CommitFailure, At
<1>2. call' = [call EXCEPT ![t] = c]
  BY CallParts DEF CommitFailure, Goto, TypeOK
<1>3. /\ w \in [Keys -> Nat] /\ (\A x \in Keys : w[x] >= wrong[x])
      /\ \A x \in {u, a} \cap Keys : w[x] = wrong[x] + 1
  BY CallParts
<1>4. a \in Addresses /\ a \in Keys /\ (u # Nobody => u \in Users /\ u \in Keys) /\ n \in Nodes
  BY <1>1, CallParts DEF CallSound, Keys
<1>5. Clock /\ now \in Nat
  BY CallParts DEF IInv
<1> HIDE DEF w
<1>later. ASSUME NEW x \in Keys, NEW r \in Rows, Sound(r, x, wrong, now)
          PROVE  Sound(r, x, w, now)
  <2>1. w[x] >= wrong[x] /\ now >= now /\ wrong \in [Keys -> Nat]
    BY <1>3, <1>5, CallParts
  <2> QED BY <1>3, <1>5, <1>later, <2>1, SoundLater
<1>va. va \in Rows /\ Sound(va, a, w, now)
  <2>1. call[t].trk \in Rows /\ Sound(call[t].trk, a, wrong, now)
    BY <1>4, CallParts, Constants DEF CallSound
  <2>2. Tracked(call[t].trk) \in Rows /\ Sound(Tracked(call[t].trk), a, w, now)
    BY <1>3, <1>4, <1>5, <2>1, CallParts, TrackedSound
  <2>3. row[n][a] \in Rows /\ Sound(row[n][a], a, w, now)
    BY <1>4, <1>later, CallParts DEF Row
  <2> QED BY <1>3, <1>4, <1>5, <2>1, <2>2, <2>3, WrittenSound
<1>vu. ASSUME u # Nobody
       PROVE  vu \in Rows /\ Sound(vu, u, w, now)
  <2>1. call[t].acct \in Rows /\ Sound(call[t].acct, u, wrong, now)
    BY <1>vu, CallParts DEF CallSound
  <2>2. Failed(call[t].acct) \in Rows /\ Sound(Failed(call[t].acct), u, w, now)
    BY <1>vu, <1>3, <1>4, <1>5, <2>1, CallParts, FailedSound
  <2>3. row[n][u] \in Rows /\ Sound(row[n][u], u, w, now)
    BY <1>vu, <1>4, <1>later, CallParts DEF Row
  <2> QED BY <1>vu, <1>3, <1>4, <1>5, <2>1, <2>2, <2>3, WrittenSound
<1> HIDE DEF va, vu
<1>6. ASSUME NEW x \in Keys
      PROVE  f[x] \in Rows /\ Sound(f[x], x, w, now)
  <2>1. row[n][x] \in Rows /\ Sound(row[n][x], x, w, now)
    BY <1>later, CallParts DEF Row
  <2>2. x = u => u # Nobody
    BY Constants
  <2> QED BY <1>va, <1>vu, <2>1, <2>2
<1>7. f \in [Keys -> Rows] /\ \A x \in Keys : Sound(f[x], x, w, now)
  BY <1>6
<1>8. c \in Calls /\ CallSound(c, w, now)
  BY <1>1, <1>4, <1>later, CallParts DEF Calls, CallSound
<1> HIDE DEF f, c
<1> QED BY <1>1, <1>2, <1>3, <1>4, <1>7, <1>8, RowStep

LEMMA BeginApplyStep ==
    ASSUME IInv, NEW e \in events, BeginApply(e)
    PROVE  IInv'
<1> DEFINE s == [key |-> e.key, row |-> e.row, loaded |-> row[e.to][e.key]]
<1>1. TypeOK /\ Clock /\ AllSound /\ e \in Events /\ Sound(e.row, e.key, wrong, now)
  BY DEF IInv, TypeOK, AllSound
<1>2. e.to \in Nodes /\ e.key \in Keys /\ e.row \in Rows
  BY <1>1 DEF Events
<1>3. s \in Services /\ ServiceSound(s, wrong, now)
  BY <1>1, <1>2 DEF Services, ServiceSound, TypeOK, AllSound
<1>4. serving' = [serving EXCEPT ![e.to] = s] /\ events' \subseteq events
      /\ UNCHANGED <<now, row, call, logins, wrong>>
  BY DEF BeginApply
<1> HIDE DEF s
<1>5. TypeOK'
  BY <1>1, <1>3, <1>4 DEF TypeOK
<1>6. \A n \in Nodes : ServiceSound(serving'[n], wrong, now)
  BY <1>1, <1>3, <1>4 DEF TypeOK, AllSound
<1> QED BY <1>1, <1>4, <1>5, <1>6 DEF IInv, Clock, AllSound

LEMMA CommitApplyStep ==
    ASSUME IInv, NEW n \in Nodes, CommitApply(n)
    PROVE  IInv'
<1> DEFINE s == serving[n]
           v == Written(row[n][s.key], s.loaded, s.row)
<1>1. TypeOK /\ Clock /\ AllSound /\ now \in Nat /\ wrong \in [Keys -> Nat]
  BY Constants DEF IInv, TypeOK, Clock
<1>2. s \in Services /\ s.key # Nobody /\ ServiceSound(s, wrong, now)
  BY <1>1 DEF CommitApply, TypeOK, AllSound
<1>3. s.key \in Keys /\ row[n][s.key] \in Rows /\ Sound(row[n][s.key], s.key, wrong, now)
  BY <1>1, <1>2 DEF Services, TypeOK, AllSound
<1>4. v \in Rows /\ Sound(v, s.key, wrong, now)
  BY <1>1, <1>2, <1>3, WrittenSound DEF Services, ServiceSound
<1>5. /\ row' = row \/ row' = [row EXCEPT ![n][s.key] = v]
      /\ serving' = [serving EXCEPT ![n] = NotServing]
      /\ UNCHANGED <<now, call, events, logins, wrong>>
  BY DEF CommitApply
<1> HIDE DEF v
<1>6. NotServing \in Services /\ ServiceSound(NotServing, wrong, now)
  <2>1. 0 \in Times
    BY Constants DEF Times
  <2> QED BY <2>1 DEF NotServing, NoRow, Rows, Services, ServiceSound
<1>7. TypeOK'
  <2>1. row' \in [Nodes -> [Keys -> Rows]]
    <3> DEFINE f == [row[n] EXCEPT ![s.key] = v]
    <3>1. f \in [Keys -> Rows] /\ [row EXCEPT ![n][s.key] = v] = [row EXCEPT ![n] = f]
      BY <1>1, <1>3, <1>4 DEF TypeOK
    <3> HIDE DEF f, s
    <3> QED BY <1>1, <1>5, <3>1 DEF TypeOK
  <2>2. serving' \in [Nodes -> Services]
    BY <1>1, <1>5, <1>6 DEF TypeOK
  <2> QED BY <1>1, <1>5, <2>1, <2>2 DEF TypeOK
<1>8. \A m \in Nodes, x \in Keys : Sound(row'[m][x], x, wrong, now)
  BY <1>1, <1>3, <1>4, <1>5 DEF TypeOK, AllSound
<1>9. \A m \in Nodes : ServiceSound(serving'[m], wrong, now)
  BY <1>1, <1>5, <1>6 DEF TypeOK, AllSound
<1> QED BY <1>1, <1>5, <1>7, <1>8, <1>9 DEF IInv, Clock, AllSound

LEMMA TickStep ==
    ASSUME IInv, Tick
    PROVE  IInv'
<1>1. TypeOK /\ now \in Nat /\ now + 1 \in 1 .. MaxTime /\ wrong \in [Keys -> Nat]
  BY Constants DEF IInv, TypeOK, Clock, Tick
<1>2. now' = now + 1 /\ UNCHANGED <<row, call, events, serving, logins, wrong>>
  BY DEF Tick
<1>later. ASSUME NEW x \in Keys, NEW r \in Rows, Sound(r, x, wrong, now)
          PROVE  Sound(r, x, wrong, now')
  <2>1. wrong[x] >= wrong[x] /\ now' \in Nat /\ now' >= now
    BY <1>1, <1>2
  <2> QED BY <1>1, <1>later, <2>1, SoundLater
<1>3. TypeOK' /\ Clock'
  BY <1>1, <1>2, Constants DEF TypeOK, Clock, Times
<1>4. \A n \in Nodes, x \in Keys : Sound(row[n][x], x, wrong, now')
  BY <1>1, <1>later DEF IInv, AllSound, TypeOK
<1>5. \A t \in Threads : CallSound(call[t], wrong, now')
  <2> SUFFICES ASSUME NEW t \in Threads PROVE CallSound(call[t], wrong, now')
    OBVIOUS
  <2>1. \A u : u \in 1 .. now => u \in 1 .. now'
    BY <1>1, <1>2
  <2> QED BY <1>later, <2>1, CallParts DEF CallSound, Keys
<1>6. \A e \in events : Sound(e.row, e.key, wrong, now')
  BY <1>1, <1>later DEF IInv, AllSound, TypeOK, Events
<1>7. \A n \in Nodes : ServiceSound(serving[n], wrong, now')
  <2> SUFFICES ASSUME NEW n \in Nodes PROVE ServiceSound(serving[n], wrong, now')
    OBVIOUS
  <2>1. serving[n] \in Services /\ ServiceSound(serving[n], wrong, now)
    BY <1>1 DEF IInv, AllSound, TypeOK
  <2> QED BY <1>later, <2>1 DEF ServiceSound, Services
<1>8. AllSound'
  BY <1>2, <1>4, <1>5, <1>6, <1>7 DEF AllSound
<1> QED BY <1>3, <1>8 DEF IInv

LEMMA CrashStep ==
    ASSUME IInv, NEW n \in Nodes, Crash(n)
    PROVE  IInv'
<1>1. TypeOK /\ Clock /\ AllSound
  BY DEF IInv
<1>2. 0 \in Times
  BY Constants DEF Times
<1>3. /\ Idle \in Calls /\ CallSound(Idle, wrong, now)
      /\ NotServing \in Services /\ ServiceSound(NotServing, wrong, now)
  BY <1>2 DEF Idle, NotServing, NoRow, Rows, Calls, Services, CallSound, ServiceSound
<1>4. /\ call' = [t \in Threads |-> IF Server[t] = n THEN Idle ELSE call[t]]
      /\ serving' = [serving EXCEPT ![n] = NotServing]
      /\ UNCHANGED <<now, row, events, logins, wrong>>
  BY DEF Crash
<1>5. TypeOK'
  BY <1>1, <1>3, <1>4 DEF TypeOK
<1>6. /\ \A t \in Threads : CallSound(call'[t], wrong, now)
      /\ \A m \in Nodes : ServiceSound(serving'[m], wrong, now)
  BY <1>1, <1>3, <1>4 DEF TypeOK, AllSound
<1> QED BY <1>1, <1>4, <1>5, <1>6 DEF IInv, Clock, AllSound

LEMMA NextIInv == IInv /\ [Next]_vars => IInv'
<1> SUFFICES ASSUME IInv, [Next]_vars PROVE IInv'
  OBVIOUS
<1>1. ASSUME NEW t \in Threads, Request(t)
      PROVE  IInv'
  BY <1>1, ArriveStep, EndBlockStep, CheckStep, EndLockStep, ReloadStep, VerifyStep,
     CommitFailureStep, AnnounceSteps, CommitSuccessStep DEF Request
<1>2. CASE UNCHANGED vars
  BY <1>2 DEF vars, IInv, TypeOK, Clock, AllSound
<1> QED BY <1>1, <1>2, BeginApplyStep, CommitApplyStep, CrashStep, TickStep DEF Next

\* Every copy of a row stays sound, at every step of every server.
THEOREM Invariant == Spec => []IInv
BY InitIInv, NextIInv, PTL DEF Spec

-----------------------------------------------------------------------------
\* The theorems.

\* Rows, requests, events and what they count are always well-typed.
THEOREM LoginTypeOK == Spec => []TypeOK
BY Invariant, PTL DEF IInv

\* A lock or block at any server means that the limit was reached.
THEOREM LocksEarned == Spec => []LocksAreEarned
<1>1. IInv => LocksAreEarned
  BY DEF IInv, AllSound, Sound, LocksAreEarned
<1> QED BY <1>1, Invariant, PTL


-----------------------------------------------------------------------------
\* Locks that are running.

\* What LocksSurviveStaleLogins allows to take a lock off key x at server n.
MayEnd(n, x) ==
    \/ CommitApply(n)
    \/ \E t \in Threads : /\ Server[t] = n
                          /\ EndsOlderLock(t, x) \/ SucceedsKnowingly(t, x)

Survives ==
    \A n \in Nodes, x \in Keys :
        row[n][x].until > now /\ row'[n][x].until < row[n][x].until => MayEnd(n, x)

\* A request that clears the row of x ends a lock only if it has loaded one.
LEMMA ClearedUntil ==
    ASSUME IInv, NEW t \in Threads, NEW x \in Keys, NEW l \in Rows, Sound(l, x, wrong, now),
           Written(Row(t, x), l, Cleared(l)).until < Row(t, x).until
    PROVE  l.until # 0
<1>1. Cleared(l) \in Rows /\ Sound(Cleared(l), x, wrong, now) /\ Cleared(l).until = 0
  BY CallParts, ClearedSound
<1>2. Row(t, x) \in Rows /\ Sound(Row(t, x), x, wrong, now)
  BY CallParts
<1>3. Written(Row(t, x), l, Cleared(l)).until =
          IF Cleared(l).until = l.until THEN Row(t, x).until ELSE Cleared(l).until
  BY <1>1, <1>2, CallParts, WrittenSound
<1>4. Row(t, x).until \in Nat
  BY <1>2, Constants DEF Rows, Times
<1> QED BY <1>1, <1>3, <1>4

\* An account is not an address.
LEMMA Apart ==
    ASSUME IInv, NEW t \in Threads
    PROVE  \A x \in Keys : ~(x = call[t].user /\ x = call[t].addr)
BY CallParts, KeyAssumption, Constants

LEMMA ClearSurvives ==
    ASSUME IInv, NEW t \in Threads, EndBlock(t) \/ EndLock(t) \/ CommitSuccess(t)
    PROVE  Survives
<1> DEFINE u == call[t].user
           a == call[t].addr
           cleared(x, l) == row'[Server[t]][x] = Written(Row(t, x), l, Cleared(l))
<1> SUFFICES ASSUME NEW n \in Nodes, NEW x \in Keys, row'[n][x].until < row[n][x].until
             PROVE  MayEnd(n, x)
  BY DEF Survives
<1>0. TypeOK /\ row[n][x].until \in Nat
  BY Constants DEF IInv, TypeOK, Rows, Times
<1>1. /\ n = Server[t]
      /\ \/ x = a /\ cleared(x, call[t].trk) /\ EndBlock(t)
         \/ x = u /\ x # a /\ cleared(x, call[t].acct) /\ EndLock(t)
         \/ x = a /\ cleared(x, call[t].trk) /\ CommitSuccess(t)
         \/ x = u /\ x # a /\ cleared(x, call[t].acct) /\ CommitSuccess(t)
  <2>1. CASE EndBlock(t)
    BY <1>0, <2>1, CallParts DEF EndBlock, TypeOK, Row
  <2>2. CASE EndLock(t)
    BY <1>0, <2>2, CallParts, Apart DEF EndLock, TypeOK, Row
  <2>3. CASE CommitSuccess(t)
    BY <1>0, <2>3, CallParts DEF CommitSuccess, TypeOK, Row
  <2> QED BY <2>1, <2>2, <2>3
<1>2. /\ EndBlock(t) => call[t].trk.until \in 1 .. now
      /\ EndLock(t) => call[t].acct.until \in 1 .. now
  BY CallParts DEF EndBlock, EndLock, At, CallSound
<1>3. CASE x = a /\ cleared(x, call[t].trk)
  <2>1. Sound(call[t].trk, x, wrong, now) /\ call[t].trk \in Rows
    BY <1>3, CallParts, Constants DEF CallSound
  <2>2. call[t].trk.until # 0
    BY <1>1, <1>3, <2>1, ClearedUntil DEF Row
  <2> QED BY <1>1, <1>2, <1>3, <2>2, Apart DEF MayEnd, EndsOlderLock, SucceedsKnowingly
<1>4. CASE x = u /\ x # a /\ cleared(x, call[t].acct)
  <2>1. Sound(call[t].acct, x, wrong, now) /\ call[t].acct \in Rows
    BY <1>4, CallParts, Constants DEF CallSound
  <2>2. call[t].acct.until # 0
    BY <1>1, <1>4, <2>1, ClearedUntil DEF Row
  <2> QED BY <1>1, <1>2, <1>4, <2>2 DEF MayEnd, EndsOlderLock, SucceedsKnowingly
<1> QED BY <1>1, <1>3, <1>4

\* A failure leaves a lock or sets one, which no other outlasts.
LEMMA FailureSurvives ==
    ASSUME IInv, NEW t \in Threads, CommitFailure(t)
    PROVE  Survives
<1> SUFFICES ASSUME NEW n \in Nodes, NEW x \in Keys PROVE ~(row'[n][x].until < row[n][x].until)
  BY DEF Survives
<1> DEFINE u == call[t].user
           a == call[t].addr
           w == [y \in Keys |-> wrong[y] + 1]
<1>0. TypeOK /\ Clock /\ row[n][x] \in Rows /\ Sound(row[n][x], x, wrong, now)
      /\ row[n][x].until \in Nat /\ now \in Nat /\ now + Lasts(x) \in Nat
  BY CallParts, Constants DEF IInv, TypeOK, AllSound, Rows, Times
<1>1. /\ w \in [Keys -> Nat] /\ w[x] = wrong[x] + 1 /\ wrong \in [Keys -> Nat]
  BY CallParts
<1>2. \/ row'[n][x] = row[n][x]
      \/ x = a /\ row'[n][x] = Written(row[n][x], call[t].trk, Tracked(call[t].trk))
      \/ x = u /\ row'[n][x] = Written(row[n][x], call[t].acct, Failed(call[t].acct))
  BY <1>0, CallParts DEF CommitFailure, TypeOK
<1> HIDE DEF w
<1>3. ASSUME NEW l \in Rows, NEW v \in Rows, v.until \in {l.until, now + Lasts(x)}
      PROVE  ~(Written(row[n][x], l, v).until < row[n][x].until)
  <2>1. Written(row[n][x], l, v).until = IF v.until = l.until THEN row[n][x].until ELSE v.until
    BY DEF Written
  <2>2. row[n][x].until <= now + Lasts(x)
    BY <1>0 DEF Sound
  <2> QED BY <1>0, <1>3, <2>1, <2>2
<1>4. CASE x = a /\ row'[n][x] = Written(row[n][x], call[t].trk, Tracked(call[t].trk))
  <2>1. call[t].trk \in Rows /\ Sound(call[t].trk, x, wrong, now) /\ x \in Addresses
    BY <1>4, CallParts, Constants DEF CallSound
  <2>2. Tracked(call[t].trk) \in Rows /\ Tracked(call[t].trk).until \in {call[t].trk.until, now + Lasts(x)}
    BY <1>0, <1>1, <2>1, TrackedSound
  <2> QED BY <1>3, <1>4, <2>1, <2>2
<1>5. CASE x = u /\ row'[n][x] = Written(row[n][x], call[t].acct, Failed(call[t].acct))
  <2>1. call[t].acct \in Rows /\ Sound(call[t].acct, x, wrong, now) /\ x \in Users
    BY <1>5, CallParts, Constants DEF CallSound
  <2>2. Failed(call[t].acct) \in Rows /\ Failed(call[t].acct).until \in {call[t].acct.until, now + Lasts(x)}
    BY <1>0, <1>1, <2>1, FailedSound
  <2> QED BY <1>3, <1>5, <2>1, <2>2
<1>6. CASE row'[n][x] = row[n][x]
  BY <1>0, <1>6
<1> QED BY <1>2, <1>4, <1>5, <1>6

LEMMA NextSurvives == IInv /\ [Next]_vars => Survives
<1> SUFFICES ASSUME IInv, [Next]_vars PROVE Survives
  OBVIOUS
<1>1. ASSUME UNCHANGED row
      PROVE  Survives
  BY <1>1, Constants DEF Survives, IInv, TypeOK, Rows, Times
<1>2. ASSUME NEW t \in Threads, Request(t)
      PROVE  Survives
  <2>1. CASE \/ EndBlock(t) \/ EndLock(t) \/ CommitSuccess(t) \/ CommitFailure(t)
    BY <2>1, ClearSurvives, FailureSurvives
  <2>2. CASE \/ \E u \in Users \cup {Nobody}, a \in Addresses : Arrive(t, u, a)
             \/ Check(t) \/ Reload(t) \/ \E right \in BOOLEAN : Verify(t, right)
             \/ FailureClash(t) \/ AnnounceTracker(t) \/ AnnounceLock(t)
    BY <1>1, <2>2 DEF Arrive, Check, Reload, Verify, FailureClash, AnnounceTracker, AnnounceLock
  <2> QED BY <1>2, <2>1, <2>2 DEF Request
<1>3. ASSUME NEW n \in Nodes, CommitApply(n)
      PROVE  Survives
  <2>1. \A m \in Nodes, x \in Keys : m # n => row'[m][x] = row[m][x]
    BY <1>3 DEF CommitApply, IInv, TypeOK
  <2>2. \A m \in Nodes, x \in Keys : row[m][x].until \in Nat
    BY Constants DEF IInv, TypeOK, Rows, Times
  <2>3. ASSUME NEW m \in Nodes, NEW x \in Keys, row'[m][x].until < row[m][x].until
        PROVE  MayEnd(m, x)
    <3>1. CASE m = n
      BY <1>3, <3>1 DEF MayEnd
    <3>2. CASE m # n
      BY <2>1, <2>2, <2>3, <3>2
    <3> QED BY <3>1, <3>2
  <2> QED BY <2>3 DEF Survives
<1> QED BY <1>1, <1>2, <1>3 DEF Next, BeginApply, Crash, Tick, vars

\* A running lock is shortened only by a peer's event, or by the step of a
\* request that ends an older lock or had been shown one.
THEOREM LocksSurvive == Spec => LocksSurviveStaleLogins
<1>1. IInv /\ [Next]_vars =>
        [\A n \in Nodes, x \in Keys :
           row[n][x].until > now /\ row'[n][x].until < row[n][x].until =>
              \/ CommitApply(n)
              \/ \E t \in Threads : /\ Server[t] = n
                                    /\ EndsOlderLock(t, x) \/ SucceedsKnowingly(t, x)]_vars
  BY NextSurvives DEF Survives, MayEnd
<1> QED BY <1>1, Invariant, PTL DEF Spec, LocksSurviveStaleLogins

=============================================================================
