--------------------------- MODULE AccessControl ---------------------------
(***************************************************************************)
(* Security alerts and access restrictions on the application servers:     *)
(* security_modules/anomaly_detector.py and access_control.py, the cleanup *)
(* task of key_rotation.py, and the routes of main.py that resolve alerts  *)
(* and lift restrictions, with their sync events.                          *)
(*                                                                         *)
(* The detector, the cleanup, the access log and the events of the peers   *)
(* run on the event loop, none of them awaiting anything between its first *)
(* read and its last commit, so that only the administrators' routes, on   *)
(* worker threads, fall between their commits.  Events arrive in any order *)
(* or never, and are applied at most once; see SyncManager.                *)
(*                                                                         *)
(* The detector only ever imposes restrictions of type temp_suspend, with  *)
(* no target; those of type node_block and file_block never come to exist. *)
(***************************************************************************)
EXTENDS Naturals, Sequences, FiniteSets

CONSTANTS
    Nodes,      \* application servers
    Threads,    \* worker threads of all servers
    Server,     \* Server[t]: the server of thread t
    Users, Addresses,
    None,       \* no user name, no address, nothing
    Spike,      \* the kind of alert that suspends: FAILED_AUTH_SPIKE
    Others,     \* groups the three other detectors may find
    Threshold,  \* failures that are no spike yet (3)
    SpikeTime,  \* how long a failure counts (5 minutes)
    QuietTime,  \* kind -> how long an alert keeps another one back
    Duration,   \* length of a suspension (30 minutes)
    MaxTime,    \* bound of the clock
    MaxRows,   \* bound: failed logins, and alerts a pass adds to, of each server
    MaxRequests \* bound: administrators' requests

Kinds == {Spike} \cup {g.kind : g \in Others}

Groups == [kind: Kinds, addr: Addresses \cup {None}, user: Users \cup {None}, count: Nat]

ASSUME ServerAssumption == Server \in [Threads -> Nodes]
ASSUME NoneAssumption == None \notin Users \cup Addresses \cup Nodes
ASSUME OthersAssumption ==
    /\ Others \subseteq Groups
    /\ \A g \in Others : g.kind # Spike
ASSUME TimeAssumption ==
    /\ {Threshold, SpikeTime, Duration, MaxTime, MaxRequests} \subseteq Nat
    /\ QuietTime \in [Kinds -> Nat]
    /\ MaxRows \in [Nodes -> Nat]

VARIABLES
    now,       \* the wall clock
    log,       \* access_logs of each server: its failed logins
    alerts,    \* security_alerts of each server, the index is the id
    rows,      \* access_restrictions of each server
    made,      \* restrictions ever made at each server: their next id
    todo,      \* what the detector of each server still has to look at
    call,      \* the request each worker thread is executing
    events,    \* sync events on their way to a peer
    requests,  \* number of administrators' requests so far
    lifted,    \* for the properties: lifts announced, of each user
    freed      \* for the properties: suspensions of a user removed early at a server

vars == <<now, log, alerts, rows, made, todo, call, events, requests, lifted, freed>>

Failures == [addr: Addresses, user: Users \cup {None}, at: Nat]
Alerts   == [group: Groups, created: Nat, resolved: BOOLEAN]
Rows     == [id: Nat, user: Users, until: Nat]
Events   == [to: Nodes, request: Nat, lifts: Users \cup {None}, alert: Alerts \cup {None}]
Calls    == [pc: {"idle", "announce", "delete"}, alert: Nat, row: Nat]

Idle == [pc |-> "idle", alert |-> 0, row |-> 0]

Init ==
    /\ now = 0
    /\ log = [n \in Nodes |-> <<>>]
    /\ alerts = [n \in Nodes |-> <<>>]
    /\ rows = [n \in Nodes |-> {}]
    /\ made = [n \in Nodes |-> 0]
    /\ todo = [n \in Nodes |-> {}]
    /\ call = [t \in Threads |-> Idle]
    /\ events = {}
    /\ requests = 0
    /\ lifted = [u \in Users |-> 0]
    /\ freed = [n \in Nodes |-> [u \in Users |-> 0]]

-----------------------------------------------------------------------------
\* access_logging_middleware, as far as failed logins go.

\* The user name is that of the access token sent along with the login, if any.
LogFailure(n, a, u) ==
    /\ Len(log[n]) < MaxRows[n]
    /\ log' = [log EXCEPT ![n] = Append(@, [addr |-> a, user |-> u, at |-> now])]
    /\ UNCHANGED <<now, alerts, rows, made, todo, call, events, requests, lifted, freed>>

-----------------------------------------------------------------------------
\* A pass of the detector: run_anomaly_detection and the four detectors.

Count(n, a, u) ==
    Cardinality({i \in DOMAIN log[n] : /\ log[n][i].addr = a /\ log[n][i].user = u
                                       /\ log[n][i].at + SpikeTime >= now})

Group(kind, a, u, count) == [kind |-> kind, addr |-> a, user |-> u, count |-> count]

\* The groups of failed logins of one address and user name.
FailureGroups(n) ==
    {Group(Spike, a, u, Count(n, a, u)) : a \in Addresses, u \in Users \cup {None}}

\* Fault: >= for >.
SpikesAtThreshold(n) == {g \in FailureGroups(n) : g.count >= Threshold}

Spikes(n) == {g \in FailureGroups(n) : g.count > Threshold}

\* The log does not change during a pass, so that all groups are known at once.
StartPass(n) ==
    /\ todo[n] = {} /\ Len(alerts[n]) < MaxRows[n]
    /\ todo' = [todo EXCEPT ![n] = Spikes(n)]
    /\ UNCHANGED <<now, log, alerts, rows, made, call, events, requests, lifted, freed>>

\* An alert about h keeps one about g back: it is of the same address and, but
\* for a spike, of the same user.
Alike(g, h) == g.kind = h.kind /\ g.addr = h.addr /\ (g.kind = Spike \/ g.user = h.user)

\* Fault: the alert is looked for by the user's name as well.
ExistingOfUser(n, g) ==
    \E i \in DOMAIN alerts[n] :
        /\ Alike(g, alerts[n][i].group) /\ g.user = alerts[n][i].group.user
        /\ alerts[n][i].created + QuietTime[g.kind] >= now
        /\ ~alerts[n][i].resolved

Existing(n, g) ==
    \E i \in DOMAIN alerts[n] :
        /\ Alike(g, alerts[n][i].group)
        /\ alerts[n][i].created + QuietTime[g.kind] >= now
        /\ ~alerts[n][i].resolved

\* A row of security_alerts is inserted at server n.
Alert(n, g) ==
    alerts' = [alerts EXCEPT ![n] =
        Append(@, [group |-> g, created |-> now, resolved |-> FALSE])]

\* enforce_restriction does not look for a restriction that is there.
Suspend(n, u) ==
    /\ rows' = [rows EXCEPT ![n] = @ \cup {[id |-> made[n], user |-> u, until |-> now + Duration]}]
    /\ made' = [made EXCEPT ![n] = @ + 1]

\* Fault: the name is not looked at.
JudgeNobody(n, g) ==
    /\ g \in todo[n]
    /\ todo' = [todo EXCEPT ![n] = @ \ {g}]
    /\ IF Existing(n, g) THEN UNCHANGED alerts ELSE Alert(n, g)
    /\ IF ~Existing(n, g) /\ g.kind = Spike
       THEN Suspend(n, g.user)
       ELSE UNCHANGED <<rows, made>>
    /\ UNCHANGED <<now, log, call, events, requests, lifted, freed>>

\* Fault: the suspension is committed before its alert, which may be lost.
JudgeInTwo(n, g) ==
    /\ g \in todo[n]
    /\ todo' = [todo EXCEPT ![n] = @ \ {g}]
    /\ IF Existing(n, g) THEN UNCHANGED alerts ELSE Alert(n, g) \/ UNCHANGED alerts
    /\ IF ~Existing(n, g) /\ g.kind = Spike /\ g.user # None
       THEN Suspend(n, g.user)
       ELSE UNCHANGED <<rows, made>>
    /\ UNCHANGED <<now, log, call, events, requests, lifted, freed>>

\* The next group: unless an alert keeps it back it gets one and, being a spike
\* of a known user, a suspension, both in one commit.
Judge(n, g) ==
    /\ g \in todo[n]
    /\ todo' = [todo EXCEPT ![n] = @ \ {g}]
    /\ IF Existing(n, g) THEN UNCHANGED alerts ELSE Alert(n, g)
    /\ IF ~Existing(n, g) /\ g.kind = Spike /\ g.user # None
       THEN Suspend(n, g.user)
       ELSE UNCHANGED <<rows, made>>
    /\ UNCHANGED <<now, log, call, events, requests, lifted, freed>>

\* The three other detectors: what is in the log for them is left open.
Detect(n, g) ==
    /\ todo[n] = {} /\ Len(alerts[n]) < MaxRows[n]
    /\ ~Existing(n, g)
    /\ Alert(n, g)
    /\ UNCHANGED <<now, log, rows, made, todo, call, events, requests, lifted, freed>>

\* A commit fails: enforce_restriction's error is swallowed, but the session is
\* of no use without a rollback, and the error of the next commit ends the pass.
FailPass(n) ==
    /\ todo[n] # {}
    /\ todo' = [todo EXCEPT ![n] = {}]
    /\ UNCHANGED <<now, log, alerts, rows, made, call, events, requests, lifted, freed>>

-----------------------------------------------------------------------------
\* check_access_restriction, and rows that are removed.

\* The suspensions of u among the rows s that keep the user out.
Running(s, u) == Cardinality({r \in s : r.user = u /\ r.until > now})

\* Rows are deleted.  A DELETE that finds its row gone is only warned about.
Remove(n, s) ==
    /\ rows' = [rows EXCEPT ![n] = @ \ s]
    /\ freed' = [freed EXCEPT ![n] = [u \in Users |-> @[u] + Running(rows[n] \cap s, u)]]

\* lift_expired_restrictions, every five minutes.
Cleanup(n) ==
    /\ Remove(n, {r \in rows[n] : r.until <= now})
    /\ UNCHANGED <<now, log, alerts, made, todo, call, events, requests, lifted>>

-----------------------------------------------------------------------------
\* The routes of the administrators, and the events they cause.

Goto(t, pc) == call' = [call EXCEPT ![t].pc = pc]

Begin(t) ==
    /\ call[t] = Idle
    /\ requests < MaxRequests
    /\ requests' = requests + 1

\* _sync_event: one event for each peer.
Send(t, user, alert) ==
    events' = events \cup
        [to: Nodes \ {Server[t]}, request: {requests'}, lifts: {user}, alert: {alert}]

\* resolve_alert, up to its commit.
Resolve(t, i) ==
    /\ i \in DOMAIN alerts[Server[t]]
    /\ Begin(t)
    /\ alerts' = [alerts EXCEPT ![Server[t]][i].resolved = TRUE]
    /\ call' = [call EXCEPT ![t] = [Idle EXCEPT !.pc = "announce", !.alert = i]]
    /\ UNCHANGED <<now, log, rows, made, todo, events, lifted, freed>>

\* The UPDATE event has the row as it is now, and the literal True.
AnnounceResolved(t) ==
    /\ call[t].pc = "announce"
    /\ requests' = requests
    /\ Send(t, None, [alerts[Server[t]][call[t].alert] EXCEPT !.resolved = TRUE])
    /\ call' = [call EXCEPT ![t] = Idle]
    /\ UNCHANGED <<now, log, alerts, rows, made, todo, lifted, freed>>

\* lift_restriction: the DELETE event is on its way before the row is deleted,
\* and names the user, not the row.
AnnounceLift(t, r) ==
    /\ r \in rows[Server[t]]
    /\ Begin(t)
    /\ Send(t, r.user, None)
    /\ lifted' = [lifted EXCEPT ![r.user] = @ + 1]
    /\ call' = [call EXCEPT ![t] = [Idle EXCEPT !.pc = "delete", !.row = r.id]]
    /\ UNCHANGED <<now, log, alerts, rows, made, todo, freed>>

\* The row may be gone by now, which is answered with an error.
Lift(t) ==
    /\ call[t].pc = "delete"
    /\ Remove(Server[t], {r \in rows[Server[t]] : r.id = call[t].row})
    /\ call' = [call EXCEPT ![t] = Idle]
    /\ UNCHANGED <<now, log, alerts, made, todo, events, requests, lifted>>

\* Fault: every restriction of the user is deleted.
ApplyLiftToAll(e) ==
    /\ e \in events /\ e.lifts # None
    /\ Remove(e.to, {r \in rows[e.to] : r.user = e.lifts})
    /\ events' = events \ {e}
    /\ UNCHANGED <<now, log, alerts, made, todo, call, requests, lifted>>

\* A peer deletes the first restriction it finds of the user, whoever imposed
\* it, or none.
ApplyLift(e) ==
    /\ e \in events /\ e.lifts # None
    /\ LET found == {r \in rows[e.to] : r.user = e.lifts} IN
       \/ found = {} /\ UNCHANGED <<rows, freed>>
       \/ \E r \in found : Remove(e.to, {r})
    /\ events' = events \ {e}
    /\ UNCHANGED <<now, log, alerts, made, todo, call, requests, lifted>>

\* A peer resolves the first alert it finds with that content, or inserts it.
ApplyResolved(e) ==
    /\ e \in events /\ e.alert # None
    /\ LET found == {i \in DOMAIN alerts[e.to] : alerts[e.to][i].group = e.alert.group} IN
       \/ found = {} /\ alerts' = [alerts EXCEPT ![e.to] = Append(@, e.alert)]
       \/ \E i \in found : alerts' = [alerts EXCEPT ![e.to][i] = e.alert]
    /\ events' = events \ {e}
    /\ UNCHANGED <<now, log, rows, made, todo, call, requests, lifted, freed>>

-----------------------------------------------------------------------------
Tick ==
    /\ now < MaxTime
    /\ now' = now + 1
    /\ UNCHANGED <<log, alerts, rows, made, todo, call, events, requests, lifted, freed>>

\* A server process dies, and its pass and requests with it.  Its tables stay.
Crash(n) ==
    /\ todo' = [todo EXCEPT ![n] = {}]
    /\ call' = [t \in Threads |-> IF Server[t] = n THEN Idle ELSE call[t]]
    /\ UNCHANGED <<now, log, alerts, rows, made, events, requests, lifted, freed>>

Request(t) ==
    \/ \E i \in DOMAIN alerts[Server[t]] : Resolve(t, i)
    \/ AnnounceResolved(t)
    \/ \E r \in rows[Server[t]] : AnnounceLift(t, r)
    \/ Lift(t)

EventLoop(n) ==
    \/ \E a \in Addresses, u \in Users \cup {None} : LogFailure(n, a, u)
    \/ StartPass(n) \/ FailPass(n) \/ Cleanup(n)
    \/ \E g \in todo[n] : Judge(n, g)
    \/ \E g \in Others : Detect(n, g)

Next ==
    \/ \E t \in Threads : Request(t)
    \/ \E n \in Nodes : EventLoop(n) \/ Crash(n)
    \/ \E e \in events : ApplyLift(e) \/ ApplyResolved(e)
    \/ Tick

Spec == Init /\ [][Next]_vars

-----------------------------------------------------------------------------
\* Properties.

\* Every variable has its type: tables, passes, requests, events.
TypeOK ==
    /\ now \in Nat
    /\ log \in [Nodes -> Seq(Failures)]
    /\ alerts \in [Nodes -> Seq(Alerts)]
    /\ rows \in [Nodes -> SUBSET Rows]
    /\ made \in [Nodes -> Nat]
    /\ todo \in [Nodes -> SUBSET Groups]
    /\ call \in [Threads -> Calls]
    /\ events \in SUBSET Events
    /\ requests \in Nat
    /\ lifted \in [Users -> Nat]
    /\ freed \in [Nodes -> [Users -> Nat]]

\* Nobody is suspended for less than a spike: more failed logins with the
\* user's name than the threshold were logged at the server, from one address.
SuspensionsAreEarned ==
    \A n \in Nodes : \A r \in rows[n] : \E a \in Addresses :
        Cardinality({i \in DOMAIN log[n] : log[n][i].addr = a /\ log[n][i].user = r.user})
            > Threshold

\* An administrator finds an alert for each suspension: there are never more
\* suspensions of a user at a server than alerts about spikes of that user,
\* although passes fail half-way and the two are different tables.
SuspensionsHaveAlerts ==
    \A n \in Nodes, u \in Users :
        Cardinality({r \in rows[n] : r.user = u}) <=
        Cardinality({i \in DOMAIN alerts[n] : LET g == alerts[n][i].group IN
                                                g.kind = Spike /\ g.user = u})

\* "Don't create duplicate alert": two unresolved alerts about the same thing
\* at one server are further apart than the quiet time, whatever passes,
\* resolutions and events of peers come between them.
AlertsApart ==
    \A n \in Nodes : \A i, j \in DOMAIN alerts[n] :
        LET x == alerts[n][i]  y == alerts[n][j] IN
        /\ i < j /\ Alike(y.group, x.group)
        /\ ~x.resolved /\ ~y.resolved
        => y.created > x.created + QuietTime[x.group.kind]

\* Although the event of a lift is out before the row is deleted, names no row
\* and deletes what another server imposed, no server sets a user free more
\* often than administrators asked for it.
LiftsRemoveOne ==
    \A n \in Nodes, u \in Users : freed[n][u] <= lifted[u]

=============================================================================
