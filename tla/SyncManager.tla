---------------------------- MODULE SyncManager ----------------------------
(***************************************************************************)
(* Replication between the application servers:                            *)
(* security_modules/sync_manager.py and its callers in                     *)
(* application_server/main.py.                                             *)
(*                                                                         *)
(* A route handler commits a change to a record, then commits a sync event *)
(* with the record's content, then commits one retry-queue item per peer.  *)
(* The push loop of the node sends queued events to one peer after the     *)
(* other.  The receiving route runs on the peer's event loop, so a node    *)
(* applies one request at a time, but its worker threads write records     *)
(* between the steps.  Every commit is one step.                           *)
(*                                                                         *)
(* A record stands for one row of the tables that events insert and update *)
(* (users, ip_blacklist, encryption_keys, refresh_tokens), found by its    *)
(* unique natural key; its columns are one value.                          *)
(***************************************************************************)
EXTENDS Naturals, FiniteSets

CONSTANTS
    Nodes,       \* application servers
    Records,     \* natural keys of rows
    Values,      \* contents of a row
    Writers,     \* Writers[r]: the nodes whose users write record r
    Absent,      \* no such row
    Nobody,      \* no node
    NoEvent,     \* no event
    BatchLimit,  \* items taken per cycle (50 in the code)
    MaxRetries,  \* attempts per item (10 in the code)
    MaxWrites,   \* bound: local writes of a node
    MaxFaults,   \* bound: lost connections, timeouts and error answers
    MaxCrashes   \* bound: crashes

Events == [src: Nodes, id: 1 .. MaxWrites, row: Records, val: Values]

ASSUME WritersAssumption == Writers \in [Records -> SUBSET Nodes]
ASSUME AbsentAssumption == Absent \notin Values
ASSUME NobodyAssumption == Nobody \notin Nodes
ASSUME NoEventAssumption == NoEvent \notin Events
ASSUME LimitAssumption == /\ BatchLimit \in Nat \ {0}
                          /\ MaxRetries \in Nat \ {0}
                          /\ {MaxWrites, MaxFaults, MaxCrashes} \subseteq Nat

VARIABLES
    rows,     \* node -> record -> content, or Absent
    log,      \* node -> sync_events: its own events and those it applied
    queue,    \* node -> sync_retry_queue
    queued,   \* node -> number of events queued so far; orders created_at
    tasks,    \* node -> handlers that have committed a change
    writes,   \* node -> number of changes its handlers committed
    push,     \* node -> state of run_sync_push_loop
    inbox,    \* node -> push requests that have reached it
    serving,  \* node -> the push request its event loop is applying
    up,       \* node -> is the process running
    catchUp,  \* node -> state of run_catch_up_sync
    faults, crashes

vars == <<rows, log, queue, queued, tasks, writes, push, inbox, serving, up, catchUp,
          faults, crashes>>

Tasks    == [id: 1 .. MaxWrites, row: Records, val: Values \cup {Absent},
             step: {"read", "record", "enqueue"}]
Items    == [event: Events, to: Nodes, tries: 0 .. MaxRetries, at: Nat]
Pushes   == [batch: SUBSET Items, to: Nodes \cup {Nobody}, ok: BOOLEAN]
Requests == [from: Nodes, events: SUBSET Events, live: BOOLEAN]
Services == [from: Nodes \cup {Nobody}, todo: SUBSET Events, live: BOOLEAN,
             cur: Events \cup {NoEvent}, found: BOOLEAN]

Sleeping == [batch |-> {}, to |-> Nobody, ok |-> FALSE]
NotServing == [from |-> Nobody, todo |-> {}, live |-> FALSE,
               cur |-> NoEvent, found |-> FALSE]

\* The body of GET /internal/sync/full: the dump of the tables, here one, under
\* the key "data".
FullSyncBody(p) == [node |-> p, data |-> [records |-> rows[p]]]

Bodies == [node: Nodes, data: [records: [Records -> Values \cup {Absent}]]]
CatchUps == [stage: {"pending", "fetched", "done"}, body: Bodies \cup {Absent}]
Starting == [stage |-> "pending", body |-> Absent]
CaughtUp == [stage |-> "done", body |-> Absent]

Init ==
    /\ rows = [n \in Nodes |-> [r \in Records |-> Absent]]
    /\ log = [n \in Nodes |-> {}]
    /\ queue = [n \in Nodes |-> {}]
    /\ queued = [n \in Nodes |-> 0]
    /\ tasks = [n \in Nodes |-> {}]
    /\ writes = [n \in Nodes |-> 0]
    /\ push = [n \in Nodes |-> Sleeping]
    /\ inbox = [n \in Nodes |-> {}]
    /\ serving = [n \in Nodes |-> NotServing]
    /\ up = [n \in Nodes |-> TRUE]
    /\ catchUp = [n \in Nodes |-> Starting]
    /\ faults = 0
    /\ crashes = 0

-----------------------------------------------------------------------------
\* Route handlers.

(***************************************************************************)
(* A handler inserts a record or changes it, in one commit.  (A handler    *)
(* whose row appeared or vanished since it looked changes nothing.)        *)
(***************************************************************************)
Write(n, r, v) ==
    /\ up[n]
    /\ n \in Writers[r]
    /\ writes[n] < MaxWrites
    /\ rows[n][r] # v
    /\ rows' = [rows EXCEPT ![n][r] = v]
    /\ writes' = [writes EXCEPT ![n] = @ + 1]
    /\ tasks' = [tasks EXCEPT ![n] = @ \cup
          {[id |-> writes[n] + 1, row |-> r, val |-> Absent, step |-> "read"]}]
    /\ UNCHANGED <<log, queue, queued, push, inbox, serving, up, catchUp, faults, crashes>>

\* The commit expired the object: the payload is read from the table again.
ReadPayload(n, t) ==
    /\ t \in tasks[n]
    /\ t.step = "read"
    /\ tasks' = [tasks EXCEPT ![n] = (@ \ {t}) \cup
          {[t EXCEPT !.val = rows[n][t.row], !.step = "record"]}]
    /\ UNCHANGED <<rows, log, queue, queued, writes, push, inbox, serving, up, catchUp,
                   faults, crashes>>

EventOf(n, t) == [src |-> n, id |-> t.id, row |-> t.row, val |-> t.val]

\* create_event, up to its commit.
CreateEvent(n, t) ==
    /\ t \in tasks[n]
    /\ t.step = "record"
    /\ log' = [log EXCEPT ![n] = @ \cup {EventOf(n, t)}]
    /\ tasks' = [tasks EXCEPT ![n] = (@ \ {t}) \cup {[t EXCEPT !.step = "enqueue"]}]
    /\ UNCHANGED <<rows, queue, queued, writes, push, inbox, serving, up, catchUp, faults, crashes>>

\* One item per peer, newer than every item in the queue.
QueueForPeers(n, t) ==
    /\ t \in tasks[n]
    /\ t.step = "enqueue"
    /\ queue' = [queue EXCEPT ![n] = @ \cup
          {[event |-> EventOf(n, t), to |-> p, tries |-> 0,
            at |-> queued[n]] : p \in Nodes \ {n}}]
    /\ queued' = [queued EXCEPT ![n] = @ + 1]
    /\ tasks' = [tasks EXCEPT ![n] = @ \ {t}]
    /\ UNCHANGED <<rows, log, writes, push, inbox, serving, up, catchUp, faults, crashes>>

-----------------------------------------------------------------------------
\* The push loop.

\* Fault: off by one, an item is tried once more than it may be.
PendingOneMore(n) == {i \in queue[n] : i.tries <= MaxRetries}

Pending(n) == {i \in queue[n] : i.tries < MaxRetries}

Smaller(a, b) == IF a < b THEN a ELSE b

\* Fault: the items are taken off the queue when they are polled.
PollTakes(n) ==
    /\ up[n]
    /\ push[n].batch = {}
    /\ Pending(n) # {}
    /\ push' = [push EXCEPT ![n].batch = Pending(n)]
    /\ queue' = [queue EXCEPT ![n] = @ \ Pending(n)]
    /\ UNCHANGED <<rows, log, queued, tasks, writes, inbox, serving, up, catchUp,
                   faults, crashes>>

\* The oldest pending items, at most BatchLimit of them.
Poll(n) ==
    /\ up[n]
    /\ push[n].batch = {}
    /\ Pending(n) # {}
    /\ \E batch \in SUBSET Pending(n) :
          /\ Cardinality(batch) = Smaller(BatchLimit, Cardinality(Pending(n)))
          /\ \A i \in batch, j \in Pending(n) \ batch : i.at <= j.at
          /\ push' = [push EXCEPT ![n].batch = batch]
    /\ UNCHANGED <<rows, log, queue, queued, tasks, writes, inbox, serving, up, catchUp,
                   faults, crashes>>

\* The items of n's batch that go to the peer it is pushing to.
Group(n) == {i \in push[n].batch : i.to = push[n].to}

\* The events of n's batch for p.
EventsFor(n, p) == {i.event : i \in {j \in push[n].batch : j.to = p}}

\* One POST per target.
Send(n, p) ==
    /\ up[p]
    /\ push[n].to = Nobody
    /\ EventsFor(n, p) # {}
    /\ push' = [push EXCEPT ![n].to = p]
    /\ inbox' = [inbox EXCEPT ![p] = @ \cup
                    {[from |-> n, events |-> EventsFor(n, p), live |-> TRUE]}]
    /\ UNCHANGED <<rows, log, queue, queued, tasks, writes, serving, up, catchUp, faults, crashes>>

\* The peer is down, or the connection to it fails.
SendInVain(n, p) ==
    /\ push[n].to = Nobody
    /\ EventsFor(n, p) # {}
    /\ \/ ~up[p] /\ UNCHANGED faults
       \/ up[p] /\ faults < MaxFaults /\ faults' = faults + 1
    /\ push' = [push EXCEPT ![n].to = p]
    /\ UNCHANGED <<rows, log, queue, queued, tasks, writes, inbox, serving, up, catchUp, crashes>>

\* Fault: every item for the peer is removed, those queued meanwhile included.
AcknowledgePeer(n) ==
    /\ push[n].ok
    /\ queue' = [queue EXCEPT ![n] = {i \in @ : i.to # push[n].to}]
    /\ push' = [push EXCEPT ![n] = [batch |-> @.batch \ Group(n), to |-> Nobody, ok |-> FALSE]]
    /\ UNCHANGED <<rows, log, queued, tasks, writes, inbox, serving, up, catchUp, faults, crashes>>

\* Status 200: the group's items leave the queue, whatever the results say.
Acknowledge(n) ==
    /\ push[n].ok
    /\ queue' = [queue EXCEPT ![n] = @ \ Group(n)]
    /\ push' = [push EXCEPT ![n] = [batch |-> @.batch \ Group(n), to |-> Nobody, ok |-> FALSE]]
    /\ UNCHANGED <<rows, log, queued, tasks, writes, inbox, serving, up, catchUp, faults, crashes>>

\* n no longer waits for any answer.
Stale(req, n) == IF req.from = n THEN [req EXCEPT !.live = FALSE] ELSE req

GiveUpWaiting(n) ==
    /\ inbox' = [p \in Nodes |-> {Stale(req, n) : req \in inbox[p]}]
    /\ serving' = [p \in Nodes |-> Stale(serving[p], n)]

\* Is an answer to n still possible?
Answerable(n) ==
    \E p \in Nodes : \/ \E req \in inbox[p] : req.from = n /\ req.live
                     \/ serving[p].from = n /\ serving[p].live

\* Fault: a failed push is not tried again.
FailDropsItems(n) ==
    /\ push[n].to # Nobody
    /\ ~push[n].ok
    /\ \/ ~Answerable(n) /\ UNCHANGED faults
       \/ Answerable(n) /\ faults < MaxFaults /\ faults' = faults + 1
    /\ queue' = [queue EXCEPT ![n] = @ \ Group(n)]
    /\ push' = [push EXCEPT ![n] = [batch |-> @.batch \ Group(n), to |-> Nobody, ok |-> FALSE]]
    /\ GiveUpWaiting(n)
    /\ UNCHANGED <<rows, log, queued, tasks, writes, up, catchUp, crashes>>

\* Fault: retry_count is not incremented.
FailUncounted(n) ==
    /\ push[n].to # Nobody
    /\ ~push[n].ok
    /\ \/ ~Answerable(n) /\ UNCHANGED faults
       \/ Answerable(n) /\ faults < MaxFaults /\ faults' = faults + 1
    /\ UNCHANGED queue
    /\ push' = [push EXCEPT ![n] = [batch |-> @.batch \ Group(n), to |-> Nobody, ok |-> FALSE]]
    /\ GiveUpWaiting(n)
    /\ UNCHANGED <<rows, log, queued, tasks, writes, up, catchUp, crashes>>

(***************************************************************************)
(* No connection, a timeout or an error status: retry_count goes up.  The  *)
(* request itself may still be waiting at the peer, or be half done.       *)
(***************************************************************************)
Fail(n) ==
    /\ push[n].to # Nobody
    /\ ~push[n].ok
    /\ \/ ~Answerable(n) /\ UNCHANGED faults
       \/ Answerable(n) /\ faults < MaxFaults /\ faults' = faults + 1
    /\ queue' = [queue EXCEPT ![n] = (@ \ Group(n)) \cup
                                     {[i EXCEPT !.tries = @ + 1] : i \in Group(n)}]
    /\ push' = [push EXCEPT ![n] = [batch |-> @.batch \ Group(n), to |-> Nobody, ok |-> FALSE]]
    /\ GiveUpWaiting(n)
    /\ UNCHANGED <<rows, log, queued, tasks, writes, up, catchUp, crashes>>

-----------------------------------------------------------------------------
\* receive_sync_push and apply_remote_event, on the event loop of p.

Receive(p, req) ==
    /\ req \in inbox[p]
    /\ serving[p].from = Nobody
    /\ inbox' = [inbox EXCEPT ![p] = @ \ {req}]
    /\ serving' = [serving EXCEPT ![p] = [NotServing EXCEPT !.from = req.from,
                                             !.todo = req.events, !.live = req.live]]
    /\ UNCHANGED <<rows, log, queue, queued, tasks, writes, push, up, catchUp, faults, crashes>>

\* Fault: the event_id is not looked up.
BeginApplyAlways(p, e) ==
    /\ e \in serving[p].todo
    /\ serving[p].cur = NoEvent
    /\ serving' = [serving EXCEPT ![p] =
          [serving[p] EXCEPT !.todo = serving[p].todo \ {e}, !.cur = e,
                             !.found = rows[p][e.row] # Absent]]
    /\ UNCHANGED <<rows, log, queue, queued, tasks, writes, push, inbox, up, catchUp, faults, crashes>>

\* An event that is already logged is skipped.  Otherwise the row is looked up.
\* The events come in the order of an unordered SELECT of the sender.
BeginApply(p, e) ==
    /\ e \in serving[p].todo
    /\ serving[p].cur = NoEvent
    /\ LET rest == serving[p].todo \ {e} IN
       serving' = [serving EXCEPT ![p] =
          IF e \in log[p] THEN [serving[p] EXCEPT !.todo = rest]
          ELSE [serving[p] EXCEPT !.todo = rest, !.cur = e,
                                  !.found = rows[p][e.row] # Absent]]
    /\ UNCHANGED <<rows, log, queue, queued, tasks, writes, push, inbox, up, catchUp, faults, crashes>>

\* Fault: an UPDATE event for a row that is not there is logged and dropped.
CommitApplyUpdateOnly(p) ==
    LET e == serving[p].cur IN
    /\ e # NoEvent
    /\ rows' = IF serving[p].found THEN [rows EXCEPT ![p][e.row] = e.val] ELSE rows
    /\ log' = [log EXCEPT ![p] = @ \cup {e}]
    /\ serving' = [serving EXCEPT ![p].cur = NoEvent]
    /\ UNCHANGED <<queue, queued, tasks, writes, push, inbox, up, catchUp, faults, crashes>>

\* The row is inserted or updated and the event logged, in one transaction.
CommitApply(p) ==
    LET e == serving[p].cur IN
    /\ e # NoEvent
    /\ serving[p].found \/ rows[p][e.row] = Absent
    /\ rows' = [rows EXCEPT ![p][e.row] = e.val]
    /\ log' = [log EXCEPT ![p] = @ \cup {e}]
    /\ serving' = [serving EXCEPT ![p].cur = NoEvent]
    /\ UNCHANGED <<queue, queued, tasks, writes, push, inbox, up, catchUp, faults, crashes>>

\* Fault: the exception is not caught per event, the whole request is answered
\* with status 500.
RejectApplyRaises(p) ==
    /\ serving[p].cur # NoEvent
    /\ ~serving[p].found
    /\ rows[p][serving[p].cur.row] # Absent
    /\ serving' = [serving EXCEPT ![p] = NotServing]
    /\ UNCHANGED <<rows, log, queue, queued, tasks, writes, push, inbox, up, catchUp, faults, crashes>>

\* A handler of p inserted the row meanwhile: the INSERT violates its unique
\* key, everything is rolled back and the result of this event is "error".
RejectApply(p) ==
    /\ serving[p].cur # NoEvent
    /\ ~serving[p].found
    /\ rows[p][serving[p].cur.row] # Absent
    /\ serving' = [serving EXCEPT ![p].cur = NoEvent]
    /\ UNCHANGED <<rows, log, queue, queued, tasks, writes, push, inbox, up, catchUp, faults, crashes>>

\* The answer has status 200 even if some result is "error".
Respond(p) ==
    /\ serving[p].from # Nobody
    /\ serving[p].todo = {}
    /\ serving[p].cur = NoEvent
    /\ push' = IF serving[p].live THEN [push EXCEPT ![serving[p].from].ok = TRUE] ELSE push
    /\ serving' = [serving EXCEPT ![p] = NotServing]
    /\ UNCHANGED <<rows, log, queue, queued, tasks, writes, inbox, up, catchUp, faults, crashes>>

-----------------------------------------------------------------------------
\* run_catch_up_sync, once after every start of the process.

FetchFull(n, p) ==
    /\ p # n
    /\ up[n] /\ up[p]
    /\ catchUp[n].stage = "pending"
    /\ catchUp' = [catchUp EXCEPT ![n] = [stage |-> "fetched", body |-> FullSyncBody(p)]]
    /\ UNCHANGED <<rows, log, queue, queued, tasks, writes, push, inbox, serving, up, faults, crashes>>

\* Every peer is unreachable, or does not answer in time.
SkipCatchUp(n) ==
    /\ catchUp[n].stage = "pending"
    /\ \/ (\A p \in Nodes \ {n} : ~up[p]) /\ UNCHANGED faults
       \/ faults < MaxFaults /\ faults' = faults + 1
    /\ catchUp' = [catchUp EXCEPT ![n] = CaughtUp]
    /\ UNCHANGED <<rows, log, queue, queued, tasks, writes, push, inbox, serving, up, crashes>>

\* Rows of the dump are inserted or overwrite those of n; a key that is no
\* table name is passed over.
Merged(n, data) ==
    IF "records" \in DOMAIN data
    THEN [r \in Records |-> IF data.records[r] = Absent THEN rows[n][r] ELSE data.records[r]]
    ELSE rows[n]

\* apply_full_sync is handed the whole body of the answer.
ApplyFullSync(n) ==
    /\ catchUp[n].stage = "fetched"
    /\ rows' = [rows EXCEPT ![n] = Merged(n, catchUp[n].body)]
    /\ catchUp' = [catchUp EXCEPT ![n] = CaughtUp]
    /\ UNCHANGED <<log, queue, queued, tasks, writes, push, inbox, serving, up, faults, crashes>>

-----------------------------------------------------------------------------
\* The process dies: handlers, loops and connections are gone, tables stay.
Crash(n) ==
    /\ up[n]
    /\ crashes < MaxCrashes
    /\ crashes' = crashes + 1
    /\ up' = [up EXCEPT ![n] = FALSE]
    /\ tasks' = [tasks EXCEPT ![n] = {}]
    /\ push' = [push EXCEPT ![n] = Sleeping]
    /\ inbox' = [p \in Nodes |-> IF p = n THEN {} ELSE {Stale(req, n) : req \in inbox[p]}]
    /\ serving' = [p \in Nodes |-> IF p = n THEN NotServing ELSE Stale(serving[p], n)]
    /\ catchUp' = [catchUp EXCEPT ![n] = CaughtUp]
    /\ UNCHANGED <<rows, log, queue, queued, writes, faults>>

Restart(n) ==
    /\ ~up[n]
    /\ up' = [up EXCEPT ![n] = TRUE]
    /\ catchUp' = [catchUp EXCEPT ![n] = Starting]
    /\ UNCHANGED <<rows, log, queue, queued, tasks, writes, push, inbox, serving, faults, crashes>>

-----------------------------------------------------------------------------
Handler(n) == \E t \in tasks[n] : ReadPayload(n, t) \/ CreateEvent(n, t) \/ QueueForPeers(n, t)

PushLoop(n) == \/ Poll(n) \/ Acknowledge(n) \/ Fail(n)
               \/ \E p \in Nodes : Send(n, p) \/ SendInVain(n, p)

Server(p) ==
    \/ \E req \in inbox[p] : Receive(p, req)
    \/ \E e \in serving[p].todo : BeginApply(p, e)
    \/ CommitApply(p) \/ RejectApply(p) \/ Respond(p)

CatchUp(n) == (\E p \in Nodes : FetchFull(n, p)) \/ SkipCatchUp(n) \/ ApplyFullSync(n)

Next ==
    \/ \E n \in Nodes, r \in Records, v \in Values : Write(n, r, v)
    \/ \E n \in Nodes : \/ Handler(n) \/ PushLoop(n) \/ Server(n) \/ CatchUp(n)
                        \/ Crash(n) \/ Restart(n)

Spec == Init /\ [][Next]_vars

(***************************************************************************)
(* Handlers, push loop and event loop of a running node go on.  Requests,  *)
(* crashes and restarts are not forced (the compose file restarts only the *)
(* databases).                                                             *)
(***************************************************************************)
Fairness ==
    \A n \in Nodes : WF_vars(Handler(n)) /\ WF_vars(PushLoop(n)) /\ WF_vars(Server(n))

FairSpec == Spec /\ Fairness

-----------------------------------------------------------------------------
\* Properties.

\* Every variable has its type: tables, handlers, loops and requests.
TypeOK ==
    /\ rows \in [Nodes -> [Records -> Values \cup {Absent}]]
    /\ log \in [Nodes -> SUBSET Events]
    /\ queue \in [Nodes -> SUBSET Items]
    /\ queued \in [Nodes -> Nat]
    /\ tasks \in [Nodes -> SUBSET Tasks]
    /\ writes \in [Nodes -> 0 .. MaxWrites]
    /\ push \in [Nodes -> Pushes]
    /\ inbox \in [Nodes -> SUBSET Requests]
    /\ serving \in [Nodes -> Services]
    /\ up \in [Nodes -> BOOLEAN]
    /\ catchUp \in [Nodes -> CatchUps]
    /\ faults \in 0 .. MaxFaults
    /\ crashes \in 0 .. MaxCrashes

\* An event lost its answer is pushed again, and an old request may still be in
\* the peer's backlog: no event is applied twice, which could bring an old
\* value back.
NeverAppliedTwice ==
    \A p \in Nodes : serving[p].cur \notin log[p]

\* Log entry and row are one transaction: a record that only peers write is
\* there exactly if an event about it is logged, with the value of one of them.
ReplicaMatchesLog ==
    \A n \in Nodes, r \in Records :
        n \notin Writers[r] =>
            LET values == {e.val : e \in {f \in log[n] : f.row = r}}
            IN  IF values = {} THEN rows[n][r] = Absent ELSE rows[n][r] \in values

\* What the queues still have to bring to a peer.
Owed == UNION {{<<i.event, i.to>> : i \in {j \in queue[n] : j.event \notin log[j.to]}} :
                  n \in Nodes}

\* A queue item is removed only once its target has logged the event.
QueueKeepsUntilApplied ==
    [][\A n \in Nodes : \A i \in queue[n] :
          \/ \E j \in queue'[n] : j.event = i.event /\ j.to = i.to
          \/ i.event \in log'[i.to]]_vars

\* Nothing is in progress and nothing is left to deliver.
Quiescent ==
    \A n \in Nodes : /\ up[n] /\ tasks[n] = {} /\ queue[n] = {}
                     /\ inbox[n] = {} /\ serving[n] = NotServing

\* Once everything is delivered all nodes hold the same rows.
Converged ==
    Quiescent => \A m, n \in Nodes : rows[m] = rows[n]

\* A node that has applied a peer's dump has the rows of that dump.
CatchUpMerges ==
    [][\A n \in Nodes : ApplyFullSync(n) =>
          \A r \in Records : LET row == catchUp[n].body.data.records[r]
                             IN  row # Absent => rows'[n][r] = row]_vars

\* With fewer faults than retries and no crash, every queue is emptied and every
\* request answered, even where servers write the same record and refuse each
\* other's events: a refusal costs no retry.  What a server has recorded has then
\* reached every peer that does not write the record itself, and so refuses
\* nothing, even if the peer has refused another event of the same request.
OwedIsDelivered ==
    <>[](/\ Quiescent
         /\ \A n \in Nodes : \A e \in log[n], p \in Nodes :
                p \notin Writers[e.row] => e \in log[p])

\* The items of a peer that is down do not keep other items waiting: while a
\* node runs, every item that has retries left is sent or uses them up.
Unstarved ==
    \A n \in Nodes :
        (\E i \in queue[n] : i.tries < MaxRetries)
            ~> (~up[n] \/ \A i \in queue[n] : i.tries >= MaxRetries)

=============================================================================
