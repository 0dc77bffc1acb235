------------------------- MODULE SyncManagerProofs -------------------------
(***************************************************************************)
(* What holds of SyncManager for every number of servers, records, writes, *)
(* faults and crashes.                                                     *)
(***************************************************************************)
EXTENDS SyncManager, TLAPS

-----------------------------------------------------------------------------
\* What the parts of a node know of each other, whoever writes what.

\* A handler has committed its row, which its node's users may write, and rows
\* are never deleted; what it has read is a content.
TasksOK ==
    \A n \in Nodes : \A t \in tasks[n] :
        /\ n \in Writers[t.row]
        /\ rows[n][t.row] # Absent
        /\ t.step # "read" => t.val \in Values

\* A batch is a part of the queue and may be tried once more.
BatchesOK ==
    \A n \in Nodes : \A i \in push[n].batch : i \in queue[n] /\ i.tries < MaxRetries

FetchedOK ==
    \A n \in Nodes : catchUp[n].stage = "fetched" => catchUp[n].body \in Bodies

\* Nodes push their own events, and to others.
QueuesOK ==
    \A n \in Nodes : \A i \in queue[n] : i.event.src = n /\ i.to # n

\* e comes from another node than p, and its row is written there.
Foreign(e, p) == e.src # p /\ e.src \in Writers[e.row]

OriginsOK ==
    /\ \A n \in Nodes : \A i \in queue[n] : i.event.src \in Writers[i.event.row]
    /\ \A p \in Nodes : \A req \in inbox[p] : \A e \in req.events : Foreign(e, p)
    /\ \A p \in Nodes : \A e \in serving[p].todo : Foreign(e, p)
    /\ \A p \in Nodes : serving[p].cur # NoEvent => Foreign(serving[p].cur, p)

IInv ==
    /\ TypeOK
    /\ TasksOK
    /\ BatchesOK
    /\ FetchedOK
    /\ QueuesOK
    /\ OriginsOK
    /\ ReplicaMatchesLog
    /\ NeverAppliedTwice

-----------------------------------------------------------------------------
\* Route handlers.

LEMMA InitIInv == Init => IInv
<1> SUFFICES ASSUME Init PROVE IInv
  OBVIOUS
<1>1. TypeOK
  BY LimitAssumption DEF Init, TypeOK, Pushes, Services, CatchUps, Sleeping, NotServing, Starting
<1>2. TasksOK /\ BatchesOK /\ FetchedOK /\ QueuesOK /\ OriginsOK
  BY DEF Init, TasksOK, BatchesOK, FetchedOK, QueuesOK, OriginsOK, Foreign, Sleeping,
         NotServing, Starting
<1>3. ReplicaMatchesLog /\ NeverAppliedTwice
  BY DEF Init, ReplicaMatchesLog, NeverAppliedTwice, NotServing
<1> QED BY <1>1, <1>2, <1>3 DEF IInv

LEMMA WriteKeeps ==
    ASSUME IInv, NEW n \in Nodes, NEW r \in Records, NEW v \in Values, Write(n, r, v)
    PROVE  IInv'
<1> USE DEF Write
<1>1. TypeOK'
  BY LimitAssumption DEF IInv, TypeOK, Tasks
<1>2. TasksOK'
  BY AbsentAssumption DEF IInv, TypeOK, TasksOK
<1>3. BatchesOK' /\ FetchedOK' /\ QueuesOK' /\ OriginsOK' /\ NeverAppliedTwice'
  BY DEF IInv, BatchesOK, FetchedOK, QueuesOK, OriginsOK, Foreign, NeverAppliedTwice
<1>4. ReplicaMatchesLog'
  BY DEF IInv, TypeOK, ReplicaMatchesLog
<1> QED BY <1>1, <1>2, <1>3, <1>4 DEF IInv

LEMMA ReadPayloadKeeps ==
    ASSUME IInv, NEW n \in Nodes, NEW t \in tasks[n], ReadPayload(n, t)
    PROVE  IInv'
<1> USE DEF ReadPayload
<1> DEFINE u == [t EXCEPT !.val = rows[n][t.row], !.step = "record"]
<1>u. /\ u \in Tasks
      /\ u.row = t.row
      /\ u.val = rows[n][t.row]
  <2>1. t \in Tasks /\ rows[n] \in [Records -> Values \cup {Absent}]
    BY DEF IInv, TypeOK
  <2>2. rows[n][t.row] \in Values \cup {Absent}
    BY <2>1 DEF Tasks
  <2> QED BY <2>1, <2>2 DEF Tasks
<1>t. tasks' = [tasks EXCEPT ![n] = (@ \ {t}) \cup {u}]
  OBVIOUS
<1> HIDE DEF u
<1>1. TypeOK'
  BY <1>u, <1>t DEF IInv, TypeOK
<1>2. TasksOK'
  <2>1. u.val \in Values
    BY <1>u DEF IInv, TypeOK, TasksOK, Tasks
  <2> QED BY <2>1, <1>u, <1>t DEF IInv, TypeOK, TasksOK
<1>3. BatchesOK' /\ FetchedOK' /\ QueuesOK' /\ OriginsOK' /\ NeverAppliedTwice'
  BY DEF IInv, BatchesOK, FetchedOK, QueuesOK, OriginsOK, Foreign, NeverAppliedTwice
<1>4. ReplicaMatchesLog'
  BY DEF IInv, ReplicaMatchesLog
<1> QED BY <1>1, <1>2, <1>3, <1>4 DEF IInv

LEMMA CreateEventKeeps ==
    ASSUME IInv, NEW n \in Nodes, NEW t \in tasks[n], CreateEvent(n, t)
    PROVE  IInv'
<1> USE DEF CreateEvent
<1>1. /\ EventOf(n, t) \in Events
      /\ EventOf(n, t).src = n
      /\ n \in Writers[EventOf(n, t).row]
  BY DEF IInv, TypeOK, TasksOK, Tasks, EventOf, Events
<1> DEFINE u == [t EXCEPT !.step = "enqueue"]
<1>u. /\ u \in Tasks
      /\ u.row = t.row
      /\ u.val = t.val
  <2>1. t \in Tasks
    BY DEF IInv, TypeOK
  <2> QED BY <2>1 DEF Tasks
<1>t. tasks' = [tasks EXCEPT ![n] = (@ \ {t}) \cup {u}]
  OBVIOUS
<1> HIDE DEF u
<1>2. TypeOK'
  <2>1. tasks' \in [Nodes -> SUBSET Tasks]
    BY <1>u, <1>t DEF IInv, TypeOK
  <2>2. log' \in [Nodes -> SUBSET Events]
    BY <1>1 DEF IInv, TypeOK
  <2> QED BY <2>1, <2>2 DEF IInv, TypeOK
<1>3. TasksOK'
  BY <1>u, <1>t DEF IInv, TypeOK, TasksOK, CreateEvent
<1>4. BatchesOK' /\ FetchedOK' /\ QueuesOK' /\ OriginsOK'
  BY DEF IInv, BatchesOK, FetchedOK, QueuesOK, OriginsOK, Foreign
<1>5. ReplicaMatchesLog'
  <2> SUFFICES ASSUME NEW m \in Nodes, NEW r \in Records, m \notin Writers[r]
               PROVE  {f \in log'[m] : f.row = r} = {f \in log[m] : f.row = r}
    BY DEF IInv, ReplicaMatchesLog
  <2> QED BY <1>1 DEF IInv, TypeOK
<1>6. NeverAppliedTwice'
  BY <1>1, NoEventAssumption DEF IInv, TypeOK, NeverAppliedTwice, OriginsOK, Foreign
<1> QED BY <1>2, <1>3, <1>4, <1>5, <1>6 DEF IInv

LEMMA QueueForPeersKeeps ==
    ASSUME IInv, NEW n \in Nodes, NEW t \in tasks[n], QueueForPeers(n, t)
    PROVE  IInv'
<1> USE DEF QueueForPeers
<1> DEFINE new == {[event |-> EventOf(n, t), to |-> p, tries |-> 0, at |-> queued[n]] :
                      p \in Nodes \ {n}}
<1>1. /\ EventOf(n, t) \in Events
      /\ EventOf(n, t).src = n
      /\ n \in Writers[EventOf(n, t).row]
  BY DEF IInv, TypeOK, TasksOK, Tasks, EventOf, Events
<1>2. \A i \in new : /\ i \in Items /\ i.to # n
                     /\ i.event = EventOf(n, t)
  BY <1>1, LimitAssumption DEF IInv, TypeOK, Items
<1>3. queue' = [queue EXCEPT ![n] = @ \cup new]
  OBVIOUS
<1> HIDE DEF new
<1>4. TypeOK'
  BY <1>2, <1>3 DEF IInv, TypeOK, Tasks
<1>5. TasksOK' /\ FetchedOK' /\ NeverAppliedTwice' /\ ReplicaMatchesLog'
  BY DEF IInv, TypeOK, TasksOK, FetchedOK, NeverAppliedTwice, ReplicaMatchesLog
<1>6. BatchesOK' /\ QueuesOK' /\ OriginsOK'
  BY <1>1, <1>2, <1>3 DEF IInv, TypeOK, BatchesOK, QueuesOK, OriginsOK, Foreign
<1> QED BY <1>4, <1>5, <1>6 DEF IInv

-----------------------------------------------------------------------------
\* The push loop.

\* Its own state is not what the tables and the requests are about.
LEMMA PushingKeeps ==
    ASSUME IInv, UNCHANGED <<rows, log, queue, tasks, inbox, serving, catchUp>>
    PROVE  /\ TasksOK' /\ FetchedOK' /\ QueuesOK' /\ OriginsOK'
           /\ NeverAppliedTwice' /\ ReplicaMatchesLog'
<1>1. TasksOK' /\ FetchedOK' /\ QueuesOK'
  BY DEF IInv, TasksOK, FetchedOK, QueuesOK
<1>2. OriginsOK'
  BY DEF IInv, OriginsOK, Foreign
<1>3. NeverAppliedTwice' /\ ReplicaMatchesLog'
  BY DEF IInv, NeverAppliedTwice, ReplicaMatchesLog
<1> QED BY <1>1, <1>2, <1>3

LEMMA PollKeeps ==
    ASSUME IInv, NEW n \in Nodes, Poll(n)
    PROVE  IInv'
<1> USE DEF Poll
<1>1. PICK batch \in SUBSET Pending(n) : push' = [push EXCEPT ![n].batch = batch]
  OBVIOUS
<1>2. batch \subseteq queue[n] /\ \A i \in batch : i.tries < MaxRetries
  BY DEF Pending
<1>3. TypeOK'
  BY <1>1, <1>2 DEF IInv, TypeOK, Pushes
<1>4. BatchesOK'
  BY <1>1, <1>2 DEF IInv, TypeOK, BatchesOK, Pushes
<1> QED BY <1>3, <1>4, PushingKeeps DEF IInv

\* What a node sends are its own events, and it sends them to others.
LEMMA SentEvents ==
    ASSUME IInv, NEW n \in Nodes, NEW p \in Nodes, EventsFor(n, p) # {}
    PROVE  /\ p # n
           /\ EventsFor(n, p) \subseteq Events
           /\ \A e \in EventsFor(n, p) : e.src = n /\ Foreign(e, p)
<1>1. \A j \in push[n].batch : /\ j \in queue[n] /\ j \in Items
                               /\ j.event.src = n /\ j.to # n
                               /\ n \in Writers[j.event.row]
  BY DEF IInv, TypeOK, BatchesOK, QueuesOK, OriginsOK
<1> QED BY <1>1 DEF EventsFor, Items, Foreign

LEMMA RetargetedPush ==
    ASSUME NEW n \in Nodes, NEW p \in Nodes, push \in [Nodes -> Pushes],
           push' = [push EXCEPT ![n].to = p]
    PROVE  push' \in [Nodes -> Pushes]
<1>1. \A b \in Pushes : [b EXCEPT !.to = p] \in Pushes
  BY DEF Pushes
<1> QED BY <1>1

LEMMA SendKeeps ==
    ASSUME IInv, NEW n \in Nodes, NEW p \in Nodes, Send(n, p)
    PROVE  IInv'
<1> USE DEF Send
<1> DEFINE req == [from |-> n, events |-> EventsFor(n, p), live |-> TRUE]
<1>1. /\ req \in Requests
      /\ \A e \in req.events : Foreign(e, p)
  BY SentEvents DEF Requests
<1>2. inbox' = [inbox EXCEPT ![p] = @ \cup {req}]
  OBVIOUS
<1> HIDE DEF req
<1>3. TypeOK'
  <2>1. push' \in [Nodes -> Pushes]
    BY RetargetedPush DEF IInv, TypeOK
  <2>2. inbox' \in [Nodes -> SUBSET Requests]
    BY <1>1, <1>2 DEF IInv, TypeOK
  <2> QED BY <2>1, <2>2 DEF IInv, TypeOK
<1>4. OriginsOK'
  BY <1>1, <1>2 DEF IInv, TypeOK, OriginsOK, Foreign
<1>5. BatchesOK'
  BY DEF IInv, TypeOK, BatchesOK, Pushes
<1>6. TasksOK' /\ FetchedOK' /\ QueuesOK'
  BY DEF IInv, TasksOK, FetchedOK, QueuesOK
<1>7. NeverAppliedTwice' /\ ReplicaMatchesLog'
  BY DEF IInv, NeverAppliedTwice, ReplicaMatchesLog
<1> QED BY <1>7, <1>3, <1>4, <1>5, <1>6 DEF IInv

LEMMA SendInVainKeeps ==
    ASSUME IInv, NEW n \in Nodes, NEW p \in Nodes, SendInVain(n, p)
    PROVE  IInv'
<1> USE DEF SendInVain
<1>1. TypeOK'
  <2>1. push' \in [Nodes -> Pushes]
    BY RetargetedPush DEF IInv, TypeOK
  <2>2. faults' \in 0 .. MaxFaults
    BY LimitAssumption DEF IInv, TypeOK
  <2> QED BY <2>1, <2>2 DEF IInv, TypeOK
<1>2. BatchesOK'
  BY DEF IInv, TypeOK, BatchesOK, Pushes
<1> QED BY <1>1, <1>2, PushingKeeps DEF IInv

LEMMA AcknowledgeKeeps ==
    ASSUME IInv, NEW n \in Nodes, Acknowledge(n)
    PROVE  IInv'
<1> USE DEF Acknowledge
<1>1. TypeOK'
  BY DEF IInv, TypeOK, Pushes
<1>2. BatchesOK'
  BY DEF IInv, TypeOK, BatchesOK, Pushes
<1>3. QueuesOK' /\ OriginsOK'
  BY DEF IInv, TypeOK, QueuesOK, OriginsOK, Foreign
<1>4. TasksOK' /\ FetchedOK' /\ NeverAppliedTwice' /\ ReplicaMatchesLog'
  BY DEF IInv, TasksOK, FetchedOK, NeverAppliedTwice, ReplicaMatchesLog
<1> QED BY <1>1, <1>2, <1>3, <1>4 DEF IInv

\* A request that nobody waits for any longer is otherwise the same.
LEMMA StaleRequest ==
    ASSUME NEW req \in Requests, NEW n \in Nodes
    PROVE  /\ Stale(req, n) \in Requests
           /\ Stale(req, n).from = req.from
           /\ Stale(req, n).events = req.events
           /\ Stale(req, n).live <=> req.live /\ req.from # n
BY DEF Stale, Requests

LEMMA StaleService ==
    ASSUME NEW s \in Services, NEW n \in Nodes
    PROVE  /\ Stale(s, n) \in Services
           /\ Stale(s, n).from = s.from
           /\ Stale(s, n).todo = s.todo
           /\ Stale(s, n).cur = s.cur
           /\ Stale(s, n).found = s.found
           /\ Stale(s, n).live <=> s.live /\ s.from # n
BY DEF Stale, Services

\* The items of a failed push, one attempt later.
Retried(n) == {[i EXCEPT !.tries = @ + 1] : i \in Group(n)}

LEMMA RetriedItems ==
    ASSUME IInv, NEW n \in Nodes
    PROVE  /\ Retried(n) \subseteq Items
           /\ \A j \in Retried(n) : \E i \in Group(n) : j.event = i.event /\ j.to = i.to
           /\ \A i \in Group(n) : \E j \in Retried(n) : j.event = i.event /\ j.to = i.to
           /\ Group(n) \subseteq queue[n]
<1>1. \A i \in Group(n) : i \in queue[n] /\ i \in Items /\ i.tries < MaxRetries
  BY DEF IInv, TypeOK, BatchesOK, Group
<1>2. \A i \in Group(n) : /\ [i EXCEPT !.tries = @ + 1] \in Items
                          /\ [i EXCEPT !.tries = @ + 1].event = i.event
                          /\ [i EXCEPT !.tries = @ + 1].to = i.to
  BY <1>1, LimitAssumption DEF Items
<1> QED BY <1>1, <1>2 DEF Retried

LEMMA FailKeeps ==
    ASSUME IInv, NEW n \in Nodes, Fail(n)
    PROVE  IInv'
<1>1. /\ queue' = [queue EXCEPT ![n] = (@ \ Group(n)) \cup Retried(n)]
      /\ push' = [push EXCEPT ![n] = [batch |-> @.batch \ Group(n), to |-> Nobody, ok |-> FALSE]]
      /\ faults' \in {faults, faults + 1} /\ (faults' # faults => faults < MaxFaults)
      /\ inbox' = [p \in Nodes |-> {Stale(req, n) : req \in inbox[p]}]
      /\ serving' = [p \in Nodes |-> Stale(serving[p], n)]
      /\ UNCHANGED <<rows, log, queued, tasks, writes, up, catchUp, crashes>>
  BY DEF Fail, Retried, GiveUpWaiting
<1>2. TypeOK'
  <2>1. queue' \in [Nodes -> SUBSET Items] /\ push' \in [Nodes -> Pushes]
    BY <1>1, RetriedItems DEF IInv, TypeOK, Pushes
  <2>2. inbox' \in [Nodes -> SUBSET Requests] /\ serving' \in [Nodes -> Services]
    BY <1>1, StaleRequest, StaleService DEF IInv, TypeOK
  <2>3. faults' \in 0 .. MaxFaults
    BY <1>1, LimitAssumption DEF IInv, TypeOK
  <2> QED BY <1>1, <2>1, <2>2, <2>3 DEF IInv, TypeOK
<1>3. BatchesOK'
  BY <1>1 DEF IInv, TypeOK, BatchesOK, Pushes
<1>4. QueuesOK'
  <2>1. SUFFICES ASSUME NEW m \in Nodes, NEW j \in queue'[m]
                 PROVE  j.event.src = m /\ j.to # m
    BY DEF QueuesOK
  <2>2. \E i \in queue[m] : j.event = i.event /\ j.to = i.to
    BY <1>1, RetriedItems DEF IInv, TypeOK
  <2> QED BY <2>2 DEF IInv, QueuesOK
<1>5. OriginsOK'
  <2>1. \A m \in Nodes : \A i \in queue'[m] : i.event.src \in Writers[i.event.row]
    BY <1>1, RetriedItems DEF IInv, TypeOK, OriginsOK
  <2>2. \A p \in Nodes : \A req \in inbox'[p] : \A e \in req.events : Foreign(e, p)
    <3>1. SUFFICES ASSUME NEW p \in Nodes, NEW req \in inbox[p],
                          NEW e \in Stale(req, n).events
                   PROVE  Foreign(e, p)
      BY <1>1
    <3>2. e \in req.events
      BY StaleRequest DEF IInv, TypeOK
    <3> QED BY <3>2 DEF IInv, OriginsOK
  <2>3. \A p \in Nodes : /\ \A e \in serving'[p].todo : Foreign(e, p)
                         /\ serving'[p].cur # NoEvent => Foreign(serving'[p].cur, p)
    <3>1. \A p \in Nodes : /\ serving'[p].todo = serving[p].todo
                           /\ serving'[p].cur = serving[p].cur
      BY <1>1, StaleService DEF IInv, TypeOK
    <3> QED BY <3>1 DEF IInv, OriginsOK
  <2> QED BY <2>1, <2>2, <2>3 DEF OriginsOK, Foreign
<1>6. NeverAppliedTwice'
  BY <1>1, StaleService DEF IInv, TypeOK, NeverAppliedTwice
<1>7. TasksOK' /\ FetchedOK' /\ ReplicaMatchesLog'
  BY <1>1 DEF IInv, TasksOK, FetchedOK, ReplicaMatchesLog
<1> QED BY <1>2, <1>3, <1>4, <1>5, <1>6, <1>7 DEF IInv

-----------------------------------------------------------------------------
\* receive_sync_push and apply_remote_event.

\* A request on its way through the event loop changes no table.
LEMMA ServingKeeps ==
    ASSUME IInv, UNCHANGED <<rows, log, queue, tasks, catchUp>>,
           \A n \in Nodes : push'[n].batch = push[n].batch
    PROVE  TasksOK' /\ BatchesOK' /\ FetchedOK' /\ QueuesOK' /\ ReplicaMatchesLog'
<1>1. TasksOK' /\ FetchedOK' /\ QueuesOK'
  BY DEF IInv, TasksOK, FetchedOK, QueuesOK
<1>2. BatchesOK'
  BY DEF IInv, BatchesOK
<1>3. ReplicaMatchesLog'
  BY DEF IInv, ReplicaMatchesLog
<1> QED BY <1>1, <1>2, <1>3

LEMMA ReceiveKeeps ==
    ASSUME IInv, NEW p \in Nodes, NEW req \in inbox[p], Receive(p, req)
    PROVE  IInv'
<1> DEFINE s == [NotServing EXCEPT !.from = req.from, !.todo = req.events, !.live = req.live]
<1>1. /\ req \in Requests
      /\ \A e \in req.events : Foreign(e, p)
  BY DEF IInv, TypeOK, OriginsOK
<1>2. /\ s \in Services
      /\ s.todo = req.events
      /\ s.cur = NoEvent
  BY <1>1 DEF NotServing, Services, Requests
<1>3. /\ inbox' = [inbox EXCEPT ![p] = @ \ {req}]
      /\ serving' = [serving EXCEPT ![p] = s]
      /\ UNCHANGED <<rows, log, queue, queued, tasks, writes, push, up, catchUp, faults, crashes>>
  BY DEF Receive
<1> HIDE DEF s
<1>4. TypeOK'
  BY <1>2, <1>3 DEF IInv, TypeOK
<1>5. OriginsOK'
  BY <1>1, <1>2, <1>3 DEF IInv, TypeOK, OriginsOK, Foreign
<1>6. NeverAppliedTwice'
  BY <1>2, <1>3, NoEventAssumption DEF IInv, TypeOK, NeverAppliedTwice
<1>7. TasksOK' /\ BatchesOK' /\ FetchedOK' /\ QueuesOK' /\ ReplicaMatchesLog'
  BY <1>3, ServingKeeps
<1> QED BY <1>4, <1>5, <1>6, <1>7 DEF IInv

LEMMA BeginApplyKeeps ==
    ASSUME IInv, NEW p \in Nodes, NEW e \in serving[p].todo, BeginApply(p, e)
    PROVE  IInv'
<1>1. serving[p] \in Services /\ e \in Events /\ Foreign(e, p)
  BY DEF IInv, TypeOK, OriginsOK, Services
<1>2. PICK s \in Services :
          /\ serving' = [serving EXCEPT ![p] = s]
          /\ s.todo \subseteq serving[p].todo
          /\ s.cur = NoEvent \/ (s.cur = e /\ e \notin log[p])
  <2> DEFINE skip == [serving[p] EXCEPT !.todo = serving[p].todo \ {e}]
             take == [serving[p] EXCEPT !.todo = serving[p].todo \ {e}, !.cur = e,
                                        !.found = rows[p][e.row] # Absent]
  <2>1. /\ skip \in Services /\ skip.todo \subseteq serving[p].todo
        /\ skip.cur = serving[p].cur
    BY <1>1 DEF Services
  <2>2. /\ take \in Services /\ take.todo \subseteq serving[p].todo
        /\ take.cur = e
    BY <1>1 DEF Services
  <2>3. serving[p].cur = NoEvent
    BY DEF BeginApply
  <2>4. CASE e \in log[p]
    <3>1. serving' = [serving EXCEPT ![p] = skip]
      BY <2>4 DEF BeginApply
    <3> HIDE DEF skip, take
    <3> QED BY <3>1, <2>1, <2>3
  <2>5. CASE e \notin log[p]
    <3>1. serving' = [serving EXCEPT ![p] = take]
      BY <2>5 DEF BeginApply
    <3> HIDE DEF skip, take
    <3> QED BY <3>1, <2>2, <2>5
  <2> QED BY <2>4, <2>5
<1>3. UNCHANGED <<rows, log, queue, queued, tasks, writes, push, inbox, up, catchUp, faults, crashes>>
  BY DEF BeginApply
<1>4. TypeOK'
  BY <1>2, <1>3 DEF IInv, TypeOK
<1>5. OriginsOK'
  BY <1>1, <1>2, <1>3 DEF IInv, TypeOK, OriginsOK, Foreign
<1>6. NeverAppliedTwice'
  BY <1>2, <1>3, NoEventAssumption DEF IInv, TypeOK, NeverAppliedTwice
<1>7. TasksOK' /\ BatchesOK' /\ FetchedOK' /\ QueuesOK' /\ ReplicaMatchesLog'
  BY <1>3, ServingKeeps
<1> QED BY <1>4, <1>5, <1>6, <1>7 DEF IInv

\* The request goes on without the event that was looked up.
LEMMA NextEvent ==
    ASSUME IInv, NEW p \in Nodes
    PROVE  /\ [serving[p] EXCEPT !.cur = NoEvent] \in Services
           /\ [serving[p] EXCEPT !.cur = NoEvent].todo = serving[p].todo
           /\ [serving[p] EXCEPT !.cur = NoEvent].from = serving[p].from
           /\ [serving[p] EXCEPT !.cur = NoEvent].live = serving[p].live
           /\ [serving[p] EXCEPT !.cur = NoEvent].cur = NoEvent
BY DEF IInv, TypeOK, Services

LEMMA CommitApplyKeeps ==
    ASSUME IInv, NEW p \in Nodes, CommitApply(p)
    PROVE  IInv'
<1> DEFINE e == serving[p].cur
           s == [serving[p] EXCEPT !.cur = NoEvent]
<1>1. e \in Events /\ Foreign(e, p) /\ e.val \in Values /\ e.row \in Records
  BY DEF IInv, TypeOK, OriginsOK, Services, Events, CommitApply
<1>2. s \in Services /\ s.todo = serving[p].todo /\ s.cur = NoEvent
  BY NextEvent
<1>3. /\ rows' = [rows EXCEPT ![p][e.row] = e.val]
      /\ log' = [log EXCEPT ![p] = @ \cup {e}]
      /\ serving' = [serving EXCEPT ![p] = s]
      /\ UNCHANGED <<queue, queued, tasks, writes, push, inbox, up, catchUp, faults, crashes>>
  BY DEF CommitApply
<1> HIDE DEF e, s
<1>4. TypeOK'
  BY <1>1, <1>2, <1>3 DEF IInv, TypeOK
<1>5. TasksOK'
  BY <1>1, <1>3, AbsentAssumption DEF IInv, TypeOK, TasksOK, Tasks
<1>6. OriginsOK'
  BY <1>2, <1>3 DEF IInv, TypeOK, OriginsOK, Foreign
<1>7. NeverAppliedTwice'
  <2>1. NoEvent \notin log'[p]
    BY <1>4, NoEventAssumption DEF TypeOK
  <2> QED BY <2>1, <1>2, <1>3 DEF IInv, TypeOK, NeverAppliedTwice
<1>8. ReplicaMatchesLog'
  <2> SUFFICES ASSUME NEW n \in Nodes, NEW r \in Records, n \notin Writers[r]
               PROVE  LET values == {f.val : f \in {g \in log'[n] : g.row = r}}
                      IN  IF values = {} THEN rows'[n][r] = Absent ELSE rows'[n][r] \in values
    BY DEF ReplicaMatchesLog
  <2>1. CASE n = p /\ r = e.row
    <3>1. e \in {g \in log'[n] : g.row = r} /\ rows'[n][r] = e.val
      BY <2>1, <1>1, <1>3 DEF IInv, TypeOK
    <3> QED BY <3>1
  <2>2. CASE ~(n = p /\ r = e.row)
    <3>1. /\ {g \in log'[n] : g.row = r} = {g \in log[n] : g.row = r}
          /\ rows'[n][r] = rows[n][r]
      BY <2>2, <1>1, <1>3 DEF IInv, TypeOK
    <3> QED BY <3>1 DEF IInv, ReplicaMatchesLog
  <2> QED BY <2>1, <2>2
<1>9. BatchesOK' /\ FetchedOK' /\ QueuesOK'
  BY <1>3 DEF IInv, BatchesOK, FetchedOK, QueuesOK
<1> QED BY <1>4, <1>5, <1>6, <1>7, <1>8, <1>9 DEF IInv

\* A step that only takes work off the event loop of p.
LEMMA LessToDo ==
    ASSUME IInv, NEW p \in Nodes, NEW s \in Services,
           s.todo \subseteq serving[p].todo, s.cur = NoEvent,
           serving' = [serving EXCEPT ![p] = s], push' \in [Nodes -> Pushes],
           \A n \in Nodes : push'[n].batch = push[n].batch,
           UNCHANGED <<rows, log, queue, queued, tasks, writes, inbox, up, catchUp, faults,
                       crashes>>
    PROVE  IInv'
<1>1. TypeOK'
  BY DEF IInv, TypeOK
<1>2. OriginsOK'
  BY DEF IInv, TypeOK, OriginsOK, Foreign
<1>3. NeverAppliedTwice'
  BY NoEventAssumption DEF IInv, TypeOK, NeverAppliedTwice
<1>4. TasksOK' /\ BatchesOK' /\ FetchedOK' /\ QueuesOK' /\ ReplicaMatchesLog'
  BY ServingKeeps
<1> QED BY <1>1, <1>2, <1>3, <1>4 DEF IInv

LEMMA RejectApplyKeeps ==
    ASSUME IInv, NEW p \in Nodes, RejectApply(p)
    PROVE  IInv'
<1>1. serving' = [serving EXCEPT ![p] = [serving[p] EXCEPT !.cur = NoEvent]]
  BY DEF RejectApply
<1>2. push' \in [Nodes -> Pushes]
  BY DEF RejectApply, IInv, TypeOK
<1> QED BY <1>1, <1>2, NextEvent, LessToDo DEF RejectApply

LEMMA RespondKeeps ==
    ASSUME IInv, NEW p \in Nodes, Respond(p)
    PROVE  IInv'
<1>1. NotServing \in Services /\ NotServing.todo = {} /\ NotServing.cur = NoEvent
  BY DEF NotServing, Services
<1>2. /\ push' \in [Nodes -> Pushes]
      /\ \A n \in Nodes : push'[n].batch = push[n].batch
  <2>1. push \in [Nodes -> Pushes]
    BY DEF IInv, TypeOK
  <2> QED BY <2>1 DEF Respond, Pushes
<1> QED BY <1>1, <1>2, LessToDo DEF Respond

-----------------------------------------------------------------------------
\* run_catch_up_sync, crashes and restarts.

\* A step of the catch-up changes nothing else.
LEMMA CatchUpKeeps ==
    ASSUME IInv, NEW n \in Nodes, NEW c \in CatchUps,
           c.stage = "fetched" => c.body \in Bodies,
           catchUp' = [catchUp EXCEPT ![n] = c], faults' \in 0 .. MaxFaults,
           UNCHANGED <<rows, log, queue, queued, tasks, writes, push, inbox, serving, crashes>>,
           up' \in [Nodes -> BOOLEAN]
    PROVE  IInv'
<1>1. TypeOK'
  BY DEF IInv, TypeOK
<1>2. FetchedOK'
  BY DEF IInv, TypeOK, FetchedOK
<1>3. BatchesOK'
  BY DEF IInv, BatchesOK
<1>4. TasksOK' /\ QueuesOK'
  BY DEF IInv, TasksOK, QueuesOK
<1> QED
  <2>1. OriginsOK'
    BY DEF IInv, OriginsOK, Foreign
  <2>2. ReplicaMatchesLog' /\ NeverAppliedTwice'
    BY DEF IInv, ReplicaMatchesLog, NeverAppliedTwice
  <2> QED BY <1>1, <1>2, <1>3, <1>4, <2>1, <2>2 DEF IInv

LEMMA FetchFullKeeps ==
    ASSUME IInv, NEW n \in Nodes, NEW p \in Nodes, FetchFull(n, p)
    PROVE  IInv'
<1> DEFINE c == [stage |-> "fetched", body |-> FullSyncBody(p)]
<1>1. c \in CatchUps /\ c.body \in Bodies
  BY DEF IInv, TypeOK, CatchUps, FullSyncBody, Bodies
<1>2. catchUp' = [catchUp EXCEPT ![n] = c]
  BY DEF FetchFull
<1> HIDE DEF c
<1>3. faults' \in 0 .. MaxFaults /\ up' \in [Nodes -> BOOLEAN]
  BY DEF FetchFull, IInv, TypeOK
<1> QED BY <1>1, <1>2, <1>3, CatchUpKeeps DEF FetchFull

LEMMA RestingCatchUp ==
    /\ CaughtUp \in CatchUps /\ CaughtUp.stage = "done"
    /\ Starting \in CatchUps /\ Starting.stage = "pending"
BY DEF CaughtUp, Starting, CatchUps

LEMMA SkipCatchUpKeeps ==
    ASSUME IInv, NEW n \in Nodes, SkipCatchUp(n)
    PROVE  IInv'
<1>1. faults' \in 0 .. MaxFaults /\ up' \in [Nodes -> BOOLEAN]
  BY LimitAssumption DEF SkipCatchUp, IInv, TypeOK
<1> QED BY <1>1, RestingCatchUp, CatchUpKeeps DEF SkipCatchUp

LEMMA RestartKeeps ==
    ASSUME IInv, NEW n \in Nodes, Restart(n)
    PROVE  IInv'
<1>1. faults' \in 0 .. MaxFaults /\ up' \in [Nodes -> BOOLEAN]
  BY DEF Restart, IInv, TypeOK
<1> QED BY <1>1, RestingCatchUp, CatchUpKeeps DEF Restart

\* The dump that was fetched has no tables at its top level.
LEMMA NothingMerged ==
    ASSUME IInv, NEW n \in Nodes, ApplyFullSync(n)
    PROVE  rows' = rows
<1>1. catchUp[n].body \in Bodies
  BY DEF ApplyFullSync, IInv, FetchedOK
<1>2. "records" \notin DOMAIN catchUp[n].body
  BY <1>1 DEF Bodies
<1>3. Merged(n, catchUp[n].body) = rows[n]
  BY <1>2 DEF Merged
<1> QED BY <1>3 DEF ApplyFullSync, IInv, TypeOK

LEMMA ApplyFullSyncKeeps ==
    ASSUME IInv, NEW n \in Nodes, ApplyFullSync(n)
    PROVE  IInv'
<1>1. faults' \in 0 .. MaxFaults /\ up' \in [Nodes -> BOOLEAN]
  BY DEF ApplyFullSync, IInv, TypeOK
<1> QED BY <1>1, NothingMerged, RestingCatchUp, CatchUpKeeps DEF ApplyFullSync

LEMMA CrashKeeps ==
    ASSUME IInv, NEW n \in Nodes, Crash(n)
    PROVE  IInv'
<1> USE DEF Crash
<1>1. /\ Sleeping \in Pushes /\ Sleeping.batch = {}
      /\ NotServing \in Services /\ NotServing.todo = {} /\ NotServing.cur = NoEvent
  BY DEF Sleeping, NotServing, Pushes, Services
<1>2. \A p \in Nodes : \A req \in inbox'[p] :
          p # n /\ \E old \in inbox[p] : req.events = old.events /\ req \in Requests
  <2> SUFFICES ASSUME NEW p \in Nodes, NEW req \in inbox'[p]
               PROVE  p # n /\ \E old \in inbox[p] : req.events = old.events /\ req \in Requests
    OBVIOUS
  <2>1. p # n /\ \E old \in inbox[p] : req = Stale(old, n)
    <3>1. inbox'[p] = IF p = n THEN {} ELSE {Stale(old, n) : old \in inbox[p]}
      OBVIOUS
    <3> QED BY <3>1
  <2>2. PICK old \in inbox[p] : req = Stale(old, n)
    BY <2>1
  <2>3. old \in Requests
    BY DEF IInv, TypeOK
  <2> QED BY <2>1, <2>2, <2>3, StaleRequest
<1>3. \A p \in Nodes : /\ serving'[p] \in Services
                       /\ serving'[p].todo \subseteq serving[p].todo
                       /\ serving'[p].cur \in {serving[p].cur, NoEvent}
  BY <1>1, StaleService DEF IInv, TypeOK
<1>4. TypeOK'
  <2>1. inbox' \in [Nodes -> SUBSET Requests]
    BY <1>2
  <2>2. serving' \in [Nodes -> Services]
    BY <1>3
  <2>3. push' \in [Nodes -> Pushes] /\ catchUp' \in [Nodes -> CatchUps]
    BY <1>1, RestingCatchUp DEF IInv, TypeOK
  <2>4. crashes' \in 0 .. MaxCrashes /\ tasks' \in [Nodes -> SUBSET Tasks]
    BY LimitAssumption DEF IInv, TypeOK
  <2> QED BY <2>1, <2>2, <2>3, <2>4 DEF IInv, TypeOK
<1>5. TasksOK' /\ QueuesOK'
  BY DEF IInv, TypeOK, TasksOK, QueuesOK
<1>6. BatchesOK' /\ FetchedOK'
  BY <1>1, RestingCatchUp DEF IInv, TypeOK, BatchesOK, FetchedOK
<1>7. OriginsOK'
  BY <1>2, <1>3 DEF IInv, OriginsOK, Foreign
<1>8. NeverAppliedTwice'
  <2>1. UNCHANGED log /\ \A p \in Nodes : NoEvent \notin log[p]
    BY NoEventAssumption DEF IInv, TypeOK
  <2> QED BY <1>3, <2>1 DEF IInv, NeverAppliedTwice
<1>9. ReplicaMatchesLog'
  BY DEF IInv, ReplicaMatchesLog
<1> QED BY <1>4, <1>5, <1>6, <1>7, <1>8, <1>9 DEF IInv

-----------------------------------------------------------------------------
LEMMA NextIInv == IInv /\ [Next]_vars => IInv'
<1> SUFFICES ASSUME IInv, [Next]_vars PROVE IInv'
  OBVIOUS
<1>1. ASSUME NEW n \in Nodes, NEW r \in Records, NEW v \in Values, Write(n, r, v)
      PROVE  IInv'
  BY <1>1, WriteKeeps
<1>2. ASSUME NEW n \in Nodes, Handler(n) PROVE IInv'
  BY <1>2, ReadPayloadKeeps, CreateEventKeeps, QueueForPeersKeeps DEF Handler
<1>3. ASSUME NEW n \in Nodes, PushLoop(n) PROVE IInv'
  BY <1>3, PollKeeps, SendKeeps, SendInVainKeeps, AcknowledgeKeeps, FailKeeps DEF PushLoop
<1>4. ASSUME NEW p \in Nodes, Server(p) PROVE IInv'
  BY <1>4, ReceiveKeeps, BeginApplyKeeps, CommitApplyKeeps, RejectApplyKeeps, RespondKeeps
     DEF Server
<1>5. ASSUME NEW n \in Nodes, CatchUp(n) PROVE IInv'
  BY <1>5, FetchFullKeeps, SkipCatchUpKeeps, ApplyFullSyncKeeps DEF CatchUp
<1>6. ASSUME NEW n \in Nodes, Crash(n) \/ Restart(n) PROVE IInv'
  BY <1>6, CrashKeeps, RestartKeeps
<1>7. CASE UNCHANGED vars
  <2>1. TypeOK' /\ TasksOK' /\ BatchesOK' /\ FetchedOK' /\ QueuesOK'
    BY <1>7 DEF vars, IInv, TypeOK, TasksOK, BatchesOK, FetchedOK, QueuesOK
  <2>2. OriginsOK' /\ ReplicaMatchesLog' /\ NeverAppliedTwice'
    BY <1>7 DEF vars, IInv, OriginsOK, Foreign, ReplicaMatchesLog, NeverAppliedTwice
  <2> QED BY <2>1, <2>2 DEF IInv
<1> QED BY <1>1, <1>2, <1>3, <1>4, <1>5, <1>6, <1>7 DEF Next

LEMMA AlwaysIInv == Spec => []IInv
BY InitIInv, NextIInv, PTL DEF Spec

\* Tables, queue, loops, requests and handlers keep their types, an item is
\* tried MaxRetries times at most, and only contents are replicated.
THEOREM SyncTypeOK == Spec => []TypeOK
<1>1. IInv => TypeOK
  BY DEF IInv
<1> QED BY <1>1, AlwaysIInv, PTL

\* A record that only peers write is there exactly if an event about it is
\* logged, with the value of one of them, whatever crashes or is repeated.
THEOREM RowsFollowLog == Spec => []ReplicaMatchesLog
<1>1. IInv => ReplicaMatchesLog
  BY DEF IInv
<1> QED BY <1>1, AlwaysIInv, PTL

\* No event is applied twice: neither a repeated push nor the node's own
\* handlers can log an event while it is being applied.
THEOREM AppliedOnce == Spec => []NeverAppliedTwice
<1>1. IInv => NeverAppliedTwice
  BY DEF IInv
<1> QED BY <1>1, AlwaysIInv, PTL

=============================================================================
