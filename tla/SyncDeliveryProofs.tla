------------------------- MODULE SyncDeliveryProofs -------------------------
(***************************************************************************)
(* SyncManager, with its history, implements SyncDelivery, for every       *)
(* number of servers, records, writes, faults and crashes, whoever writes  *)
(* what.                                                                   *)
(*                                                                         *)
(* The argument follows a request from the sender's queue to the answer:   *)
(* what a request asks for is in the queue, logged or refused              *)
(* (RequestsKept), an answer can only come from the request the sender     *)
(* waits for (LiveOK), and it comes only after everything was logged or    *)
(* refused (AnsweredOK).                                                   *)
(***************************************************************************)
EXTENDS SyncManagerProofs, SyncLosses

HistoryOK ==
    /\ refused \in [Nodes -> SUBSET Events]
    /\ cut \in [Nodes -> SUBSET Tasks]

\* The events p has dealt with.
Got(p) == log[p] \cup refused[p]

\* p has dealt with e, or e's source still has an item for it.
Kept(e, p) ==
    \/ e \in Got(p)
    \/ \E i \in queue[e.src] : i.event = e /\ i.to = p

RequestsKept ==
    /\ \A p \in Nodes : \A req \in inbox[p] : \A e \in req.events : Kept(e, p)
    /\ \A p \in Nodes : \A e \in serving[p].todo : Kept(e, p)
    /\ \A p \in Nodes : serving[p].cur # NoEvent => Kept(serving[p].cur, p)

\* A node waits for one answer at most.
PushesOK ==
    \A n \in Nodes :
        /\ push[n].to # Nobody => Group(n) # {}
        /\ push[n].ok => push[n].to # Nobody

\* n waits for the answer of p to a request that contains its group.
Waits(n, p, events) ==
    /\ push[n].to = p
    /\ ~push[n].ok
    /\ \A i \in Group(n) : i.event \in events

LiveOK ==
    /\ \A p \in Nodes : \A req \in inbox[p] :
          req.live => /\ Waits(req.from, p, req.events)
                      /\ ~(serving[p].live /\ serving[p].from = req.from)
    /\ \A p \in Nodes : \A q, r \in inbox[p] :
          q.live /\ r.live /\ q.from = r.from => q = r
    /\ \A p \in Nodes :
          serving[p].live =>
              /\ serving[p].from # Nobody
              /\ Waits(serving[p].from, p, serving[p].todo \cup {serving[p].cur} \cup Got(p))

\* Status 200: the peer has dealt with the whole group.
AnsweredOK ==
    \A n \in Nodes : push[n].ok => \A i \in Group(n) : i.event \in Got(push[n].to)

\* An event is queued only after it was logged.
EnqueuesOK ==
    \A n \in Nodes : \A t \in tasks[n] : t.step = "enqueue" => EventOf(n, t) \in log[n]

SInv ==
    /\ RequestsKept
    /\ PushesOK
    /\ LiveOK
    /\ AnsweredOK
    /\ EnqueuesOK

-----------------------------------------------------------------------------
\* No step takes an event out of a log, or one that its target has not dealt
\* with out of a queue.

LogGrows ==
    \A n \in Nodes : log[n] \subseteq log'[n] /\ refused[n] \subseteq refused'[n]

QueueStep ==
    \A n \in Nodes : \A i \in queue[n] :
        \/ \E j \in queue'[n] : j.event = i.event /\ j.to = i.to
        \/ i.event \in Got(i.to)'

LEMMA StaysKept ==
    ASSUME LogGrows, QueueStep, NEW e \in Events, NEW p \in Nodes, Kept(e, p)
    PROVE  Kept(e, p)'
<1>1. e.src \in Nodes
  BY DEF Events
<1>2. CASE e \in Got(p)
  BY <1>2 DEF Kept, Got, LogGrows
<1>3. ASSUME NEW i \in queue[e.src], i.event = e, i.to = p PROVE Kept(e, p)'
  BY <1>1, <1>3 DEF Kept, QueueStep
<1> QED BY <1>2, <1>3 DEF Kept

\* A step that gets requests no new events.
LEMMA RequestsStayKept ==
    ASSUME IInv, IInv', SInv, LogGrows, QueueStep,
           \A p \in Nodes : \A req \in inbox'[p] :
               \E old \in inbox[p] : req.events = old.events,
           \A p \in Nodes : \A e \in serving'[p].todo :
               e \in serving[p].todo \/ \E old \in inbox[p] : e \in old.events,
           \A p \in Nodes :
               serving'[p].cur \in {NoEvent, serving[p].cur} \cup serving[p].todo
    PROVE  RequestsKept'
<1>1. ASSUME NEW p \in Nodes, NEW req \in inbox'[p], NEW e \in req.events
      PROVE  Kept(e, p)'
  <2>1. PICK old \in inbox[p] : req.events = old.events
    OBVIOUS
  <2>2. old \in Requests
    BY DEF IInv, TypeOK
  <2>3. e \in Events /\ Kept(e, p)
    BY <2>1, <2>2 DEF SInv, RequestsKept, Requests
  <2> QED BY <2>3, StaysKept
<1>2. ASSUME NEW p \in Nodes, NEW e \in serving'[p].todo PROVE Kept(e, p)'
  <2>1. Kept(e, p)
    BY DEF SInv, RequestsKept
  <2>2. e \in Events
    BY DEF IInv, TypeOK, Services
  <2> QED BY <2>1, <2>2, StaysKept
<1>3. ASSUME NEW p \in Nodes, serving'[p].cur # NoEvent PROVE Kept(serving[p].cur, p)'
  <2>1. PICK e \in Events : e = serving'[p].cur
    BY <1>3 DEF IInv, TypeOK, Services
  <2>2. Kept(e, p)
    BY <1>3, <2>1 DEF SInv, RequestsKept
  <2>3. Kept(e, p)'
    BY <2>2, StaysKept
  <2> QED BY <2>1, <2>3 DEF Kept
<1> QED BY <1>1, <1>2, <1>3 DEF RequestsKept

-----------------------------------------------------------------------------
\* Steps that leave requests and push loops alone.

LEMMA AsideKeeps ==
    ASSUME IInv, IInv', SInv, LogGrows, QueueStep, UNCHANGED <<push, inbox, serving>>
    PROVE  RequestsKept' /\ PushesOK' /\ LiveOK' /\ AnsweredOK'
<1>1. RequestsKept'
  BY RequestsStayKept
<1>2. PushesOK'
  BY DEF SInv, PushesOK, Group
<1>3. \A p \in Nodes : /\ Got(p) \subseteq Got(p)'
                       /\ inbox'[p] = inbox[p] /\ serving'[p] = serving[p]
  BY DEF LogGrows, Got
<1>4. \A n, p \in Nodes, es \in SUBSET Events, fs \in SUBSET Events :
          Waits(n, p, es) /\ es \subseteq fs => Waits(n, p, fs)'
  BY DEF Waits, Group
<1>5. LiveOK'
  <2>1. \A p \in Nodes : \A req \in inbox'[p] :
          req.live => /\ Waits(req.from, p, req.events)'
                      /\ ~(serving'[p].live /\ serving'[p].from = req.from)
    BY DEF SInv, LiveOK, Waits, Group
  <2>2. \A p \in Nodes : \A q, r \in inbox'[p] :
          q.live /\ r.live /\ q.from = r.from => q = r
    BY DEF SInv, LiveOK
  <2>3. ASSUME NEW p \in Nodes, serving'[p].live
        PROVE  /\ serving'[p].from # Nobody
               /\ Waits(serving[p].from, p, serving[p].todo \cup {serving[p].cur} \cup Got(p))'
    <3>1. /\ serving[p].from # Nobody
          /\ Waits(serving[p].from, p, serving[p].todo \cup {serving[p].cur} \cup Got(p))
      BY <2>3 DEF SInv, LiveOK
    <3> QED BY <3>1, <1>3 DEF Waits, Group
  <2> QED BY <2>1, <2>2, <2>3 DEF LiveOK
<1>6. AnsweredOK'
  <2> SUFFICES ASSUME NEW n \in Nodes, push[n].ok, NEW i \in Group(n)
               PROVE  i.event \in Got(push[n].to)'
    BY DEF AnsweredOK, Group, Got
  <2>1. push[n].to \in Nodes
    BY DEF IInv, TypeOK, Pushes, SInv, PushesOK
  <2> QED BY <2>1 DEF SInv, AnsweredOK, LogGrows, Got
<1> QED BY <1>1, <1>2, <1>5, <1>6

LEMMA WriteSInv ==
    ASSUME IInv, IInv', SInv, UNCHANGED refused,
           NEW n \in Nodes, NEW r \in Records, NEW v \in Values, Write(n, r, v)
    PROVE  SInv' /\ LogGrows /\ QueueStep
<1> USE DEF Write
<1>1. LogGrows /\ QueueStep
  BY DEF LogGrows, QueueStep
<1>2. RequestsKept' /\ PushesOK' /\ LiveOK' /\ AnsweredOK'
  BY <1>1, AsideKeeps
<1>4. EnqueuesOK'
  BY DEF IInv, TypeOK, SInv, EnqueuesOK, EventOf
<1> QED BY <1>1, <1>2, <1>4 DEF SInv

LEMMA ReadPayloadSInv ==
    ASSUME IInv, IInv', SInv, UNCHANGED refused, NEW n \in Nodes, NEW t \in tasks[n], ReadPayload(n, t)
    PROVE  SInv' /\ LogGrows /\ QueueStep
<1> USE DEF ReadPayload
<1>1. LogGrows /\ QueueStep
  BY DEF LogGrows, QueueStep
<1>2. RequestsKept' /\ PushesOK' /\ LiveOK' /\ AnsweredOK'
  BY <1>1, AsideKeeps
<1>4. EnqueuesOK'
  <2>1. t \in Tasks
    BY DEF IInv, TypeOK
  <2>2. [t EXCEPT !.val = rows[n][t.row], !.step = "record"].step = "record"
    BY <2>1 DEF Tasks
  <2> QED BY <2>2 DEF IInv, TypeOK, SInv, EnqueuesOK, EventOf
<1> QED BY <1>1, <1>2, <1>4 DEF SInv

LEMMA CreateEventSInv ==
    ASSUME IInv, IInv', SInv, UNCHANGED refused, NEW n \in Nodes, NEW t \in tasks[n], CreateEvent(n, t)
    PROVE  SInv' /\ LogGrows /\ QueueStep
<1> USE DEF CreateEvent
<1>1. LogGrows /\ QueueStep
  BY DEF LogGrows, QueueStep, IInv, TypeOK
<1>2. RequestsKept' /\ PushesOK' /\ LiveOK' /\ AnsweredOK'
  BY <1>1, AsideKeeps
<1>4. EnqueuesOK'
  <2> DEFINE u == [t EXCEPT !.step = "enqueue"]
  <2>1. EventOf(n, u) = EventOf(n, t)
    <3>1. t \in Tasks
      BY DEF IInv, TypeOK
    <3> QED BY <3>1 DEF EventOf, Tasks
  <2>2. tasks' = [tasks EXCEPT ![n] = (@ \ {t}) \cup {u}]
    OBVIOUS
  <2> HIDE DEF u
  <2>3. SUFFICES ASSUME NEW m \in Nodes, NEW w \in tasks'[m], w.step = "enqueue"
                 PROVE  EventOf(m, w) \in log'[m]
    BY DEF EnqueuesOK, EventOf
  <2>4. CASE m = n /\ w = u
    BY <2>1, <2>4 DEF IInv, TypeOK
  <2>5. CASE w \in tasks[m]
    BY <2>3, <2>5, <1>1 DEF SInv, EnqueuesOK, LogGrows
  <2> QED BY <2>2, <2>4, <2>5 DEF IInv, TypeOK
<1> QED BY <1>1, <1>2, <1>4 DEF SInv

LEMMA QueueForPeersSInv ==
    ASSUME IInv, IInv', SInv, UNCHANGED refused, NEW n \in Nodes, NEW t \in tasks[n], QueueForPeers(n, t)
    PROVE  SInv' /\ LogGrows /\ QueueStep
<1> USE DEF QueueForPeers
<1>1. LogGrows /\ QueueStep
  BY DEF LogGrows, QueueStep, IInv, TypeOK
<1>2. RequestsKept' /\ PushesOK' /\ LiveOK' /\ AnsweredOK'
  BY <1>1, AsideKeeps
<1>4. EnqueuesOK'
  BY DEF IInv, TypeOK, SInv, EnqueuesOK, EventOf
<1> QED BY <1>1, <1>2, <1>4 DEF SInv

\* Catch-up and restart: no table, request, loop or handler changes.
LEMMA NothingSInv ==
    ASSUME IInv, IInv', SInv,
           UNCHANGED <<rows, log, refused, queue, tasks, push, inbox, serving>>
    PROVE  SInv' /\ LogGrows /\ QueueStep
<1>1. LogGrows /\ QueueStep
  BY DEF LogGrows, QueueStep
<1>2. RequestsKept' /\ PushesOK' /\ LiveOK' /\ AnsweredOK'
  BY <1>1, AsideKeeps
<1>3. EnqueuesOK'
  BY DEF SInv, EnqueuesOK, EventOf
<1> QED BY <1>1, <1>2, <1>3 DEF SInv

-----------------------------------------------------------------------------
\* The push loop.

\* Before it sends and after it was answered, a node waits for nothing.
LEMMA NobodyAnswers ==
    ASSUME IInv, SInv, NEW n \in Nodes, push[n].to = Nobody \/ push[n].ok
    PROVE  \A p \in Nodes : /\ \A req \in inbox[p] : req.live => req.from # n
                            /\ serving[p].live => serving[p].from # n
BY NobodyAssumption DEF SInv, LiveOK, Waits

\* After a step of n's push loop that ends with n waiting for no answer, the
\* others wait as before.
LEMMA OthersWait ==
    ASSUME IInv, SInv, NEW n \in Nodes, UNCHANGED <<log, refused>>,
           \A m \in Nodes \ {n} : push'[m] = push[m],
           \A p \in Nodes : \A req \in inbox'[p] :
               req.live => req.from # n /\ req \in inbox[p],
           \A p \in Nodes :
               serving'[p].live => serving'[p].from # n /\ serving'[p] = serving[p]
    PROVE  LiveOK'
<1>1. \A p \in Nodes : \A req \in inbox[p] : req.from \in Nodes
  BY DEF IInv, TypeOK, Requests
<1>2. ASSUME NEW p \in Nodes, NEW req \in inbox'[p], req.live
      PROVE  /\ Waits(req.from, p, req.events)'
             /\ ~(serving'[p].live /\ serving'[p].from = req.from)
  <2>1. req \in inbox[p] /\ req.from # n /\ req.from \in Nodes
    BY <1>1, <1>2
  <2>2. Waits(req.from, p, req.events)
    BY <2>1, <1>2 DEF SInv, LiveOK
  <2>3. ~(serving[p].live /\ serving[p].from = req.from)
    BY <2>1, <1>2 DEF SInv, LiveOK
  <2> QED BY <2>1, <2>2, <2>3 DEF Waits, Group
<1>3. ASSUME NEW p \in Nodes, NEW q \in inbox'[p], NEW r \in inbox'[p],
             q.live, r.live, q.from = r.from
      PROVE  q = r
  BY <1>3 DEF SInv, LiveOK
<1>4. ASSUME NEW p \in Nodes, serving'[p].live
      PROVE  /\ serving'[p].from # Nobody
             /\ Waits(serving[p].from, p, serving[p].todo \cup {serving[p].cur} \cup Got(p))'
  <2>1. serving'[p] = serving[p] /\ serving[p].from # n /\ serving[p].live
    BY <1>4
  <2>2. /\ serving[p].from # Nobody
        /\ Waits(serving[p].from, p, serving[p].todo \cup {serving[p].cur} \cup Got(p))
    BY <2>1 DEF SInv, LiveOK
  <2>3. push'[serving[p].from] = push[serving[p].from]
    BY <2>1, <2>2 DEF IInv, TypeOK, Services
  <2> QED BY <2>1, <2>2, <2>3 DEF Waits, Group, Got
<1> QED BY <1>2, <1>3, <1>4 DEF LiveOK

LEMMA PollSInv ==
    ASSUME IInv, IInv', SInv, UNCHANGED refused, NEW n \in Nodes, Poll(n)
    PROVE  SInv' /\ LogGrows /\ QueueStep
<1>1. /\ UNCHANGED <<rows, log, queue, tasks, inbox, serving>>
      /\ push[n].batch = {}
  BY DEF Poll
<1>2. /\ \A m \in Nodes \ {n} : push'[m] = push[m]
      /\ push'[n].to = push[n].to /\ push'[n].ok = push[n].ok
  BY DEF Poll, IInv, TypeOK, Pushes
<1>3. push[n].to = Nobody /\ ~push[n].ok
  BY <1>1 DEF SInv, PushesOK, Group
<1>4. LogGrows /\ QueueStep
  BY <1>1 DEF LogGrows, QueueStep
<1>5. RequestsKept'
  BY <1>1, <1>4, RequestsStayKept
<1>6. LiveOK'
  BY <1>1, <1>2, <1>3, NobodyAnswers, OthersWait
<1>7. PushesOK' /\ AnsweredOK'
  BY <1>1, <1>2, <1>3 DEF SInv, PushesOK, AnsweredOK, Group, Got
<1>8. EnqueuesOK'
  BY <1>1 DEF SInv, EnqueuesOK, EventOf
<1> QED BY <1>4, <1>5, <1>6, <1>7, <1>8 DEF SInv

LEMMA SendInVainSInv ==
    ASSUME IInv, IInv', SInv, UNCHANGED refused, NEW n \in Nodes, NEW p \in Nodes, SendInVain(n, p)
    PROVE  SInv' /\ LogGrows /\ QueueStep
<1>1. /\ UNCHANGED <<rows, log, queue, tasks, inbox, serving>>
      /\ push[n].to = Nobody
      /\ EventsFor(n, p) # {}
  BY DEF SendInVain
<1>2. /\ \A m \in Nodes \ {n} : push'[m] = push[m]
      /\ push'[n].to = p /\ push'[n].ok = push[n].ok /\ push'[n].batch = push[n].batch
  BY DEF SendInVain, IInv, TypeOK, Pushes
<1>3. ~push[n].ok
  BY <1>1 DEF SInv, PushesOK
<1>4. LogGrows /\ QueueStep
  BY <1>1 DEF LogGrows, QueueStep
<1>5. RequestsKept'
  BY <1>1, <1>4, RequestsStayKept
<1>6. LiveOK'
  BY <1>1, <1>2, <1>3, NobodyAnswers, OthersWait
<1>7. PushesOK' /\ AnsweredOK'
  BY <1>1, <1>2, <1>3 DEF SInv, PushesOK, AnsweredOK, Group, Got, EventsFor
<1>8. EnqueuesOK'
  BY <1>1 DEF SInv, EnqueuesOK, EventOf
<1> QED BY <1>4, <1>5, <1>6, <1>7, <1>8 DEF SInv

\* The events of a new request are in the queue.
LEMMA SentKept ==
    ASSUME IInv, NEW n \in Nodes, NEW p \in Nodes, NEW e \in EventsFor(n, p)
    PROVE  Kept(e, p)
<1>1. PICK j \in push[n].batch : j.to = p /\ j.event = e
  BY DEF EventsFor
<1>2. j \in queue[n] /\ e.src = n
  BY <1>1 DEF IInv, BatchesOK, QueuesOK
<1> QED BY <1>1, <1>2 DEF Kept

LEMMA SendSInv ==
    ASSUME IInv, IInv', SInv, UNCHANGED refused, NEW n \in Nodes, NEW p \in Nodes, Send(n, p)
    PROVE  SInv' /\ LogGrows /\ QueueStep
<1> DEFINE new == [from |-> n, events |-> EventsFor(n, p), live |-> TRUE]
<1>0. new.from = n /\ new.events = EventsFor(n, p) /\ new.live
  OBVIOUS
<1>1. /\ UNCHANGED <<rows, log, queue, tasks, serving>>
      /\ inbox' = [inbox EXCEPT ![p] = @ \cup {new}]
      /\ push[n].to = Nobody
      /\ EventsFor(n, p) # {}
  BY DEF Send
<1> HIDE DEF new
<1>2. /\ \A m \in Nodes \ {n} : push'[m] = push[m]
      /\ push'[n].to = p /\ push'[n].ok = push[n].ok /\ push'[n].batch = push[n].batch
  BY DEF Send, IInv, TypeOK, Pushes
<1>3. ~push[n].ok
  BY <1>1 DEF SInv, PushesOK
<1>4. LogGrows /\ QueueStep
  BY <1>1 DEF LogGrows, QueueStep
<1>5. RequestsKept'
  <2>1. \A q \in Nodes : \A req \in inbox'[q] : req \in inbox[q] \/ (q = p /\ req = new)
    BY <1>1 DEF IInv, TypeOK
  <2>2. \A e : \A q \in Nodes : Kept(e, q)' <=> Kept(e, q)
    BY <1>1 DEF Kept, Got
  <2>3. \A e \in new.events : Kept(e, p)
    BY <1>0, SentKept
  <2> QED BY <1>1, <2>1, <2>2, <2>3 DEF SInv, RequestsKept
<1>6. \A q \in Nodes : /\ \A req \in inbox[q] : req.live => req.from # n
                       /\ serving[q].live => serving[q].from # n
  BY <1>1, NobodyAnswers
<1>7. \A req : req = new => Waits(req.from, p, req.events)'
  BY <1>0, <1>2, <1>3 DEF Waits, Group, EventsFor
<1>8. LiveOK'
  <2>1. ASSUME NEW q \in Nodes, NEW req \in inbox[q], req.live
        PROVE  /\ Waits(req.from, q, req.events)'
               /\ ~(serving[q].live /\ serving[q].from = req.from)
    <3>1. req.from # n /\ req.from \in Nodes
      BY <2>1, <1>6 DEF IInv, TypeOK, Requests
    <3>2. /\ Waits(req.from, q, req.events)
          /\ ~(serving[q].live /\ serving[q].from = req.from)
      BY <2>1 DEF SInv, LiveOK
    <3> QED BY <3>1, <3>2, <1>2 DEF Waits, Group
  <2>2. ASSUME NEW q \in Nodes, serving[q].live
        PROVE  /\ serving[q].from # Nobody
               /\ Waits(serving[q].from, q, serving[q].todo \cup {serving[q].cur} \cup Got(q))'
    <3>1. /\ serving[q].from # Nobody
          /\ Waits(serving[q].from, q, serving[q].todo \cup {serving[q].cur} \cup Got(q))
      BY <2>2 DEF SInv, LiveOK
    <3>2. push'[serving[q].from] = push[serving[q].from]
      BY <2>2, <3>1, <1>2, <1>6 DEF IInv, TypeOK, Services
    <3> QED BY <3>1, <3>2, <1>1 DEF Waits, Group, Got
  <2>3. \A q \in Nodes : \A req \in inbox'[q] : req \in inbox[q] \/ (q = p /\ req = new)
    BY <1>1 DEF IInv, TypeOK
  <2>4. \A q \in Nodes : \A r, s \in inbox[q] :
          r.live /\ s.live /\ r.from = s.from => r = s
    BY DEF SInv, LiveOK
  <2>5. \A q \in Nodes : \A req \in inbox'[q] :
          req.live => /\ Waits(req.from, q, req.events)'
                      /\ ~(serving[q].live /\ serving[q].from = req.from)
    <3> SUFFICES ASSUME NEW q \in Nodes, NEW req \in inbox'[q], req.live
                 PROVE  /\ Waits(req.from, q, req.events)'
                        /\ ~(serving[q].live /\ serving[q].from = req.from)
      OBVIOUS
    <3>1. CASE req \in inbox[q]
      BY <2>1, <3>1
    <3>2. CASE q = p /\ req = new
      <4>1. ~(serving[q].live /\ serving[q].from = req.from)
        BY <3>2, <1>0, <1>6
      <4>2. Waits(req.from, q, req.events)'
        BY <3>2, <1>7
      <4> QED BY <4>1, <4>2
    <3> QED BY <2>3, <3>1, <3>2
  <2>6. \A q \in Nodes : \A r, s \in inbox'[q] :
          r.live /\ s.live /\ r.from = s.from => r = s
    BY <2>3, <2>4, <1>0, <1>6
  <2> QED BY <2>2, <2>5, <2>6, <1>1 DEF LiveOK
<1>9. PushesOK' /\ AnsweredOK'
  BY <1>1, <1>2, <1>3 DEF SInv, PushesOK, AnsweredOK, Group, Got, EventsFor
<1>10. EnqueuesOK'
  BY <1>1 DEF SInv, EnqueuesOK, EventOf
<1> QED BY <1>4, <1>5, <1>8, <1>9, <1>10 DEF SInv

LEMMA AcknowledgeSInv ==
    ASSUME IInv, IInv', SInv, UNCHANGED refused, NEW n \in Nodes, Acknowledge(n)
    PROVE  SInv' /\ LogGrows /\ QueueStep
<1>1. /\ UNCHANGED <<rows, log, tasks, inbox, serving>>
      /\ queue' = [queue EXCEPT ![n] = @ \ Group(n)]
      /\ push[n].ok
  BY DEF Acknowledge
<1>2. /\ \A m \in Nodes \ {n} : push'[m] = push[m]
      /\ push'[n].to = Nobody /\ ~push'[n].ok
  BY DEF Acknowledge, IInv, TypeOK
<1>3. LogGrows
  BY <1>1 DEF LogGrows
<1>4. QueueStep
  <2> SUFFICES ASSUME NEW m \in Nodes, NEW i \in queue[m]
               PROVE  \/ \E j \in queue'[m] : j.event = i.event /\ j.to = i.to
                      \/ i.event \in Got(i.to)'
    BY DEF QueueStep, Got
  <2>1. CASE m = n /\ i \in Group(n)
    BY <2>1, <1>1 DEF SInv, AnsweredOK, Group, Got
  <2>2. CASE ~(m = n /\ i \in Group(n))
    BY <2>2, <1>1 DEF IInv, TypeOK
  <2> QED BY <2>1, <2>2
<1>5. RequestsKept'
  BY <1>1, <1>3, <1>4, RequestsStayKept
<1>6. LiveOK'
  BY <1>1, <1>2, NobodyAnswers, OthersWait
<1>7. PushesOK' /\ AnsweredOK'
  BY <1>1, <1>2 DEF SInv, PushesOK, AnsweredOK, Group, Got
<1>8. EnqueuesOK'
  BY <1>1 DEF SInv, EnqueuesOK, EventOf
<1> QED BY <1>3, <1>4, <1>5, <1>6, <1>7, <1>8 DEF SInv

LEMMA StillLive ==
    ASSUME NEW n \in Nodes
    PROVE  /\ \A req \in Requests : Stale(req, n).live => Stale(req, n) = req /\ req.from # n
           /\ \A s \in Services : Stale(s, n).live => Stale(s, n) = s /\ s.from # n
BY DEF Stale, Requests, Services

LEMMA FailSInv ==
    ASSUME IInv, IInv', SInv, UNCHANGED refused, NEW n \in Nodes, Fail(n)
    PROVE  SInv' /\ LogGrows /\ QueueStep
<1>1. /\ UNCHANGED <<rows, log, tasks>>
      /\ queue' = [queue EXCEPT ![n] = (@ \ Group(n)) \cup Retried(n)]
      /\ inbox' = [p \in Nodes |-> {Stale(req, n) : req \in inbox[p]}]
      /\ serving' = [p \in Nodes |-> Stale(serving[p], n)]
  BY DEF Fail, GiveUpWaiting, Retried
<1>2. /\ \A m \in Nodes \ {n} : push'[m] = push[m]
      /\ push'[n].to = Nobody /\ ~push'[n].ok
  BY DEF Fail, IInv, TypeOK
<1>3. LogGrows
  BY <1>1 DEF LogGrows
<1>4. QueueStep
  <2> SUFFICES ASSUME NEW m \in Nodes, NEW i \in queue[m]
               PROVE  \E j \in queue'[m] : j.event = i.event /\ j.to = i.to
    BY DEF QueueStep
  <2>1. CASE m = n /\ i \in Group(n)
    BY <2>1, <1>1, RetriedItems DEF IInv, TypeOK
  <2>2. CASE ~(m = n /\ i \in Group(n))
    BY <2>2, <1>1 DEF IInv, TypeOK
  <2> QED BY <2>1, <2>2
<1>5. ASSUME NEW p \in Nodes, NEW req \in inbox'[p]
      PROVE  \E old \in inbox[p] : /\ req.events = old.events
                                   /\ req.live => req = old /\ old.from # n
  <2>1. PICK old \in inbox[p] : req = Stale(old, n)
    BY <1>1
  <2>2. old \in Requests
    BY DEF IInv, TypeOK
  <2> QED BY <2>1, <2>2, StaleRequest, StillLive
<1>6. \A p \in Nodes : /\ serving'[p].todo = serving[p].todo
                       /\ serving'[p].cur = serving[p].cur
                       /\ serving'[p].found = serving[p].found
                       /\ serving'[p].live => serving'[p] = serving[p] /\ serving[p].from # n
  BY <1>1, StaleService, StillLive DEF IInv, TypeOK
<1>7. RequestsKept'
  BY <1>3, <1>4, <1>5, <1>6, RequestsStayKept
<1>8. LiveOK'
  BY <1>1, <1>2, <1>5, <1>6, OthersWait
<1>9. PushesOK' /\ AnsweredOK'
  BY <1>1, <1>2 DEF SInv, PushesOK, AnsweredOK, Group, Got
<1>10. EnqueuesOK'
  BY <1>1, <1>6 DEF SInv, EnqueuesOK, EventOf
<1> QED BY <1>3, <1>4, <1>7, <1>8, <1>9, <1>10 DEF SInv

LEMMA CrashSInv ==
    ASSUME IInv, IInv', SInv, UNCHANGED refused, NEW n \in Nodes, Crash(n)
    PROVE  SInv' /\ LogGrows /\ QueueStep
<1>1. /\ UNCHANGED <<rows, log, queue>>
      /\ tasks' = [tasks EXCEPT ![n] = {}]
      /\ inbox' = [p \in Nodes |-> IF p = n THEN {} ELSE {Stale(req, n) : req \in inbox[p]}]
      /\ serving' = [p \in Nodes |-> IF p = n THEN NotServing ELSE Stale(serving[p], n)]
  BY DEF Crash
<1>2. /\ \A m \in Nodes \ {n} : push'[m] = push[m]
      /\ push'[n].to = Nobody /\ ~push'[n].ok
  BY DEF Crash, Sleeping, IInv, TypeOK
<1>3. LogGrows /\ QueueStep
  BY <1>1 DEF LogGrows, QueueStep
<1>4. ASSUME NEW p \in Nodes, NEW req \in inbox'[p]
      PROVE  \E old \in inbox[p] : /\ req.events = old.events
                                   /\ req.live => req = old /\ old.from # n
  <2>1. inbox'[p] = IF p = n THEN {} ELSE {Stale(old, n) : old \in inbox[p]}
    BY <1>1
  <2>2. PICK old \in inbox[p] : req = Stale(old, n)
    BY <2>1
  <2>3. old \in Requests
    BY DEF IInv, TypeOK
  <2> QED BY <2>2, <2>3, StaleRequest, StillLive
<1>5. ASSUME NEW p \in Nodes
      PROVE  /\ serving'[p].todo \subseteq serving[p].todo
             /\ \/ serving'[p].cur = NoEvent
                \/ serving'[p].cur = serving[p].cur /\ serving'[p].found = serving[p].found
             /\ serving'[p].live => serving'[p] = serving[p] /\ serving[p].from # n
  <2>1. CASE p = n
    BY <2>1, <1>1 DEF NotServing
  <2>2. CASE p # n
    BY <2>2, <1>1, StaleService, StillLive DEF IInv, TypeOK
  <2> QED BY <2>1, <2>2
<1>6. RequestsKept'
  BY <1>3, <1>4, <1>5, RequestsStayKept
<1>7. LiveOK'
  BY <1>1, <1>2, <1>4, <1>5, OthersWait
<1>8. PushesOK' /\ AnsweredOK'
  BY <1>1, <1>2 DEF SInv, PushesOK, AnsweredOK, Group, Got
<1>9. EnqueuesOK'
  <2>1. \A m \in Nodes : tasks'[m] \subseteq tasks[m]
    BY <1>1 DEF IInv, TypeOK
  <2> QED BY <2>1, <1>1 DEF SInv, EnqueuesOK, EventOf
<1> QED BY <1>3, <1>6, <1>7, <1>8, <1>9 DEF SInv

-----------------------------------------------------------------------------
\* receive_sync_push and apply_remote_event.

\* An answered push stays answered as logs grow.
LEMMA AnswersStay ==
    ASSUME IInv, SInv, LogGrows, UNCHANGED push
    PROVE  PushesOK' /\ AnsweredOK'
<1>1. PushesOK'
  BY DEF SInv, PushesOK, Group
<1>2. AnsweredOK'
  <2> SUFFICES ASSUME NEW n \in Nodes, push[n].ok, NEW i \in Group(n)
               PROVE  i.event \in Got(push[n].to)'
    BY DEF AnsweredOK, Group, Got
  <2>1. push[n].to \in Nodes
    BY DEF IInv, TypeOK, Pushes, SInv, PushesOK
  <2> QED BY <2>1 DEF SInv, AnsweredOK, LogGrows, Got
<1> QED BY <1>1, <1>2

LEMMA ReceiveSInv ==
    ASSUME IInv, IInv', SInv, UNCHANGED refused, NEW p \in Nodes, NEW req \in inbox[p], Receive(p, req)
    PROVE  SInv' /\ LogGrows /\ QueueStep
<1>1. /\ UNCHANGED <<rows, log, queue, tasks, push>>
      /\ inbox' = [inbox EXCEPT ![p] = @ \ {req}]
  BY DEF Receive
<1>2. /\ \A q \in Nodes \ {p} : serving'[q] = serving[q]
      /\ serving'[p].from = req.from /\ serving'[p].todo = req.events
      /\ serving'[p].live = req.live /\ serving'[p].cur = NoEvent
  BY DEF Receive, NotServing, IInv, TypeOK
<1>3. LogGrows /\ QueueStep
  BY <1>1 DEF LogGrows, QueueStep
<1>4. \A q \in Nodes : inbox'[q] \subseteq inbox[q]
  BY <1>1 DEF IInv, TypeOK
<1>5. RequestsKept'
  <2>1. \A q \in Nodes : \A e \in serving'[q].todo :
            e \in serving[q].todo \/ \E old \in inbox[q] : e \in old.events
    BY <1>2
  <2>2. \A q \in Nodes : serving'[q].cur \in {NoEvent, serving[q].cur} \cup serving[q].todo
    BY <1>2
  <2> QED BY <1>3, <1>4, <2>1, <2>2, RequestsStayKept
<1>6. LiveOK'
  <2>1. ASSUME NEW q \in Nodes, NEW r \in inbox'[q], r.live
        PROVE  /\ Waits(r.from, q, r.events)'
               /\ ~(serving'[q].live /\ serving'[q].from = r.from)
    <3>1. Waits(r.from, q, r.events)'
      BY <2>1, <1>1, <1>4 DEF SInv, LiveOK, Waits, Group
    <3>2. CASE q = p
      BY <3>1, <3>2, <2>1, <1>1, <1>2, <1>4 DEF IInv, TypeOK, SInv, LiveOK
    <3>3. CASE q # p
      BY <3>1, <3>3, <2>1, <1>2, <1>4 DEF SInv, LiveOK
    <3> QED BY <3>1, <3>2, <3>3
  <2>2. \A q \in Nodes : \A r, s \in inbox'[q] :
          r.live /\ s.live /\ r.from = s.from => r = s
    BY <1>4 DEF SInv, LiveOK
  <2>3. ASSUME NEW q \in Nodes, serving'[q].live
        PROVE  /\ serving'[q].from # Nobody
               /\ Waits(serving[q].from, q, serving[q].todo \cup {serving[q].cur} \cup Got(q))'
    <3>1. CASE q = p
      <4>1. Waits(req.from, p, req.events) /\ req.from \in Nodes
        BY <3>1, <2>3, <1>2 DEF IInv, TypeOK, Requests, SInv, LiveOK
      <4> QED BY <3>1, <4>1, <1>1, <1>2, NobodyAssumption DEF Waits, Group
    <3>2. CASE q # p
      BY <3>2, <2>3, <1>1, <1>2 DEF SInv, LiveOK, Waits, Group, Got
    <3> QED BY <3>1, <3>2
  <2> QED BY <2>1, <2>2, <2>3 DEF LiveOK
<1>7. PushesOK' /\ AnsweredOK'
  BY <1>1, <1>3, AnswersStay
<1>8. EnqueuesOK'
  BY <1>1, <1>2 DEF SInv, EnqueuesOK, EventOf
<1> QED BY <1>3, <1>5, <1>6, <1>7, <1>8 DEF SInv

\* The server of p goes on with a request: what it has dealt with is logged.
LEMMA ApplyingKeepsLive ==
    ASSUME IInv, SInv, LogGrows, UNCHANGED <<push, inbox>>, NEW p \in Nodes,
           \A q \in Nodes \ {p} : serving'[q] = serving[q],
           serving'[p].from = serving[p].from, serving'[p].live = serving[p].live,
           \A e \in Events : e \in serving[p].todo \cup {serving[p].cur} \cup Got(p)
               => e \in serving'[p].todo \cup {serving'[p].cur} \cup Got(p)'
    PROVE  LiveOK'
<1>1. \A q \in Nodes : /\ serving'[q].from = serving[q].from
                       /\ serving'[q].live = serving[q].live
  OBVIOUS
<1>2. \A q \in Nodes : \A req \in inbox'[q] :
          req.live => /\ Waits(req.from, q, req.events)'
                      /\ ~(serving'[q].live /\ serving'[q].from = req.from)
  BY <1>1 DEF SInv, LiveOK, Waits, Group
<1>3. \A q \in Nodes : \A r, s \in inbox'[q] :
          r.live /\ s.live /\ r.from = s.from => r = s
  BY DEF SInv, LiveOK
<1>4. ASSUME NEW q \in Nodes, serving'[q].live
      PROVE  /\ serving'[q].from # Nobody
             /\ Waits(serving[q].from, q, serving[q].todo \cup {serving[q].cur} \cup Got(q))'
  <2>1. /\ serving[q].from # Nobody /\ serving[q].from \in Nodes
        /\ Waits(serving[q].from, q, serving[q].todo \cup {serving[q].cur} \cup Got(q))
    BY <1>1, <1>4 DEF IInv, TypeOK, Services, SInv, LiveOK
  <2>2. \A i \in Group(serving[q].from) : i.event \in Events
    BY <2>1 DEF IInv, TypeOK, Pushes, Items, Group
  <2>3. \A e \in Events : e \in serving[q].todo \cup {serving[q].cur} \cup Got(q)
               => e \in serving'[q].todo \cup {serving'[q].cur} \cup Got(q)'
    BY DEF LogGrows, Got
  <2> QED BY <2>1, <2>2, <2>3, <1>1 DEF Waits, Group
<1> QED BY <1>2, <1>3, <1>4 DEF LiveOK

LEMMA BeginApplySInv ==
    ASSUME IInv, IInv', SInv, UNCHANGED refused, NEW p \in Nodes, NEW e \in serving[p].todo, BeginApply(p, e)
    PROVE  SInv' /\ LogGrows /\ QueueStep
<1>1. /\ UNCHANGED <<rows, log, queue, tasks, push, inbox>>
      /\ serving[p].cur = NoEvent
  BY DEF BeginApply
<1>2. serving[p] \in Services
  BY DEF IInv, TypeOK
<1>3. /\ \A q \in Nodes \ {p} : serving'[q] = serving[q]
      /\ serving'[p].from = serving[p].from /\ serving'[p].live = serving[p].live
      /\ serving'[p].todo = serving[p].todo \ {e}
      /\ \/ e \in log[p] /\ serving'[p].cur = NoEvent
         \/ serving'[p].cur = e /\ (serving'[p].found <=> rows[p][e.row] # Absent)
  <2> DEFINE rest == serving[p].todo \ {e}
             skip == [serving[p] EXCEPT !.todo = rest]
             take == [serving[p] EXCEPT !.todo = rest, !.cur = e,
                                        !.found = rows[p][e.row] # Absent]
  <2>1. /\ \A s \in {skip, take} : s.from = serving[p].from /\ s.live = serving[p].live
                                  /\ s.todo = rest
        /\ skip.cur = serving[p].cur
        /\ take.cur = e /\ (take.found <=> rows[p][e.row] # Absent)
    BY <1>2 DEF Services
  <2>2. serving' = [serving EXCEPT ![p] = IF e \in log[p] THEN skip ELSE take]
    BY DEF BeginApply
  <2>3. serving \in [Nodes -> Services]
    BY DEF IInv, TypeOK
  <2> HIDE DEF rest, skip, take
  <2>4. /\ \A q \in Nodes \ {p} : serving'[q] = serving[q]
        /\ serving'[p] = IF e \in log[p] THEN skip ELSE take
    BY <2>2, <2>3
  <2> QED BY <1>1, <2>1, <2>4 DEF rest
<1>4. LogGrows /\ QueueStep
  BY <1>1 DEF LogGrows, QueueStep
<1>5. RequestsKept'
  BY <1>1, <1>3, <1>4, RequestsStayKept
<1>6. LiveOK'
  <2>1. \A f \in Events : f \in serving[p].todo \cup {serving[p].cur} \cup Got(p)
               => f \in serving'[p].todo \cup {serving'[p].cur} \cup Got(p)'
    BY <1>1, <1>3, NoEventAssumption DEF Got
  <2> QED BY <2>1, <1>1, <1>3, <1>4, ApplyingKeepsLive
<1>7. PushesOK' /\ AnsweredOK'
  BY <1>1, <1>4, AnswersStay
<1>8. EnqueuesOK'
  BY <1>1, <1>3 DEF SInv, EnqueuesOK, EventOf
<1> QED BY <1>4, <1>5, <1>6, <1>7, <1>8 DEF SInv

LEMMA CommitApplySInv ==
    ASSUME IInv, IInv', SInv, UNCHANGED refused, NEW p \in Nodes, CommitApply(p)
    PROVE  SInv' /\ LogGrows /\ QueueStep
<1> DEFINE e == serving[p].cur
<1>1. /\ UNCHANGED <<queue, tasks, push, inbox>>
      /\ rows' = [rows EXCEPT ![p][e.row] = e.val]
      /\ log' = [log EXCEPT ![p] = @ \cup {e}]
  BY DEF CommitApply
<1>2. /\ \A q \in Nodes \ {p} : serving'[q] = serving[q]
      /\ serving'[p].from = serving[p].from /\ serving'[p].live = serving[p].live
      /\ serving'[p].todo = serving[p].todo /\ serving'[p].cur = NoEvent
  BY NextEvent DEF CommitApply, IInv, TypeOK
<1>3. LogGrows /\ QueueStep
  BY <1>1 DEF LogGrows, QueueStep, IInv, TypeOK
<1>4. RequestsKept'
  BY <1>1, <1>2, <1>3, RequestsStayKept
<1>5. LiveOK'
  <2>1. \A f \in Events : f \in serving[p].todo \cup {serving[p].cur} \cup Got(p)
               => f \in serving'[p].todo \cup {serving'[p].cur} \cup Got(p)'
    BY <1>1, <1>2 DEF IInv, TypeOK, Got
  <2> QED BY <2>1, <1>1, <1>2, <1>3, ApplyingKeepsLive
<1>6. PushesOK' /\ AnsweredOK'
  BY <1>1, <1>3, AnswersStay
<1>7. EnqueuesOK'
  BY <1>1, <1>3 DEF SInv, EnqueuesOK, EventOf, LogGrows
<1> QED BY <1>3, <1>4, <1>5, <1>6, <1>7 DEF SInv

LEMMA RejectApplySInv ==
    ASSUME IInv, IInv', HistoryOK, SInv, NEW p \in Nodes, RejectApply(p),
           refused' = [refused EXCEPT ![p] = @ \cup {serving[p].cur}]
    PROVE  SInv' /\ LogGrows /\ QueueStep
<1>1. UNCHANGED <<rows, log, queue, tasks, push, inbox>>
  BY DEF RejectApply
<1>2. /\ \A q \in Nodes \ {p} : serving'[q] = serving[q]
      /\ serving'[p].from = serving[p].from /\ serving'[p].live = serving[p].live
      /\ serving'[p].todo = serving[p].todo /\ serving'[p].cur = NoEvent
  BY NextEvent DEF RejectApply, IInv, TypeOK
<1>3. LogGrows /\ QueueStep
  BY <1>1 DEF LogGrows, QueueStep, HistoryOK
<1>4. RequestsKept'
  BY <1>1, <1>2, <1>3, RequestsStayKept
<1>5. LiveOK'
  <2>1. \A f \in Events : f \in serving[p].todo \cup {serving[p].cur} \cup Got(p)
               => f \in serving'[p].todo \cup {serving'[p].cur} \cup Got(p)'
    BY <1>1, <1>2 DEF HistoryOK, Got
  <2> QED BY <2>1, <1>1, <1>2, <1>3, ApplyingKeepsLive
<1>6. PushesOK' /\ AnsweredOK'
  BY <1>1, <1>3, AnswersStay
<1>7. EnqueuesOK'
  BY <1>1 DEF SInv, EnqueuesOK, EventOf
<1> QED BY <1>3, <1>4, <1>5, <1>6, <1>7 DEF SInv

LEMMA RespondSInv ==
    ASSUME IInv, IInv', SInv, UNCHANGED refused, NEW p \in Nodes, Respond(p)
    PROVE  SInv' /\ LogGrows /\ QueueStep
<1> DEFINE n == serving[p].from
<1>1. /\ UNCHANGED <<rows, log, queue, tasks, inbox>>
      /\ n \in Nodes
      /\ serving[p].todo = {} /\ serving[p].cur = NoEvent
  BY DEF Respond, IInv, TypeOK, Services
<1>2. /\ \A q \in Nodes \ {p} : serving'[q] = serving[q]
      /\ serving'[p].todo = {} /\ serving'[p].cur = NoEvent /\ ~serving'[p].live
  BY DEF Respond, NotServing, IInv, TypeOK
<1>3. LogGrows /\ QueueStep
  BY <1>1 DEF LogGrows, QueueStep
<1>4. RequestsKept'
  BY <1>1, <1>2, <1>3, RequestsStayKept
<1>5. EnqueuesOK'
  BY <1>1, <1>2 DEF SInv, EnqueuesOK, EventOf
<1>6. CASE serving[p].live
  <2>1. /\ \A m \in Nodes \ {n} : push'[m] = push[m]
        /\ push'[n].to = push[n].to /\ push'[n].batch = push[n].batch
        /\ push'[n].ok
    BY <1>6, <1>1 DEF Respond, IInv, TypeOK, Pushes
  <2>2. /\ push[n].to = p
        /\ \A i \in Group(n) : i.event \in Got(p)
    <3>1. Waits(n, p, serving[p].todo \cup {serving[p].cur} \cup Got(p))
      BY <1>6 DEF SInv, LiveOK
    <3>2. \A i \in Group(n) : i.event \in Events
      BY <1>1 DEF IInv, TypeOK, Pushes, Items, Group
    <3> QED BY <3>1, <3>2, <1>1, NoEventAssumption DEF Waits
  <2> HIDE DEF n
  <2>3. PushesOK' /\ AnsweredOK'
    BY <2>1, <2>2, <1>1, NobodyAssumption DEF SInv, PushesOK, AnsweredOK, Group, Got
  <2>4. \A q \in Nodes : /\ \A req \in inbox[q] : req.live => req.from # n
                         /\ q # p /\ serving[q].live => serving[q].from # n
    BY <2>2, <1>6 DEF n, SInv, LiveOK, Waits
  <2>5. LiveOK'
    BY <1>1, <1>2, <2>1, <2>4, OthersWait
  <2> QED BY <1>3, <1>4, <1>5, <2>3, <2>5 DEF SInv
<1>7. CASE ~serving[p].live
  <2>1. UNCHANGED push
    BY <1>7 DEF Respond
  <2>2. PushesOK' /\ AnsweredOK'
    BY <2>1, <1>3, AnswersStay
  <2>3. LiveOK'
    BY <2>1, <1>1, <1>2 DEF SInv, LiveOK, Waits, Group, Got
  <2> QED BY <1>3, <1>4, <1>5, <2>2, <2>3 DEF SInv
<1> QED BY <1>6, <1>7

-----------------------------------------------------------------------------
LEMMA InitSInv == Init => SInv
<1> SUFFICES ASSUME Init PROVE SInv
  OBVIOUS
<1>1. RequestsKept /\ EnqueuesOK
  BY DEF Init, RequestsKept, EnqueuesOK, NotServing
<1>2. PushesOK /\ AnsweredOK
  BY DEF Init, PushesOK, AnsweredOK, Sleeping
<1>3. LiveOK
  BY DEF Init, LiveOK, NotServing
<1> QED BY <1>1, <1>2, <1>3 DEF SInv

\* A step in which no request is rolled back.
LEMMA PlainSInv ==
    ASSUME IInv, SInv, [Next]_vars, \A p \in Nodes : ~RejectApply(p), UNCHANGED refused
    PROVE  SInv' /\ LogGrows /\ QueueStep
<1>0. IInv'
  BY NextIInv
<1>1. ASSUME NEW n \in Nodes, NEW r \in Records, NEW v \in Values, Write(n, r, v)
      PROVE  SInv' /\ LogGrows /\ QueueStep
  BY <1>0, <1>1, WriteSInv
<1>2. ASSUME NEW n \in Nodes, Handler(n) PROVE SInv' /\ LogGrows /\ QueueStep
  BY <1>0, <1>2, ReadPayloadSInv, CreateEventSInv, QueueForPeersSInv DEF Handler
<1>3. ASSUME NEW n \in Nodes, PushLoop(n) PROVE SInv' /\ LogGrows /\ QueueStep
  BY <1>0, <1>3, PollSInv, SendSInv, SendInVainSInv, AcknowledgeSInv, FailSInv DEF PushLoop
<1>4. ASSUME NEW p \in Nodes, Server(p) PROVE SInv' /\ LogGrows /\ QueueStep
  BY <1>0, <1>4, ReceiveSInv, BeginApplySInv, CommitApplySInv, RespondSInv DEF Server
<1>5. ASSUME NEW n \in Nodes, CatchUp(n) PROVE SInv' /\ LogGrows /\ QueueStep
  <2>1. UNCHANGED <<rows, log, queue, tasks, push, inbox, serving>>
    BY <1>5, NothingMerged DEF CatchUp, FetchFull, SkipCatchUp, ApplyFullSync
  <2> QED BY <2>1, <1>0, NothingSInv
<1>6. ASSUME NEW n \in Nodes, Crash(n) PROVE SInv' /\ LogGrows /\ QueueStep
  BY <1>0, <1>6, CrashSInv
<1>7. ASSUME NEW n \in Nodes, Restart(n) PROVE SInv' /\ LogGrows /\ QueueStep
  BY <1>0, <1>7, NothingSInv DEF Restart
<1>8. CASE UNCHANGED vars
  BY <1>0, <1>8, NothingSInv DEF vars
<1> QED BY <1>1, <1>2, <1>3, <1>4, <1>5, <1>6, <1>7, <1>8 DEF Next

LEMMA LossNextIsNext == [LossNext]_hvars => [Next]_vars
<1>1. \A n \in Nodes : RejectApply(n) \/ Crash(n) => Next
  BY DEF Next, Server
<1> QED BY <1>1 DEF LossNext, hvars

LEMMA NextHistoryOK ==
    ASSUME IInv, HistoryOK, [LossNext]_hvars
    PROVE  HistoryOK'
<1>1. ASSUME NEW n \in Nodes, RejectApply(n),
             refused' = [refused EXCEPT ![n] = @ \cup {serving[n].cur}], UNCHANGED cut
      PROVE  HistoryOK'
  <2>1. serving[n].cur \in Events
    BY <1>1 DEF RejectApply, IInv, TypeOK, Services
  <2> QED BY <2>1, <1>1 DEF HistoryOK
<1>2. ASSUME NEW n \in Nodes, cut' = [cut EXCEPT ![n] = @ \cup tasks[n]], UNCHANGED refused
      PROVE  HistoryOK'
  BY <1>2 DEF HistoryOK, IInv, TypeOK
<1>3. ASSUME UNCHANGED <<refused, cut>> PROVE HistoryOK'
  BY <1>3 DEF HistoryOK
<1> QED BY <1>1, <1>2, <1>3 DEF LossNext, hvars

LEMMA NextSInv ==
    ASSUME IInv, HistoryOK, SInv, [LossNext]_hvars
    PROVE  SInv' /\ LogGrows /\ QueueStep
<1>0. [Next]_vars /\ IInv'
  BY LossNextIsNext, NextIInv
<1>1. ASSUME NEW n \in Nodes, RejectApply(n),
             refused' = [refused EXCEPT ![n] = @ \cup {serving[n].cur}]
      PROVE  SInv' /\ LogGrows /\ QueueStep
  BY <1>0, <1>1, RejectApplySInv
<1>2. ASSUME NEW n \in Nodes, Crash(n), UNCHANGED refused
      PROVE  SInv' /\ LogGrows /\ QueueStep
  BY <1>0, <1>2, CrashSInv
<1>3. ASSUME \A p \in Nodes : ~RejectApply(p), UNCHANGED refused
      PROVE  SInv' /\ LogGrows /\ QueueStep
  BY <1>0, <1>3, PlainSInv
<1>4. ASSUME UNCHANGED hvars PROVE SInv' /\ LogGrows /\ QueueStep
  BY <1>0, <1>4, NothingSInv DEF hvars, vars
<1> QED BY <1>1, <1>2, <1>3, <1>4 DEF LossNext

Safe == IInv /\ HistoryOK /\ SInv

LEMMA AlwaysSafe == LossSpec => []Safe
<1>1. LossInit => Safe
  <2>1. LossInit => IInv /\ SInv
    BY InitIInv, InitSInv DEF LossInit
  <2>2. LossInit => HistoryOK
    BY DEF LossInit, HistoryOK
  <2> QED BY <2>1, <2>2 DEF Safe
<1>2. Safe /\ [LossNext]_hvars => Safe'
  BY LossNextIsNext, NextIInv, NextHistoryOK, NextSInv DEF Safe
<1> QED BY <1>1, <1>2, PTL DEF LossSpec

-----------------------------------------------------------------------------
\* Every step is one of SyncDelivery, or changes neither its logs nor its debts.

\* An item whose target has not dealt with its event.
LEMMA InOwed ==
    \A x : x \in StillOwed <=>
        \E n \in Nodes : \E i \in queue[n] :
            i.event \notin Got(i.to) /\ x = <<i.event, i.to>>
BY DEF StillOwed, Owed, Got

LEMMA InOwedNext ==
    \A x : x \in StillOwed' <=>
        \E n \in Nodes : \E i \in queue'[n] :
            i.event \notin Got(i.to)' /\ x = <<i.event, i.to>>
BY DEF StillOwed, Owed, Got

\* A step that keeps the logs and the events and targets of undelivered items.
LEMMA OwedStays ==
    ASSUME UNCHANGED <<log, refused>>, QueueStep,
           \A n \in Nodes : \A j \in queue'[n] :
               \E i \in queue[n] : j.event = i.event /\ j.to = i.to
    PROVE  UNCHANGED <<log, StillOwed, refused>>
<1>0. \A p : Got(p)' = Got(p)
  BY DEF Got
<1>1. ASSUME NEW x \in StillOwed PROVE x \in StillOwed'
  <2>0. PICK n \in Nodes : \E i \in queue[n] :
            i.event \notin Got(i.to) /\ x = <<i.event, i.to>>
    BY <1>1, InOwed
  <2>1. PICK i \in queue[n] : i.event \notin Got(i.to) /\ x = <<i.event, i.to>>
    BY <2>0
  <2>2. PICK j \in queue'[n] : j.event = i.event /\ j.to = i.to
    BY <1>0, <2>1 DEF QueueStep
  <2> QED BY <1>0, <2>1, <2>2, InOwedNext
<1>2. ASSUME NEW x \in StillOwed' PROVE x \in StillOwed
  <2>0. PICK n \in Nodes : \E j \in queue'[n] :
            j.event \notin Got(j.to)' /\ x = <<j.event, j.to>>
    BY <1>2, InOwedNext
  <2>1. PICK j \in queue'[n] : j.event \notin Got(j.to)' /\ x = <<j.event, j.to>>
    BY <2>0
  <2>2. PICK i \in queue[n] : j.event = i.event /\ j.to = i.to
    BY <2>1
  <2> QED BY <1>0, <2>1, <2>2, InOwed
<1> QED BY <1>1, <1>2

\* A step that deals with one event at p takes it off the debts.
LEMMA OwedShrinks ==
    ASSUME IInv, UNCHANGED queue, NEW e \in Events, NEW p \in Nodes,
           \A q \in Nodes : Got(q)' = IF q = p THEN Got(p) \cup {e} ELSE Got(q)
    PROVE  StillOwed' = StillOwed \ {<<e, p>>}
<1>1. \A n \in Nodes : \A i \in queue[n] :
        /\ i.to \in Nodes
        /\ i.event \notin Got(i.to)' <=> i.event \notin Got(i.to) /\ <<i.event, i.to>> # <<e, p>>
  BY DEF IInv, TypeOK, Items
<1> QED BY <1>1, InOwed, InOwedNext

LEMMA CreateEventDelivery ==
    ASSUME IInv, UNCHANGED refused, NEW n \in Nodes, NEW t \in tasks[n], CreateEvent(n, t)
    PROVE  (\E e \in Events : SD!Record(e)) \/ UNCHANGED <<log, StillOwed, refused>>
<1> DEFINE e == EventOf(n, t)
<1>1. e \in Events /\ e.src = n
  BY DEF IInv, TypeOK, TasksOK, Tasks, EventOf, Events, CreateEvent
<1>2. log' = [log EXCEPT ![n] = @ \cup {e}] /\ UNCHANGED queue
  BY DEF CreateEvent
<1> HIDE DEF e
<1>3. \A m \in Nodes : \A i \in queue[m] :
        i.to \in Nodes /\ (i.event \in Got(i.to)' <=> i.event \in Got(i.to))
  BY <1>1, <1>2 DEF IInv, TypeOK, QueuesOK, Items, Got
<1>4. UNCHANGED StillOwed
  BY <1>2, <1>3, InOwed, InOwedNext
<1>5. CASE e \in log[n]
  BY <1>2, <1>4, <1>5 DEF IInv, TypeOK
<1>6. CASE e \notin log[n]
  BY <1>1, <1>2, <1>4, <1>6 DEF SD!Record
<1> QED BY <1>5, <1>6

LEMMA QueueForPeersDelivery ==
    ASSUME IInv, SInv, UNCHANGED refused,
           NEW n \in Nodes, NEW t \in tasks[n], QueueForPeers(n, t)
    PROVE  \E e \in Events : SD!Owe(e)
<1> DEFINE e == EventOf(n, t)
           item(p) == [event |-> e, to |-> p, tries |-> 0, at |-> queued[n]]
           new == {item(p) : p \in Nodes \ {n}}
<1>1. /\ e \in Events /\ e.src = n
      /\ e \in log[n]
  BY DEF IInv, TypeOK, TasksOK, Tasks, EventOf, Events, QueueForPeers, SInv, EnqueuesOK
<1>2. queue' = [queue EXCEPT ![n] = @ \cup new] /\ UNCHANGED log
  BY DEF QueueForPeers
<1>3. /\ \A i \in new : i.event = e /\ i.to \in Nodes \ {n}
      /\ \A p \in Nodes \ {n} : \E i \in new : i.event = e /\ i.to = p
  <2>1. \A p : item(p).event = e /\ item(p).to = p
    OBVIOUS
  <2> HIDE DEF item
  <2> QED BY <2>1
<1> HIDE DEF e, new
<1>4. \A m \in Nodes : queue'[m] = IF m = n THEN queue[n] \cup new ELSE queue[m]
  BY <1>2 DEF IInv, TypeOK
<1> DEFINE more == {<<e, p>> : p \in {q \in Nodes : q # e.src /\ e \notin log[q] \cup refused[q]}}
<1>5. \A x : x \in StillOwed' <=>
        \E m \in Nodes : \E i \in queue'[m] :
            i.event \notin Got(i.to) /\ x = <<i.event, i.to>>
  BY <1>2, InOwedNext DEF Got
<1>6. ASSUME NEW x PROVE x \in StillOwed' <=> x \in StillOwed \/ x \in more
  <2>1. ASSUME x \in StillOwed PROVE x \in StillOwed'
    BY <2>1, <1>4, <1>5, InOwed
  <2>2. ASSUME x \in more PROVE x \in StillOwed'
    <3>1. PICK p \in Nodes : p # n /\ e \notin Got(p) /\ x = <<e, p>>
      BY <2>2, <1>1 DEF Got
    <3>2. PICK i \in new : i.event = e /\ i.to = p
      BY <3>1, <1>3
    <3> QED BY <3>1, <3>2, <1>4, <1>5
  <2>3. ASSUME x \in StillOwed', x \notin StillOwed PROVE x \in more
    <3>0. PICK m \in Nodes : \E i \in queue'[m] :
              i.event \notin Got(i.to) /\ x = <<i.event, i.to>>
      BY <2>3, <1>5
    <3>1. PICK i \in queue'[m] : i.event \notin Got(i.to) /\ x = <<i.event, i.to>>
      BY <3>0
    <3>2. m = n /\ i \in new
      BY <2>3, <3>1, <1>4, InOwed
    <3> QED BY <3>1, <3>2, <1>1, <1>3 DEF Got
  <2> QED BY <2>1, <2>2, <2>3
<1>7. StillOwed' = StillOwed \cup more
  BY <1>6
<1> QED BY <1>1, <1>2, <1>7 DEF SD!Owe

\* What p is applying has not been logged yet, and is owed or was refused.
LEMMA Applying ==
    ASSUME IInv, SInv, NEW p \in Nodes, serving[p].cur # NoEvent
    PROVE  /\ serving[p].cur \in Events \ log[p]
           /\ <<serving[p].cur, p>> \in StillOwed \/ serving[p].cur \in refused[p]
<1> DEFINE e == serving[p].cur
<1>1. e \in Events /\ e \notin log[p] /\ Kept(e, p)
  BY DEF IInv, TypeOK, Services, NeverAppliedTwice, SInv, RequestsKept
<1> HIDE DEF e
<1>2. e.src \in Nodes
  BY <1>1 DEF Events
<1>3. e \notin refused[p] => <<e, p>> \in StillOwed
  BY <1>1, <1>2, InOwed DEF Kept, Got
<1> QED BY <1>1, <1>3 DEF e

LEMMA CommitApplyDelivery ==
    ASSUME IInv, SInv, UNCHANGED refused, NEW p \in Nodes, CommitApply(p)
    PROVE  \E e \in Events : SD!Deliver(e, p)
<1> DEFINE e == serving[p].cur
<1>1. /\ e \in Events
      /\ <<e, p>> \in StillOwed \/ e \in refused[p]
  BY Applying DEF CommitApply
<1>2. log' = [log EXCEPT ![p] = @ \cup {e}] /\ UNCHANGED queue
  BY DEF CommitApply
<1> HIDE DEF e
<1>3. \A q \in Nodes : Got(q)' = IF q = p THEN Got(p) \cup {e} ELSE Got(q)
  BY <1>2 DEF Got, IInv, TypeOK
<1>4. StillOwed' = StillOwed \ {<<e, p>>}
  BY <1>1, <1>2, <1>3, OwedShrinks
<1> QED BY <1>1, <1>2, <1>4 DEF SD!Deliver

LEMMA RejectApplyDelivery ==
    ASSUME IInv, HistoryOK, SInv, NEW p \in Nodes, RejectApply(p),
           refused' = [refused EXCEPT ![p] = @ \cup {serving[p].cur}]
    PROVE  (\E e \in Events : SD!Refuse(e, p)) \/ UNCHANGED <<log, StillOwed, refused>>
<1> DEFINE e == serving[p].cur
<1>1. /\ e \in Events
      /\ <<e, p>> \in StillOwed \/ e \in refused[p]
  BY Applying DEF RejectApply
<1>2. refused' = [refused EXCEPT ![p] = @ \cup {e}] /\ UNCHANGED <<log, queue>>
  BY DEF RejectApply
<1> HIDE DEF e
<1>3. \A q \in Nodes : Got(q)' = IF q = p THEN Got(p) \cup {e} ELSE Got(q)
  BY <1>2 DEF Got, HistoryOK
<1>4. StillOwed' = StillOwed \ {<<e, p>>}
  BY <1>1, <1>2, <1>3, OwedShrinks
<1>5. CASE <<e, p>> \in StillOwed
  BY <1>1, <1>2, <1>4, <1>5 DEF SD!Refuse
<1>6. CASE <<e, p>> \notin StillOwed
  BY <1>1, <1>2, <1>4, <1>6 DEF HistoryOK
<1> QED BY <1>5, <1>6

\* A step in which no request is rolled back.
LEMMA PlainDelivery ==
    ASSUME Safe, [Next]_vars, \A p \in Nodes : ~RejectApply(p), UNCHANGED refused
    PROVE  [SD!Next]_(SD!vars)
<1> USE DEF Safe
<1>0. QueueStep
  BY PlainSInv
<1>1. ASSUME UNCHANGED <<log, queue>> PROVE UNCHANGED <<log, StillOwed, refused>>
  BY <1>1 DEF StillOwed, Owed
<1>2. ASSUME NEW n \in Nodes, NEW r \in Records, NEW v \in Values, Write(n, r, v)
      PROVE  UNCHANGED <<log, StillOwed, refused>>
  BY <1>1, <1>2 DEF Write
<1>3. ASSUME NEW n \in Nodes, Handler(n)
      PROVE  SD!Next \/ UNCHANGED <<log, StillOwed, refused>>
  <2>1. ASSUME NEW t \in tasks[n], ReadPayload(n, t) PROVE UNCHANGED <<log, StillOwed, refused>>
    BY <1>1, <2>1 DEF ReadPayload
  <2> QED BY <1>3, <2>1, CreateEventDelivery, QueueForPeersDelivery DEF Handler, SD!Next
<1>4. ASSUME NEW n \in Nodes, PushLoop(n) PROVE UNCHANGED <<log, StillOwed, refused>>
  <2>1. ASSUME Poll(n) PROVE UNCHANGED <<log, StillOwed, refused>>
    BY <1>1, <2>1 DEF Poll
  <2>2. ASSUME NEW p \in Nodes, Send(n, p) \/ SendInVain(n, p) PROVE UNCHANGED <<log, StillOwed, refused>>
    BY <1>1, <2>2 DEF Send, SendInVain
  <2>3. ASSUME Acknowledge(n) PROVE UNCHANGED <<log, StillOwed, refused>>
    <3>1. /\ UNCHANGED log
          /\ \A m \in Nodes : \A j \in queue'[m] : j \in queue[m]
      BY <2>3 DEF Acknowledge, IInv, TypeOK
    <3> QED BY <3>1, <1>0, OwedStays
  <2>4. ASSUME Fail(n) PROVE UNCHANGED <<log, StillOwed, refused>>
    <3>1. /\ UNCHANGED log
          /\ queue' = [queue EXCEPT ![n] = (@ \ Group(n)) \cup Retried(n)]
      BY <2>4 DEF Fail, Retried
    <3>2. \A m \in Nodes : \A j \in queue'[m] :
              \E i \in queue[m] : j.event = i.event /\ j.to = i.to
      BY <3>1, RetriedItems DEF IInv, TypeOK
    <3> QED BY <3>1, <3>2, <1>0, OwedStays
  <2> QED BY <1>4, <2>1, <2>2, <2>3, <2>4 DEF PushLoop
<1>5. ASSUME NEW p \in Nodes, Server(p)
      PROVE  SD!Next \/ UNCHANGED <<log, StillOwed, refused>>
  <2>1. ASSUME NEW req \in inbox[p], Receive(p, req) PROVE UNCHANGED <<log, StillOwed, refused>>
    BY <1>1, <2>1 DEF Receive
  <2>2. ASSUME NEW e \in serving[p].todo, BeginApply(p, e) PROVE UNCHANGED <<log, StillOwed, refused>>
    BY <1>1, <2>2 DEF BeginApply
  <2>3. ASSUME Respond(p) PROVE UNCHANGED <<log, StillOwed, refused>>
    BY <1>1, <2>3 DEF Respond
  <2> QED BY <1>5, <2>1, <2>2, <2>3, CommitApplyDelivery DEF Server, SD!Next
<1>6. ASSUME NEW n \in Nodes, CatchUp(n) \/ Crash(n) \/ Restart(n)
      PROVE  UNCHANGED <<log, StillOwed, refused>>
  BY <1>1, <1>6 DEF CatchUp, FetchFull, SkipCatchUp, ApplyFullSync, Crash, Restart
<1>7. CASE UNCHANGED vars
  BY <1>1, <1>7 DEF vars, SD!vars
<1> QED BY <1>2, <1>3, <1>4, <1>5, <1>6, <1>7 DEF Next, SD!vars

LEMMA DeliveryStep ==
    ASSUME Safe, [LossNext]_hvars
    PROVE  [SD!Next]_(SD!vars)
<1>1. ASSUME NEW n \in Nodes, RejectApply(n),
             refused' = [refused EXCEPT ![n] = @ \cup {serving[n].cur}]
      PROVE  [SD!Next]_(SD!vars)
  BY <1>1, RejectApplyDelivery DEF Safe, SD!Next, SD!vars
<1>2. ASSUME NEW n \in Nodes, Crash(n), UNCHANGED refused PROVE [SD!Next]_(SD!vars)
  <2>1. UNCHANGED <<log, queue, refused>>
    BY <1>2 DEF Crash
  <2> QED BY <2>1 DEF SD!vars, StillOwed, Owed
<1>3. ASSUME \A p \in Nodes : ~RejectApply(p), UNCHANGED refused
      PROVE  [SD!Next]_(SD!vars)
  BY <1>3, LossNextIsNext, PlainDelivery
<1>4. CASE UNCHANGED hvars
  BY <1>4 DEF hvars, vars, SD!vars, StillOwed, Owed
<1> QED BY <1>1, <1>2, <1>3, <1>4 DEF LossNext

\* Crashes, lost answers, duplicated requests, half-done batches and rejected
\* inserts, whoever writes what: an event owed to a peer stays owed until the
\* peer has logged it or rolled it back.
THEOREM ImplementsDelivery == LossSpec => Delivery
<1>1. LossInit => SD!Init
  BY DEF LossInit, Init, SD!Init, StillOwed, Owed
<1>2. Safe /\ [LossNext]_hvars => [SD!Next]_(SD!vars)
  BY DeliveryStep
<1> QED BY <1>1, <1>2, AlwaysSafe, PTL DEF LossSpec, Delivery, SD!Spec

-----------------------------------------------------------------------------
\* Changes on their way.

\* A step after which every handler is still there or has queued its event.
LEMMA TravelsOn ==
    ASSUME Safe, NoLostWrite, LogGrows, QueueStep, UNCHANGED writes,
           \A n \in Nodes : cut[n] \subseteq cut'[n],
           \A n \in Nodes : \A t \in tasks[n] :
               \/ \E u \in tasks'[n] \cup cut'[n] : u.id = t.id
               \/ \A p \in Nodes \ {n} :
                     \E i \in queue'[n] : i.to = p /\ Same(n, t.id, i.event)
    PROVE  NoLostWrite'
<1> SUFFICES ASSUME NEW n \in Nodes, NEW id \in 1 .. writes[n], NEW p \in Nodes \ {n}
             PROVE  \/ \E t \in tasks'[n] : t.id = id
                    \/ \E i \in queue'[n] : i.to = p /\ Same(n, id, i.event)
                    \/ \E e \in Got(p)' : Same(n, id, e)
                    \/ \E t \in cut'[n] : t.id = id
  BY DEF NoLostWrite, Same, CutOff, Got
<1>1. CASE \E t \in tasks[n] : t.id = id
  BY <1>1
<1>2. CASE \E i \in queue[n] : i.to = p /\ Same(n, id, i.event)
  <2>1. PICK i \in queue[n] : i.to = p /\ Same(n, id, i.event)
    BY <1>2
  <2>2. \/ \E j \in queue'[n] : j.event = i.event /\ j.to = p
        \/ i.event \in Got(p)'
    BY <2>1 DEF QueueStep
  <2> QED BY <2>1, <2>2 DEF Same
<1>3. CASE \E e \in Got(p) : Same(n, id, e)
  BY <1>3 DEF LogGrows, Got
<1>4. CASE \E t \in cut[n] : t.id = id
  BY <1>4
<1> QED BY <1>1, <1>2, <1>3, <1>4 DEF NoLostWrite, CutOff, Got

LEMMA WriteTravels ==
    ASSUME Safe, NoLostWrite, UNCHANGED <<refused, cut>>,
           NEW n \in Nodes, NEW r \in Records, NEW v \in Values, Write(n, r, v)
    PROVE  NoLostWrite'
<1>1. /\ UNCHANGED <<queue, log>>
      /\ writes[n] \in Nat
      /\ writes' = [writes EXCEPT ![n] = @ + 1]
      /\ \E u \in tasks'[n] : u.id = writes[n] + 1
      /\ \A m \in Nodes : tasks[m] \subseteq tasks'[m]
  <2> DEFINE u == [id |-> writes[n] + 1, row |-> r, val |-> Absent, step |-> "read"]
  <2>1. u.id = writes[n] + 1
    OBVIOUS
  <2>2. tasks' = [tasks EXCEPT ![n] = @ \cup {u}]
    BY DEF Write
  <2> HIDE DEF u
  <2> QED BY <2>1, <2>2 DEF Write, Safe, IInv, TypeOK
<1>2. \A m \in Nodes : \A id \in 1 .. writes'[m] :
        id \in 1 .. writes[m] \/ (m = n /\ id = writes[n] + 1)
  BY <1>1 DEF Safe, IInv, TypeOK
<1> QED BY <1>1, <1>2 DEF NoLostWrite, Same, CutOff

LEMMA PlainTravels ==
    ASSUME Safe, NoLostWrite, [Next]_vars, LogGrows, QueueStep, UNCHANGED <<refused, cut>>,
           \A n \in Nodes : ~Crash(n)
    PROVE  NoLostWrite'
<1> USE DEF Safe
<1>1. ASSUME NEW n \in Nodes, NEW r \in Records, NEW v \in Values, Write(n, r, v)
      PROVE  NoLostWrite'
  BY <1>1, WriteTravels
<1>2. ASSUME NEW n \in Nodes, NEW t \in tasks[n], ReadPayload(n, t) \/ CreateEvent(n, t)
      PROVE  NoLostWrite'
  <2>1. t \in Tasks
    BY DEF IInv, TypeOK
  <2>2. /\ UNCHANGED writes
        /\ \E u : u.id = t.id /\ tasks' = [tasks EXCEPT ![n] = (@ \ {t}) \cup {u}]
    <3>1. CASE ReadPayload(n, t)
      <4>1. [t EXCEPT !.val = rows[n][t.row], !.step = "record"].id = t.id
        BY <2>1 DEF Tasks
      <4> QED BY <4>1, <3>1 DEF ReadPayload
    <3>2. CASE CreateEvent(n, t)
      <4>1. [t EXCEPT !.step = "enqueue"].id = t.id
        BY <2>1 DEF Tasks
      <4> QED BY <4>1, <3>2 DEF CreateEvent
    <3> QED BY <1>2, <3>1, <3>2
  <2>3. \A m \in Nodes : \A w \in tasks[m] : \E u \in tasks'[m] : u.id = w.id
    BY <2>2 DEF IInv, TypeOK
  <2> QED BY <2>2, <2>3, TravelsOn
<1>3. ASSUME NEW n \in Nodes, NEW t \in tasks[n], QueueForPeers(n, t)
      PROVE  NoLostWrite'
  <2>1. /\ UNCHANGED writes
        /\ tasks' = [tasks EXCEPT ![n] = @ \ {t}]
        /\ \A p \in Nodes \ {n} : [event |-> EventOf(n, t), to |-> p, tries |-> 0,
                                   at |-> queued[n]] \in queue'[n]
    BY <1>3 DEF QueueForPeers, IInv, TypeOK
  <2>2. \A p \in Nodes \ {n} : \E i \in queue'[n] : i.to = p /\ Same(n, t.id, i.event)
    <3> SUFFICES ASSUME NEW p \in Nodes \ {n}
                 PROVE  \E i \in queue'[n] : i.to = p /\ Same(n, t.id, i.event)
      OBVIOUS
    <3> DEFINE i == [event |-> EventOf(n, t), to |-> p, tries |-> 0, at |-> queued[n]]
    <3>1. i.to = p /\ Same(n, t.id, i.event)
      BY DEF Same, EventOf
    <3> QED BY <2>1, <3>1
  <2>3. \A m \in Nodes : \A w \in tasks[m] : w \in tasks'[m] \/ (m = n /\ w = t)
    BY <2>1 DEF IInv, TypeOK
  <2> QED BY <2>1, <2>2, <2>3, TravelsOn
<1>4. ASSUME UNCHANGED <<writes, tasks>> PROVE NoLostWrite'
  BY <1>4, TravelsOn
<1>5. ASSUME NEW n \in Nodes, PushLoop(n) PROVE NoLostWrite'
  <2>1. UNCHANGED <<writes, tasks>>
    BY <1>5 DEF PushLoop, Poll, Send, SendInVain, Acknowledge, Fail
  <2> QED BY <1>4, <2>1
<1>6. ASSUME NEW p \in Nodes, Server(p) PROVE NoLostWrite'
  <2>1. UNCHANGED <<writes, tasks>>
    BY <1>6 DEF Server, Receive, BeginApply, CommitApply, RejectApply, Respond
  <2> QED BY <1>4, <2>1
<1>7. ASSUME NEW n \in Nodes, CatchUp(n) \/ Restart(n) PROVE NoLostWrite'
  <2>1. UNCHANGED <<writes, tasks>>
    BY <1>7 DEF CatchUp, FetchFull, SkipCatchUp, ApplyFullSync, Restart
  <2> QED BY <1>4, <2>1
<1>8. CASE UNCHANGED vars
  BY <1>4, <1>8 DEF vars
<1> QED BY <1>1, <1>2, <1>3, <1>5, <1>6, <1>7, <1>8 DEF Next, Handler

\* The handlers that a crash ends are remembered.
LEMMA NextTravels ==
    ASSUME Safe, NoLostWrite, [LossNext]_hvars
    PROVE  NoLostWrite'
<1>0. [Next]_vars /\ LogGrows /\ QueueStep
  BY LossNextIsNext, NextSInv DEF Safe
<1>1. ASSUME NEW n \in Nodes, RejectApply(n), UNCHANGED cut PROVE NoLostWrite'
  BY <1>0, <1>1, TravelsOn DEF RejectApply
<1>2. ASSUME NEW n \in Nodes, Crash(n), cut' = [cut EXCEPT ![n] = @ \cup tasks[n]]
      PROVE  NoLostWrite'
  <2>1. /\ UNCHANGED writes
        /\ \A m \in Nodes : cut[m] \subseteq cut'[m] /\ tasks[m] \subseteq tasks'[m] \cup cut'[m]
    BY <1>2 DEF Crash, Safe, IInv, TypeOK, HistoryOK
  <2> QED BY <1>0, <2>1, TravelsOn
<1>3. ASSUME \A n \in Nodes : ~Crash(n), UNCHANGED <<refused, cut>> PROVE NoLostWrite'
  BY <1>0, <1>3, PlainTravels
<1>4. ASSUME UNCHANGED hvars PROVE NoLostWrite'
  BY <1>0, <1>4, TravelsOn DEF hvars, vars
<1> QED BY <1>1, <1>2, <1>3, <1>4 DEF LossNext

\* Every committed change is on its way to every peer, or has arrived there, or
\* its handler was ended by a crash between its commits.
THEOREM ChangesTravel == LossSpec => []NoLostWrite
<1>1. LossInit => NoLostWrite
  BY DEF LossInit, Init, NoLostWrite
<1>2. Safe /\ NoLostWrite /\ [LossNext]_hvars => NoLostWrite'
  BY NextTravels
<1> QED BY <1>1, <1>2, AlwaysSafe, PTL DEF LossSpec

-----------------------------------------------------------------------------
\* What nodes agree about once everything is delivered.

\* The handlers of n that have not queued their events, running or not.
Unfinished(n) == tasks[n] \cup cut[n]

\* An event that was dealt with or queued anywhere was logged by its source.
EventsKnown ==
    \A n \in Nodes : /\ \A e \in Got(n) : e \in log[e.src]
                     /\ \A i \in queue[n] : i.event \in log[n]

\* Every peer has dealt with an event of n, or n has an item for it, or had the
\* handler that was to queue it.
OwnTravel ==
    \A n \in Nodes : \A e \in log[n], p \in Nodes \ {n} :
        e.src = n => \/ Kept(e, p)
                     \/ \E t \in Unfinished(n) : t.step = "enqueue" /\ EventOf(n, t) = e

\* A node has the rows of the events it has dealt with: rows are never deleted.
LoggedRows == \A n \in Nodes : \A e \in Got(n) : rows[n][e.row] # Absent

\* The content of a row is logged, or a handler of the node had yet to log it.
RowsTravel ==
    \A n \in Nodes, r \in Records :
        rows[n][r] # Absent =>
            \/ LoggedAs(n, r, rows[n][r])
            \/ \E t \in Unfinished(n) :
                  /\ t.row = r
                  /\ t.step = "read" \/ (t.step = "record" /\ t.val = rows[n][r])

AgreeInv == EventsKnown /\ OwnTravel /\ LoggedRows /\ RowsTravel

\* A step that queues no new event and touches neither tables nor handlers.
LEMMA OnlyQueue ==
    ASSUME Safe, AgreeInv, LogGrows, QueueStep, UNCHANGED <<rows, log>>,
           \A n \in Nodes : Unfinished(n)' = Unfinished(n),
           \A n \in Nodes : \A e \in refused'[n] :
               e \in refused[n] \/ (rows[n][e.row] # Absent /\ e \in log[e.src]),
           \A n \in Nodes : \A j \in queue'[n] : \E i \in queue[n] : j.event = i.event
    PROVE  AgreeInv'
<1>1. EventsKnown'
  BY DEF AgreeInv, EventsKnown, Got
<1>2. OwnTravel'
  <2> SUFFICES ASSUME NEW n \in Nodes, NEW e \in log[n], NEW p \in Nodes \ {n}, e.src = n
               PROVE  \/ Kept(e, p)'
                      \/ \E t \in Unfinished(n)' : t.step = "enqueue" /\ EventOf(n, t) = e
    BY DEF OwnTravel, EventOf
  <2>1. e \in Events
    BY DEF Safe, IInv, TypeOK
  <2> QED BY <2>1, StaysKept DEF AgreeInv, OwnTravel
<1>3. LoggedRows'
  BY DEF AgreeInv, LoggedRows, Got
<1>4. RowsTravel'
  BY DEF AgreeInv, RowsTravel, LoggedAs
<1> QED BY <1>1, <1>2, <1>3, <1>4 DEF AgreeInv

\* A step that changes neither logs nor queue, and keeps handlers that queue.
LEMMA OwnTravelStays ==
    ASSUME AgreeInv, UNCHANGED <<log, queue, refused, cut>>,
           \A n \in Nodes : \A t \in tasks[n] : t.step = "enqueue" => t \in tasks'[n]
    PROVE  EventsKnown' /\ OwnTravel'
<1>1. EventsKnown'
  BY DEF AgreeInv, EventsKnown, Got
<1>2. OwnTravel'
  BY DEF AgreeInv, OwnTravel, Kept, Got, Unfinished, EventOf
<1> QED BY <1>1, <1>2

LEMMA WriteAgrees ==
    ASSUME Safe, AgreeInv, UNCHANGED <<refused, cut>>,
           NEW n \in Nodes, NEW r \in Records, NEW v \in Values, Write(n, r, v)
    PROVE  AgreeInv'
<1> DEFINE u == [id |-> writes[n] + 1, row |-> r, val |-> Absent, step |-> "read"]
<1>1. u.row = r /\ u.step = "read"
  OBVIOUS
<1>2. /\ tasks' = [tasks EXCEPT ![n] = @ \cup {u}]
      /\ rows' = [rows EXCEPT ![n][r] = v]
      /\ UNCHANGED <<log, queue>>
  BY DEF Write
<1> HIDE DEF u
<1>3. /\ \A m \in Nodes : Unfinished(m) \subseteq Unfinished(m)'
      /\ u \in Unfinished(n)'
  BY <1>2 DEF Safe, IInv, TypeOK, Unfinished
<1>4. EventsKnown' /\ OwnTravel'
  BY <1>2, <1>3, OwnTravelStays
<1>5. \A m \in Nodes, s \in Records :
        rows'[m][s] = rows[m][s] \/ (m = n /\ s = r /\ rows'[m][s] # Absent)
  BY <1>2, AbsentAssumption DEF Safe, IInv, TypeOK
<1>6. LoggedRows'
  BY <1>2, <1>5 DEF AgreeInv, LoggedRows, Got, Safe, SInv, HistoryOK, IInv, TypeOK, Events
<1>7. RowsTravel'
  BY <1>1, <1>2, <1>3, <1>5 DEF AgreeInv, RowsTravel, LoggedAs, Unfinished
<1> QED BY <1>4, <1>6, <1>7 DEF AgreeInv

LEMMA ReadPayloadAgrees ==
    ASSUME Safe, AgreeInv, UNCHANGED <<refused, cut>>,
           NEW n \in Nodes, NEW t \in tasks[n], ReadPayload(n, t)
    PROVE  AgreeInv'
<1> DEFINE u == [t EXCEPT !.val = rows[n][t.row], !.step = "record"]
<1>1. u.row = t.row /\ u.step = "record" /\ u.val = rows[n][t.row] /\ t.step = "read"
  BY DEF Safe, IInv, TypeOK, Tasks, ReadPayload
<1>2. /\ tasks' = [tasks EXCEPT ![n] = (@ \ {t}) \cup {u}]
      /\ UNCHANGED <<rows, log, queue>>
  BY DEF ReadPayload
<1> HIDE DEF u
<1>3. /\ \A m \in Nodes : \A w \in Unfinished(m) : w \in Unfinished(m)' \/ (m = n /\ w = t)
      /\ u \in Unfinished(n)'
  BY <1>2 DEF Safe, IInv, TypeOK, Unfinished
<1>4. EventsKnown' /\ OwnTravel'
  BY <1>1, <1>2, <1>3, OwnTravelStays
<1>5. LoggedRows'
  BY <1>2 DEF AgreeInv, LoggedRows, Got
<1>6. RowsTravel'
  BY <1>1, <1>2, <1>3 DEF AgreeInv, RowsTravel, LoggedAs, Unfinished
<1> QED BY <1>4, <1>5, <1>6 DEF AgreeInv

LEMMA CreateEventAgrees ==
    ASSUME Safe, AgreeInv, UNCHANGED <<refused, cut>>,
           NEW n \in Nodes, NEW t \in tasks[n], CreateEvent(n, t)
    PROVE  AgreeInv'
<1> DEFINE e == EventOf(n, t)
           u == [t EXCEPT !.step = "enqueue"]
<1>1. /\ e \in Events
      /\ e.src = n /\ e.row = t.row /\ e.val = t.val
      /\ rows[n][e.row] # Absent
      /\ t.step = "record"
  BY DEF Safe, IInv, TypeOK, TasksOK, Tasks, EventOf, Events, CreateEvent
<1>2. u.step = "enqueue" /\ EventOf(n, u) = e
  BY DEF Safe, IInv, TypeOK, Tasks, EventOf
<1>3. /\ log' = [log EXCEPT ![n] = @ \cup {e}]
      /\ tasks' = [tasks EXCEPT ![n] = (@ \ {t}) \cup {u}]
      /\ UNCHANGED <<rows, queue>>
  BY DEF CreateEvent
<1> HIDE DEF e, u
<1>4. \A m \in Nodes : /\ log[m] \subseteq log'[m]
                       /\ \A f \in log'[m] : f \in log[m] \/ (m = n /\ f = e)
                       /\ \A f \in Got(m)' : f \in Got(m) \/ (m = n /\ f = e)
                       /\ \A f \in Got(m) : f \in Events
  BY <1>3 DEF Safe, IInv, TypeOK, HistoryOK, Got
<1>5. /\ e \in log'[n]
      /\ u \in Unfinished(n)'
      /\ \A m \in Nodes : \A w \in Unfinished(m) : w \in Unfinished(m)' \/ (m = n /\ w = t)
  BY <1>3 DEF Safe, IInv, TypeOK, Unfinished
<1>6. EventsKnown'
  <2>1. ASSUME NEW m \in Nodes, NEW f \in Got(m)' PROVE f \in log'[f.src]
    <3>1. CASE f \in Got(m)
      <4>1. f.src \in Nodes /\ f \in log[f.src]
        BY <3>1, <1>4 DEF AgreeInv, EventsKnown, Events
      <4> QED BY <4>1, <1>4
    <3>2. CASE m = n /\ f = e
      BY <3>2, <1>1, <1>5
    <3> QED BY <3>1, <3>2, <1>4
  <2>2. ASSUME NEW m \in Nodes, NEW i \in queue'[m] PROVE i.event \in log'[m]
    BY <1>3, <1>4 DEF AgreeInv, EventsKnown
  <2> QED BY <2>1, <2>2 DEF EventsKnown, Got
<1>7. OwnTravel'
  <2> SUFFICES ASSUME NEW m \in Nodes, NEW f \in log'[m], NEW p \in Nodes \ {m}, f.src = m
               PROVE  \/ Kept(f, p)'
                      \/ \E w \in Unfinished(m)' : w.step = "enqueue" /\ EventOf(m, w) = f
    BY DEF OwnTravel, EventOf
  <2>1. CASE m = n /\ f = e
    BY <2>1, <1>2, <1>5
  <2>2. CASE f \in log[m]
    <3>1. CASE Kept(f, p)
      BY <3>1, <1>3, <1>4 DEF Kept, Got
    <3>2. ASSUME NEW w \in Unfinished(m), w.step = "enqueue", EventOf(m, w) = f
          PROVE  \E x \in Unfinished(m)' : x.step = "enqueue" /\ EventOf(m, x) = f
      BY <3>2, <1>1, <1>5
    <3> QED BY <2>2, <3>1, <3>2 DEF AgreeInv, OwnTravel
  <2> QED BY <2>1, <2>2, <1>4
<1>8. LoggedRows'
  BY <1>1, <1>3, <1>4 DEF AgreeInv, LoggedRows, Got
<1>9. RowsTravel'
  <2> SUFFICES ASSUME NEW m \in Nodes, NEW r \in Records, rows[m][r] # Absent
               PROVE  \/ LoggedAs(m, r, rows[m][r])'
                      \/ \E w \in Unfinished(m)' :
                            /\ w.row = r
                            /\ w.step = "read" \/ (w.step = "record" /\ w.val = rows[m][r])
    BY <1>3 DEF RowsTravel
  <2>1. CASE LoggedAs(m, r, rows[m][r])
    BY <2>1, <1>3, <1>4 DEF LoggedAs
  <2>2. ASSUME NEW w \in Unfinished(m), w.row = r,
               w.step = "read" \/ (w.step = "record" /\ w.val = rows[m][r])
        PROVE  \/ LoggedAs(m, r, rows[m][r])'
               \/ \E x \in Unfinished(m)' :
                     /\ x.row = r
                     /\ x.step = "read" \/ (x.step = "record" /\ x.val = rows[m][r])
    <3>1. CASE m = n /\ w = t
      BY <3>1, <2>2, <1>1, <1>3, <1>5 DEF LoggedAs
    <3>2. CASE w \in Unfinished(m)'
      BY <3>2, <2>2
    <3> QED BY <3>1, <3>2, <1>5
  <2> QED BY <2>1, <2>2 DEF AgreeInv, RowsTravel
<1> QED BY <1>6, <1>7, <1>8, <1>9 DEF AgreeInv

LEMMA QueueForPeersAgrees ==
    ASSUME Safe, AgreeInv, UNCHANGED <<refused, cut>>,
           NEW n \in Nodes, NEW t \in tasks[n], QueueForPeers(n, t)
    PROVE  AgreeInv'
<1> DEFINE e == EventOf(n, t)
           item(p) == [event |-> e, to |-> p, tries |-> 0, at |-> queued[n]]
           new == {item(p) : p \in Nodes \ {n}}
<1>1. e \in log[n] /\ e.src = n /\ t.step = "enqueue"
  BY DEF QueueForPeers, Safe, SInv, EnqueuesOK, EventOf
<1>2. /\ \A i \in new : i.event = e
      /\ \A p \in Nodes \ {n} : \E i \in new : i.event = e /\ i.to = p
  <2>1. \A p : item(p).event = e /\ item(p).to = p
    OBVIOUS
  <2> HIDE DEF item
  <2> QED BY <2>1
<1>3. /\ queue' = [queue EXCEPT ![n] = @ \cup new]
      /\ tasks' = [tasks EXCEPT ![n] = @ \ {t}]
      /\ UNCHANGED <<rows, log>>
  BY DEF QueueForPeers
<1>4. \A m \in Nodes : \A w \in Unfinished(m) :
        w \in Unfinished(m)' \/ (m = n /\ w = t /\ EventOf(m, w) = e)
  BY <1>3 DEF Safe, IInv, TypeOK, Unfinished
<1> HIDE DEF e, item, new
<1>5. \A m \in Nodes : queue'[m] = IF m = n THEN queue[n] \cup new ELSE queue[m]
  BY <1>3 DEF Safe, IInv, TypeOK
<1>6. EventsKnown'
  BY <1>1, <1>2, <1>3, <1>5 DEF AgreeInv, EventsKnown, Got
<1>7. OwnTravel'
  <2> SUFFICES ASSUME NEW m \in Nodes, NEW f \in log[m], NEW p \in Nodes \ {m}, f.src = m
               PROVE  \/ Kept(f, p)'
                      \/ \E w \in Unfinished(m)' : w.step = "enqueue" /\ EventOf(m, w) = f
    BY <1>3 DEF OwnTravel, EventOf
  <2>1. CASE Kept(f, p)
    BY <2>1, <1>3, <1>5 DEF Kept, Got
  <2>2. ASSUME NEW w \in Unfinished(m), w.step = "enqueue", EventOf(m, w) = f
        PROVE  \/ Kept(f, p)'
               \/ \E x \in Unfinished(m)' : x.step = "enqueue" /\ EventOf(m, x) = f
    <3>1. CASE w \in Unfinished(m)'
      BY <3>1, <2>2
    <3>2. CASE m = n /\ f = e
      <4>1. \E i \in queue'[f.src] : i.event = f /\ i.to = p
        BY <3>2, <1>1, <1>2, <1>5
      <4> QED BY <4>1 DEF Kept
    <3> QED BY <3>1, <3>2, <2>2, <1>4
  <2> QED BY <2>1, <2>2 DEF AgreeInv, OwnTravel
<1>8. LoggedRows'
  BY <1>3 DEF AgreeInv, LoggedRows, Got
<1>9. RowsTravel'
  BY <1>1, <1>3, <1>4 DEF AgreeInv, RowsTravel, LoggedAs, Unfinished
<1> QED BY <1>6, <1>7, <1>8, <1>9 DEF AgreeInv

\* What a peer is applying was logged by its source.
LEMMA ServedKnown ==
    ASSUME Safe, AgreeInv, NEW p \in Nodes, serving[p].cur # NoEvent
    PROVE  serving[p].cur \in log[serving[p].cur.src]
<1> DEFINE e == serving[p].cur
<1>1. e \in Events /\ Kept(e, p)
  BY DEF Safe, IInv, TypeOK, Services, SInv, RequestsKept
<1> HIDE DEF e
<1>2. e.src \in Nodes
  BY <1>1 DEF Events
<1>3. e \in log[e.src]
  BY <1>1, <1>2 DEF Kept, AgreeInv, EventsKnown
<1> QED BY <1>3 DEF e

LEMMA CommitApplyAgrees ==
    ASSUME Safe, AgreeInv, UNCHANGED <<refused, cut>>, NEW p \in Nodes, CommitApply(p)
    PROVE  AgreeInv'
<1> DEFINE e == serving[p].cur
<1>1. /\ e \in Events
      /\ e.src # p
      /\ e \in log[e.src]
  BY ServedKnown DEF CommitApply, Safe, IInv, TypeOK, Services, OriginsOK, Foreign
<1>2. /\ rows' = [rows EXCEPT ![p][e.row] = e.val]
      /\ log' = [log EXCEPT ![p] = @ \cup {e}]
      /\ UNCHANGED <<queue, tasks>>
  BY DEF CommitApply
<1> HIDE DEF e
<1>3. /\ e.src \in Nodes /\ e.row \in Records
      /\ e.val # Absent
  BY <1>1, AbsentAssumption DEF Events
<1>4. \A m \in Nodes : /\ log[m] \subseteq log'[m]
                       /\ \A f \in log'[m] : f \in log[m] \/ (m = p /\ f = e)
                       /\ \A f \in Got(m)' : f \in Got(m) \/ (m = p /\ f = e)
                       /\ \A f \in Got(m) : f \in Events
  BY <1>2 DEF Safe, IInv, TypeOK, HistoryOK, Got
<1>5. /\ e \in log'[p]
      /\ \A m \in Nodes, r \in Records :
            \/ rows'[m][r] = rows[m][r]
            \/ m = p /\ r = e.row /\ rows'[m][r] = e.val
  BY <1>2, <1>3 DEF Safe, IInv, TypeOK
<1>u. \A m : Unfinished(m)' = Unfinished(m)
  BY <1>2 DEF Unfinished
<1>6. EventsKnown'
  <2>1. ASSUME NEW m \in Nodes, NEW f \in Got(m)' PROVE f \in log'[f.src]
    <3>1. f.src \in Nodes /\ f \in log[f.src]
      BY <1>1, <1>3, <1>4 DEF AgreeInv, EventsKnown, Events
    <3> QED BY <3>1, <1>4
  <2>2. ASSUME NEW m \in Nodes, NEW i \in queue'[m] PROVE i.event \in log'[m]
    BY <1>2, <1>4 DEF AgreeInv, EventsKnown
  <2> QED BY <2>1, <2>2 DEF EventsKnown, Got
<1>7. OwnTravel'
  <2> SUFFICES ASSUME NEW m \in Nodes, NEW f \in log'[m], NEW q \in Nodes \ {m}, f.src = m
               PROVE  \/ Kept(f, q)'
                      \/ \E w \in Unfinished(m)' : w.step = "enqueue" /\ EventOf(m, w) = f
    BY <1>2 DEF OwnTravel, EventOf
  <2>1. f \in log[m]
    BY <1>1, <1>4
  <2>2. Kept(f, q) => Kept(f, q)'
    BY <1>2, <1>4 DEF Kept, Got
  <2> QED BY <2>1, <2>2, <1>u DEF AgreeInv, OwnTravel
<1>8. LoggedRows'
  <2> SUFFICES ASSUME NEW m \in Nodes, NEW f \in Got(m)' PROVE rows'[m][f.row] # Absent
    BY DEF LoggedRows, Got
  <2>1. CASE f \in Got(m)
    <3>1. f.row \in Records /\ rows[m][f.row] # Absent
      BY <2>1, <1>4 DEF AgreeInv, LoggedRows, Events
    <3> QED BY <3>1, <1>3, <1>5
  <2>2. CASE m = p /\ f = e
    BY <2>2, <1>2, <1>3 DEF Safe, IInv, TypeOK
  <2> QED BY <2>1, <2>2, <1>4
<1>9. RowsTravel'
  <2> SUFFICES ASSUME NEW m \in Nodes, NEW r \in Records, rows'[m][r] # Absent
               PROVE  \/ LoggedAs(m, r, rows[m][r])'
                      \/ \E w \in Unfinished(m)' :
                            /\ w.row = r
                            /\ w.step = "read" \/ (w.step = "record" /\ w.val = rows'[m][r])
    BY <1>2 DEF RowsTravel
  <2>1. CASE rows'[m][r] = rows[m][r]
    <3>1. LoggedAs(m, r, rows[m][r]) => LoggedAs(m, r, rows[m][r])'
      BY <2>1, <1>4 DEF LoggedAs
    <3> QED BY <2>1, <3>1, <1>u DEF AgreeInv, RowsTravel
  <2>2. CASE m = p /\ r = e.row /\ rows'[m][r] = e.val
    BY <2>2, <1>5 DEF LoggedAs
  <2> QED BY <2>1, <2>2, <1>5
<1> QED BY <1>6, <1>7, <1>8, <1>9 DEF AgreeInv

\* A step in which no request is rolled back and no process dies.
LEMMA PlainAgrees ==
    ASSUME Safe, AgreeInv, [Next]_vars, LogGrows, QueueStep, UNCHANGED <<refused, cut>>,
           \A n \in Nodes : ~RejectApply(n) /\ ~Crash(n)
    PROVE  AgreeInv'
<1>1. ASSUME UNCHANGED <<rows, log, tasks>>,
             \A n \in Nodes : \A j \in queue'[n] : \E i \in queue[n] : j.event = i.event
      PROVE  AgreeInv'
  <2>1. \A n \in Nodes : Unfinished(n)' = Unfinished(n)
    BY <1>1 DEF Unfinished
  <2> QED BY <1>1, <2>1, OnlyQueue
<1>2. ASSUME NEW n \in Nodes, NEW r \in Records, NEW v \in Values, Write(n, r, v)
      PROVE  AgreeInv'
  BY <1>2, WriteAgrees
<1>3. ASSUME NEW n \in Nodes, Handler(n) PROVE AgreeInv'
  BY <1>3, ReadPayloadAgrees, CreateEventAgrees, QueueForPeersAgrees DEF Handler
<1>4. ASSUME NEW n \in Nodes, PushLoop(n) PROVE AgreeInv'
  <2>1. ASSUME Poll(n) \/ \E p \in Nodes : Send(n, p) \/ SendInVain(n, p) PROVE AgreeInv'
    BY <1>1, <2>1 DEF Poll, Send, SendInVain
  <2>2. ASSUME Acknowledge(n) PROVE AgreeInv'
    <3>1. /\ UNCHANGED <<rows, log, tasks>>
          /\ \A m \in Nodes : \A j \in queue'[m] : j \in queue[m]
      BY <2>2 DEF Acknowledge, Safe, IInv, TypeOK
    <3> QED BY <3>1, <1>1
  <2>3. ASSUME Fail(n) PROVE AgreeInv'
    <3>1. /\ UNCHANGED <<rows, log, tasks>>
          /\ queue' = [queue EXCEPT ![n] = (@ \ Group(n)) \cup Retried(n)]
      BY <2>3 DEF Fail, Retried
    <3>2. \A m \in Nodes : \A j \in queue'[m] : \E i \in queue[m] : j.event = i.event
      BY <3>1, RetriedItems DEF Safe, IInv, TypeOK
    <3> QED BY <3>1, <3>2, <1>1
  <2> QED BY <1>4, <2>1, <2>2, <2>3 DEF PushLoop
<1>5. ASSUME NEW p \in Nodes, Server(p) PROVE AgreeInv'
  <2>1. ASSUME \/ \E req \in inbox[p] : Receive(p, req)
               \/ \E e \in serving[p].todo : BeginApply(p, e)
               \/ Respond(p)
        PROVE  AgreeInv'
    BY <1>1, <2>1 DEF Receive, BeginApply, Respond
  <2> QED BY <1>5, <2>1, CommitApplyAgrees DEF Server
<1>6. ASSUME NEW n \in Nodes, CatchUp(n) \/ Restart(n) PROVE AgreeInv'
  <2>1. UNCHANGED <<rows, log, tasks, queue>>
    BY <1>6, NothingMerged DEF Safe, CatchUp, FetchFull, SkipCatchUp, ApplyFullSync, Restart
  <2> QED BY <1>1, <2>1
<1>7. CASE UNCHANGED vars
  BY <1>1, <1>7 DEF vars
<1> QED BY <1>2, <1>3, <1>4, <1>5, <1>6, <1>7 DEF Next

LEMMA NextAgrees ==
    ASSUME Safe, AgreeInv, [LossNext]_hvars
    PROVE  AgreeInv'
<1>0. [Next]_vars /\ LogGrows /\ QueueStep
  BY LossNextIsNext, NextSInv DEF Safe
<1>1. ASSUME NEW n \in Nodes, RejectApply(n), UNCHANGED cut,
             refused' = [refused EXCEPT ![n] = @ \cup {serving[n].cur}]
      PROVE  AgreeInv'
  <2>0. serving[n].cur \in log[serving[n].cur.src]
    BY <1>1, ServedKnown DEF RejectApply
  <2>1. \A m \in Nodes : \A e \in refused'[m] :
            e \in refused[m] \/ (rows[m][e.row] # Absent /\ e \in log[e.src])
    BY <1>1, <2>0 DEF RejectApply, Safe, HistoryOK
  <2>2. /\ UNCHANGED <<rows, log, tasks, queue>>
        /\ \A m \in Nodes : Unfinished(m)' = Unfinished(m)
    BY <1>1 DEF RejectApply, Unfinished
  <2>3. \A m \in Nodes : \A j \in queue'[m] : \E i \in queue[m] : j.event = i.event
    BY <2>2
  <2> QED BY <1>0, <2>1, <2>2, <2>3, OnlyQueue
<1>2. ASSUME NEW n \in Nodes, Crash(n), UNCHANGED refused,
             cut' = [cut EXCEPT ![n] = @ \cup tasks[n]]
      PROVE  AgreeInv'
  <2>1. /\ UNCHANGED <<rows, log, queue>>
        /\ \A m \in Nodes : Unfinished(m)' = Unfinished(m)
    BY <1>2 DEF Crash, Unfinished, Safe, IInv, TypeOK, HistoryOK
  <2>2. \A m \in Nodes : \A j \in queue'[m] : \E i \in queue[m] : j.event = i.event
    BY <2>1
  <2> QED BY <1>0, <1>2, <2>1, <2>2, OnlyQueue
<1>3. ASSUME \A n \in Nodes : ~RejectApply(n) /\ ~Crash(n), UNCHANGED <<refused, cut>>
      PROVE  AgreeInv'
  BY <1>0, <1>3, PlainAgrees
<1>4. ASSUME UNCHANGED hvars PROVE AgreeInv'
  <2>1. \A n \in Nodes : Unfinished(n)' = Unfinished(n)
    BY <1>4 DEF hvars, vars, Unfinished
  <2>2. \A m \in Nodes : \A j \in queue'[m] : \E i \in queue[m] : j.event = i.event
    BY <1>4 DEF hvars, vars
  <2> QED BY <1>0, <1>4, <2>1, <2>2, OnlyQueue DEF hvars, vars
<1> QED BY <1>1, <1>2, <1>3, <1>4 DEF LossNext

\* Without queue items and handlers, an event that n has not dealt with was lost
\* with its handler.
LEMMA Lacking ==
    ASSUME Safe, AgreeInv, Quiescent, NEW m \in Nodes, NEW n \in Nodes,
           NEW e \in log[m], e \notin Got(n)
    PROVE  /\ e.src \in Nodes
           /\ \E t \in cut[e.src] : t.id = e.id /\ t.row = e.row
<1>1. e.src \in Nodes /\ e \in log[e.src]
  BY DEF AgreeInv, EventsKnown, Safe, IInv, TypeOK, Events, Got
<1>2. queue[e.src] = {} /\ tasks[e.src] = {}
  BY <1>1 DEF Quiescent
<1>3. e.src # n
  BY <1>1 DEF Got
<1>4. ~Kept(e, n)
  BY <1>2 DEF Kept
<1>5. PICK t \in Unfinished(e.src) : EventOf(e.src, t) = e
  BY <1>1, <1>3, <1>4 DEF AgreeInv, OwnTravel
<1>6. t \in cut[e.src] /\ t.id = e.id /\ t.row = e.row
  BY <1>2, <1>5 DEF Unfinished, EventOf
<1> QED BY <1>1, <1>6

LEMMA QuiescentAgrees == Safe /\ AgreeInv => DeliveredAgree
<1> SUFFICES ASSUME Safe, AgreeInv, Quiescent, NEW m \in Nodes, NEW n \in Nodes
             PROVE  /\ \A e \in log[m] \ log[n] : e \in refused[n] \/ CutOff(e.src, e.id)
                    /\ \A r \in Records : rows[m][r] # rows[n][r] =>
                          \/ \E k \in Nodes : \E t \in cut[k] : t.row = r
                          \/ LoggedAs(m, r, rows[m][r]) /\ LoggedAs(n, r, rows[n][r])
  BY DEF DeliveredAgree
<1>1. \A e \in log[m] \ log[n] : e \in refused[n] \/ CutOff(e.src, e.id)
  BY Lacking DEF Got, CutOff
<1>2. ASSUME NEW r \in Records, rows[m][r] # rows[n][r],
             \A k \in Nodes : \A t \in cut[k] : t.row # r
      PROVE  LoggedAs(m, r, rows[m][r]) /\ LoggedAs(n, r, rows[n][r])
  <2>1. \A j \in {m, n} : rows[j][r] # Absent => LoggedAs(j, r, rows[j][r])
    BY <1>2 DEF AgreeInv, RowsTravel, Quiescent, Unfinished
  <2>2. ASSUME NEW j \in {m, n}, NEW k \in {m, n}, rows[j][r] # Absent
        PROVE  rows[k][r] # Absent
    <3>1. PICK e \in log[j] : e.row = r
      BY <2>1, <2>2 DEF LoggedAs
    <3>2. e \in Got(k)
      BY <3>1, <1>2, Lacking
    <3> QED BY <3>1, <3>2 DEF AgreeInv, LoggedRows
  <2> QED BY <1>2, <2>1, <2>2
<1> QED BY <1>1, <1>2

\* Once everything is delivered, an event that a node lacks was rolled back by
\* that node or lost with its handler, and rows differ only where a crash cut
\* off a change, or as the contents of two events.
THEOREM NodesAgree == LossSpec => []DeliveredAgree
<1>1. LossInit => AgreeInv
  BY DEF LossInit, Init, AgreeInv, EventsKnown, OwnTravel, LoggedRows, RowsTravel, Got
<1>2. Safe /\ AgreeInv /\ [LossNext]_hvars => AgreeInv'
  BY NextAgrees
<1>3. Safe /\ AgreeInv => DeliveredAgree
  BY QuiescentAgrees
<1> QED BY <1>1, <1>2, <1>3, AlwaysSafe, PTL DEF LossSpec

=============================================================================
