----------------------------- MODULE SyncLosses -----------------------------
(***************************************************************************)
(* SyncManager with a history: the events a node has rolled back, and the  *)
(* handlers that a crash has cut off between two of their commits.  These  *)
(* are the two ways in which a committed change fails to reach a peer      *)
(* although nothing failed for the sender; the properties say that there   *)
(* is no third one.                                                        *)
(***************************************************************************)
EXTENDS SyncManager

VARIABLES
    refused,  \* node -> events it has rolled back
    cut       \* node -> its handlers that a crash ended

hvars == <<vars, refused, cut>>

LossInit ==
    /\ Init
    /\ refused = [n \in Nodes |-> {}]
    /\ cut = [n \in Nodes |-> {}]

LossNext ==
    \/ \E n \in Nodes :
          /\ RejectApply(n)
          /\ refused' = [refused EXCEPT ![n] = @ \cup {serving[n].cur}]
          /\ UNCHANGED cut
    \/ \E n \in Nodes :
          /\ Crash(n)
          /\ cut' = [cut EXCEPT ![n] = @ \cup tasks[n]]
          /\ UNCHANGED refused
    \/ /\ Next
       /\ \A n \in Nodes : ~RejectApply(n) /\ ~Crash(n)
       /\ UNCHANGED <<refused, cut>>

LossSpec == LossInit /\ [][LossNext]_hvars

-----------------------------------------------------------------------------
\* What the queues still have to bring to a peer that has not refused it.
StillOwed == {x \in Owed : x[1] \notin refused[x[2]]}

SD == INSTANCE SyncDelivery WITH known <- log, owed <- StillOwed

\* Crashes, timeouts, duplicated requests, half-done batches and rejected
\* inserts: an event owed to a peer stays owed until the peer has logged it or
\* has rolled it back.
Delivery == SD!Spec

Same(n, id, e) == e.src = n /\ e.id = id

\* The handler of change id of node n died between its commits.
CutOff(n, id) == \E t \in cut[n] : t.id = id

\* Every committed change is on its way to every peer (with its handler or in
\* the queue), or has arrived (logged or rolled back there), or its handler was
\* ended by a crash.
NoLostWrite ==
    \A n \in Nodes : \A id \in 1 .. writes[n], p \in Nodes \ {n} :
        \/ \E t \in tasks[n] : t.id = id
        \/ \E i \in queue[n] : i.to = p /\ Same(n, id, i.event)
        \/ \E e \in log[p] \cup refused[p] : Same(n, id, e)
        \/ CutOff(n, id)

\* n has logged an event about record r with value v.
LoggedAs(n, r, v) == \E e \in log[n] : e.row = r /\ e.val = v

\* Once everything is delivered, an event that a node lacks was rolled back by
\* that node or lost with its handler; and nodes disagree about a record only
\* if a crash cut off a change of it, or if both rows are the contents of
\* events, applied in different orders or refused.
DeliveredAgree ==
    Quiescent =>
        \A m, n \in Nodes :
            /\ \A e \in log[m] \ log[n] : e \in refused[n] \/ CutOff(e.src, e.id)
            /\ \A r \in Records : rows[m][r] # rows[n][r] =>
                  \/ \E k \in Nodes : \E t \in cut[k] : t.row = r
                  \/ LoggedAs(m, r, rows[m][r]) /\ LoggedAs(n, r, rows[n][r])

=============================================================================
