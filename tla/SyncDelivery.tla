---------------------------- MODULE SyncDelivery ----------------------------
(***************************************************************************)
(* What the retry queue promises: an event that is owed to a peer stays    *)
(* owed until that peer has recorded it or has refused it.  A refused      *)
(* event may be offered once more, but nobody has to.                      *)
(***************************************************************************)
CONSTANTS
    Nodes,   \* application servers
    Events   \* sync events, records with a field src

VARIABLES
    known,   \* the events each node has recorded
    owed,    \* pairs <<event, peer>> still to be delivered
    refused  \* the events each node has refused

vars == <<known, owed, refused>>

Init ==
    /\ known = [n \in Nodes |-> {}]
    /\ owed = {}
    /\ refused = [n \in Nodes |-> {}]

\* The source records an event of its own.
Record(e) ==
    /\ e \notin known[e.src]
    /\ known' = [known EXCEPT ![e.src] = @ \cup {e}]
    /\ UNCHANGED <<owed, refused>>

\* From now on every peer is to get it.
Owe(e) ==
    /\ e \in known[e.src]
    /\ owed' = owed \cup {<<e, p>> : p \in {q \in Nodes : q # e.src /\ e \notin known[q] \cup refused[q]}}
    /\ UNCHANGED <<known, refused>>

\* A peer records an event it was owed, or has refused before.
Deliver(e, p) ==
    /\ <<e, p>> \in owed \/ e \in refused[p]
    /\ known' = [known EXCEPT ![p] = @ \cup {e}]
    /\ owed' = owed \ {<<e, p>>}
    /\ UNCHANGED refused

\* A peer refuses an event it is owed.
Refuse(e, p) ==
    /\ <<e, p>> \in owed
    /\ refused' = [refused EXCEPT ![p] = @ \cup {e}]
    /\ owed' = owed \ {<<e, p>>}
    /\ UNCHANGED known

Next ==
    \E e \in Events : Record(e) \/ Owe(e) \/ \E p \in Nodes : Deliver(e, p) \/ Refuse(e, p)

Spec == Init /\ [][Next]_vars

=============================================================================
