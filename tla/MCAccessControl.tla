-------------------------- MODULE MCAccessControl --------------------------
(* Instances of AccessControl for TLC. *)
EXTENDS AccessControl, TLC

CONSTANTS First, Other,  \* one of the servers; a thread of another server
          Known, Origin  \* a user, an address

\* One thread runs on a server of its own, all others on the first server.
TwoServers == [t \in Threads |-> IF t = Other THEN CHOOSE n \in Nodes : n # First ELSE First]

\* Of the other detectors, one that looks at user and address may find something.
OneOther == {[kind |-> "UNKNOWN_SOURCE_IP", addr |-> Origin, user |-> Known, count |-> 0]}

TwoAndOne == [n \in Nodes |-> IF n = First THEN 2 ELSE 1]

\* An alert keeps others back for the rest of its instant.
AtOnce == [k \in Kinds |-> 0]

AccessSymmetry == Permutations(Threads \ {Other})

=============================================================================
