---------------------------- MODULE MCLoginGuard ----------------------------
(* Instances of LoginGuard for TLC. *)
EXTENDS LoginGuard, TLC

CONSTANTS First, Other  \* one of the servers; a thread of another server

\* One thread runs on a server of its own, all others on the first server.
TwoServers == [t \in Threads |-> IF t = Other THEN CHOOSE n \in Nodes : n # First ELSE First]

\* All threads run on the first server.
OneServer == [t \in Threads |-> First]

LoginSymmetry == Permutations(Threads \ {Other})

=============================================================================
