--------------------------- MODULE MCSyncManager ---------------------------
(* Instances of SyncManager for TLC. *)
EXTENDS SyncManager, TLC

CONSTANT First  \* one of the nodes

\* Only the users of the first node write.
FirstWrites == [r \in Records |-> {First}]

\* One record only the users of the first node write, the others all users.
OwnAndShared ==
    LET own == CHOOSE r \in Records : TRUE
    IN  [r \in Records |-> IF r = own THEN {First} ELSE Nodes]

\* The users of every node write every record.
AllWrite == [r \in Records |-> Nodes]

\* Contents of rows are interchangeable.
ValueSymmetry == Permutations(Values)

=============================================================================
