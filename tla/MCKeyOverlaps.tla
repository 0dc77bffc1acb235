--------------------------- MODULE MCKeyOverlaps ---------------------------
(* Instances of KeyManager with its history for TLC. *)
EXTENDS KeyOverlaps, TLC

\* Files, threads and storage nodes are interchangeable.
KeySymmetry ==
    Permutations(Files) \cup Permutations(Threads) \cup Permutations(StorageNodes)

=============================================================================
