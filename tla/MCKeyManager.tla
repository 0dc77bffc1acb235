---------------------------- MODULE MCKeyManager ----------------------------
(* Instances of KeyManager for TLC. *)
EXTENDS KeyManager, TLC

\* Files, threads and storage nodes are interchangeable.
KeySymmetry ==
    Permutations(Files) \cup Permutations(Threads) \cup Permutations(StorageNodes)

=============================================================================
