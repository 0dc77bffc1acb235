---------------------------- MODULE KeyOverlaps ----------------------------
(***************************************************************************)
(* KeyManager with a history: the storage nodes for which two calls have   *)
(* ever been at work on keys at the same time.  Nothing in the code keeps  *)
(* worker threads and event loop apart (key_manager.py takes no lock), so  *)
(* such nodes exist; the properties say what can only be wrong with them.  *)
(***************************************************************************)
EXTENDS KeyManager

VARIABLE
    overlaps  \* storage nodes at which two calls have overlapped

hvars == <<vars, overlaps>>

\* p has read or locked key rows of node n, or drawn a key for it, and has
\* still to write the cache or to read it again (get_active_key:147-156,
\* generate_node_key:99-122, rotate_key:188).
AtWork(p, n) ==
    frame[p].node = n /\ frame[p].pc \in {"fill", "lock", "insert", "publish", "reload"}

Overlapping(n) == \E p, q \in Procs : p # q /\ AtWork(p, n) /\ AtWork(q, n)

OverlapInit == Init /\ overlaps = {}

OverlapNext == Next /\ overlaps' = overlaps \cup {n \in StorageNodes : Overlapping(n)'}

OverlapSpec == OverlapInit /\ [][OverlapNext]_hvars

-----------------------------------------------------------------------------
\* A file that does not decrypt with the key its label names is on a node at
\* which two calls overlapped: uploads, scheduled or manual rotations,
\* deletions, failed commits and crashes never do it one after the other.
UnreadableByOverlap ==
    \A f \in Files :
        IsRow(f) /\ wrapped[stored[f].key] # stored[f].dek => stored[f].node \in overlaps

\* A node gets a second active key only where two calls overlapped.
SecondKeyByOverlap ==
    \A k, l \in active : k[1] = l[1] /\ k # l => k[1] \in overlaps

\* Between rotations, an upload takes a deactivated key from the cache only
\* where two calls overlapped: after a late fill, or a late publication.
StaleCacheByOverlap ==
    \A n \in StorageNodes :
        /\ cache[n] # None
        /\ cache[n].key \notin active
        /\ \A p \in Procs : ~(At(p, "publish") /\ frame[p].node = n)
        => n \in overlaps

=============================================================================
