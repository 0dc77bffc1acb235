------------------------- MODULE KeyOverlapsProofs -------------------------
(***************************************************************************)
(* What the overlap of calls explains: for every number of storage nodes,  *)
(* files, worker threads and seconds, a node at which no two calls have    *)
(* overlapped has readable files, one active key, and that key cached.     *)
(*                                                                         *)
(* The argument: NodeOK(n) says of one node what a call finds unchanged    *)
(* when it uses what it read before.  A step on another node leaves it     *)
(* alone; a step on the node meets no other call at work there.            *)
(***************************************************************************)
EXTENDS KeyOverlaps, KeyManagerProofs

\* What a call still finds as it left it.
CallFits(p) ==
    LET c == frame[p] IN
    /\ c.pc \in {"lock", "insert"} => c.rows = ActiveKeys(c.node)
    /\ c.pc \in {"fill", "publish"} => c.got.key \in active
    /\ c.pc = "reload" => cache[c.node] \in {None, c.got} /\ wrapped[c.got.key] = c.got.dek
    /\ c.pc \in {"load", "reencrypt", "store"} => wrapped[c.got.key] = c.got.dek

Publishing(n) == \E p \in Procs : At(p, "publish") /\ frame[p].node = n

NodeOK(n) ==
    /\ \A f \in Files : IsRow(f) /\ stored[f].node = n => wrapped[stored[f].key] = stored[f].dek
    /\ \A k, l \in ActiveKeys(n) : k = l
    /\ cache[n] = None \/ cache[n].key \in active \/ Publishing(n)
    /\ \A p \in Procs : frame[p].node = n => CallFits(p)

OInv ==
    \A n \in StorageNodes \ overlaps : ~Overlapping(n) /\ NodeOK(n)

-----------------------------------------------------------------------------
\* A key row is never rewritten.
LEMMA CommitKeeps ==
    ASSUME IInv, NEW p \in Procs, CommitKey(p)
    PROVE  \A k \in KeyIds : wrapped[k] # None => wrapped'[k] = wrapped[k]
BY DEF IInv, TypeOK, CommitKey

\* A call whose frame, node, cache entry and keys are as before fits as before.
LEMMA FitsStill ==
    ASSUME IInv, NEW p \in Procs, CallFits(p), frame'[p] = frame[p],
           ActiveKeys(frame[p].node)' = ActiveKeys(frame[p].node),
           frame[p].pc = "reload" => cache'[frame[p].node] \in {None, cache[frame[p].node]},
           \A k \in KeyIds : wrapped[k] # None => wrapped'[k] = wrapped[k]
    PROVE  CallFits(p)'
<1>1. CallOK(p) /\ frame[p] \in Frames
  BY DEF IInv, TypeOK
<1>2. frame[p].pc \in {"fill", "publish", "reload", "load", "reencrypt", "store"}
          => frame[p].got \in Pairs /\ frame[p].got.key[1] = frame[p].node
  BY <1>1 DEF CallOK
<1>3. frame[p].pc \in {"fill", "publish"} => frame[p].got.key \in active'
  <2> HAVE frame[p].pc \in {"fill", "publish"}
  <2>1. frame[p].got.key \in ActiveKeys(frame[p].node)
    BY <1>2 DEF CallFits, ActiveKeys
  <2>2. frame[p].got.key \in ActiveKeys(frame[p].node)'
    BY <2>1
  <2> QED BY <2>2 DEF ActiveKeys
<1>4. frame[p].pc \in {"reload", "load", "reencrypt", "store"}
          => wrapped'[frame[p].got.key] = frame[p].got.dek
  BY <1>2, NoneAssumption DEF CallFits, Pairs
<1>5. frame[p].pc \in {"lock", "insert"} => frame[p].rows = ActiveKeys(frame[p].node)'
  BY DEF CallFits
<1> QED BY <1>3, <1>4, <1>5 DEF CallFits

\* A step that leaves the keys and the cache entry of node n alone.
LEMMA NodeStep ==
    ASSUME IInv, NEW n \in StorageNodes, NodeOK(n),
           ActiveKeys(n)' = ActiveKeys(n), cache'[n] = cache[n],
           \A k \in KeyIds : wrapped[k] # None => wrapped'[k] = wrapped[k],
           \A f \in Files : IsRow(f)' /\ stored'[f].node = n
               => \/ IsRow(f) /\ stored'[f] = stored[f]
                  \/ wrapped'[stored'[f].key] = stored'[f].dek,
           \A q \in Procs : frame'[q].node = n => frame'[q] = frame[q] \/ CallFits(q)',
           \A q \in Procs : At(q, "publish") /\ frame[q].node = n => frame'[q] = frame[q]
    PROVE  NodeOK(n)'
<1>1. ASSUME NEW f \in Files, IsRow(f)', stored'[f].node = n
      PROVE  wrapped'[stored'[f].key] = stored'[f].dek
  <2>1. CASE IsRow(f) /\ stored'[f] = stored[f]
    <3>1. stored[f] \in FileRow /\ wrapped[stored[f].key] = stored[f].dek
      BY <1>1, <2>1 DEF NodeOK, IInv, TypeOK, IsRow
    <3> QED BY <2>1, <3>1, NoneAssumption DEF FileRow
  <2> QED BY <1>1, <2>1
<1>2. cache'[n] = None \/ cache'[n].key \in active' \/ Publishing(n)'
  <2>1. CASE cache[n] # None /\ cache[n].key \in active
    <3>1. cache[n].key \in ActiveKeys(n)
      BY <2>1 DEF ActiveKeys, IInv, CacheOfNode
    <3> QED BY <3>1 DEF ActiveKeys
  <2>2. CASE Publishing(n)
    BY <2>2 DEF Publishing, At
  <2> QED BY <2>1, <2>2 DEF NodeOK
<1>3. ASSUME NEW q \in Procs, frame'[q].node = n PROVE CallFits(q)'
  BY <1>3, FitsStill DEF NodeOK
<1> QED BY <1>1, <1>2, <1>3 DEF NodeOK

\* A call at a label at which it relies on nothing.
LEMMA FitsQuietly ==
    ASSUME NEW p \in Procs,
           frame'[p].pc \in {"idle", "round", "lookup", "hit", "snapshot", "decrypt"}
    PROVE  CallFits(p)'
BY DEF CallFits

\* A step of one call that leaves tables and cache alone.
LEMMA FrameFits ==
    ASSUME IInv, NEW p \in Procs, NEW n \in StorageNodes, NodeOK(n),
           UNCHANGED <<wrapped, active, stored, cache>>,
           \A q \in Procs \ {p} : frame'[q] = frame[q],
           ~At(p, "publish"),
           frame'[p].node = n => CallFits(p)'
    PROVE  NodeOK(n)'
<1>1. ActiveKeys(n)' = ActiveKeys(n) /\ \A f \in Files : IsRow(f)' => IsRow(f)
  BY DEF ActiveKeys, IsRow
<1> QED BY <1>1, NodeStep

LEMMA ReturnFits ==
    ASSUME IInv, NEW p \in Procs, NEW n \in StorageNodes, NodeOK(n),
           UNCHANGED <<wrapped, active, stored, cache>>, ~At(p, "publish"),
           \/ frame' = [frame EXCEPT ![p] = Return(p)]
           \/ frame' = [frame EXCEPT ![p] = Idle]
    PROVE  NodeOK(n)'
<1>1. frame \in [Procs -> Frames]
  BY DEF IInv, TypeOK
<1>2. frame'[p].pc \in {"idle", "round"} /\ \A q \in Procs \ {p} : frame'[q] = frame[q]
  BY <1>1, IdleFrame DEF Idle
<1> QED BY <1>2, FitsQuietly, FrameFits

-----------------------------------------------------------------------------
\* get_active_key

LEMMA LookupFits ==
    ASSUME IInv, NEW p \in Procs, Lookup(p), NEW n \in StorageNodes, NodeOK(n)
    PROVE  NodeOK(n)'
<1> DEFINE m == frame[p].node
<1>1. frame \in [Procs -> Frames] /\ frame[p] \in Frames /\ frame[p].pc = "lookup"
      /\ UNCHANGED <<wrapped, active, stored, cache>>
  BY DEF IInv, TypeOK, Lookup, At
<1>2. CASE Goto(p, "hit") \/ Goto(p, "snapshot")
  <2>1. /\ frame'[p].pc \in {"hit", "snapshot"}
        /\ \A q \in Procs \ {p} : frame'[q] = frame[q]
    BY <1>1, <1>2 DEF Goto, Frames
  <2> QED BY <1>1, <2>1, FitsQuietly, FrameFits DEF At
<1>3. CASE \E k \in ActiveKeys(m) :
               frame' = [frame EXCEPT ![p].got = [key |-> k, dek |-> wrapped[k]],
                                      ![p].pc = "fill"]
  <2>1. PICK k \in ActiveKeys(m) :
               frame' = [frame EXCEPT ![p].got = [key |-> k, dek |-> wrapped[k]],
                                      ![p].pc = "fill"]
    BY <1>3
  <2>2. /\ frame'[p].pc = "fill" /\ frame'[p].got.key \in active
        /\ \A q \in Procs \ {p} : frame'[q] = frame[q]
    BY <1>1, <2>1 DEF ActiveKeys, Frames
  <2>3. CallFits(p)'
    BY <1>1, <2>2 DEF CallFits
  <2> QED BY <1>1, <2>2, <2>3, FrameFits DEF At
<1> QED BY <1>2, <1>3 DEF Lookup

LEMMA HitFits ==
    ASSUME IInv, NEW p \in Procs, Hit(p), NEW n \in StorageNodes, NodeOK(n)
    PROVE  NodeOK(n)'
<1> DEFINE entry == cache[frame[p].node]
<1>1. frame \in [Procs -> Frames] /\ frame[p] \in Frames /\ frame[p].pc = "hit"
      /\ frame[p].node \in StorageNodes /\ UNCHANGED <<wrapped, active, stored, cache>>
  BY DEF IInv, TypeOK, CallOK, Hit, At
<1>2. CASE /\ entry # None
           /\ frame' = [frame EXCEPT ![p].got = entry, ![p].pc = AfterKey(frame[p].op)]
  <2>1. wrapped[entry.key] = entry.dek
    BY <1>1, <1>2 DEF IInv, CacheMatchesRecord
  <2>2. /\ frame'[p].pc = AfterKey(frame[p].op) /\ frame'[p].got = entry
        /\ \A q \in Procs \ {p} : frame'[q] = frame[q]
    BY <1>1, <1>2 DEF Frames
  <2>3. CallFits(p)'
    BY <1>1, <2>1, <2>2, AfterKeyLabel DEF CallFits
  <2> QED BY <1>1, <2>2, <2>3, FrameFits DEF At
<1>3. CASE frame' = [frame EXCEPT ![p] = Idle]
  BY <1>1, <1>3, ReturnFits DEF At
<1> QED BY <1>2, <1>3 DEF Hit

\* A call that writes the cache of its node meets no other call at work there.
LEMMA CachingFits ==
    ASSUME IInv, NEW p \in Procs, Fill(p) \/ Publish(p),
           NEW n \in StorageNodes, NodeOK(n), ~Overlapping(n)
    PROVE  NodeOK(n)'
<1> DEFINE c == frame[p]
           d == frame'[p]
<1>1. /\ frame \in [Procs -> Frames] /\ c \in Frames /\ c.pc \in {"fill", "publish"}
      /\ CallOK(p) /\ c.node \in StorageNodes /\ UNCHANGED <<wrapped, active, stored>>
      /\ cache \in [StorageNodes -> Pairs \cup {None}]
      /\ cache' = [cache EXCEPT ![c.node] = c.got]
      /\ c.got \in Pairs /\ c.got.key[1] = c.node /\ wrapped[c.got.key] = c.got.dek
  BY DEF IInv, TypeOK, CallOK, Fill, Publish, At
<1>2. /\ \A q \in Procs \ {p} : frame'[q] = frame[q]
      /\ d.node = c.node /\ d.got = c.got
      /\ d.pc \in {"store", "decrypt", "load", "reload"}
  BY <1>1, AfterKeyLabel DEF Fill, Publish, Goto, Frames
<1>3. \A k \in StorageNodes : ActiveKeys(k)' = ActiveKeys(k)
  BY <1>1 DEF ActiveKeys
<1>4. \A f \in Files : IsRow(f)' => IsRow(f) /\ stored'[f] = stored[f]
  BY <1>1 DEF IsRow
<1>5. CASE c.node # n
  <2>1. cache'[n] = cache[n]
    BY <1>1, <1>5
  <2> QED BY <1>1, <1>2, <1>3, <1>4, <1>5, <2>1, NodeStep
<1>6. CASE c.node = n
  <2>1. \A q \in Procs \ {p} : ~AtWork(q, n)
    BY <1>1, <1>6 DEF Overlapping, AtWork
  <2>2. cache'[n] = c.got
    BY <1>1, <1>6
  <2>3. CallFits(p)'
    BY <1>1, <1>2, <1>6, <2>2 DEF CallFits
  <2>4. ASSUME NEW q \in Procs, frame'[q].node = n PROVE CallFits(q)'
    <3>1. CASE q # p
      <4>1. CallFits(q) /\ frame'[q] = frame[q] /\ frame[q].pc # "reload"
        BY <1>2, <2>1, <2>4, <3>1 DEF NodeOK, AtWork
      <4>2. ActiveKeys(frame[q].node)' = ActiveKeys(frame[q].node)
        BY <1>3, <2>4, <4>1
      <4> QED BY <1>1, <4>1, <4>2, FitsStill
    <3> QED BY <2>3, <3>1
  <2>5. c.got.key \in active
    BY <1>1, <1>6 DEF NodeOK, CallFits
  <2>6. \A f \in Files : IsRow(f)' /\ stored'[f].node = n => wrapped'[stored'[f].key] = stored'[f].dek
    BY <1>1, <1>4 DEF NodeOK
  <2>7. \A k, l \in ActiveKeys(n)' : k = l
    BY <1>3 DEF NodeOK
  <2> QED BY <1>1, <2>2, <2>4, <2>5, <2>6, <2>7 DEF NodeOK
<1> QED BY <1>5, <1>6

-----------------------------------------------------------------------------
\* generate_node_key

LEMMA GenerateFits ==
    ASSUME IInv, NEW p \in Procs, Snapshot(p) \/ Deactivate(p),
           NEW n \in StorageNodes, NodeOK(n)
    PROVE  NodeOK(n)'
<1> DEFINE c == frame[p]
           d == frame'[p]
<1>1. /\ frame \in [Procs -> Frames] /\ c \in Frames /\ c.pc \in {"snapshot", "lock"}
      /\ UNCHANGED <<wrapped, active, stored, cache>>
  BY DEF IInv, TypeOK, Snapshot, Deactivate, At
<1>2. /\ \A q \in Procs \ {p} : frame'[q] = frame[q]
      /\ d.node = c.node /\ d.pc \in {"lock", "insert"}
  BY <1>1 DEF Snapshot, Deactivate, Frames
<1>3. ASSUME c.node = n PROVE d.rows = ActiveKeys(n)
  <2>1. CASE Snapshot(p)
    BY <1>1, <1>3, <2>1 DEF Snapshot, Frames
  <2>2. CASE Deactivate(p)
    BY <1>1, <1>3, <2>2 DEF Deactivate, At, Frames, NodeOK, CallFits, ActiveKeys
  <2> QED BY <2>1, <2>2
<1>4. d.node = n => CallFits(p)'
  BY <1>1, <1>2, <1>3 DEF CallFits, ActiveKeys
<1> QED BY <1>1, <1>2, <1>4, FrameFits DEF At

\* The transaction deactivates every other key of the node, since no other call
\* is at work there.
LEMMA CommitKeyFits ==
    ASSUME IInv, NEW p \in Procs, CommitKey(p),
           NEW n \in StorageNodes, NodeOK(n), ~Overlapping(n)
    PROVE  NodeOK(n)'
<1> DEFINE c == frame[p]
           d == frame'[p]
<1>1. /\ frame \in [Procs -> Frames] /\ c \in Frames /\ c.pc = "insert"
      /\ CallOK(p) /\ c.node \in StorageNodes /\ UNCHANGED <<stored, cache>>
      /\ c.got \in Pairs /\ c.got.key[1] = c.node /\ c.got.key \in KeyIds
      /\ \A k \in c.rows : k[1] = c.node
      /\ active' = (active \ c.rows) \cup {c.got.key}
  BY DEF IInv, TypeOK, CallOK, CommitKey, At, Pairs
<1>2. /\ \A q \in Procs \ {p} : frame'[q] = frame[q]
      /\ d.node = c.node /\ d.got = c.got /\ d.pc = "publish"
  BY <1>1 DEF CommitKey, Frames
<1>3. \A k \in KeyIds : wrapped[k] # None => wrapped'[k] = wrapped[k]
  BY CommitKeeps
<1>4. \A f \in Files : IsRow(f)' => IsRow(f) /\ stored'[f] = stored[f]
  BY <1>1 DEF IsRow
<1>5. CASE c.node # n
  <2>1. ActiveKeys(n)' = ActiveKeys(n)
    BY <1>1, <1>5 DEF ActiveKeys
  <2> QED BY <1>1, <1>2, <1>3, <1>4, <1>5, <2>1, NodeStep DEF At
<1>6. CASE c.node = n
  <2>1. \A q \in Procs \ {p} : ~AtWork(q, n)
    BY <1>1, <1>6 DEF Overlapping, AtWork
  <2>2. c.rows = ActiveKeys(n)
    BY <1>1, <1>6 DEF NodeOK, CallFits
  <2>3. ActiveKeys(n)' = {c.got.key}
    BY <1>1, <1>6, <2>2 DEF ActiveKeys
  <2>4. ASSUME NEW q \in Procs, frame'[q].node = n PROVE CallFits(q)'
    <3>1. CASE q = p
      BY <1>1, <1>2, <3>1 DEF CallFits
    <3>2. CASE q # p
      <4>1. /\ CallFits(q) /\ frame'[q] = frame[q] /\ CallOK(q)
            /\ frame[q].pc \notin {"fill", "lock", "insert", "publish", "reload"}
        BY <1>2, <2>1, <2>4, <3>2 DEF NodeOK, AtWork, IInv
      <4>2. frame[q].pc \in {"load", "reencrypt", "store"}
                => wrapped'[frame[q].got.key] = frame[q].got.dek
        BY <1>3, <4>1, NoneAssumption DEF CallFits, CallOK, Pairs
      <4> QED BY <4>1, <4>2 DEF CallFits
    <3> QED BY <3>1, <3>2
  <2>5. ASSUME NEW f \in Files, IsRow(f)', stored'[f].node = n
        PROVE  wrapped'[stored'[f].key] = stored'[f].dek
    <3>1. stored[f] \in FileRow /\ wrapped[stored[f].key] = stored[f].dek /\ stored'[f] = stored[f]
      BY <1>4, <2>5 DEF NodeOK, IInv, TypeOK, IsRow
    <3> QED BY <1>3, <3>1, NoneAssumption DEF FileRow
  <2>6. Publishing(n)'
    BY <1>2, <1>6 DEF Publishing, At
  <2> QED BY <2>3, <2>4, <2>5, <2>6 DEF NodeOK
<1> QED BY <1>5, <1>6

LEMMA ReloadFits ==
    ASSUME IInv, NEW p \in Procs, Reload(p), NEW n \in StorageNodes, NodeOK(n)
    PROVE  NodeOK(n)'
<1> DEFINE c == frame[p]
           d == frame'[p]
           entry == cache[c.node]
<1>1. /\ frame \in [Procs -> Frames] /\ c \in Frames /\ c.pc = "reload"
      /\ CallOK(p) /\ c.got \in Pairs /\ UNCHANGED <<wrapped, active, stored, cache>>
  BY DEF IInv, TypeOK, CallOK, Reload, At
<1>2. CASE /\ entry # None
           /\ frame' = [frame EXCEPT ![p].got.dek = entry.dek, ![p].pc = AfterKey(c.op)]
  <2>1. /\ \A q \in Procs \ {p} : frame'[q] = frame[q]
        /\ d.node = c.node /\ d.pc = AfterKey(c.op)
        /\ d.got.key = c.got.key /\ d.got.dek = entry.dek
    BY <1>1, <1>2 DEF Frames, Pairs
  <2>2. d.node = n => CallFits(p)'
    BY <1>1, <1>2, <2>1, AfterKeyLabel DEF NodeOK, CallFits
  <2> QED BY <1>1, <2>1, <2>2, FrameFits DEF At
<1>3. CASE frame' = [frame EXCEPT ![p] = Return(p)]
  BY <1>1, <1>3, ReturnFits DEF At
<1> QED BY <1>2, <1>3 DEF Reload

-----------------------------------------------------------------------------
\* rotate_key and the file routes

LEMMA LoadFilesFits ==
    ASSUME IInv, NEW p \in Procs, LoadFiles(p), NEW n \in StorageNodes, NodeOK(n)
    PROVE  NodeOK(n)'
<1> DEFINE c == frame[p]
           d == frame'[p]
<1>1. /\ frame \in [Procs -> Frames] /\ c \in Frames /\ c.pc = "load"
      /\ UNCHANGED <<wrapped, active, stored, cache>>
  BY DEF IInv, TypeOK, LoadFiles, At
<1>2. CASE c.seen # NoPair
  <2>1. PICK F : frame' = [frame EXCEPT ![p].files = F, ![p].pc = "reencrypt"]
    BY <1>2 DEF LoadFiles
  <2>2. /\ \A q \in Procs \ {p} : frame'[q] = frame[q]
        /\ d.node = c.node /\ d.pc = "reencrypt" /\ d.got = c.got
    BY <1>1, <2>1 DEF Frames
  <2>3. d.node = n => CallFits(p)'
    BY <1>1, <2>2 DEF NodeOK, CallFits
  <2> QED BY <1>1, <2>2, <2>3, FrameFits DEF At
<1>3. CASE frame' = [frame EXCEPT ![p] = Return(p)]
  BY <1>1, <1>3, ReturnFits DEF At
<1> QED BY <1>2, <1>3 DEF LoadFiles

\* Rows written with the key a call was handed.
LEMMA WritingFits ==
    ASSUME IInv, NEW p \in Procs, Reencrypt(p) \/ Store(p),
           NEW n \in StorageNodes, NodeOK(n)
    PROVE  NodeOK(n)'
<1> DEFINE c == frame[p]
<1>1. /\ frame \in [Procs -> Frames] /\ c.pc \in {"reencrypt", "store"}
      /\ UNCHANGED <<wrapped, active, cache>>
      /\ frame' = [frame EXCEPT ![p] = Return(p)] \/ frame' = [frame EXCEPT ![p] = Idle]
      /\ stored' = [f \in Files |-> IF f \in c.files
                                    THEN [node |-> c.node, key |-> c.got.key, dek |-> c.got.dek]
                                    ELSE stored[f]]
  BY DEF IInv, TypeOK, Reencrypt, Store, At
<1>2. frame'[p].pc \in {"idle", "round"} /\ \A q \in Procs \ {p} : frame'[q] = frame[q]
  BY <1>1, IdleFrame DEF Idle
<1>3. ASSUME NEW f \in Files, IsRow(f)', stored'[f].node = n
      PROVE  \/ IsRow(f) /\ stored'[f] = stored[f]
             \/ wrapped'[stored'[f].key] = stored'[f].dek
  <2>1. CASE f \in c.files
    <3>1. /\ stored'[f] = [node |-> c.node, key |-> c.got.key, dek |-> c.got.dek]
          /\ c.node = n
      BY <1>1, <1>3, <2>1
    <3>2. wrapped[c.got.key] = c.got.dek
      BY <1>1, <3>1 DEF NodeOK, CallFits
    <3> QED BY <1>1, <3>1, <3>2
  <2>2. CASE f \notin c.files
    <3>1. stored'[f] = stored[f]
      BY <1>1, <2>2
    <3> QED BY <1>3, <3>1 DEF IsRow
  <2> QED BY <2>1, <2>2
<1>4. ActiveKeys(n)' = ActiveKeys(n)
  BY <1>1 DEF ActiveKeys
<1>5. \A q \in Procs : frame'[q].node = n => frame'[q] = frame[q] \/ CallFits(q)'
  BY <1>2, FitsQuietly
<1>6. \A q \in Procs : At(q, "publish") /\ frame[q].node = n => frame'[q] = frame[q]
  BY <1>1, <1>2 DEF At
<1> QED BY <1>1, <1>3, <1>4, <1>5, <1>6, NodeStep

LEMMA ContinueFits ==
    ASSUME IInv, NEW p \in Procs, Continue(p),
           NEW n \in StorageNodes, NodeOK(n), ~Overlapping(n)
    PROVE  NodeOK(n)'
<1>1. CASE Lookup(p) \/ Hit(p) \/ Fill(p) \/ Publish(p)
  BY <1>1, LookupFits, HitFits, CachingFits
<1>2. CASE Snapshot(p) \/ Deactivate(p) \/ CommitKey(p) \/ Reload(p)
  BY <1>2, GenerateFits, CommitKeyFits, ReloadFits
<1>3. CASE LoadFiles(p) \/ Reencrypt(p) \/ Store(p)
  BY <1>3, LoadFilesFits, WritingFits
<1>4. CASE KeyClash(p) \/ ReencryptStale(p) \/ Decrypt(p)
  <2>1. /\ ~At(p, "publish") /\ UNCHANGED <<wrapped, active, stored, cache>>
        /\ frame' = [frame EXCEPT ![p] = Return(p)] \/ frame' = [frame EXCEPT ![p] = Idle]
    BY <1>4 DEF KeyClash, ReencryptStale, Decrypt, Fail, At
  <2> QED BY <2>1, ReturnFits
<1> QED BY <1>1, <1>2, <1>3, <1>4 DEF Continue

\* A call that starts relies on nothing yet.
LEMMA StartFits ==
    ASSUME IInv, NEW n \in StorageNodes, NodeOK(n),
           \/ \E t \in Threads, m \in StorageNodes : ManualRotation(t, m)
           \/ \E t \in Threads, f \in Files : StartDownload(t, f)
           \/ \E m \in StorageNodes, f \in Files : StartUpload(m, f)
           \/ StartCycle
           \/ \E m \in StorageNodes : RotateNext(m)
    PROVE  NodeOK(n)'
<1>1. frame \in [Procs -> Frames] /\ Loop \in Procs /\ \A t \in Threads : t \in Procs
  BY DEF IInv, TypeOK, Procs
<1>2. PICK p \in Procs :
        /\ UNCHANGED <<wrapped, active, stored, cache>> /\ ~At(p, "publish")
        /\ \E d : /\ frame' = [frame EXCEPT ![p] = d]
                  /\ d.pc \in {"lookup", "round", "snapshot"}
  <2>1. CASE \/ \E t \in Threads, m \in StorageNodes : ManualRotation(t, m)
             \/ \E m \in StorageNodes : RotateNext(m)
    <3>1. PICK p \in Procs, m \in StorageNodes :
            /\ BeginRotation(p, m) /\ ~At(p, "publish")
            /\ UNCHANGED <<wrapped, active, stored, cache>>
      BY <1>1, <2>1 DEF ManualRotation, RotateNext, At
    <3>2. PICK old : frame' = [frame EXCEPT ![p] = [Idle EXCEPT
                        !.op = "rotate", !.pc = "snapshot", !.node = m, !.seen = old]]
      BY <3>1 DEF BeginRotation
    <3>3. [Idle EXCEPT !.op = "rotate", !.pc = "snapshot", !.node = m, !.seen = old].pc
              = "snapshot"
      BY DEF Idle
    <3> QED BY <3>1, <3>2, <3>3
  <2>2. CASE \E t \in Threads, f \in Files : StartDownload(t, f)
    <3>1. PICK t \in Threads, f \in Files : StartDownload(t, f)
      BY <2>2
    <3> DEFINE d == [Idle EXCEPT !.op = "download", !.pc = "lookup", !.node = stored[f].node,
                                 !.files = {f},
                                 !.seen = [key |-> stored[f].key, dek |-> stored[f].dek]]
    <3>2. d.pc = "lookup"
      BY DEF Idle
    <3> QED BY <1>1, <3>1, <3>2 DEF StartDownload, At
  <2>3. CASE \E m \in StorageNodes, f \in Files : StartUpload(m, f)
    <3>1. PICK m \in StorageNodes, f \in Files : StartUpload(m, f)
      BY <2>3
    <3> DEFINE d == [Idle EXCEPT !.op = "upload", !.pc = "lookup", !.node = m, !.files = {f}]
    <3>2. d.pc = "lookup"
      BY DEF Idle
    <3> QED BY <1>1, <3>1, <3>2 DEF StartUpload, At
  <2>4. CASE StartCycle
    <3> DEFINE d == [frame[Loop] EXCEPT !.pc = "round"]
    <3>1. d.pc = "round"
      BY <1>1 DEF Frames
    <3>2. frame' = [frame EXCEPT ![Loop] = d]
      BY <1>1, <2>4 DEF StartCycle, Goto
    <3> QED BY <1>1, <2>4, <3>1, <3>2 DEF StartCycle, At
  <2> QED BY <2>1, <2>2, <2>3, <2>4
<1>3. /\ \A q \in Procs \ {p} : frame'[q] = frame[q]
      /\ frame'[p].pc \in {"lookup", "round", "snapshot"}
  BY <1>1, <1>2
<1> QED BY <1>2, <1>3, FitsQuietly, FrameFits

\* Clearing the cache takes no node's files or keys away.
LEMMA ClearFits ==
    ASSUME IInv, EndCycle \/ Restart, NEW n \in StorageNodes, NodeOK(n)
    PROVE  NodeOK(n)'
<1>1. /\ frame \in [Procs -> Frames] /\ Loop \in Procs
      /\ UNCHANGED <<wrapped, active, stored>> /\ \A m \in StorageNodes : cache'[m] = None
  BY DEF IInv, TypeOK, Procs, EndCycle, Restart
<1>2. ActiveKeys(n)' = ActiveKeys(n)
  BY <1>1 DEF ActiveKeys
<1>3. \A q \in Procs : frame'[q] = frame[q] \/ frame'[q].pc = "idle"
  BY <1>1 DEF EndCycle, Restart, Idle
<1>4. ASSUME NEW q \in Procs, frame'[q].node = n PROVE CallFits(q)'
  <2>1. CASE frame'[q] = frame[q]
    <3>1. CallFits(q) /\ frame[q].node = n
      BY <1>4, <2>1 DEF NodeOK
    <3>2. cache'[frame[q].node] = None /\ ActiveKeys(frame[q].node)' = ActiveKeys(frame[q].node)
      BY <1>1, <1>2, <1>4, <3>1
    <3> QED BY <1>1, <2>1, <3>1, <3>2, FitsStill
  <2> QED BY <1>3, <2>1, FitsQuietly
<1>5. \A f \in Files : IsRow(f)' /\ stored'[f].node = n => wrapped'[stored'[f].key] = stored'[f].dek
  BY <1>1 DEF NodeOK, IsRow
<1> QED BY <1>1, <1>2, <1>4, <1>5 DEF NodeOK

LEMMA QuietFits ==
    ASSUME IInv, (\E f \in Files : DeleteFile(f)) \/ Tick \/ UNCHANGED vars,
           NEW n \in StorageNodes, NodeOK(n)
    PROVE  NodeOK(n)'
<1>1. UNCHANGED <<wrapped, active, cache, frame>>
  BY DEF DeleteFile, Tick, vars
<1>2. \A f \in Files : IsRow(f)' => IsRow(f) /\ stored'[f] = stored[f]
  BY DEF DeleteFile, Tick, vars, IsRow, IInv, TypeOK
<1>3. ActiveKeys(n)' = ActiveKeys(n)
  BY <1>1 DEF ActiveKeys
<1> QED BY <1>1, <1>2, <1>3, NodeStep

LEMMA NextFits ==
    ASSUME IInv, [Next]_vars, NEW n \in StorageNodes, NodeOK(n), ~Overlapping(n)
    PROVE  NodeOK(n)'
<1>1. CASE \E p \in Procs : Continue(p)
  BY <1>1, ContinueFits
<1>2. CASE \/ \E t \in Threads, m \in StorageNodes : ManualRotation(t, m)
           \/ \E t \in Threads, f \in Files : StartDownload(t, f)
           \/ \E m \in StorageNodes, f \in Files : StartUpload(m, f)
           \/ StartCycle
           \/ \E m \in StorageNodes : RotateNext(m)
  BY <1>2, StartFits
<1>3. CASE EndCycle \/ Restart
  BY <1>3, ClearFits
<1>4. CASE (\E f \in Files : DeleteFile(f)) \/ Tick \/ UNCHANGED vars
  BY <1>4, QuietFits
<1> QED BY <1>1, <1>2, <1>3, <1>4 DEF Next

-----------------------------------------------------------------------------
LEMMA OverlapInitInv == OverlapInit => IInv /\ OInv
<1> SUFFICES ASSUME OverlapInit PROVE OInv
  BY InitIInv DEF OverlapInit
<1> QED BY DEF OverlapInit, Init, OInv, NodeOK, Overlapping, AtWork, CallFits, IsRow, Idle,
               ActiveKeys

LEMMA OverlapNextInv == IInv /\ OInv /\ [OverlapNext]_hvars => IInv' /\ OInv'
<1> SUFFICES ASSUME IInv, OInv, [OverlapNext]_hvars PROVE IInv' /\ OInv'
  OBVIOUS
<1>1. [Next]_vars
  BY DEF OverlapNext, hvars
<1>2. overlaps \subseteq overlaps'
  BY DEF OverlapNext, hvars
<1>3. ASSUME NEW n \in StorageNodes \ overlaps' PROVE ~Overlapping(n)' /\ NodeOK(n)'
  <2>1. NodeOK(n) /\ ~Overlapping(n)
    BY <1>2, <1>3 DEF OInv
  <2>2. NodeOK(n)'
    BY <1>1, <2>1, NextFits
  <2>3. CASE OverlapNext
    BY <1>3, <2>2, <2>3 DEF OverlapNext
  <2>4. CASE UNCHANGED hvars
    <3>1. frame' = frame
      BY <2>4 DEF hvars, vars
    <3> QED BY <2>1, <2>2, <3>1 DEF Overlapping, AtWork
  <2> QED BY <2>3, <2>4
<1> QED BY <1>1, <1>3, NextIInv DEF OInv

LEMMA AlwaysOInv == OverlapSpec => [](IInv /\ OInv)
BY OverlapInitInv, OverlapNextInv, PTL DEF OverlapSpec

\* Files become unreadable only on nodes at which two calls have overlapped
\* (rotate_key:188 reading a DEK that another call has put in the cache).
THEOREM OnlyOverlapsLoseFiles == OverlapSpec => []UnreadableByOverlap
<1>1. IInv /\ OInv => UnreadableByOverlap
  BY DEF IInv, TypeOK, OInv, NodeOK, UnreadableByOverlap, FileRow, IsRow
<1> QED BY <1>1, AlwaysOInv, PTL

\* Two active keys are left only on nodes at which two calls have overlapped
\* (generate_node_key:105, whose UPDATE does not see the other's new row).
THEOREM OnlyOverlapsLeaveTwoKeys == OverlapSpec => []SecondKeyByOverlap
<1>1. IInv /\ OInv => SecondKeyByOverlap
  BY DEF IInv, TypeOK, OInv, NodeOK, SecondKeyByOverlap, ActiveKeys, KeyIds
<1> QED BY <1>1, AlwaysOInv, PTL

\* A deactivated key is left in the cache only for nodes at which two calls have
\* overlapped (get_active_key:157, generate_node_key:122).
THEOREM OnlyOverlapsCacheOldKeys == OverlapSpec => []StaleCacheByOverlap
<1>1. IInv /\ OInv => StaleCacheByOverlap
  BY DEF OInv, NodeOK, StaleCacheByOverlap, Publishing
<1> QED BY <1>1, AlwaysOInv, PTL

=============================================================================
