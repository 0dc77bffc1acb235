-------------------------- MODULE KeyManagerProofs --------------------------
(***************************************************************************)
(* What holds of KeyManager for every number of storage nodes, files,      *)
(* worker threads and seconds.                                             *)
(*                                                                         *)
(* The argument: a row of encryption_keys is never removed and never       *)
(* rewritten (WrappedKept), so whatever a call has read of it stays true   *)
(* while other calls run.  IInv adds to the properties what a call knows   *)
(* of the key it holds at each of its labels.                              *)
(***************************************************************************)
EXTENDS KeyManager, TLAPS

\* An active key has a row.
ActiveWrapped == \A k \in active : wrapped[k] \in Deks

\* What is cached for a node is a key of that node.
CacheOfNode == \A n \in StorageNodes : cache[n] # None => cache[n].key[1] = n

\* A stored file carries a key of its own node.
FilesOfNode == \A f \in Files : IsRow(f) => stored[f].key[1] = stored[f].node

\* What a call holds at each label: it works on a node, it has been handed a
\* key of that node, its transaction touches only rows of the node.
CallOK(p) ==
    LET c == frame[p] IN
    /\ c.pc \notin {"idle", "round"} => c.node \in StorageNodes
    /\ c.pc \notin {"idle", "round", "lookup", "hit", "snapshot"} =>
          c.got \in Pairs /\ c.got.key[1] = c.node
    /\ c.pc \in {"lock", "insert"} => \A k \in c.rows : k[1] = c.node
    /\ c.pc \in {"fill", "publish"} => wrapped[c.got.key] = c.got.dek
    /\ c.pc \in {"reload", "load", "reencrypt", "store"} => wrapped[c.got.key] \in Deks

\* What a download knows: the row it loaded names a key row of its node, so
\* the node has an active key and the download never has to generate one.
DownloadOK(p) ==
    LET c == frame[p] IN
    c.op = "download" =>
        /\ c.pc \in {"lookup", "hit", "fill", "decrypt"}
        /\ c.seen \in Pairs
        /\ wrapped[c.seen.key] \in Deks
        /\ c.seen.key[1] = c.node
        /\ c.pc = "decrypt" => wrapped[c.got.key] = c.got.dek

IInv ==
    /\ TypeOK
    /\ ActiveWrapped
    /\ CacheMatchesRecord
    /\ CacheOfNode
    /\ FilesHaveKeys
    /\ FilesOfNode
    /\ SomeKeyActive
    /\ \A p \in Procs : CallOK(p)
    /\ \A p \in Procs : DownloadOK(p)

-----------------------------------------------------------------------------
\* Where a call goes with its key.
LEMMA AfterKeyLabel ==
    ASSUME NEW op
    PROVE  /\ AfterKey(op) \in {"store", "decrypt", "load"}
           /\ AfterKey(op) = "decrypt" <=> op = "download"
BY DEF AfterKey

\* A call that rests keeps what it knows as long as no key row is changed.
LEMMA RestingCall ==
    ASSUME NEW q \in Procs, CallOK(q), DownloadOK(q), frame'[q] = frame[q],
           frame[q] \in Frames,
           \A k \in KeyIds : wrapped[k] # None => wrapped'[k] = wrapped[k]
    PROVE  CallOK(q)' /\ DownloadOK(q)'
BY NoneAssumption DEF CallOK, DownloadOK, Pairs, NoPair, Frames

\* A step of one call keeps IInv if it keeps the tables in order, changes no
\* key row that is there, and knows afterwards what IInv says of that call.
LEMMA StepOfCall ==
    ASSUME IInv, NEW p \in Procs,
           TypeOK', ActiveWrapped', CacheMatchesRecord', CacheOfNode', FilesHaveKeys',
           FilesOfNode', SomeKeyActive',
           \A k \in KeyIds : wrapped[k] # None => wrapped'[k] = wrapped[k],
           \A q \in Procs \ {p} : frame'[q] = frame[q],
           CallOK(p)', DownloadOK(p)'
    PROVE  IInv'
<1>1. ASSUME NEW q \in Procs PROVE CallOK(q)' /\ DownloadOK(q)'
  <2>1. CASE q = p
    BY <2>1
  <2>2. CASE q # p
    BY <2>2, RestingCall DEF IInv, TypeOK
  <2> QED BY <2>1, <2>2
<1> QED BY <1>1 DEF IInv

\* A step that moves one call and leaves tables and cache alone.
LEMMA FrameStep ==
    ASSUME IInv, NEW p \in Procs,
           frame' \in [Procs -> Frames],
           \A q \in Procs \ {p} : frame'[q] = frame[q],
           UNCHANGED <<now, wrapped, active, stored, cache>>,
           round' \in SUBSET StorageNodes,
           CallOK(p)', DownloadOK(p)'
    PROVE  IInv'
<1>1. TypeOK'
  BY DEF IInv, TypeOK
<1>2. /\ ActiveWrapped' /\ CacheMatchesRecord' /\ CacheOfNode'
      /\ FilesHaveKeys' /\ FilesOfNode' /\ SomeKeyActive'
  BY DEF IInv, ActiveWrapped, CacheMatchesRecord, CacheOfNode, FilesHaveKeys, FilesOfNode,
         SomeKeyActive, IsRow, ActiveKeys
<1> QED BY <1>1, <1>2, StepOfCall

\* The state of a finished call says nothing.
LEMMA IdleFrame ==
    ASSUME NEW p \in Procs
    PROVE  /\ Idle \in Frames
           /\ Return(p) \in Frames
           /\ Return(p).pc \in {"idle", "round"}
           /\ Return(p).op = "none"
BY DEF Idle, Return, Frames, Labels, NoPair

LEMMA FinishedCall ==
    ASSUME NEW p \in Procs, frame'[p].op = "none", frame'[p].pc \in {"idle", "round"}
    PROVE  CallOK(p)' /\ DownloadOK(p)'
BY DEF CallOK, DownloadOK

-----------------------------------------------------------------------------
\* get_active_key

LEMMA LookupKeeps ==
    ASSUME IInv, NEW p \in Procs, Lookup(p)
    PROVE  IInv'
<1> DEFINE n == frame[p].node
<1>1. /\ n \in StorageNodes /\ frame[p] \in Frames /\ frame \in [Procs -> Frames]
      /\ CallOK(p) /\ DownloadOK(p) /\ frame[p].pc = "lookup"
  BY DEF IInv, TypeOK, CallOK, Lookup, At
<1>2. CASE Goto(p, "hit")
  <2>1. frame' \in [Procs -> Frames] /\ \A q \in Procs \ {p} : frame'[q] = frame[q]
    BY <1>1, <1>2 DEF Frames, Labels, Goto
  <2>2. CallOK(p)' /\ DownloadOK(p)'
    BY <1>1, <1>2 DEF CallOK, DownloadOK, Frames, Lookup, Goto
  <2> QED BY <2>1, <2>2, FrameStep DEF Lookup, IInv, TypeOK
<1>3. CASE \E k \in ActiveKeys(n) :
               frame' = [frame EXCEPT ![p].got = [key |-> k, dek |-> wrapped[k]],
                                      ![p].pc = "fill"]
  <2>1. PICK k \in ActiveKeys(n) :
               frame' = [frame EXCEPT ![p].got = [key |-> k, dek |-> wrapped[k]],
                                      ![p].pc = "fill"]
    BY <1>3
  <2>2. k \in KeyIds /\ wrapped[k] \in Deks
    BY DEF IInv, TypeOK, ActiveWrapped, ActiveKeys
  <2>3. frame' \in [Procs -> Frames] /\ \A q \in Procs \ {p} : frame'[q] = frame[q]
    BY <1>1, <2>1, <2>2 DEF Frames, Labels, Pairs
  <2>4. CallOK(p)' /\ DownloadOK(p)'
    BY <1>1, <2>1, <2>2 DEF CallOK, DownloadOK, Frames, Pairs, ActiveKeys, Lookup
  <2> QED BY <2>3, <2>4, FrameStep DEF Lookup, IInv, TypeOK
<1>4. CASE ActiveKeys(n) = {} /\ Goto(p, "snapshot")
  <2>1. frame' \in [Procs -> Frames] /\ \A q \in Procs \ {p} : frame'[q] = frame[q]
    BY <1>1, <1>4 DEF Frames, Labels, Goto
  <2>2. frame[p].op # "download"
    BY <1>1, <1>4, NoneAssumption DEF DownloadOK, IInv, SomeKeyActive, Pairs
  <2>3. CallOK(p)' /\ DownloadOK(p)'
    BY <1>1, <1>4, <2>2 DEF CallOK, DownloadOK, Frames, Lookup, Goto
  <2> QED BY <2>1, <2>3, FrameStep DEF Lookup, IInv, TypeOK
<1> QED BY <1>2, <1>3, <1>4 DEF Lookup

LEMMA HitKeeps ==
    ASSUME IInv, NEW p \in Procs, Hit(p)
    PROVE  IInv'
<1> DEFINE n == frame[p].node
           entry == cache[n]
<1>1. /\ n \in StorageNodes /\ frame[p] \in Frames /\ frame \in [Procs -> Frames]
      /\ CallOK(p) /\ DownloadOK(p) /\ frame[p].pc = "hit"
  BY DEF IInv, TypeOK, CallOK, Hit, At
<1>2. CASE /\ entry # None
           /\ frame' = [frame EXCEPT ![p].got = entry, ![p].pc = AfterKey(frame[p].op)]
  <2>1. entry \in Pairs /\ wrapped[entry.key] = entry.dek /\ entry.key[1] = n
    BY <1>1, <1>2 DEF IInv, TypeOK, CacheMatchesRecord, CacheOfNode
  <2>2. frame' \in [Procs -> Frames] /\ \A q \in Procs \ {p} : frame'[q] = frame[q]
    BY <1>1, <1>2, <2>1, AfterKeyLabel DEF Frames, Labels
  <2>3. /\ frame'[p].got = entry /\ frame'[p].pc = AfterKey(frame[p].op)
        /\ frame'[p].op = frame[p].op /\ frame'[p].node = n /\ frame'[p].seen = frame[p].seen
    BY <1>1, <1>2 DEF Frames
  <2>4. CallOK(p)' /\ DownloadOK(p)'
    BY <1>1, <2>1, <2>3, AfterKeyLabel DEF CallOK, DownloadOK, Pairs, Hit
  <2> QED BY <2>2, <2>4, FrameStep DEF Hit, IInv, TypeOK
<1>3. CASE frame' = [frame EXCEPT ![p] = Idle]
  <2>1. /\ frame' \in [Procs -> Frames] /\ \A q \in Procs \ {p} : frame'[q] = frame[q]
        /\ frame'[p].op = "none" /\ frame'[p].pc = "idle"
    BY <1>1, <1>3, IdleFrame DEF Idle
  <2> QED BY <2>1, FinishedCall, FrameStep DEF Hit, IInv, TypeOK
<1> QED BY <1>2, <1>3 DEF Hit

\* The pair a call caches is the row it read or committed.
LEMMA CachingKeeps ==
    ASSUME IInv, NEW p \in Procs, frame[p].pc \in {"fill", "publish"},
           cache' = [cache EXCEPT ![frame[p].node] = frame[p].got],
           UNCHANGED <<now, wrapped, active, stored, round>>,
           frame' \in [Procs -> Frames],
           \A q \in Procs \ {p} : frame'[q] = frame[q],
           CallOK(p)', DownloadOK(p)'
    PROVE  IInv'
<1>1. frame[p].node \in StorageNodes /\ frame[p].got \in Pairs
      /\ wrapped[frame[p].got.key] = frame[p].got.dek
      /\ frame[p].got.key[1] = frame[p].node
  BY DEF IInv, CallOK
<1>2. TypeOK' /\ CacheMatchesRecord' /\ CacheOfNode'
  BY <1>1 DEF IInv, TypeOK, CacheMatchesRecord, CacheOfNode
<1>3. ActiveWrapped' /\ FilesHaveKeys' /\ FilesOfNode' /\ SomeKeyActive'
  BY DEF IInv, ActiveWrapped, FilesHaveKeys, FilesOfNode, SomeKeyActive, IsRow, ActiveKeys
<1> QED BY <1>2, <1>3, StepOfCall

LEMMA FillKeeps ==
    ASSUME IInv, NEW p \in Procs, Fill(p)
    PROVE  IInv'
<1>1. frame[p] \in Frames /\ frame \in [Procs -> Frames] /\ frame[p].pc = "fill"
  BY DEF IInv, TypeOK, Fill, At
<1>2. frame' \in [Procs -> Frames] /\ \A q \in Procs \ {p} : frame'[q] = frame[q]
  BY <1>1, AfterKeyLabel DEF Fill, Goto, Frames, Labels
<1>3. CallOK(p)
  BY DEF IInv
<1>4. frame[p].got \in Pairs /\ wrapped \in [KeyIds -> Deks \cup {None}]
      /\ wrapped[frame[p].got.key] \in Deks
  BY <1>1, <1>3 DEF CallOK, IInv, TypeOK, Pairs
<1>5. CallOK(p)' /\ DownloadOK(p)'
  BY <1>1, <1>3, <1>4, AfterKeyLabel DEF CallOK, DownloadOK, IInv, Frames, Pairs, Fill, Goto
<1> QED BY <1>1, <1>2, <1>5, CachingKeeps DEF Fill

-----------------------------------------------------------------------------
\* generate_node_key

LEMMA SnapshotKeeps ==
    ASSUME IInv, NEW p \in Procs, Snapshot(p)
    PROVE  IInv'
<1> DEFINE k == <<frame[p].node, now>>
<1>1. /\ frame[p] \in Frames /\ frame \in [Procs -> Frames] /\ frame[p].pc = "snapshot"
      /\ frame[p].node \in StorageNodes /\ active \in SUBSET KeyIds
      /\ CallOK(p) /\ DownloadOK(p)
  BY DEF IInv, TypeOK, CallOK, Snapshot, At
<1>2. k \in KeyIds /\ <<k, p>> \in Deks
  BY <1>1 DEF IInv, TypeOK, KeyIds, Deks
<1>3. /\ frame' \in [Procs -> Frames]
      /\ \A q \in Procs \ {p} : frame'[q] = frame[q]
  BY <1>1, <1>2 DEF Snapshot, Frames, Labels, Pairs, ActiveKeys
<1>4. CallOK(p)' /\ DownloadOK(p)'
  BY <1>1, <1>2 DEF CallOK, DownloadOK, Snapshot, Frames, Pairs, ActiveKeys
<1> QED BY <1>1, <1>3, <1>4, FrameStep DEF Snapshot, IInv, TypeOK

LEMMA DeactivateKeeps ==
    ASSUME IInv, NEW p \in Procs, Deactivate(p)
    PROVE  IInv'
<1>1. /\ frame[p] \in Frames /\ frame \in [Procs -> Frames] /\ frame[p].pc = "lock"
      /\ CallOK(p) /\ DownloadOK(p)
  BY DEF IInv, TypeOK, Deactivate, At
<1>2. /\ frame' \in [Procs -> Frames]
      /\ \A q \in Procs \ {p} : frame'[q] = frame[q]
  BY <1>1 DEF Deactivate, Frames, Labels
<1>3. CallOK(p)' /\ DownloadOK(p)'
  BY <1>1 DEF CallOK, DownloadOK, Deactivate, Frames
<1> QED BY <1>1, <1>2, <1>3, FrameStep DEF Deactivate, IInv, TypeOK

LEMMA CommitKeyKeeps ==
    ASSUME IInv, NEW p \in Procs, CommitKey(p)
    PROVE  IInv'
<1> DEFINE new == frame[p].got
<1>1. /\ frame[p] \in Frames /\ frame \in [Procs -> Frames] /\ frame[p].pc = "insert"
      /\ new.key \in KeyIds /\ new.dek \in Deks /\ new \in Pairs
      /\ wrapped \in [KeyIds -> Deks \cup {None}] /\ wrapped[new.key] = None
      /\ CallOK(p) /\ DownloadOK(p)
  BY DEF IInv, TypeOK, CallOK, CommitKey, At, Pairs
<1>2. /\ wrapped' \in [KeyIds -> Deks \cup {None}] /\ wrapped'[new.key] = new.dek
      /\ \A k \in KeyIds : wrapped[k] # None => wrapped'[k] = wrapped[k]
  BY <1>1 DEF CommitKey
<1>3. /\ frame' \in [Procs -> Frames]
      /\ \A q \in Procs \ {p} : frame'[q] = frame[q]
  BY <1>1 DEF CommitKey, Frames, Labels
<1>4. TypeOK'
  BY <1>1, <1>2, <1>3 DEF IInv, TypeOK, CommitKey
<1>5. ActiveWrapped'
  BY <1>1, <1>2, NoneAssumption DEF IInv, TypeOK, ActiveWrapped, CommitKey
<1>6. CacheMatchesRecord' /\ CacheOfNode'
  BY <1>1, <1>2, NoneAssumption
     DEF IInv, TypeOK, Pairs, CacheMatchesRecord, CacheOfNode, CommitKey
<1>7. FilesHaveKeys' /\ FilesOfNode'
  BY <1>1, <1>2, NoneAssumption
     DEF IInv, TypeOK, FileRow, FilesHaveKeys, FilesOfNode, IsRow, CommitKey
<1>8. SomeKeyActive'
  <2> SUFFICES ASSUME NEW n \in StorageNodes,
                      NEW k \in KeyIds, k[1] = n, wrapped'[k] # None
               PROVE  ActiveKeys(n)' # {}
    BY DEF SomeKeyActive
  <2>1. CASE n = new.key[1]
    BY <2>1 DEF ActiveKeys, CommitKey
  <2>2. CASE n # new.key[1]
    <3>1. wrapped[k] # None
      BY <1>1, <2>2 DEF CommitKey
    <3>2. PICK l \in active : l[1] = n
      BY <3>1 DEF IInv, SomeKeyActive, ActiveKeys
    <3>3. l \notin frame[p].rows
      BY <1>1, <2>2, <3>2 DEF CallOK
    <3> QED BY <3>2, <3>3 DEF ActiveKeys, CommitKey
  <2> QED BY <2>1, <2>2
<1>9. CallOK(p)' /\ DownloadOK(p)'
  BY <1>1, <1>2 DEF CallOK, DownloadOK, CommitKey, Frames, Pairs
<1> QED BY <1>2, <1>3, <1>4, <1>5, <1>6, <1>7, <1>8, <1>9, StepOfCall

\* A call that fails or returns leaves no trace in tables and cache.
LEMMA ReturnKeeps ==
    ASSUME IInv, NEW p \in Procs, frame' = [frame EXCEPT ![p] = Return(p)],
           UNCHANGED <<now, wrapped, active, stored, cache>>,
           round' \in SUBSET StorageNodes
    PROVE  IInv'
<1>1. frame \in [Procs -> Frames]
  BY DEF IInv, TypeOK
<1>2. /\ frame' \in [Procs -> Frames]
      /\ \A q \in Procs \ {p} : frame'[q] = frame[q]
      /\ frame'[p] = Return(p)
  BY <1>1, IdleFrame
<1>3. CallOK(p)' /\ DownloadOK(p)'
  BY <1>2, IdleFrame, FinishedCall
<1> QED BY <1>2, <1>3, FrameStep

LEMMA FailKeeps ==
    ASSUME IInv, NEW p \in Procs, Fail(p), UNCHANGED <<now, wrapped, active, stored, cache>>
    PROVE  IInv'
BY ReturnKeeps DEF Fail, IInv, TypeOK

LEMMA PublishKeeps ==
    ASSUME IInv, NEW p \in Procs, Publish(p)
    PROVE  IInv'
<1>1. /\ frame[p] \in Frames /\ frame \in [Procs -> Frames] /\ frame[p].pc = "publish"
      /\ wrapped \in [KeyIds -> Deks \cup {None}]
      /\ CallOK(p) /\ DownloadOK(p)
  BY DEF IInv, TypeOK, Publish, At
<1>2. frame' \in [Procs -> Frames] /\ \A q \in Procs \ {p} : frame'[q] = frame[q]
  BY <1>1 DEF Publish, Goto, Frames, Labels
<1>3. CallOK(p)' /\ DownloadOK(p)'
  BY <1>1 DEF CallOK, DownloadOK, Frames, Pairs, Publish, Goto
<1> QED BY <1>1, <1>2, <1>3, CachingKeeps DEF Publish

LEMMA ReloadKeeps ==
    ASSUME IInv, NEW p \in Procs, Reload(p)
    PROVE  IInv'
<1> DEFINE entry == cache[frame[p].node]
<1>1. /\ frame[p] \in Frames /\ frame \in [Procs -> Frames] /\ frame[p].pc = "reload"
      /\ frame[p].node \in StorageNodes /\ frame[p].got \in Pairs
      /\ CallOK(p) /\ DownloadOK(p)
  BY DEF IInv, TypeOK, Reload, At, CallOK
<1>2. CASE /\ entry # None
           /\ frame' = [frame EXCEPT ![p].got.dek = entry.dek,
                                     ![p].pc = AfterKey(frame[p].op)]
  <2>1. entry.dek \in Deks
    BY <1>1, <1>2 DEF IInv, TypeOK, Pairs
  <2>2. frame' \in [Procs -> Frames] /\ \A q \in Procs \ {p} : frame'[q] = frame[q]
    BY <1>1, <1>2, <2>1, AfterKeyLabel DEF Frames, Labels, Pairs
  <2>3. /\ frame'[p].node = frame[p].node /\ frame'[p].op = frame[p].op
        /\ frame'[p].seen = frame[p].seen /\ frame'[p].pc = AfterKey(frame[p].op)
        /\ frame'[p].got.key = frame[p].got.key /\ frame'[p].got \in Pairs
    BY <1>1, <1>2, <2>1 DEF Frames, Pairs
  <2>4. CallOK(p)' /\ DownloadOK(p)'
    BY <1>1, <2>3, AfterKeyLabel DEF CallOK, DownloadOK, Reload
  <2> QED BY <2>2, <2>4, FrameStep DEF Reload, IInv, TypeOK
<1>3. CASE frame' = [frame EXCEPT ![p] = Return(p)]
  BY <1>3, ReturnKeeps DEF Reload, IInv, TypeOK
<1> QED BY <1>2, <1>3 DEF Reload

-----------------------------------------------------------------------------
\* rotate_key and the scheduler

LEMMA BeginRotationKeeps ==
    ASSUME IInv, NEW p \in Procs, NEW n \in StorageNodes, BeginRotation(p, n),
           UNCHANGED <<now, wrapped, active, stored, cache>>,
           round' \in SUBSET StorageNodes
    PROVE  IInv'
<1>1. /\ frame \in [Procs -> Frames]
      /\ \A k \in ActiveKeys(n) : k \in KeyIds /\ wrapped[k] \in Deks
  BY DEF IInv, TypeOK, ActiveWrapped, ActiveKeys
<1>2. PICK old \in Pairs \cup {NoPair} :
          frame' = [frame EXCEPT ![p] = [Idle EXCEPT !.op = "rotate", !.pc = "snapshot",
                                                     !.node = n, !.seen = old]]
  BY <1>1 DEF BeginRotation, Pairs
<1>3. /\ frame' \in [Procs -> Frames]
      /\ \A q \in Procs \ {p} : frame'[q] = frame[q]
      /\ frame'[p].node = n /\ frame'[p].op = "rotate" /\ frame'[p].pc = "snapshot"
  BY <1>1, <1>2 DEF Frames, Labels, Idle, NoPair
<1>4. CallOK(p)' /\ DownloadOK(p)'
  BY <1>3 DEF CallOK, DownloadOK
<1> QED BY <1>3, <1>4, FrameStep

LEMMA LoadFilesKeeps ==
    ASSUME IInv, NEW p \in Procs, LoadFiles(p)
    PROVE  IInv'
<1>1. /\ frame[p] \in Frames /\ frame \in [Procs -> Frames] /\ frame[p].pc = "load"
      /\ CallOK(p) /\ DownloadOK(p)
  BY DEF IInv, TypeOK, LoadFiles, At
<1>2. CASE frame[p].seen # NoPair
  <2>1. PICK F \in SUBSET Files :
            frame' = [frame EXCEPT ![p].files = F, ![p].pc = "reencrypt"]
    BY <1>2 DEF LoadFiles
  <2>2. frame' \in [Procs -> Frames] /\ \A q \in Procs \ {p} : frame'[q] = frame[q]
    BY <1>1, <2>1 DEF Frames, Labels
  <2>3. CallOK(p)' /\ DownloadOK(p)'
    BY <1>1, <2>1 DEF CallOK, DownloadOK, Frames
  <2> QED BY <2>2, <2>3, FrameStep DEF LoadFiles, IInv, TypeOK
<1>3. CASE frame' = [frame EXCEPT ![p] = Return(p)]
  BY <1>3, ReturnKeeps DEF LoadFiles, IInv, TypeOK
<1> QED BY <1>2, <1>3 DEF LoadFiles

\* Rows written by a call whose key is committed keep the table in order.
LEMMA WritingKeeps ==
    ASSUME IInv, NEW p \in Procs, frame[p].pc \in {"reencrypt", "store"},
           stored' = [f \in Files |-> IF f \in frame[p].files
                                      THEN [node |-> frame[p].node, key |-> frame[p].got.key,
                                            dek |-> frame[p].got.dek]
                                      ELSE stored[f]],
           UNCHANGED <<now, wrapped, active, cache, round>>,
           frame' \in [Procs -> Frames],
           \A q \in Procs \ {p} : frame'[q] = frame[q],
           frame'[p].op = "none", frame'[p].pc \in {"idle", "round"}
    PROVE  IInv'
<1>1. /\ frame[p].node \in StorageNodes /\ frame[p].got \in Pairs
      /\ wrapped[frame[p].got.key] \in Deks /\ frame[p].got.key[1] = frame[p].node
  BY DEF IInv, CallOK
<1>2. stored' \in [Files -> FileRow \cup {None, Gone}]
  BY <1>1 DEF IInv, TypeOK, FileRow, Pairs
<1>3. TypeOK'
  BY <1>2 DEF IInv, TypeOK
<1>4. FilesHaveKeys' /\ FilesOfNode'
  BY <1>1 DEF IInv, FilesHaveKeys, FilesOfNode, IsRow
<1>5. ActiveWrapped' /\ CacheMatchesRecord' /\ CacheOfNode' /\ SomeKeyActive'
  BY DEF IInv, ActiveWrapped, CacheMatchesRecord, CacheOfNode, SomeKeyActive, ActiveKeys
<1>6. CallOK(p)' /\ DownloadOK(p)'
  BY FinishedCall
<1> QED BY <1>3, <1>4, <1>5, <1>6, StepOfCall

LEMMA ReencryptKeeps ==
    ASSUME IInv, NEW p \in Procs, Reencrypt(p)
    PROVE  IInv'
<1>1. frame \in [Procs -> Frames] /\ frame' = [frame EXCEPT ![p] = Return(p)]
  BY DEF IInv, TypeOK, Reencrypt
<1>2. /\ frame' \in [Procs -> Frames]
      /\ \A q \in Procs \ {p} : frame'[q] = frame[q]
      /\ frame'[p].op = "none" /\ frame'[p].pc \in {"idle", "round"}
  BY <1>1, IdleFrame
<1> QED BY <1>2, WritingKeeps DEF Reencrypt, At

LEMMA EndCycleKeeps ==
    ASSUME IInv, EndCycle
    PROVE  IInv'
<1>1. Loop \in Procs /\ frame \in [Procs -> Frames]
  BY DEF Procs, IInv, TypeOK
<1>2. /\ frame' \in [Procs -> Frames]
      /\ \A q \in Procs \ {Loop} : frame'[q] = frame[q]
      /\ frame'[Loop].op = "none" /\ frame'[Loop].pc \in {"idle", "round"}
  BY <1>1, IdleFrame DEF EndCycle, Idle
<1>3. TypeOK' /\ CacheMatchesRecord' /\ CacheOfNode'
  BY <1>2 DEF IInv, TypeOK, CacheMatchesRecord, CacheOfNode, EndCycle
<1>4. ActiveWrapped' /\ FilesHaveKeys' /\ FilesOfNode' /\ SomeKeyActive'
  BY DEF IInv, ActiveWrapped, FilesHaveKeys, FilesOfNode, SomeKeyActive, ActiveKeys, IsRow,
         EndCycle
<1> QED BY <1>1, <1>2, <1>3, <1>4, FinishedCall, StepOfCall DEF EndCycle

LEMMA StartCycleKeeps ==
    ASSUME IInv, StartCycle
    PROVE  IInv'
<1>1. /\ Loop \in Procs /\ frame \in [Procs -> Frames] /\ frame[Loop].pc = "idle"
      /\ CallOK(Loop) /\ DownloadOK(Loop)
  BY DEF Procs, IInv, TypeOK, StartCycle, At
<1>2. /\ frame' \in [Procs -> Frames]
      /\ \A q \in Procs \ {Loop} : frame'[q] = frame[q]
  <2>1. frame' = [frame EXCEPT ![Loop].pc = "round"]
    BY DEF StartCycle, Goto
  <2>2. \A f \in Frames : [f EXCEPT !.pc = "round"] \in Frames
    BY DEF Frames, Labels
  <2> QED BY <1>1, <2>1, <2>2
<1>3. CallOK(Loop)' /\ DownloadOK(Loop)'
  BY <1>1 DEF CallOK, DownloadOK, StartCycle, Goto, Frames
<1>4. round' \in SUBSET StorageNodes
  BY DEF StartCycle, NodesToRotate
<1> QED BY <1>1, <1>2, <1>3, <1>4, FrameStep DEF StartCycle

-----------------------------------------------------------------------------
\* The file routes

LEMMA StartUploadKeeps ==
    ASSUME IInv, NEW n \in StorageNodes, NEW f \in Files, StartUpload(n, f)
    PROVE  IInv'
<1>1. Loop \in Procs /\ frame \in [Procs -> Frames]
  BY DEF Procs, IInv, TypeOK
<1> DEFINE c == [Idle EXCEPT !.op = "upload", !.pc = "lookup", !.node = n, !.files = {f}]
<1>2. c \in Frames /\ c.node = n /\ c.op = "upload" /\ c.pc = "lookup"
  BY DEF Frames, Labels, Idle, NoPair
<1>3. frame' = [frame EXCEPT ![Loop] = c]
  BY DEF StartUpload
<1>4. /\ frame' \in [Procs -> Frames]
      /\ \A q \in Procs \ {Loop} : frame'[q] = frame[q]
      /\ frame'[Loop].node = n /\ frame'[Loop].op = "upload" /\ frame'[Loop].pc = "lookup"
  <2> HIDE DEF c
  <2> QED BY <1>1, <1>2, <1>3
<1>5. CallOK(Loop)' /\ DownloadOK(Loop)'
  BY <1>4 DEF CallOK, DownloadOK
<1> QED BY <1>1, <1>4, <1>5, FrameStep DEF StartUpload, IInv, TypeOK

LEMMA StoreKeeps ==
    ASSUME IInv, NEW p \in Procs, Store(p)
    PROVE  IInv'
<1>1. frame \in [Procs -> Frames] /\ frame' = [frame EXCEPT ![p] = Idle]
  BY DEF IInv, TypeOK, Store
<1>2. /\ frame' \in [Procs -> Frames]
      /\ \A q \in Procs \ {p} : frame'[q] = frame[q]
      /\ frame'[p].op = "none" /\ frame'[p].pc \in {"idle", "round"}
  BY <1>1, IdleFrame DEF Idle
<1> QED BY <1>2, WritingKeeps DEF Store, At

LEMMA StartDownloadKeeps ==
    ASSUME IInv, NEW t \in Threads, NEW f \in Files, StartDownload(t, f)
    PROVE  IInv'
<1>1. /\ t \in Procs /\ frame \in [Procs -> Frames]
      /\ stored[f] \in FileRow /\ wrapped[stored[f].key] \in Deks
      /\ stored[f].key[1] = stored[f].node
  BY DEF Procs, IInv, TypeOK, StartDownload, FilesHaveKeys, FilesOfNode, IsRow
<1>2. /\ frame' \in [Procs -> Frames]
      /\ \A q \in Procs \ {t} : frame'[q] = frame[q]
      /\ frame'[t].node \in StorageNodes /\ frame'[t].pc = "lookup"
      /\ frame'[t].node = stored[f].node
      /\ frame'[t].seen \in Pairs /\ frame'[t].seen.key = stored[f].key
  BY <1>1 DEF StartDownload, Frames, Labels, Idle, NoPair, FileRow, Pairs
<1>3. CallOK(t)' /\ DownloadOK(t)'
  BY <1>1, <1>2 DEF CallOK, DownloadOK, StartDownload
<1> QED BY <1>1, <1>2, <1>3, FrameStep DEF StartDownload, IInv, TypeOK

LEMMA DecryptKeeps ==
    ASSUME IInv, NEW p \in Procs, Decrypt(p)
    PROVE  IInv'
<1>1. frame \in [Procs -> Frames]
  BY DEF IInv, TypeOK
<1>2. /\ frame' \in [Procs -> Frames]
      /\ \A q \in Procs \ {p} : frame'[q] = frame[q]
      /\ frame'[p].op = "none" /\ frame'[p].pc \in {"idle", "round"}
  BY <1>1, IdleFrame DEF Decrypt, Idle
<1> QED BY <1>2, FinishedCall, FrameStep DEF Decrypt, IInv, TypeOK

\* Steps that no call takes.
LEMMA QuietKeeps ==
    ASSUME IInv, UNCHANGED <<wrapped, active, frame>>,
           TypeOK', CacheMatchesRecord', CacheOfNode', FilesHaveKeys', FilesOfNode'
    PROVE  IInv'
BY DEF IInv, ActiveWrapped, SomeKeyActive, ActiveKeys, CallOK, DownloadOK

LEMMA DeleteFileKeeps ==
    ASSUME IInv, NEW f \in Files, DeleteFile(f)
    PROVE  IInv'
<1>1. TypeOK' /\ CacheMatchesRecord' /\ CacheOfNode' /\ FilesHaveKeys' /\ FilesOfNode'
  BY DEF IInv, TypeOK, CacheMatchesRecord, CacheOfNode, FilesHaveKeys, FilesOfNode,
         IsRow, DeleteFile
<1> QED BY <1>1, QuietKeeps DEF DeleteFile

LEMMA TickKeeps ==
    ASSUME IInv, Tick
    PROVE  IInv'
<1>1. TypeOK' /\ CacheMatchesRecord' /\ CacheOfNode' /\ FilesHaveKeys' /\ FilesOfNode'
  BY TimeAssumption
     DEF IInv, TypeOK, CacheMatchesRecord, CacheOfNode, FilesHaveKeys, FilesOfNode, IsRow, Tick
<1> QED BY <1>1, QuietKeeps DEF Tick

LEMMA RestartKeeps ==
    ASSUME IInv, Restart
    PROVE  IInv'
<1>1. frame' \in [Procs -> Frames] /\ \A p \in Procs : frame'[p] = Idle
  BY IdleFrame DEF Restart
<1>2. TypeOK' /\ CacheMatchesRecord' /\ CacheOfNode'
  BY <1>1 DEF IInv, TypeOK, CacheMatchesRecord, CacheOfNode, Restart
<1>3. ActiveWrapped' /\ FilesHaveKeys' /\ FilesOfNode' /\ SomeKeyActive'
  BY DEF IInv, ActiveWrapped, FilesHaveKeys, FilesOfNode, SomeKeyActive, ActiveKeys, IsRow,
         Restart
<1>4. \A p \in Procs : CallOK(p)' /\ DownloadOK(p)'
  BY <1>1, FinishedCall DEF Idle
<1> QED BY <1>2, <1>3, <1>4 DEF IInv

-----------------------------------------------------------------------------
\* Every step keeps IInv.

LEMMA InitIInv == Init => IInv
<1> SUFFICES ASSUME Init PROVE IInv
  OBVIOUS
<1>1. TypeOK
  BY IdleFrame, TimeAssumption DEF Init, TypeOK
<1>2. /\ ActiveWrapped /\ CacheMatchesRecord /\ CacheOfNode
      /\ FilesHaveKeys /\ FilesOfNode /\ SomeKeyActive
  BY DEF Init, ActiveWrapped, CacheMatchesRecord, CacheOfNode, FilesHaveKeys, FilesOfNode,
         SomeKeyActive, IsRow
<1>3. \A p \in Procs : CallOK(p) /\ DownloadOK(p)
  BY DEF Init, CallOK, DownloadOK, Idle
<1> QED BY <1>1, <1>2, <1>3 DEF IInv

LEMMA ContinueKeeps ==
    ASSUME IInv, NEW p \in Procs, Continue(p)
    PROVE  IInv'
<1>1. CASE Lookup(p) \/ Hit(p) \/ Fill(p)
  BY <1>1, LookupKeeps, HitKeeps, FillKeeps
<1>2. CASE Snapshot(p) \/ Deactivate(p) \/ CommitKey(p)
  BY <1>2, SnapshotKeeps, DeactivateKeeps, CommitKeyKeeps
<1>3. CASE KeyClash(p)
  BY <1>3, FailKeeps DEF KeyClash
<1>4. CASE Publish(p) \/ Reload(p)
  BY <1>4, PublishKeeps, ReloadKeeps
<1>5. CASE LoadFiles(p) \/ Reencrypt(p)
  BY <1>5, LoadFilesKeeps, ReencryptKeeps
<1>6. CASE ReencryptStale(p)
  BY <1>6, FailKeeps DEF ReencryptStale
<1>7. CASE Store(p) \/ Decrypt(p)
  BY <1>7, StoreKeeps, DecryptKeeps
<1> QED BY <1>1, <1>2, <1>3, <1>4, <1>5, <1>6, <1>7 DEF Continue

LEMMA NextIInv == IInv /\ [Next]_vars => IInv'
<1> SUFFICES ASSUME IInv, [Next]_vars PROVE IInv'
  OBVIOUS
<1>1. CASE \E p \in Procs : Continue(p)
  BY <1>1, ContinueKeeps
<1>2. CASE \E t \in Threads, n \in StorageNodes : ManualRotation(t, n)
  BY <1>2, BeginRotationKeeps DEF ManualRotation, Procs, IInv, TypeOK
<1>3. CASE \E t \in Threads, f \in Files : StartDownload(t, f)
  BY <1>3, StartDownloadKeeps
<1>4. CASE \E f \in Files : DeleteFile(f)
  BY <1>4, DeleteFileKeeps
<1>5. CASE \E n \in StorageNodes, f \in Files : StartUpload(n, f)
  BY <1>5, StartUploadKeeps
<1>6. CASE StartCycle
  BY <1>6, StartCycleKeeps
<1>7. CASE \E n \in StorageNodes : RotateNext(n)
  BY <1>7, BeginRotationKeeps DEF RotateNext, Procs, IInv, TypeOK
<1>8. CASE EndCycle
  BY <1>8, EndCycleKeeps
<1>9. CASE Tick \/ Restart
  BY <1>9, TickKeeps, RestartKeeps
<1>10. CASE UNCHANGED vars
  <2>1. TypeOK' /\ CacheMatchesRecord' /\ CacheOfNode' /\ FilesHaveKeys' /\ FilesOfNode'
    BY <1>10 DEF IInv, TypeOK, CacheMatchesRecord, CacheOfNode, FilesHaveKeys, FilesOfNode,
                  IsRow, vars
  <2> QED BY <1>10, <2>1, QuietKeeps DEF vars
<1> QED
  BY <1>1, <1>2, <1>3, <1>4, <1>5, <1>6, <1>7, <1>8, <1>9, <1>10 DEF Next

LEMMA AlwaysIInv == Spec => []IInv
BY InitIInv, NextIInv, PTL DEF Spec

-----------------------------------------------------------------------------
\* The tables, the cache and every call in progress keep their types.
THEOREM KeyTypeOK == Spec => []TypeOK
<1>1. IInv => TypeOK
  BY DEF IInv
<1> QED BY <1>1, AlwaysIInv, PTL

\* Whatever calls overlap, a cached (key_id, DEK) is a committed key row.
THEOREM CacheIsCommitted == Spec => []CacheMatchesRecord
<1>1. IInv => CacheMatchesRecord
  BY DEF IInv
<1> QED BY <1>1, AlwaysIInv, PTL

\* The key named by a stored file always has its row.
THEOREM KeysOutliveFiles == Spec => []FilesHaveKeys
<1>1. IInv => FilesHaveKeys
  BY DEF IInv
<1> QED BY <1>1, AlwaysIInv, PTL

\* Deactivation and insertion are one transaction: rotation never leaves a
\* node without an active key.
THEOREM NeverWithoutKey == Spec => []SomeKeyActive
<1>1. IInv => SomeKeyActive
  BY DEF IInv
<1> QED BY <1>1, AlwaysIInv, PTL

\* A download of a readable row ends with its plaintext, or with the KeyError
\* of a cache emptied between its two accesses, whatever rotations, clashes and
\* fills of the cache happen meanwhile (get_active_key, download_file).
THEOREM DownloadsDecrypt == Spec => DownloadDecrypts
<1> DEFINE Ends(t) == /\ frame[t].op = "download"
                      /\ Continue(t)
                      /\ frame'[t].op = "none"
                      /\ wrapped[frame[t].seen.key] = frame[t].seen.dek
           Well(t) == \/ At(t, "decrypt") /\ DecryptDek(t) = frame[t].seen.dek
                      \/ At(t, "hit") /\ cache[frame[t].node] = None
<1>1. ASSUME IInv, NEW t \in Threads, Ends(t) PROVE Well(t)
  <2>0. t \in Procs
    BY DEF Procs
  <2>1. IInv /\ DownloadOK(t)
    BY <1>1, <2>0 DEF IInv
  <2>type. frame[t] \in Frames /\ frame \in [Procs -> Frames]
    BY <2>0, <2>1 DEF IInv, TypeOK
  <2>2. frame[t].pc \in {"lookup", "hit", "fill", "decrypt"}
    BY <1>1, <2>1 DEF DownloadOK
  <2>3. Lookup(t) \/ Hit(t) \/ Fill(t) \/ Decrypt(t)
    BY <1>1, <2>2 DEF Continue, At, Snapshot, Deactivate, CommitKey, KeyClash, Publish, Reload,
                      LoadFiles, Reencrypt, ReencryptStale, Store
  <2>4. CASE Lookup(t)
    <3>1. PICK c : frame' = [frame EXCEPT ![t].got = c, ![t].pc = "fill"] \/ Goto(t, "hit")
                   \/ Goto(t, "snapshot")
      BY <2>4 DEF Lookup
    <3>2. frame'[t].op = frame[t].op
      BY <2>type, <3>1 DEF Goto, Frames
    <3> QED BY <1>1, <3>2
  <2>5. CASE Fill(t)
    <3>1. frame'[t].op = frame[t].op
      BY <2>type, <2>5 DEF Fill, Goto, Frames
    <3> QED BY <1>1, <3>1
  <2>6. CASE Hit(t)
    <3>1. CASE frame' = [frame EXCEPT ![t].got = cache[frame[t].node],
                                      ![t].pc = AfterKey(frame[t].op)]
      <4>1. frame'[t].op = frame[t].op
        BY <2>type, <3>1 DEF Frames
      <4> QED BY <1>1, <4>1
    <3>2. CASE cache[frame[t].node] = None
      BY <2>6, <3>2 DEF Hit
    <3> QED BY <2>6, <3>1, <3>2 DEF Hit
  <2>7. CASE Decrypt(t)
    BY <1>1, <2>1, <2>7 DEF DownloadOK, Decrypt, At, DecryptDek
  <2> QED BY <2>3, <2>4, <2>5, <2>6, <2>7
<1>2. IInv => \A t \in Threads : Ends(t) => Well(t)
  BY <1>1
<1> QED BY <1>2, AlwaysIInv, PTL DEF DownloadDecrypts

=============================================================================
