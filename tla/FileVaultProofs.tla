-------------------------- MODULE FileVaultProofs --------------------------
(***************************************************************************)
(* KeyManager implements FileVault for every number of storage nodes,      *)
(* files, worker threads and seconds, manual rotations, deletions, errors  *)
(* and restarts included.                                                  *)
(*                                                                         *)
(* The argument: key rows stay (WrappedKept), so a DEK that a call holds   *)
(* is wrapped for its node by the time it may encrypt with it, even where  *)
(* another call's key has replaced it in the cache.  The files a rotation  *)
(* holds can only be deleted, and the id of an upload is its own.          *)
(***************************************************************************)
EXTENDS KeyManagerProofs

\* What a call knows of the key it encrypts with and of the rows it writes.
HoldsOK(p) ==
    LET c == frame[p] IN
    /\ c.pc \in {"load", "reencrypt", "store"} => c.got.dek \in Wrapped(c.node)
    /\ c.pc = "store" => c.op = "upload"
    /\ c.pc = "load" => c.op # "upload"
    /\ c.op = "upload" => p = Loop /\ \E f \in Files : c.files = {f} /\ stored[f] = None
    /\ c.pc = "reencrypt" => \A f \in c.files :
                                /\ stored[f] # None
                                /\ IsRow(f) => stored[f].node = c.node

VaultInv ==
    /\ FilesRecoverable
    /\ \A p \in Procs : HoldsOK(p)

-----------------------------------------------------------------------------
\* Keys and rows from one step to the next.

\* No key row is removed or rewritten.
WrappedKept == \A k \in KeyIds : wrapped[k] # None => wrapped'[k] = wrapped[k]

\* A row is deleted or rewritten for its node, and an id used stays used.
RowsKept ==
    \A f \in Files : /\ stored[f] # None => stored'[f] # None
                     /\ IsRow(f)' /\ stored[f] # None
                           => IsRow(f) /\ stored'[f].node = stored[f].node

LEMMA WrappedHas ==
    ASSUME NEW k \in KeyIds, wrapped[k] # None
    PROVE  wrapped[k] \in Wrapped(k[1])
BY DEF Wrapped

LEMMA WrappedGrows ==
    ASSUME WrappedKept, NEW n
    PROVE  Wrapped(n) \subseteq Wrapped(n)'
BY DEF WrappedKept, Wrapped

LEMMA WrappedSame ==
    ASSUME wrapped' = wrapped, NEW n
    PROVE  Wrapped(n)' = Wrapped(n)
BY DEF Wrapped

\* A call that rests keeps what it knows; only the event loop uses new ids.
LEMMA HoldsRests ==
    ASSUME NEW q \in Procs, HoldsOK(q), frame'[q] = frame[q], WrappedKept, RowsKept,
           frame[q] \in Frames,
           q = Loop => \A f \in Files : stored[f] = None => stored'[f] = None
    PROVE  HoldsOK(q)'
<1> DEFINE c == frame[q]
<1>1. c.pc \in {"load", "reencrypt", "store"} => c.got.dek \in Wrapped(c.node)'
  BY WrappedGrows DEF HoldsOK
<1>2. c.pc = "reencrypt" => \A f \in c.files : /\ stored'[f] # None
                                               /\ IsRow(f)' => stored'[f].node = c.node
  BY DEF HoldsOK, RowsKept, Frames
<1>3. c.op = "upload" => \E f \in Files : c.files = {f} /\ stored'[f] = None
  BY DEF HoldsOK
<1> QED BY <1>1, <1>2, <1>3 DEF HoldsOK, Wrapped, IsRow

\* A step of call p keeps VaultInv if p knows afterwards what VaultInv says.
LEMMA VaultStep ==
    ASSUME IInv, VaultInv, NEW p \in Procs, WrappedKept, RowsKept, FilesRecoverable',
           \A q \in Procs \ {p} : frame'[q] = frame[q],
           p # Loop => \A f \in Files : stored[f] = None => stored'[f] = None,
           HoldsOK(p)'
    PROVE  VaultInv'
<1>1. ASSUME NEW q \in Procs PROVE HoldsOK(q)'
  <2>1. CASE q = p
    BY <2>1
  <2>2. CASE q # p
    BY <2>2, HoldsRests DEF IInv, TypeOK, VaultInv
  <2> QED BY <2>1, <2>2
<1> QED BY <1>1 DEF VaultInv

\* A step that neither writes a file nor commits a key shows nothing outside.
LEMMA Stutter ==
    ASSUME UNCHANGED <<wrapped, stored>>
    PROVE  UNCHANGED FV!vars /\ WrappedKept /\ RowsKept
BY DEF FV!vars, Wrapped, IsRow, WrappedKept, RowsKept

LEMMA SameFiles ==
    ASSUME FilesRecoverable, UNCHANGED <<wrapped, stored>>
    PROVE  FilesRecoverable'
BY DEF FilesRecoverable, Wrapped, IsRow

\* A step of call p between its accesses to keys and files.
LEMMA QuietStep ==
    ASSUME IInv, VaultInv, NEW p \in Procs, UNCHANGED <<wrapped, stored>>,
           \A q \in Procs \ {p} : frame'[q] = frame[q],
           HoldsOK(p)'
    PROVE  VaultInv' /\ [FV!Next]_FV!vars
<1>1. WrappedKept /\ RowsKept /\ UNCHANGED FV!vars
  BY Stutter
<1>2. FilesRecoverable'
  BY SameFiles DEF VaultInv
<1> QED BY <1>1, <1>2, VaultStep

LEMMA FinishedHolds ==
    ASSUME NEW p \in Procs, frame'[p].op = "none", frame'[p].pc \in {"idle", "round"}
    PROVE  HoldsOK(p)'
BY DEF HoldsOK

LEMMA QuietReturn ==
    ASSUME IInv, VaultInv, NEW p \in Procs, UNCHANGED <<wrapped, stored>>,
           \/ frame' = [frame EXCEPT ![p] = Return(p)]
           \/ frame' = [frame EXCEPT ![p] = Idle]
    PROVE  VaultInv' /\ [FV!Next]_FV!vars
<1>1. frame \in [Procs -> Frames]
  BY DEF IInv, TypeOK
<1>2. /\ \A q \in Procs \ {p} : frame'[q] = frame[q]
      /\ frame'[p].op = "none" /\ frame'[p].pc \in {"idle", "round"}
  BY <1>1, IdleFrame DEF Idle
<1> QED BY <1>2, FinishedHolds, QuietStep

\* A call that moves to a label where it holds no more than before.
LEMMA QuietMove ==
    ASSUME IInv, VaultInv, NEW p \in Procs, UNCHANGED <<wrapped, stored>>,
           \A q \in Procs \ {p} : frame'[q] = frame[q],
           frame'[p].op = frame[p].op, frame'[p].files = frame[p].files,
           frame'[p].node = frame[p].node,
           frame'[p].pc \notin {"load", "reencrypt", "store"}
    PROVE  VaultInv' /\ [FV!Next]_FV!vars
<1>1. HoldsOK(p)
  BY DEF VaultInv
<1>2. HoldsOK(p)'
  BY <1>1 DEF HoldsOK
<1> QED BY <1>2, QuietStep

\* A call that has been handed a key of its node.
LEMMA QuietHanded ==
    ASSUME IInv, VaultInv, NEW p \in Procs, UNCHANGED <<wrapped, stored>>,
           \A q \in Procs \ {p} : frame'[q] = frame[q],
           frame'[p].op = frame[p].op, frame'[p].files = frame[p].files,
           frame'[p].node = frame[p].node,
           frame'[p].pc = AfterKey(frame[p].op),
           frame'[p].got.dek \in Wrapped(frame[p].node)
    PROVE  VaultInv' /\ [FV!Next]_FV!vars
<1>1. HoldsOK(p)
  BY DEF VaultInv
<1>2. /\ AfterKey(frame[p].op) # "reencrypt"
      /\ AfterKey(frame[p].op) = "store" => frame[p].op = "upload"
      /\ AfterKey(frame[p].op) = "load" => frame[p].op # "upload"
  BY DEF AfterKey
<1>3. frame'[p].got.dek \in Wrapped(frame[p].node)'
  BY DEF Wrapped
<1>4. HoldsOK(p)'
  BY <1>1, <1>2, <1>3 DEF HoldsOK, Wrapped
<1> QED BY <1>4, QuietStep

-----------------------------------------------------------------------------
\* Steps between the accesses to keys and files.

LEMMA LookupHolds ==
    ASSUME IInv, VaultInv, NEW p \in Procs, Lookup(p)
    PROVE  VaultInv' /\ [FV!Next]_FV!vars
<1> DEFINE c == frame[p]
           n == frame[p].node
<1>1. /\ n \in StorageNodes /\ c \in Frames /\ frame \in [Procs -> Frames]
      /\ UNCHANGED <<wrapped, stored>>
  BY DEF IInv, TypeOK, CallOK, Lookup, At
<1>2. CASE Goto(p, "hit")
  <2>1. /\ frame'[p].op = c.op /\ frame'[p].files = c.files /\ frame'[p].node = n
        /\ frame'[p].pc = "hit"
        /\ \A q \in Procs \ {p} : frame'[q] = frame[q]
    BY <1>1, <1>2 DEF Frames, Goto
  <2> QED BY <1>1, <2>1, QuietMove
<1>3. CASE \E k \in ActiveKeys(n) :
              frame' = [frame EXCEPT ![p].got = [key |-> k, dek |-> wrapped[k]],
                                     ![p].pc = "fill"]
  <2>1. PICK k \in ActiveKeys(n) :
            frame' = [frame EXCEPT ![p].got = [key |-> k, dek |-> wrapped[k]],
                                   ![p].pc = "fill"]
    BY <1>3
  <2>2. /\ frame'[p].op = c.op /\ frame'[p].files = c.files /\ frame'[p].node = n
        /\ frame'[p].pc = "fill"
        /\ \A q \in Procs \ {p} : frame'[q] = frame[q]
    BY <1>1, <2>1 DEF Frames
  <2> QED BY <1>1, <2>2, QuietMove
<1>4. CASE Goto(p, "snapshot")
  <2>1. /\ frame'[p].op = c.op /\ frame'[p].files = c.files /\ frame'[p].node = n
        /\ frame'[p].pc = "snapshot"
        /\ \A q \in Procs \ {p} : frame'[q] = frame[q]
    BY <1>1, <1>4 DEF Frames, Goto
  <2> QED BY <1>1, <2>1, QuietMove
<1> QED BY <1>2, <1>3, <1>4 DEF Lookup

LEMMA HitHolds ==
    ASSUME IInv, VaultInv, NEW p \in Procs, Hit(p)
    PROVE  VaultInv' /\ [FV!Next]_FV!vars
<1> DEFINE c == frame[p]
           n == frame[p].node
<1>1. /\ n \in StorageNodes /\ c \in Frames /\ frame \in [Procs -> Frames]
      /\ UNCHANGED <<wrapped, stored>>
  BY DEF IInv, TypeOK, CallOK, Hit, At
<1>2. CASE /\ cache[n] # None
           /\ frame' = [frame EXCEPT ![p].got = cache[n], ![p].pc = AfterKey(c.op)]
  <2>1. /\ cache[n] \in Pairs /\ cache[n].key[1] = n /\ cache[n].dek # None
        /\ wrapped[cache[n].key] = cache[n].dek
    BY <1>1, <1>2, NoneAssumption DEF IInv, TypeOK, CacheMatchesRecord, CacheOfNode, Pairs
  <2>2. cache[n].dek \in Wrapped(n)
    BY <2>1, WrappedHas DEF Pairs
  <2>3. /\ frame'[p].op = c.op /\ frame'[p].files = c.files /\ frame'[p].node = n
        /\ frame'[p].pc = AfterKey(c.op) /\ frame'[p].got = cache[n]
        /\ \A q \in Procs \ {p} : frame'[q] = frame[q]
    BY <1>1, <1>2 DEF Frames
  <2> QED BY <1>1, <2>2, <2>3, QuietHanded
<1>3. CASE frame' = [frame EXCEPT ![p] = Idle]
  BY <1>1, <1>3, QuietReturn
<1> QED BY <1>2, <1>3 DEF Hit

LEMMA FillHolds ==
    ASSUME IInv, VaultInv, NEW p \in Procs, Fill(p)
    PROVE  VaultInv' /\ [FV!Next]_FV!vars
<1> DEFINE c == frame[p]
<1>1. /\ c \in Frames /\ frame \in [Procs -> Frames] /\ CallOK(p) /\ c.pc = "fill"
      /\ UNCHANGED <<wrapped, stored>>
  BY DEF IInv, TypeOK, Fill, At
<1>2. c.got.dek \in Wrapped(c.node)
  BY <1>1, WrappedHas, NoneAssumption DEF CallOK, Pairs
<1>3. /\ frame'[p].op = c.op /\ frame'[p].files = c.files /\ frame'[p].node = c.node
      /\ frame'[p].pc = AfterKey(c.op) /\ frame'[p].got = c.got
      /\ \A q \in Procs \ {p} : frame'[q] = frame[q]
  BY <1>1 DEF Fill, Goto, Frames
<1> QED BY <1>1, <1>2, <1>3, QuietHanded

LEMMA GenerateHolds ==
    ASSUME IInv, VaultInv, NEW p \in Procs,
           Snapshot(p) \/ Deactivate(p) \/ Publish(p)
    PROVE  VaultInv' /\ [FV!Next]_FV!vars
<1> DEFINE c == frame[p]
<1>1. c \in Frames /\ frame \in [Procs -> Frames] /\ UNCHANGED <<wrapped, stored>>
  BY DEF IInv, TypeOK, Snapshot, Deactivate, Publish
<1>2. /\ frame'[p].op = c.op /\ frame'[p].files = c.files /\ frame'[p].node = c.node
      /\ frame'[p].pc \in {"lock", "insert", "reload"}
      /\ \A q \in Procs \ {p} : frame'[q] = frame[q]
  BY <1>1 DEF Snapshot, Deactivate, Publish, Goto, Frames
<1> QED BY <1>1, <1>2, QuietMove

LEMMA ReloadHolds ==
    ASSUME IInv, VaultInv, NEW p \in Procs, Reload(p)
    PROVE  VaultInv' /\ [FV!Next]_FV!vars
<1> DEFINE c == frame[p]
           n == frame[p].node
<1>1. /\ c \in Frames /\ frame \in [Procs -> Frames] /\ UNCHANGED <<wrapped, stored>>
      /\ n \in StorageNodes /\ c.got \in Pairs
  BY DEF IInv, TypeOK, Reload, CallOK, At
<1>2. CASE frame' = [frame EXCEPT ![p] = Return(p)]
  BY <1>1, <1>2, QuietReturn
<1>3. CASE /\ cache[n] # None
           /\ frame' = [frame EXCEPT ![p].got.dek = cache[n].dek, ![p].pc = AfterKey(c.op)]
  <2>1. /\ cache[n] \in Pairs /\ cache[n].key[1] = n /\ cache[n].dek # None
        /\ wrapped[cache[n].key] = cache[n].dek
    BY <1>1, <1>3, NoneAssumption DEF IInv, TypeOK, CacheMatchesRecord, CacheOfNode, Pairs
  <2>2. cache[n].dek \in Wrapped(n)
    BY <2>1, WrappedHas DEF Pairs
  <2>3. /\ frame'[p].op = c.op /\ frame'[p].files = c.files /\ frame'[p].node = n
        /\ frame'[p].pc = AfterKey(c.op) /\ frame'[p].got.dek = cache[n].dek
        /\ \A q \in Procs \ {p} : frame'[q] = frame[q]
    BY <1>1, <1>3 DEF Frames, Pairs
  <2> QED BY <1>1, <2>2, <2>3, QuietHanded
<1> QED BY <1>2, <1>3 DEF Reload

LEMMA LoadFilesHolds ==
    ASSUME IInv, VaultInv, NEW p \in Procs, LoadFiles(p)
    PROVE  VaultInv' /\ [FV!Next]_FV!vars
<1> DEFINE c == frame[p]
           F == {f \in Files : /\ IsRow(f) /\ stored[f].node = c.node
                               /\ stored[f].key = c.seen.key /\ stored[f].dek = c.seen.dek}
<1>1. /\ c \in Frames /\ frame \in [Procs -> Frames] /\ UNCHANGED <<wrapped, stored>>
      /\ HoldsOK(p) /\ c.pc = "load"
  BY DEF IInv, TypeOK, VaultInv, LoadFiles, At
<1>2. CASE frame' = [frame EXCEPT ![p] = Return(p)]
  BY <1>1, <1>2, QuietReturn
<1>3. CASE frame' = [frame EXCEPT ![p].files = F, ![p].pc = "reencrypt"]
  <2>1. \A f \in F : stored[f] # None /\ stored[f].node = c.node
    BY DEF IsRow
  <2> HIDE DEF F
  <2>2. /\ frame'[p].op = c.op /\ frame'[p].files = F /\ frame'[p].node = c.node
        /\ frame'[p].pc = "reencrypt" /\ frame'[p].got = c.got
        /\ \A q \in Procs \ {p} : frame'[q] = frame[q]
    BY <1>1, <1>3 DEF Frames
  <2>3. c.op # "upload"
    BY <1>1 DEF HoldsOK
  <2>4. HoldsOK(p)'
    BY <1>1, <2>1, <2>2, <2>3 DEF HoldsOK, Wrapped, IsRow
  <2> QED BY <1>1, <2>2, <2>4, QuietStep
<1> QED BY <1>2, <1>3 DEF LoadFiles

-----------------------------------------------------------------------------
\* Steps that the vault sees.

\* What a key row's insertion adds to the keys of its node.
LEMMA WrappedInsert ==
    ASSUME wrapped \in [KeyIds -> Deks \cup {None}], NEW k \in KeyIds, wrapped[k] = None,
           NEW d \in Deks, wrapped' = [wrapped EXCEPT ![k] = d], NEW n
    PROVE  Wrapped(n)' = IF n = k[1] THEN Wrapped(n) \cup {d} ELSE Wrapped(n)
<1>1. \A j \in KeyIds : wrapped'[j] = IF j = k THEN d ELSE wrapped[j]
  OBVIOUS
<1>2. CASE n # k[1]
  BY <1>1, <1>2 DEF Wrapped
<1>3. CASE n = k[1]
  <2>1. ASSUME NEW x, x \in Wrapped(n)' PROVE x \in Wrapped(n) \cup {d}
    BY <1>1, <2>1 DEF Wrapped
  <2>2. ASSUME NEW x, x \in Wrapped(n) PROVE x \in Wrapped(n)'
    <3>1. PICK j \in KeyIds : j[1] = n /\ wrapped[j] = x /\ x # None
      BY <2>2 DEF Wrapped
    <3>2. wrapped'[j] = x
      BY <1>1, <3>1
    <3> QED BY <3>1, <3>2 DEF Wrapped
  <2>3. d \in Wrapped(n)'
    BY <1>1, <1>3, NoneAssumption DEF Wrapped
  <2> QED BY <1>3, <2>1, <2>2, <2>3
<1> QED BY <1>2, <1>3

LEMMA CommitKeyHolds ==
    ASSUME IInv, VaultInv, NEW p \in Procs, CommitKey(p)
    PROVE  VaultInv' /\ [FV!Next]_FV!vars
<1> DEFINE c == frame[p]
           k == frame[p].got.key
           d == frame[p].got.dek
<1>1. /\ c \in Frames /\ frame \in [Procs -> Frames] /\ c.pc = "insert"
      /\ k \in KeyIds /\ d \in Deks /\ k[1] = c.node /\ c.node \in StorageNodes
      /\ wrapped \in [KeyIds -> Deks \cup {None}] /\ wrapped[k] = None
      /\ wrapped' = [wrapped EXCEPT ![k] = d] /\ stored' = stored /\ HoldsOK(p)
  BY DEF IInv, TypeOK, VaultInv, CommitKey, CallOK, At, Pairs
<1>2. WrappedKept /\ RowsKept
  BY <1>1 DEF WrappedKept, RowsKept, IsRow
<1>3. FilesRecoverable'
  BY <1>1, <1>2, WrappedGrows DEF VaultInv, FilesRecoverable, IsRow
<1>4. /\ frame'[p].op = c.op /\ frame'[p].files = c.files /\ frame'[p].pc = "publish"
      /\ \A q \in Procs \ {p} : frame'[q] = frame[q]
  BY <1>1 DEF CommitKey, Frames
<1>5. HoldsOK(p)'
  BY <1>1, <1>4 DEF HoldsOK
<1>6. VaultInv'
  BY <1>1, <1>2, <1>3, <1>4, <1>5, VaultStep
<1>7. FV!KeepKey(c.node, d)
  <2>1. \A n \in StorageNodes :
          Wrapped(n)' = IF n = c.node THEN Wrapped(n) \cup {d} ELSE Wrapped(n)
    BY <1>1, WrappedInsert
  <2> QED BY <1>1, <2>1 DEF FV!KeepKey, IsRow
<1> QED BY <1>1, <1>6, <1>7 DEF FV!Next

\* Rows written for a node under a key of it stay recoverable.
LEMMA WritingRecovers ==
    ASSUME FilesRecoverable, wrapped' = wrapped, NEW F, NEW n, NEW k, NEW d \in Wrapped(n),
           stored' = [f \in Files |-> IF f \in F THEN [node |-> n, key |-> k, dek |-> d]
                                                 ELSE stored[f]]
    PROVE  FilesRecoverable'
<1> SUFFICES ASSUME NEW f \in Files, IsRow(f)'
             PROVE  stored'[f].dek \in Wrapped(stored'[f].node)
  BY WrappedSame DEF FilesRecoverable, Wrapped
<1> QED BY DEF FilesRecoverable, IsRow

LEMMA StoreHolds ==
    ASSUME IInv, VaultInv, NEW p \in Procs, Store(p)
    PROVE  VaultInv' /\ [FV!Next]_FV!vars
<1> DEFINE c == frame[p]
           n == frame[p].node
           k == frame[p].got.key
           d == frame[p].got.dek
<1>1. /\ frame \in [Procs -> Frames] /\ c.pc = "store" /\ n \in StorageNodes
      /\ d \in Wrapped(n) /\ d \in Deks /\ k \in KeyIds /\ p = Loop
      /\ wrapped' = wrapped
  BY DEF IInv, TypeOK, VaultInv, Store, CallOK, HoldsOK, At, Pairs
<1>2. PICK f \in Files : c.files = {f} /\ stored[f] = None
  BY <1>1 DEF VaultInv, HoldsOK
<1>3. stored' = [g \in Files |-> IF g \in {f} THEN [node |-> n, key |-> k, dek |-> d]
                                              ELSE stored[g]]
  BY <1>2 DEF Store
<1>4. FilesRecoverable'
  <2> HIDE DEF n, k, d
  <2> QED BY <1>1, <1>3, WritingRecovers DEF VaultInv
<1>5. WrappedKept /\ RowsKept
  BY <1>1, <1>2, <1>3 DEF WrappedKept, RowsKept, IsRow
<1>6. /\ \A q \in Procs \ {p} : frame'[q] = frame[q]
      /\ frame'[p].op = "none" /\ frame'[p].pc \in {"idle", "round"}
  BY <1>1 DEF Store, Idle
<1>7. VaultInv'
  BY <1>1, <1>4, <1>5, <1>6, FinishedHolds, VaultStep
<1>8. PICK m \in StorageNodes, e \in Deks : n = m /\ d = e
  BY <1>1
<1>9. FV!Upload(f, m, e)
  <2>1. /\ stored'[f] = [node |-> n, key |-> k, dek |-> d] /\ IsRow(f)'
        /\ \A g \in Files \ {f} : stored'[g] = stored[g] /\ (IsRow(g)' <=> IsRow(g))
    BY <1>1, <1>3, MarkerAssumption DEF FileRow, IsRow
  <2>2. stored'[f].node = n /\ stored'[f].dek = d
    BY <2>1
  <2>3. ~ IsRow(f)
    BY <1>2 DEF IsRow
  <2> HIDE DEF n, d
  <2> QED BY <1>1, <1>2, <1>8, <2>1, <2>2, <2>3, WrappedSame DEF FV!Upload
<1> QED BY <1>7, <1>9 DEF FV!Next

LEMMA ReencryptHolds ==
    ASSUME IInv, VaultInv, NEW p \in Procs, Reencrypt(p)
    PROVE  VaultInv' /\ [FV!Next]_FV!vars
<1> DEFINE c == frame[p]
           n == frame[p].node
           k == frame[p].got.key
           d == frame[p].got.dek
           F == frame[p].files
<1>1. /\ frame \in [Procs -> Frames] /\ c.pc = "reencrypt" /\ n \in StorageNodes
      /\ d \in Wrapped(n) /\ d \in Deks /\ k \in KeyIds /\ F \subseteq Files
      /\ wrapped' = wrapped /\ stored \in [Files -> FileRow \cup {None, Gone}]
  BY DEF IInv, TypeOK, VaultInv, Reencrypt, CallOK, HoldsOK, At, Pairs, Frames
<1>2. \A f \in F : IsRow(f) /\ stored[f].node = n
  BY <1>1 DEF VaultInv, HoldsOK, IsRow, Reencrypt
<1>3. stored' = [f \in Files |-> IF f \in F THEN [node |-> n, key |-> k, dek |-> d]
                                            ELSE stored[f]]
  BY DEF Reencrypt
<1>4. FilesRecoverable'
  <2> HIDE DEF n, k, d, F
  <2> QED BY <1>1, <1>3, WritingRecovers DEF VaultInv
<1>5. /\ \A f \in F : /\ stored'[f] = [node |-> n, key |-> k, dek |-> d] /\ IsRow(f)'
                      /\ stored'[f].node = n /\ stored'[f].dek = d
      /\ \A f \in Files \ F : stored'[f] = stored[f] /\ (IsRow(f)' <=> IsRow(f))
  <2> HIDE DEF n, k, d, F
  <2> QED BY <1>1, <1>3, MarkerAssumption DEF FileRow, IsRow
<1>6. WrappedKept /\ RowsKept /\ \A f \in Files : stored[f] = None => stored'[f] = None
  <2> HIDE DEF n, k, d, F
  <2> QED BY <1>1, <1>2, <1>5 DEF WrappedKept, RowsKept, IsRow
<1>7. /\ \A q \in Procs \ {p} : frame'[q] = frame[q]
      /\ frame'[p].op = "none" /\ frame'[p].pc \in {"idle", "round"}
  BY <1>1, IdleFrame DEF Reencrypt
<1>8. VaultInv'
  BY <1>1, <1>4, <1>6, <1>7, FinishedHolds, VaultStep
<1>9. PICK m \in StorageNodes, e \in Deks, G \in SUBSET Files : n = m /\ d = e /\ F = G
  BY <1>1
<1>10. FV!Reencrypt(G, m, e)
  <2> HIDE DEF n, k, d, F
  <2>1. G \subseteq FV!FilesOf(m)
    <3> SUFFICES ASSUME NEW f \in G
                 PROVE  f \in FV!FilesOf(m)
      OBVIOUS
    <3>1. stored[f].node \in StorageNodes /\ stored[f].dek \in Deks /\ IsRow(f)
          /\ stored[f].node = m
      BY <1>1, <1>2, <1>9 DEF FileRow, IsRow
    <3>2. [node |-> stored[f].node, dek |-> stored[f].dek] \notin {None, Gone}
      BY <3>1, MarkerAssumption
    <3> QED BY <3>1, <3>2 DEF FV!FilesOf
  <2> QED BY <1>1, <1>5, <1>9, <2>1, WrappedSame DEF FV!Reencrypt
<1> QED BY <1>8, <1>10 DEF FV!Next

LEMMA DeleteFileHolds ==
    ASSUME IInv, VaultInv, NEW f \in Files, DeleteFile(f)
    PROVE  VaultInv' /\ [FV!Next]_FV!vars
<1>1. /\ IsRow(f) /\ stored[f] \in FileRow /\ UNCHANGED <<wrapped, frame>>
      /\ stored' = [stored EXCEPT ![f] = Gone]
      /\ stored \in [Files -> FileRow \cup {None, Gone}]
  BY DEF IInv, TypeOK, DeleteFile, IsRow
<1>2. /\ stored'[f] = Gone /\ ~ IsRow(f)'
      /\ \A g \in Files \ {f} : stored'[g] = stored[g] /\ (IsRow(g)' <=> IsRow(g))
  BY <1>1 DEF IsRow
<1>3. /\ WrappedKept /\ RowsKept
      /\ \A g \in Files : stored[g] = None => stored'[g] = None
  BY <1>1, <1>2, MarkerAssumption DEF WrappedKept, RowsKept, IsRow
<1>4. FilesRecoverable'
  BY <1>1, <1>2, WrappedSame DEF VaultInv, FilesRecoverable, IsRow
<1>5. \A q \in Procs : HoldsOK(q)'
  BY <1>1, <1>3, HoldsRests DEF VaultInv, IInv, TypeOK
<1>6. [node |-> stored[f].node, dek |-> stored[f].dek] \notin {None, Gone}
  BY <1>1, MarkerAssumption DEF FileRow
<1>7. FV!Delete(f)
  BY <1>1, <1>2, <1>6, WrappedSame DEF FV!Delete
<1> QED BY <1>4, <1>5, <1>7 DEF VaultInv, FV!Next

-----------------------------------------------------------------------------
\* The other steps.

LEMMA BeginRotationHolds ==
    ASSUME IInv, VaultInv, NEW p \in Procs, NEW n \in StorageNodes, BeginRotation(p, n),
           UNCHANGED <<wrapped, stored>>
    PROVE  VaultInv' /\ [FV!Next]_FV!vars
<1>1. frame \in [Procs -> Frames]
  BY DEF IInv, TypeOK
<1>2. PICK old : frame' = [frame EXCEPT ![p] = [Idle EXCEPT !.op = "rotate", !.pc = "snapshot",
                                                            !.node = n, !.seen = old]]
  BY DEF BeginRotation
<1>3. frame'[p] = [Idle EXCEPT !.op = "rotate", !.pc = "snapshot", !.node = n, !.seen = old]
      /\ \A q \in Procs \ {p} : frame'[q] = frame[q]
  BY <1>1, <1>2
<1>4. HoldsOK(p)'
  <2>1. frame'[p].op = "rotate" /\ frame'[p].pc = "snapshot"
    BY <1>3 DEF Idle
  <2> QED BY <2>1 DEF HoldsOK
<1> QED BY <1>3, <1>4, QuietStep

LEMMA StartHolds ==
    ASSUME IInv, VaultInv,
           \/ \E t \in Threads, f \in Files : StartDownload(t, f)
           \/ \E n \in StorageNodes, f \in Files : StartUpload(n, f)
           \/ StartCycle
    PROVE  VaultInv' /\ [FV!Next]_FV!vars
<1>1. frame \in [Procs -> Frames] /\ Loop \in Procs /\ Threads \subseteq Procs
  BY DEF IInv, TypeOK, Procs
<1>2. CASE \E t \in Threads, f \in Files : StartDownload(t, f)
  <2>1. PICK t \in Threads, f \in Files : StartDownload(t, f)
    BY <1>2
  <2>2. /\ frame'[t].op = "download" /\ frame'[t].pc = "lookup"
        /\ \A q \in Procs \ {t} : frame'[q] = frame[q]
    BY <1>1, <2>1 DEF StartDownload, Idle
  <2>3. HoldsOK(t)'
    BY <2>2 DEF HoldsOK
  <2> QED BY <1>1, <2>1, <2>2, <2>3, QuietStep DEF StartDownload
<1>3. CASE \E n \in StorageNodes, f \in Files : StartUpload(n, f)
  <2>1. PICK n \in StorageNodes, f \in Files : StartUpload(n, f)
    BY <1>3
  <2>2. /\ frame'[Loop] = [Idle EXCEPT !.op = "upload", !.pc = "lookup", !.node = n,
                                       !.files = {f}]
        /\ \A q \in Procs \ {Loop} : frame'[q] = frame[q]
    BY <1>1, <2>1 DEF StartUpload
  <2>3. frame'[Loop].op = "upload" /\ frame'[Loop].pc = "lookup" /\ frame'[Loop].files = {f}
    BY <2>2 DEF Idle
  <2>4. HoldsOK(Loop)'
    BY <2>1, <2>3 DEF HoldsOK, StartUpload
  <2> QED BY <1>1, <2>1, <2>2, <2>4, QuietStep DEF StartUpload
<1>4. CASE StartCycle
  <2>1. /\ frame'[Loop].op = frame[Loop].op /\ frame'[Loop].files = frame[Loop].files
        /\ frame'[Loop].node = frame[Loop].node /\ frame'[Loop].pc = "round"
        /\ \A q \in Procs \ {Loop} : frame'[q] = frame[q]
    BY <1>1, <1>4 DEF StartCycle, Goto, Frames
  <2> QED BY <1>1, <1>4, <2>1, QuietMove DEF StartCycle
<1> QED BY <1>2, <1>3, <1>4

LEMMA RestHolds ==
    ASSUME IInv, VaultInv, EndCycle \/ Tick \/ Restart \/ UNCHANGED vars
    PROVE  VaultInv' /\ [FV!Next]_FV!vars
<1>1. frame \in [Procs -> Frames] /\ Loop \in Procs
  BY DEF IInv, TypeOK, Procs
<1>2. CASE EndCycle
  BY <1>1, <1>2, QuietReturn DEF EndCycle
<1>3. CASE Tick \/ UNCHANGED vars
  <2>1. UNCHANGED <<wrapped, stored, frame>>
    BY <1>3 DEF Tick, vars
  <2> QED BY <1>1, <2>1, QuietStep DEF VaultInv, HoldsOK, IsRow, Wrapped
<1>4. CASE Restart
  <2>1. \A p \in Procs : HoldsOK(p)'
    BY <1>4, FinishedHolds DEF Restart, Idle
  <2>2. FilesRecoverable' /\ UNCHANGED FV!vars
    BY <1>4, SameFiles, Stutter DEF Restart, VaultInv
  <2> QED BY <2>1, <2>2 DEF VaultInv
<1> QED BY <1>2, <1>3, <1>4

LEMMA VaultNext ==
    ASSUME IInv, VaultInv, [Next]_vars
    PROVE  VaultInv' /\ [FV!Next]_FV!vars
<1>1. CASE \E p \in Procs : Continue(p)
  <2>1. PICK p \in Procs : Continue(p)
    BY <1>1
  <2>2. CASE KeyClash(p) \/ ReencryptStale(p) \/ Decrypt(p)
    BY <2>2, QuietReturn DEF KeyClash, ReencryptStale, Decrypt, Fail
  <2>3. CASE \/ Lookup(p) \/ Hit(p) \/ Fill(p)
             \/ Snapshot(p) \/ Deactivate(p) \/ Publish(p) \/ Reload(p)
    BY <2>3, LookupHolds, HitHolds, FillHolds, GenerateHolds, ReloadHolds
  <2>4. CASE CommitKey(p) \/ LoadFiles(p) \/ Reencrypt(p) \/ Store(p)
    BY <2>4, CommitKeyHolds, LoadFilesHolds, ReencryptHolds, StoreHolds
  <2> QED BY <2>1, <2>2, <2>3, <2>4 DEF Continue
<1>2. CASE \E f \in Files : DeleteFile(f)
  BY <1>2, DeleteFileHolds
<1>3. CASE \/ \E t \in Threads, n \in StorageNodes : ManualRotation(t, n)
           \/ \E n \in StorageNodes : RotateNext(n)
  BY <1>3, BeginRotationHolds DEF ManualRotation, RotateNext, Procs
<1> QED BY <1>1, <1>2, <1>3, StartHolds, RestHolds DEF Next

LEMMA VaultInit == Init => VaultInv /\ FV!Init
<1> SUFFICES ASSUME Init PROVE VaultInv /\ FV!Init
  OBVIOUS
<1>1. \A f \in Files : stored[f] = None /\ ~ IsRow(f)
  BY DEF Init, IsRow
<1>2. VaultInv
  BY <1>1 DEF Init, VaultInv, FilesRecoverable, HoldsOK, Idle
<1>3. \A n \in StorageNodes : Wrapped(n) = {}
  BY DEF Init, Wrapped
<1> QED BY <1>1, <1>2, <1>3 DEF FV!Init

-----------------------------------------------------------------------------
\* The DEK that encrypts a stored file is wrapped in a key row of its node,
\* even when manual rotations have given the file the label of another key.
THEOREM FilesStayRecoverable == Spec => []FilesRecoverable
<1>1. VaultInv => FilesRecoverable
  BY DEF VaultInv
<1> QED BY <1>1, VaultInit, VaultNext, AlwaysIInv, PTL DEF Spec

\* However rotations, uploads, deletions and restarts overlap, the tables change
\* as FileVault says: keys stay, re-encryption is all or nothing and under a
\* kept key, and a rotation brings no deleted file back.
THEOREM ImplementsVault == Spec => Vault
BY VaultInit, VaultNext, AlwaysIInv, PTL DEF Spec, Vault, FV!Spec

=============================================================================
