----------------------------- MODULE KeyManager -----------------------------
(***************************************************************************)
(* Data encryption keys and encrypted files of ONE application server:     *)
(* security_modules/key_manager.py, the scheduler of key_rotation.py and   *)
(* the file and rotation routes of application_server/main.py.             *)
(*                                                                         *)
(* The server runs one event loop and a pool of worker threads.  Routes    *)
(* declared `async def` (upload) and the rotation scheduler run on the     *)
(* event loop and do not yield between their first database call and their *)
(* last one; routes declared `def` (download, delete, manual rotation) run *)
(* on worker threads and interleave with everything.  Every database       *)
(* statement or commit, and every read or write of the cache, is one step. *)
(*                                                                         *)
(* A ciphertext is represented by the key that encrypts it: AES-GCM        *)
(* decrypts it with that key and refuses every other one.                  *)
(***************************************************************************)
EXTENDS Naturals, FiniteSets

CONSTANTS
    StorageNodes,  \* storage node identifiers ("node_1", ...)
    Files,         \* ids of rows of encrypted_files, each used once
    Threads,       \* worker threads of the server
    Loop,          \* the event loop
    MaxTime,       \* bound of the clock, in seconds
    None, Gone     \* no value; the id of a deleted row

Procs == Threads \cup {Loop}

\* key_id is f"{node_id}_key_{utcnow:%Y%m%d%H%M%S}": a node and a second.
KeyIds == StorageNodes \X (1 .. MaxTime)

\* The bytes drawn by generate_key(): one value per key id and drawing call.
Deks == KeyIds \X Procs

ASSUME LoopAssumption == Loop \notin Threads
ASSUME NoneAssumption == None \notin Deks
ASSUME TimeAssumption == MaxTime \in Nat \ {0}

VARIABLES
    now,      \* the wall clock, in seconds
    wrapped,  \* encryption_keys: key_id -> DEK it wraps, None if no row
    active,   \* encryption_keys: ids of committed rows with is_active
    stored,   \* encrypted_files: id -> row, None if unused, Gone if deleted
    cache,    \* KeyManager._key_cache: node -> (key_id, DEK) or None
    frame,    \* the call each thread and the event loop are executing
    round     \* nodes the current scheduler cycle has still to rotate

vars == <<now, wrapped, active, stored, cache, frame, round>>

Pairs   == [key: KeyIds, dek: Deks]
FileRow == [node: StorageNodes, key: KeyIds, dek: Deks]
NoPair  == [key |-> None, dek |-> None]

ASSUME MarkerAssumption ==
    None # Gone /\ {None, Gone} \cap (FileRow \cup [node: StorageNodes, dek: Deks]) = {}

Labels == {"idle", "round", "lookup", "hit", "fill", "snapshot", "lock", "insert",
           "publish", "reload", "load", "reencrypt", "store", "decrypt"}

(***************************************************************************)
(* A call in progress: what it is, the node it works on, the key it was    *)
(* handed (got), the key or row label it read before that (seen), the file *)
(* ids it works on, and the key rows its UPDATE found (locked at "insert").*)
(***************************************************************************)
Frames == [op: {"none", "upload", "download", "rotate"}, pc: Labels,
           node: StorageNodes \cup {None},
           got: Pairs \cup {NoPair}, seen: Pairs \cup {NoPair},
           files: SUBSET Files, rows: SUBSET KeyIds]

Idle == [op |-> "none", pc |-> "idle", node |-> None, got |-> NoPair,
         seen |-> NoPair, files |-> {}, rows |-> {}]

IsRow(f) == stored[f] \notin {None, Gone}

ActiveKeys(n) == {k \in active : k[1] = n}

Init ==
    /\ now = 1
    /\ wrapped = [k \in KeyIds |-> None]
    /\ active = {}
    /\ stored = [f \in Files |-> None]
    /\ cache = [n \in StorageNodes |-> None]
    /\ frame = [p \in Procs |-> Idle]
    /\ round = {}

-----------------------------------------------------------------------------
\* Steps of a call.

At(p, pc) == frame[p].pc = pc

Goto(p, pc) == frame' = [frame EXCEPT ![p].pc = pc]

\* Where a call continues once it has been handed a key.
AfterKey(op) ==
    IF op = "upload" THEN "store" ELSE IF op = "download" THEN "decrypt" ELSE "load"

\* The end of a call: the scheduler goes on with its cycle.
Return(p) ==
    IF p = Loop /\ frame[p].op = "rotate" THEN [Idle EXCEPT !.pc = "round"] ELSE Idle

(***************************************************************************)
(* A call that ends with an exception.  The scheduler catches it and goes  *)
(* on with the next node, but it never rolls its session back: after a     *)
(* failed flush every later statement of the cycle is refused, so the      *)
(* remaining nodes fail without a state change.                            *)
(***************************************************************************)
Fail(p) ==
    /\ frame' = [frame EXCEPT ![p] = Return(p)]
    /\ round' = IF p = Loop THEN {} ELSE round

-----------------------------------------------------------------------------
\* KeyManager.get_active_key.

\* Test the cache; on a miss read any active row; without one generate a key.
Lookup(p) ==
    /\ At(p, "lookup")
    /\ LET n == frame[p].node IN
       \/ /\ cache[n] # None
          /\ Goto(p, "hit")
       \/ /\ cache[n] = None
          /\ \E k \in ActiveKeys(n) :
                frame' = [frame EXCEPT ![p].got = [key |-> k, dek |-> wrapped[k]],
                                       ![p].pc = "fill"]
       \/ /\ cache[n] = None
          /\ ActiveKeys(n) = {}
          /\ Goto(p, "snapshot")
    /\ UNCHANGED <<now, wrapped, active, stored, cache, round>>

(***************************************************************************)
(* The entry found is read by a second access: a newer one may have taken  *)
(* its place, and if clear_cache() ran in between it is a KeyError, which  *)
(* a download answers with a 500.                                          *)
(***************************************************************************)
Hit(p) ==
    /\ At(p, "hit")
    /\ LET entry == cache[frame[p].node] IN
       \/ /\ entry # None
          /\ frame' = [frame EXCEPT ![p].got = entry, ![p].pc = AfterKey(frame[p].op)]
       \/ /\ entry = None
          /\ frame' = [frame EXCEPT ![p] = Idle]
    /\ UNCHANGED <<now, wrapped, active, stored, cache, round>>

\* The row just read is unwrapped and cached.
Fill(p) ==
    /\ At(p, "fill")
    /\ cache' = [cache EXCEPT ![frame[p].node] = frame[p].got]
    /\ Goto(p, AfterKey(frame[p].op))
    /\ UNCHANGED <<now, wrapped, active, stored, round>>

-----------------------------------------------------------------------------
\* KeyManager.generate_node_key: one transaction, then the cache.

\* Fault: the clock is rounded up to the next second.
SnapshotRoundsUp(p) ==
    /\ At(p, "snapshot")
    /\ LET k == <<frame[p].node, now + 1>> IN
       frame' = [frame EXCEPT ![p].got = [key |-> k, dek |-> <<k, p>>],
                              ![p].rows = ActiveKeys(frame[p].node),
                              ![p].pc = "lock"]
    /\ UNCHANGED <<now, wrapped, active, stored, cache, round>>

\* Draw the DEK, name it by the clock, start the UPDATE that deactivates.
Snapshot(p) ==
    /\ At(p, "snapshot")
    /\ LET k == <<frame[p].node, now>> IN
       frame' = [frame EXCEPT ![p].got = [key |-> k, dek |-> <<k, p>>],
                              ![p].rows = ActiveKeys(frame[p].node),
                              ![p].pc = "lock"]
    /\ UNCHANGED <<now, wrapped, active, stored, cache, round>>

\* The rows of p's snapshot that another open transaction has updated.
LockedByOther(p) ==
    UNION {frame[q].rows : q \in {q \in Procs \ {p} : At(q, "insert")}}

(***************************************************************************)
(* READ COMMITTED: the UPDATE waits for the row locks of other             *)
(* transactions and then drops the rows that no longer match; a row        *)
(* inserted since its snapshot is not looked at.                           *)
(***************************************************************************)
Deactivate(p) ==
    /\ At(p, "lock")
    /\ frame[p].rows \cap LockedByOther(p) = {}
    /\ frame' = [frame EXCEPT ![p].rows = @ \cap active, ![p].pc = "insert"]
    /\ UNCHANGED <<now, wrapped, active, stored, cache, round>>

\* Fault: the previous keys of the node stay active.
CommitKeyKeepsOld(p) ==
    /\ At(p, "insert")
    /\ wrapped[frame[p].got.key] = None
    /\ wrapped' = [wrapped EXCEPT ![frame[p].got.key] = frame[p].got.dek]
    /\ active' = active \cup {frame[p].got.key}
    /\ frame' = [frame EXCEPT ![p].rows = {}, ![p].pc = "publish"]
    /\ UNCHANGED <<now, stored, cache, round>>

\* Fault: the new row is inserted first and deactivated with the others.
CommitKeyFirst(p) ==
    /\ At(p, "insert")
    /\ wrapped[frame[p].got.key] = None
    /\ wrapped' = [wrapped EXCEPT ![frame[p].got.key] = frame[p].got.dek]
    /\ active' = active \ ActiveKeys(frame[p].node)
    /\ frame' = [frame EXCEPT ![p].rows = {}, ![p].pc = "publish"]
    /\ UNCHANGED <<now, stored, cache, round>>

\* Fault: the previous keys of the node are deleted, not deactivated.
CommitKeyDropsOld(p) ==
    /\ At(p, "insert")
    /\ wrapped[frame[p].got.key] = None
    /\ wrapped' = [k \in KeyIds |-> IF k = frame[p].got.key THEN frame[p].got.dek
                                    ELSE IF k \in frame[p].rows THEN None ELSE wrapped[k]]
    /\ active' = (active \ frame[p].rows) \cup {frame[p].got.key}
    /\ frame' = [frame EXCEPT ![p].rows = {}, ![p].pc = "publish"]
    /\ UNCHANGED <<now, stored, cache, round>>

\* INSERT of the new row and COMMIT.
CommitKey(p) ==
    /\ At(p, "insert")
    /\ wrapped[frame[p].got.key] = None
    /\ wrapped' = [wrapped EXCEPT ![frame[p].got.key] = frame[p].got.dek]
    /\ active' = (active \ frame[p].rows) \cup {frame[p].got.key}
    /\ frame' = [frame EXCEPT ![p].rows = {}, ![p].pc = "publish"]
    /\ UNCHANGED <<now, stored, cache, round>>

\* Fault: the violated constraint is ignored and the key published.
KeyClashIgnored(p) ==
    /\ At(p, "insert")
    /\ wrapped[frame[p].got.key] # None
    /\ frame' = [frame EXCEPT ![p].rows = {}, ![p].pc = "publish"]
    /\ UNCHANGED <<now, wrapped, active, stored, cache, round>>

\* Fault: the failed transaction is left open, with its row locks.
KeyClashNoRollback(p) ==
    /\ At(p, "insert")
    /\ wrapped[frame[p].got.key] # None
    /\ UNCHANGED vars

\* Fault: the deactivation is committed on its own, before the INSERT fails.
KeyClashHalfDone(p) ==
    /\ At(p, "insert")
    /\ wrapped[frame[p].got.key] # None
    /\ active' = active \ frame[p].rows
    /\ Fail(p)
    /\ UNCHANGED <<now, wrapped, stored, cache>>

\* key_id is UNIQUE: a second key of the node in one second is refused, and
\* the transaction is rolled back with its deactivations.
KeyClash(p) ==
    /\ At(p, "insert")
    /\ wrapped[frame[p].got.key] # None
    /\ Fail(p)
    /\ UNCHANGED <<now, wrapped, active, stored, cache>>

\* The new key replaces the cached one.
Publish(p) ==
    /\ At(p, "publish")
    /\ cache' = [cache EXCEPT ![frame[p].node] = frame[p].got]
    /\ Goto(p, "reload")
    /\ UNCHANGED <<now, wrapped, active, stored, round>>

(***************************************************************************)
(* Both callers take the id of the new key from the returned record and    *)
(* its DEK from the cache, whatever the cache holds by now.  An entry      *)
(* cleared in between is a KeyError; no flush failed, so the scheduler's   *)
(* session stays usable (the scheduler itself cannot get here: only it     *)
(* clears the cache).                                                      *)
(***************************************************************************)
Reload(p) ==
    /\ At(p, "reload")
    /\ \/ /\ cache[frame[p].node] # None
          /\ frame' = [frame EXCEPT ![p].got.dek = cache[frame[p].node].dek,
                                    ![p].pc = AfterKey(frame[p].op)]
       \/ /\ cache[frame[p].node] = None
          /\ frame' = [frame EXCEPT ![p] = Return(p)]
    /\ UNCHANGED <<now, wrapped, active, stored, cache, round>>

-----------------------------------------------------------------------------
\* KeyManager.rotate_key, around generate_node_key.

\* Read any active row of node n as the old key, if there is one.
BeginRotation(p, n) ==
    /\ \E old \in {[key |-> k, dek |-> wrapped[k]] : k \in ActiveKeys(n)}
                  \cup (IF ActiveKeys(n) = {} THEN {NoPair} ELSE {}) :
          frame' = [frame EXCEPT ![p] = [Idle EXCEPT !.op = "rotate", !.pc = "snapshot",
                                                     !.node = n, !.seen = old]]

(***************************************************************************)
(* POST /admin/keys/rotate/{node_id} on a worker thread, up to the call of *)
(* rotate_key.  Left out is what follows it: the two sync events about the *)
(* new and the old row, and the rows of encryption_keys that a peer's such *)
(* events would write here.                                                *)
(***************************************************************************)
ManualRotation(t, n) ==
    /\ At(t, "idle")
    /\ BeginRotation(t, n)
    /\ UNCHANGED <<now, wrapped, active, stored, cache, round>>

(***************************************************************************)
(* Load the node's files that carry the old key.  A file the old DEK does  *)
(* not decrypt raises, is reported and skipped.                            *)
(***************************************************************************)
LoadFiles(p) ==
    /\ At(p, "load")
    /\ \/ /\ frame[p].seen # NoPair
          /\ frame' = [frame EXCEPT
                ![p].files = {f \in Files : /\ IsRow(f)
                                            /\ stored[f].node = frame[p].node
                                            /\ stored[f].key = frame[p].seen.key
                                            /\ stored[f].dek = frame[p].seen.dek},
                ![p].pc = "reencrypt"]
       \/ /\ frame[p].seen = NoPair
          /\ frame' = [frame EXCEPT ![p] = Return(p)]
    /\ UNCHANGED <<now, wrapped, active, stored, cache, round>>

\* Fault: the files are relabelled and keep their old ciphertext.
ReencryptLabelOnly(p) ==
    /\ At(p, "reencrypt")
    /\ \A f \in frame[p].files : stored[f] # Gone
    /\ stored' = [f \in Files |-> IF f \in frame[p].files
                                  THEN [stored[f] EXCEPT !.key = frame[p].got.key]
                                  ELSE stored[f]]
    /\ frame' = [frame EXCEPT ![p] = Return(p)]
    /\ UNCHANGED <<now, wrapped, active, cache, round>>

\* The loaded files are rewritten, content and label, in one commit.
Reencrypt(p) ==
    /\ At(p, "reencrypt")
    /\ \A f \in frame[p].files : stored[f] # Gone
    /\ stored' = [f \in Files |-> IF f \in frame[p].files
                                  THEN [node |-> frame[p].node, key |-> frame[p].got.key,
                                        dek |-> frame[p].got.dek]
                                  ELSE stored[f]]
    /\ frame' = [frame EXCEPT ![p] = Return(p)]
    /\ UNCHANGED <<now, wrapped, active, cache, round>>

\* Fault: a row that was deleted meanwhile is inserted again.
ReencryptRevives(p) ==
    /\ At(p, "reencrypt")
    /\ \E f \in frame[p].files : stored[f] = Gone
    /\ stored' = [f \in Files |-> IF f \in frame[p].files
                                  THEN [node |-> frame[p].node, key |-> frame[p].got.key,
                                        dek |-> frame[p].got.dek]
                                  ELSE stored[f]]
    /\ frame' = [frame EXCEPT ![p] = Return(p)]
    /\ UNCHANGED <<now, wrapped, active, cache, round>>

\* A loaded file was deleted meanwhile: the UPDATE matches no row, the commit
\* raises and no file is rewritten.  The new key is already in force.
ReencryptStale(p) ==
    /\ At(p, "reencrypt")
    /\ \E f \in frame[p].files : stored[f] = Gone
    /\ Fail(p)
    /\ UNCHANGED <<now, wrapped, active, stored, cache>>

-----------------------------------------------------------------------------
\* run_key_rotation_scheduler, on the event loop.

\* _get_active_node_ids: nodes with a key row or a file, or else the defaults.
NodesToRotate ==
    LET known == {n \in StorageNodes : \/ \E k \in KeyIds : k[1] = n /\ wrapped[k] # None
                                       \/ \E f \in Files : IsRow(f) /\ stored[f].node = n}
    IN IF known = {} THEN StorageNodes ELSE known

StartCycle ==
    /\ At(Loop, "idle")
    /\ round' = NodesToRotate
    /\ Goto(Loop, "round")
    /\ UNCHANGED <<now, wrapped, active, stored, cache>>

RotateNext(n) ==
    /\ At(Loop, "round")
    /\ n \in round
    /\ round' = round \ {n}
    /\ BeginRotation(Loop, n)
    /\ UNCHANGED <<now, wrapped, active, stored, cache>>

\* The cycle ends with clear_cache().
EndCycle ==
    /\ At(Loop, "round")
    /\ round = {}
    /\ cache' = [n \in StorageNodes |-> None]
    /\ frame' = [frame EXCEPT ![Loop] = Idle]
    /\ UNCHANGED <<now, wrapped, active, stored, round>>

-----------------------------------------------------------------------------
\* The file routes.

\* POST /files/upload, up to the key lookup.
StartUpload(n, f) ==
    /\ At(Loop, "idle")
    /\ stored[f] = None
    /\ frame' = [frame EXCEPT ![Loop] = [Idle EXCEPT !.op = "upload", !.pc = "lookup",
                                                     !.node = n, !.files = {f}]]
    /\ UNCHANGED <<now, wrapped, active, stored, cache, round>>

\* Encrypt and commit the new row.
Store(p) ==
    /\ At(p, "store")
    /\ stored' = [f \in Files |-> IF f \in frame[p].files
                                  THEN [node |-> frame[p].node, key |-> frame[p].got.key,
                                        dek |-> frame[p].got.dek]
                                  ELSE stored[f]]
    /\ frame' = [frame EXCEPT ![p] = Idle]
    /\ UNCHANGED <<now, wrapped, active, cache, round>>

\* GET /files/{file_id}: the row is read once, before the key lookup.
StartDownload(t, f) ==
    /\ At(t, "idle")
    /\ IsRow(f)
    /\ frame' = [frame EXCEPT ![t] = [Idle EXCEPT
          !.op = "download", !.pc = "lookup", !.node = stored[f].node, !.files = {f},
          !.seen = [key |-> stored[f].key, dek |-> stored[f].dek]]]
    /\ UNCHANGED <<now, wrapped, active, stored, cache, round>>

\* Fault: the key of the file is not looked up.
DecryptDekActiveOnly(p) == frame[p].got.dek

\* The key a download decrypts with: the one it was handed if the row names
\* it, otherwise the one wrapped in the record the row names.
DecryptDek(p) ==
    IF frame[p].seen.key = frame[p].got.key THEN frame[p].got.dek
                                            ELSE wrapped[frame[p].seen.key]

\* The response is sent: the plaintext if DecryptDek fits, otherwise a 500.
Decrypt(p) ==
    /\ At(p, "decrypt")
    /\ frame' = [frame EXCEPT ![p] = Idle]
    /\ UNCHANGED <<now, wrapped, active, stored, cache, round>>

\* DELETE /files/{file_id}.
DeleteFile(f) ==
    /\ IsRow(f)
    /\ stored' = [stored EXCEPT ![f] = Gone]
    /\ UNCHANGED <<now, wrapped, active, cache, frame, round>>

-----------------------------------------------------------------------------
\* The environment.

Tick ==
    /\ now < MaxTime
    /\ now' = now + 1
    /\ UNCHANGED <<wrapped, active, stored, cache, frame, round>>

\* The server process dies and starts again: open transactions roll back, and
\* calls, scheduler cycle and cache are lost.
Restart ==
    /\ cache' = [n \in StorageNodes |-> None]
    /\ frame' = [p \in Procs |-> Idle]
    /\ round' = {}
    /\ UNCHANGED <<now, wrapped, active, stored>>

-----------------------------------------------------------------------------
\* Steps that continue a call already started.
Continue(p) ==
    \/ Lookup(p) \/ Hit(p) \/ Fill(p)
    \/ Snapshot(p) \/ Deactivate(p) \/ CommitKey(p) \/ KeyClash(p)
    \/ Publish(p) \/ Reload(p)
    \/ LoadFiles(p) \/ Reencrypt(p) \/ ReencryptStale(p)
    \/ Store(p) \/ Decrypt(p)

Next ==
    \/ \E p \in Procs : Continue(p)
    \/ \E t \in Threads, n \in StorageNodes : ManualRotation(t, n)
    \/ \E t \in Threads, f \in Files : StartDownload(t, f)
    \/ \E f \in Files : DeleteFile(f)
    \/ \E n \in StorageNodes, f \in Files : StartUpload(n, f)
    \/ StartCycle
    \/ \E n \in StorageNodes : RotateNext(n)
    \/ EndCycle
    \/ Tick
    \/ Restart

Spec == Init /\ [][Next]_vars

(***************************************************************************)
(* A thread or the event loop that can go on does so.  Waiting for a row   *)
(* lock is strongly fair: PostgreSQL queues the waiters.  Requests,        *)
(* restarts, the clock and new scheduler cycles are not forced.            *)
(***************************************************************************)
Fairness ==
    /\ \A p \in Procs : WF_vars(Continue(p)) /\ SF_vars(Deactivate(p))
    /\ \A n \in StorageNodes : WF_vars(RotateNext(n))
    /\ WF_vars(EndCycle)

FairSpec == Spec /\ Fairness

-----------------------------------------------------------------------------
\* Properties.

\* Every variable has its type: the tables, cache and frames of the server.
TypeOK ==
    /\ now \in 1 .. MaxTime
    /\ wrapped \in [KeyIds -> Deks \cup {None}]
    /\ active \in SUBSET KeyIds
    /\ stored \in [Files -> FileRow \cup {None, Gone}]
    /\ cache \in [StorageNodes -> Pairs \cup {None}]
    /\ frame \in [Procs -> Frames]
    /\ round \in SUBSET StorageNodes

\* Whatever threads overlap, a cached (key_id, DEK) is a committed row: uploads
\* take both from the cache, downloads take the DEK of that id from the table.
CacheMatchesRecord ==
    \A n \in StorageNodes : cache[n] # None => wrapped[cache[n].key] = cache[n].dek

\* encryption_key_id of a stored file always names a key row: a key reaches
\* files only after its commit, and no rotation removes a row.
FilesHaveKeys ==
    \A f \in Files : IsRow(f) => wrapped[stored[f].key] \in Deks

\* Generating a key deactivates the old ones and inserts the new one in one
\* transaction: a node that ever had a key has an active one at every instant.
SomeKeyActive ==
    \A n \in StorageNodes :
        (\E k \in KeyIds : k[1] = n /\ wrapped[k] # None) => ActiveKeys(n) # {}

\* A download of a row that is readable ends with its plaintext, whatever
\* rotations do to key, cache and row meanwhile, or with the KeyError of a
\* cache cleared between its two accesses (Hit), and in no other way.
DownloadDecrypts ==
    [][\A t \in Threads :
          /\ frame[t].op = "download"
          /\ Continue(t)
          /\ frame'[t].op = "none"
          /\ wrapped[frame[t].seen.key] = frame[t].seen.dek
          => \/ At(t, "decrypt") /\ DecryptDek(t) = frame[t].seen.dek
             \/ At(t, "hit") /\ cache[frame[t].node] = None]_vars

\* Every stored file decrypts with the key its label names.
FileReadable ==
    \A f \in Files : IsRow(f) => wrapped[stored[f].key] = stored[f].dek

\* The DEKs wrapped in the key rows of node n.
Wrapped(n) == {wrapped[k] : k \in {j \in KeyIds : j[1] = n}} \ {None}

\* Whatever its label says by now, the ciphertext of a stored file can be
\* decrypted: its DEK is wrapped in some key row of its node.
FilesRecoverable ==
    \A f \in Files : IsRow(f) => stored[f].dek \in Wrapped(stored[f].node)

FV == INSTANCE FileVault WITH
        kept <- [n \in StorageNodes |-> Wrapped(n)],
        content <- [f \in Files |-> IF IsRow(f)
                                     THEN [node |-> stored[f].node, dek |-> stored[f].dek]
                                     ELSE stored[f]]

\* However rotations, uploads and deletions overlap and fail, keys are kept,
\* contents are under a kept key of their node, and no deleted file comes back.
Vault == FV!Spec

\* A rotation that re-encrypts without an error leaves every file of its node
\* under the new key.
RotationCoversNode ==
    [][\A p \in Procs : Reencrypt(p) =>
          \A f \in Files : IsRow(f)' /\ stored'[f].node = frame[p].node
                                => stored'[f].key = frame[p].got.key]_vars

\* No call waits forever for a row lock, and no scheduler cycle stays open:
\* the event loop, which serves every async route, becomes free again.
CallsReturn ==
    \A p \in Procs : frame[p].pc # "idle" ~> frame[p].pc = "idle"

=============================================================================
