# Verification of the cloud server: models, checks and proofs

This directory holds TLA+ models of the application servers of this repository,
TLC configurations that check them on small instances, and theorems checked by
TLAPS. Paths below are relative to the repository's root.

- [1. The system](#1-the-system)
- [2. What is hard about it](#2-what-is-hard-about-it)
- [3. Modules](#3-modules)
- [4. Model-checking runs](#4-model-checking-runs)
- [5. What the runs show to be different from what is promised](#5-what-the-runs-show-to-be-different-from-what-is-promised)
- [6. Proofs](#6-proofs)
- [7. What is left out](#7-what-is-left-out)
- [8. Plan](#8-plan)

## 1. The system

Three FastAPI servers (`application_server/main.py`) stand behind an nginx
gateway. Each has a PostgreSQL database of its own. Users, IP blocks, keys,
refresh tokens and access restrictions are replicated between the servers by
`security_modules/sync_manager.py`; files stay on the server they were uploaded
to. Inside a server there are

* one **event loop**, which runs the routes declared `async def` (upload, the
  receiving end of replication), the middleware, and the background tasks
  started in `startup_event` (`main.py:287-313`): the key rotation scheduler,
  the restriction cleanup, the push loop, the health check, the catch-up and the
  anomaly scan;
* a **pool of worker threads**, which runs the routes declared `def` (register,
  login, refresh, download, delete, manual rotation, the admin routes).

Database calls are synchronous everywhere: a coroutine gives the event loop away
only at an `await`, while worker threads interleave with it and with one another
at every statement.

| component | state | operations | interacts with |
|---|---|---|---|
| Key manager and rotation (`key_manager.py`, `key_rotation.py`) | `encryption_keys`; the in-memory `_key_cache` | `get_active_key`, `generate_node_key`, `rotate_key`, `clear_cache`; the scheduler's cycle; `POST /admin/keys/rotate/{node}` | rewrites `encrypted_files`; a manual rotation emits sync events |
| Encrypted file store (`main.py:590-735`) | `encrypted_files` | upload, download, delete | asks the key manager for keys, the access control for permission |
| Synchronisation (`sync_manager.py`, `main.py:342-383`) | `sync_events`, `sync_retry_queue` | `create_event`, `_queue_for_peers`, push loop, `apply_remote_event`, full dump, catch-up | called by every handler that changes a replicated table; writes those tables at the peers |
| Refresh tokens (`main.py:232-254`, `494-576`) | `refresh_tokens` | the end of login, refresh, replay detection | emits sync events |
| Login protection (`main.py:133-152`, `423-505`) | `users.failed_login_attempts`, `locked_until`; `ip_login_tracker`, `ip_blacklist` | login, the blocking middleware | emits sync events |
| Access restrictions and anomalies (`access_control.py`, `anomaly_detector.py`) | `access_logs`, `security_alerts`, `access_restrictions` | detector passes, `enforce_restriction`, resolving alerts, lifting, cleanup | emits sync events, `DELETE` among them; consulted by the file routes |
| Encryption primitives (`encryption.py`) | none | AES-GCM, wrapping | |
| Tokens and roles, admin views, cluster status, health check, logging | none of their own | read and print | |

### What makes each component correct

* **Keys.** A stored file decrypts with the key its label names, or at least with
  one that is still on record; every label names a key row; a storage node that
  ever had a key always has an active one, and only one; what uploads take from
  the cache is a committed row, and not a retired one; a download succeeds while
  rotations replace key, cache and row under it; every call and every scheduler
  cycle ends although calls wait for each other's row locks. What the code does
  not guarantee of this (one active key, no retired key in the cache, readable
  files) may go wrong only where calls overlap.
* **Synchronisation.** An event owed to a peer stays owed until the peer has
  logged it or has rolled it back, whatever crashes or times out; no event is
  applied twice; a log entry and its row change together; a committed change is
  lost only with a handler that a crash ends; what is owed arrives once peers
  answer; a dead peer does not block the others; once nothing is in flight,
  servers differ only by refusals, such crashes and the order of changes; a
  server that was down gets what it missed (which the code does not achieve).
* **Tokens.** A token is exchanged for as few others as the overlap of requests
  allows; nothing makes a revoked token valid again where it was issued; no
  session ends without a use of its token or a replay.
* **Login protection.** Nobody is locked out without the failures that earn it,
  whatever stale counters servers write over each other; a running lock is not
  shortened by a login that did not know of it (which the code achieves but for
  requests that take off an older lock, section 5); no failure goes uncounted
  (which the code does not achieve either).
* **Access control.** A suspension has a cause in the log and an alert an
  administrator can find; one spike is reported once per quiet time; lifting one
  suspension does not free a user more often than asked, on any server.

## 2. What is hard about it

`PROJECT.json` lists every hazard at its line. The ones that shaped the models:

1. **Cache, table and files are changed in separate steps** by `rotate_key`
   (`key_manager.py:119`, `122`, `188`, `208`), on worker threads as well as on
   the event loop, with no lock around them. Even a cache hit is two accesses
   (`key_manager.py:141`, `142`), and the scheduler may clear the cache between
   them.
2. **A change, its event and its queue items are three commits**
   (`main.py:408`, `sync_manager.py:93`, `112`); the payload is read again
   after the first.
3. **A push that times out is not undone**: the peer may apply it later, while
   the sender already pushes the same events again (`sync_manager.py:530`).
4. **Events are not ordered**: the `SELECT` at `sync_manager.py:487` has no
   `ORDER BY`, and the receiver applies the list as it comes.
5. **The receiver answers 200 even when an event failed** (`main.py:359`).
6. **Worker threads write rows between the receiver's lookup and its `INSERT`**
   (`sync_manager.py:204`).
7. **A token is checked, revoked and replaced in three steps** (`main.py:523`,
   `549`, `565`), and events about it overtake each other: the one that inserts
   it says that it is valid.
8. **A login works with rows it loaded before the password check**
   (`main.py:143`, `449`, `486`). What saves it is that the ORM writes changed
   columns only; what it costs is lost increments.
9. **An alert and its suspension are found through one table and lifted through
   another** (`anomaly_detector.py:107`, `access_control.py:105`), and the event
   of a lift names the user, not the row (`main.py:844`).

## 3. Modules

| module | models | extends |
|---|---|---|
| `FileVault` | abstract specification of encrypted storage | |
| `KeyManager` | key manager, scheduler and file routes of one server | instantiates `FileVault` |
| `KeyManagerProofs` | invariants of `KeyManager` | `KeyManager` |
| `FileVaultProofs` | `KeyManager` implements `FileVault` | `KeyManagerProofs` |
| `KeyOverlaps` | `KeyManager` with a history: where calls have overlapped | `KeyManager` |
| `KeyOverlapsProofs` | what only overlapping calls can break | `KeyOverlaps`, `KeyManagerProofs` |
| `MCKeyManager`, `MCKeyOverlaps` | symmetry sets for TLC | `KeyManager`, `KeyOverlaps` |
| `SyncDelivery` | abstract specification of the retry queue | |
| `SyncManager` | replication between the servers | |
| `SyncLosses` | `SyncManager` with a history: refused events, handlers cut off by a crash | `SyncManager`, instantiates `SyncDelivery` |
| `SyncManagerProofs` | invariants of `SyncManager`, whoever writes what | `SyncManager` |
| `SyncDeliveryProofs` | `SyncManager` implements `SyncDelivery`; what the servers agree on | `SyncLosses`, `SyncManagerProofs` |
| `MCSyncManager`, `MCSyncLosses` | who writes what, for TLC | `SyncManager`, `SyncLosses` |
| `RefreshTokens` | tokens, the routes that issue, exchange and revoke them, and their events | |
| `RefreshTokensProofs` | theorems about `RefreshTokens` | `RefreshTokens` |
| `LoginGuard` | counters and locks of accounts and addresses, on all servers | |
| `LoginGuardProofs` | theorems about `LoginGuard` | `LoginGuard` |
| `AccessControl` | failed logins, alerts, suspensions, on all servers | |
| `AccessControlProofs` | theorems about `AccessControl` | `AccessControl` |
| `MCRefreshTokens`, `MCLoginGuard`, `MCAccessControl` | which thread runs on which server, for TLC | the module of that name |

Definitions preceded by a comment `Fault:` are variants of an action with a
plausible bug. No specification uses them; they show that a property can fail.

### KeyManager

State: `wrapped` and `active` are the table `encryption_keys` (key id to the DEK
it wraps; ids with `is_active`), `stored` is `encrypted_files`, `cache` is
`KeyManager._key_cache`, `frame[p]` is the call that a worker thread or the
event loop is executing with its local variables, `round` the nodes that the
running scheduler cycle has not rotated yet, `now` the clock in seconds (key ids
are made of a node and a second).

`ManualRotation` ends with `rotate_key`. The two sync events that the route
sends afterwards are left out, and so are the rows that those of a peer write
(section 7).

A ciphertext is represented by the key that encrypts it: AES-GCM decrypts it
with that key and refuses every other. So `stored[f].dek` is what really
decrypts the file and `stored[f].key` what its label says.

Each database statement or commit and each access to the cache is a step.

| action | code |
|---|---|
| `StartUpload`, `Store` | `upload_file`: before the key lookup, and encryption with the commit of the row |
| `StartDownload`, `Decrypt` | `download_file`; `DecryptDek` is its choice between the active key and the record that the row names |
| `DeleteFile` | `delete_file` |
| `Lookup`, `Hit`, `Fill` | `get_active_key`: test of the cache, then table, then generation; the read of an entry that was there, a `KeyError` and so the download's 500 if it has been cleared since; caching the row that was read |
| `Snapshot`, `Deactivate`, `CommitKey`, `KeyClash`, `Publish`, `Reload` | `generate_node_key` and the cache read both callers do after it. The `UPDATE` takes its snapshot, waits for row locks (`LockedByOther`), and the `INSERT` commits or violates the unique key |
| `ManualRotation`, `BeginRotation`, `LoadFiles`, `Reencrypt`, `ReencryptStale` | `rotate_key`; the last one is the commit that fails because a loaded file was deleted |
| `StartCycle`, `RotateNext`, `EndCycle` | the scheduler; `Fail` models that its session stays unusable after a failed flush, so the rest of the cycle does nothing |
| `Tick`, `Restart` | the clock; death and restart of the server |

The event loop is one process (`Loop`): `upload_file` and the scheduler do not
`await` between their first and last database call, so they exclude each other.
Worker threads exclude nobody. PostgreSQL runs at READ COMMITTED, its default:
an `UPDATE` that waited for a lock re-checks the rows of its snapshot and does
not see rows inserted since.

`FileVault` says what all this promises of the contents, in two variables: the
DEKs that each storage node keeps, and for each file its node and the DEK that
really encrypts it. Keys are kept for good; an upload uses a kept key of the
node; several files are re-encrypted at once, under one kept key, or not at all;
a deleted file stays deleted. It knows no labels, cache, active keys, row locks,
threads or rotations. `KeyManager` implements it with `kept[n]` the DEKs wrapped
in the key rows of `n`, and `content` the rows without their labels. What the
abstract specification leaves out is where the code can go wrong, and what it
keeps is why nothing is lost by it: a wrong label makes a file unreadable for
the code, but its key is still on record.

`KeyOverlaps` adds one history variable, `overlaps`: the storage nodes for which
two calls have been at work on keys at the same time, between their reading of
the key rows and their last access to the cache (`AtWork`). Several properties
that one would expect of the code fail, and all of them because of such overlaps.
With the history they can be stated for the code as it is, worker threads
included: a file, key row or cache entry in a bad state is one of a node in
`overlaps`. A bug that needs no overlap (a step left out, a wrong order, a crash
or a failed commit at a bad moment) would violate them.

### SyncManager

State: `rows[n]` are the replicated tables of server `n` (one value stands for
the columns of a row), `log[n]` is `sync_events`, `queue[n]` is
`sync_retry_queue`, `tasks[n]` are handlers between the commit of their change
and the end of `_queue_for_peers`, `push[n]` is the push loop with its batch and
the peer it waits for, `inbox[p]` are requests that reached `p`, `serving[p]` is
the request whose events `p` is applying, `catchUp[n]` is the catch-up task.
A request carries `live`: does the sender still wait for its answer?

| action | code |
|---|---|
| `Write` | a handler commits a change to a replicated row |
| `ReadPayload` | the attributes are read from the table again (the commit expired the object) |
| `CreateEvent`, `QueueForPeers` | the two commits of `create_event` and `_queue_for_peers` |
| `Poll`, `Send`, `SendInVain`, `Acknowledge`, `Fail` | `run_sync_push_loop`: the oldest `BatchLimit` items with fewer than `MaxRetries` attempts; one POST per peer, which may not arrive; status 200; anything else |
| `Receive`, `BeginApply`, `CommitApply`, `RejectApply`, `Respond` | `receive_sync_push` and `apply_remote_event`: skip what is logged, look the row up, commit row and log entry together or roll both back, answer 200 |
| `FetchFull`, `SkipCatchUp`, `ApplyFullSync` | `run_catch_up_sync` and `apply_full_sync`; the body of the answer has its keys, `node` and `data`, because the code's mistake is about them |
| `Crash`, `Restart` | death of a server process and its start |

`rows` stands for the tables whose events insert or update (users, IP blocks,
keys, refresh tokens). `Writers[r]` says which servers' users write record `r`:
all of them in general; `ReplicaMatchesLog` speaks of the others.

`SyncDelivery` says what the queue promises, in three variables: the events each
server has recorded, the pairs of event and peer still owed, and the events each
peer has refused. It knows no requests, batches, answers, timeouts or crashes. An
owed event stays owed until it is delivered or refused. The code does refuse: an
event whose application fails is rolled back and answered like the others, and
the sender forgets it.

`SyncLosses` adds the history that tells these cases apart: `refused[n]` are the
events that `n` has rolled back, `cut[n]` the handlers of `n` that a crash has
ended between their commits. `SyncManager` then implements `SyncDelivery`,
whoever writes what, with `known <- log` and `owed <- StillOwed`: an event is
still owed to a peer if a queue item for it exists and the peer has neither
logged nor refused it. `NoLostWrite` and `DeliveredAgree` say of the changes what
`Delivery` says of the events: there is no third way to lose one. `OwedIsDelivered`
says that the state `DeliveredAgree` speaks of, with everything delivered, is
reached.

The next three modules build on this abstraction. In each, `events` is a set of
events on their way: they arrive late, in any order, at most once, or never.
That is what `SyncManager` shows of the queue beneath (`NeverAppliedTwice`, and
`Delivery` without a promise about order), and a module of rows needs no batches
or answers. Losing an event needs no action of its own, since nothing forces its
arrival. In each, `Server[t]` is the server on which worker thread `t` runs, and
`Crash(n)` ends the requests of server `n` and leaves its tables as they are.

### RefreshTokens

State: `status[n]` is `is_revoked` of the rows of `refresh_tokens` at server
`n`; `issued` remembers for each token the user, the server that issued it, and
the token it was given for; `call[t]` is the request of a worker thread with the
token it presented. `used` and `replayed` record the past for the properties.

| action | code |
|---|---|
| `Login`, `CreateToken` | the end of `login`, with `create_refresh_token` and its event |
| `Present` | `refresh_access_token` reads the row: absent or expired refuses, valid goes on, revoked is a replay |
| `Revoke`, `Exchange`, `UserUnknown` | the commit that revokes the presented token, the commit of the new one, and the 401 if the user's row has not arrived from the server of registration |
| `RevokeAll`, `AnnounceAll` | a replay: one `UPDATE` for all tokens of the user; one event for each token there is by then |
| `Apply` | `_apply_insert` and `_apply_update` of a peer: both set `is_revoked` to what the event says |

### LoginGuard

State: `row[n]` holds, for each account, `failed_login_attempts` and
`locked_until`, and for each address the row of `ip_blacklist`; `call[t]` is a
login with both rows as it loaded them; `serving[n]` is the event a server is
applying, with the row as it was found. `wrong` counts the refused passwords by
account and by address.

SQLAlchemy keeps an object's columns until a commit expires them, and its
`UPDATE` names only the columns whose value changed. `Written(current, loaded,
new)` is what such an `UPDATE` makes of the row that is in the table by then.
Every write goes through it.

| action | code |
|---|---|
| `Arrive`, `EndBlock` | `ip_block_middleware`: a blocked address is refused, a block that has ended is reset in a commit of its own |
| `Check`, `EndLock`, `Reload` | the account is loaded; locked is refused, an ended lock is reset, and the object is loaded again |
| `Verify` | the password check, after which the tracker row is loaded |
| `CommitFailure`, `FailureClash` | both counters in one commit (`Tracked`, `Failed`), or the violated unique key of a tracker that two requests insert |
| `AnnounceTracker`, `AnnounceLock` | the two events, with the rows as they are by then |
| `CommitSuccess` | both counters cleared; no event |
| `BeginApply`, `CommitApply` | a peer looks the row up and writes what differs from it |

### AccessControl

State: `log[n]` are the failed logins in `access_logs`, `alerts[n]` is
`security_alerts`, `rows[n]` is `access_restrictions`, `made[n]` the next id of
that table, `todo[n]` what is left of the pass of the detector, `call[t]` an
administrator's request. `lifted` and `freed` count the lifts asked for, and the
suspensions that ended before their time.

| action | code |
|---|---|
| `LogFailure` | the middleware's log of a failed login, with the name in the access token sent along |
| `StartPass`, `Judge`, `FailPass` | `detect_failed_auth_spikes` with `enforce_restriction`: group by address and name, look for an alert, commit alert and suspension together; a failed commit ends the pass |
| `Detect` | the three detectors that only raise alerts |
| `Cleanup` | `lift_expired_restrictions` |
| `Resolve`, `AnnounceResolved` | `resolve_alert` and its event |
| `AnnounceLift`, `Lift` | `lift_restriction`: event first, then the row |
| `ApplyLift`, `ApplyResolved` | a peer deletes any restriction of the user; resolves any alert with that content, or inserts it |

All actions of the event loop that write these tables run between two `await`s,
so the only thing that falls between the commits of a pass is a worker thread
(an administrator's route), or the end of the process.

## 4. Model-checking runs

`tlc -config <cfg> <module>`; each takes a minute at most.

| run | instance | what it checks |
|---|---|---|
| `key_threads` | 1 storage node, 1 file, 2 threads and the event loop, 2 seconds | `TypeOK`, `CacheMatchesRecord`, `FilesHaveKeys`, `SomeKeyActive`, `DownloadDecrypts`, `FilesRecoverable`, and `Vault`, the refinement of `FileVault` |
| `key_nodes` | 2 storage nodes, 1 file, 1 thread and the event loop, 2 seconds | `UnreadableByOverlap`, `SecondKeyByOverlap`, `StaleCacheByOverlap`: what can only go wrong where calls overlap |
| `key_live` | 1 node, 1 file, 1 thread, 2 seconds, with fairness | `CallsReturn`: no call waits forever, every cycle ends |
| `sync_crash` | 2 servers, one writes twice, 1 crash, 1 lost connection or timeout | `TypeOK`, `ReplicaMatchesLog`, `NoLostWrite`, and `Delivery`, the refinement of `SyncDelivery` |
| `sync_both` | 2 servers, both write the same record, 1 crash, 1 lost connection or timeout | `NeverAppliedTwice`, `NoLostWrite`, `DeliveredAgree`, and `Delivery` with refused events |
| `sync_live` | 2 servers, one record written by one of them, one by both, 1 lost connection or timeout for 2 attempts, with fairness | `OwedIsDelivered`: every queue is emptied, and every event reaches the peers that cannot refuse it |
| `sync_starve` | 3 servers, one may stay down, one item per cycle, with fairness | `Unstarved`: items of the dead peer do not block those of the other |
| `tokens` | 2 users, 3 tokens, 2 threads on one server and 1 on another, 3 refreshes | `TypeOK`, `ExchangesOverlap`, `RevokedForCause`, `HomeStaysRevoked` |
| `login` | 1 account, 1 address, 2 threads on one server and 1 on another, 3 logins, the limit is 2 | `TypeOK`, `LocksAreEarned`, `LocksSurviveStaleLogins` |
| `access` | 1 user, 1 address, 2 servers with a thread each, 2 requests | `TypeOK`, `SuspensionsAreEarned`, `SuspensionsHaveAlerts`, `AlertsApart`, `LiftsRemoveOne` |
| `key_unreadable`, `sync_diverge` | see section 5 | end in a counterexample |

Why these bounds are enough for the interesting cases to occur:

* Two seconds give a node two keys, so a rotation, and a second generation in
  the same second, which fails. Two threads and the event loop give three
  overlapping calls: two rotations and a download, or an upload. Deletion and
  restart are possible in every state.
* Two storage nodes let calls for one node, which may not excuse a bad state at
  the other, run while calls for both overlap (`key_nodes`).
* Two servers that write the same record (`sync_both`) insert it while the other
  applies an event about it, which is what makes an event fail. In `sync_live` the
  event that fails shares its request with one that does not.
* Two attempts per item let an item fail once and still be delivered, or fail
  twice and be dead. One timeout at any moment gives a duplicate request that
  the peer processes while the repetition arrives. `BatchLimit` 2 puts two
  events into one request in any order; 1 makes items of different peers
  compete. A crash may hit sender or receiver at each of the commits.
* Symmetry (files, threads and storage nodes; values) is used only where no
  liveness property is checked.
* Three tokens and three refreshes give an exchange, a second exchange of the
  same token that overlaps it, or one at the other server after a late event, and
  a replay. The third thread is on a server of its own, so that one server has
  two overlapping requests and the other receives their events.
* The durations of `LoginGuard` and `AccessControl` are scaled down to the clock:
  what matters is which of two moments is the later one, not how far apart they
  are. `login`: a limit of 2 is reached by two of three logins, which may be on
  one server, on two, or overlap; a block ends after one tick, a lock after two,
  and a day has three, so both end and a day passes within the four ticks.
  That one of two requests which both found an ended lock takes off a new one
  needs a fourth login, so in this run it does not occur; `MCLoginLast.cfg`
  shows it with a limit of 1, and the theorem covers it.
  `access`: a threshold of 0 makes one failure a spike and two a larger one; a
  failure counts, and an alert holds back, for the instant it is made in; a
  suspension ends at the next. Two requests are two lifts of different rows, a
  lift here and one there, or a lift and a resolution. The theorems hold for the
  real durations.
* The bounds themselves are `MaxTime`, `MaxWrites`, `MaxFaults`, `MaxCrashes`,
  `MaxRequests`, `MaxLogins` and `MaxRows`; everything else is unbounded or
  bounded by the code. Deadlock is checked for the key manager, tokens, login and
  access control. The replication runs switch the check off: after
  `MaxWrites` writes everything is delivered and the system rests.

Every passing run's properties were also seen to fail on a faulty variant of
an action (the definitions marked `Fault:`).

### Fairness

* `KeyManager`: a worker thread or the event loop that can take its next step
  takes it (weak fairness of `Continue(p)`): threads are scheduled by the
  operating system, and coroutines by asyncio. Waiting for a row lock is
  strongly fair (`Deactivate`): PostgreSQL queues the waiters of a lock. A
  scheduler cycle that was begun is gone through (`RotateNext`, `EndCycle`).
  Requests, restarts, the clock and new cycles are not forced.
* `SyncManager`: handlers, push loop and event loop of a running server go on.
  Crashes, restarts, writes and catch-up are not forced; `docker-compose.yml`
  gives `restart: always` to the databases only, so a dead server may stay dead.
  Timeouts are bounded by `MaxFaults`, fewer than the attempts of an item: with
  more of them the code gives up by design.

## 5. What the runs show to be different from what is promised

Two runs end with a violation, and each is a `finding` in `PROJECT.json` with
the line that promises otherwise.

* `key_unreadable` (`FileReadable`). `rotate_key` and `get_active_key` label with
  the key id they generated but encrypt with whatever DEK is in the cache by
  then (`key_manager.py:188`, `154`). An overlapping rotation on a worker thread
  in between makes the file unreadable. It is not lost: its key is still in a row
  of the node (`FilesRecoverable`), only under another id. That nothing but an
  overlap of two calls does this is `UnreadableByOverlap` (`key_nodes`), which is
  also proved for every size.
* `sync_diverge` (`Converged`). Two updates of one record in one batch may be
  applied in reverse; with every queue empty, the servers differ forever. No
  fault is needed. What else two servers can differ by in the end is
  `DeliveredAgree`: an event that one has rolled back, or a change that a crash
  has cut off.

Six more configurations end in a counterexample, each against a line of the
repository. They are kept to reproduce it, with
`tlc -config <cfg> <module>`.

| configuration | module, property | what happens | what is said |
|---|---|---|---|
| `MCKeyLeftover.cfg` | `MCKeyManager`, `RotationCoversNode` | Files left under an older key, by a crash between the commit of the new key and the re-encryption or by a failed commit, are never re-encrypted: a rotation loads only files of the key that was active when it began (`key_manager.py:195`). | `key_manager.py:163`: "Generates a new key AND re-encrypts all files on that node." |
| `MCSyncReject.cfg` | `MCSyncManager`, `QueueKeepsUntilApplied` | Two servers write one record; an event whose application failed is reported as an `error` inside a 200 answer, and the sender removes its item (`sync_manager.py:518`). | `sync_manager.py:519`: "Success — remove from retry queue" |
| `MCSyncCatchUp.cfg` | `MCSyncManager`, `CatchUpMerges` | The catch-up hands the body `{"node": ..., "data": {...}}` to a function that expects the tables at the top level, and merges nothing (`sync_manager.py:572`). | `sync_manager.py:550`: "This ensures a node that was down catches up on missed events." |
| `MCTokensOnce.cfg` | `MCRefreshTokens`, `OneTimeUse` | Two refreshes with one token both find it valid, and both get a new one (`main.py:523`). The bound that does hold is `ExchangesOverlap`. | `main.py:508-511`: "The used refresh token is revoked (one-time use) and a new one is issued." |
| `MCLoginCount.cfg` | `MCLoginGuard`, `LockedAtLimit` | Two failed logins load the same counter and one increment is lost, so the account is not locked at the limit (`main.py:449`). | `project_plan.txt:132`: 5 consecutive failed password attempts lock the account for 30 minutes. |
| `MCLoginLast.cfg` | `MCLoginGuard`, `LocksLast` | Two requests load an account (or an address) whose lock has ended. One takes it off, fails and is locked anew; the other then takes off the new lock, which it has never seen (`main.py:433`, `143`). | `project_plan.txt:132`: the account is locked for 30 minutes. |

What else reading the code showed, without a property:

* `project_plan.txt:130` blocks an address that generates more than 5 failures
  within 1 minute. The code blocks at the fifth, and counts failures of which
  each is within a minute of the one before, whole days not counted
  (`main.py:446`, `Seconds`).
* `CROSS_NODE_ANOMALY` looks for one user at several nodes in `access_logs`, but
  every row names the server's own `NODE_ID` (`main.py:189`) and the log is not
  replicated, so that alert is never raised.
* An alert about a spike keeps others of the same address back whoever the user
  is (`anomaly_detector.py:107`): a second user of the address gets neither alert
  nor suspension. Hence `SuspensionsHaveAlerts` is about numbers, and its converse
  is false.
* A lift leaves the user's other suspensions in force, and its event may delete
  one that the peer imposed itself (`main.py:844`).

What the code does not keep when calls overlap: a second active key (two
generations both insert one) and a retired key in the cache (a fill that
overlaps a rotation puts it back, `key_manager.py:157`). `SecondKeyByOverlap` and
`StaleCacheByOverlap` confine both to overlaps. A crash between the three commits
of a change loses it for the peers; `NoLostWrite` confines the loss to that.

## 6. Proofs

### Keys

`tlapm` on `KeyManagerProofs.tla`, `FileVaultProofs.tla` and `KeyOverlapsProofs.tla`
checks the proofs, for every number of storage nodes, files, threads and seconds.
Assumed are only the `ASSUME`s of `KeyManager`: the event loop is not a worker
thread, `None` is not a DEK, the markers of absent and deleted rows are different from each other and
from rows, `MaxTime` is a positive number.

| theorem | states |
|---|---|
| `KeyTypeOK` | `Spec => []TypeOK` |
| `CacheIsCommitted` | `Spec => []CacheMatchesRecord` |
| `KeysOutliveFiles` | `Spec => []FilesHaveKeys` |
| `NeverWithoutKey` | `Spec => []SomeKeyActive` |
| `DownloadsDecrypt` | `Spec => DownloadDecrypts` |
| `OnlyOverlapsLoseFiles` | `OverlapSpec => []UnreadableByOverlap` |
| `OnlyOverlapsLeaveTwoKeys` | `OverlapSpec => []SecondKeyByOverlap` |
| `OnlyOverlapsCacheOldKeys` | `OverlapSpec => []StaleCacheByOverlap` |
| `FilesStayRecoverable` | `Spec => []FilesRecoverable` |
| `ImplementsVault` | `Spec => Vault`, that is `FV!Spec` |

**The argument.** None of the properties is inductive: a call carries a key in its
local variables from one step to the next, and what it does later is right only
because of what it holds. `IInv` therefore adds, for each label of a call, what
the call knows there (`CallOK`: a key that is being published is already
committed, the rows a transaction has locked belong to its node, and so on) and
what a download knows (`DownloadOK`: the row it loaded names a committed key,
and a key it had to generate itself is another one). What makes these facts
survive the steps of other calls is that rows of `encryption_keys` are never
removed or rewritten; the lemma `StepOfCall` isolates that argument, so that each
action has to be looked at only for the call that takes it. The proof then has
one lemma per action.

`SomeKeyActive` needs more care than it seems: two generations deactivate
overlapping sets of rows, but each inserts an active row of the same node in the
same commit.

The three theorems about overlaps are about one storage node at a time. As long
as no two calls have been at work on keys of node `n` at the same time, `NodeOK(n)`
holds: its files are readable, it has at most one active key, the cache has that
key or none (or the call that has just committed another one is about to publish
it), and a call of the node still finds what it has left behind (`CallFits`: the
rows it has locked are the active ones, the key it is about to cache is active,
the entry it is about to read again is its own or cleared). A step of a call of
another node changes nothing of that (`NodeStep`), and a step of a call of `n` meets
no other one at work there, or the node is in `overlaps` by then. No hypothesis
about the threads is made: they are what puts nodes into `overlaps`. The run
`key_unreadable` is such an overlap, and shows that it does what the theorem
allows. Downloads count: after a restart has emptied the cache, a download may
look its key up in the table before a scheduled rotation commits, and put it into
the cache after the rotation has published its own and before it reads it back.
The rotation then encrypts with the retired key and labels with the new one.

`DownloadsDecrypt` is about the step with which a download ends. It allows one
failure, the `KeyError` of an entry that was there when it was looked for and has
been cleared when it is read (`Hit`); everything else that could go wrong between
loading the row and decrypting it is excluded.

`FilesStayRecoverable` and `ImplementsVault` hold whatever overlaps. What a call
holds from `Reload` on is some committed pair of its node, whoever put it into
the cache, and since key rows stay, its DEK is still wrapped when the call
encrypts with it (`HoldsOK`, `WrappedKept`). Of the files a rotation has loaded,
other calls can only delete some, and then the whole commit fails
(`ReencryptStale`); a file id that an upload has chosen is nobody else's. With
that `CommitKey` is `KeepKey`, `Store` is `Upload`, `Reencrypt` and `DeleteFile`
are the actions of these names, and every other step stutters.

### Replication

`tlapm SyncManagerProofs.tla` and `tlapm SyncDeliveryProofs.tla` check the proofs,
for every number of servers, records, contents, items per cycle, attempts, writes,
faults and crashes. Assumed are the `ASSUME`s of `SyncManager`: the special
values are different from the ordinary ones, a cycle takes at least one item and
an item has at least one attempt.

| theorem | states |
|---|---|
| `SyncTypeOK` | `Spec => []TypeOK` |
| `RowsFollowLog` | `Spec => []ReplicaMatchesLog` |
| `AppliedOnce` | `Spec => []NeverAppliedTwice` |
| `ImplementsDelivery` | `LossSpec => Delivery`, that is `SD!Spec` |
| `ChangesTravel` | `LossSpec => []NoLostWrite` |
| `NodesAgree` | `LossSpec => []DeliveredAgree` |

`LossSpec` is `Spec` with the history of `SyncLosses`; none of the theorems
restricts who writes what, or crashes. `MCSyncReject.cfg` shows that "or has
rolled it back" cannot be left out of `Delivery`: with two writers the peer may
refuse an event, and the sender forgets it.

**The argument.** The first three theorems need `IInv`: handlers have committed
what they work on (`TasksOK`), a batch is a part of the queue (`BatchesOK`), and
above all where events come from: a server queues its own events for others
(`QueuesOK`), and what a server is asked to apply was made elsewhere
(`OriginsOK`). So the only thing that can log an event which the server is
applying is that application.

The refinement follows a request from the queue to the answer (`SInv`). What a
request asks for is still in the sender's queue, or the peer has dealt with it:
logged it or rolled it back (`Got`, `RequestsKept`). Requests may be duplicated
and delayed, but an answer can come only from the one request that the sender is
waiting for, and everything in its group is to be applied, being applied or dealt
with (`LiveOK`). So once the answer has come, the group is dealt with
(`AnsweredOK`), and removing its items changes no debt. With that, `CreateEvent`
is `Record`, `QueueForPeers` is `Owe`, `CommitApply` is `Deliver`, `RejectApply` is
`Refuse`, and every other step stutters (`DeliveryStep`). A duplicate of a request
may deliver an event that was refused at first, which is why `Deliver` allows it.

`NoLostWrite` is inductive with that: a handler goes from commit to commit, or
ends in `cut`, and an item leaves the queue only for `Got`.

`NodesAgree` says what replication achieves in the end. Its invariant (`AgreeInv`)
follows an event from its source and a row to its event: whatever is dealt with or
queued anywhere was logged by its source (`EventsKnown`); an event of a server's
own is dealt with by each peer, in the queue, with the handler that will queue it,
or that handler was cut off (`OwnTravel`); a row with such an event exists
(`LoggedRows`); and the content of a row is logged, a handler has yet to read or
log it, or a crash cut one off (`RowsTravel`: the payload is read from the table
after the commit, so of several handlers that have written a row the last to read
finds what is there). When handlers and queues are empty, only the first
alternatives and those of the history are left.

### Refresh tokens

`tlapm RefreshTokensProofs.tla`, for every number of servers, users and bound, and
every finite set of threads and tokens. Assumed are the `ASSUME`s of
`RefreshTokens`: each thread has a server, and `None` is none of the others.

| theorem | states |
|---|---|
| `TokensTypeOK` | `Spec => []TypeOK` |
| `SessionsEndForCause` | `Spec => []RevokedForCause` |
| `RevokedForGood` | `Spec => HomeStaysRevoked` |
| `ExchangesBounded` | `Spec => []ExchangesOverlap` |

**The argument.** `IInv` says that a revocation has a cause wherever it is: in a
table, in an event on its way, or in a request about to spread it (`Causes`); and
that an event which could make a token valid never goes to the server that issued
it (`NotHome`). `RevokedForGood` follows from the second.

`ExchangesBounded` counts (`OInv`). Call a request a holder of `k` if it found
`k` valid and has not obtained the new token yet. The tokens obtained for `k` at
a server and the holders of `k` there together are never more than the threads of
that server (`Counted`): an exchange turns a holder into a token, and a request
can become a holder only while `k` is valid there. While it is valid it has not
been exchanged there (`ValidOnce`), so then the first summand is 0; and the only
thing that makes a token valid at a server other than its home is its `INSERT`
event, which a server gets once, so that before it nobody could hold or exchange
the token there.

### Login protection

`tlapm LoginGuardProofs.tla`, for every number of servers, threads, accounts and
addresses, every limit and duration. Assumed are the `ASSUME`s of `LoginGuard`:
each thread has a server, names and addresses differ, limit and day are positive.

| theorem | states |
|---|---|
| `LoginTypeOK` | `Spec => []TypeOK` |
| `LocksEarned` | `Spec => []LocksAreEarned` |
| `LocksSurvive` | `Spec => LocksSurviveStaleLogins` |

**The argument.** Copies of a row are everywhere: in the tables, in requests that
loaded it, in events, in a server that applies one. Any of them may be written
over any other, column by column. So the invariant speaks of all copies at once
(`AllSound`): a copy counts no more failures than there were, has a lock only if
the limit was reached, and none that ends later than one set now. `Written` mixes
sound copies into sound ones (`WrittenSound`), and sound copies stay sound while
failures are counted and time goes on (`SoundLater`). The last clause, with
`Written`, gives `LocksSurvive`: a failure that sets a lock anew never makes it
shorter, and a copy whose lock was not assigned leaves the column alone. What
remains are the steps the property names, each of the very request that acts:
taking off a lock that had ended when it was loaded (`CallSound`), and a success
that had been shown a lock. The first of them is not harmless, see
`MCLoginLast.cfg` in section 5.

### Access control

`tlapm AccessControlProofs.tla`, for every number of servers, threads, users and
addresses, every threshold and duration. Assumed are the `ASSUME`s of
`AccessControl`: each thread has a server, `None` is no user, address or server,
and the other detectors raise alerts of other kinds.

| theorem | states |
|---|---|
| `AccessTypeOK` | `Spec => []TypeOK` |
| `AlertsStayApart` | `Spec => []AlertsApart` |
| `SuspensionsEarned` | `Spec => []SuspensionsAreEarned` |
| `SuspensionsShown` | `Spec => []SuspensionsHaveAlerts` |
| `LiftsCount` | `Spec => []LiftsRemoveOne` |

**The argument.** `TInv` collects what all need: ids are unique, a request is about
a row that exists or did, an event lifts or resolves. `AInv` adds that alerts were
not created in the future and that an event never brings an unresolved alert.
`EInv` adds that a group in `todo` has its failures in the log, which only grows.
`HInv` compares two sets of growing size: a suspension comes with an alert of its
own, in the same commit, and alerts are never removed. `LInv` keeps a balance:
the user was freed at a server as often as lifts were asked for, less the events
still on their way there and the requests there that have not yet deleted their
row; `Asked` and `Deleting` count these. A crash drops a request, which leaves
something over, so it is an inequality.

### Only model-checked

The liveness properties (`CallsReturn`, `OwedIsDelivered`, `Unstarved`): liveness
under fairness is outside what the provers used here can handle. Everything else
that a passing run checks is a theorem as well, without further hypotheses.
`Converged`, `QueueKeepsUntilApplied`, `CatchUpMerges`, `RotationCoversNode`,
`FileReadable`, `OneTimeUse`, `LockedAtLimit` and `LocksLast` do not hold
(section 5).

## 7. What is left out

* Contents and lengths of files, nonces, tags, the wrapping of keys: abstracted
  to which key decrypts what.
* Ownership and restriction checks of the file routes: they guard an action
  and change nothing of its effect on keys.
* The columns of replicated rows, `created_at` of events, JSON encoding.
* `get_events_since` and its route: nothing in the repository calls it.
* The key events of a manual rotation: they would join two key managers. A peer
  that applies one changes a key row and keeps its cache (`sync_manager.py:428`),
  and two servers that rotate a node in the same second make two keys of one id
  (`main.py:937`). Files stay on the server they were uploaded to, so what this
  could break is the readability of files whose key row a peer overwrites; no
  line promises that manual rotations of two servers may overlap.
* In `AccessControl`, what the three detectors that only raise alerts find in the
  log is left open (`Detect` takes any group of `Others`), and restrictions of
  type `node_block` and `file_block`: nothing creates one.
  `check_access_restriction` changes nothing; whom it keeps out is `Running`.
* Expiry of refresh tokens: an expired one is refused, which changes nothing, and
  a revoked one is a replay whether expired or not.
* `LoginGuard` starts with every account at every server; how a registration
  travels is a matter of `SyncManager`.
* Isolation of the receiver against the push loop of the same server: both run
  on one event loop. The model lets them interleave, which they hardly can, but
  they touch different tables.
* Signed access tokens and role checks (pure functions of a library), admin
  views, cluster status, health check, logging, gateway, client, deployment,
  and the attack and test scripts: no state that a property here is about.

## 8. Plan

Built: `FileVault`, `KeyManager` and `KeyOverlaps`, `SyncDelivery`, `SyncManager` and
`SyncLosses`, `RefreshTokens`, `LoginGuard`, `AccessControl`, with their proofs.

Left, in this order:

1. A joint abstract specification of a replicated row (a set of values on their
   way), instantiated by `RefreshTokens`, `LoginGuard` and `AccessControl`, and
   `SyncManager` shown to implement it, so that the reading of `events` in these
   three modules is checked instead of argued.
2. `KeyCluster`: `KeyManager` on two servers, joined by the events of a manual
   rotation.
