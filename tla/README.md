# TLA+ models of the baud zone-master control plane

These modules model the control plane of the repository: the zone master (ZM)
keeps the metadata of each partition, and the partition servers (PS) host its
replicas. The models are checked with TLC.

## The system and its parts

| Part | Source | State | Operations |
|------|--------|-------|------------|
| Partition record | `src/master/partition.go` (`Partition`) | `Epoch.ConfVersion` and `Replicas`, which are persisted; `Leader`, `taskFlag` and `taskTimeout`, which live in memory only | `UpdateReplicaGroupByCond`, `ValidateAndUpdateLeaderByCond`, `takeChangeMemberTask`, `countReplicas`, `pickLeaderNodeId`, `addReplica`, `deleteReplica` |
| Partition cache | `src/master/partition.go` (`PartitionCache`) | the records | `Recovery` after a restart, lookups |
| Routing tree | `src/master/partition.go` (`PartitionTree`) | a btree keyed by slot range | `update`, `remove`, `search`, `multipleSearch` |
| Heartbeat reconciler | `src/zm/rpc_server.go` (`PSHeartbeat`) | none of its own | one concurrent handler per PS heartbeat |
| Master admin RPCs | `src/zm/rpc_server.go` | none of its own | `CreatePartition`, `DeletePartition`, `ChangeReplica` |
| Partition processor | `src/master/processor.go` | the `ProcessorManager` singleton (`processorManagerSingle`, `processorManagerSingleDone`, its lock); per manager `isStarted`, its context, `eventCh` (bounded) and one goroutine per event | `GetPMSingle`, `start`, `PushEvent`, `Run`, `createPartition`, `deletePartition`, `forceDeletePartition`, `Close` |
| PS admin | `src/ps/server/server_admin.go` | `partitions`; `adminEventCh` (capacity 64) | the admin RPC handlers; `adminEventHandler` and `doAdminEvent`, which run on a single thread |
| PS lifecycle | `src/ps/server/server.go` | the server's meta and stores | `doStart`, `register`, `recoverPartitions`, `restart`, `Close` |
| Topology watch | `src/topo/etcd3topo` | the watch streams | `Watch`, `WatchDir`, `ListDir` |
| Util | `src/util/common.go` | none | `SlotSplit`, `BytesPrefix`, codecs |
| Engine | `src/engine/bleve/rocksdb` | the rocksdb database; a Reader's snapshot; an Iterator's position, key and validity | `Writer.ExecuteBatch`, `NewReader`, `PrefixIterator`, `RangeIterator`, `Iterator.Seek`/`Next`/`Close`, `Reader.Close` |

### How the parts interact

1. A PS heartbeats each partition it hosts: its ConfVersion, whether it leads, and a RaftStatus (the replica and its followers).
2. The reconciler compares the heartbeat with the master's record.
   - It may update the record's group or leader. Each update is persisted before the cache is swapped.
   - It may push a Create or Delete event. It does so only after taking the per-partition change-member latch, which times out after 30 s.
3. The processor runs every event in its own goroutine, and each one makes RPCs to PSs.
   - Create: `CreatePartition` to a selected PS, then `AddReplica` to the leader.
   - Delete: `RemoveReplica` to the leader, then `DeletePartition` to the replica's PS.
   - A failed RPC is logged and dropped.
4. The PS queues admin requests and handles them on a single thread. `ChangeReplica` is applied through the partition's consensus group.
5. The topology watch stands apart. `Watch` reads a node from etcd and starts a watcher; `ListDir` lists a directory and `WatchDir` watches its prefix. For each watch a goroutine turns the watcher's events into items on a bounded channel. Nothing in `src` calls it yet; the spec says watchers consume topology changes.

### What is hard about it

- Heartbeat handlers run concurrently. Each one reads `confVerMS` without the lock and re-checks under the lock in a later call.
- The record is persisted and then swapped, and `store.Put` may fail.
- The master can crash or panic and restart. Only the persisted part of the record survives.
- The latch's 30 s timeout can fire while an event is still in flight.
- The event channel rejects new events at 90% full.
- Any RPC to a PS can fail.
- The replica to delete is picked from the heartbeat's RaftStatus, not from the record.
- The watch goroutine's sends block on a full channel while writes, a server-side cancel and the caller's cancel race it.

## Modules

- **`PartitionMeta.tla`**: the partition record.
  - Variables: `mConf`, `mReplicas`, `mLeader`, `taskFlag`, `taskExpired` (the 30 s have passed) and `stored` (the value under the partition's key in the store).
  - Every method runs under `propertyLock` and is one step.
  - The Go results `(verExpired, updateOk)` and `(verExpired, illegal, updateOk)` are action parameters, which the caller binds with `\E`.
  - The failure of `doMetaMarshal` or `store.Put` is a disjunct that leaves the record unchanged.
  - `Recovery` reloads the record from `stored`, with `Leader` and the latch at their zero values.
- **`PSNode.tla`**: the PS side of one partition.
  - `store[n]` holds the partition store on node n: its replica, ConfVersion, members and whether it leads. `adminCh[n]` is the admin channel.
  - The RPC handlers enqueue requests, blocking while the channel is full.
  - `DoAdminEvent` is `doAdminEvent` with `doPartitionCreate` and `doPartitionDelete`.
  - `ChangeReplica` returns NO_PARTITION or NOT_LEADER. Otherwise it calls `ChangeMember`, ignores what that returns, and answers OK (`server_admin.go:93`). The proposal is applied at once, or refused or lost, and the answer does not tell which.
  - The raft library is not in this repository. It is abstracted to what the master sees:
    - `ChangeMember` applies at once at the leader, or not at all. Past the `MaxConf` bound only the second outcome is taken.
    - A store that is still a member adopts a leader's newer configuration and follows it.
    - A leaderless group elects a member that a majority of the members' stores, none of them newer, vote for.
  - `HeartbeatInfo` is the PartitionInfo a PS reports. The heartbeat builder is not in `src`, so what a non-leader reports is the constant `FollowerReport`:
    - `"nil"`: no RaftStatus;
    - `"none"`: a RaftStatus with no followers;
    - `"peers"`: a RaftStatus listing the other members.
- **`ControlPlane.tla`**: composes one partition's record (`INSTANCE PartitionMeta`) and the PSs (`INSTANCE PSNode`) with the reconciler, the processor, the admin RPCs and the master's crash and restart.
  - `hb[n]` is the master's handler for PS n's heartbeat. Its pc is split at the points where another handler's step changes what it reads:
    - `recv` is the unlocked read at line 401;
    - then `stale` (lines 405-415), `update`, `validate`, `illegal`, `count`, `over` and `under`.
    - `TakeAndPush` is one step: it takes the latch (lines 407, 445 and 476), reads the leader with `pickLeaderNodeId` under the read lock, and calls `PushEvent`. In the code another handler can run between those three. The model does not explore a leader change between the latch take and the leader read, so a Delete event names the leader as it was when the latch was taken.
  - `eventCh` is the processor's channel, and `tasks` is the bag of its goroutines.
  - `nextId` is the ID generator.
  - `zmUp` says whether the master is running, and `panicked` records that a handler has panicked.
  - A crash loses the handlers, the channel and the goroutines. A restart runs `Recovery`.
  - `psUp[n]` says whether PS n's process runs. `PSStop` is `Close` or a crash: every store closes (`closeAllRange`) and the admin queue is lost. `PSStart` is `doStart`: `register` needs the master, and `Assignment(n)` is `PSRegister`'s answer. With no assignment, `reset` leaves the PS empty. Otherwise `recoverPartitions` rebuilds the store with `doPartitionCreate` (`NewStore`).
  - `PSRegister` answers from a per-PS partition cache. Nothing in `src` fills that cache, so `Assignment` follows the spec ("resume with owned partitions"): the master's record of the partition, when it lists a replica on that PS.
  - `createPartition` reads the leader PS in `CreateStart`. It generates the id and copies the record later, in `CreateGen`.
  - `LiveSpec` adds the fairness below.
- **`PartitionTree.tla`**: a space's routing tree.
  - The btree is the set of its items, keyed by StartSlot.
  - `update` and `remove` are the actions.
  - `find`, `search`, `ascendScan`, `multipleSearch` and GetRoute's use of them are operators.
  - `MCPartitionTree.tla` runs it with 3-bit slots, 3 partition ids and symmetry over the ids.
- **`SlotUtil.tla`**: `SlotSplit` with uint32 arithmetic kept modulo 2^W, and `BytesPrefix`, as operators over every bounded input. `MCSlotUtil.cfg` checks `SlotSplitSound` (start ≤ end) and `BytesPrefixRange`. Both hold (`tlc -config MCSlotUtil.cfg SlotUtil`, about 2 s). No run keeps this check, because the project has at most twelve runs and `SlotSplit` has no caller in `src`.
- **`ProcessorManager.tla`**: the life cycle of the process-wide `ProcessorManager` in `processor.go`, beside the per-event work that `ControlPlane` models.
  - Managers are numbered, and the singleton, `done` and the lock are global. Per manager, the model keeps `started` (`isStarted`), `cancelled` (its context), `run` (its Run goroutine), `ch` and `closed` (`eventCh`) and `tasks` (`pp.wg`).
  - Pushers call `GetPMSingle` and then `PushEvent`, one step per line the code can be interrupted at:
    - `GetFast` is the unlocked read of the singleton (line 41), and `GetDone` the unlocked read of `done` (line 44).
    - `GetLock` takes the lock. `GetLocked` re-checks `done` and publishes a new manager (line 60). `GetStart` is `start` followed by setting `done`.
    - `PushCheck` is the nil dereference, the `isStarted` check and the limit check. `PushSend` is the send.
  - Closers run `Close` in the same way: `CloseCheck` (the unlocked `isStarted` check), `CloseCancel`, `CloseChannel` (wait for Run, then `PartitionProcessor.Close` closes `eventCh`), `CloseClear` (wait for the goroutines, then clear the singleton under the lock) and `CloseReset`.
  - `RunExit`, `RunReceive` and `TaskDone` are the Run loop's select and its goroutines.
  - A panic nothing recovers sets `panicked`, and every action is guarded by `~panicked`.
  - Neither `GetPMSingle` nor `Close` has a caller in `src`: `rpc_server.go` calls a `GetProcessorManager` of its own package, which is not in the repository. The model lets any goroutine call them.
- **`EtcdWatch.tla`**: `Server.Watch` on one file and `ListDir` then `WatchDir` on its directory (`src/topo/etcd3topo`), both open at once, against an etcd store modelled as its revision history. Per-stream state is a function over the two streams, `"file"` and `"dir"`.
  - The store's writes (`Put` with etcd's per-key Version, `Delete`, `OtherWrite` to another key) come from other clients. They follow etcd, not `src`.
  - `WatchFails` and `Watch` are the function's early returns and its success path. `Watch` returns the initial data with the ModRevision and starts the watcher at the read's header revision.
  - `ListDir` records the keys present and the header revision as its version. `WatchDirFails` and `WatchDir` follow `WatchDir`: the watcher starts `WithRev(version)`, or at the next revision when the caller passes nil. The caller passes nil or its listing's version.
  - The goroutines are `Deliver` (Watch's: a Put with the key's Version, a Delete ends the stream), `DeliverDir` (WatchDir's: a Put with its ModRevision, a Delete with the key and ErrNoNode, and the stream goes on), `ServerCancel` (`wresp.Canceled`) and `CtxDone` (the cancelled context). Each sends on a channel of capacity `NotifCap` and blocks while it is full (`Send`).
  - The caller is `Cancel` (the returned CancelFunc) and `Receive`.
  - Items carry a ghost `rev`, the revision of the write they report, so a property can name a write.
- **`RocksKV.tla`**: bleve's KV store on rocksdb (`src/engine/bleve/rocksdb`). Keys are byte strings (sequences of numbers, ordered by a recursive `KeyLess`, which is `bytes.Compare`), values are numbers so that a merge can add to them.
  - `db` is the database, `batch` the caller's `EmulatedBatch` (its Ops in order and its merge operands per key), `snap[r]` a Reader's snapshot and `it[r]` its open Iterator.
  - `BatchSet` and `BatchMerge` fill the batch (bleve's `EmulatedBatch`, outside `src`). A batch merges up to `MaxMerges` keys, one operand each.
  - `Writer.ExecuteBatch` takes one step per iteration, and `exec` holds its `_batch`, its `err` and the merge keys done:
    - `ExecStart` creates `_batch` and defers the commit.
    - `ExecMerge(k)` is one turn of the merge loop, over any key not yet done, since Go's map order is random. It calls `Writer.get` and then `FullMerge` and Puts the merged value into `_batch`. If the get or the merge fails, it sets `err` and returns.
    - `ExecOps` appends the Ops once every merge key is done.
    - `ExecCommit` is the deferred function. It writes `_batch` only when `err` is nil, and that `Write` may itself fail.
    - The caller does not touch its batch while it is inside `ExecuteBatch`.
  - `NewReader` takes the snapshot, and `View(r)` is what `r.ops` reads. `CloseReader` releases it.
  - `PrefixIterator` and `RangeIterator` open an iterator and `Seek` its prefix or start. `SeekTo` is `Iterator.Seek` with its clamps (raise the key to start; a key below the prefix to the prefix; a key above it makes the iterator invalid without moving it), `MoveTo` the rocksdb move and the key and value it takes, and `UpdateValid` is `updateValid`. `Next` is called only while the iterator is valid, as bleve's scans loop on `Valid()`.
  - Each iterator carries a ghost `want`: the key the KVIterator contract puts it on, computed from the snapshot directly.
- **`MCRocksKV.tla`**: three keys `<<0>>`, `<<0,1>>`, `<<1>>` and every string of length up to 2 as a prefix, start, end or seek key.
- **`PartitionRecord.tla`**: the abstract spec of what the master promises about a record. It has three actions: `Regroup` to a reported group with its leader, `ChangeLeader` among the recorded replicas, and `Forget` the leader on a restart. `ControlPlane` instantiates it with `conf` and `replicas` mapped to the persisted record and `leader` mapped to the running master's `Leader` (Nil while it is down). `RecordRefined` checks that mapping.
- **`MCControlPlane.tla`**: two PS nodes as model values, with symmetry under their permutations. The nodes are interchangeable: no definition names one of them.

## Runs

| Run | Config | Expect | What it shows |
|-----|--------|--------|---------------|
| core | `MCControlPlane.cfg` | pass | With `FIXED_REPLICA_NUM=1` and non-leaders reporting no RaftStatus, the properties below hold under every interleaving. |
| stale_empty_report | `MCControlPlane_none.cfg` | violation | A stale non-leader with an empty follower list panics the master. |
| illegal_leader | `MCControlPlane_illegal.cfg` | violation | An illegal leader's report deletes one of its followers that the master records, not the illegal leader. |
| ps_restart | `MCControlPlane_psstop.cfg` | pass | PSs stop and reboot through `doStart`/`PSRegister` while heartbeats and the processor run, and the record properties still hold. |
| deficit_retried | `MCControlPlane_live.cfg` | pass | Under `LiveSpec`, a replica deficit always gets a Create in flight again. |
| latch_starvation | `MCControlPlane_starve.cfg` | violation | A store orphaned by a failed `AddReplica` reports stale forever and takes the latch after every timeout, which starves the leader's under-count branch. |
| restart_drops_replica | `MCControlPlane_lost.cfg` | violation | A PS that reboots before a heartbeat has updated the master's record is assigned nothing, resets, and never hosts the replica again. |
| routing_tree | `MCPartitionTree.cfg` | pass | Over every sequence of `update`/`remove`, the tree stays disjoint and `update` replaces exactly the overlapped items. `search`, `multipleSearch` and `GetRoute` meet spec invariants 3 and 4. |
| processor_manager | `MCProcessorManager.cfg` | pass | Two pushers race `GetPMSingle` and `PushEvent`, and two `Close` calls race them and each other. At most one Run loop runs, and it belongs to the published singleton. Every accepted event reaches a goroutine unless its manager was cancelled or the process panicked. |
| watch_stream | `MCEtcdWatch.cfg` | pass | With a file and a directory watched at once and writes racing them, a full channel, server-side cancels and the caller's cancel, every Put after the initial read reaches the caller unless the stream ended first, the directory stream is exactly the directory's writes from its start revision, and a cancelled stream ends with a final error item. |
| watch_versions | `MCEtcdWatch_versions.cfg` | violation | The caller sees Version 2 and then Version 1 for the same contents. |
| rocks_kv | `MCRocksKV.cfg` | pass | A reader's prefix and range iterators, after any Seek and Next and while batches change the store, sit exactly on the least key of the reader's snapshot in range; a batch with merges and Ops changes the store wholly or not at all. |

### Properties

- `LeaderInReplicas` (spec invariant 2): the recorded leader is one of the recorded replicas.
- `RecordRefined` (spec property 1 and more): the persisted record, together with the running master's leader, implements `PartitionRecord`. Its ConfVersion never decreases. It regroups at an equal ConfVersion only while no leader is known. A known leader is replaced only by a recorded replica. A restart forgets the leader.
- `CacheMatchesStore`: while the master runs, the cached record equals the persisted one. This is the copy-persist-swap discipline, and it is what makes Recovery return what was served.
- `DeleteOnlyWhenOverReplicated`: a Delete event the reconciler pushes names a recorded replica only when the master records more than `FIXED_REPLICA_NUM` replicas.
- `NoHandlerPanic`: no heartbeat handler panics.
- `DeficitRetried` (spec property 5): while the master has fewer than the target replicas and its recorded leader's store leads at the recorded ConfVersion, a Create event or goroutine is eventually in flight, or the deficit goes away.
- `LostReplicaRepaired` (checked only by a violation run): a replica the master records on a running PS that hosts no store of the partition is eventually dropped from the record or hosted again.
- `Disjoint`, `UpdateReplacesOverlaps`, `SearchCorrect`, `MultipleSearchCorrect` (routing tree).
- `SlotSplitSound`, `BytesPrefixRange` (util).
- `StreamDeliversWrites` (watch): every Put to the file after the initial read, and every write to the directory from WatchDir's start revision, is eventually in the caller's hands, unless the goroutine has returned. The goroutine's blocking sends lose nothing.
- `CancelEndsStream` (watch): after a CancelFunc, that stream's channel drains and its last item is an error.
- `DirStreamExact` (watch): the directory stream, apart from its final item, is exactly the directory's writes from the start revision on, each once, in order, with the ModRevision as the Version and a Delete naming its key.
- `OneRunLoop` (processor manager): at most one manager's Run loop is running, and it is the published singleton's. This depends on the re-check of `done` under the lock, and on `Close` waiting for Run before the singleton is cleared.
- `AcceptedEventHandled` (processor manager): an event `PushEvent` put on a channel is eventually handed to a create or delete goroutine, unless its manager's context was cancelled or the process panicked. Losing queued events on shutdown is the spec's policy: the next heartbeat re-drives them.
- `NoPanic` (processor manager, kept by no run): no Go panic ends the process.
- `VersionsIncrease` (checked only by a violation run): the Versions the caller sees, the initial one first, strictly increase.
- `TypeOK` of `EtcdWatch` includes the channel's capacity.
- `IteratorExact` (engine): an open iterator is valid exactly when the reader's snapshot has a key in its prefix or range at or after the last Seek's key (or after the key `Next` left), and then it is at the least such key with that key's value in the snapshot. It rests on Seek's clamp to start (`updateValid` never checks start), on the prefix clamps, and on the snapshot hiding batches executed after `NewReader`.
- `BatchAllOrNothing` (engine): every step changes the store either not at all or to what the batch promises: each Set or Delete key takes its last Op's value, every other merged key its old value plus its operands. A get or merge that fails after an earlier merge key was put into `_batch` must leave the store untouched. That rests on the early return, on the deferred function's check of `err`, and on the Ops loop running only after every merge key.

Every property of a passing run has a mutant in `PROJECT.json`: a plausible bug in the mapped code that TLC finds.

- The older-epoch guard of `UpdateReplicaGroupByCond` is dropped.
- The cache is swapped even when `store.Put` fails.
- The leader membership check is dropped.
- `PushEvent` never rejects.
- The over-count test uses `>=`.
- The latch never times out (`DeficitRetried`).
- The routing tree:
  - `update` scans from the new start, not from the containing item;
  - `update` also takes the item that starts at the new end;
  - `find` skips the containment check;
  - `ascendScan` returns one item too many.
- `SlotSplit` loses the `+ 1` of its length guard, and `BytesPrefix` does not cut its limit.
- The watch: a send that drops the item on a full channel (`StreamDeliversWrites`), one that never blocks (`TypeOK`), a `Done` branch that returns without its final item (`CancelEndsStream`), and WatchDir sending the key's Version as Watch does (`DirStreamExact`).
- The processor manager: `GetPMSingle` without the re-check of `done` under the lock (`OneRunLoop`), `Run` without the FORCE_DELETE branch (`AcceptedEventHandled`), and a `wg.Done` without its `Add` (`TypeOK`).
- The engine: `Seek` without its clamp to start (`IteratorExact`), and `ExecuteBatch`'s deferred function writing `_batch` whatever `err` is (`BatchAllOrNothing`).

### Findings

1. `pickReplicaToDelete` takes `followers[0]` of a non-leader's report (`rpc_server.go:525`).
   - If the list is empty, the handler panics, and the master process dies with it.
   - Otherwise the Delete removes a peer of the stale replica rather than the stale replica, which contradicts spec scenario S3.
   - Which of the two happens depends on what the PS heartbeat builder (not in `src`) reports for a non-leader.
   - `stale_empty_report` shows the panic. The second outcome shows up with `FollowerReport = "peers"` in `MCControlPlane_none.cfg` and `DeleteOnlyWhenOverReplicated` as its PROPERTY (it is an action property): the stale reporter survives and a recorded replica is deleted. No run keeps it, to stay within the project's twelve runs.
2. In the illegal-leader branch (`rpc_server.go:448`), the Delete names the illegal leader's first other follower. That can be a replica the master holds while it has exactly `FIXED_REPLICA_NUM` replicas. Spec scenario S5 deletes the illegal leader. The run needs a target of 2 replicas. `FIXED_REPLICA_NUM` is 1 in `master/partition.go:19`, marked TODO, and the spec says the number is configurable.

3. `SlotSplit` (`common.go:39`) checks `end - start` in uint32 before it swaps the bounds. Reversed arguments wrap, pass the guard, and give repeated boundaries (a two-slot range split in 3 gives `[end, end, start]`). `SlotSplit` has no caller, so no run keeps this. `MCSlotUtil.cfg` checks start ≤ end only. `SlotUtil` with `Reversed = TRUE` shows it.
4. `PartitionItem.Contains` (`partition.go:380`) uses half-open ranges with a uint32 EndSlot, so slot 2^32-1 never routes. The spec's boundary case says it does. This is a limit of the type and no run checks it.
5. `deleteReplica` (`partition.go:93`) keeps indexing `copy.Replicas[i]` after cutting it and panics with two or more replicas to delete when the last index matches. It was seen with a bounded check of the loop. The function has no caller, so the project keeps no module for it.
6. The stale branch takes the change-member latch before `pickReplicaToDelete` (`rpc_server.go:407`), and without a RaftStatus it pushes nothing. One failed `AddReplica`, racing an admin `ChangeReplica`, leaves an orphan store at an old ConfVersion. Its heartbeats then hold the latch every 30 s, and a replica deficit is never repaired. This contradicts spec property 5.
7. `doStart` (`server.go:157`) keeps only what `PSRegister` assigns, and the master learns of a new replica only from a later heartbeat. A PS that reboots in that window drops the store for good, and nothing recreates it.
8. `Watch` (`watch.go:47`) starts the watcher `WithRev(initial.Header.Revision)`. That is inclusive, so the write the initial `Get` returned is delivered again. PUT notifications carry `ev.Kv.Version`, the per-key count (`watch.go:79`), while the initial data carries the ModRevision (line 38). A watch right after a node's creation at revision 2 gives Version 2 and then Version 1 for the same contents. `WatchDir` uses ModRevision throughout, but starts `WithRev(version)` inclusive too (`watch.go:113`): a caller that passes the version `ListDir` returned gets the listing's last write again. No caller in `src` passes one, so no run checks that. `Watch` has no caller in `src` yet.
9. `ProcessorManager` guards its life cycle with unlocked reads. Its `Close` and `GetPMSingle` have no caller in `src`, so no run keeps these outcomes. `MCProcessorManager_panic.cfg` (`tlc -config MCProcessorManager_panic.cfg ProcessorManager`) finds `NoPanic` violated in 13 steps: a pusher passes `PushEvent`'s `isStarted` check (`processor.go:115`), then `Close` cancels Run and closes `eventCh`, and the send at line 129 panics on the closed channel. A bounded check of the same model also reached two more outcomes:
   - A caller reads `processorManagerSingle` as nil just after `Close` cleared it (line 85), then reads `done` as 1 before `Close` reset it (line 86). `GetPMSingle` returns nil, and `PushEvent` dereferences it (14 steps).
   - A caller takes the fast path between the manager's publication (line 60) and `start` (line 104). Its event is rejected with ErrInternalError (6 steps).
   
   Two `Close` calls that both pass the unlocked check at line 72 close `eventCh` twice. The pass run reaches this panic as well.

10. `ChangeReplica` (`server_admin.go:93`) answers OK once the PS leads the partition, and ignores what `RaftServer.ChangeMember` does with the proposal. `deletePartition` (`processor.go:322-335`) takes that OK as proof of the removal and sends `DeletePartition` to the replica's PS. When the proposal is refused or lost, the store is dropped while the group and the master still list the replica. Neither the over-count branch nor the under-count branch then sees a missing replica. `LostReplicaRepaired` therefore no longer holds in `deficit_retried`'s configuration. With `MaxConf = 3` and one processor goroutine, TLC finds it violated: a refused removal is followed by the drop. With 2 nodes and 3 replicas, the dropped store in that trace also served the leader's replica. That placement comes from the node selector, which is outside `src`. The project's violation run for this property, `restart_drops_replica`, shows the PS-restart path of finding 7 instead.

### Bounds and why they suffice

- There are 2 nodes and 3 replica ids, so the group can grow past the target and a stale store can coexist with a newer group.
- The bounds that drive the interesting cases:
  - ConfVersion ≤ 3.
  - Admin channel capacity 2.
  - Event channel limit 2: the 90% rejection is reached with 2 events queued.
  - 3 admin RPCs in `core`, and 1 in `ps_restart`.
  - 1 master crash and 1 latch timeout.
- Every action of `ControlPlane` fires in the pass runs. `HbUnder` needs the target of 2, which `ps_restart` and `deficit_retried` have.
- `core` explores 1.48 M distinct states in about 45 s.
- All three violations show up within 35 steps.
- `ps_restart` allows one PS stop, one admin RPC and a target of 2. It explores 1.37 M states in about 40 s. More admin RPCs make it exceed 10 M states.
- The liveness runs (`deficit_retried`, `latch_starvation`, `restart_drops_replica`) have no symmetry, and the latch timeout is unbounded.
  - The bounds: ConfVersion ≤ 2, channel limit 1, admin capacity 1, 2 goroutines, and 1 admin RPC (2 in `latch_starvation`).
  - `deficit_retried` runs one processor goroutine at a time and explores about 215 K states in about 40 s. With two goroutines it takes 6 minutes.
- The routing tree uses 3-bit slots: 8,298 distinct trees under id symmetry.
- The watch uses a directory of 2 keys, 1 value, 3 writes (in or outside the directory) and channels of 1 (2 in the violation run). A goroutine blocks on a full channel, a redelivered write and a later one both happen, and a Delete, another key's write or a write outside the directory can come between. A second value would tell nothing apart: items carry the write's revision. `watch_stream` explores 269 K states in about 2.5 min, most of it the liveness check over both streams. The channel of 10 in the code only takes longer to fill.
- The processor manager has two pushers of one event each, two closers, the event types CREATE and FORCE_DELETE, and a limit of 1 below a capacity of 2. This gives up to three managers: a new one after each completed `Close`. Both pushers can pass the limit check at once, as the 900-of-1000 margin allows. Two `Close` calls can race. A pusher can meet a manager in each phase of its life. The run explores 30 K states in about 5 s. Two events per pusher give 1.7 M states and a liveness check of over 15 min. DELETE behaves exactly as CREATE here.
- The engine uses one reader, two batches of at most one Op and merges on up to two keys, and Set value 1 (a Set of the empty value reads as missing to the merge, like no value). Two merge keys let the second fail after the first is in `_batch`. There are three keys, two under prefix `<<0>>`, and seven probe strings. So seeks land below a start, on a key, between keys (`<<0,0>>`) and past the prefix; ends fall on and between keys; and a merge adds to a value an earlier batch Set. A reader opens before, between, during or after batches. `rocks_kv` explores 1.56 M states in about 65 s. A fourth key takes it to 10 M states and 8 minutes.
- `SlotUtil` uses 3-bit words, n ≤ 9, bytes 0..2 and keys of length ≤ 3.

### Fairness

`LiveSpec` gives the following fairness:
- Weak fairness:
  - to each PS's heartbeat handler, admin handler, raft group and restart (PSs heartbeat on a ticker, and a supervisor restarts them);
  - to the processor's `Run` loop and its goroutines;
  - to the latch timeout (wall-clock time passes);
  - to the master's restart.
- Strong fairness to a processor RPC taking effect. An RPC can fail any number of times, but one that is retried forever is not lost forever.

The admin RPCs, crashes and store-write failures are the environment and get no fairness.

In `ProcessorManager`, `Spec` gives weak fairness to each manager's Run loop (`RunReceive`, `RunExit`) and to its goroutines (`TaskDone`). They are goroutines the Go scheduler runs. Pushers and closers are callers and get no fairness. Deadlock checking is off: once the pushers' budgets are spent and the closers are done, or after a panic, nothing is left to happen.

`RocksKV` states only safety properties, so it needs no fairness. Its deadlock check stays on: a reader can always be opened or closed.

In `EtcdWatch`, `LiveSpec` gives strong fairness to `Deliver`, `DeliverDir` and each stream's `CtxDone`. Go's `select` picks at random among ready cases, and a send blocked on a full channel is enabled only while the caller drains it. The caller's `Receive` is weakly fair, because the stream's consumer keeps reading. Writes, cancels and server-side cancels get no fairness. The watch run turns deadlock checking off: once the writes are spent and the stream has ended or been drained, nothing is left to happen.

Deadlock checking is off: before the first admin `CreatePartition`, and after the budgets are spent and the group has converged, no step is enabled.

## Not modelled, and the plan

- **The unknown-partition ForceDelete branch** (`rpc_server.go` lines 392-398) and `forceDeletePartition`. The master never removes a partition record: `DeletePartition` only asks the PS to drop its store. So for a partition that was ever created, this branch is unreachable.
- **`restart()`** has no caller. `NewServer`, the raft server and the listeners are set-up with no control state.
- **The version codec** (`EtcdVersion.String`, `VersionFromInt`) is formatting only, and `ListDir`'s trimming of names to the first path component is abstracted to the set of keys present.
- **`deleteReplica`/`addReplica`'s slice loops and `SlotSplit` with reversed bounds** are not kept as runs (see findings 3 and 5): neither has a caller, and the project's runs go to code that runs.
- **The server selector (`IdleSelector`)** is not in `src`, so the model lets it pick any PS.
- **The engine's reads and queries.** `Reader.Get` and `MultiGet` change no state, and no property is about them. They return nil for an empty value (`reader.go:29`, like `Writer.get`), so empty and missing look the same. `query.go`'s `ParseQuery` dispatches JSON to bleve query constructors that are not in `src`.
- **Concurrent `ExecuteBatch` calls.** The merge loop reads the live database, so two concurrent batches merging one key would lose an update. bleve's index writer runs one batch at a time (outside `src`), so the model executes batches one at a time.
