# Verification of concurrent-kv-store

TLA+ models of the store's concurrency, persistence and command line, checked by
TLC on small instances, with theorems checked by TLAPS. Every definition is
translated from the C++ sources; `PROJECT.json` maps each one to its lines.

## The system

`KVStore` (`src/src/store/kv_store.cpp`) is a map split over shards, each under
a `shared_mutex`. `Set` and `Delete` lock one shard, append to the write-ahead
log, then change memory. Every `kSnapshotInterval` writes one of them asks a
background thread (`CheckpointLoop`) to write a snapshot. Administrative
operations take `snapshot_mutex_`, `mutex_` and every shard lock, in that order.

`WriteAheadLog` (`src/src/persistence/wal.cpp`) appends frames under three
policies: `Buffered` (flush), `Sync` (flush and `fdatasync` in the caller) and
`GroupCommit` (a writer thread joins queued frames into one write and one sync).
The first I/O error is recorded in `failure_` and ends all appending.

`Snapshot` (`src/src/persistence/snapshot.cpp`) writes a temporary file, syncs
it, renames it, and syncs the directory. At startup (`src/src/main.cpp`) the
snapshot is loaded and the log is replayed from the offset the snapshot names.
`CliServer` then reads lines, `CliParser` parses them, and the store answers.

| Component | State | Operations | Modules |
| --- | --- | --- | --- |
| WAL append path | `queue_`, `failure_`, `next_sequence_`, `stopping_`, the file | `AppendPayload`, `WriterLoop`, destructor | `WalAppend`, `CommitLog` |
| WAL file | cells, header, generation, `needs_recovery_`, stream | constructor, `Append*`, `Clear`/`Rotate`, `TruncateTo`, `ReplayFrom*` | `WalFile`, run by `Session` |
| Store coordination | three kinds of locks, condition variable, request/active/epoch flags, write counter | the mutating `KVStore` operations, `CheckpointLoop` | `Checkpoint` |
| Sharded map | entries, shard locks, `mutex_`, whether there is a WAL | `Get`, `Set`, `Delete`, `Contains`, `Size`, `Clear`, copy, move | `ShardedStore`, `AtomicMap` |
| Snapshot files | cells; file, temporary file and directory entry | `Save`, `SaveVerified`, `Load`, `Verify`, `Clear` | `SnapshotFile`, `Recovery` |
| Crashes and power loss | what survives of the two files | startup, every I/O step of a job | `Recovery` |
| Program and command line | the process, the entries, the two files | `main`, `Run`, `Execute`, `Parse`, string helpers | `Session`, `Cli` |

Three questions decide the split. What do threads do to each other inside the
log (`WalAppend`), around checkpoints (`Checkpoint`) and on the entries
(`ShardedStore`)? What does a crash between two I/O calls leave (`Recovery`)?
What does a long sequence of commands, errors and restarts do to the contents of
the files, field by field (`Session`)?

## Modules

**`CommitLog`** is the abstract promise of the log: it only grows, a prefix of it
is durable, a request is acknowledged only once it is in the part its policy
names, and the first error stops growth for ever.

**`WalAppend`** is the append path. One request is one call of `AppendPayload`,
by a thread of its own. `pc[r]` is the caller's place, `done[r]` the outcome in
its `Pending`, `wpc` the writer's place. `InlineEnter` to `InlineReturn` are the
`Buffered` and `Sync` branch, holding `io_mutex_` throughout; `Enqueue`, `Notify`
and `Return` are the `GroupCommit` branch; `WriterSleep` to `WriterLoops` are
`WriterLoop`, one action for each critical section or I/O call. A failed write
leaves any number of whole frames and perhaps a torn one. `file` holds the
frames with their numbers, `synced` is the length of the durable part. The log
of `CommitLog` is what a replay of `file` returns.

**`Checkpoint`** is the store's coordination. Locks are variables that hold
their owner; the shard locks are taken one by one, as `LockAllShardsExclusive`
does. Sections under `checkpoint_mutex_` are one step, since nothing else is
locked inside them. A sleeping actor is in the wait set of `checkpoint_ready_`;
`notify_one` wakes any one of them. Data is a stamp advanced by every change of
memory; a snapshot carries the stamp it captured. `Set` stands for `Delete` too:
they differ only in the record. `MayThrow` says whose I/O may fail.

**`AtomicMap`** is the promise of the store to its threads: a call is invoked,
takes effect on whole maps in one step (or throws and changes nothing), and
returns.

**`ShardedStore`** is the locking that is to keep it. Each lock is acquired in a
step of its own and each loop over the shards takes one step per shard, so only
the locks keep calls apart. `lock[s, 0]` is `mutex_` of store `s`, `lock[s, i]`
its `i`-th shard, held shared or exclusively. `Set` and `Delete` look at `wal_`
when they have their shard and go to `append` or to `apply`; a record that is in
the log leaves them at `logged`. Assignments lock two stores;
`std::lock` is one step that takes both `mutex_` or neither. A store with a
Snapshot refuses to be copied or moved. The store as its users see it
(`AtomicContents`) is the entries or, while a thread is in a loop that replaces
them all, what that loop will leave.

**`Recovery`** composes store, log and snapshot at the level of records.
For each file it keeps what the process sees and what a power loss certainly
leaves. Each I/O call of a save, a compaction or a reset is one action, and a
crash or power loss may come between any two. `allowed[k]` is a history
variable: the contents that key `k` may have after a crash, which are its last
acknowledged value and the values of writes that failed or had not returned.
Offsets count frames. A real stale offset may also fall inside a frame, where
replay stops at a bad frame and still finds nothing.

**`WalFile`** and **`SnapshotFile`** are the two formats, as sequences of cells:
one for each field of a header or a frame, one for each entry, so that writes
stop and offsets point between fields. Both extend **`Data`**, the keys, the
values and the limits on their length. A torn cell is part of a field. A method
of the log is an operator that gives the set of its outcomes: file, members, and
whether it returned, refused or met an I/O error. Replay applies the longest run
of frames that are complete, have a matching checksum, a known opcode and the
next number, in the version 2 and version 3 formats. The largest sequence number
and generation are constants, so both run out.

**`Cli`** is the parser over texts made of pieces (a space, or a run of
characters that are never told apart).

**`Session`** extends the three and adds memory: a process opens the log, loads the
snapshot, replays and executes lines; the checkpoint thread copies and saves
beside it; the process ends by `EXIT`, end of input or a kill, and the next one
finds the files. A program that embeds the store may also recover with
`ReplayFromAndTruncate`, save snapshots and truncate the log while it runs.
`allowed` and `lingering` are history variables: what a key may hold after a
restart, and what a replay of the whole log may give it beside the value in
memory. Such a replay happens when a compaction has saved at offset zero and
could not rotate the log. The values are those of failed writes whose records
may lie in the log and, for the files the first process finds, what that replay
gives. What the operating system has accepted is not lost here; that is
`Recovery`.

**`WalAppendProofs`**, **`CheckpointProofs`**, **`ShardedStoreProofs`**,
**`RecoveryProofs`**, **`RecoverySafety`**, **`LogProofs`** (about `WalFile`),
**`SessionProofs`** and **`SessionMemory`** hold the proofs. The `MC` modules
give constants their values.

Operators named `<Definition>_<Word>` are mutations: each is a plausible bug,
used in place of the definition to confirm that a property can fail.

## Runs that pass

| Run | Question | Bounds |
| --- | --- | --- |
| `WalSafety` | Are acknowledged records durable and reachable, is nobody forgotten, does the path implement `CommitLog`? | each policy; five requests, batches of two, one record that fills a batch, one too large to be framed; the numbers run out inside a batch |
| `WalLive` | Does every append return and the destructor join? | each policy; four requests, no symmetry |
| `CheckpointSafety` | Captures exclusive, superseded checkpoints dropped, snapshots never older | three threads, two shards, five calls of any operation, each may fail |
| `CheckpointLive` | No deadlock; a due checkpoint is made; the destructor joins; who can hang? | two threads, two shards, four calls; administrative operations succeed |
| `Recovery` | Do acknowledged writes survive power losses under `Sync`, and process crashes, torn frames and failed syncs under `Buffered` and `Sync`? | two keys, three records; two power losses, or one crash; power losses under `Buffered` meet compactions only; jobs throw in the settings with power losses under `Sync` and with crashes under `Buffered`, not with crashes under `Sync` (`ProcessCrashesSafe` proves that combination); a reset is not interrupted |
| `ShardedStore` | Does every call act at one moment, and return; does a write keep the WAL it found? | three threads with one call each out of six or seven, three stores, two shards, two keys |
| `Session` | Is what was acknowledged remembered; do log, object and snapshot stay consistent? | three lines, two process ends, one I/O error in any call, seven pairs of initial files |

`CheckpointLive` states the liveness the code has: `OnlyCancelledWaitsHang` and
`CheckpointServed` make an exception for the callers that `CheckpointWaitStuck`
is about. The run leaves out `LoadSnapshot` and `ReplayFromWal`, which a program
calls at startup, and failing administrative operations, which
`CheckpointTriggerLost` is about.
`CompactPersistence` has the control flow of `SaveSnapshot` and is left to
`CheckpointSafety`.

What `Session` checks beside `Remembered`: `AppendsAreReachable` (whenever the
log takes appends, replay of the file ends cleanly at the record the next number
follows, so nothing is acknowledged behind a tail that replay cannot pass),
`OffsetAgrees` (the snapshot's offset is a boundary of the present log),
`SnapshotLoads` (a record the log accepts never makes a snapshot that cannot be
loaded), and `ShownValueReenters` (a value that `GET` shows is
stored unchanged by a `SET` that spells it out, although `SET` normalises
spaces).

Why the bounds suffice. The batch limit and the byte limit are both below what
the requests need, so batches end both ways and a queue remains when one
fails. Two shards are the least for which an order of locking exists; three
threads let a writer, an administrative operation and a waiter meet the loop,
and let two assignments in opposite directions meet a third call. Three records
allow a write before, during and after a save. The crash properties are stated
for a crash *now*, in every reachable state, so the number of crashes only
bounds how many recoveries precede it. Three lines in `Session` are a write, a
job and a write behind it, in any order, in up to three processes, and the
initial files supply what longer histories would: old formats, torn and
misnumbered tails, a damaged snapshot. `MaxSequence` is 4, so that the numbers
run out within a run. Deadlock is not checked where calls or lines simply end
(`ShardedStore`, whose `CallsReturn` is stronger, and `Session`).

Fairness. `WalAppend`, `Checkpoint` and `ShardedStore` assume weak fairness of
each thread inside a call: the scheduler runs it, and a lock is granted when it
stays free. The calls in a run are finitely many, so a lock cannot be taken by
others for ever. No call has to be made, no I/O has to succeed, and spurious
wakeups, which the model allows, are never relied on.

## Runs that find a violation

These check a statement of the documentation or of a comment that the code does
not keep.

* `CheckpointWaitStuck`: `CancelPendingCheckpoint` makes the predicate of
  `WaitForCheckpoints` true and notifies nobody; the caller sleeps for ever. It
  may also take the `notify_one` of a later request from the checkpoint thread,
  which is why `CheckpointServed` has an exception.
* `CheckpointTriggerLost`: a `SaveSnapshot` cancels the pending request and then
  fails; the counter has passed the trigger, which compares for equality, so no
  automatic checkpoint follows.
* `RecoveryClearCrash`: `ClearPersistence` truncates the log before it removes
  the snapshot. After a crash in between, the snapshot's offset lies beyond the
  new log, and acknowledged later writes are skipped.
* `RecoveryUnsyncedOffset`: a snapshot's offset covers frames that are flushed
  and not synced: a first process wrote one and crashed before its sync, a
  second one saved a snapshot. After a power loss, frames written in their
  place are skipped. There are three such combinations: a power loss after a
  process crash (the run), after a failed `fdatasync`, and under `Buffered`.
  `MCRecovery` has a setting for each (`CrashThenPowerLoss`,
  `FailedSyncThenPowerLoss`, `BufferedPowerLoss`), and TLC finds the lost write
  in all three. `Promised` excludes exactly these and the interrupted reset from
  `OffsetWithinWal` and `PowerLossSafe`, and the scenarios of `Recovery` contain
  none of them with a job that records an offset.
* `SessionSavedTail`: `SaveSnapshot` on a log with a tail that replay cannot read
  records the end of the file, tail included. Once the tail is truncated, new
  acknowledged records lie below that offset and the next start skips them.
  `Session` holds for programs that do not save in that state
  (`SavesBehindTail = FALSE`); the checkpoint thread never does, because no
  write is accepted that would start it.

Behaviour met while modelling that no document excludes: the record of a write
that failed may reappear after a restart; `SaveVerified` replaces the file before
it verifies it; `write_entry` has no length limit where `read_entry` has one, and
only the log's record limit keeps them apart; `TruncateTo` past the end throws
with the stream closed, so appends fail from then on; the generation goes back
when a `Clear` is followed by an exit before the first append.

## Proofs

**The append path**, for every set of requests, policy, batch limit, record
length and sequence limit (`WalAssumption`). `WalAppendProofs`:

* `TypeCorrect`: the types, including that numbers stay below the limit;
* `AcknowledgedIsReplayable`: an acknowledged record is in the part of the file
  that replay reaches and that the policy makes durable;
* `NoWaiterLeft`: a writer that has ended leaves no unanswered request;
* `FailureIsFinal`: after a recorded error the file never changes;
* `BatchesBounded`: a batch has at most `max_batch_` frames, so its size indexes
  the histogram, and at most `kMaxBatchBytes` bytes, although the first frame is
  taken without a look at its size;
* `AppendsImplementCommitLog`: the path implements `CommitLog`.

None of the last five is inductive. `IInv` adds: until the first error the file
is a valid header and whole frames numbered from one (`FileSound`); what each
stage of a call knows about its frame (`StageSound`) and what the writer knows
about its batch (`BatchSound`); where the writer may be in relation to the error
and shutdown flags (`WriterSound`); and that a waiting request is in the queue
or in the batch (`NobodyForgotten`). The file only grows (`GrowsKeeps`), so a
frame that replay once reached stays reachable; each action has a lemma
`<Action>Keeps`.

For the implementation of `CommitLog` a request must not reach the file twice
(`OnceHolds`): no request has two places in queue, batch and file, a queued or
taken request is not in the file, one caller at a time holds `io_mutex_` and no
error is recorded behind it, and replay ends somewhere. With
it, what replay returns has a simple shape (`ReplayedShape`): the requests up to
the last position that replay reaches, which is the end of the file until an
error. A write then extends the log, a sync flushes it, a failed write or sync
breaks it, a return acknowledges or refuses, and all else stutters.

**The checkpoint protocol**, for any threads, shards and interval, whichever
operations are called and may throw (`CheckpointAssumption`). `CheckpointProofs`:

* `CheckpointTypeCorrect`: the types;
* `CapturesAreExclusive`: whole-store operations exclude each other and every
  write that is between its append and its change of memory;
* `SupersededIsDropped`: no superseded checkpoint is carried out;
* `SnapshotsAdvance`: the snapshot file is never replaced by an older state;
* `TriggersAreKept`: while the counter is at or beyond the trigger value, a
  checkpoint is requested, under way or about to be requested, or its failure is
  there to be shown. The hypothesis `CancelsAreFinished` excludes what
  `CheckpointTriggerLost` finds: an operation that cancels the request and does
  not get to reset the counter (a failing save, compaction or reset), and
  `LoadSnapshot`, which never resets it.

The inductive invariant `CInv` says which lock each place in the code relies on
(`MutexesHeld`, `ShardsHeld`; `Clear` and `ReplayFromWal` do without
`snapshot_mutex_`), where each actor can be (`PlacesSound`), and that a capture
being written is neither ahead of memory nor behind the file (`StampsOrdered`).
The last holds because capture and publication are under one hold of
`snapshot_mutex_`. `TriggersAreKept` adds `TriggerSound`, which follows a due
checkpoint from the writer that counted it to the capture that resets the
counter, or to the operation that superseded it.

**The sharded map**, for any threads, stores, keys, values, shards and calls
(`ShardedStoreAssumption`). `ShardedStoreProofs`:

* `TypeCorrect`: the types; no loop runs past the last shard;
* `SeenWalsStay`: between a write's look at `wal_` and its change of the entry no
  move or assignment gives the store a WAL or takes it away (`SeenWalStays`). The
  write holds one shard only; a call that replaces `wal_` holds every shard of
  the stores it changes (`LocksOk`);
* `CallsActAtomically`: the store implements `AtomicMap`.

The invariant `IInv` says what call a thread is in by where it is
(`CallOk`), which shard locks it has got so far and in which mode (`LocksOk`), and
what its loop has read or written so far (`LoopOk`). Two threads never replace
the same store (`OneWriter`): each would hold its first shard exclusively. So a
call that replaces whole stores takes effect when it enters its loop, the turns
of the loop cannot be seen, and reading the shards one by one under their locks
reads one state.

**Crashes**, for any keys, values, jobs, faults and numbers of writes and crashes
(`RecoveryAssumption`). `RecoveryProofs`:

* `RecoveryTypeCorrect`: the types;
* `SnapshotAlwaysReadable`: a snapshot that has a name is whole, under every
  combination of faults. Only a synced temporary file is renamed (`ReadableOk`).

`RecoverySafety`, for the settings of `Promised`: a reset is not interrupted, and
where power fails the policy syncs and no process crash or failed sync has left
unsynced frames. This leaves out what the findings `RecoveryClearCrash` and
`RecoveryUnsyncedOffset` are about, and power losses under `Buffered`, which
promises nothing then. A setting without power losses may have every fault but
the interrupted reset, under any policy.

* `ProcessCrashesSafe`: a process crash at any moment loses no acknowledged write;
* `PowerLossesSafe`: the same after a power loss, for every log and both snapshots
  that it may leave;
* `OffsetsWithinWal`: no snapshot that a start may find covers a frame that the
  log found with it lacks, except while a reset is under way.

The crash properties speak of the files as they are. What a step of a job makes
of them depends on what the job holds, so `IInv` says of every source a start may
come to read (the snapshot, the durable one, the copy of a running save, and each
allowed value at offset zero, for a compaction) that it recovers every key to an
allowed value from every log that may be found (`SourcesOk`), and that its offset
lies in each of these logs (`OffsetsOk`). Besides: a write in progress is found
by all of them, in every possible log once it is synced (`Good`); frames wait for
a sync only while a write is in flight (`SyncedUp`); a torn frame is the last one
(`TornOk`). `Value` says what replay gives one key as the last record about it,
and `ReplayIsValue` that this is what `Replay` computes.

**The files and the process**, for any keys, values, lines, limits and any files
the first process finds, provided the snapshot's offset lies between records of
the log (`DataAssumption`, `WalFileAssumption`, `SessionAssumption`). The log may
be of either format, torn, misnumbered or damaged, the snapshot of any layout.

`LogProofs` has the lemmas about `WalFile`, none of them about a process: what
replay reads (`ReplayReport`), which files it reads to the end (`FramesReplay`,
`CleanIsWhole`), from which offsets it reads the rest of what it reads from the
start (`BoundaryAgrees`), which value it gives to a key (`ReplayedValue`), and
what opening, appending, clearing and truncating, each of which may fail part
way, leave of all that (`OpenedOk`, `AppendOk`, `ClearOk`, `TruncateOk`,
`AppendReplays`, `TruncateReplays`). Replay is a greatest prefix and not a
recursion, so these are proved without induction.

`SessionProofs`:

* `SessionTypeCorrect`: the types; numbers and generations stay within their limits;
* `SnapshotsLoad`: a running process never leaves a snapshot that cannot be loaded;
* `AppendsReach`: a log that takes appends is one that replay reads to its end;
* `OffsetsAgree`: the snapshot's offset is a boundary of the present log.

`SessionMemory`:

* `RecoveryRemembers`: what a start finds is, for each key, the value last
  acknowledged or one whose write failed since.

`AppendsReach`, `OffsetsAgree` and `RecoveryRemembers` assume
`SavesBehindTail = FALSE`; without it `SessionSavedTail` refutes `Remembered`. Three inductive invariants carry them. `Storable`: what is
in memory, or copied by the checkpoint thread, fits into a snapshot, because the
log's limit on a record is at most the limit on an entry. `Placed`: log and
object fit together (`LogOk`), and the offsets of the snapshot and of the copy
are boundaries of the log; a due checkpoint implies a log without a bad tail.
`Faithful`: a replay from the snapshot finds allowed values; so does a replay
from the checkpoint thread's copy, which is some records old; and a replay of the
whole log on top of memory changes a key only to a lingering value, which is what
a start does after a compaction that could not rotate. `Remembered` alone is not
inductive for the last two reasons.

TLC finds the inductive invariants true on the instances of the runs as well.

Only model-checked:

* liveness (`AppendsReturn`, `WriterJoins`, `OnlyCancelledWaitsHang`,
  `CheckpointServed`, `LoopJoins`, `CallsReturn`): it rests on fairness, which is
  outside the prover;
* `ShownValueReenters`: what the parser makes of a text it has itself joined is a
  recursion over the tokens and would need induction over data.

## Not modelled

* Bytes below the level of a field: byte order, the checksum function (a
  checksum matches exactly the record it was computed from), the text of answers.
* An interrupted `ClearPersistence` in `Session`: its outcome is the finding of
  `RecoveryClearCrash`.
* Stores that share one `WriteAheadLog` after a copy: copying hands on the
  pointer, and the log serialises its callers (`WalAppend`).
* `std::lock` trying one `mutex_` and backing off: it ends with both or retries.
* Checkpoints in `ShardedStore`, entries in `Checkpoint`: each is the other's
  subject. A store is not destroyed while a call is in progress.
* Statistics and CPU pinning, apart from the histogram's index (`BatchBounded`);
  version constants. `SplitWhitespace` is declared and nowhere defined.
* In `Recovery`, the three policies' locking: writes of two keys may share one
  sync under `Sync` too, and a checkpoint may start at any time. Both only add
  behaviours.
