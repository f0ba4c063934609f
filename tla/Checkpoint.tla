------------------------------ MODULE Checkpoint ------------------------------
(***************************************************************************)
(* How KVStore (src/src/store/kv_store.cpp) coordinates foreground writes, *)
(* administrative operations and the background checkpoint thread.         *)
(*                                                                         *)
(* Modelled: snapshot_mutex_, the administrative mutex_, the shard locks   *)
(* taken in ascending order, the condition variable checkpoint_ready_ with *)
(* its wait set, and the flags and counters these protect.  Sections under *)
(* checkpoint_mutex_ are single steps: no other lock is taken inside one.  *)
(* The data is abstracted to a stamp that every change of memory advances; *)
(* a snapshot carries the stamp of the state it captured.                  *)
(***************************************************************************)
EXTENDS Integers, FiniteSets

CONSTANTS
  Threads,            \* threads that call the public operations
  Loop,               \* the thread that runs CheckpointLoop
  Ops,                \* which operations they call
  MayThrow,           \* the ones of them whose I/O may fail ("Loop": the loop's)
  kShardCount,
  kSnapshotInterval,
  MaxCalls            \* bound on the number of calls

Actors == Threads \cup {Loop}

None == "none"

Foreground == {"Set"}
(* Operations that take snapshot_mutex_ and cancel a pending checkpoint.   *)
Superseding == {"ClearPersistence", "SaveSnapshot", "CompactPersistence",
                "LoadSnapshot"}
(* Operations that take only mutex_ and the shard locks.                   *)
MemoryOnly == {"Clear", "ReplayFromWal"}
OpNames == Foreground \cup Superseding \cup MemoryOnly \cup {"WaitForCheckpoints"}

ASSUME CheckpointAssumption ==
  /\ Loop \notin Threads
  /\ None \notin Threads \cup {Loop}
  /\ Ops \subseteq OpNames
  /\ MayThrow \subseteq OpNames \cup {"Loop"}
  /\ kShardCount \in Nat \ {0}
  /\ kSnapshotInterval \in Nat \ {0}
  /\ MaxCalls \in Nat

VARIABLES
  pc,                      \* where each actor is
  op,                      \* the administrative operation a thread is in
  at,                      \* shard a Set works on, or how many shards are held
  snapshot_mutex_,         \* holder, or None
  mutex_,                  \* holder, or None
  shard,                   \* shard[i]: exclusive holder, or None
  writes_since_snapshot_,
  checkpoint_requested_,
  checkpoint_active_,
  checkpoint_stopping_,
  checkpoint_epoch_,
  checkpoint_error_,
  epoch,                   \* the loop's local copy of checkpoint_epoch_
  captured,                \* stamp of the data the loop copied
  stamp,                   \* stamp of the state in memory
  published,               \* stamp of the snapshot file, 0 when there is none
  calls                    \* calls made so far

flags == <<checkpoint_requested_, checkpoint_active_, checkpoint_stopping_,
           checkpoint_epoch_, checkpoint_error_>>
locks == <<snapshot_mutex_, mutex_, shard>>
vars == <<pc, op, at, locks, writes_since_snapshot_, flags, epoch, captured,
          stamp, published, calls>>

Init ==
  /\ pc = [a \in Actors |-> IF a = Loop THEN "check" ELSE "idle"]
  /\ op = [t \in Threads |-> None]
  /\ at = [a \in Actors |-> 0]
  /\ snapshot_mutex_ = None
  /\ mutex_ = None
  /\ shard = [i \in 1..kShardCount |-> None]
  /\ writes_since_snapshot_ = 0
  /\ checkpoint_requested_ = FALSE
  /\ checkpoint_active_ = FALSE
  /\ checkpoint_stopping_ = FALSE
  /\ checkpoint_epoch_ = 0
  /\ checkpoint_error_ = FALSE
  /\ epoch = 0
  /\ captured = 0
  /\ stamp = 0
  /\ published = 0
  /\ calls = 0

Goto(a, l) == pc' = [pc EXCEPT ![a] = l]

(* The wait set of checkpoint_ready_: the loop and callers of              *)
(* WaitForCheckpoints sleep on the same condition variable.                *)
Sleepers == {a \in Actors : pc[a] = "asleep"}

------------------------------------------------------------------------------
(* Locks, shared by the administrative operations and the loop.            *)

(* Variant for mutation: snapshot_mutex_ does not exclude.                 *)
LockSnapshot_NoExclusion(a) ==
  /\ pc[a] = "snapshot"
  /\ snapshot_mutex_' = a
  /\ Goto(a, "cancel")
  /\ UNCHANGED <<op, at, mutex_, shard, writes_since_snapshot_, flags, epoch,
                 captured, stamp, published, calls>>

LockSnapshot(a) ==
  /\ pc[a] = "snapshot"
  /\ snapshot_mutex_ = None
  /\ snapshot_mutex_' = a
  /\ Goto(a, "cancel")
  /\ UNCHANGED <<op, at, mutex_, shard, writes_since_snapshot_, flags, epoch,
                 captured, stamp, published, calls>>

LockAdmin(a) ==
  /\ pc[a] = "admin"
  /\ mutex_ = None
  /\ mutex_' = a
  /\ at' = [at EXCEPT ![a] = 0]
  /\ Goto(a, "shards")
  /\ UNCHANGED <<op, snapshot_mutex_, shard, writes_since_snapshot_, flags,
                 epoch, captured, stamp, published, calls>>

(* Variant for mutation: the last shard is not locked.                     *)
LockNextShard_OffByOne(a) ==
  LET i == at[a] + 1 IN
  /\ pc[a] = "shards"
  /\ shard[i] = None
  /\ shard' = [shard EXCEPT ![i] = a]
  /\ at' = [at EXCEPT ![a] = i]
  /\ Goto(a, IF i + 1 = kShardCount THEN "body" ELSE "shards")
  /\ UNCHANGED <<op, snapshot_mutex_, mutex_, writes_since_snapshot_, flags,
                 epoch, captured, stamp, published, calls>>

(* LockAllShardsExclusive, one shard after the other in ascending order.   *)
LockNextShard(a) ==
  LET i == at[a] + 1 IN
  /\ pc[a] = "shards"
  /\ shard[i] = None
  /\ shard' = [shard EXCEPT ![i] = a]
  /\ at' = [at EXCEPT ![a] = i]
  /\ Goto(a, IF i = kShardCount THEN "body" ELSE "shards")
  /\ UNCHANGED <<op, snapshot_mutex_, mutex_, writes_since_snapshot_, flags,
                 epoch, captured, stamp, published, calls>>

(* What the destructors of the lock guards release.                        *)
UnlockShards(a) ==
  shard' = [i \in 1..kShardCount |-> IF shard[i] = a THEN None ELSE shard[i]]

UnlockMutex(a) == mutex_' = IF mutex_ = a THEN None ELSE mutex_

UnlockSnapshot(a) ==
  snapshot_mutex_' = IF snapshot_mutex_ = a THEN None ELSE snapshot_mutex_

UnlockAll(a) == UnlockShards(a) /\ UnlockMutex(a) /\ UnlockSnapshot(a)

------------------------------------------------------------------------------
(* Set and Delete.                                                         *)

(* CheckCheckpointError throws before any lock is taken.                   *)
CallSet(t, i) ==
  /\ "Set" \in Ops
  /\ pc[t] = "idle" /\ calls < MaxCalls /\ ~checkpoint_stopping_
  /\ calls' = calls + 1
  /\ IF checkpoint_error_
       THEN UNCHANGED <<pc, at>>
       ELSE /\ Goto(t, "shard")
            /\ at' = [at EXCEPT ![t] = i]
  /\ UNCHANGED <<op, locks, writes_since_snapshot_, flags, epoch, captured, stamp,
                 published>>

LockShard(t) ==
  /\ pc[t] = "shard"
  /\ shard[at[t]] = None
  /\ shard' = [shard EXCEPT ![at[t]] = t]
  /\ Goto(t, "append")
  /\ UNCHANGED <<op, at, snapshot_mutex_, mutex_, writes_since_snapshot_, flags,
                 epoch, captured, stamp, published, calls>>

AppendToWal(t) ==
  /\ pc[t] = "append"
  /\ Goto(t, "apply")
  /\ UNCHANGED <<op, at, locks, writes_since_snapshot_, flags, epoch, captured,
                 stamp, published, calls>>

(* Set and Delete release their shard when they return or throw.           *)
LeaveShard(t) == UnlockShards(t) /\ at' = [at EXCEPT ![t] = 0]

AppendThrows(t) ==
  /\ "Set" \in MayThrow
  /\ pc[t] = "append"
  /\ LeaveShard(t)
  /\ Goto(t, "idle")
  /\ UNCHANGED <<op, snapshot_mutex_, mutex_, writes_since_snapshot_, flags,
                 epoch, captured, stamp, published, calls>>

(* Variant for mutation: the checkpoint is due one write too late.         *)
Apply_OffByOne(t) ==
  /\ pc[t] = "apply"
  /\ stamp' = stamp + 1
  /\ writes_since_snapshot_' = writes_since_snapshot_ + 1
  /\ IF writes_since_snapshot_' = kSnapshotInterval + 1
       THEN Goto(t, "schedule") /\ UNCHANGED <<shard, at>>
       ELSE Goto(t, "idle") /\ LeaveShard(t)
  /\ UNCHANGED <<op, snapshot_mutex_, mutex_, flags, epoch, captured,
                 published, calls>>

(* The map changes and the counter advances; only the write that brings it *)
(* to the interval schedules a checkpoint, still holding its shard.        *)
Apply(t) ==
  /\ pc[t] = "apply"
  /\ stamp' = stamp + 1
  /\ writes_since_snapshot_' = writes_since_snapshot_ + 1
  /\ IF writes_since_snapshot_' = kSnapshotInterval
       THEN Goto(t, "schedule") /\ UNCHANGED <<shard, at>>
       ELSE Goto(t, "idle") /\ LeaveShard(t)
  /\ UNCHANGED <<op, snapshot_mutex_, mutex_, flags, epoch, captured,
                 published, calls>>

(* Variant for mutation: the request is posted and nobody is notified.     *)
ScheduleCheckpoint_NoNotify(t) ==
  /\ pc[t] = "schedule"
  /\ checkpoint_requested_' = TRUE
  /\ Goto(t, "idle")
  /\ LeaveShard(t)
  /\ UNCHANGED <<op, snapshot_mutex_, mutex_, writes_since_snapshot_,
                 checkpoint_active_, checkpoint_stopping_, checkpoint_epoch_,
                 checkpoint_error_, epoch, captured, stamp, published, calls>>

(* notify_one removes one sleeper, whichever it is, from the wait set.     *)
ScheduleCheckpoint(t) ==
  /\ pc[t] = "schedule"
  /\ checkpoint_requested_' = TRUE
  /\ IF Sleepers = {}
       THEN Goto(t, "idle")
       ELSE \E a \in Sleepers :
              pc' = [pc EXCEPT ![t] = "idle", ![a] = "check"]
  /\ LeaveShard(t)
  /\ UNCHANGED <<op, snapshot_mutex_, mutex_, writes_since_snapshot_,
                 checkpoint_active_, checkpoint_stopping_, checkpoint_epoch_,
                 checkpoint_error_, epoch, captured, stamp, published, calls>>

------------------------------------------------------------------------------
(* Administrative operations.                                              *)

CallAdmin(t, o) ==
  /\ o \in Ops \cap (Superseding \cup MemoryOnly)
  /\ pc[t] = "idle" /\ calls < MaxCalls /\ ~checkpoint_stopping_
  /\ calls' = calls + 1
  /\ op' = [op EXCEPT ![t] = o]
  /\ Goto(t, IF o \in Superseding THEN "snapshot" ELSE "admin")
  /\ UNCHANGED <<at, locks, writes_since_snapshot_, flags, epoch, captured,
                 stamp, published>>

(* Variant for mutation: the epoch goes down.                              *)
CancelPendingCheckpoint_Decrements(t) ==
  /\ pc[t] = "cancel"
  /\ checkpoint_epoch_' = checkpoint_epoch_ - 1
  /\ checkpoint_requested_' = FALSE
  /\ Goto(t, "admin")
  /\ UNCHANGED <<op, at, locks, writes_since_snapshot_, checkpoint_active_,
                 checkpoint_stopping_, checkpoint_error_, epoch, captured, stamp,
                 published, calls>>

(* The new epoch tells a checkpoint the loop has taken but not begun that  *)
(* it is superseded.  Nobody is notified.                                  *)
CancelPendingCheckpoint(t) ==
  /\ pc[t] = "cancel"
  /\ checkpoint_epoch_' = checkpoint_epoch_ + 1
  /\ checkpoint_requested_' = FALSE
  /\ Goto(t, "admin")
  /\ UNCHANGED <<op, at, locks, writes_since_snapshot_, checkpoint_active_,
                 checkpoint_stopping_, checkpoint_error_, epoch, captured, stamp,
                 published, calls>>

Leave(t) ==
  /\ UnlockAll(t)
  /\ Goto(t, "idle")
  /\ op' = [op EXCEPT ![t] = None]
  /\ at' = [at EXCEPT ![t] = 0]
  /\ UNCHANGED <<flags, epoch, captured, calls>>

(* SaveSnapshotLocked and CompactPersistenceLocked.                        *)
SaveBody(t) ==
  /\ pc[t] = "body" /\ op[t] \in {"SaveSnapshot", "CompactPersistence"}
  /\ published' = stamp
  /\ writes_since_snapshot_' = 0
  /\ Leave(t)
  /\ UNCHANGED stamp

(* CurrentOffset, Save, Verify or Rotate throws: the rename may or may not *)
(* have happened, and the counter keeps its value.                         *)
SaveBodyThrows(t) ==
  /\ pc[t] = "body" /\ op[t] \in {"SaveSnapshot", "CompactPersistence"} \cap MayThrow
  /\ published' \in {published, stamp}
  /\ Leave(t)
  /\ UNCHANGED <<stamp, writes_since_snapshot_>>

ClearPersistenceBody(t) ==
  /\ pc[t] = "body" /\ op[t] = "ClearPersistence"
  /\ published' = 0
  /\ writes_since_snapshot_' = 0
  /\ Leave(t)
  /\ UNCHANGED stamp

ClearPersistenceBodyThrows(t) ==
  /\ pc[t] = "body" /\ op[t] = "ClearPersistence" /\ op[t] \in MayThrow
  /\ published' \in {published, 0}
  /\ Leave(t)
  /\ UNCHANGED <<stamp, writes_since_snapshot_>>

(* LoadSnapshot replaces the map by the file's contents.                   *)
LoadSnapshotBody(t) ==
  /\ pc[t] = "body" /\ op[t] = "LoadSnapshot"
  /\ stamp' = stamp + 1
  /\ Leave(t)
  /\ UNCHANGED <<published, writes_since_snapshot_>>

(* Both read into a local map first: a throw leaves memory as it was.      *)
ReadBodyThrows(t) ==
  /\ pc[t] = "body" /\ op[t] \in {"LoadSnapshot", "ReplayFromWal"} \cap MayThrow
  /\ Leave(t)
  /\ UNCHANGED <<stamp, published, writes_since_snapshot_>>

ClearBody(t) ==
  /\ pc[t] = "body" /\ op[t] = "Clear"
  /\ stamp' = stamp + 1
  /\ writes_since_snapshot_' = 0
  /\ Leave(t)
  /\ UNCHANGED published

ReplayFromWalBody(t) ==
  /\ pc[t] = "body" /\ op[t] = "ReplayFromWal"
  /\ stamp' = stamp + 1
  /\ Leave(t)
  /\ UNCHANGED <<published, writes_since_snapshot_>>

------------------------------------------------------------------------------
(* WaitForCheckpoints.                                                     *)

CallWait(t) ==
  /\ "WaitForCheckpoints" \in Ops
  /\ pc[t] = "idle" /\ calls < MaxCalls /\ ~checkpoint_stopping_
  /\ calls' = calls + 1
  /\ Goto(t, "check")
  /\ UNCHANGED <<op, at, locks, writes_since_snapshot_, flags, epoch, captured,
                 stamp, published>>

NothingToWaitFor == ~checkpoint_requested_ /\ ~checkpoint_active_

WaitCheck(t) ==
  /\ pc[t] = "check"
  /\ Goto(t, IF NothingToWaitFor THEN "idle" ELSE "asleep")
  /\ UNCHANGED <<op, at, locks, writes_since_snapshot_, flags, epoch, captured,
                 stamp, published, calls>>

(* The standard lets a wait return without a notification.                 *)
SpuriousWakeup(a) ==
  /\ pc[a] = "asleep"
  /\ Goto(a, "check")
  /\ UNCHANGED <<op, at, locks, writes_since_snapshot_, flags, epoch, captured,
                 stamp, published, calls>>

------------------------------------------------------------------------------
(* CheckpointLoop.                                                         *)

LoopSleep ==
  /\ pc[Loop] = "check"
  /\ ~checkpoint_stopping_ /\ ~checkpoint_requested_
  /\ Goto(Loop, "asleep")
  /\ UNCHANGED <<op, at, locks, writes_since_snapshot_, flags, epoch, captured,
                 stamp, published, calls>>

LoopExit ==
  /\ pc[Loop] = "check"
  /\ checkpoint_stopping_ /\ ~checkpoint_requested_
  /\ Goto(Loop, "exited")
  /\ UNCHANGED <<op, at, locks, writes_since_snapshot_, flags, epoch, captured,
                 stamp, published, calls>>

LoopTake ==
  /\ pc[Loop] = "check"
  /\ checkpoint_requested_
  /\ checkpoint_requested_' = FALSE
  /\ checkpoint_active_' = TRUE
  /\ epoch' = checkpoint_epoch_
  /\ Goto(Loop, "snapshot")
  /\ UNCHANGED <<op, at, locks, writes_since_snapshot_, checkpoint_stopping_,
                 checkpoint_epoch_, checkpoint_error_, captured, stamp,
                 published, calls>>

(* Variant for mutation: the epoch is not compared.                        *)
LoopCheckEpoch_Ignored ==
  /\ pc[Loop] = "cancel"
  /\ Goto(Loop, "admin")
  /\ UNCHANGED <<op, at, locks, writes_since_snapshot_, flags, epoch, captured,
                 stamp, published, calls>>

(* Under snapshot_mutex_: a superseded request is dropped.                 *)
LoopCheckEpoch ==
  /\ pc[Loop] = "cancel"
  /\ IF epoch = checkpoint_epoch_
       THEN Goto(Loop, "admin") /\ UNCHANGED snapshot_mutex_
       ELSE Goto(Loop, "finish") /\ UnlockSnapshot(Loop)
  /\ UNCHANGED <<op, at, mutex_, shard, writes_since_snapshot_, flags, epoch,
                 captured, stamp, published, calls>>

(* Under all locks the map and the WAL offset are copied and the counter   *)
(* is reset; then every lock but snapshot_mutex_ is released.              *)
LoopCapture ==
  /\ pc[Loop] = "body"
  /\ captured' = stamp
  /\ writes_since_snapshot_' = 0
  /\ UnlockShards(Loop) /\ UnlockMutex(Loop)
  /\ at' = [at EXCEPT ![Loop] = 0]
  /\ Goto(Loop, "save")
  /\ UNCHANGED <<op, snapshot_mutex_, flags, epoch, stamp, published, calls>>

LoopCaptureThrows ==
  /\ "Loop" \in MayThrow
  /\ pc[Loop] = "body"
  /\ UnlockAll(Loop)
  /\ at' = [at EXCEPT ![Loop] = 0]
  /\ Goto(Loop, "catch")
  /\ UNCHANGED <<op, writes_since_snapshot_, flags, epoch, captured, stamp,
                 published, calls>>

LoopSave ==
  /\ pc[Loop] = "save"
  /\ published' = captured
  /\ UnlockSnapshot(Loop)
  /\ Goto(Loop, "finish")
  /\ UNCHANGED <<op, at, mutex_, shard, writes_since_snapshot_, flags, epoch,
                 captured, stamp, calls>>

LoopSaveThrows ==
  /\ "Loop" \in MayThrow
  /\ pc[Loop] = "save"
  /\ published' \in {published, captured}
  /\ UnlockSnapshot(Loop)
  /\ Goto(Loop, "catch")
  /\ UNCHANGED <<op, at, mutex_, shard, writes_since_snapshot_, flags, epoch,
                 captured, stamp, calls>>

LoopCatch ==
  /\ pc[Loop] = "catch"
  /\ checkpoint_error_' = TRUE
  /\ checkpoint_requested_' = FALSE
  /\ Goto(Loop, "finish")
  /\ UNCHANGED <<op, at, locks, writes_since_snapshot_, checkpoint_active_,
                 checkpoint_stopping_, checkpoint_epoch_, epoch, captured, stamp,
                 published, calls>>

LoopFinish ==
  /\ pc[Loop] = "finish"
  /\ checkpoint_active_' = FALSE
  /\ Goto(Loop, "notify")
  /\ UNCHANGED <<op, at, locks, writes_since_snapshot_, checkpoint_requested_,
                 checkpoint_stopping_, checkpoint_epoch_, checkpoint_error_,
                 epoch, captured, stamp, published, calls>>

(* Variant for mutation: notify_one instead of notify_all.                 *)
LoopNotify_One ==
  /\ pc[Loop] = "notify"
  /\ IF Sleepers = {}
       THEN Goto(Loop, "check")
       ELSE \E a \in Sleepers : pc' = [pc EXCEPT ![Loop] = "check", ![a] = "check"]
  /\ UNCHANGED <<op, at, locks, writes_since_snapshot_, flags, epoch, captured,
                 stamp, published, calls>>

(* notify_all wakes every waiter.                                          *)
LoopNotify ==
  /\ pc[Loop] = "notify"
  /\ pc' = [a \in Actors |-> IF a = Loop \/ a \in Sleepers THEN "check" ELSE pc[a]]
  /\ UNCHANGED <<op, at, locks, writes_since_snapshot_, flags, epoch, captured,
                 stamp, published, calls>>

------------------------------------------------------------------------------
(* ~KVStore, when no call is in progress.                                  *)

Destroy ==
  /\ ~checkpoint_stopping_
  /\ \A t \in Threads : pc[t] = "idle"
  /\ checkpoint_stopping_' = TRUE
  /\ UNCHANGED <<pc, op, at, locks, writes_since_snapshot_, checkpoint_requested_,
                 checkpoint_active_, checkpoint_epoch_, checkpoint_error_, epoch,
                 captured, stamp, published, calls>>

(* Variant for mutation: the notification comes before the flag.           *)
DestroyNotifies_TooEarly ==
  /\ ~checkpoint_stopping_
  /\ pc[Loop] = "asleep"
  /\ Goto(Loop, "check")
  /\ UNCHANGED <<op, at, locks, writes_since_snapshot_, flags, epoch, captured,
                 stamp, published, calls>>

(* Once the flag is set the loop never goes to sleep, so the notification  *)
(* matters only to a loop that slept before.                               *)
DestroyNotifies ==
  /\ checkpoint_stopping_
  /\ pc[Loop] = "asleep"
  /\ Goto(Loop, "check")
  /\ UNCHANGED <<op, at, locks, writes_since_snapshot_, flags, epoch, captured,
                 stamp, published, calls>>

Destroyed ==
  /\ pc[Loop] = "exited"
  /\ UNCHANGED vars

LoopStep ==
  \/ LoopSleep \/ LoopExit \/ LoopTake
  \/ LockSnapshot(Loop) \/ LoopCheckEpoch \/ LockAdmin(Loop) \/ LockNextShard(Loop)
  \/ LoopCapture \/ LoopCaptureThrows \/ LoopSave \/ LoopSaveThrows
  \/ LoopCatch \/ LoopFinish \/ LoopNotify

(* The steps of a thread inside a call.                                    *)
ThreadStep(t) ==
  \/ LockShard(t) \/ AppendToWal(t) \/ AppendThrows(t) \/ Apply(t)
  \/ ScheduleCheckpoint(t)
  \/ LockSnapshot(t) \/ CancelPendingCheckpoint(t) \/ LockAdmin(t) \/ LockNextShard(t)
  \/ SaveBody(t) \/ SaveBodyThrows(t)
  \/ ClearPersistenceBody(t) \/ ClearPersistenceBodyThrows(t)
  \/ LoadSnapshotBody(t) \/ ReplayFromWalBody(t) \/ ReadBodyThrows(t)
  \/ ClearBody(t)
  \/ WaitCheck(t)

Call(t) ==
  \/ \E i \in 1..kShardCount : CallSet(t, i)
  \/ \E o \in Ops : CallAdmin(t, o)
  \/ CallWait(t)

Next ==
  \/ LoopStep
  \/ \E t \in Threads : ThreadStep(t) \/ Call(t)
  \/ \E a \in Actors : SpuriousWakeup(a)
  \/ Destroy \/ DestroyNotifies \/ Destroyed

Spec == Init /\ [][Next]_vars

(* A thread that can run does run, and a lock that is free is granted.     *)
(* Calls are made or not; a spurious wakeup is never promised.             *)
Fairness ==
  /\ WF_vars(LoopStep)
  /\ WF_vars(DestroyNotifies)
  /\ \A t \in Threads : WF_vars(ThreadStep(t))

FairSpec == Spec /\ Fairness

------------------------------------------------------------------------------
(* Properties.                                                             *)

LockHolders == Actors \cup {None}

TypeOK ==
  /\ pc \in [Actors -> {"idle", "shard", "append", "apply", "schedule",
                        "snapshot", "cancel", "admin", "shards", "body",
                        "check", "asleep", "save", "catch", "finish", "notify",
                        "exited"}]
  /\ op \in [Threads -> OpNames \cup {None}]
  /\ at \in [Actors -> 0..kShardCount]
  /\ snapshot_mutex_ \in LockHolders
  /\ mutex_ \in LockHolders
  /\ shard \in [1..kShardCount -> LockHolders]
  /\ writes_since_snapshot_ \in Nat
  /\ checkpoint_requested_ \in BOOLEAN
  /\ checkpoint_active_ \in BOOLEAN
  /\ checkpoint_stopping_ \in BOOLEAN
  /\ checkpoint_epoch_ \in Nat
  /\ checkpoint_error_ \in BOOLEAN
  /\ epoch \in Nat
  /\ captured \in Nat
  /\ stamp \in Nat
  /\ published \in Nat
  /\ calls \in Nat

(* While an administrative operation or the loop's capture works on the    *)
(* whole map, no Set or Delete is between its WAL append and the change of *)
(* memory (or its scheduling): the WAL offset that is read covers exactly  *)
(* the captured state.  Two such operations never overlap either.          *)
CaptureExclusive ==
  \A a, b \in Actors :
    (pc[a] = "body" /\ a # b) => pc[b] \notin {"append", "apply", "schedule", "body"}

(* A checkpoint the loop took before SaveSnapshot, CompactPersistence,     *)
(* ClearPersistence or LoadSnapshot advanced the epoch is not carried out: *)
(* from the epoch check to the end of the save the epochs agree.           *)
NoStaleCheckpoint ==
  pc[Loop] \in {"admin", "shards", "body", "save"} => epoch = checkpoint_epoch_

(* The snapshot file never goes back to an older state of memory; only     *)
(* ClearPersistence removes it.  Captures and publications are in the same *)
(* order because both happen under one hold of snapshot_mutex_.            *)
SnapshotNeverOlder == [][published' >= published \/ published' = 0]_vars

AdminInProgress ==
  \E t \in Threads : pc[t] \in {"cancel", "admin", "shards", "body"}

(* Once kSnapshotInterval writes have been counted, a checkpoint is on its *)
(* way: being scheduled, requested or running, superseded by an operation  *)
(* in progress, or stopped by a recorded error.  The trigger is an         *)
(* equality, so a lost request would never be made again.                  *)
TriggerNotLost ==
  writes_since_snapshot_ >= kSnapshotInterval =>
    \/ checkpoint_requested_ \/ checkpoint_active_ \/ checkpoint_error_
    \/ \E t \in Threads : pc[t] = "schedule"
    \/ AdminInProgress

(* Every call returns: no cycle of locks, and no thread sleeps for ever on *)
(* checkpoint_ready_.                                                      *)
StoreCallsReturn == \A t \in Threads : pc[t] # "idle" ~> pc[t] = "idle"

(* In the wait of WaitForCheckpoints, after some request was cancelled.    *)
HangsAfterCancel(t) == pc[t] \in {"check", "asleep"} /\ checkpoint_epoch_ > 0

(* The one exception the code leaves: WaitForCheckpoints may sleep for     *)
(* ever, and only once CancelPendingCheckpoint has withdrawn a request     *)
(* without a notification.  Every other call returns, whatever happens to  *)
(* such a caller: it holds no lock.                                        *)
OnlyCancelledWaitsHang ==
  \A t \in Threads :
    \/ pc[t] # "idle" ~> pc[t] = "idle"
    \/ <>[]HangsAfterCancel(t)

(* A due checkpoint is carried out, or an error is recorded; unless a      *)
(* caller left asleep as above takes the notification meant for the loop.  *)
CheckpointServed ==
  \/ (writes_since_snapshot_ >= kSnapshotInterval)
       ~> (writes_since_snapshot_ < kSnapshotInterval \/ checkpoint_error_)
  \/ \E t \in Threads : <>[]HangsAfterCancel(t)

(* The destructor's join returns, with a pending request served first.     *)
LoopJoins ==
  checkpoint_stopping_ ~> (pc[Loop] = "exited" /\ ~checkpoint_requested_)
==============================================================================
