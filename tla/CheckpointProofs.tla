--------------------------- MODULE CheckpointProofs ---------------------------
(***************************************************************************)
(* Proofs about Checkpoint for every set of threads, number of shards and  *)
(* snapshot interval, and whichever operations are called and may throw.   *)
(***************************************************************************)
EXTENDS Checkpoint, TLAPS

(* Every leaf is tried with Z3, with Zenon, and again with Z3, unless it   *)
(* names its prover: the time to translate a leaf varies, and has a limit. *)
USE SMTT(20), ZenonT(20), SMTT(40), SMTT(60), SMTT(90)

------------------------------------------------------------------------------
(* The inductive invariant.                                                *)

(* Where the loop and the calling threads can be.                          *)
PlacesSound ==
  /\ pc[Loop] \in {"check", "asleep", "snapshot", "cancel", "admin", "shards",
                   "body", "save", "catch", "finish", "notify", "exited"}
  /\ \A t \in Threads :
       /\ pc[t] \in {"idle", "shard", "append", "apply", "schedule", "snapshot",
                     "cancel", "admin", "shards", "body", "check", "asleep"}
       /\ pc[t] \in {"snapshot", "cancel"} => op[t] \in Superseding

(* The places at which snapshot_mutex_ is held.  Clear and ReplayFromWal   *)
(* pass through "admin", "shards" and "body" without it.                   *)
InSnapshotSection(a) ==
  \/ pc[a] = "cancel"
  \/ a = Loop /\ pc[a] \in {"admin", "shards", "body", "save"}
  \/ a # Loop /\ pc[a] \in {"admin", "shards", "body"} /\ op[a] \in Superseding

(* Each lock belongs to whoever relies on it, and at[a] shards are held by *)
(* an actor that is locking them one after the other.                      *)
MutexesHeld ==
  \A a \in Actors :
    /\ InSnapshotSection(a) => snapshot_mutex_ = a
    /\ pc[a] \in {"shards", "body"} => mutex_ = a

ShardsHeld ==
  \A a \in Actors :
    /\ pc[a] = "shards" => at[a] < kShardCount /\ \A i \in 1..at[a] : shard[i] = a
    /\ pc[a] = "body" => \A i \in 1..kShardCount : shard[i] = a
    /\ pc[a] = "shard" => at[a] \in 1..kShardCount
    /\ pc[a] \in {"append", "apply", "schedule"} =>
         at[a] \in 1..kShardCount /\ shard[at[a]] = a

(* A snapshot is never ahead of memory, and the one being written is not   *)
(* older than the file.                                                    *)
StampsOrdered ==
  /\ published <= stamp
  /\ captured <= stamp
  /\ pc[Loop] = "save" => published <= captured

CInv ==
  /\ TypeOK
  /\ PlacesSound
  /\ MutexesHeld
  /\ ShardsHeld
  /\ NoStaleCheckpoint
  /\ StampsOrdered

------------------------------------------------------------------------------
(* One lemma per action: it preserves CInv and does not take the snapshot  *)
(* file back.                                                              *)

NotOlder == published' >= published \/ published' = 0

(* Taking snapshot_mutex_ when nobody holds it.                            *)
LEMMA LockSnapshotKeeps ==
  ASSUME CInv, NEW a \in Actors, LockSnapshot(a)
  PROVE  CInv' /\ NotOlder
<1> USE CheckpointAssumption DEF LockSnapshot, CInv, Actors, None, flags,
     locks, Goto
<1>1. TypeOK'
  BY DEF TypeOK, PlacesSound, ShardsHeld, LockHolders
<1>2. PlacesSound'
  BY DEF TypeOK, PlacesSound
<1>3. MutexesHeld'
  BY DEF TypeOK, PlacesSound, MutexesHeld, InSnapshotSection
<1>4. ShardsHeld'
  BY DEF TypeOK, PlacesSound, MutexesHeld, ShardsHeld
<1>5. NoStaleCheckpoint'
  BY DEF TypeOK, NoStaleCheckpoint
<1>6. StampsOrdered' /\ NotOlder
  BY DEF TypeOK, StampsOrdered, NotOlder
<1> QED
  BY <1>1, <1>2, <1>3, <1>4, <1>5, <1>6

(* Taking mutex_ when nobody holds it.                                     *)
LEMMA LockAdminKeeps ==
  ASSUME CInv, NEW a \in Actors, LockAdmin(a)
  PROVE  CInv' /\ NotOlder
<1> USE CheckpointAssumption DEF LockAdmin, CInv, Actors, None, flags, locks,
     Goto
<1>1. TypeOK'
  BY DEF TypeOK, PlacesSound, ShardsHeld, LockHolders
<1>2. PlacesSound'
  BY DEF TypeOK, PlacesSound
<1>3. MutexesHeld'
  BY DEF TypeOK, PlacesSound, MutexesHeld, InSnapshotSection
<1>4. ShardsHeld'
  BY DEF TypeOK, PlacesSound, MutexesHeld, ShardsHeld
<1>5. NoStaleCheckpoint'
  BY DEF TypeOK, NoStaleCheckpoint
<1>6. StampsOrdered' /\ NotOlder
  BY DEF TypeOK, StampsOrdered, NotOlder
<1> QED
  BY <1>1, <1>2, <1>3, <1>4, <1>5, <1>6

(* Taking the next shard lock, up to the last.                             *)
LEMMA LockNextShardKeeps ==
  ASSUME CInv, NEW a \in Actors, LockNextShard(a)
  PROVE  CInv' /\ NotOlder
<1> USE CheckpointAssumption DEF LockNextShard, CInv, Actors, None, flags,
     locks, Goto
<1>1. TypeOK'
  BY DEF TypeOK, PlacesSound, ShardsHeld, LockHolders
<1>2. PlacesSound'
  BY DEF TypeOK, PlacesSound
<1>3. MutexesHeld'
  BY DEF TypeOK, PlacesSound, MutexesHeld, InSnapshotSection
<1>4. ShardsHeld'
  BY DEF TypeOK, PlacesSound, MutexesHeld, ShardsHeld
<1>5. NoStaleCheckpoint'
  BY DEF TypeOK, NoStaleCheckpoint
<1>6. StampsOrdered' /\ NotOlder
  BY DEF TypeOK, StampsOrdered, NotOlder
<1> QED
  BY <1>1, <1>2, <1>3, <1>4, <1>5, <1>6

(* Entering Set or Delete.                                                 *)
LEMMA CallSetKeeps ==
  ASSUME CInv, NEW t \in Threads, NEW i \in 1..kShardCount, CallSet(t, i)
  PROVE  CInv' /\ NotOlder
<1> USE CheckpointAssumption DEF CallSet, CInv, Actors, None, flags, locks,
     Goto
<1>1. TypeOK'
  <2>1. pc' \in [Actors -> {"idle", "shard", "append", "apply", "schedule",
                              "snapshot", "cancel", "admin", "shards", "body",
                              "check", "asleep", "save", "catch", "finish",
                              "notify", "exited"}]
    BY DEF TypeOK
  <2>2. at' \in [Actors -> 0..kShardCount]
    BY DEF TypeOK
  <2>3. calls' \in Nat
    BY DEF TypeOK
  <2> QED
    BY <2>1, <2>2, <2>3 DEF TypeOK
<1>2. PlacesSound'
  BY DEF TypeOK, PlacesSound
<1>3. MutexesHeld'
  BY DEF TypeOK, PlacesSound, MutexesHeld, InSnapshotSection
<1>4. ShardsHeld'
  BY DEF TypeOK, PlacesSound, MutexesHeld, ShardsHeld
<1>5. NoStaleCheckpoint'
  BY DEF TypeOK, NoStaleCheckpoint
<1>6. StampsOrdered' /\ NotOlder
  BY DEF TypeOK, StampsOrdered, NotOlder
<1> QED
  BY <1>1, <1>2, <1>3, <1>4, <1>5, <1>6

(* Taking the lock of the shard of the key.                                *)
LEMMA LockShardKeeps ==
  ASSUME CInv, NEW t \in Threads, LockShard(t)
  PROVE  CInv' /\ NotOlder
<1> USE CheckpointAssumption DEF LockShard, CInv, Actors, None, flags, locks,
     Goto
<1>1. TypeOK'
  BY DEF TypeOK, PlacesSound, ShardsHeld, LockHolders
<1>2. PlacesSound'
  BY DEF TypeOK, PlacesSound
<1>3. MutexesHeld'
  BY DEF TypeOK, PlacesSound, MutexesHeld, InSnapshotSection
<1>4. ShardsHeld'
  BY DEF TypeOK, PlacesSound, MutexesHeld, ShardsHeld
<1>5. NoStaleCheckpoint'
  BY DEF TypeOK, NoStaleCheckpoint
<1>6. StampsOrdered' /\ NotOlder
  BY DEF TypeOK, StampsOrdered, NotOlder
<1> QED
  BY <1>1, <1>2, <1>3, <1>4, <1>5, <1>6

(* The WAL append of Set or Delete.                                        *)
LEMMA AppendToWalKeeps ==
  ASSUME CInv, NEW t \in Threads, AppendToWal(t)
  PROVE  CInv' /\ NotOlder
<1> USE CheckpointAssumption DEF AppendToWal, CInv, Actors, None, flags,
     locks, Goto
<1>1. TypeOK'
  BY DEF TypeOK, PlacesSound, ShardsHeld, LockHolders
<1>2. PlacesSound'
  BY DEF TypeOK, PlacesSound
<1>3. MutexesHeld'
  BY DEF TypeOK, PlacesSound, MutexesHeld, InSnapshotSection
<1>4. ShardsHeld'
  BY DEF TypeOK, PlacesSound, MutexesHeld, ShardsHeld
<1>5. NoStaleCheckpoint'
  BY DEF TypeOK, NoStaleCheckpoint
<1>6. StampsOrdered' /\ NotOlder
  BY DEF TypeOK, StampsOrdered, NotOlder
<1> QED
  BY <1>1, <1>2, <1>3, <1>4, <1>5, <1>6

(* A WAL append that throws releases the shard.                            *)
LEMMA AppendThrowsKeeps ==
  ASSUME CInv, NEW t \in Threads, AppendThrows(t)
  PROVE  CInv' /\ NotOlder
<1> USE CheckpointAssumption DEF AppendThrows, LeaveShard, UnlockShards, CInv,
     Actors, None, flags, locks, Goto
<1>1. TypeOK'
  BY DEF TypeOK, PlacesSound, ShardsHeld, LockHolders
<1>2. PlacesSound'
  BY DEF TypeOK, PlacesSound
<1>3. MutexesHeld'
  BY DEF TypeOK, PlacesSound, MutexesHeld, InSnapshotSection
<1>4. ShardsHeld'
  BY DEF TypeOK, PlacesSound, MutexesHeld, ShardsHeld
<1>5. NoStaleCheckpoint'
  BY DEF TypeOK, NoStaleCheckpoint
<1>6. StampsOrdered' /\ NotOlder
  BY DEF TypeOK, StampsOrdered, NotOlder
<1> QED
  BY <1>1, <1>2, <1>3, <1>4, <1>5, <1>6

(* Changing memory and counting the write.                                 *)
LEMMA ApplyKeeps ==
  ASSUME CInv, NEW t \in Threads, Apply(t)
  PROVE  CInv' /\ NotOlder
<1> USE CheckpointAssumption DEF Apply, LeaveShard, UnlockShards, CInv,
     Actors, None, flags, locks, Goto
<1>1. TypeOK'
  <2>1. pc' \in [Actors -> {"idle", "shard", "append", "apply", "schedule",
                              "snapshot", "cancel", "admin", "shards", "body",
                              "check", "asleep", "save", "catch", "finish",
                              "notify", "exited"}]
    BY ZenonT(60), ZenonT(90) DEF TypeOK
  <2>2. at' \in [Actors -> 0..kShardCount]
    BY DEF TypeOK
  <2>3. shard' \in [1..kShardCount -> LockHolders]
    BY DEF TypeOK, LockHolders
  <2>4. stamp' \in Nat /\ writes_since_snapshot_' \in Nat
    BY DEF TypeOK
  <2> QED
    BY <2>1, <2>2, <2>3, <2>4 DEF TypeOK
<1>2. PlacesSound'
  BY DEF TypeOK, PlacesSound
<1>3. MutexesHeld'
  BY DEF TypeOK, PlacesSound, MutexesHeld, InSnapshotSection
<1>4. ShardsHeld'
  BY DEF TypeOK, PlacesSound, MutexesHeld, ShardsHeld
<1>5. NoStaleCheckpoint'
  BY DEF TypeOK, NoStaleCheckpoint
<1>6. StampsOrdered' /\ NotOlder
  BY DEF TypeOK, StampsOrdered, NotOlder
<1> QED
  BY <1>1, <1>2, <1>3, <1>4, <1>5, <1>6

(* Posting the request wakes at most one sleeper.                          *)
LEMMA ScheduleCheckpointKeeps ==
  ASSUME CInv, NEW t \in Threads, ScheduleCheckpoint(t)
  PROVE  CInv' /\ NotOlder
<1> USE CheckpointAssumption DEF ScheduleCheckpoint, LeaveShard, UnlockShards,
     Sleepers, CInv, Actors, None, flags, locks, Goto
<1>1. TypeOK'
  <2>1. pc' \in [Actors -> {"idle", "shard", "append", "apply", "schedule",
                              "snapshot", "cancel", "admin", "shards", "body",
                              "check", "asleep", "save", "catch", "finish",
                              "notify", "exited"}]
    BY ZenonT(60), ZenonT(90) DEF TypeOK
  <2>2. at' \in [Actors -> 0..kShardCount]
    BY DEF TypeOK
  <2>3. shard' \in [1..kShardCount -> LockHolders]
    BY DEF TypeOK, LockHolders
  <2>4. checkpoint_requested_' \in BOOLEAN
    OBVIOUS
  <2> QED
    BY <2>1, <2>2, <2>3, <2>4 DEF TypeOK
<1>2. PlacesSound'
  BY DEF TypeOK, PlacesSound
<1>3. MutexesHeld'
  <2>1. \A b \in Actors : pc'[b] \in {"idle", "check"} \/ pc'[b] = pc[b]
    BY DEF TypeOK
  <2>2. \A b \in Actors : InSnapshotSection(b)' => InSnapshotSection(b)
    BY <2>1 DEF InSnapshotSection
  <2> QED
    BY <2>1, <2>2 DEF MutexesHeld
<1>4. ShardsHeld'
  BY DEF TypeOK, PlacesSound, MutexesHeld, ShardsHeld
<1>5. NoStaleCheckpoint'
  BY DEF TypeOK, NoStaleCheckpoint
<1>6. StampsOrdered' /\ NotOlder
  BY DEF TypeOK, StampsOrdered, NotOlder
<1> QED
  BY <1>1, <1>2, <1>3, <1>4, <1>5, <1>6

(* Entering an administrative operation.                                   *)
LEMMA CallAdminKeeps ==
  ASSUME CInv, NEW t \in Threads, NEW o \in Ops, CallAdmin(t, o)
  PROVE  CInv' /\ NotOlder
<1> USE CheckpointAssumption DEF CallAdmin, Superseding, MemoryOnly, OpNames,
     Foreground, CInv, Actors, None, flags, locks, Goto
<1>1. TypeOK'
  BY DEF TypeOK, PlacesSound, ShardsHeld, LockHolders
<1>2. PlacesSound'
  BY DEF TypeOK, PlacesSound
<1>3. MutexesHeld'
  BY DEF TypeOK, PlacesSound, MutexesHeld, InSnapshotSection
<1>4. ShardsHeld'
  BY DEF TypeOK, PlacesSound, MutexesHeld, ShardsHeld
<1>5. NoStaleCheckpoint'
  BY DEF TypeOK, NoStaleCheckpoint
<1>6. StampsOrdered' /\ NotOlder
  BY DEF TypeOK, StampsOrdered, NotOlder
<1> QED
  BY <1>1, <1>2, <1>3, <1>4, <1>5, <1>6

(* Advancing the epoch under snapshot_mutex_, which keeps the loop out.    *)
LEMMA CancelPendingCheckpointKeeps ==
  ASSUME CInv, NEW t \in Threads, CancelPendingCheckpoint(t)
  PROVE  CInv' /\ NotOlder
<1> USE CheckpointAssumption DEF CancelPendingCheckpoint, CInv, Actors, None,
     flags, locks, Goto
<1>1. TypeOK'
  <2>1. pc' \in [Actors -> {"idle", "shard", "append", "apply", "schedule",
                              "snapshot", "cancel", "admin", "shards", "body",
                              "check", "asleep", "save", "catch", "finish",
                              "notify", "exited"}]
    BY DEF TypeOK
  <2>2. checkpoint_epoch_' \in Nat
    BY DEF TypeOK
  <2>3. checkpoint_requested_' \in BOOLEAN
    BY ZenonT(60), ZenonT(90)
  <2> QED
    BY <2>1, <2>2, <2>3 DEF TypeOK
<1>2. PlacesSound'
  BY DEF TypeOK, PlacesSound
<1>3. MutexesHeld'
  BY DEF TypeOK, PlacesSound, MutexesHeld, InSnapshotSection
<1>4. ShardsHeld'
  BY DEF TypeOK, PlacesSound, MutexesHeld, ShardsHeld
<1>5. NoStaleCheckpoint'
  BY DEF TypeOK, PlacesSound, MutexesHeld, InSnapshotSection, NoStaleCheckpoint
<1>6. StampsOrdered' /\ NotOlder
  BY DEF TypeOK, StampsOrdered, NotOlder
<1> QED
  BY <1>1, <1>2, <1>3, <1>4, <1>5, <1>6

(* SaveSnapshot and CompactPersistence publish the present state.          *)
LEMMA SaveBodyKeeps ==
  ASSUME CInv, NEW t \in Threads, SaveBody(t)
  PROVE  CInv' /\ NotOlder
<1> USE CheckpointAssumption DEF SaveBody, Leave, UnlockAll, UnlockShards,
     UnlockMutex, UnlockSnapshot, CInv, Actors, None, flags, locks, Goto
<1>1. TypeOK'
  BY DEF TypeOK, PlacesSound, ShardsHeld, LockHolders
<1>2. PlacesSound'
  BY DEF TypeOK, PlacesSound
<1>3. MutexesHeld'
  BY DEF TypeOK, PlacesSound, MutexesHeld, InSnapshotSection
<1>4. ShardsHeld'
  BY DEF TypeOK, PlacesSound, MutexesHeld, ShardsHeld
<1>5. NoStaleCheckpoint'
  BY DEF TypeOK, NoStaleCheckpoint
<1>6. StampsOrdered' /\ NotOlder
  BY DEF TypeOK, StampsOrdered, NotOlder, PlacesSound, MutexesHeld, InSnapshotSection,
         Superseding
<1> QED
  BY <1>1, <1>2, <1>3, <1>4, <1>5, <1>6

(* A save that throws has published the present state or nothing.          *)
LEMMA SaveBodyThrowsKeeps ==
  ASSUME CInv, NEW t \in Threads, SaveBodyThrows(t)
  PROVE  CInv' /\ NotOlder
<1> USE CheckpointAssumption DEF SaveBodyThrows, Leave, UnlockAll,
     UnlockShards, UnlockMutex, UnlockSnapshot, CInv, Actors, None, flags,
     locks, Goto
<1>1. TypeOK'
  BY DEF TypeOK, PlacesSound, ShardsHeld, LockHolders
<1>2. PlacesSound'
  BY DEF TypeOK, PlacesSound
<1>3. MutexesHeld'
  BY DEF TypeOK, PlacesSound, MutexesHeld, InSnapshotSection
<1>4. ShardsHeld'
  BY DEF TypeOK, PlacesSound, MutexesHeld, ShardsHeld
<1>5. NoStaleCheckpoint'
  BY DEF TypeOK, NoStaleCheckpoint
<1>6. StampsOrdered' /\ NotOlder
  BY DEF TypeOK, StampsOrdered, NotOlder, PlacesSound, MutexesHeld, InSnapshotSection,
         Superseding
<1> QED
  BY <1>1, <1>2, <1>3, <1>4, <1>5, <1>6

(* ClearPersistence removes the snapshot.                                  *)
LEMMA ClearPersistenceBodyKeeps ==
  ASSUME CInv, NEW t \in Threads, ClearPersistenceBody(t)
  PROVE  CInv' /\ NotOlder
<1> USE CheckpointAssumption DEF ClearPersistenceBody, Leave, UnlockAll,
     UnlockShards, UnlockMutex, UnlockSnapshot, CInv, Actors, None, flags,
     locks, Goto
<1>1. TypeOK'
  BY DEF TypeOK, PlacesSound, ShardsHeld, LockHolders
<1>2. PlacesSound'
  BY DEF TypeOK, PlacesSound
<1>3. MutexesHeld'
  BY DEF TypeOK, PlacesSound, MutexesHeld, InSnapshotSection
<1>4. ShardsHeld'
  BY DEF TypeOK, PlacesSound, MutexesHeld, ShardsHeld
<1>5. NoStaleCheckpoint'
  BY DEF TypeOK, NoStaleCheckpoint
<1>6. StampsOrdered' /\ NotOlder
  BY DEF TypeOK, StampsOrdered, NotOlder, PlacesSound, MutexesHeld, InSnapshotSection,
         Superseding
<1> QED
  BY <1>1, <1>2, <1>3, <1>4, <1>5, <1>6

(* A reset that throws has removed the snapshot or not.                    *)
LEMMA ClearPersistenceBodyThrowsKeeps ==
  ASSUME CInv, NEW t \in Threads, ClearPersistenceBodyThrows(t)
  PROVE  CInv' /\ NotOlder
<1> USE CheckpointAssumption DEF ClearPersistenceBodyThrows, Leave, UnlockAll,
     UnlockShards, UnlockMutex, UnlockSnapshot, CInv, Actors, None, flags,
     locks, Goto
<1>1. TypeOK'
  BY DEF TypeOK, PlacesSound, ShardsHeld, LockHolders
<1>2. PlacesSound'
  BY DEF TypeOK, PlacesSound
<1>3. MutexesHeld'
  BY DEF TypeOK, PlacesSound, MutexesHeld, InSnapshotSection
<1>4. ShardsHeld'
  BY DEF TypeOK, PlacesSound, MutexesHeld, ShardsHeld
<1>5. NoStaleCheckpoint'
  BY DEF TypeOK, NoStaleCheckpoint
<1>6. StampsOrdered' /\ NotOlder
  BY DEF TypeOK, StampsOrdered, NotOlder, PlacesSound, MutexesHeld, InSnapshotSection,
         Superseding
<1> QED
  BY <1>1, <1>2, <1>3, <1>4, <1>5, <1>6

(* LoadSnapshot changes memory only.                                       *)
LEMMA LoadSnapshotBodyKeeps ==
  ASSUME CInv, NEW t \in Threads, LoadSnapshotBody(t)
  PROVE  CInv' /\ NotOlder
<1> USE CheckpointAssumption DEF LoadSnapshotBody, Leave, UnlockAll,
     UnlockShards, UnlockMutex, UnlockSnapshot, CInv, Actors, None, flags,
     locks, Goto
<1>1. TypeOK'
  BY DEF TypeOK, PlacesSound, ShardsHeld, LockHolders
<1>2. PlacesSound'
  BY DEF TypeOK, PlacesSound
<1>3. MutexesHeld'
  BY DEF TypeOK, PlacesSound, MutexesHeld, InSnapshotSection
<1>4. ShardsHeld'
  BY DEF TypeOK, PlacesSound, MutexesHeld, ShardsHeld
<1>5. NoStaleCheckpoint'
  BY DEF TypeOK, NoStaleCheckpoint
<1>6. StampsOrdered' /\ NotOlder
  BY DEF TypeOK, StampsOrdered, NotOlder
<1> QED
  BY <1>1, <1>2, <1>3, <1>4, <1>5, <1>6

(* A load or replay that throws changes nothing.                           *)
LEMMA ReadBodyThrowsKeeps ==
  ASSUME CInv, NEW t \in Threads, ReadBodyThrows(t)
  PROVE  CInv' /\ NotOlder
<1> USE CheckpointAssumption DEF ReadBodyThrows, Leave, UnlockAll,
     UnlockShards, UnlockMutex, UnlockSnapshot, CInv, Actors, None, flags,
     locks, Goto
<1>1. TypeOK'
  BY DEF TypeOK, PlacesSound, ShardsHeld, LockHolders
<1>2. PlacesSound'
  BY DEF TypeOK, PlacesSound
<1>3. MutexesHeld'
  BY DEF TypeOK, PlacesSound, MutexesHeld, InSnapshotSection
<1>4. ShardsHeld'
  BY DEF TypeOK, PlacesSound, MutexesHeld, ShardsHeld
<1>5. NoStaleCheckpoint'
  BY DEF TypeOK, NoStaleCheckpoint
<1>6. StampsOrdered' /\ NotOlder
  BY DEF TypeOK, StampsOrdered, NotOlder
<1> QED
  BY <1>1, <1>2, <1>3, <1>4, <1>5, <1>6

(* Clear changes memory only.                                              *)
LEMMA ClearBodyKeeps ==
  ASSUME CInv, NEW t \in Threads, ClearBody(t)
  PROVE  CInv' /\ NotOlder
<1> USE CheckpointAssumption DEF ClearBody, Leave, UnlockAll, UnlockShards,
     UnlockMutex, UnlockSnapshot, CInv, Actors, None, flags, locks, Goto
<1>1. TypeOK'
  BY DEF TypeOK, PlacesSound, ShardsHeld, LockHolders
<1>2. PlacesSound'
  BY DEF TypeOK, PlacesSound
<1>3. MutexesHeld'
  BY DEF TypeOK, PlacesSound, MutexesHeld, InSnapshotSection
<1>4. ShardsHeld'
  BY DEF TypeOK, PlacesSound, MutexesHeld, ShardsHeld
<1>5. NoStaleCheckpoint'
  BY DEF TypeOK, NoStaleCheckpoint
<1>6. StampsOrdered' /\ NotOlder
  BY DEF TypeOK, StampsOrdered, NotOlder
<1> QED
  BY <1>1, <1>2, <1>3, <1>4, <1>5, <1>6

(* ReplayFromWal changes memory only.                                      *)
LEMMA ReplayFromWalBodyKeeps ==
  ASSUME CInv, NEW t \in Threads, ReplayFromWalBody(t)
  PROVE  CInv' /\ NotOlder
<1> USE CheckpointAssumption DEF ReplayFromWalBody, Leave, UnlockAll,
     UnlockShards, UnlockMutex, UnlockSnapshot, CInv, Actors, None, flags,
     locks, Goto
<1>1. TypeOK'
  BY DEF TypeOK, PlacesSound, ShardsHeld, LockHolders
<1>2. PlacesSound'
  BY DEF TypeOK, PlacesSound
<1>3. MutexesHeld'
  BY DEF TypeOK, PlacesSound, MutexesHeld, InSnapshotSection
<1>4. ShardsHeld'
  BY DEF TypeOK, PlacesSound, MutexesHeld, ShardsHeld
<1>5. NoStaleCheckpoint'
  BY DEF TypeOK, NoStaleCheckpoint
<1>6. StampsOrdered' /\ NotOlder
  BY DEF TypeOK, StampsOrdered, NotOlder
<1> QED
  BY <1>1, <1>2, <1>3, <1>4, <1>5, <1>6

(* Entering WaitForCheckpoints.                                            *)
LEMMA CallWaitKeeps ==
  ASSUME CInv, NEW t \in Threads, CallWait(t)
  PROVE  CInv' /\ NotOlder
<1> USE CheckpointAssumption DEF CallWait, CInv, Actors, None, flags, locks,
     Goto
<1>1. TypeOK'
  BY DEF TypeOK, PlacesSound, ShardsHeld, LockHolders
<1>2. PlacesSound'
  BY DEF TypeOK, PlacesSound
<1>3. MutexesHeld'
  BY DEF TypeOK, PlacesSound, MutexesHeld, InSnapshotSection
<1>4. ShardsHeld'
  BY DEF TypeOK, PlacesSound, MutexesHeld, ShardsHeld
<1>5. NoStaleCheckpoint'
  BY DEF TypeOK, NoStaleCheckpoint
<1>6. StampsOrdered' /\ NotOlder
  BY DEF TypeOK, StampsOrdered, NotOlder
<1> QED
  BY <1>1, <1>2, <1>3, <1>4, <1>5, <1>6

(* WaitForCheckpoints evaluates its predicate.                             *)
LEMMA WaitCheckKeeps ==
  ASSUME CInv, NEW t \in Threads, WaitCheck(t)
  PROVE  CInv' /\ NotOlder
<1> USE CheckpointAssumption DEF WaitCheck, CInv, Actors, None, flags, locks,
     Goto
<1>1. TypeOK'
  BY DEF TypeOK, PlacesSound, ShardsHeld, LockHolders
<1>2. PlacesSound'
  BY DEF TypeOK, PlacesSound
<1>3. MutexesHeld'
  BY DEF TypeOK, PlacesSound, MutexesHeld, InSnapshotSection
<1>4. ShardsHeld'
  BY DEF TypeOK, PlacesSound, MutexesHeld, ShardsHeld
<1>5. NoStaleCheckpoint'
  BY DEF TypeOK, NoStaleCheckpoint
<1>6. StampsOrdered' /\ NotOlder
  BY DEF TypeOK, StampsOrdered, NotOlder
<1> QED
  BY <1>1, <1>2, <1>3, <1>4, <1>5, <1>6

(* A wait that returns without a notification.                             *)
LEMMA SpuriousWakeupKeeps ==
  ASSUME CInv, NEW a \in Actors, SpuriousWakeup(a)
  PROVE  CInv' /\ NotOlder
<1> USE CheckpointAssumption DEF SpuriousWakeup, CInv, Actors, None, flags,
     locks, Goto
<1>1. TypeOK'
  BY DEF TypeOK, PlacesSound, ShardsHeld, LockHolders
<1>2. PlacesSound'
  BY DEF TypeOK, PlacesSound
<1>3. MutexesHeld'
  BY DEF TypeOK, PlacesSound, MutexesHeld, InSnapshotSection
<1>4. ShardsHeld'
  BY DEF TypeOK, PlacesSound, MutexesHeld, ShardsHeld
<1>5. NoStaleCheckpoint'
  BY DEF TypeOK, NoStaleCheckpoint
<1>6. StampsOrdered' /\ NotOlder
  BY DEF TypeOK, StampsOrdered, NotOlder
<1> QED
  BY <1>1, <1>2, <1>3, <1>4, <1>5, <1>6

(* The loop goes to sleep.                                                 *)
LEMMA LoopSleepKeeps ==
  ASSUME CInv, LoopSleep
  PROVE  CInv' /\ NotOlder
<1> USE CheckpointAssumption DEF LoopSleep, CInv, Actors, None, flags, locks,
     Goto
<1>1. TypeOK'
  BY DEF TypeOK, PlacesSound, ShardsHeld, LockHolders
<1>2. PlacesSound'
  BY DEF TypeOK, PlacesSound
<1>3. MutexesHeld'
  BY DEF TypeOK, PlacesSound, MutexesHeld, InSnapshotSection
<1>4. ShardsHeld'
  BY DEF TypeOK, PlacesSound, MutexesHeld, ShardsHeld
<1>5. NoStaleCheckpoint'
  BY DEF TypeOK, NoStaleCheckpoint
<1>6. StampsOrdered' /\ NotOlder
  BY DEF TypeOK, StampsOrdered, NotOlder
<1> QED
  BY <1>1, <1>2, <1>3, <1>4, <1>5, <1>6

(* The loop ends.                                                          *)
LEMMA LoopExitKeeps ==
  ASSUME CInv, LoopExit
  PROVE  CInv' /\ NotOlder
<1> USE CheckpointAssumption DEF LoopExit, CInv, Actors, None, flags, locks,
     Goto
<1>1. TypeOK'
  BY DEF TypeOK, PlacesSound, ShardsHeld, LockHolders
<1>2. PlacesSound'
  BY DEF TypeOK, PlacesSound
<1>3. MutexesHeld'
  BY DEF TypeOK, PlacesSound, MutexesHeld, InSnapshotSection
<1>4. ShardsHeld'
  BY DEF TypeOK, PlacesSound, MutexesHeld, ShardsHeld
<1>5. NoStaleCheckpoint'
  BY DEF TypeOK, NoStaleCheckpoint
<1>6. StampsOrdered' /\ NotOlder
  BY DEF TypeOK, StampsOrdered, NotOlder
<1> QED
  BY <1>1, <1>2, <1>3, <1>4, <1>5, <1>6

(* The loop takes a request with the present epoch.                        *)
LEMMA LoopTakeKeeps ==
  ASSUME CInv, LoopTake
  PROVE  CInv' /\ NotOlder
<1> USE CheckpointAssumption DEF LoopTake, CInv, Actors, None, flags, locks,
     Goto
<1>1. TypeOK'
  BY ZenonT(60), ZenonT(90) DEF TypeOK, PlacesSound, ShardsHeld, LockHolders
<1>2. PlacesSound'
  BY DEF TypeOK, PlacesSound
<1>3. MutexesHeld'
  BY DEF TypeOK, PlacesSound, MutexesHeld, InSnapshotSection
<1>4. ShardsHeld'
  BY DEF TypeOK, PlacesSound, MutexesHeld, ShardsHeld
<1>5. NoStaleCheckpoint'
  BY DEF TypeOK, NoStaleCheckpoint
<1>6. StampsOrdered' /\ NotOlder
  BY DEF TypeOK, StampsOrdered, NotOlder
<1> QED
  BY <1>1, <1>2, <1>3, <1>4, <1>5, <1>6

(* The loop goes on only if the epochs agree.                              *)
LEMMA LoopCheckEpochKeeps ==
  ASSUME CInv, LoopCheckEpoch
  PROVE  CInv' /\ NotOlder
<1> USE CheckpointAssumption DEF LoopCheckEpoch, UnlockSnapshot, CInv, Actors,
     None, flags, locks, Goto
<1>1. TypeOK'
  BY DEF TypeOK, PlacesSound, ShardsHeld, LockHolders
<1>2. PlacesSound'
  BY DEF TypeOK, PlacesSound
<1>3. MutexesHeld'
  BY DEF TypeOK, PlacesSound, MutexesHeld, InSnapshotSection
<1>4. ShardsHeld'
  BY DEF TypeOK, PlacesSound, MutexesHeld, ShardsHeld
<1>5. NoStaleCheckpoint'
  BY DEF TypeOK, NoStaleCheckpoint
<1>6. StampsOrdered' /\ NotOlder
  BY DEF TypeOK, StampsOrdered, NotOlder
<1> QED
  BY <1>1, <1>2, <1>3, <1>4, <1>5, <1>6

(* The loop copies the present state under all locks.                      *)
LEMMA LoopCaptureKeeps ==
  ASSUME CInv, LoopCapture
  PROVE  CInv' /\ NotOlder
<1> USE CheckpointAssumption DEF LoopCapture, UnlockShards, UnlockMutex, CInv,
     Actors, None, flags, locks, Goto
<1>1. TypeOK'
  BY DEF TypeOK, PlacesSound, ShardsHeld, LockHolders
<1>2. PlacesSound'
  BY DEF TypeOK, PlacesSound
<1>3. MutexesHeld'
  BY DEF TypeOK, PlacesSound, MutexesHeld, InSnapshotSection
<1>4. ShardsHeld'
  BY DEF TypeOK, PlacesSound, MutexesHeld, ShardsHeld
<1>5. NoStaleCheckpoint'
  BY DEF TypeOK, NoStaleCheckpoint
<1>6. StampsOrdered' /\ NotOlder
  BY DEF TypeOK, StampsOrdered, NotOlder
<1> QED
  BY <1>1, <1>2, <1>3, <1>4, <1>5, <1>6

(* A capture that throws releases all locks.                               *)
LEMMA LoopCaptureThrowsKeeps ==
  ASSUME CInv, LoopCaptureThrows
  PROVE  CInv' /\ NotOlder
<1> USE CheckpointAssumption DEF LoopCaptureThrows, UnlockAll, UnlockShards,
     UnlockMutex, UnlockSnapshot, CInv, Actors, None, flags, locks, Goto
<1>1. TypeOK'
  BY DEF TypeOK, PlacesSound, ShardsHeld, LockHolders
<1>2. PlacesSound'
  BY DEF TypeOK, PlacesSound
<1>3. MutexesHeld'
  BY DEF TypeOK, PlacesSound, MutexesHeld, InSnapshotSection
<1>4. ShardsHeld'
  BY DEF TypeOK, PlacesSound, MutexesHeld, ShardsHeld
<1>5. NoStaleCheckpoint'
  BY DEF TypeOK, NoStaleCheckpoint
<1>6. StampsOrdered' /\ NotOlder
  BY DEF TypeOK, StampsOrdered, NotOlder
<1> QED
  BY <1>1, <1>2, <1>3, <1>4, <1>5, <1>6

(* The loop publishes what it captured, still under snapshot_mutex_.       *)
LEMMA LoopSaveKeeps ==
  ASSUME CInv, LoopSave
  PROVE  CInv' /\ NotOlder
<1> USE CheckpointAssumption DEF LoopSave, UnlockSnapshot, CInv, Actors, None,
     flags, locks, Goto
<1>1. TypeOK'
  BY DEF TypeOK, PlacesSound, ShardsHeld, LockHolders
<1>2. PlacesSound'
  BY DEF TypeOK, PlacesSound
<1>3. MutexesHeld'
  BY DEF TypeOK, PlacesSound, MutexesHeld, InSnapshotSection
<1>4. ShardsHeld'
  BY DEF TypeOK, PlacesSound, MutexesHeld, ShardsHeld
<1>5. NoStaleCheckpoint'
  BY DEF TypeOK, NoStaleCheckpoint
<1>6. StampsOrdered' /\ NotOlder
  BY DEF TypeOK, StampsOrdered, NotOlder
<1> QED
  BY <1>1, <1>2, <1>3, <1>4, <1>5, <1>6

(* A save that throws has published the capture or nothing.                *)
LEMMA LoopSaveThrowsKeeps ==
  ASSUME CInv, LoopSaveThrows
  PROVE  CInv' /\ NotOlder
<1> USE CheckpointAssumption DEF LoopSaveThrows, UnlockSnapshot, CInv, Actors,
     None, flags, locks, Goto
<1>1. TypeOK'
  BY DEF TypeOK, PlacesSound, ShardsHeld, LockHolders
<1>2. PlacesSound'
  BY DEF TypeOK, PlacesSound
<1>3. MutexesHeld'
  BY DEF TypeOK, PlacesSound, MutexesHeld, InSnapshotSection
<1>4. ShardsHeld'
  BY DEF TypeOK, PlacesSound, MutexesHeld, ShardsHeld
<1>5. NoStaleCheckpoint'
  BY DEF TypeOK, NoStaleCheckpoint
<1>6. StampsOrdered' /\ NotOlder
  BY DEF TypeOK, StampsOrdered, NotOlder
<1> QED
  BY <1>1, <1>2, <1>3, <1>4, <1>5, <1>6

(* The loop records the error.                                             *)
LEMMA LoopCatchKeeps ==
  ASSUME CInv, LoopCatch
  PROVE  CInv' /\ NotOlder
<1> USE CheckpointAssumption DEF LoopCatch, CInv, Actors, None, flags, locks,
     Goto
<1>1. TypeOK'
  BY ZenonT(60), ZenonT(90) DEF TypeOK, PlacesSound, ShardsHeld, LockHolders
<1>2. PlacesSound'
  BY DEF TypeOK, PlacesSound
<1>3. MutexesHeld'
  BY DEF TypeOK, PlacesSound, MutexesHeld, InSnapshotSection
<1>4. ShardsHeld'
  BY DEF TypeOK, PlacesSound, MutexesHeld, ShardsHeld
<1>5. NoStaleCheckpoint'
  BY DEF TypeOK, NoStaleCheckpoint
<1>6. StampsOrdered' /\ NotOlder
  BY DEF TypeOK, StampsOrdered, NotOlder
<1> QED
  BY <1>1, <1>2, <1>3, <1>4, <1>5, <1>6

(* The loop is no longer active.                                           *)
LEMMA LoopFinishKeeps ==
  ASSUME CInv, LoopFinish
  PROVE  CInv' /\ NotOlder
<1> USE CheckpointAssumption DEF LoopFinish, CInv, Actors, None, flags, locks,
     Goto
<1>1. TypeOK'
  BY ZenonT(60), ZenonT(90) DEF TypeOK, PlacesSound, ShardsHeld, LockHolders
<1>2. PlacesSound'
  BY DEF TypeOK, PlacesSound
<1>3. MutexesHeld'
  BY DEF TypeOK, PlacesSound, MutexesHeld, InSnapshotSection
<1>4. ShardsHeld'
  BY DEF TypeOK, PlacesSound, MutexesHeld, ShardsHeld
<1>5. NoStaleCheckpoint'
  BY DEF TypeOK, NoStaleCheckpoint
<1>6. StampsOrdered' /\ NotOlder
  BY DEF TypeOK, StampsOrdered, NotOlder
<1> QED
  BY <1>1, <1>2, <1>3, <1>4, <1>5, <1>6

(* The loop wakes every sleeper.                                           *)
LEMMA LoopNotifyKeeps ==
  ASSUME CInv, LoopNotify
  PROVE  CInv' /\ NotOlder
<1> USE CheckpointAssumption DEF LoopNotify, Sleepers, CInv, Actors, None,
     flags, locks, Goto
<1>1. TypeOK'
  BY DEF TypeOK, PlacesSound, ShardsHeld, LockHolders
<1>2. PlacesSound'
  BY DEF TypeOK, PlacesSound
<1>3. MutexesHeld'
  BY DEF TypeOK, PlacesSound, MutexesHeld, InSnapshotSection
<1>4. ShardsHeld'
  BY DEF TypeOK, PlacesSound, MutexesHeld, ShardsHeld
<1>5. NoStaleCheckpoint'
  BY DEF TypeOK, NoStaleCheckpoint
<1>6. StampsOrdered' /\ NotOlder
  BY DEF TypeOK, StampsOrdered, NotOlder
<1> QED
  BY <1>1, <1>2, <1>3, <1>4, <1>5, <1>6

(* The destructor sets its flag.                                           *)
LEMMA DestroyKeeps ==
  ASSUME CInv, Destroy
  PROVE  CInv' /\ NotOlder
<1> USE CheckpointAssumption DEF Destroy, CInv, Actors, None, flags, locks,
     Goto
<1>1. TypeOK'
  BY DEF TypeOK, PlacesSound, ShardsHeld, LockHolders
<1>2. PlacesSound'
  BY DEF TypeOK, PlacesSound
<1>3. MutexesHeld'
  BY DEF TypeOK, PlacesSound, MutexesHeld, InSnapshotSection
<1>4. ShardsHeld'
  BY DEF TypeOK, PlacesSound, MutexesHeld, ShardsHeld
<1>5. NoStaleCheckpoint'
  BY DEF TypeOK, NoStaleCheckpoint
<1>6. StampsOrdered' /\ NotOlder
  BY DEF TypeOK, StampsOrdered, NotOlder
<1> QED
  BY <1>1, <1>2, <1>3, <1>4, <1>5, <1>6

(* The destructor wakes the loop.                                          *)
LEMMA DestroyNotifiesKeeps ==
  ASSUME CInv, DestroyNotifies
  PROVE  CInv' /\ NotOlder
<1> USE CheckpointAssumption DEF DestroyNotifies, CInv, Actors, None, flags,
     locks, Goto
<1>1. TypeOK'
  BY DEF TypeOK, PlacesSound, ShardsHeld, LockHolders
<1>2. PlacesSound'
  BY DEF TypeOK, PlacesSound
<1>3. MutexesHeld'
  BY DEF TypeOK, PlacesSound, MutexesHeld, InSnapshotSection
<1>4. ShardsHeld'
  BY DEF TypeOK, PlacesSound, MutexesHeld, ShardsHeld
<1>5. NoStaleCheckpoint'
  BY DEF TypeOK, NoStaleCheckpoint
<1>6. StampsOrdered' /\ NotOlder
  BY DEF TypeOK, StampsOrdered, NotOlder
<1> QED
  BY <1>1, <1>2, <1>3, <1>4, <1>5, <1>6

(* A step that changes nothing.                                            *)
LEMMA StutterKeeps ==
  ASSUME CInv, UNCHANGED vars
  PROVE  CInv' /\ NotOlder
<1> USE DEF CInv, vars, flags, locks
<1>1. TypeOK' /\ PlacesSound'
  BY DEF TypeOK, PlacesSound
<1>2. MutexesHeld' /\ ShardsHeld'
  BY DEF MutexesHeld, ShardsHeld, InSnapshotSection
<1>3. NoStaleCheckpoint' /\ StampsOrdered' /\ NotOlder
  BY DEF TypeOK, NoStaleCheckpoint, StampsOrdered, NotOlder
<1> QED
  BY <1>1, <1>2, <1>3

(* The state after the constructor satisfies the invariant.                *)
LEMMA InitSound ==
  ASSUME Init
  PROVE  CInv
<1> USE CheckpointAssumption DEF Init, Actors, None
<1>1. TypeOK
  <2>1. pc \in [Actors -> {"idle", "shard", "append", "apply", "schedule",
                              "snapshot", "cancel", "admin", "shards", "body",
                              "check", "asleep", "save", "catch", "finish",
                              "notify", "exited"}]
    OBVIOUS
  <2>2. op \in [Threads -> OpNames \cup {None}] /\ at \in [Actors -> 0..kShardCount]
    OBVIOUS
  <2>3. /\ shard \in [1..kShardCount -> LockHolders]
        /\ snapshot_mutex_ \in LockHolders /\ mutex_ \in LockHolders
    BY DEF LockHolders
  <2>4. /\ checkpoint_requested_ \in BOOLEAN /\ checkpoint_active_ \in BOOLEAN
        /\ checkpoint_stopping_ \in BOOLEAN /\ checkpoint_error_ \in BOOLEAN
    BY ZenonT(60), ZenonT(90)
  <2> QED
    BY <2>1, <2>2, <2>3, <2>4 DEF TypeOK
<1>2. PlacesSound
  BY DEF PlacesSound
<1>3. MutexesHeld /\ ShardsHeld
  BY DEF MutexesHeld, ShardsHeld, InSnapshotSection
<1>4. NoStaleCheckpoint /\ StampsOrdered
  BY DEF NoStaleCheckpoint, StampsOrdered
<1> QED
  BY <1>1, <1>2, <1>3, <1>4 DEF CInv

(* Every step keeps the invariant and does not take the snapshot back.     *)
LEMMA NextKeeps ==
  ASSUME CInv, [Next]_vars
  PROVE  CInv' /\ NotOlder
<1>1. ASSUME LoopStep
      PROVE  CInv' /\ NotOlder
  BY <1>1, LoopSleepKeeps, LoopExitKeeps, LoopTakeKeeps, LockSnapshotKeeps,
     LoopCheckEpochKeeps, LockAdminKeeps, LockNextShardKeeps,
     LoopCaptureKeeps, LoopCaptureThrowsKeeps, LoopSaveKeeps,
     LoopSaveThrowsKeeps, LoopCatchKeeps, LoopFinishKeeps, LoopNotifyKeeps
     DEF LoopStep, Actors
<1>2. ASSUME NEW t \in Threads, ThreadStep(t)
      PROVE  CInv' /\ NotOlder
  BY <1>2, LockShardKeeps, AppendToWalKeeps, AppendThrowsKeeps, ApplyKeeps,
     ScheduleCheckpointKeeps, LockSnapshotKeeps,
     CancelPendingCheckpointKeeps, LockAdminKeeps, LockNextShardKeeps,
     SaveBodyKeeps, SaveBodyThrowsKeeps, ClearPersistenceBodyKeeps,
     ClearPersistenceBodyThrowsKeeps, LoadSnapshotBodyKeeps,
     ReplayFromWalBodyKeeps, ReadBodyThrowsKeeps, ClearBodyKeeps,
     WaitCheckKeeps DEF ThreadStep, Actors
<1>3. ASSUME NEW t \in Threads, Call(t)
      PROVE  CInv' /\ NotOlder
  BY <1>3, CallSetKeeps, CallAdminKeeps, CallWaitKeeps DEF Call
<1>4. ASSUME NEW a \in Actors, SpuriousWakeup(a)
      PROVE  CInv' /\ NotOlder
  BY <1>4, SpuriousWakeupKeeps
<1>5. ASSUME Destroy \/ DestroyNotifies
      PROVE  CInv' /\ NotOlder
  BY <1>5, DestroyKeeps, DestroyNotifiesKeeps
<1>6. ASSUME Destroyed \/ UNCHANGED vars
      PROVE  CInv' /\ NotOlder
  BY <1>6, StutterKeeps DEF Destroyed
<1> QED
  BY <1>1, <1>2, <1>3, <1>4, <1>5, <1>6 DEF Next

------------------------------------------------------------------------------
(* The theorems.                                                           *)

(* CInv holds in every reachable state.                                    *)
THEOREM CheckpointInvariance == Spec => []CInv
<1>1. Init => CInv
  BY InitSound
<1>2. CInv /\ [Next]_vars => CInv'
  BY NextKeeps
<1> QED
  BY <1>1, <1>2, PTL DEF Spec

(* The types are kept, whatever the threads call and whatever throws.      *)
THEOREM CheckpointTypeCorrect == Spec => []TypeOK
<1>1. CInv => TypeOK
  BY DEF CInv
<1> QED
  BY <1>1, CheckpointInvariance, PTL

(* LockAllShardsExclusive keeps writers out of every capture: while the    *)
(* whole map is copied, loaded or saved, no Set or Delete is between its   *)
(* WAL append and its change of memory, and no other such operation runs.  *)
THEOREM CapturesAreExclusive == Spec => []CaptureExclusive
<1>1. CInv => CaptureExclusive
  <2> SUFFICES ASSUME CInv, NEW a \in Actors, NEW b \in Actors,
                      pc[a] = "body", a # b
               PROVE  pc[b] \notin {"append", "apply", "schedule", "body"}
    BY DEF CaptureExclusive
  <2>1. pc[b] # "body"
    BY DEF CInv, MutexesHeld
  <2>2. pc[b] \notin {"append", "apply", "schedule"}
    BY DEF CInv, ShardsHeld
  <2> QED
    BY <2>1, <2>2
<1> QED
  BY <1>1, CheckpointInvariance, PTL

(* CheckpointLoop carries out no checkpoint that a save, a compaction, a   *)
(* load or a reset has superseded: the epoch it took is still the current  *)
(* one until the snapshot is written.                                      *)
THEOREM SupersededIsDropped == Spec => []NoStaleCheckpoint
<1>1. CInv => NoStaleCheckpoint
  BY DEF CInv
<1> QED
  BY <1>1, CheckpointInvariance, PTL

(* No interleaving of explicit saves, compactions and background           *)
(* checkpoints replaces the snapshot by an older one.                      *)
THEOREM SnapshotsAdvance == Spec => SnapshotNeverOlder
<1>1. CInv /\ [Next]_vars => [published' >= published \/ published' = 0]_vars
  BY NextKeeps DEF NotOlder
<1> QED
  BY <1>1, CheckpointInvariance, PTL DEF Spec, SnapshotNeverOlder

------------------------------------------------------------------------------
(* Due checkpoints.                                                        *)

(* The loop has taken a request that nobody has superseded.                *)
LoopWillCapture ==
  pc[Loop] \in {"snapshot", "cancel", "admin", "shards", "body"} /\ epoch = checkpoint_epoch_

(* An operation that has cancelled the request will reset the counter.     *)
SupersedeInProgress ==
  \E t \in Threads : pc[t] \in {"admin", "shards", "body"} /\ op[t] \in Superseding

OnItsWay ==
  \/ checkpoint_requested_ \/ checkpoint_error_
  \/ \E t \in Threads : pc[t] = "schedule"
  \/ LoopWillCapture \/ pc[Loop] = "catch" \/ SupersedeInProgress

TriggerSound ==
  /\ \A t \in Threads : op[t] \in Ops \cup {None}
  /\ pc[Loop] \in {"snapshot", "cancel", "admin", "shards", "body", "save", "catch", "finish"} =>
       checkpoint_active_
  /\ writes_since_snapshot_ >= kSnapshotInterval => OnItsWay

(* Whoever cancels a request resets the counter: no load of a snapshot,    *)
(* which does not, and no save, compaction or reset that fails.            *)
CancelsAreFinished ==
  "LoadSnapshot" \notin Ops /\ Superseding \cap Ops \cap MayThrow = {}

LEMMA TriggerStep ==
  ASSUME CancelsAreFinished, CInv, TriggerSound, [Next]_vars
  PROVE  TriggerSound'
<1> USE CheckpointAssumption DEF CInv, Actors, None, flags, locks, Goto
<1>1. ASSUME LoopSleep PROVE TriggerSound'
  BY <1>1
     DEF TriggerSound, OnItsWay, LoopWillCapture, SupersedeInProgress, TypeOK,
         LoopSleep
<1>2. ASSUME LoopExit PROVE TriggerSound'
  BY <1>2
     DEF TriggerSound, OnItsWay, LoopWillCapture, SupersedeInProgress, TypeOK,
         LoopExit
<1>3. ASSUME LoopTake PROVE TriggerSound'
  BY <1>3
     DEF TriggerSound, OnItsWay, LoopWillCapture, SupersedeInProgress, TypeOK,
         LoopTake
<1>4. ASSUME LockSnapshot(Loop) PROVE TriggerSound'
  BY <1>4
     DEF TriggerSound, OnItsWay, LoopWillCapture, SupersedeInProgress, TypeOK,
         LockSnapshot, PlacesSound
<1>5. ASSUME LoopCheckEpoch PROVE TriggerSound'
  BY <1>5
     DEF TriggerSound, OnItsWay, LoopWillCapture, SupersedeInProgress, TypeOK,
         LoopCheckEpoch
<1>6. ASSUME LockAdmin(Loop) PROVE TriggerSound'
  BY <1>6
     DEF TriggerSound, OnItsWay, LoopWillCapture, SupersedeInProgress, TypeOK,
         LockAdmin, PlacesSound
<1>7. ASSUME LockNextShard(Loop) PROVE TriggerSound'
  BY <1>7
     DEF TriggerSound, OnItsWay, LoopWillCapture, SupersedeInProgress, TypeOK,
         LockNextShard, PlacesSound
<1>8. ASSUME LoopCapture PROVE TriggerSound'
  BY <1>8
     DEF TriggerSound, OnItsWay, LoopWillCapture, SupersedeInProgress, TypeOK,
         LoopCapture
<1>9. ASSUME LoopCaptureThrows PROVE TriggerSound'
  BY <1>9
     DEF TriggerSound, OnItsWay, LoopWillCapture, SupersedeInProgress, TypeOK,
         LoopCaptureThrows
<1>10. ASSUME LoopSave PROVE TriggerSound'
  BY <1>10
     DEF TriggerSound, OnItsWay, LoopWillCapture, SupersedeInProgress, TypeOK,
         LoopSave
<1>11. ASSUME LoopSaveThrows PROVE TriggerSound'
  BY <1>11
     DEF TriggerSound, OnItsWay, LoopWillCapture, SupersedeInProgress, TypeOK,
         LoopSaveThrows
<1>12. ASSUME LoopCatch PROVE TriggerSound'
  BY <1>12
     DEF TriggerSound, OnItsWay, LoopWillCapture, SupersedeInProgress, TypeOK,
         LoopCatch
<1>13. ASSUME LoopFinish PROVE TriggerSound'
  BY <1>13
     DEF TriggerSound, OnItsWay, LoopWillCapture, SupersedeInProgress, TypeOK,
         LoopFinish
<1>14. ASSUME LoopNotify PROVE TriggerSound'
  BY <1>14
     DEF TriggerSound, OnItsWay, LoopWillCapture, SupersedeInProgress, TypeOK,
         LoopNotify, Sleepers
<1>15. ASSUME NEW t \in Threads, LockShard(t) PROVE TriggerSound'
  BY <1>15
     DEF TriggerSound, OnItsWay, LoopWillCapture, SupersedeInProgress, TypeOK,
         LockShard
<1>16. ASSUME NEW t \in Threads, AppendToWal(t) PROVE TriggerSound'
  BY <1>16
     DEF TriggerSound, OnItsWay, LoopWillCapture, SupersedeInProgress, TypeOK,
         AppendToWal
<1>17. ASSUME NEW t \in Threads, AppendThrows(t) PROVE TriggerSound'
  BY <1>17
     DEF TriggerSound, OnItsWay, LoopWillCapture, SupersedeInProgress, TypeOK,
         AppendThrows, LeaveShard
<1>18. ASSUME NEW t \in Threads, Apply(t) PROVE TriggerSound'
  BY <1>18
     DEF TriggerSound, OnItsWay, LoopWillCapture, SupersedeInProgress, TypeOK,
         Apply, LeaveShard
<1>19. ASSUME NEW t \in Threads, ScheduleCheckpoint(t) PROVE TriggerSound'
  BY <1>19
     DEF TriggerSound, OnItsWay, LoopWillCapture, SupersedeInProgress, TypeOK,
         ScheduleCheckpoint, LeaveShard, Sleepers
<1>20. ASSUME NEW t \in Threads, LockSnapshot(t) PROVE TriggerSound'
  BY <1>20
     DEF TriggerSound, OnItsWay, LoopWillCapture, SupersedeInProgress, TypeOK,
         LockSnapshot
<1>21. ASSUME NEW t \in Threads, CancelPendingCheckpoint(t) PROVE TriggerSound'
  BY <1>21
     DEF TriggerSound, OnItsWay, LoopWillCapture, SupersedeInProgress, TypeOK,
         CancelPendingCheckpoint, Superseding, CancelsAreFinished, PlacesSound
<1>22. ASSUME NEW t \in Threads, LockAdmin(t) PROVE TriggerSound'
  BY <1>22
     DEF TriggerSound, OnItsWay, LoopWillCapture, SupersedeInProgress, TypeOK,
         LockAdmin
<1>23. ASSUME NEW t \in Threads, LockNextShard(t) PROVE TriggerSound'
  BY <1>23
     DEF TriggerSound, OnItsWay, LoopWillCapture, SupersedeInProgress, TypeOK,
         LockNextShard
<1>24. ASSUME NEW t \in Threads, SaveBody(t) PROVE TriggerSound'
  BY <1>24
     DEF TriggerSound, OnItsWay, LoopWillCapture, SupersedeInProgress, TypeOK,
         SaveBody, Leave
<1>25. ASSUME NEW t \in Threads, SaveBodyThrows(t) PROVE TriggerSound'
  BY <1>25
     DEF TriggerSound, OnItsWay, LoopWillCapture, SupersedeInProgress, TypeOK,
         SaveBodyThrows, Leave, Superseding, CancelsAreFinished, PlacesSound
<1>26. ASSUME NEW t \in Threads, ClearPersistenceBody(t) PROVE TriggerSound'
  BY <1>26
     DEF TriggerSound, OnItsWay, LoopWillCapture, SupersedeInProgress, TypeOK,
         ClearPersistenceBody, Leave
<1>27. ASSUME NEW t \in Threads, ClearPersistenceBodyThrows(t) PROVE TriggerSound'
  BY <1>27
     DEF TriggerSound, OnItsWay, LoopWillCapture, SupersedeInProgress, TypeOK,
         ClearPersistenceBodyThrows, Leave, Superseding, CancelsAreFinished,
         PlacesSound
<1>28. ASSUME NEW t \in Threads, LoadSnapshotBody(t) PROVE TriggerSound'
  BY <1>28
     DEF TriggerSound, OnItsWay, LoopWillCapture, SupersedeInProgress, TypeOK,
         LoadSnapshotBody, Leave, CancelsAreFinished, PlacesSound
<1>29. ASSUME NEW t \in Threads, ReplayFromWalBody(t) PROVE TriggerSound'
  BY <1>29
     DEF TriggerSound, OnItsWay, LoopWillCapture, SupersedeInProgress, TypeOK,
         ReplayFromWalBody, Leave, Superseding
<1>30. ASSUME NEW t \in Threads, ReadBodyThrows(t) PROVE TriggerSound'
  BY <1>30
     DEF TriggerSound, OnItsWay, LoopWillCapture, SupersedeInProgress, TypeOK,
         ReadBodyThrows, Leave, Superseding, CancelsAreFinished, PlacesSound
<1>31. ASSUME NEW t \in Threads, ClearBody(t) PROVE TriggerSound'
  BY <1>31
     DEF TriggerSound, OnItsWay, LoopWillCapture, SupersedeInProgress, TypeOK,
         ClearBody, Leave
<1>32. ASSUME NEW t \in Threads, WaitCheck(t) PROVE TriggerSound'
  BY <1>32
     DEF TriggerSound, OnItsWay, LoopWillCapture, SupersedeInProgress, TypeOK,
         WaitCheck
<1>33. ASSUME NEW t \in Threads, NEW i \in 1..kShardCount, CallSet(t, i) PROVE TriggerSound'
  BY <1>33
     DEF TriggerSound, OnItsWay, LoopWillCapture, SupersedeInProgress, TypeOK,
         CallSet
<1>34. ASSUME NEW t \in Threads, NEW o \in Ops, CallAdmin(t, o) PROVE TriggerSound'
  BY <1>34
     DEF TriggerSound, OnItsWay, LoopWillCapture, SupersedeInProgress, TypeOK,
         CallAdmin, Superseding
<1>35. ASSUME NEW t \in Threads, CallWait(t) PROVE TriggerSound'
  BY <1>35
     DEF TriggerSound, OnItsWay, LoopWillCapture, SupersedeInProgress, TypeOK,
         CallWait
<1>36. ASSUME NEW a \in Actors, SpuriousWakeup(a) PROVE TriggerSound'
  BY <1>36
     DEF TriggerSound, OnItsWay, LoopWillCapture, SupersedeInProgress, TypeOK,
         SpuriousWakeup
<1>37. ASSUME Destroy PROVE TriggerSound'
  BY <1>37
     DEF TriggerSound, OnItsWay, LoopWillCapture, SupersedeInProgress, TypeOK,
         Destroy
<1>38. ASSUME DestroyNotifies PROVE TriggerSound'
  BY <1>38
     DEF TriggerSound, OnItsWay, LoopWillCapture, SupersedeInProgress, TypeOK,
         DestroyNotifies
<1>39. ASSUME Destroyed \/ UNCHANGED vars PROVE TriggerSound'
  BY <1>39
     DEF TriggerSound, OnItsWay, LoopWillCapture, SupersedeInProgress, Destroyed,
         vars
<1>40. ASSUME LoopStep PROVE TriggerSound'
  BY <1>40, <1>1, <1>2, <1>3, <1>4, <1>5, <1>6, <1>7, <1>8, <1>9, <1>10, <1>11,
     <1>12, <1>13, <1>14
     DEF LoopStep
<1>41. ASSUME NEW t \in Threads, ThreadStep(t) PROVE TriggerSound'
  BY ZenonT(60), ZenonT(90), <1>41, <1>15, <1>16, <1>17, <1>18, <1>19, <1>20, <1>21, <1>22,
     <1>23, <1>24, <1>25, <1>26, <1>27, <1>28, <1>29, <1>30, <1>31, <1>32
     DEF ThreadStep
<1>42. ASSUME NEW t \in Threads, Call(t) PROVE TriggerSound'
  BY <1>42, <1>33, <1>34, <1>35 DEF Call
<1>43. QED
  BY <1>36, <1>37, <1>38, <1>39, <1>40, <1>41, <1>42 DEF Next

(* No interleaving of writes, background checkpoints and operations that   *)
(* supersede one loses a due checkpoint: the only ways to lose it are the  *)
(* two that the assumption excludes.                                       *)
THEOREM TriggersAreKept == CancelsAreFinished /\ Spec => []TriggerNotLost
<1>1. Init => TriggerSound
  BY CheckpointAssumption DEF Init, TriggerSound, Actors
<1>2. TriggerSound => TriggerNotLost
  BY DEF TriggerSound, OnItsWay, LoopWillCapture, SupersedeInProgress,
         TriggerNotLost, AdminInProgress
<1>3. CancelsAreFinished /\ CInv /\ TriggerSound /\ [Next]_vars => TriggerSound'
  BY TriggerStep
<1>4. CancelsAreFinished => CancelsAreFinished'
  BY DEF CancelsAreFinished
<1>5. QED
  BY <1>1, <1>2, <1>3, <1>4, CheckpointInvariance, PTL DEF Spec
==============================================================================
