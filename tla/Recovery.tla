------------------------------- MODULE Recovery -------------------------------
(***************************************************************************)
(* What survives a crash: the WAL and snapshot files under the operations  *)
(* of KVStore, WriteAheadLog and Snapshot, process crashes and power loss  *)
(* between any two steps, and startup recovery as main.cpp does it.        *)
(*                                                                         *)
(* A file is what the process sees (page cache) plus what would survive a  *)
(* power loss.  An offset counts frames: offset n is the end of the n-th   *)
(* frame and 0 the start of the file, so a stale offset is always a frame  *)
(* boundary of the new file.  Writes to one key exclude each other (their  *)
(* shard lock); administrative operations exclude all writes; a background *)
(* checkpoint excludes them only while it captures.                        *)
(***************************************************************************)
EXTENDS Integers, Sequences, FiniteSetsExt

CONSTANTS
  Keys, Values,
  Absent,          \* no value: a missing key, a DELETE record
  Scenarios,       \* the settings considered: see ScenarioType
  MaxRecords       \* bound on WAL appends

SaveJobs == {"Checkpoint", "SaveSnapshot", "CompactPersistence"}
JobNames == SaveJobs \cup {"ClearPersistence"}
(* "reset": what ends a job may also end ClearPersistence half way.        *)
FaultNames == {"crash", "power", "stream", "sync", "job", "reset"}

(* A setting: the policy of the log, the operations on the whole store     *)
(* that are run, the faults that happen, and the bound on crashes.         *)
ScenarioType == [policy : {"Buffered", "Sync", "GroupCommit"},
                 jobs : SUBSET JobNames, faults : SUBSET FaultNames,
                 crashes : Nat]

ASSUME RecoveryAssumption ==
  /\ Absent \notin Values
  /\ "torn" \notin Keys
  /\ Scenarios \subseteq ScenarioType
  /\ MaxRecords \in Nat

Contents == Values \cup {Absent}
Record(k, v) == [key |-> k, val |-> v]
Torn == [key |-> "torn", val |-> Absent]    \* bytes that are not a whole frame
Empty == [k \in Keys |-> Absent]
NoFile == [data |-> Empty, off |-> 0, state |-> "missing"]
Idle == [op |-> "none", step |-> "none", data |-> Empty, off |-> 0,
         synced |-> FALSE]

VARIABLES
  scenario,          \* the setting, fixed before the first start
  up,                \* "down", "open", "loaded" or "running"
  mem,               \* the map in memory
  pend,              \* per key: the Set or Delete in progress, holding its shard
  job,               \* the operation that holds snapshot_mutex_
  wal, walDurable,   \* frames of the WAL: visible, and certain after power loss
  snap, snapDurable, \* the snapshot file: visible, and durably named
  failure_,          \* WAL failure: "none", "stream" (output_ is bad), "sync"
  needs_recovery_,
  checkpoint_error_,
  off,               \* the offset LoadSnapshot returned to the startup code
  allowed,           \* history: the contents each key may have after a crash
  records, crashes   \* counted against the bounds

vars == <<scenario, up, mem, pend, job, wal, walDurable, snap, snapDurable, failure_,
          needs_recovery_, checkpoint_error_, off, allowed, records, crashes>>

files == <<wal, walDurable, snap, snapDurable>>
bounds == <<records, crashes>>

policy_ == scenario.policy      \* GroupCommit syncs in batches
Jobs == scenario.jobs
Faults == scenario.faults
MaxCrashes == scenario.crashes

NoWrite == [val |-> Absent, stage |-> "none"]

Init ==
  /\ scenario \in Scenarios
  /\ up = "down"
  /\ mem = Empty
  /\ pend = [k \in Keys |-> NoWrite]
  /\ job = Idle
  /\ wal = <<>> /\ walDurable = <<>>
  /\ snap = NoFile /\ snapDurable = NoFile
  /\ failure_ = "none"
  /\ needs_recovery_ = FALSE
  /\ checkpoint_error_ = FALSE
  /\ off = 0
  /\ allowed = [k \in Keys |-> {Absent}]
  /\ records = 0 /\ crashes = 0

------------------------------------------------------------------------------
(* Reading the files.                                                      *)

(* The frames ReplayFromDetailed reaches from offset o: it stops at the    *)
(* first one that is not whole, and finds nothing past the end.            *)
Reached(w, o) == {i \in (o + 1)..Len(w) : \A j \in (o + 1)..i : w[j] # Torn}

(* apply_record over them in order: the last record of a key decides.      *)
Replay(base, w, o) ==
  [k \in Keys |->
     LET mine == {i \in Reached(w, o) : w[i].key = k}
     IN  IF mine = {} THEN base[k] ELSE w[Max(mine)].val]

------------------------------------------------------------------------------
(* Set and Delete (a Delete writes Absent).                                *)

WholeStoreLocked == job.op \in JobNames \ {"Checkpoint"}

ShardFree(k) ==
  /\ up = "running"
  /\ ~checkpoint_error_
  /\ ~WholeStoreLocked
  /\ pend[k] = NoWrite

AppendAllowed == failure_ = "none" /\ ~needs_recovery_ /\ records < MaxRecords

AppendToWal(k, v) ==
  /\ ShardFree(k)
  /\ AppendAllowed
  /\ wal' = Append(wal, Record(k, v))
  /\ pend' = [pend EXCEPT ![k] = [val |-> v, stage |-> "written"]]
  /\ allowed' = [allowed EXCEPT ![k] = @ \cup {v}]
  /\ records' = records + 1
  /\ UNCHANGED <<up, mem, job, walDurable, snap, snapDurable, failure_,
                 needs_recovery_, checkpoint_error_, off, crashes>>

Unsynced == {k \in Keys : policy_ # "Buffered" /\ pend[k].stage = "written"}

(* An error fails every request of the batch it happens in.                *)
FailUnsynced == pend' = [k \in Keys |-> IF k \in Unsynced THEN NoWrite ELSE pend[k]]

(* The write fails and may leave part of the frame; the stream stays bad.  *)
AppendThrows(k, v) ==
  /\ "stream" \in Faults
  /\ ShardFree(k)
  /\ AppendAllowed
  /\ wal' \in {wal, Append(wal, Torn)}
  /\ failure_' = "stream"
  /\ FailUnsynced
  /\ records' = records + 1
  /\ UNCHANGED <<up, mem, job, walDurable, snap, snapDurable,
                 needs_recovery_, checkpoint_error_, off, allowed, crashes>>

SyncWal ==
  /\ up = "running" /\ Unsynced # {} /\ failure_ = "none"
  /\ walDurable' = wal
  /\ pend' = [k \in Keys |-> IF k \in Unsynced
                             THEN [pend[k] EXCEPT !.stage = "synced"] ELSE pend[k]]
  /\ UNCHANGED <<up, mem, job, wal, snap, snapDurable, failure_,
                 needs_recovery_, checkpoint_error_, off, allowed, bounds>>

(* fdatasync fails: the calls throw, their records stay in the file.       *)
SyncThrows ==
  /\ "sync" \in Faults
  /\ up = "running" /\ Unsynced # {} /\ failure_ = "none"
  /\ failure_' = "sync"
  /\ FailUnsynced
  /\ UNCHANGED <<up, mem, job, files, needs_recovery_, checkpoint_error_, off,
                 allowed, bounds>>

(* Memory changes and the call returns: from now on this write must not be *)
(* lost.                                                                   *)
Acknowledge(k) ==
  /\ up = "running"
  /\ pend[k].stage = IF policy_ = "Buffered" THEN "written" ELSE "synced"
  /\ mem' = [mem EXCEPT ![k] = pend[k].val]
  /\ allowed' = [allowed EXCEPT ![k] = {pend[k].val}]
  /\ pend' = [pend EXCEPT ![k] = NoWrite]
  /\ UNCHANGED <<up, job, files, failure_, needs_recovery_, checkpoint_error_,
                 off, bounds>>

(* KVStore::Clear empties memory and logs nothing.                         *)
ClearMemory ==
  /\ up = "running" /\ ~WholeStoreLocked
  /\ \A k \in Keys : pend[k] = NoWrite
  /\ mem # Empty
  /\ mem' = Empty
  /\ allowed' = [k \in Keys |-> allowed[k] \cup {Absent}]
  /\ UNCHANGED <<up, pend, job, files, failure_, needs_recovery_,
                 checkpoint_error_, off, bounds>>

------------------------------------------------------------------------------
(* Checkpoint, SaveSnapshot, CompactPersistence, ClearPersistence: one at  *)
(* a time, under snapshot_mutex_.                                          *)

(* Variant for mutation: the offset stops short of the last frame.         *)
CurrentOffset_Short == Len(wal) - 1

CurrentOffset == Len(wal)

(* Variant for mutation: a compaction records the offset of the WAL it is  *)
(* about to truncate.                                                      *)
CaptureOffset_Stale(o) == CurrentOffset

CaptureOffset(o) == IF o = "CompactPersistence" THEN 0 ELSE CurrentOffset

(* Variant for mutation: the capture does not wait for writes in progress. *)
AllShardsFree_Ignored == TRUE

AllShardsFree == \A k \in Keys : pend[k] = NoWrite

Begin(o) ==
  /\ o \in Jobs
  /\ up = "running"
  /\ job = Idle
  /\ AllShardsFree

(* The state and the offset are read under all shard locks.                *)
Capture(o) ==
  /\ Begin(o)
  /\ o \in SaveJobs
  /\ o \in {"Checkpoint", "SaveSnapshot"} => failure_ # "stream"
  /\ job' = [op |-> o, step |-> "temp", data |-> mem, synced |-> FALSE,
             off |-> CaptureOffset(o)]
  /\ UNCHANGED <<up, mem, pend, files, failure_, needs_recovery_,
                 checkpoint_error_, off, allowed, bounds>>

(* CurrentOffset throws on a bad stream; the loop records the error.       *)
CaptureThrows ==
  /\ Begin("Checkpoint")
  /\ failure_ = "stream"
  /\ checkpoint_error_' = TRUE
  /\ UNCHANGED <<up, mem, pend, job, files, failure_, needs_recovery_, off,
                 allowed, bounds>>

BeginClear ==
  /\ Begin("ClearPersistence")
  /\ job' = [Idle EXCEPT !.op = "ClearPersistence", !.step = "truncate"]
  /\ UNCHANGED <<up, mem, pend, files, failure_, needs_recovery_,
                 checkpoint_error_, off, allowed, bounds>>

At(step) == up = "running" /\ job.step = step

(* Snapshot::Save writes and flushes the temporary file,                   *)
TempWrite ==
  /\ At("temp")
  /\ job' = [job EXCEPT !.step = "tempsync"]
  /\ UNCHANGED <<up, mem, pend, files, failure_, needs_recovery_,
                 checkpoint_error_, off, allowed, bounds>>

(* Variant for mutation: the temporary file is renamed without a sync.     *)
TempSync_Skipped ==
  /\ At("tempsync")
  /\ job' = [job EXCEPT !.step = "rename"]
  /\ UNCHANGED <<up, mem, pend, files, failure_, needs_recovery_,
                 checkpoint_error_, off, allowed, bounds>>

(* syncs it,                                                               *)
TempSync ==
  /\ At("tempsync")
  /\ job' = [job EXCEPT !.step = "rename", !.synced = TRUE]
  /\ UNCHANGED <<up, mem, pend, files, failure_, needs_recovery_,
                 checkpoint_error_, off, allowed, bounds>>

(* renames it over the snapshot,                                           *)
Rename ==
  /\ At("rename")
  /\ snap' = [data |-> job.data, off |-> job.off,
              state |-> IF job.synced THEN "whole" ELSE "unsynced"]
  /\ job' = [job EXCEPT !.step = "dirsync"]
  /\ UNCHANGED <<up, mem, pend, wal, walDurable, snapDurable, failure_,
                 needs_recovery_, checkpoint_error_, off, allowed, bounds>>

AfterSave == IF job.op = "CompactPersistence"
             THEN [job EXCEPT !.step = "truncate"] ELSE Idle

(* Variant for mutation: the directory is not synced.                      *)
DirSync_Skipped ==
  /\ At("dirsync")
  /\ job' = AfterSave
  /\ UNCHANGED <<up, mem, pend, files, failure_, needs_recovery_,
                 checkpoint_error_, off, allowed, bounds>>

(* and syncs the directory; Verify reads the file back.                    *)
DirSync ==
  /\ At("dirsync")
  /\ snapDurable' = snap
  /\ job' = AfterSave
  /\ UNCHANGED <<up, mem, pend, wal, walDurable, snap, failure_,
                 needs_recovery_, checkpoint_error_, off, allowed, bounds>>

(* WriteAheadLog::Clear truncates the file and reopens the stream; it does *)
(* not forget failure_.  ClearPersistence gives up what the files held:    *)
(* from here on a crash may bring back nothing or the old snapshot.        *)
Truncate ==
  /\ At("truncate")
  /\ wal' = <<>>
  /\ needs_recovery_' = FALSE
  /\ failure_' = IF failure_ = "stream" THEN "sync" ELSE failure_
  /\ allowed' = IF job.op = "ClearPersistence"
                  THEN [k \in Keys |-> allowed[k] \cup
                          {Absent, snap.data[k], snapDurable.data[k]}]
                  ELSE allowed
  /\ job' = [job EXCEPT !.step = "truncsync"]
  /\ UNCHANGED <<up, mem, pend, walDurable, snap, snapDurable,
                 checkpoint_error_, off, bounds>>

(* Clear syncs the truncation unless the policy is Buffered.               *)
TruncateSync ==
  /\ At("truncsync")
  /\ walDurable' = IF policy_ = "Buffered" THEN walDurable ELSE wal
  /\ job' = IF job.op = "ClearPersistence"
              THEN [job EXCEPT !.step = "remove"] ELSE Idle
  /\ UNCHANGED <<up, mem, pend, wal, snap, snapDurable, failure_,
                 needs_recovery_, checkpoint_error_, off, allowed, bounds>>

(* Variant for mutation: the snapshot stays.                               *)
Remove_Skipped ==
  /\ At("remove")
  /\ job' = [job EXCEPT !.step = "removesync"]
  /\ UNCHANGED <<up, mem, pend, files, failure_, needs_recovery_,
                 checkpoint_error_, off, allowed, bounds>>

(* Snapshot::Clear removes the file, then syncs the directory.             *)
Remove ==
  /\ At("remove")
  /\ snap' = NoFile
  /\ job' = [job EXCEPT !.step = "removesync"]
  /\ UNCHANGED <<up, mem, pend, wal, walDurable, snapDurable, failure_,
                 needs_recovery_, checkpoint_error_, off, allowed, bounds>>

RemoveSync ==
  /\ At("removesync")
  /\ snapDurable' = snap
  /\ job' = Idle
  /\ UNCHANGED <<up, mem, pend, wal, walDurable, snap, failure_,
                 needs_recovery_, checkpoint_error_, off, allowed, bounds>>

ResetMayEnd == job.op = "ClearPersistence" => "reset" \in Faults

(* Any of these steps may throw instead; what was done stays done.         *)
JobThrows ==
  /\ "job" \in Faults
  /\ ResetMayEnd
  /\ up = "running" /\ job # Idle
  /\ checkpoint_error_' = (checkpoint_error_ \/ job.op = "Checkpoint")
  /\ job' = Idle
  /\ UNCHANGED <<up, mem, pend, files, failure_, needs_recovery_, off, allowed,
                 bounds>>

------------------------------------------------------------------------------
(* Crashes.                                                                *)

ProcessEnds ==
  /\ up # "down" /\ crashes < MaxCrashes
  /\ ResetMayEnd
  /\ up' = "down"
  /\ mem' = Empty
  /\ pend' = [k \in Keys |-> NoWrite]
  /\ job' = Idle
  /\ failure_' = "none"
  /\ needs_recovery_' = FALSE
  /\ checkpoint_error_' = FALSE
  /\ off' = 0
  /\ crashes' = crashes + 1
  /\ UNCHANGED records

(* The process dies; the kernel keeps what was written.                    *)
Crash ==
  /\ "crash" \in Faults
  /\ ProcessEnds
  /\ UNCHANGED <<files, allowed>>

IsExtension(d, w) == Len(d) <= Len(w) /\ SubSeq(w, 1, Len(d)) = d

(* What a power loss can leave of a file that reads w and of which d is    *)
(* certain: any length in between, the last frame possibly torn; if a      *)
(* truncation was not yet synced, also the old contents.                   *)
AfterPowerLoss(d, w) ==
  LET kept == {SubSeq(w, 1, n) : n \in (IF IsExtension(d, w) THEN Len(d) ELSE 0)..Len(w)}
      torn == {Append(c, Torn) : c \in {c \in kept : Len(c) < Len(w)}}
  IN  kept \cup torn \cup (IF IsExtension(d, w) THEN {} ELSE {d})

(* The contents of a file that was renamed before it was synced are lost.  *)
Settled(s) == IF s.state = "unsynced" THEN [s EXCEPT !.state = "garbage"] ELSE s

(* Buffered promises nothing about a power loss: after it anything may be  *)
(* found, but later writes are again expected to survive process crashes.  *)
PowerLoss ==
  /\ "power" \in Faults
  /\ ProcessEnds
  /\ \E w \in AfterPowerLoss(walDurable, wal), s \in {snap, snapDurable} :
       /\ wal' = w /\ walDurable' = w
       /\ snap' = Settled(s) /\ snapDurable' = Settled(s)
  /\ allowed' = IF policy_ = "Buffered" THEN [k \in Keys |-> Contents] ELSE allowed

------------------------------------------------------------------------------
(* Startup.                                                                *)

(* The WriteAheadLog constructor scans the file.                           *)
OpenWal ==
  /\ up = "down"
  /\ up' = "open"
  /\ needs_recovery_' = (Reached(wal, 0) # 1..Len(wal))
  /\ UNCHANGED <<mem, pend, job, files, failure_, checkpoint_error_, off,
                 allowed, bounds>>

LoadSnapshot ==
  /\ up = "open"
  /\ snap.state # "garbage"
  /\ up' = "loaded"
  /\ mem' = snap.data
  /\ off' = snap.off
  /\ UNCHANGED <<pend, job, files, failure_, needs_recovery_,
                 checkpoint_error_, allowed, bounds>>

ReplayFromWal ==
  /\ up = "loaded"
  /\ up' = "running"
  /\ mem' = Replay(mem, wal, off)
  /\ UNCHANGED <<pend, job, files, failure_, needs_recovery_,
                 checkpoint_error_, off, allowed, bounds>>

(* ReplayFromAndTruncate, which an embedder may call before it starts: a   *)
(* tail that replay from the snapshot's offset does not get through goes.  *)
TruncateTail ==
  LET good == off + Cardinality(Reached(wal, off)) IN
  /\ up = "loaded"
  /\ good < Len(wal)
  /\ wal' = SubSeq(wal, 1, good)
  /\ walDurable' = IF policy_ = "Buffered" THEN walDurable ELSE wal'
  /\ needs_recovery_' = FALSE
  /\ UNCHANGED <<up, mem, pend, job, snap, snapDurable, failure_,
                 checkpoint_error_, off, allowed, bounds>>

Step ==
  \/ \E k \in Keys, v \in Contents : AppendToWal(k, v) \/ AppendThrows(k, v)
  \/ SyncWal \/ SyncThrows
  \/ \E k \in Keys : Acknowledge(k)
  \/ ClearMemory
  \/ \E o \in Jobs : Capture(o)
  \/ CaptureThrows \/ BeginClear
  \/ TempWrite \/ TempSync \/ Rename \/ DirSync
  \/ Truncate \/ TruncateSync \/ Remove \/ RemoveSync \/ JobThrows
  \/ Crash \/ PowerLoss
  \/ OpenWal \/ LoadSnapshot \/ ReplayFromWal \/ TruncateTail

Next == Step /\ UNCHANGED scenario

Spec == Init /\ [][Next]_vars

------------------------------------------------------------------------------
(* Properties.                                                             *)

WalFrames == [key : Keys, val : Contents] \cup {Torn}
SnapshotFiles == [data : [Keys -> Contents], off : Nat,
                  state : {"missing", "unsynced", "whole", "garbage"}]

TypeOK ==
  /\ scenario \in Scenarios
  /\ up \in {"down", "open", "loaded", "running"}
  /\ mem \in [Keys -> Contents]
  /\ pend \in [Keys -> [val : Contents, stage : {"none", "written", "synced"}]]
  /\ job \in [op : JobNames \cup {"none"},
              step : {"none", "temp", "tempsync", "rename", "dirsync", "truncate",
                      "truncsync", "remove", "removesync"},
              data : [Keys -> Contents], off : Nat, synced : BOOLEAN]
  /\ wal \in Seq(WalFrames) /\ walDurable \in Seq(WalFrames)
  /\ snap \in SnapshotFiles /\ snapDurable \in SnapshotFiles
  /\ failure_ \in {"none", "stream", "sync"}
  /\ needs_recovery_ \in BOOLEAN
  /\ checkpoint_error_ \in BOOLEAN
  /\ off \in Nat
  /\ allowed \in [Keys -> SUBSET Contents]
  /\ records \in 0..MaxRecords /\ crashes \in 0..MaxCrashes

(* What startup would read from these two files.                           *)
Recovered(w, s) == Replay(s.data, w, s.off)

AllowedAfter(w, s) == \A k \in Keys : Recovered(w, s)[k] \in allowed[k]

(* If the process died now, startup would find for every key its last      *)
(* acknowledged value, or that of a write whose call had not returned or   *)
(* had failed.  It holds between any two steps of a save, a checkpoint     *)
(* under concurrent writes, and a compaction.                              *)
ProcessCrashSafe == AllowedAfter(wal, snap)

Power == "power" \in Faults

(* The settings in which every snapshot stays within what survives of the  *)
(* log.  A reset is not interrupted.  Where power fails, no frame that a   *)
(* snapshot may cover is unsynced, as frames are that a Buffered log has   *)
(* acknowledged, that a failed fdatasync has left, or that a process which *)
(* crashed had written: then a power loss may take what is covered.        *)
Promised(s) ==
  /\ "reset" \notin s.faults
  /\ "power" \in s.faults =>
       s.policy # "Buffered" /\ s.faults \cap {"crash", "sync"} = {}

(* What the next start may find as the log and as the snapshot.            *)
PossibleWals == IF Power THEN AfterPowerLoss(walDurable, wal) ELSE {wal}
PossibleSnapshots == IF Power THEN {snap, snapDurable} ELSE {snap}

(* The same for a loss of power, whatever part of the unsynced data is     *)
(* gone: Set and Delete return only after fdatasync, and the snapshot is   *)
(* durable before CompactPersistence truncates the WAL.  Buffered promises *)
(* no such thing, and RecoveryUnsyncedOffset is about the other settings   *)
(* with power losses that Promised leaves out.                             *)
PowerLossSafe ==
  Promised(scenario) /\ Power =>
  \A w \in PossibleWals, s \in PossibleSnapshots : AllowedAfter(w, s)

(* No crash leaves a snapshot file that Load cannot read: the temporary    *)
(* file is synced before it is renamed.                                    *)
SnapshotReadable == snap.state # "garbage"

(* In the settings of Promised no snapshot that may be found covers frames *)
(* that the log found with it lacks: others written in their place would   *)
(* be taken for covered and skipped.  CurrentOffset is the flushed end of  *)
(* the log and not the synced one, so this rests on the capture waiting    *)
(* for every write to be synced, and on Clear truncating the log only when *)
(* the snapshot with offset zero is durable.  ClearPersistence, while it   *)
(* runs, has emptied the log and not yet removed the snapshot.             *)
OffsetWithinWal ==
  Promised(scenario) /\ job.op # "ClearPersistence" =>
  \A w \in PossibleWals, s \in PossibleSnapshots : s.off <= Len(w)
===============================================================================
