-------------------------------- MODULE Session --------------------------------
(***************************************************************************)
(* The program of src/src/main.cpp: a process opens the log, loads the     *)
(* snapshot, replays the log and then executes command lines, with the     *)
(* checkpoint thread beside it; it ends by EXIT, end of input or a kill,   *)
(* and another one finds the files it left.  Programs that embed the store *)
(* may also recover with ReplayFromAndTruncate, call SaveSnapshot and      *)
(* truncate the log.  What the operating system has accepted is not lost:  *)
(* losing it is the subject of Recovery, as is an interrupted              *)
(* ClearPersistence.                                                       *)
(***************************************************************************)
EXTENDS WalFile, SnapshotFile, Cli

CONSTANTS
  Lines,            \* the command lines that occur
  InitialFiles,     \* the logs and snapshots the first process may find
  SavesBehindTail,  \* whether SaveSnapshot is called on a log with a bad tail
  MaxLines, MaxStops, MaxFaults   \* bounds on lines read, process ends, I/O errors

VARIABLES
  file,               \* the log, a sequence of cells
  wal,                \* the WriteAheadLog object
  snap,               \* the snapshot file, a sequence of cells
  mem,                \* the entries in memory
  up,                 \* whether a process runs
  due,                \* whether writes since the last snapshot may start one
  captured,           \* what the checkpoint thread has copied and not yet saved
  checkpoint_error_,
  out,                \* the answer to the last line
  allowed,            \* allowed[k]: what recovery may find for k
  lingering,          \* lingering[k]: values the log may give k when it is replayed
                      \* as a whole: of failed writes, or found at the start
  lines, stops, faults

vars == <<file, wal, snap, mem, up, due, captured, checkpoint_error_, out,
          allowed, lingering, lines, stops, faults>>
expected == <<allowed, lingering>>
bounds == <<lines, stops, faults>>
files == <<file, wal, snap>>
background == <<due, captured, checkpoint_error_>>

ASSUME SessionAssumption ==
  /\ \A line \in Lines :
       LET c == Parse(line) IN
       /\ c.type \in {"Set", "Del"} => c.key \in Keys
       /\ c.type = "Set" => c.value \in Values
  /\ \A found \in InitialFiles :
       /\ found.file \in Seq(Cells) /\ Layout(found.snap)
       /\ Boundary(found.file, Load(found.snap).wal_offset)
  /\ SavesBehindTail \in BOOLEAN
  /\ MaxLines \in Nat /\ MaxStops \in Nat /\ MaxFaults \in Nat

NoWal == [stream |-> "none"]
NotCaptured == [offset |-> -1]

(* LoadSnapshot followed by ReplayFromWal from the snapshot's offset.      *)
Recovered(f, s) ==
  LET loaded == Load(s) IN
  ReplayInto(loaded.store, f, loaded.wal_offset)

Only(m) == [k \in Keys |-> {m[k]}]
Also(m) == [k \in Keys |-> allowed[k] \cup {m[k]}]
None == [k \in Keys |-> {}]

Init ==
  /\ \E found \in InitialFiles : file = found.file /\ snap = found.snap
  /\ wal = NoWal
  /\ mem = Empty
  /\ up = FALSE
  /\ due = FALSE
  /\ captured = NotCaptured
  /\ checkpoint_error_ = FALSE
  /\ out = "none"
  /\ allowed = Only(IF Load(snap).status = "thrown" THEN Empty
                    ELSE Recovered(file, snap))
  /\ lingering = Only(ReplayInto(Recovered(file, snap), file, 0))
  /\ lines = 0 /\ stops = 0 /\ faults = 0

Fault(how) ==
  /\ how = "io" => faults < MaxFaults
  /\ faults' = IF how = "io" THEN faults + 1 ELSE faults

------------------------------------------------------------------------------
(* A process starts; main ends at once when the log or the snapshot cannot *)
(* be read.                                                                *)
CanStart == ~up /\ CanOpen(file) /\ Load(snap).status # "thrown"

Start ==
  /\ CanStart
  /\ up' = TRUE
  /\ wal' = Opened(file)
  /\ mem' = Recovered(file, snap)
  /\ allowed' = Only(mem')
  /\ UNCHANGED <<file, snap, background, out, lingering, bounds>>

(* An embedding program that cuts off what replay could not read.          *)
StartTruncating ==
  /\ CanStart
  /\ \E r \in ReplayFromAndTruncate(file, Opened(file), Load(snap).wal_offset) :
       /\ Fault(r.how)
       /\ file' = r.file
       /\ up' = (r.how = "ok")
       /\ wal' = IF r.how = "ok" THEN r.wal ELSE NoWal
       /\ mem' = IF r.how = "ok" THEN Recovered(file, snap) ELSE mem
       /\ allowed' = IF r.how = "ok" THEN Only(mem') ELSE allowed
  /\ UNCHANGED <<snap, background, out, lingering, lines, stops>>

Stop ==
  /\ stops < MaxStops
  /\ stops' = stops + 1
  /\ up' = FALSE
  /\ wal' = NoWal
  /\ mem' = Empty
  /\ due' = FALSE
  /\ captured' = NotCaptured
  /\ checkpoint_error_' = FALSE
  /\ UNCHANGED <<file, snap, expected, faults>>

Kill == up /\ Stop /\ UNCHANGED <<out, lines>>

(* The destructors let a checkpoint under way finish.                      *)
EndOfInput == up /\ captured = NotCaptured /\ Stop /\ UNCHANGED <<out, lines>>

------------------------------------------------------------------------------
(* Command lines: Run reads one, Execute answers it.                       *)

Reads(type, c) ==
  /\ up /\ lines < MaxLines
  /\ lines' = lines + 1
  /\ c.type = type

Reply(answer) == out' = answer

Stored(k, v, how) == IF how = "ok" THEN [mem EXCEPT ![k] = v] ELSE mem

(* KVStore::Set and Delete: the record first, memory only if that returns. *)
Mutate(k, v, answer) ==
  /\ IF checkpoint_error_ THEN Reply("ERR") /\ UNCHANGED <<file, wal, mem, expected, due, faults>>
     ELSE \E r \in AppendRecord(file, wal, k, v) :
            /\ Fault(r.how)
            /\ file' = r.file /\ wal' = r.wal
            /\ mem' = Stored(k, v, r.how)
            /\ due' = (due \/ r.how = "ok")
            /\ Reply(IF r.how = "ok" THEN answer ELSE "ERR")
            /\ allowed' = CASE r.how = "ok" -> [allowed EXCEPT ![k] = {v}]
                             [] r.how = "io" -> [allowed EXCEPT ![k] = @ \cup {v}]
                             [] r.how = "refused" -> allowed
            /\ lingering' = CASE r.how = "ok" -> [lingering EXCEPT ![k] = {}]
                               [] r.how = "io" -> [lingering EXCEPT ![k] = @ \cup {v}]
                               [] r.how = "refused" -> lingering
  /\ UNCHANGED <<snap, up, captured, checkpoint_error_, stops>>

ExecuteSet(c) == Reads("Set", c) /\ Mutate(c.key, c.value, "OK")

ExecuteDel(c) ==
  /\ Reads("Del", c)
  /\ Mutate(c.key, Absent, IF mem[c.key] # Absent THEN "1" ELSE "0")

(* GET, INFO, HELP and lines that do not parse only answer.                *)
ExecuteReadOnly(c) ==
  /\ \E type \in {"Get", "Info", "Help", "Invalid"} : Reads(type, c)
  /\ Reply(IF c.type = "Invalid" THEN "ERR" ELSE "shown")
  /\ UNCHANGED <<files, mem, up, background, expected, stops, faults>>

ExecuteExit(c) ==
  /\ Reads("Exit", c)
  /\ captured = NotCaptured
  /\ Reply("Bye")
  /\ Stop

(* ClearPersistence waits for snapshot_mutex_, which the checkpoint thread *)
(* holds until it has saved.  Memory keeps its entries.                    *)
ExecuteClearPersistence(c) ==
  /\ Reads("ClearPersistence", c)
  /\ captured = NotCaptured
  /\ \E r \in Clear(file, wal) :
       /\ r.how = "ok" \/ r.file = file
       /\ Fault(r.how)
       /\ file' = r.file /\ wal' = r.wal
       /\ snap' = IF r.how = "ok" THEN <<>> ELSE snap
       /\ due' = (due /\ r.how # "ok")
       /\ allowed' = IF r.how = "ok" THEN Only(Empty) ELSE allowed
       /\ lingering' = IF r.how = "ok" THEN None ELSE lingering
       /\ Reply(IF r.how = "ok" THEN "OK" ELSE "ERR")
  /\ UNCHANGED <<mem, up, captured, checkpoint_error_, stops>>

(* CompactPersistence: a verified snapshot at offset 0, then Rotate.       *)
ExecuteCompact(c) ==
  /\ Reads("CompactPersistence", c)
  /\ captured = NotCaptured
  /\ \E s \in SaveVerified(snap, mem, 0) :
       /\ snap' = s.snap
       /\ \E r \in IF s.how = "ok" THEN Clear(file, wal)
                    ELSE {Outcome(file, wal, s.how)} :
            /\ Fault(r.how)
            /\ file' = r.file /\ wal' = r.wal
            /\ due' = (due /\ r.how # "ok")
            /\ allowed' = IF r.how = "ok" THEN Only(mem)
                          ELSE [k \in Keys |-> Also(mem)[k] \cup lingering[k]]
            /\ lingering' = IF r.how = "ok" THEN None ELSE lingering
            /\ Reply(IF r.how = "ok" THEN "OK" ELSE "ERR")
  /\ UNCHANGED <<mem, up, captured, checkpoint_error_, stops>>

------------------------------------------------------------------------------
(* The checkpoint thread: CheckpointLoop copies under the locks and saves  *)
(* after releasing them.                                                   *)
Capture ==
  /\ up /\ due /\ captured = NotCaptured
  /\ IF CanTellOffset(wal)
       THEN /\ captured' = [offset |-> CurrentOffset(file), store |-> mem]
            /\ due' = FALSE
            /\ UNCHANGED checkpoint_error_
       ELSE checkpoint_error_' = TRUE /\ UNCHANGED <<captured, due>>
  /\ UNCHANGED <<files, mem, up, out, expected, bounds>>

SaveCaptured ==
  /\ up /\ captured # NotCaptured
  /\ \E s \in SaveVerified(snap, captured.store, captured.offset) :
       /\ Fault(s.how)
       /\ snap' = s.snap
       /\ checkpoint_error_' = (checkpoint_error_ \/ s.how # "ok")
       /\ allowed' = IF snap' = snap THEN allowed ELSE Also(mem)
  /\ captured' = NotCaptured
  /\ UNCHANGED <<file, wal, mem, up, due, out, lingering, lines, stops>>

------------------------------------------------------------------------------
(* Calls of an embedding program.                                          *)

SaveSnapshot ==
  /\ up /\ captured = NotCaptured
  /\ SavesBehindTail \/ (wal.format_valid_ /\ ~wal.needs_recovery_)
  /\ CanTellOffset(wal)
  /\ \E s \in SaveVerified(snap, mem, CurrentOffset(file)) :
       /\ Fault(s.how)
       /\ snap' = s.snap
       /\ due' = (due /\ s.how # "ok")
       /\ allowed' = IF s.how = "ok" THEN Only(mem) ELSE Also(mem)
  /\ UNCHANGED <<file, wal, mem, up, captured, checkpoint_error_, out, lingering,
                 lines, stops>>

(* TruncateTo the offset a replay from the start reports as the last good. *)
TruncateTail ==
  /\ up
  /\ \E r \in TruncateTo(file, wal, ReplayFromDetailed(file, 0).last_good_offset) :
       /\ Fault(r.how)
       /\ file' = r.file /\ wal' = r.wal
  /\ UNCHANGED <<snap, mem, up, background, out, expected, lines, stops>>

Execute(c) ==
  \/ ExecuteSet(c) \/ ExecuteDel(c) \/ ExecuteReadOnly(c) \/ ExecuteExit(c)
  \/ ExecuteClearPersistence(c) \/ ExecuteCompact(c)

Next ==
  \/ Start \/ StartTruncating \/ Kill \/ EndOfInput
  \/ \E line \in Lines : Execute(Parse(line))
  \/ Capture \/ SaveCaptured \/ SaveSnapshot \/ TruncateTail

Spec == Init /\ [][Next]_vars

------------------------------------------------------------------------------
(* What the variables hold: cells in the files, an entry or none for every *)
(* key, bounded counters.                                                  *)
TypeOK ==
  /\ file \in Seq(Cells) /\ Layout(snap)
  /\ IF up THEN wal \in Objects ELSE wal = NoWal
  /\ mem \in [Keys -> Values \cup {Absent}]
  /\ up \in BOOLEAN /\ due \in BOOLEAN /\ checkpoint_error_ \in BOOLEAN
  /\ \/ captured = NotCaptured
     \/ captured \in [offset : Nat, store : [Keys -> Values \cup {Absent}]]
  /\ out \in {"none", "OK", "ERR", "0", "1", "shown", "Bye"}
  /\ lines \in 0..MaxLines /\ stops \in 0..MaxStops /\ faults \in 0..MaxFaults

(* Whenever the process dies, the files hold for every key the value last  *)
(* acknowledged, or one whose write failed with an I/O error since; and    *)
(* recovering again finds what the first recovery found.                   *)
Remembered ==
  Load(snap).status # "thrown"
    => LET found == Recovered(file, snap) IN \A k \in Keys : found[k] \in allowed[k]

(* A log that takes appends has no frame replay would stop at, and the     *)
(* next record continues its numbering: no acknowledged record is written  *)
(* behind a tail that replay cannot pass, whatever truncations, rotations  *)
(* and failed calls came before.                                           *)
AppendsAreReachable ==
  up /\ MayAppend(wal) /\ wal.stream = "good" =>
    LET r == ReplayFromDetailed(file, 0) IN
    /\ r.status = "CleanEof"
    /\ ~wal.legacy_v2_ => /\ wal.header_pending_ <=> file = <<>>
                          /\ wal.next_sequence_ = r.last_sequence + 1

(* The snapshot's offset lies between records: replay from it reads every  *)
(* record behind it that a replay of the whole log would, and no other.    *)
OffsetAgrees ==
  LET loaded == Load(snap)
      positions(r) == {r.start + kFrameLength * i : i \in 1..r.applied_operations}
  IN loaded.status = "loaded" =>
       positions(ReplayFromDetailed(file, loaded.wal_offset))
         = {p \in positions(ReplayFromDetailed(file, 0)) : p > loaded.wal_offset}

(* The snapshot a running process would leave behind can be loaded: what   *)
(* the log accepts as a record, Load accepts as an entry.                  *)
SnapshotLoads == up => Load(snap).status # "thrown"

(* What GET shows can be typed back: SET with the key and the value shown  *)
(* stores that value again, however the first line was spaced.             *)
ShownValueReenters ==
  \A k \in {j \in Keys : mem[j] # Absent} :
    Parse(<<"SET", Space>> \o k \o <<Space>> \o mem[k])
      = Command("Set", k, mem[k])
==============================================================================
