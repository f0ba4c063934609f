------------------------------ MODULE WalAppend ------------------------------
(***************************************************************************)
(* The append path of WriteAheadLog (src/src/persistence/wal.cpp): callers *)
(* of AppendSet/AppendDelete, the GroupCommit writer thread with its queue *)
(* and condition variable, the file they write, and the destructor.        *)
(*                                                                         *)
(* A request is one call of AppendPayload; each is made at most once, by a *)
(* thread of its own, so every number of threads and every order of calls  *)
(* is covered.  The log was opened on an empty file: header_pending_ holds *)
(* until the first write, format_valid_ holds and needs_recovery_ does not.*)
(* Every I/O call may fail, leaving any prefix of what it was writing.     *)
(***************************************************************************)
EXTENDS Integers, Sequences, FiniteSetsExt

CONSTANTS
  Requests,          \* the AppendPayload calls
  Policies,          \* the DurabilityPolicy values considered
  max_batch_,        \* most frames the writer joins into one write
  max_delay_us_,     \* how long the writer waits for a fuller batch; 0: never
  RecordLength,      \* bytes of each request's record, sequence included
  kMaxRecordLength,  \* largest record a frame may hold
  MaxSequence        \* the sequence number that is never given out (2^64 - 1)

FramePrefix == 8     \* record length and checksum

kMaxBatchBytes == kMaxRecordLength + FramePrefix

FrameSize(r) == RecordLength[r] + FramePrefix

ASSUME WalAssumption ==
  /\ Policies \subseteq {"Buffered", "Sync", "GroupCommit"}
  /\ max_batch_ \in Nat \ {0} /\ max_batch_ <= 4096
  /\ max_delay_us_ \in Nat
  /\ kMaxRecordLength \in Nat
  /\ RecordLength \in [Requests -> Nat]
  /\ MaxSequence \in Nat \ {0}

VARIABLES
  policy_,         \* DurabilityPolicy, fixed by the constructor
  pc,              \* where each call is
  done,            \* Pending: "none", or the outcome the writer reported
  queue_,          \* requests waiting for the writer
  batch,           \* requests the writer has taken out of the queue
  wpc,             \* where the writer thread is
  error,           \* the writer's current batch failed
  failure_,        \* an I/O error was recorded
  shutdown,        \* ~WriteAheadLog: "no", "stopping" (flag set), "notified"
  header,          \* the file header: "none", "partial" or "valid"
  file,            \* frames in the file, in the page cache or on disk
  synced,          \* how many of them fdatasync has put on disk
  next_sequence_

vars == <<policy_, pc, done, queue_, batch, wpc, error, failure_, shutdown,
          header, file, synced, next_sequence_>>

fileVars == <<header, file, synced, next_sequence_>>
writerVars == <<batch, wpc, error>>

GroupCommit == policy_ = "GroupCommit"

Frame(r, n, w) == [req |-> r, seq |-> n, whole |-> w]

Frames == [req : Requests, seq : Nat, whole : BOOLEAN]

Init ==
  /\ policy_ \in Policies
  /\ pc = [r \in Requests |-> "idle"]
  /\ done = [r \in Requests |-> "none"]
  /\ queue_ = <<>>
  /\ batch = <<>>
  /\ wpc = IF GroupCommit THEN "check" ELSE "exited"
  /\ error = FALSE
  /\ failure_ = FALSE
  /\ shutdown = "no"
  /\ header = "none"
  /\ file = <<>>
  /\ synced = 0
  /\ next_sequence_ = 1

------------------------------------------------------------------------------
(* The file.                                                               *)

(* EnsureHeaderLocked.  A header written after the bytes of a failed one   *)
(* does not repair the file.                                               *)
EnsuredHeader == IF header = "none" THEN "valid" ELSE header

(* Variant for mutation: one number too many is given out.                 *)
SequenceExhausted_OffByOne(rs) == next_sequence_ + Len(rs) > MaxSequence + 1

(* The last number is never given out.                                     *)
SequenceExhausted(rs) == next_sequence_ + Len(rs) > MaxSequence

(* FinalizeFrameLocked numbers the frames in the order they are written.   *)
Numbered(rs, m, whole) ==
  [i \in 1..m |-> Frame(rs[i], next_sequence_ + i - 1, i <= whole)]

WriteFrames(rs) ==
  /\ ~SequenceExhausted(rs)
  /\ header' = EnsuredHeader
  /\ next_sequence_' = next_sequence_ + Len(rs)
  /\ file' = file \o Numbered(rs, Len(rs), Len(rs))

(* The header, the numbering, or the write and flush of the frames throws. *)
(* A failed write leaves whole frames and perhaps part of the next one; a  *)
(* fault right after the flush leaves them all.                            *)
WriteFramesThrows(rs) ==
  \/ /\ header # "valid"
     /\ header' \in {header, "partial", "valid"}
     /\ UNCHANGED <<file, next_sequence_>>
  \/ /\ SequenceExhausted(rs)
     /\ header' = EnsuredHeader
     /\ next_sequence_' = MaxSequence
     /\ UNCHANGED file
  \/ /\ ~SequenceExhausted(rs)
     /\ header' = EnsuredHeader
     /\ next_sequence_' = next_sequence_ + Len(rs)
     /\ \E whole \in 0..Len(rs) : \E m \in {whole, whole + 1} \cap 0..Len(rs) :
          file' = file \o Numbered(rs, m, whole)

(* Variant for mutation: the sync is forgotten.                            *)
SyncLocked_Skipped == UNCHANGED synced

SyncLocked == synced' = Len(file)

(* fdatasync fails, or the fault hook throws after it succeeded.           *)
SyncThrows == synced' \in synced..Len(file)

(* Variant for mutation: a recorded failure is not looked at.              *)
AppendAllowed_Always == TRUE

AppendAllowed == ~failure_

IoMutexFree == \A q \in Requests : pc[q] \notin {"written", "synced"}

TooLarge(r) == RecordLength[r] > kMaxRecordLength

(* checked_record_length throws before anything is shared.                 *)
Reject(r) ==
  /\ shutdown = "no"
  /\ pc[r] = "idle"
  /\ TooLarge(r)
  /\ pc' = [pc EXCEPT ![r] = "error"]
  /\ UNCHANGED <<policy_, done, queue_, writerVars, failure_, shutdown, fileVars>>

(* A call after a failure rethrows it, under io_mutex_ or queue_mutex_.    *)
Rethrow(r) ==
  /\ shutdown = "no"
  /\ pc[r] = "idle"
  /\ ~TooLarge(r)
  /\ ~AppendAllowed
  /\ IoMutexFree
  /\ pc' = [pc EXCEPT ![r] = "error"]
  /\ UNCHANGED <<policy_, done, queue_, writerVars, failure_, shutdown, fileVars>>

------------------------------------------------------------------------------
(* Buffered and Sync: the caller writes its own frame under io_mutex_,     *)
(* which it holds while pc[r] is "written" or "synced".                    *)

InlineEnter(r) ==
  /\ ~GroupCommit
  /\ shutdown = "no"
  /\ pc[r] = "idle"
  /\ ~TooLarge(r)
  /\ AppendAllowed
  /\ IoMutexFree

InlineWrite(r) ==
  /\ InlineEnter(r)
  /\ WriteFrames(<<r>>)
  /\ pc' = [pc EXCEPT ![r] = "written"]
  /\ UNCHANGED <<policy_, done, queue_, writerVars, failure_, shutdown, synced>>

InlineWriteThrows(r) ==
  /\ InlineEnter(r)
  /\ WriteFramesThrows(<<r>>)
  /\ failure_' = TRUE
  /\ pc' = [pc EXCEPT ![r] = "error"]
  /\ UNCHANGED <<policy_, done, queue_, writerVars, shutdown, synced>>

InlineSyncs(r) ==
  /\ policy_ = "Sync"
  /\ pc[r] = "written"
  /\ SyncLocked
  /\ pc' = [pc EXCEPT ![r] = "synced"]
  /\ UNCHANGED <<policy_, done, queue_, writerVars, failure_, shutdown,
                 header, file, next_sequence_>>

InlineSyncThrows(r) ==
  /\ policy_ = "Sync"
  /\ pc[r] = "written"
  /\ SyncThrows
  /\ failure_' = TRUE
  /\ pc' = [pc EXCEPT ![r] = "error"]
  /\ UNCHANGED <<policy_, done, queue_, writerVars, shutdown,
                 header, file, next_sequence_>>

(* Sync returns after the sync, Buffered after the flush.                  *)
InlineReturn(r) ==
  /\ ~GroupCommit
  /\ pc[r] = IF policy_ = "Sync" THEN "synced" ELSE "written"
  /\ pc' = [pc EXCEPT ![r] = "ok"]
  /\ UNCHANGED <<policy_, done, queue_, writerVars, failure_, shutdown, fileVars>>

------------------------------------------------------------------------------
(* GroupCommit callers.                                                    *)

(* The push under queue_mutex_; the notification comes after the unlock.   *)
Enqueue(r) ==
  /\ GroupCommit
  /\ shutdown = "no"
  /\ pc[r] = "idle"
  /\ ~TooLarge(r)
  /\ AppendAllowed
  /\ queue_' = Append(queue_, r)
  /\ pc' = [pc EXCEPT ![r] = "enqueued"]
  /\ UNCHANGED <<policy_, done, writerVars, failure_, shutdown, fileVars>>

(* Variant for mutation: nobody is notified.                               *)
WakeWriter_Forgotten == UNCHANGED wpc

(* notify_one wakes the writer if it sleeps and is lost otherwise.         *)
WakeWriter == wpc' = IF wpc = "asleep" THEN "check" ELSE wpc

Notify(r) ==
  /\ pc[r] = "enqueued"
  /\ WakeWriter
  /\ pc' = [pc EXCEPT ![r] = "waiting"]
  /\ UNCHANGED <<policy_, done, queue_, batch, error, failure_, shutdown, fileVars>>

Return(r) ==
  /\ pc[r] = "waiting"
  /\ done[r] # "none"
  /\ pc' = [pc EXCEPT ![r] = done[r]]
  /\ UNCHANGED <<policy_, done, queue_, writerVars, failure_, shutdown, fileVars>>

------------------------------------------------------------------------------
(* WriterLoop.                                                             *)

(* The wait on queue_ready_: the predicate is evaluated under queue_mutex_ *)
(* and the thread goes to sleep in the same critical section.              *)
WriterSleep ==
  /\ wpc = "check"
  /\ queue_ = <<>>
  /\ shutdown = "no"
  /\ wpc' = "asleep"
  /\ UNCHANGED <<policy_, pc, done, queue_, batch, error, failure_, shutdown, fileVars>>

(* The standard lets a wait return without a notification.                 *)
SpuriousWakeup ==
  /\ wpc = "asleep"
  /\ wpc' = "check"
  /\ UNCHANGED <<policy_, pc, done, queue_, batch, error, failure_, shutdown, fileVars>>

WriterStops ==
  /\ wpc = "check"
  /\ queue_ = <<>>
  /\ shutdown # "no"
  /\ wpc' = "exited"
  /\ UNCHANGED <<policy_, pc, done, queue_, batch, error, failure_, shutdown, fileVars>>

(* wait_for releases queue_mutex_ for up to max_delay_us_.                 *)
WaitsForMore == Len(queue_) < max_batch_ /\ max_delay_us_ > 0 /\ shutdown = "no"

WriterDelays ==
  /\ wpc = "check"
  /\ queue_ # <<>>
  /\ WaitsForMore
  /\ wpc' = "delay"
  /\ UNCHANGED <<policy_, pc, done, queue_, batch, error, failure_, shutdown, fileVars>>

QueueBytes(n) == MapThenSumSet(FrameSize, {queue_[i] : i \in 1..n})

(* The first frame always fits; another one only within both limits.       *)
Fits(n) == n <= max_batch_ /\ (n = 1 \/ QueueBytes(n) <= kMaxBatchBytes)

(* Variant for mutation: one frame too many.                               *)
Takes_OffByOne(n) ==
  (\A m \in 2..n : Fits(m - 1)) /\ (n < Len(queue_) => ~Fits(n))

(* The loop takes frames while they fit: n of them, when those fit and the *)
(* next one, if there is one, does not.                                    *)
Takes(n) ==
  (\A m \in 1..n : Fits(m)) /\ (n < Len(queue_) => ~Fits(n + 1))

(* Variant for mutation: the frames are copied but not popped.             *)
WriterTakes_NoPop ==
  /\ queue_ # <<>>
  /\ wpc = "delay" \/ (wpc = "check" /\ ~WaitsForMore)
  /\ \E n \in 0..Len(queue_) : Takes(n) /\ batch' = SubSeq(queue_, 1, n)
  /\ wpc' = "taken"
  /\ UNCHANGED <<policy_, pc, done, queue_, error, failure_, shutdown, fileVars>>

(* The delay may end by its predicate or by the clock at any moment.       *)
WriterTakes ==
  /\ queue_ # <<>>
  /\ wpc = "delay" \/ (wpc = "check" /\ ~WaitsForMore)
  /\ \E n \in 0..Len(queue_) :
       /\ Takes(n)
       /\ batch' = SubSeq(queue_, 1, n)
       /\ queue_' = SubSeq(queue_, n + 1, Len(queue_))
  /\ wpc' = "taken"
  /\ UNCHANGED <<policy_, pc, done, error, failure_, shutdown, fileVars>>

WriterWrites ==
  /\ wpc = "taken"
  /\ WriteFrames(batch)
  /\ wpc' = "written"
  /\ UNCHANGED <<policy_, pc, done, queue_, batch, error, failure_, shutdown, synced>>

WriterWriteThrows ==
  /\ wpc = "taken"
  /\ WriteFramesThrows(batch)
  /\ wpc' = "failing"
  /\ UNCHANGED <<policy_, pc, done, queue_, batch, error, failure_, shutdown, synced>>

WriterSyncs ==
  /\ wpc = "written"
  /\ SyncLocked
  /\ wpc' = "report"
  /\ UNCHANGED <<policy_, pc, done, queue_, batch, error, failure_, shutdown,
                 header, file, next_sequence_>>

WriterSyncThrows ==
  /\ wpc = "written"
  /\ SyncThrows
  /\ wpc' = "failing"
  /\ UNCHANGED <<policy_, pc, done, queue_, batch, error, failure_, shutdown,
                 header, file, next_sequence_>>

(* Variant for mutation: requests that arrived meanwhile are left behind.  *)
WriterCatches_NoDrain ==
  /\ wpc = "failing"
  /\ failure_' = TRUE
  /\ error' = TRUE
  /\ wpc' = "report"
  /\ UNCHANGED <<policy_, pc, done, queue_, batch, shutdown, fileVars>>

(* The catch block: under queue_mutex_ the failure is recorded and every   *)
(* queued request joins the failed batch.                                  *)
WriterCatches ==
  /\ wpc = "failing"
  /\ failure_' = TRUE
  /\ error' = TRUE
  /\ batch' = batch \o queue_
  /\ queue_' = <<>>
  /\ wpc' = "report"
  /\ UNCHANGED <<policy_, pc, done, shutdown, fileVars>>

(* Completes the requests of the batch one by one, each under its mutex.   *)
WriterReports ==
  /\ wpc = "report"
  /\ batch # <<>>
  /\ done' = [done EXCEPT ![Head(batch)] = IF error THEN "error" ELSE "ok"]
  /\ batch' = Tail(batch)
  /\ UNCHANGED <<policy_, pc, queue_, wpc, error, failure_, shutdown, fileVars>>

WriterLoops ==
  /\ wpc = "report"
  /\ batch = <<>>
  /\ wpc' = IF error THEN "exited" ELSE "check"
  /\ UNCHANGED <<policy_, pc, done, queue_, batch, error, failure_, shutdown, fileVars>>

------------------------------------------------------------------------------
(* ~WriteAheadLog, which the owner runs when no call is in progress.       *)

Destroy ==
  /\ shutdown = "no"
  /\ \A r \in Requests : pc[r] \in {"idle", "ok", "error"}
  /\ shutdown' = "stopping"
  /\ UNCHANGED <<policy_, pc, done, queue_, writerVars, failure_, fileVars>>

DestroyNotifies ==
  /\ shutdown = "stopping"
  /\ WakeWriter
  /\ shutdown' = "notified"
  /\ UNCHANGED <<policy_, pc, done, queue_, batch, error, failure_, fileVars>>

(* After join: the object is gone and nothing more happens.                *)
Destroyed ==
  /\ shutdown = "notified"
  /\ wpc = "exited"
  /\ UNCHANGED vars

Caller(r) ==
  \/ Reject(r) \/ Rethrow(r)
  \/ InlineWrite(r) \/ InlineWriteThrows(r)
  \/ InlineSyncs(r) \/ InlineSyncThrows(r) \/ InlineReturn(r)
  \/ Enqueue(r) \/ Notify(r) \/ Return(r)

Writer ==
  \/ WriterSleep \/ WriterStops \/ WriterDelays \/ WriterTakes
  \/ WriterWrites \/ WriterWriteThrows \/ WriterSyncs \/ WriterSyncThrows
  \/ WriterCatches \/ WriterReports \/ WriterLoops

Next ==
  \/ \E r \in Requests : Caller(r)
  \/ Writer
  \/ SpuriousWakeup
  \/ Destroy \/ DestroyNotifies \/ Destroyed

Spec == Init /\ [][Next]_vars

(* A runnable thread keeps running: the writer, and a caller or destructor *)
(* that is inside its call.  Nobody is obliged to make a call, and nothing *)
(* is assumed about spurious wakeups or about which I/O calls succeed.     *)
Fairness ==
  /\ WF_vars(Writer)
  /\ WF_vars(DestroyNotifies)
  /\ \A r \in Requests :
       /\ WF_vars(Notify(r))
       /\ WF_vars(Return(r))
       /\ WF_vars(InlineSyncs(r) \/ InlineSyncThrows(r) \/ InlineReturn(r))

FairSpec == Spec /\ Fairness

------------------------------------------------------------------------------
(* Properties.                                                             *)

TypeOK ==
  /\ policy_ \in Policies
  /\ pc \in [Requests -> {"idle", "written", "synced", "enqueued", "waiting",
                      "ok", "error"}]
  /\ done \in [Requests -> {"none", "ok", "error"}]
  /\ queue_ \in Seq(Requests)
  /\ batch \in Seq(Requests)
  /\ wpc \in {"check", "asleep", "delay", "taken", "written", "failing",
              "report", "exited"}
  /\ error \in BOOLEAN
  /\ failure_ \in BOOLEAN
  /\ shutdown \in {"no", "stopping", "notified"}
  /\ header \in {"none", "partial", "valid"}
  /\ file \in Seq(Frames)
  /\ synced \in 0..Len(file)
  /\ next_sequence_ \in 1..MaxSequence

(* What ReplayFromDetailed returns for the frame at position i: it gets    *)
(* there only through a valid header and whole frames numbered from one.   *)
Replayable(i) ==
  /\ header = "valid"
  /\ \A j \in 1..i : file[j].whole /\ file[j].seq = j

(* A call that returned success left a record that replay will apply: it   *)
(* lies behind a valid header and an unbroken run of frames and, unless    *)
(* the policy is Buffered, fdatasync has covered it (AppendPayload returns *)
(* only after the flush, the sync, or the writer's report).                *)
AckedReplayable ==
  \A r \in Requests :
    pc[r] = "ok" =>
      \E i \in 1..(IF policy_ = "Buffered" THEN Len(file) ELSE synced) :
        file[i].req = r /\ Replayable(i)

(* When the writer thread has ended, nobody is left for it to answer: a    *)
(* request that passes the failure_ check before WriterLoop's catch block  *)
(* takes queue_mutex_ is drained by it, and one that comes later is        *)
(* refused.                                                                *)
ExitLeavesNoWaiter ==
  (GroupCommit /\ wpc = "exited") =>
     /\ queue_ = <<>>
     /\ \A r \in Requests :
          pc[r] \in {"enqueued", "waiting"} => done[r] # "none"

(* A batch that is written respects max_batch_ (the index into             *)
(* stats_.batch_histogram) and kMaxBatchBytes, although the first frame is *)
(* taken without looking at its size.                                      *)
BatchBounded ==
  wpc \in {"taken", "written"} =>
     /\ Len(batch) \in 1..max_batch_
     /\ MapThenSumSet(FrameSize, {batch[i] : i \in DOMAIN batch}) <= kMaxBatchBytes

(* After an error has been recorded the file never changes again, so no    *)
(* frame is ever written behind a torn one.                                *)
FailStop == [][failure_ => UNCHANGED <<header, file, next_sequence_>>]_vars

(* Every call that has begun returns: an enqueued request is written or    *)
(* fails, whatever the writer was doing when it arrived, and an inline     *)
(* write that holds io_mutex_ releases it.                                 *)
AppendsReturn ==
  \A r \in Requests :
    pc[r] \in {"written", "synced", "enqueued", "waiting"} ~> pc[r] \in {"ok", "error"}

(* The destructor's join returns: the flag and the notification reach the  *)
(* writer wherever it is in its loop.                                      *)
WriterJoins == shutdown # "no" ~> wpc = "exited"

------------------------------------------------------------------------------
(* The log this path implements.  Replay ends before the first frame that  *)
(* is torn, out of sequence, or behind a bad header.                       *)

EndsReplay(n) ==
  /\ n = 0 \/ Replayable(n)
  /\ n < Len(file) => ~Replayable(n + 1)

ReplayedLength == CHOOSE n \in 0..Len(file) : EndsReplay(n)

ReplayedLog == [i \in 1..ReplayedLength |-> file[i].req]

DurableLength == IF synced <= ReplayedLength THEN synced ELSE ReplayedLength

Outcome == [r \in Requests |-> IF pc[r] \in {"ok", "error"} THEN pc[r] ELSE "none"]

(* An I/O error has happened, whether or not it is recorded yet.           *)
Broken == failure_ \/ wpc = "failing"

CL == INSTANCE CommitLog WITH
        needsSync <- policy_ # "Buffered", log <- ReplayedLog,
        durable <- DurableLength, outcome <- Outcome, broken <- Broken

(* The append path implements CommitLog: the replayable log only grows, no *)
(* request is in it twice, an acknowledged request is in its durable part, *)
(* and after an error it stays as it is.                                   *)
ImplementsCommitLog == CL!Spec
==============================================================================
