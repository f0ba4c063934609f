--------------------------- MODULE WalAppendProofs ---------------------------
(***************************************************************************)
(* Proofs about WalAppend for every set of requests, every policy, batch   *)
(* limit, record length and sequence limit.  IInv says what is in the file *)
(* and who knows it; the safety theorems rest on it.  The last part shows  *)
(* that the append path implements CommitLog: a write or a failed write    *)
(* extends the log, a sync flushes it, a return acknowledges or refuses,   *)
(* and every other step leaves its variables as they are.  No request may  *)
(* reach the file twice, so Once adds where a request can be: in one place *)
(* of the queue, the batch or the file, and in none while its call has not *)
(* begun; io_mutex_ admits one inline writer, and only that one records an *)
(* error behind its own write.                                             *)
(***************************************************************************)
EXTENDS WalAppend, TLAPS

(* Every leaf is tried with Z3, with Zenon, and again with Z3, unless it   *)
(* names its prover: the time to translate a leaf varies, and has a limit. *)
USE SMTT(20), ZenonT(20), SMTT(40), SMTT(60), SMTT(90)

------------------------------------------------------------------------------
(* The inductive invariant.                                                *)

(* Until the first error the file is a valid header followed by whole      *)
(* frames numbered from one, and the next number continues them.           *)
FileSound ==
  ~Broken =>
    /\ next_sequence_ = Len(file) + 1
    /\ \A i \in 1..Len(file) : file[i].whole /\ file[i].seq = i
    /\ header # "partial"
    /\ Len(file) > 0 => header = "valid"

(* r has a frame that replay reaches; and one that replay reaches after a  *)
(* power loss (Buffered promises nothing about that).                      *)
Written(r) == \E i \in 1..Len(file) : file[i].req = r /\ Replayable(i)

Covered == IF policy_ = "Buffered" THEN Len(file) ELSE synced

Safe(r) == \E i \in 1..Covered : file[i].req = r /\ Replayable(i)

(* What each stage of a call knows about its frame.                        *)
StageSound ==
  \A r \in Requests :
    /\ pc[r] = "written" => Written(r)
    /\ pc[r] \in {"synced", "ok"} => Safe(r)
    /\ done[r] = "ok" => Safe(r)

Queued(r) == \E i \in 1..Len(queue_) : queue_[i] = r

Batched(r) == \E i \in 1..Len(batch) : batch[i] = r

BatchSound ==
  \A r \in Requests :
    Batched(r) => /\ wpc = "written" => Written(r)
                  /\ (wpc = "report" /\ ~error) => Safe(r)

(* Who exists under which policy, and where the writer may be.             *)
WriterSound ==
  /\ ~GroupCommit => wpc = "exited"
  /\ GroupCommit => \A r \in Requests : pc[r] \notin {"written", "synced"}
  /\ wpc \in {"check", "asleep", "delay", "exited"} => batch = <<>>
  /\ (GroupCommit /\ failure_) => (error /\ queue_ = <<>>)
  /\ error => failure_ /\ wpc \in {"report", "exited"}
  /\ (GroupCommit /\ wpc = "exited") => queue_ = <<>> /\ (failure_ \/ shutdown # "no")
  /\ wpc = "delay" => queue_ # <<>>

(* A request that waits for an answer is in the queue or in the batch.     *)
NobodyForgotten ==
  \A r \in Requests :
    (pc[r] \in {"enqueued", "waiting"} /\ done[r] = "none") => Queued(r) \/ Batched(r)

IInv ==
  /\ TypeOK
  /\ FileSound
  /\ StageSound
  /\ BatchSound
  /\ WriterSound
  /\ NobodyForgotten

------------------------------------------------------------------------------
(* The file only grows.                                                    *)

Grows ==
  /\ policy_' = policy_
  /\ Len(file) <= Len(file')
  /\ \A i \in 1..Len(file) : file'[i] = file[i]
  /\ header = "valid" => header' = "valid"
  /\ synced <= synced'

(* What appending the frames of a batch, or some of them, does to the file.*)
LEMMA AppendedFrames ==
  ASSUME TypeOK, NEW rs \in Seq(Requests),
         NEW m \in 0..Len(rs), NEW w \in 0..Len(rs)
  PROVE  LET f == file \o Numbered(rs, m, w) IN
         /\ f \in Seq(Frames)
         /\ Len(f) = Len(file) + m
         /\ \A i \in 1..Len(file) : f[i] = file[i]
         /\ \A i \in 1..m : /\ f[Len(file) + i].req = rs[i]
                           /\ f[Len(file) + i].seq = next_sequence_ + i - 1
         /\ \A i \in 1..m : i <= w => f[Len(file) + i].whole
<1> DEFINE g == Numbered(rs, m, w)
           f == file \o g
<1>1. m \in Nat /\ w \in Nat /\ Len(file) \in Nat /\ next_sequence_ \in Nat /\ next_sequence_ >= 1
  BY WalAssumption DEF TypeOK
<1>2. \A i \in 1..m : rs[i] \in Requests
  BY <1>1
<1>3. \A i \in 1..m : Frame(rs[i], next_sequence_ + i - 1, i <= w) \in Frames
  BY <1>1, <1>2 DEF Frame, Frames
<1>4. g \in Seq(Frames) /\ Len(g) = m
  BY <1>1, <1>3 DEF Numbered
<1>5. \A i \in 1..m : /\ g[i].req = rs[i]
                      /\ g[i].seq = next_sequence_ + i - 1
                      /\ i <= w => g[i].whole
  BY ZenonT(60), ZenonT(90) DEF Numbered, Frame
<1>6. file \in Seq(Frames)
  BY DEF TypeOK
<1> HIDE DEF g
<1>7. f = file \o g
  OBVIOUS
<1> HIDE DEF f
<1>8. /\ f \in Seq(Frames)
      /\ Len(f) = Len(file) + m
      /\ \A i \in 1..Len(f) : f[i] = IF i <= Len(file) THEN file[i] ELSE g[i - Len(file)]
  BY <1>4, <1>6, <1>7
<1>9. \A i \in 1..m : f[Len(file) + i] = g[i]
  BY <1>1, <1>8
<1> QED
  BY <1>1, <1>5, <1>8, <1>9 DEF f, g

(* A successful write extends a sound file by whole frames, one for each   *)
(* request, that replay reaches.                                           *)
LEMMA WriteExtends ==
  ASSUME TypeOK, FileSound, ~Broken, NEW rs \in Seq(Requests),
         WriteFrames(rs), synced' = synced, policy_' = policy_
  PROVE  /\ file' \in Seq(Frames)
         /\ header' = "valid"
         /\ next_sequence_' \in 1..MaxSequence
         /\ next_sequence_' = Len(file') + 1
         /\ \A i \in 1..Len(file') : file'[i].whole /\ file'[i].seq = i
         /\ synced' \in 0..Len(file')
         /\ Grows
         /\ \A j \in 1..Len(rs) : \E i \in 1..Len(file') : file'[i].req = rs[j]
<1>1. /\ file \in Seq(Frames) /\ Len(file) \in Nat /\ Len(rs) \in Nat
      /\ next_sequence_ = Len(file) + 1 /\ synced \in 0..Len(file) /\ MaxSequence \in Nat
  BY WalAssumption DEF TypeOK, FileSound
<1>2. /\ file' \in Seq(Frames)
      /\ Len(file') = Len(file) + Len(rs)
      /\ \A i \in 1..Len(file) : file'[i] = file[i]
      /\ \A i \in 1..Len(rs) : /\ file'[Len(file) + i].req = rs[i]
                                /\ file'[Len(file) + i].seq = next_sequence_ + i - 1
      /\ \A i \in 1..Len(rs) : file'[Len(file) + i].whole
  <2> DEFINE f == file \o Numbered(rs, Len(rs), Len(rs))
  <2>1. file' = f /\ Len(rs) \in 0..Len(rs)
    BY <1>1 DEF WriteFrames
  <2>2. \A i \in 1..Len(rs) : i <= Len(rs)
    BY <1>1
  <2>3. /\ f \in Seq(Frames)
        /\ Len(f) = Len(file) + Len(rs)
        /\ \A i \in 1..Len(file) : f[i] = file[i]
        /\ \A i \in 1..Len(rs) : /\ f[Len(file) + i].req = rs[i]
                                  /\ f[Len(file) + i].seq = next_sequence_ + i - 1
        /\ \A i \in 1..Len(rs) : i <= Len(rs) => f[Len(file) + i].whole
    BY <2>1, AppendedFrames, Zenon
  <2> HIDE DEF f
  <2> QED
    BY <1>1, <2>1, <2>2, <2>3
<1>3. header' = "valid"
  BY DEF WriteFrames, EnsuredHeader, FileSound, TypeOK
<1>4. next_sequence_' = next_sequence_ + Len(rs) /\ next_sequence_ + Len(rs) <= MaxSequence
  BY <1>1 DEF WriteFrames, SequenceExhausted
<1>5. ASSUME NEW i \in 1..Len(file')
      PROVE  file'[i].whole /\ file'[i].seq = i
  <2>1. CASE i <= Len(file)
    BY <1>1, <1>2, <2>1 DEF FileSound
  <2>2. CASE i > Len(file)
    <3>1. i - Len(file) \in 1..Len(rs) /\ Len(file) + (i - Len(file)) = i
      BY <1>1, <1>2, <2>2
    <3>2. file'[i].seq = next_sequence_ + (i - Len(file)) - 1 /\ file'[i].whole
      BY ZenonT(60), ZenonT(90), <1>2, <3>1
    <3> QED
      BY <1>1, <3>1, <3>2
  <2> QED
    BY <1>1, <1>2, <2>1, <2>2
<1>6. ASSUME NEW j \in 1..Len(rs)
      PROVE  \E i \in 1..Len(file') : file'[i].req = rs[j]
  <2>1. Len(file) + j \in 1..Len(file')
    BY <1>1, <1>2
  <2>2. file'[Len(file) + j].req = rs[j]
    BY <1>2
  <2> QED
    BY <2>1, <2>2
<1>7. Grows
  BY <1>1, <1>2, <1>3 DEF Grows
<1> QED
  BY <1>1, <1>2, <1>3, <1>4, <1>5, <1>6, <1>7

(* A failed write leaves a file of the right type that extends the old one.*)
LEMMA WriteThrowsExtends ==
  ASSUME TypeOK, NEW rs \in Seq(Requests), WriteFramesThrows(rs),
         synced' = synced, policy_' = policy_
  PROVE  /\ file' \in Seq(Frames)
         /\ header' \in {"none", "partial", "valid"}
         /\ next_sequence_' \in 1..MaxSequence
         /\ synced' \in 0..Len(file')
         /\ Grows
<1>1. /\ file \in Seq(Frames) /\ Len(file) \in Nat /\ Len(rs) \in Nat
      /\ next_sequence_ \in 1..MaxSequence /\ synced \in 0..Len(file)
      /\ MaxSequence \in Nat \ {0} /\ header \in {"none", "partial", "valid"}
  BY WalAssumption DEF TypeOK
<1>2. CASE /\ header # "valid"
           /\ header' \in {header, "partial", "valid"}
           /\ UNCHANGED <<file, next_sequence_>>
  BY <1>1, <1>2 DEF Grows
<1>3. CASE /\ SequenceExhausted(rs)
           /\ header' = EnsuredHeader
           /\ next_sequence_' = MaxSequence
           /\ UNCHANGED file
  BY <1>1, <1>3 DEF Grows, EnsuredHeader
<1>4. CASE /\ ~SequenceExhausted(rs)
           /\ header' = EnsuredHeader
           /\ next_sequence_' = next_sequence_ + Len(rs)
           /\ \E whole \in 0..Len(rs) : \E m \in {whole, whole + 1} \cap 0..Len(rs) :
                file' = file \o Numbered(rs, m, whole)
  <2>1. PICK whole \in 0..Len(rs), m \in 0..Len(rs) : file' = file \o Numbered(rs, m, whole)
    BY ZenonT(60), ZenonT(90), <1>4
  <2>2. /\ file' \in Seq(Frames)
        /\ Len(file') = Len(file) + m
        /\ \A i \in 1..Len(file) : file'[i] = file[i]
    BY <2>1, AppendedFrames
  <2>3. next_sequence_' \in 1..MaxSequence
    BY <1>1, <1>4 DEF SequenceExhausted
  <2> QED
    BY <1>1, <1>4, <2>2, <2>3 DEF Grows, EnsuredHeader
<1> QED
  BY <1>2, <1>3, <1>4 DEF WriteFramesThrows

(* What replay reaches, it still reaches in a file that has grown.         *)
LEMMA GrowsKeeps ==
  ASSUME TypeOK, TypeOK', Grows, NEW r \in Requests
  PROVE  /\ Written(r) => Written(r)'
         /\ Safe(r) => Safe(r)'
<1>1. Len(file) \in Nat /\ Len(file') \in Nat /\ synced \in 0..Len(file) /\ synced' \in 0..Len(file')
  BY DEF TypeOK
<1>2. Covered <= Covered' /\ Covered \in 0..Len(file) /\ Covered' \in 0..Len(file')
  BY <1>1 DEF Covered, Grows
<1>3. ASSUME NEW i \in 1..Len(file), Replayable(i)
      PROVE  Replayable(i)'
  BY <1>1, <1>3 DEF Replayable, Grows
<1>4. ASSUME NEW i \in 1..Len(file)
      PROVE  file'[i].req = file[i].req /\ i \in 1..Len(file')
  BY <1>1 DEF Grows
<1>5. Written(r) => Written(r)'
  BY <1>3, <1>4 DEF Written
<1>6. Safe(r) => Safe(r)'
  <2>1. \A i \in 1..Covered : i \in 1..Len(file) /\ i \in 1..Covered'
    BY <1>1, <1>2
  <2> QED
    BY <1>3, <1>4, <2>1 DEF Safe
<1> QED
  BY <1>5, <1>6

------------------------------------------------------------------------------
(* The invariant is inductive.  A step that leaves the file alone is told  *)
(* apart from one that writes or syncs.                                    *)

(* A step that leaves the file alone keeps what is known of each frame.    *)
LEMMA FileAtRest ==
  ASSUME IInv, TypeOK', UNCHANGED <<policy_, fileVars>>, NEW r \in Requests
  PROVE  /\ Written(r) => Written(r)'
         /\ Safe(r) => Safe(r)'
<1>1. Grows
  BY DEF Grows, fileVars, IInv, TypeOK
<1> QED
  BY <1>1, GrowsKeeps DEF IInv

(* A record that is too large is refused before anything changes.          *)
LEMMA RejectKeeps ==
  ASSUME IInv, NEW r \in Requests, Reject(r)
  PROVE  IInv'
<1>1. TypeOK'
  BY DEF IInv, TypeOK, Reject, writerVars, fileVars
<1>2. \A q \in Requests : (Written(q) => Written(q)') /\ (Safe(q) => Safe(q)')
  BY <1>1, FileAtRest DEF Reject, fileVars
<1>3. FileSound'
  BY DEF IInv, TypeOK, FileSound, Broken, WriterSound, Reject, writerVars, fileVars
<1>4. StageSound'
  BY <1>2 DEF IInv, TypeOK, StageSound, WriterSound, Reject, writerVars, fileVars
<1>5. BatchSound'
  BY <1>2
     DEF IInv, TypeOK, BatchSound, Batched, WriterSound, Reject, writerVars,
         fileVars
<1>6. WriterSound'
  BY DEF GroupCommit, IInv, TypeOK, WriterSound, Reject, writerVars, fileVars
<1>7. NobodyForgotten'
  BY DEF IInv, TypeOK, NobodyForgotten, Queued, Batched, WriterSound, Reject,
         writerVars, fileVars
<1> QED
  BY <1>1, <1>3, <1>4, <1>5, <1>6, <1>7 DEF IInv

(* A call after a recorded error changes only its own outcome.             *)
LEMMA RethrowKeeps ==
  ASSUME IInv, NEW r \in Requests, Rethrow(r)
  PROVE  IInv'
<1>1. TypeOK'
  BY DEF IInv, TypeOK, Rethrow, writerVars, fileVars
<1>2. \A q \in Requests : (Written(q) => Written(q)') /\ (Safe(q) => Safe(q)')
  BY <1>1, FileAtRest DEF Rethrow, fileVars
<1>3. FileSound'
  BY DEF IInv, TypeOK, FileSound, Broken, WriterSound, Rethrow, writerVars, fileVars
<1>4. StageSound'
  BY <1>2 DEF IInv, TypeOK, StageSound, WriterSound, Rethrow, writerVars, fileVars
<1>5. BatchSound'
  BY <1>2
     DEF IInv, TypeOK, BatchSound, Batched, WriterSound, Rethrow, writerVars,
         fileVars
<1>6. WriterSound'
  BY DEF GroupCommit, IInv, TypeOK, WriterSound, Rethrow, writerVars, fileVars
<1>7. NobodyForgotten'
  BY DEF IInv, TypeOK, NobodyForgotten, Queued, Batched, WriterSound, Rethrow,
         writerVars, fileVars
<1> QED
  BY <1>1, <1>3, <1>4, <1>5, <1>6, <1>7 DEF IInv

(* An inline call returns once its frame is written or synced.             *)
LEMMA InlineReturnKeeps ==
  ASSUME IInv, NEW r \in Requests, InlineReturn(r)
  PROVE  IInv'
<1>1. TypeOK'
  BY DEF IInv, TypeOK, InlineReturn, writerVars, fileVars, GroupCommit
<1>2. \A q \in Requests : (Written(q) => Written(q)') /\ (Safe(q) => Safe(q)')
  BY <1>1, FileAtRest DEF InlineReturn, fileVars
<1>3. FileSound'
  BY DEF IInv, TypeOK, FileSound, Broken, WriterSound, InlineReturn, writerVars,
         fileVars, GroupCommit
<1>4. StageSound'
  <2>1. Safe(r)
    <3>1. CASE policy_ = "Sync"
      BY <3>1 DEF InlineReturn, IInv, StageSound
    <3>2. CASE policy_ = "Buffered"
      BY <3>2 DEF InlineReturn, IInv, StageSound, Written, Safe, Covered
    <3> QED
      BY <3>1, <3>2, WalAssumption DEF InlineReturn, GroupCommit, IInv, TypeOK
  <2> QED
    BY <1>2, <2>1 DEF IInv, TypeOK, StageSound, InlineReturn
<1>5. BatchSound'
  BY <1>2
     DEF IInv, TypeOK, BatchSound, Batched, WriterSound, InlineReturn, writerVars,
         fileVars, GroupCommit
<1>6. WriterSound'
  BY DEF IInv, TypeOK, WriterSound, InlineReturn, writerVars, fileVars, GroupCommit
<1>7. NobodyForgotten'
  BY DEF IInv, TypeOK, NobodyForgotten, Queued, Batched, WriterSound, InlineReturn,
         writerVars, fileVars, GroupCommit
<1> QED
  BY <1>1, <1>3, <1>4, <1>5, <1>6, <1>7 DEF IInv

(* A request is queued only while the writer is there to take it.          *)
LEMMA EnqueueKeeps ==
  ASSUME IInv, NEW r \in Requests, Enqueue(r)
  PROVE  IInv'
<1>1. TypeOK'
  BY DEF IInv, TypeOK, Enqueue, writerVars, fileVars, AppendAllowed
<1>2. \A q \in Requests : (Written(q) => Written(q)') /\ (Safe(q) => Safe(q)')
  BY <1>1, FileAtRest DEF Enqueue, fileVars
<1>3. FileSound'
  BY DEF IInv, TypeOK, FileSound, Broken, WriterSound, Enqueue, writerVars,
         fileVars, AppendAllowed
<1>4. StageSound'
  BY <1>2
     DEF IInv, TypeOK, StageSound, WriterSound, Enqueue, writerVars, fileVars,
         AppendAllowed
<1>5. BatchSound'
  BY <1>2
     DEF IInv, TypeOK, BatchSound, Batched, WriterSound, Enqueue, writerVars,
         fileVars, AppendAllowed
<1>6. WriterSound'
  <2>1. ~failure_ /\ wpc # "exited"
    BY DEF IInv, WriterSound, Enqueue, AppendAllowed
  <2>2. queue_' # <<>>
    <3>1. queue_ \in Seq(Requests) /\ queue_' = Append(queue_, r)
      BY DEF IInv, TypeOK, Enqueue
    <3>2. Len(queue_') = Len(queue_) + 1 /\ Len(queue_) \in Nat
      BY <3>1
    <3>3. QED
      BY <3>2
  <2> QED
    BY <2>1, <2>2 DEF GroupCommit, IInv, TypeOK, WriterSound, Enqueue, writerVars
<1>7. NobodyForgotten'
  BY DEF IInv, TypeOK, NobodyForgotten, Queued, Batched, WriterSound, Enqueue,
         writerVars, fileVars, AppendAllowed
<1> QED
  BY <1>1, <1>3, <1>4, <1>5, <1>6, <1>7 DEF IInv

(* The notification wakes the writer and touches no request.               *)
LEMMA NotifyKeeps ==
  ASSUME IInv, NEW r \in Requests, Notify(r)
  PROVE  IInv'
<1>1. TypeOK'
  BY DEF IInv, TypeOK, Notify, WakeWriter, fileVars
<1>2. \A q \in Requests : (Written(q) => Written(q)') /\ (Safe(q) => Safe(q)')
  BY <1>1, FileAtRest DEF Notify, fileVars
<1>3. FileSound'
  BY DEF IInv, TypeOK, FileSound, Broken, WriterSound, Notify, WakeWriter, fileVars
<1>4. StageSound'
  BY <1>2 DEF IInv, TypeOK, StageSound, WriterSound, Notify, WakeWriter, fileVars
<1>5. BatchSound'
  BY <1>2
     DEF IInv, TypeOK, BatchSound, Batched, WriterSound, Notify, WakeWriter,
         fileVars
<1>6. WriterSound'
  BY DEF GroupCommit, IInv, TypeOK, WriterSound, Notify, WakeWriter, fileVars
<1>7. NobodyForgotten'
  BY DEF IInv, TypeOK, NobodyForgotten, Queued, Batched, WriterSound, Notify,
         WakeWriter, fileVars
<1> QED
  BY <1>1, <1>3, <1>4, <1>5, <1>6, <1>7 DEF IInv

(* A caller takes over the outcome the writer reported.                    *)
LEMMA ReturnKeeps ==
  ASSUME IInv, NEW r \in Requests, Return(r)
  PROVE  IInv'
<1>1. TypeOK'
  BY DEF IInv, TypeOK, Return, writerVars, fileVars
<1>2. \A q \in Requests : (Written(q) => Written(q)') /\ (Safe(q) => Safe(q)')
  BY <1>1, FileAtRest DEF Return, fileVars
<1>3. FileSound'
  BY DEF IInv, TypeOK, FileSound, Broken, WriterSound, Return, writerVars, fileVars
<1>4. StageSound'
  BY <1>2 DEF IInv, TypeOK, StageSound, WriterSound, Return, writerVars, fileVars
<1>5. BatchSound'
  BY <1>2
     DEF IInv, TypeOK, BatchSound, Batched, WriterSound, Return, writerVars,
         fileVars
<1>6. WriterSound'
  BY ZenonT(60), ZenonT(90) DEF GroupCommit, IInv, TypeOK, WriterSound, Return, writerVars, fileVars
<1>7. NobodyForgotten'
  BY DEF IInv, TypeOK, NobodyForgotten, Queued, Batched, WriterSound, Return,
         writerVars, fileVars
<1> QED
  BY <1>1, <1>3, <1>4, <1>5, <1>6, <1>7 DEF IInv

(* The writer sleeps only with nothing to do.                              *)
LEMMA WriterSleepKeeps ==
  ASSUME IInv, WriterSleep
  PROVE  IInv'
<1>1. TypeOK'
  BY DEF IInv, TypeOK, WriterSleep, fileVars
<1>2. \A q \in Requests : (Written(q) => Written(q)') /\ (Safe(q) => Safe(q)')
  BY <1>1, FileAtRest DEF WriterSleep, fileVars
<1>3. FileSound'
  BY DEF IInv, TypeOK, FileSound, Broken, WriterSound, WriterSleep, fileVars
<1>4. StageSound'
  BY <1>2 DEF IInv, TypeOK, StageSound, WriterSound, WriterSleep, fileVars
<1>5. BatchSound'
  BY <1>2 DEF IInv, TypeOK, BatchSound, Batched, WriterSound, WriterSleep, fileVars
<1>6. WriterSound'
  BY DEF GroupCommit, IInv, TypeOK, WriterSound, WriterSleep, fileVars
<1>7. NobodyForgotten'
  BY DEF IInv, TypeOK, NobodyForgotten, Queued, Batched, WriterSound, WriterSleep,
         fileVars
<1> QED
  BY <1>1, <1>3, <1>4, <1>5, <1>6, <1>7 DEF IInv

(* The writer stops only with an empty queue and the flag set.             *)
LEMMA WriterStopsKeeps ==
  ASSUME IInv, WriterStops
  PROVE  IInv'
<1>1. TypeOK'
  BY DEF IInv, TypeOK, WriterStops, fileVars
<1>2. \A q \in Requests : (Written(q) => Written(q)') /\ (Safe(q) => Safe(q)')
  BY <1>1, FileAtRest DEF WriterStops, fileVars
<1>3. FileSound'
  BY DEF IInv, TypeOK, FileSound, Broken, WriterSound, WriterStops, fileVars
<1>4. StageSound'
  BY <1>2 DEF IInv, TypeOK, StageSound, WriterSound, WriterStops, fileVars
<1>5. BatchSound'
  BY <1>2 DEF IInv, TypeOK, BatchSound, Batched, WriterSound, WriterStops, fileVars
<1>6. WriterSound'
  BY DEF IInv, TypeOK, WriterSound, WriterStops, fileVars
<1>7. NobodyForgotten'
  BY DEF IInv, TypeOK, NobodyForgotten, Queued, Batched, WriterSound, WriterStops,
         fileVars
<1> QED
  BY <1>1, <1>3, <1>4, <1>5, <1>6, <1>7 DEF IInv

(* Waiting for a fuller batch changes nothing.                             *)
LEMMA WriterDelaysKeeps ==
  ASSUME IInv, WriterDelays
  PROVE  IInv'
<1>1. TypeOK'
  BY DEF IInv, TypeOK, WriterDelays, fileVars
<1>2. \A q \in Requests : (Written(q) => Written(q)') /\ (Safe(q) => Safe(q)')
  BY <1>1, FileAtRest DEF WriterDelays, fileVars
<1>3. FileSound'
  BY DEF IInv, TypeOK, FileSound, Broken, WriterSound, WriterDelays, fileVars
<1>4. StageSound'
  BY <1>2 DEF IInv, TypeOK, StageSound, WriterSound, WriterDelays, fileVars
<1>5. BatchSound'
  BY <1>2 DEF IInv, TypeOK, BatchSound, Batched, WriterSound, WriterDelays, fileVars
<1>6. WriterSound'
  BY DEF GroupCommit, IInv, TypeOK, WriterSound, WriterDelays, fileVars
<1>7. NobodyForgotten'
  BY DEF IInv, TypeOK, NobodyForgotten, Queued, Batched, WriterSound, WriterDelays,
         fileVars
<1> QED
  BY <1>1, <1>3, <1>4, <1>5, <1>6, <1>7 DEF IInv

(* Requests taken out of the queue are all in the batch.                   *)
LEMMA WriterTakesKeeps ==
  ASSUME IInv, WriterTakes
  PROVE  IInv'
<1>a. PICK n \in 0..Len(queue_) :
        batch' = SubSeq(queue_, 1, n) /\ queue_' = SubSeq(queue_, n + 1, Len(queue_))
  BY ZenonT(60), ZenonT(90) DEF WriterTakes
<1>b. queue_ \in Seq(Requests) /\ Len(queue_) \in Nat /\ n \in 0..Len(queue_)
  BY DEF IInv, TypeOK
<1>c. \A i \in 1..Len(queue_) : queue_[i] \in Requests
  BY <1>b
<1>d. /\ batch' \in Seq(Requests)
      /\ Len(batch') = n
      /\ \A i \in 1..n : batch'[i] = queue_[i]
  BY <1>b, <1>c, <1>a
<1>e. /\ queue_' \in Seq(Requests)
      /\ Len(queue_') = Len(queue_) - n
      /\ \A i \in 1..(Len(queue_) - n) : queue_'[i] = queue_[n + i]
  BY <1>b, <1>c, <1>a
<1>1. TypeOK'
  BY ZenonT(60), ZenonT(90), <1>d, <1>e DEF IInv, TypeOK, WriterTakes, fileVars
<1>2. \A q \in Requests : (Written(q) => Written(q)') /\ (Safe(q) => Safe(q)')
  BY <1>1, FileAtRest DEF WriterTakes, fileVars
<1>3. FileSound'
  BY DEF IInv, TypeOK, FileSound, Broken, WriterSound, WriterTakes, fileVars
<1>4. StageSound'
  BY <1>2 DEF IInv, TypeOK, StageSound, WriterSound, WriterTakes, fileVars
<1>5. BatchSound'
  BY <1>2 DEF IInv, TypeOK, BatchSound, Batched, WriterSound, WriterTakes, fileVars
<1>6. WriterSound'
  BY DEF GroupCommit, IInv, TypeOK, WriterSound, WriterTakes, fileVars
<1>7. NobodyForgotten'
  <2>1. ASSUME NEW q \in Requests, Queued(q)
        PROVE  Queued(q)' \/ Batched(q)'
    <3>1. PICK i \in 1..Len(queue_) : queue_[i] = q
      BY <2>1 DEF Queued
    <3>2. CASE i <= n
      <4>1. i \in 1..Len(batch') /\ batch'[i] = q
        BY <1>b, <1>d, <3>1, <3>2
      <4> QED
        BY <4>1 DEF Batched
    <3>3. CASE i > n
      <4>1. i - n \in 1..Len(queue_') /\ queue_'[i - n] = queue_[n + (i - n)] /\ n + (i - n) = i
        BY <1>b, <1>e, <3>3
      <4> QED
        BY <3>1, <4>1 DEF Queued
    <3> QED
      BY <1>b, <3>2, <3>3
  <2>2. batch = <<>>
    BY DEF IInv, WriterSound, WriterTakes
  <2>3. \A q \in Requests : ~Batched(q)
    BY <2>2 DEF Batched
  <2> QED
    BY <2>1, <2>3 DEF IInv, NobodyForgotten, WriterTakes
<1> QED
  BY <1>1, <1>3, <1>4, <1>5, <1>6, <1>7 DEF IInv

(* The catch block joins the queue to the failed batch.                    *)
LEMMA WriterCatchesKeeps ==
  ASSUME IInv, WriterCatches
  PROVE  IInv'
<1>1. TypeOK'
  BY DEF IInv, TypeOK, WriterCatches, fileVars
<1>2. \A q \in Requests : (Written(q) => Written(q)') /\ (Safe(q) => Safe(q)')
  BY <1>1, FileAtRest DEF WriterCatches, fileVars
<1>3. FileSound'
  BY DEF IInv, TypeOK, FileSound, Broken, WriterSound, WriterCatches, fileVars
<1>4. StageSound'
  BY <1>2 DEF IInv, TypeOK, StageSound, WriterSound, WriterCatches, fileVars
<1>5. BatchSound'
  BY <1>2 DEF IInv, TypeOK, BatchSound, Batched, WriterSound, WriterCatches, fileVars
<1>6. WriterSound'
  BY DEF GroupCommit, IInv, TypeOK, WriterSound, WriterCatches, fileVars
<1>7. NobodyForgotten'
  <2>1. /\ batch \in Seq(Requests) /\ queue_ \in Seq(Requests)
        /\ Len(batch) \in Nat /\ Len(queue_) \in Nat
        /\ batch' = batch \o queue_
    BY DEF IInv, TypeOK, WriterCatches
  <2>2. /\ Len(batch') = Len(batch) + Len(queue_)
        /\ \A i \in 1..Len(batch') :
             batch'[i] = IF i <= Len(batch) THEN batch[i] ELSE queue_[i - Len(batch)]
    BY <2>1
  <2>3. ASSUME NEW q \in Requests, Batched(q)
        PROVE  Batched(q)'
    BY <2>1, <2>2, <2>3 DEF Batched
  <2>4. ASSUME NEW q \in Requests, Queued(q)
        PROVE  Batched(q)'
    <3>1. PICK i \in 1..Len(queue_) : queue_[i] = q
      BY <2>4 DEF Queued
    <3>2. Len(batch) + i \in 1..Len(batch') /\ batch'[Len(batch) + i] = q
      BY <2>1, <2>2, <3>1
    <3> QED
      BY <3>2 DEF Batched
  <2> QED
    BY <2>3, <2>4 DEF IInv, NobodyForgotten, WriterCatches
<1> QED
  BY <1>1, <1>3, <1>4, <1>5, <1>6, <1>7 DEF IInv

(* The writer answers the first request of its batch.                      *)
LEMMA WriterReportsKeeps ==
  ASSUME IInv, WriterReports
  PROVE  IInv'
<1>a. /\ batch \in Seq(Requests) /\ batch # <<>> /\ Len(batch) \in Nat \ {0}
      /\ Head(batch) = batch[1] /\ batch[1] \in Requests
  BY DEF IInv, TypeOK, WriterReports
<1>b. /\ batch' \in Seq(Requests) /\ Len(batch') = Len(batch) - 1
      /\ \A i \in 1..Len(batch') : batch'[i] = batch[i + 1]
  BY <1>a DEF WriterReports
<1>1. TypeOK'
  BY <1>a, <1>b DEF IInv, TypeOK, WriterReports, fileVars
<1>2. \A q \in Requests : (Written(q) => Written(q)') /\ (Safe(q) => Safe(q)')
  BY <1>1, FileAtRest DEF WriterReports, fileVars
<1>3. FileSound'
  BY DEF IInv, TypeOK, FileSound, Broken, WriterSound, WriterReports, fileVars
<1>4. StageSound'
  <2>1. ~error => Safe(batch[1])
    BY <1>a DEF IInv, BatchSound, Batched, WriterReports
  <2>2. ASSUME NEW q \in Requests, done'[q] = "ok"
        PROVE  Safe(q)
    BY <1>a, <2>1, <2>2 DEF IInv, TypeOK, StageSound, WriterReports
  <2> QED
    BY <1>2, <2>2 DEF IInv, StageSound, WriterReports
<1>5. BatchSound'
  BY <1>2 DEF IInv, TypeOK, BatchSound, Batched, WriterSound, WriterReports, fileVars
<1>6. WriterSound'
  BY DEF GroupCommit, IInv, TypeOK, WriterSound, WriterReports, fileVars
<1>7. NobodyForgotten'
  <2>1. ASSUME NEW q \in Requests, Batched(q), q # batch[1]
        PROVE  Batched(q)'
    <3>1. PICK i \in 1..Len(batch) : batch[i] = q
      BY <2>1 DEF Batched
    <3>2. i - 1 \in 1..Len(batch') /\ batch'[i - 1] = batch[(i - 1) + 1] /\ (i - 1) + 1 = i
      BY <1>a, <1>b, <2>1, <3>1
    <3> QED
      BY <3>1, <3>2 DEF Batched
  <2>2. done'[batch[1]] # "none" /\ \A q \in Requests \ {batch[1]} : done'[q] = done[q]
    BY <1>a DEF IInv, TypeOK, WriterReports
  <2> QED
    BY <1>a, <2>1, <2>2 DEF IInv, NobodyForgotten, Queued, WriterReports
<1> QED
  BY <1>1, <1>3, <1>4, <1>5, <1>6, <1>7 DEF IInv

(* The writer goes round when everybody is answered.                       *)
LEMMA WriterLoopsKeeps ==
  ASSUME IInv, WriterLoops
  PROVE  IInv'
<1>1. TypeOK'
  BY DEF IInv, TypeOK, WriterLoops, fileVars
<1>2. \A q \in Requests : (Written(q) => Written(q)') /\ (Safe(q) => Safe(q)')
  BY <1>1, FileAtRest DEF WriterLoops, fileVars
<1>3. FileSound'
  BY DEF IInv, TypeOK, FileSound, Broken, WriterSound, WriterLoops, fileVars
<1>4. StageSound'
  BY <1>2 DEF IInv, TypeOK, StageSound, WriterSound, WriterLoops, fileVars
<1>5. BatchSound'
  BY <1>2 DEF IInv, TypeOK, BatchSound, Batched, WriterSound, WriterLoops, fileVars
<1>6. WriterSound'
  BY DEF GroupCommit, IInv, TypeOK, WriterSound, WriterLoops, fileVars
<1>7. NobodyForgotten'
  BY DEF IInv, TypeOK, NobodyForgotten, Queued, Batched, WriterSound, WriterLoops,
         fileVars
<1> QED
  BY <1>1, <1>3, <1>4, <1>5, <1>6, <1>7 DEF IInv

(* A wakeup without a cause changes only the writer's place.               *)
LEMMA SpuriousWakeupKeeps ==
  ASSUME IInv, SpuriousWakeup
  PROVE  IInv'
<1>1. TypeOK'
  BY DEF IInv, TypeOK, SpuriousWakeup, fileVars
<1>2. \A q \in Requests : (Written(q) => Written(q)') /\ (Safe(q) => Safe(q)')
  BY <1>1, FileAtRest DEF SpuriousWakeup, fileVars
<1>3. FileSound'
  BY DEF IInv, TypeOK, FileSound, Broken, WriterSound, SpuriousWakeup, fileVars
<1>4. StageSound'
  BY <1>2 DEF IInv, TypeOK, StageSound, WriterSound, SpuriousWakeup, fileVars
<1>5. BatchSound'
  BY <1>2 DEF IInv, TypeOK, BatchSound, Batched, WriterSound, SpuriousWakeup, fileVars
<1>6. WriterSound'
  BY DEF GroupCommit, IInv, TypeOK, WriterSound, SpuriousWakeup, fileVars
<1>7. NobodyForgotten'
  BY DEF IInv, TypeOK, NobodyForgotten, Queued, Batched, WriterSound,
         SpuriousWakeup, fileVars
<1> QED
  BY <1>1, <1>3, <1>4, <1>5, <1>6, <1>7 DEF IInv

(* The destructor sets its flag.                                           *)
LEMMA DestroyKeeps ==
  ASSUME IInv, Destroy
  PROVE  IInv'
<1>1. TypeOK'
  BY DEF IInv, TypeOK, Destroy, writerVars, fileVars
<1>2. \A q \in Requests : (Written(q) => Written(q)') /\ (Safe(q) => Safe(q)')
  BY <1>1, FileAtRest DEF Destroy, fileVars
<1>3. FileSound'
  BY DEF IInv, TypeOK, FileSound, Broken, WriterSound, Destroy, writerVars, fileVars
<1>4. StageSound'
  BY <1>2 DEF IInv, TypeOK, StageSound, WriterSound, Destroy, writerVars, fileVars
<1>5. BatchSound'
  BY <1>2
     DEF IInv, TypeOK, BatchSound, Batched, WriterSound, Destroy, writerVars,
         fileVars
<1>6. WriterSound'
  BY DEF GroupCommit, IInv, TypeOK, WriterSound, Destroy, writerVars, fileVars
<1>7. NobodyForgotten'
  BY DEF IInv, TypeOK, NobodyForgotten, Queued, Batched, WriterSound, Destroy,
         writerVars, fileVars
<1> QED
  BY <1>1, <1>3, <1>4, <1>5, <1>6, <1>7 DEF IInv

(* The destructor wakes the writer.                                        *)
LEMMA DestroyNotifiesKeeps ==
  ASSUME IInv, DestroyNotifies
  PROVE  IInv'
<1>1. TypeOK'
  BY DEF IInv, TypeOK, DestroyNotifies, WakeWriter, fileVars
<1>2. \A q \in Requests : (Written(q) => Written(q)') /\ (Safe(q) => Safe(q)')
  BY <1>1, FileAtRest DEF DestroyNotifies, fileVars
<1>3. FileSound'
  BY ZenonT(60), ZenonT(90)
     DEF IInv, TypeOK, FileSound, Broken, WriterSound, DestroyNotifies, WakeWriter,
         fileVars
<1>4. StageSound'
  BY <1>2
     DEF IInv, TypeOK, StageSound, WriterSound, DestroyNotifies, WakeWriter,
         fileVars
<1>5. BatchSound'
  BY <1>2
     DEF IInv, TypeOK, BatchSound, Batched, WriterSound, DestroyNotifies,
         WakeWriter, fileVars
<1>6. WriterSound'
  BY DEF GroupCommit, IInv, TypeOK, WriterSound, DestroyNotifies, WakeWriter, fileVars
<1>7. NobodyForgotten'
  BY DEF IInv, TypeOK, NobodyForgotten, Queued, Batched, WriterSound,
         DestroyNotifies, WakeWriter, fileVars
<1> QED
  BY <1>1, <1>3, <1>4, <1>5, <1>6, <1>7 DEF IInv
(* Steps that write.                                                       *)

(* An inline write appends one whole frame to a sound file.                *)
LEMMA InlineWriteKeeps ==
  ASSUME IInv, NEW r \in Requests, InlineWrite(r)
  PROVE  IInv'
<1>1. ~Broken /\ ~GroupCommit /\ wpc = "exited" /\ <<r>> \in Seq(Requests)
  BY DEF InlineWrite, InlineEnter, AppendAllowed, IInv, WriterSound, Broken
<1>2. /\ file' \in Seq(Frames)
      /\ header' = "valid"
      /\ next_sequence_' \in 1..MaxSequence
      /\ next_sequence_' = Len(file') + 1
      /\ \A i \in 1..Len(file') : file'[i].whole /\ file'[i].seq = i
      /\ synced' \in 0..Len(file')
      /\ Grows
      /\ \A j \in 1..Len(<<r>>) : \E i \in 1..Len(file') : file'[i].req = <<r>>[j]
  BY ZenonT(60), ZenonT(90), <1>1, WriteExtends DEF IInv, InlineWrite
<1>3. TypeOK'
  BY <1>2 DEF IInv, TypeOK, InlineWrite, writerVars
<1>4. \A q \in Requests : (Written(q) => Written(q)') /\ (Safe(q) => Safe(q)')
  BY <1>2, <1>3, GrowsKeeps DEF IInv
<1>5. FileSound'
  BY <1>2 DEF FileSound
<1>6. StageSound'
  <2>1. Written(r)'
    <3>1. PICK i \in 1..Len(file') : file'[i].req = r
      BY <1>2
    <3>2. Replayable(i)'
      BY <1>2 DEF Replayable, TypeOK
    <3> QED
      BY <3>1, <3>2 DEF Written
  <2> QED
    BY <1>4, <2>1 DEF IInv, TypeOK, StageSound, InlineWrite
<1>7. BatchSound'
  BY <1>1 DEF BatchSound, InlineWrite, writerVars
<1>8. WriterSound'
  BY <1>1 DEF GroupCommit, IInv, WriterSound, InlineWrite, writerVars
<1>9. NobodyForgotten'
  BY DEF IInv, TypeOK, NobodyForgotten, Queued, Batched, InlineWrite, writerVars
<1> QED
  BY <1>3, <1>5, <1>6, <1>7, <1>8, <1>9 DEF IInv

(* An inline write that throws records the error.                          *)
LEMMA InlineWriteThrowsKeeps ==
  ASSUME IInv, NEW r \in Requests, InlineWriteThrows(r)
  PROVE  IInv'
<1>1. ~GroupCommit /\ wpc = "exited" /\ <<r>> \in Seq(Requests)
  BY DEF InlineWriteThrows, InlineEnter, IInv, WriterSound
<1>2. /\ file' \in Seq(Frames)
      /\ header' \in {"none", "partial", "valid"}
      /\ next_sequence_' \in 1..MaxSequence
      /\ synced' \in 0..Len(file')
      /\ Grows
  BY ZenonT(60), ZenonT(90), <1>1, WriteThrowsExtends DEF IInv, InlineWriteThrows
<1>3. TypeOK'
  BY <1>2 DEF IInv, TypeOK, InlineWriteThrows, writerVars
<1>4. \A q \in Requests : (Written(q) => Written(q)') /\ (Safe(q) => Safe(q)')
  BY <1>2, <1>3, GrowsKeeps DEF IInv
<1>5. FileSound'
  BY DEF FileSound, Broken, InlineWriteThrows
<1>6. StageSound'
  BY <1>4 DEF IInv, TypeOK, StageSound, InlineWriteThrows
<1>7. BatchSound'
  BY <1>1 DEF BatchSound, InlineWriteThrows, writerVars
<1>8. WriterSound'
  BY <1>1 DEF IInv, WriterSound, InlineWriteThrows, writerVars, GroupCommit
<1>9. NobodyForgotten'
  BY DEF IInv, TypeOK, NobodyForgotten, Queued, Batched, InlineWriteThrows,
         writerVars
<1> QED
  BY <1>3, <1>5, <1>6, <1>7, <1>8, <1>9 DEF IInv

(* The writer appends the frames of its whole batch.                       *)
LEMMA WriterWritesKeeps ==
  ASSUME IInv, WriterWrites
  PROVE  IInv'
<1>1. ~Broken /\ batch \in Seq(Requests) /\ GroupCommit /\ wpc = "taken" /\ ~error
  BY DEF WriterWrites, IInv, TypeOK, WriterSound, Broken
<1>2. /\ file' \in Seq(Frames)
      /\ header' = "valid"
      /\ next_sequence_' \in 1..MaxSequence
      /\ next_sequence_' = Len(file') + 1
      /\ \A i \in 1..Len(file') : file'[i].whole /\ file'[i].seq = i
      /\ synced' \in 0..Len(file')
      /\ Grows
      /\ \A j \in 1..Len(batch) : \E i \in 1..Len(file') : file'[i].req = batch[j]
  BY <1>1, WriteExtends DEF IInv, WriterWrites
<1>3. TypeOK'
  BY <1>2 DEF IInv, TypeOK, WriterWrites
<1>4. \A q \in Requests : (Written(q) => Written(q)') /\ (Safe(q) => Safe(q)')
  BY <1>2, <1>3, GrowsKeeps DEF IInv
<1>5. FileSound'
  BY <1>2 DEF FileSound
<1>6. StageSound'
  BY <1>4 DEF IInv, StageSound, WriterWrites
<1>7. BatchSound'
  <2>1. ASSUME NEW q \in Requests, Batched(q)
        PROVE  Written(q)'
    <3>1. PICK i \in 1..Len(file') : file'[i].req = q
      BY <1>2, <2>1 DEF Batched
    <3>2. Replayable(i)'
      BY <1>2 DEF Replayable, TypeOK
    <3> QED
      BY <3>1, <3>2 DEF Written
  <2> QED
    BY <2>1 DEF BatchSound, Batched, WriterWrites
<1>8. WriterSound'
  BY <1>1 DEF GroupCommit, IInv, WriterSound, WriterWrites
<1>9. NobodyForgotten'
  BY DEF IInv, NobodyForgotten, Queued, Batched, WriterWrites
<1> QED
  BY <1>3, <1>5, <1>6, <1>7, <1>8, <1>9 DEF IInv

(* A batch write that throws leaves the file and enters the catch block.   *)
LEMMA WriterWriteThrowsKeeps ==
  ASSUME IInv, WriterWriteThrows
  PROVE  IInv'
<1>1. batch \in Seq(Requests) /\ GroupCommit /\ wpc = "taken" /\ ~error
  BY DEF WriterWriteThrows, IInv, TypeOK, WriterSound
<1>2. /\ file' \in Seq(Frames)
      /\ header' \in {"none", "partial", "valid"}
      /\ next_sequence_' \in 1..MaxSequence
      /\ synced' \in 0..Len(file')
      /\ Grows
  BY <1>1, WriteThrowsExtends DEF IInv, WriterWriteThrows
<1>3. TypeOK'
  BY <1>2 DEF IInv, TypeOK, WriterWriteThrows
<1>4. \A q \in Requests : (Written(q) => Written(q)') /\ (Safe(q) => Safe(q)')
  BY <1>2, <1>3, GrowsKeeps DEF IInv
<1>5. FileSound'
  BY DEF FileSound, Broken, WriterWriteThrows
<1>6. StageSound'
  BY <1>4 DEF IInv, StageSound, WriterWriteThrows
<1>7. BatchSound'
  BY DEF BatchSound, WriterWriteThrows
<1>8. WriterSound'
  BY <1>1 DEF GroupCommit, IInv, WriterSound, WriterWriteThrows
<1>9. NobodyForgotten'
  BY ZenonT(60), ZenonT(90) DEF IInv, NobodyForgotten, Queued, Batched, WriterWriteThrows
<1> QED
  BY <1>3, <1>5, <1>6, <1>7, <1>8, <1>9 DEF IInv
(* Steps that sync.                                                        *)

(* An inline sync covers the frame of its call.                            *)
LEMMA InlineSyncsKeeps ==
  ASSUME IInv, NEW r \in Requests, InlineSyncs(r)
  PROVE  IInv'
<1>1. /\ UNCHANGED <<header, file, next_sequence_>>
      /\ Len(file) \in Nat /\ synced \in 0..Len(file) /\ synced' \in synced..Len(file)
  BY DEF IInv, TypeOK, InlineSyncs, SyncLocked
<1>2. TypeOK' /\ Grows
  BY <1>1 DEF IInv, TypeOK, Grows, InlineSyncs, writerVars
<1>3. \A q \in Requests : (Written(q) => Written(q)') /\ (Safe(q) => Safe(q)')
  BY <1>2, GrowsKeeps DEF IInv
<1>4. \A q \in Requests : Written(q) => Safe(q)'
  BY <1>1 DEF Written, Safe, Covered, Replayable, InlineSyncs, SyncLocked
<1>5. FileSound'
  BY <1>1 DEF IInv, FileSound, Broken, WriterSound, InlineSyncs, writerVars
<1>6. StageSound'
  BY <1>3, <1>4 DEF IInv, TypeOK, StageSound, InlineSyncs
<1>7. BatchSound'
  BY <1>3, <1>4 DEF IInv, BatchSound, Batched, WriterSound, InlineSyncs, writerVars
<1>8. WriterSound'
  BY DEF IInv, TypeOK, WriterSound, GroupCommit, InlineSyncs, writerVars
<1>9. NobodyForgotten'
  BY DEF IInv, TypeOK, NobodyForgotten, Queued, Batched, InlineSyncs, writerVars
<1> QED
  BY <1>2, <1>5, <1>6, <1>7, <1>8, <1>9 DEF IInv

(* An inline sync that throws records the error.                           *)
LEMMA InlineSyncThrowsKeeps ==
  ASSUME IInv, NEW r \in Requests, InlineSyncThrows(r)
  PROVE  IInv'
<1>1. /\ UNCHANGED <<header, file, next_sequence_>>
      /\ Len(file) \in Nat /\ synced \in 0..Len(file) /\ synced' \in synced..Len(file)
  BY DEF IInv, TypeOK, InlineSyncThrows, SyncThrows
<1>2. TypeOK' /\ Grows
  BY <1>1 DEF IInv, TypeOK, Grows, InlineSyncThrows, writerVars
<1>3. \A q \in Requests : (Written(q) => Written(q)') /\ (Safe(q) => Safe(q)')
  BY <1>2, GrowsKeeps DEF IInv
<1>5. FileSound'
  BY <1>1 DEF IInv, FileSound, Broken, WriterSound, InlineSyncThrows, writerVars
<1>6. StageSound'
  BY <1>3 DEF IInv, TypeOK, StageSound, InlineSyncThrows
<1>7. BatchSound'
  BY <1>3 DEF IInv, BatchSound, Batched, WriterSound, InlineSyncThrows, writerVars
<1>8. WriterSound'
  BY DEF IInv, TypeOK, WriterSound, GroupCommit, InlineSyncThrows, writerVars
<1>9. NobodyForgotten'
  BY DEF IInv, TypeOK, NobodyForgotten, Queued, Batched, InlineSyncThrows, writerVars
<1> QED
  BY <1>2, <1>5, <1>6, <1>7, <1>8, <1>9 DEF IInv

(* The writer's sync covers every frame of its batch.                      *)
LEMMA WriterSyncsKeeps ==
  ASSUME IInv, WriterSyncs
  PROVE  IInv'
<1>1. /\ UNCHANGED <<header, file, next_sequence_>>
      /\ Len(file) \in Nat /\ synced \in 0..Len(file) /\ synced' \in synced..Len(file)
  BY DEF IInv, TypeOK, WriterSyncs, SyncLocked
<1>2. TypeOK' /\ Grows
  BY <1>1 DEF IInv, TypeOK, Grows, WriterSyncs
<1>3. \A q \in Requests : (Written(q) => Written(q)') /\ (Safe(q) => Safe(q)')
  BY <1>2, GrowsKeeps DEF IInv
<1>4. \A q \in Requests : Written(q) => Safe(q)'
  BY <1>1 DEF Written, Safe, Covered, Replayable, WriterSyncs, SyncLocked
<1>5. FileSound'
  BY <1>1 DEF IInv, FileSound, Broken, WriterSound, WriterSyncs
<1>6. StageSound'
  BY <1>3, <1>4 DEF IInv, TypeOK, StageSound, WriterSyncs
<1>7. BatchSound'
  BY <1>3, <1>4 DEF IInv, BatchSound, Batched, WriterSound, WriterSyncs
<1>8. WriterSound'
  BY DEF IInv, TypeOK, WriterSound, GroupCommit, WriterSyncs
<1>9. NobodyForgotten'
  BY DEF IInv, TypeOK, NobodyForgotten, Queued, Batched, WriterSyncs
<1> QED
  BY <1>2, <1>5, <1>6, <1>7, <1>8, <1>9 DEF IInv

(* A failed sync enters the catch block.                                   *)
LEMMA WriterSyncThrowsKeeps ==
  ASSUME IInv, WriterSyncThrows
  PROVE  IInv'
<1>1. /\ UNCHANGED <<header, file, next_sequence_>>
      /\ Len(file) \in Nat /\ synced \in 0..Len(file) /\ synced' \in synced..Len(file)
  BY DEF IInv, TypeOK, WriterSyncThrows, SyncThrows
<1>2. TypeOK' /\ Grows
  BY <1>1 DEF IInv, TypeOK, Grows, WriterSyncThrows
<1>3. \A q \in Requests : (Written(q) => Written(q)') /\ (Safe(q) => Safe(q)')
  BY <1>2, GrowsKeeps DEF IInv
<1>5. FileSound'
  BY <1>1 DEF IInv, FileSound, Broken, WriterSound, WriterSyncThrows
<1>6. StageSound'
  BY <1>3 DEF IInv, TypeOK, StageSound, WriterSyncThrows
<1>7. BatchSound'
  BY <1>3 DEF IInv, BatchSound, Batched, WriterSound, WriterSyncThrows
<1>8. WriterSound'
  BY DEF IInv, TypeOK, WriterSound, GroupCommit, WriterSyncThrows
<1>9. NobodyForgotten'
  BY DEF IInv, TypeOK, NobodyForgotten, Queued, Batched, WriterSyncThrows
<1> QED
  BY <1>2, <1>5, <1>6, <1>7, <1>8, <1>9 DEF IInv

(* A stuttering step keeps the invariant.                                  *)
LEMMA StutterKeeps ==
  ASSUME IInv, UNCHANGED vars
  PROVE  IInv'
<1>1. TypeOK'
  BY DEF IInv, TypeOK, vars
<1>2. \A q \in Requests : (Written(q) <=> Written(q)') /\ (Safe(q) <=> Safe(q)')
  BY DEF Written, Safe, Covered, Replayable, vars
<1>3. FileSound'
  BY DEF IInv, FileSound, Broken, vars
<1>4. StageSound'
  BY <1>2 DEF IInv, StageSound, vars
<1>5. BatchSound'
  BY <1>2 DEF IInv, BatchSound, Batched, vars
<1>6. WriterSound'
  BY DEF IInv, WriterSound, GroupCommit, vars
<1>7. NobodyForgotten'
  BY DEF IInv, NobodyForgotten, Queued, Batched, vars
<1>8. QED
  BY <1>1, <1>3, <1>4, <1>5, <1>6, <1>7 DEF IInv

(* An empty log satisfies the invariant.                                   *)
LEMMA InitSound ==
  ASSUME Init
  PROVE  IInv
<1>1. TypeOK
  <2>1. <<>> \in Seq(Requests) /\ <<>> \in Seq(Frames) /\ Len(<<>>) = 0
    OBVIOUS
  <2>2. 0 \in 0..0 /\ 1 \in 1..MaxSequence
    BY WalAssumption
  <2>3. /\ pc \in [Requests -> {"idle", "written", "synced", "enqueued", "waiting",
                             "ok", "error"}]
        /\ done \in [Requests -> {"none", "ok", "error"}]
        /\ synced \in 0..Len(file)
    BY <2>1, <2>2 DEF Init
  <2> QED
    BY ZenonT(60), ZenonT(90), <2>1, <2>2, <2>3 DEF Init, TypeOK
<1>2. FileSound
  BY DEF Init, FileSound
<1>3. StageSound /\ NobodyForgotten
  BY DEF Init, StageSound, NobodyForgotten
<1>4. BatchSound
  BY DEF Init, BatchSound, Batched
<1>5. WriterSound
  BY DEF Init, WriterSound, GroupCommit
<1> QED
  BY <1>1, <1>2, <1>3, <1>4, <1>5 DEF IInv

(* Every step keeps the invariant.                                         *)
LEMMA NextKeeps ==
  ASSUME IInv, [Next]_vars
  PROVE  IInv'
<1>1. ASSUME NEW r \in Requests, Caller(r)
      PROVE  IInv'
  BY <1>1, RejectKeeps, RethrowKeeps, InlineWriteKeeps, InlineWriteThrowsKeeps,
     InlineSyncsKeeps, InlineSyncThrowsKeeps, InlineReturnKeeps,
     EnqueueKeeps, NotifyKeeps, ReturnKeeps DEF Caller
<1>2. ASSUME Writer
      PROVE  IInv'
  BY <1>2, WriterSleepKeeps, WriterStopsKeeps, WriterDelaysKeeps, WriterTakesKeeps,
     WriterWritesKeeps, WriterWriteThrowsKeeps, WriterSyncsKeeps, WriterSyncThrowsKeeps,
     WriterCatchesKeeps, WriterReportsKeeps, WriterLoopsKeeps DEF Writer
<1>3. CASE SpuriousWakeup
  BY <1>3, SpuriousWakeupKeeps
<1>4. CASE Destroy \/ DestroyNotifies
  BY <1>4, DestroyKeeps, DestroyNotifiesKeeps
<1>5. CASE Destroyed \/ UNCHANGED vars
  BY <1>5, StutterKeeps DEF Destroyed
<1> QED
  BY <1>1, <1>2, <1>3, <1>4, <1>5 DEF Next

(* The invariant holds in every reachable state of the append path.        *)
THEOREM Invariance == Spec => []IInv
<1>1. Init => IInv
  BY InitSound
<1>2. IInv /\ [Next]_vars => IInv'
  BY NextKeeps
<1> QED
  BY <1>1, <1>2, PTL DEF Spec

------------------------------------------------------------------------------
(* The results.                                                            *)

(* Every variable keeps its type: in particular next_sequence_ never passes*)
(* the number FinalizeFrameLocked refuses, and the synced prefix never     *)
(* exceeds the file.                                                       *)
THEOREM TypeCorrect == Spec => []TypeOK
<1>1. IInv => TypeOK
  BY DEF IInv
<1> QED
  BY <1>1, Invariance, PTL

(* Whatever the number of callers and the failures on the way, an append   *)
(* that returned success has its record in the part of the file that       *)
(* replay reaches and, unless the policy is Buffered, that fdatasync has   *)
(* covered.                                                                *)
THEOREM AcknowledgedIsReplayable == Spec => []AckedReplayable
<1>1. IInv => AckedReplayable
  BY DEF IInv, StageSound, AckedReplayable, Safe, Covered
<1> QED
  BY <1>1, Invariance, PTL

(* When WriterLoop has returned, after an error or a shutdown, no caller   *)
(* is left in the queue or waiting for an answer.                          *)
THEOREM NoWaiterLeft == Spec => []ExitLeavesNoWaiter
<1>1. IInv => ExitLeavesNoWaiter
  <2> SUFFICES ASSUME IInv, GroupCommit, wpc = "exited"
               PROVE  /\ queue_ = <<>>
                      /\ \A r \in Requests :
                           pc[r] \in {"enqueued", "waiting"} => done[r] # "none"
    BY DEF ExitLeavesNoWaiter
  <2>1. queue_ = <<>> /\ batch = <<>>
    BY DEF IInv, WriterSound
  <2>2. \A r \in Requests : ~Queued(r) /\ ~Batched(r)
    BY <2>1 DEF Queued, Batched
  <2> QED
    BY <2>1, <2>2 DEF IInv, NobodyForgotten
<1> QED
  BY <1>1, Invariance, PTL

(* Once AppendPayload or WriterLoop has recorded an error, no byte is      *)
(* written again: a later caller is refused, the writer is past its last   *)
(* write, and no caller of the failed batch writes either.                 *)
THEOREM FailureIsFinal == Spec => FailStop
<1>1. IInv /\ [Next]_vars => [failure_ => UNCHANGED <<header, file, next_sequence_>>]_vars
  <2> SUFFICES ASSUME IInv, Next, failure_
               PROVE  UNCHANGED <<header, file, next_sequence_>>
    OBVIOUS
  <2>1. wpc # "taken"
    BY DEF IInv, WriterSound
  <2>2. ASSUME NEW r \in Requests, Caller(r)
        PROVE  UNCHANGED <<header, file, next_sequence_>>
    BY ZenonT(60), ZenonT(90), <2>2
       DEF Caller, Reject, Rethrow, InlineWrite, InlineWriteThrows, InlineEnter,
                InlineSyncs, InlineSyncThrows, InlineReturn, Enqueue, Notify, Return,
                AppendAllowed, fileVars
  <2>3. ASSUME Writer
        PROVE  UNCHANGED <<header, file, next_sequence_>>
    BY ZenonT(60), ZenonT(90), <2>1, <2>3
       DEF Writer, WriterSleep, WriterStops, WriterDelays, WriterTakes,
                WriterWrites, WriterWriteThrows, WriterSyncs, WriterSyncThrows,
                WriterCatches, WriterReports, WriterLoops, fileVars
  <2>4. CASE SpuriousWakeup \/ Destroy \/ DestroyNotifies \/ Destroyed
    BY ZenonT(60), ZenonT(90), <2>4
       DEF SpuriousWakeup, Destroy, DestroyNotifies, Destroyed, fileVars, vars
  <2> QED
    BY <2>2, <2>3, <2>4 DEF Next
<1> QED
  BY <1>1, Invariance, PTL DEF Spec, FailStop

------------------------------------------------------------------------------
(* The limits of a batch.                                                  *)

(* The bytes of one frame.                                                 *)
LEMMA OneFrame ==
  ASSUME NEW r \in Requests
  PROVE  MapThenSumSet(FrameSize, {r}) = FrameSize(r)
<1> DEFINE F(g) == [s \in SUBSET {r} |->
                      IF s = {} THEN 0
                      ELSE LET x == CHOOSE x \in s : TRUE IN FrameSize(x) + g[s \ {x}]]
           it == CHOOSE g : g = F(g)
           w == [s \in SUBSET {r} |-> IF s = {} THEN 0 ELSE FrameSize(r)]
<1>1. MapThenSumSet(FrameSize, {r}) = it[{r}]
  BY Zenon DEF MapThenSumSet, MapThenFoldSet
<1>2. \A s \in SUBSET {r} : s = {} \/ s = {r}
  OBVIOUS
<1>3. (CHOOSE x \in {r} : TRUE) = r /\ {r} \ {r} = {}
  OBVIOUS
<1>4. FrameSize(r) \in Nat
  BY WalAssumption DEF FrameSize, FramePrefix
<1>5. w = F(w)
  <2>1. ASSUME NEW s \in SUBSET {r} PROVE w[s] = F(w)[s]
    <3>1. CASE s = {}
      BY <3>1
    <3>2. CASE s = {r}
      BY <1>3, <1>4, <3>2
    <3>3. QED
      BY <1>2, <3>1, <3>2
  <2>2. QED
    BY ZenonT(60), ZenonT(90), <2>1
<1>6. it = F(it)
  BY <1>5, Zenon
<1>7. it[{r}] = FrameSize(r) + it[{}] /\ it[{}] = 0
  <2> HIDE DEF it
  <2>1. it[{}] = 0
    BY <1>6
  <2>2. it[{r}] = FrameSize(r) + it[{r} \ {r}]
    BY <1>3, <1>6, Zenon
  <2>3. QED
    BY <1>3, <2>1, <2>2
<1> HIDE DEF it
<1>8. it[{r}] = FrameSize(r)
  BY <1>4, <1>7
<1>9. QED
  BY <1>1, <1>8, Zenon

(* What the writer takes fits, and it takes at least one frame.            *)
LEMMA TakesWhatFits ==
  ASSUME TypeOK, queue_ # <<>>, NEW n \in 0..Len(queue_), Takes(n)
  PROVE  n \in 1..Len(queue_) /\ Fits(n)
<1>1. Len(queue_) \in Nat /\ Len(queue_) >= 1
  BY DEF TypeOK
<1>2. Fits(0 + 1)
  BY WalAssumption DEF Fits
<1>3. n # 0
  BY <1>1, <1>2 DEF Takes
<1> QED
  BY <1>1, <1>3 DEF Takes

Bytes(X) == MapThenSumSet(FrameSize, X)

(* The batch to be written is within both limits, and every record that is *)
(* still queued is short enough to be written alone.                       *)
Limits ==
  /\ wpc \in {"taken", "written"} =>
       Len(batch) \in 1..max_batch_ /\ Bytes({batch[i] : i \in DOMAIN batch}) <= kMaxBatchBytes
  /\ \A i \in 1..Len(queue_) : ~TooLarge(queue_[i])

LEMMA WriterTakesWithinLimits ==
  ASSUME TypeOK, Limits, WriterTakes
  PROVE  Limits'
<1>0. PICK t \in 0..Len(queue_) :
        /\ Takes(t) /\ queue_ # <<>>
        /\ batch' = SubSeq(queue_, 1, t) /\ queue_' = SubSeq(queue_, t + 1, Len(queue_))
  BY ZenonT(60), ZenonT(90) DEF WriterTakes
<1>1. /\ queue_ \in Seq(Requests) /\ Len(queue_) \in Nat /\ t \in 1..Len(queue_) /\ Fits(t)
      /\ batch' = SubSeq(queue_, 1, t) /\ queue_' = SubSeq(queue_, t + 1, Len(queue_))
  BY <1>0, TakesWhatFits DEF TypeOK
<1>2. /\ Len(batch') = t /\ DOMAIN batch' = 1..t
      /\ \A i \in 1..t : batch'[i] = queue_[i]
  BY <1>1
<1>3. {batch'[i] : i \in DOMAIN batch'} = {queue_[i] : i \in 1..t}
  BY <1>2
<1>4. Bytes({queue_[i] : i \in 1..t}) <= kMaxBatchBytes
  <2>1. CASE t = 1
    <3>1. {queue_[i] : i \in 1..t} = {queue_[1]} /\ queue_[1] \in Requests
      BY <1>1, <2>1
    <3>2. Bytes({queue_[1]}) = FrameSize(queue_[1])
      BY <3>1, OneFrame, Zenon DEF Bytes
    <3>3. FrameSize(queue_[1]) <= kMaxBatchBytes
      <4>1. 1 \in 1..Len(queue_)
        BY <1>1
      <4>2. ~TooLarge(queue_[1])
        BY <4>1 DEF Limits
      <4>3. RecordLength[queue_[1]] \in Nat /\ kMaxRecordLength \in Nat
        BY <3>1, WalAssumption
      <4>4. QED
        BY <4>2, <4>3 DEF TooLarge, FrameSize, FramePrefix, kMaxBatchBytes
    <3>4. QED
      BY ZenonT(60), ZenonT(90), <3>1, <3>2, <3>3
  <2>2. CASE t # 1
    <3>1. QueueBytes(t) <= kMaxBatchBytes
      BY <1>1, <2>2 DEF Fits
    <3>2. QED
      BY <3>1, Zenon DEF QueueBytes, Bytes
  <2>3. QED
    BY <2>1, <2>2
<1>5. t \in 1..max_batch_
  BY <1>1, WalAssumption DEF Fits
<1>6. \A i \in 1..Len(queue_') : queue_'[i] = queue_[t + i] /\ t + i \in 1..Len(queue_)
  BY <1>1
<1>7. \A i \in 1..Len(queue_') : ~TooLarge(queue_'[i])
  BY <1>6 DEF Limits
<1>8. QED
  BY ZenonT(60), ZenonT(90), <1>2, <1>3, <1>4, <1>5, <1>7 DEF Limits, TooLarge

LEMMA EnqueueWithinLimits ==
  ASSUME TypeOK, Limits, NEW r \in Requests, Enqueue(r)
  PROVE  Limits'
<1>1. /\ queue_ \in Seq(Requests) /\ queue_' = Append(queue_, r) /\ ~TooLarge(r)
      /\ UNCHANGED <<wpc, batch>>
  BY DEF TypeOK, Enqueue, writerVars
<1>2. /\ Len(queue_) \in Nat /\ Len(queue_') = Len(queue_) + 1
      /\ \A i \in 1..Len(queue_) : queue_'[i] = queue_[i]
      /\ queue_'[Len(queue_) + 1] = r
  BY <1>1
<1>3. ASSUME NEW i \in 1..Len(queue_') PROVE ~TooLarge(queue_'[i])
  <2>1. i \in 1..Len(queue_) \/ i = Len(queue_) + 1
    BY <1>2
  <2>2. QED
    BY <1>1, <1>2, <2>1 DEF Limits
<1>4. QED
  BY <1>1, <1>3 DEF Limits, TooLarge

(* Every other step takes nothing into the batch that is to be written.    *)
TakesNothing ==
  /\ queue_' = queue_ \/ queue_' = <<>>
  /\ wpc' \in {"taken", "written"} => wpc \in {"taken", "written"} /\ batch' = batch

LEMMA OtherStepsTakeNothing ==
  ASSUME Next, ~WriterTakes, \A r \in Requests : ~Enqueue(r)
  PROVE  TakesNothing
<1>1. ASSUME NEW r \in Requests, Caller(r) PROVE TakesNothing
  BY <1>1
     DEF Caller, TakesNothing, Reject, Rethrow, InlineWrite, InlineWriteThrows,
         InlineSyncs,
     InlineSyncThrows, InlineReturn, Notify, WakeWriter, Return, writerVars
<1>2. CASE Writer
  BY <1>2
     DEF Writer, TakesNothing, WriterSleep, WriterStops, WriterDelays, WriterWrites,
     WriterWriteThrows, WriterSyncs, WriterSyncThrows, WriterCatches, WriterReports, WriterLoops
<1>3. QED
  BY <1>1, <1>2
     DEF Next, TakesNothing, SpuriousWakeup, Destroy, DestroyNotifies, Destroyed,
     WakeWriter, vars, writerVars

(* A batch stays within max_batch_ and kMaxBatchBytes, whatever the        *)
(* lengths of the records that wait.                                       *)
THEOREM BatchesBounded == Spec => []BatchBounded
<1>1. Init => Limits
  BY DEF Init, Limits, GroupCommit
<1>2. TypeOK /\ Limits /\ [Next]_vars => Limits'
  <2>1. SUFFICES ASSUME TypeOK, Limits, [Next]_vars PROVE Limits'
    OBVIOUS
  <2>2. TakesNothing => Limits'
    <3>1. ASSUME TakesNothing, wpc' \in {"taken", "written"}
          PROVE  Len(batch') \in 1..max_batch_ /\ Bytes({batch'[i] : i \in DOMAIN batch'}) <= kMaxBatchBytes
      BY ZenonT(60), ZenonT(90), <2>1, <3>1 DEF Limits, TakesNothing
    <3>2. ASSUME TakesNothing, NEW i \in 1..Len(queue_') PROVE ~TooLarge(queue_'[i])
      <4>1. queue_' # <<>>
        BY <3>2
      <4>2. queue_' = queue_
        BY <3>2, <4>1 DEF TakesNothing
      <4>3. QED
        BY <2>1, <3>2, <4>2 DEF Limits
    <3>3. QED
      BY <3>1, <3>2 DEF Limits, TooLarge
  <2>3. UNCHANGED vars => TakesNothing
    BY DEF vars, TakesNothing
  <2>4. QED
    BY <2>1, <2>2, <2>3, OtherStepsTakeNothing, WriterTakesWithinLimits,
       EnqueueWithinLimits
<1>3. Limits => BatchBounded
  BY Zenon DEF Limits, BatchBounded, Bytes
<1>4. QED
  BY <1>1, <1>2, <1>3, TypeCorrect, PTL DEF Spec

------------------------------------------------------------------------------
(* No request reaches the file twice.                                      *)

InFile(r) == \E i \in 1..Len(file) : file[i].req = r

(* No request has two frames, and a call that has a frame has begun.       *)
FileOnce ==
  /\ \A i, j \in 1..Len(file) : file[i].req = file[j].req => i = j
  /\ \A r \in Requests : InFile(r) => pc[r] # "idle"

(* A request in the queue or the batch is waited for and stands there once.*)
WaitingOnce ==
  /\ \A r \in Requests :
       Queued(r) \/ Batched(r) => pc[r] \in {"enqueued", "waiting"} /\ done[r] = "none"
  /\ \A r \in Requests : pc[r] = "idle" => done[r] = "none"
  /\ \A i, j \in 1..Len(queue_) : queue_[i] = queue_[j] => i = j
  /\ \A i, j \in 1..Len(batch) : batch[i] = batch[j] => i = j
  /\ \A r \in Requests : ~(Queued(r) /\ Batched(r))

(* What is still to be written is not in the file.                         *)
Unwritten ==
  \A r \in Requests : Queued(r) \/ (wpc = "taken" /\ Batched(r)) => ~InFile(r)

(* The holder of io_mutex_ is alone, and no error is recorded behind it.   *)
HoldsIo(r) == pc[r] \in {"written", "synced"}

InlineAlone ==
  \A r \in Requests : HoldsIo(r) => ~failure_ /\ \A q \in Requests : HoldsIo(q) => q = r

(* Replay ends somewhere.                                                  *)
ReplayEnds == \E n \in 0..Len(file) : EndsReplay(n)

Once == FileOnce /\ WaitingOnce /\ Unwritten /\ InlineAlone /\ ReplayEnds

------------------------------------------------------------------------------
(* Steps that leave the file, the queue and the batch alone.               *)

(* Such a step keeps Once if it moves no waiting request and if io_mutex_  *)
(* still has one holder.                                                   *)
LEMMA QuietKeeps ==
  ASSUME Once, UNCHANGED <<done, queue_, batch, header, file>>,
         wpc' = "taken" => wpc = "taken",
         \A q \in Requests : pc'[q] = "idle" => pc[q] = "idle",
         \A q \in Requests : Queued(q) \/ Batched(q) =>
           pc'[q] \in {"enqueued", "waiting"},
         InlineAlone'
  PROVE  Once'
<1>1. FileOnce'
  BY DEF Once, FileOnce, InFile
<1>2. WaitingOnce'
  BY DEF Once, WaitingOnce, Queued, Batched
<1>3. Unwritten'
  BY DEF Once, Unwritten, Queued, Batched, InFile
<1>4. ReplayEnds'
  BY DEF Once, ReplayEnds, EndsReplay, Replayable
<1> QED
  BY <1>1, <1>2, <1>3, <1>4 DEF Once

(* A caller that moves on to x.                                            *)
LEMMA CallerKeeps ==
  ASSUME IInv, Once, NEW r \in Requests, NEW x, pc' = [pc EXCEPT ![r] = x], x # "idle",
         Queued(r) \/ Batched(r) => x \in {"enqueued", "waiting"},
         UNCHANGED <<done, queue_, batch, header, file>>,
         wpc' = "taken" => wpc = "taken",
         InlineAlone'
  PROVE  Once'
<1>1. pc'[r] = x /\ \A q \in Requests \ {r} : pc'[q] = pc[q]
  BY DEF IInv, TypeOK
<1>2. \A q \in Requests : pc'[q] = "idle" => pc[q] = "idle"
  BY <1>1
<1>3. \A q \in Requests : Queued(q) \/ Batched(q) => pc'[q] \in {"enqueued", "waiting"}
  BY <1>1 DEF Once, WaitingOnce
<1> QED
  BY <1>2, <1>3, QuietKeeps

(* A caller that ends its call or does not hold io_mutex_ lets nobody in.  *)
LEMMA AloneKept ==
  ASSUME IInv, Once, NEW r \in Requests, NEW x, pc' = [pc EXCEPT ![r] = x],
         x \notin {"written", "synced"}, failure_' = failure_ \/ HoldsIo(r)
  PROVE  InlineAlone'
<1>1. pc'[r] = x /\ \A q \in Requests \ {r} : pc'[q] = pc[q]
  BY DEF IInv, TypeOK
<1>2. \A q \in Requests : HoldsIo(q)' => HoldsIo(q) /\ q # r
  BY <1>1 DEF HoldsIo
<1>3. InlineAlone
  BY DEF Once
<1> QED
  BY <1>2, <1>3 DEF InlineAlone

(* A request that does not wait is not in the queue or the batch.          *)
LEMMA NotWaiting ==
  ASSUME Once, NEW r \in Requests,
         pc[r] \notin {"enqueued", "waiting"} \/ done[r] # "none"
  PROVE  ~Queued(r) /\ ~Batched(r)
BY DEF Once, WaitingOnce

(* The steps of callers, except those that write or push.                  *)
LEMMA CallersKeepOnce ==
  ASSUME IInv, Once, NEW r \in Requests,
         \/ Reject(r) \/ Rethrow(r) \/ InlineSyncs(r) \/ InlineSyncThrows(r)
         \/ InlineReturn(r) \/ Notify(r) \/ Return(r)
  PROVE  Once'
<1>1. CASE Reject(r) \/ Rethrow(r)
  <2>1. /\ pc[r] = "idle" /\ pc' = [pc EXCEPT ![r] = "error"] /\ failure_' = failure_
        /\ UNCHANGED <<done, queue_, batch, header, file>> /\ wpc' = wpc
    BY <1>1 DEF Reject, Rethrow, writerVars, fileVars
  <2>2. ~Queued(r) /\ ~Batched(r)
    BY <2>1, NotWaiting
  <2>3. InlineAlone'
    BY ZenonT(60), ZenonT(90), <2>1, <2>2, AloneKept
  <2> QED
    BY ZenonT(60), ZenonT(90), <2>1, <2>2, <2>3, CallerKeeps
<1>2. CASE InlineSyncs(r)
  <2>1. /\ pc[r] = "written" /\ pc' = [pc EXCEPT ![r] = "synced"] /\ failure_' = failure_
        /\ UNCHANGED <<done, queue_, batch, header, file>> /\ wpc' = wpc
    BY <1>2 DEF InlineSyncs, writerVars
  <2>2. ~Queued(r) /\ ~Batched(r)
    BY <2>1, NotWaiting
  <2>3. InlineAlone'
    <3>1. \A q \in Requests : HoldsIo(q)' <=> HoldsIo(q)
      BY <2>1 DEF HoldsIo, IInv, TypeOK
    <3> QED
      BY <2>1, <3>1 DEF Once, InlineAlone
  <2> QED
    BY ZenonT(60), ZenonT(90), <2>1, <2>2, <2>3, CallerKeeps
<1>3. CASE InlineSyncThrows(r)
  <2>1. /\ pc[r] = "written" /\ pc' = [pc EXCEPT ![r] = "error"]
        /\ UNCHANGED <<done, queue_, batch, header, file>> /\ wpc' = wpc
    BY <1>3 DEF InlineSyncThrows, writerVars
  <2>2. ~Queued(r) /\ ~Batched(r) /\ HoldsIo(r)
    BY <2>1, NotWaiting DEF HoldsIo
  <2>3. InlineAlone'
    <3>1. "error" \notin {"written", "synced"}
      OBVIOUS
    <3> QED
      BY <2>1, <2>2, <3>1, AloneKept, Zenon
  <2> QED
    BY ZenonT(60), ZenonT(90), <2>1, <2>2, <2>3, CallerKeeps
<1>4. CASE InlineReturn(r)
  <2>1. /\ pc[r] \in {"written", "synced"} /\ pc' = [pc EXCEPT ![r] = "ok"]
        /\ failure_' = failure_
        /\ UNCHANGED <<done, queue_, batch, header, file>> /\ wpc' = wpc
    BY <1>4 DEF InlineReturn, writerVars, fileVars
  <2>2. ~Queued(r) /\ ~Batched(r)
    BY <2>1, NotWaiting
  <2>3. InlineAlone'
    <3>1. "ok" \notin {"written", "synced"}
      OBVIOUS
    <3> QED
      BY <2>1, <3>1, AloneKept, Zenon
  <2> QED
    BY ZenonT(60), ZenonT(90), <2>1, <2>2, <2>3, CallerKeeps
<1>5. CASE Notify(r)
  <2>1. /\ pc' = [pc EXCEPT ![r] = "waiting"] /\ failure_' = failure_
        /\ UNCHANGED <<done, queue_, batch, header, file>>
        /\ wpc' = "taken" => wpc = "taken"
    BY <1>5 DEF Notify, WakeWriter, fileVars
  <2>2. InlineAlone'
    BY ZenonT(60), ZenonT(90), <2>1, AloneKept
  <2> QED
    BY ZenonT(60), ZenonT(90), <2>1, <2>2, CallerKeeps
<1>6. CASE Return(r)
  <2>1. /\ done[r] \in {"ok", "error"} /\ pc' = [pc EXCEPT ![r] = done[r]]
        /\ failure_' = failure_
        /\ UNCHANGED <<done, queue_, batch, header, file>> /\ wpc' = wpc
    BY <1>6 DEF Return, writerVars, fileVars, IInv, TypeOK
  <2>2. ~Queued(r) /\ ~Batched(r)
    BY <2>1, NotWaiting
  <2>3. InlineAlone'
    BY ZenonT(60), ZenonT(90), <2>1, <2>2, AloneKept
  <2> QED
    BY ZenonT(60), ZenonT(90), <2>1, <2>2, <2>3, CallerKeeps
<1> QED
  BY <1>1, <1>2, <1>3, <1>4, <1>5, <1>6

(* The steps of the writer and the destructor that move nothing.           *)
LEMMA OthersKeepOnce ==
  ASSUME IInv, Once,
         \/ WriterSleep \/ WriterStops \/ WriterDelays \/ WriterSyncs \/ WriterSyncThrows
         \/ WriterLoops \/ SpuriousWakeup \/ Destroy \/ DestroyNotifies \/ UNCHANGED vars
  PROVE  Once'
<1>1. /\ UNCHANGED <<done, queue_, batch, header, file>>
      /\ pc' = pc /\ failure_' = failure_
      /\ wpc' = "taken" => wpc = "taken"
  BY ZenonT(60), ZenonT(90)
     DEF WriterSleep, WriterStops, WriterDelays, WriterSyncs, WriterSyncThrows,
         WriterLoops,
         SpuriousWakeup, Destroy, DestroyNotifies, WakeWriter, vars, fileVars, writerVars
<1>2. InlineAlone'
  BY <1>1 DEF Once, InlineAlone, HoldsIo
<1>3. \A q \in Requests : Queued(q) \/ Batched(q) => pc'[q] \in {"enqueued", "waiting"}
  BY ZenonT(60), ZenonT(90), <1>1 DEF Once, WaitingOnce
<1> QED
  BY <1>1, <1>2, <1>3, QuietKeeps

------------------------------------------------------------------------------
(* Steps that move requests into the queue, the batch and out of it.       *)

(* A step that leaves the file alone keeps what Once says of the file.     *)
LEMMA FileOnceKept ==
  ASSUME Once, UNCHANGED <<header, file>>,
         \A q \in Requests : pc'[q] = "idle" => pc[q] = "idle"
  PROVE  FileOnce' /\ ReplayEnds'
BY ZenonT(60), ZenonT(90) DEF Once, FileOnce, InFile, ReplayEnds, EndsReplay, Replayable

(* A call that begins is pushed behind the others.                         *)
LEMMA EnqueueKeepsOnce ==
  ASSUME IInv, Once, NEW r \in Requests, Enqueue(r)
  PROVE  Once'
<1>1. /\ pc[r] = "idle" /\ pc' = [pc EXCEPT ![r] = "enqueued"] /\ failure_' = failure_
      /\ UNCHANGED <<done, batch, header, file>> /\ wpc' = wpc /\ queue_' = Append(queue_, r)
  BY DEF Enqueue, writerVars, fileVars
<1>2. /\ pc'[r] = "enqueued" /\ \A q \in Requests \ {r} : pc'[q] = pc[q]
      /\ queue_ \in Seq(Requests) /\ Len(queue_) \in Nat
  BY <1>1 DEF IInv, TypeOK
<1>3. ~Queued(r) /\ ~Batched(r) /\ ~InFile(r)
  BY <1>1, NotWaiting DEF Once, FileOnce
<1>4. /\ Len(queue_') = Len(queue_) + 1
      /\ \A i \in 1..Len(queue_) : queue_'[i] = queue_[i]
      /\ queue_'[Len(queue_) + 1] = r
  BY <1>1, <1>2
<1>5. \A i \in 1..Len(queue_') : i \in 1..Len(queue_) \/ i = Len(queue_) + 1
  BY <1>2, <1>4
<1>6. \A q \in Requests : /\ Queued(q)' => Queued(q) \/ q = r
                          /\ Batched(q)' <=> Batched(q)
                          /\ InFile(q)' <=> InFile(q)
  BY <1>1, <1>4, <1>5 DEF Queued, Batched, InFile
<1>7. FileOnce' /\ ReplayEnds'
  BY <1>1, <1>2, FileOnceKept
<1>8. done[r] = "none"
  BY <1>1 DEF Once, WaitingOnce
<1>9. WaitingOnce'
  <2>1. ASSUME NEW q \in Requests, Queued(q)' \/ Batched(q)'
        PROVE  pc'[q] \in {"enqueued", "waiting"} /\ done'[q] = "none"
    BY <1>1, <1>2, <1>6, <1>8, <2>1 DEF Once, WaitingOnce
  <2>2. \A q \in Requests : pc'[q] = "idle" => done'[q] = "none"
    BY <1>1, <1>2, <1>8 DEF Once, WaitingOnce
  <2>3. ASSUME NEW i \in 1..Len(queue_'), NEW j \in 1..Len(queue_'), queue_'[i] = queue_'[j]
        PROVE  i = j
    <3>1. \A k \in 1..Len(queue_) : queue_[k] # r
      BY <1>3 DEF Queued
    <3>2. CASE i \in 1..Len(queue_) /\ j \in 1..Len(queue_)
      BY ZenonT(60), ZenonT(90), <1>4, <2>3, <3>2 DEF Once, WaitingOnce
    <3> QED
      BY <1>4, <1>5, <2>3, <3>1, <3>2
  <2>4. \A i, j \in 1..Len(batch') : batch'[i] = batch'[j] => i = j
    BY <1>1 DEF Once, WaitingOnce
  <2>5. \A q \in Requests : ~(Queued(q)' /\ Batched(q)')
    BY ZenonT(60), ZenonT(90), <1>3, <1>6 DEF Once, WaitingOnce
  <2> QED
    BY <2>1, <2>2, <2>3, <2>4, <2>5 DEF WaitingOnce
<1>10. Unwritten'
  BY <1>1, <1>3, <1>6 DEF Once, Unwritten
<1>11. InlineAlone'
  BY ZenonT(60), ZenonT(90), <1>1, AloneKept
<1> QED
  BY <1>7, <1>9, <1>10, <1>11 DEF Once

(* A batch is taken from the front of the queue.                           *)
LEMMA WriterTakesKeepsOnce ==
  ASSUME IInv, Once, WriterTakes
  PROVE  Once'
<1>1. PICK n \in 0..Len(queue_) :
        batch' = SubSeq(queue_, 1, n) /\ queue_' = SubSeq(queue_, n + 1, Len(queue_))
  BY ZenonT(60), ZenonT(90) DEF WriterTakes
<1>2. queue_ \in Seq(Requests) /\ Len(queue_) \in Nat /\ n \in 0..Len(queue_)
  BY DEF IInv, TypeOK
<1>3. UNCHANGED <<pc, done, failure_, header, file>>
  BY DEF WriterTakes, fileVars
<1>4. \A i \in 1..Len(queue_) : queue_[i] \in Requests
  BY <1>2
<1>5. Len(batch') = n /\ \A i \in 1..n : batch'[i] = queue_[i]
  BY <1>2, <1>1, <1>4
<1>6. /\ Len(queue_') = Len(queue_) - n
      /\ \A i \in 1..(Len(queue_) - n) : queue_'[i] = queue_[n + i]
  BY <1>2, <1>1, <1>4
<1>7. ASSUME NEW q \in Requests
      PROVE  /\ Batched(q)' => \E i \in 1..n : queue_[i] = q
             /\ Queued(q)' => \E i \in (n + 1)..Len(queue_) : queue_[i] = q
  <2>1. Batched(q)' => \E i \in 1..n : queue_[i] = q
    BY <1>5 DEF Batched
  <2>2. ASSUME Queued(q)'
        PROVE  \E i \in (n + 1)..Len(queue_) : queue_[i] = q
    <3>1. PICK i \in 1..Len(queue_') : queue_'[i] = q
      BY <2>2 DEF Queued
    <3>2. n + i \in (n + 1)..Len(queue_) /\ queue_[n + i] = q
      BY <1>2, <1>6, <3>1
    <3> QED
      BY <3>2
  <2> QED
    BY <2>1, <2>2
<1>8. \A i, j \in 1..Len(queue_) : queue_[i] = queue_[j] => i = j
  BY DEF Once, WaitingOnce
<1>9. \A q \in Requests : /\ Batched(q)' => Queued(q)
                          /\ Queued(q)' => Queued(q)
                          /\ ~(Queued(q)' /\ Batched(q)')
                          /\ InFile(q)' <=> InFile(q)
  <2>1. (\A i \in 1..n : i \in 1..Len(queue_)) /\ (\A i \in (n + 1)..Len(queue_) : i \in 1..Len(queue_))
    BY <1>2
  <2>2. \A i \in 1..n, j \in (n + 1)..Len(queue_) : i # j
    BY <1>2
  <2> QED
    BY <1>3, <1>7, <1>8, <2>1, <2>2 DEF Queued, InFile
<1>10. WaitingOnce'
  <2>1. \A i, j \in 1..Len(batch') : batch'[i] = batch'[j] => i = j
    BY <1>2, <1>5, <1>8
  <2>2. ASSUME NEW i \in 1..Len(queue_'), NEW j \in 1..Len(queue_'), queue_'[i] = queue_'[j]
        PROVE  i = j
    <3>1. n + i \in 1..Len(queue_) /\ n + j \in 1..Len(queue_) /\ queue_[n + i] = queue_[n + j]
      BY <1>2, <1>6, <2>2
    <3>2. n + i = n + j
      BY <1>8, <3>1
    <3> QED
      BY <1>2, <1>6, <3>2
  <2>3. \A q \in Requests : Queued(q)' \/ Batched(q)' =>
          pc'[q] \in {"enqueued", "waiting"} /\ done'[q] = "none"
    BY <1>3, <1>9 DEF Once, WaitingOnce
  <2>4. \A q \in Requests : pc'[q] = "idle" => done'[q] = "none"
    BY <1>3 DEF Once, WaitingOnce
  <2> QED
    BY <1>9, <2>1, <2>2, <2>3, <2>4 DEF WaitingOnce
<1>11. Unwritten'
  BY <1>9 DEF Once, Unwritten
<1>12. InlineAlone'
  BY <1>3 DEF Once, InlineAlone, HoldsIo
<1>13. FileOnce' /\ ReplayEnds'
  BY <1>3, FileOnceKept
<1> QED
  BY <1>10, <1>11, <1>12, <1>13 DEF Once

(* What is left in the queue joins a failed batch.                         *)
LEMMA WriterCatchesKeepsOnce ==
  ASSUME IInv, Once, WriterCatches
  PROVE  Once'
<1>1. /\ UNCHANGED <<pc, done, header, file>> /\ wpc = "failing" /\ wpc' = "report"
      /\ batch' = batch \o queue_ /\ queue_' = <<>>
  BY DEF WriterCatches, fileVars
<1>2. /\ batch \in Seq(Requests) /\ queue_ \in Seq(Requests)
      /\ Len(batch) \in Nat /\ Len(queue_) \in Nat
  BY DEF IInv, TypeOK
<1>3. /\ Len(batch') = Len(batch) + Len(queue_)
      /\ \A i \in 1..Len(batch') :
           batch'[i] = IF i <= Len(batch) THEN batch[i] ELSE queue_[i - Len(batch)]
  BY <1>1, <1>2
<1>4. \A i \in 1..Len(batch') :
        \/ i \in 1..Len(batch) /\ batch'[i] = batch[i]
        \/ i - Len(batch) \in 1..Len(queue_) /\ batch'[i] = queue_[i - Len(batch)]
  BY <1>2, <1>3
<1>5. \A q \in Requests : (Batched(q)' => Batched(q) \/ Queued(q)) /\ ~Queued(q)'
  BY <1>1, <1>4 DEF Batched, Queued
<1>6. /\ \A i, j \in 1..Len(queue_) : queue_[i] = queue_[j] => i = j
      /\ \A i, j \in 1..Len(batch) : batch[i] = batch[j] => i = j
      /\ \A i \in 1..Len(queue_), j \in 1..Len(batch) : queue_[i] # batch[j]
  <2>1. \A i \in 1..Len(queue_) : queue_[i] \in Requests
    BY <1>2
  <2> QED
    BY <2>1 DEF Once, WaitingOnce, Queued, Batched
<1>7. ASSUME NEW i \in 1..Len(batch'), NEW j \in 1..Len(batch'), batch'[i] = batch'[j]
      PROVE  i = j
  <2>1. CASE i \in 1..Len(batch) /\ batch'[i] = batch[i]
    <3>1. CASE j \in 1..Len(batch) /\ batch'[j] = batch[j]
      BY ZenonT(60), ZenonT(90), <1>6, <1>7, <2>1, <3>1
    <3>2. CASE j - Len(batch) \in 1..Len(queue_) /\ batch'[j] = queue_[j - Len(batch)]
      BY ZenonT(60), ZenonT(90), <1>6, <1>7, <2>1, <3>2
    <3> QED
      BY <1>4, <3>1, <3>2
  <2>2. CASE i - Len(batch) \in 1..Len(queue_) /\ batch'[i] = queue_[i - Len(batch)]
    <3>1. CASE j \in 1..Len(batch) /\ batch'[j] = batch[j]
      BY ZenonT(60), ZenonT(90), <1>6, <1>7, <2>2, <3>1
    <3>2. CASE j - Len(batch) \in 1..Len(queue_) /\ batch'[j] = queue_[j - Len(batch)]
      <4>1. i - Len(batch) = j - Len(batch)
        BY ZenonT(60), ZenonT(90), <1>6, <1>7, <2>2, <3>2
      <4> QED
        BY <1>2, <1>3, <4>1
    <3> QED
      BY <1>4, <3>1, <3>2
  <2> QED
    BY <1>4, <2>1, <2>2
<1>8. WaitingOnce'
  <2>1. \A i, j \in 1..Len(queue_') : queue_'[i] = queue_'[j] => i = j
    BY <1>1
  <2>2. \A q \in Requests : Queued(q)' \/ Batched(q)' =>
          pc'[q] \in {"enqueued", "waiting"} /\ done'[q] = "none"
    BY <1>1, <1>5 DEF Once, WaitingOnce
  <2>3. \A q \in Requests : pc'[q] = "idle" => done'[q] = "none"
    BY <1>1 DEF Once, WaitingOnce
  <2> QED
    BY <1>5, <1>7, <2>1, <2>2, <2>3 DEF WaitingOnce
<1>9. Unwritten'
  BY <1>1, <1>5 DEF Unwritten
<1>10. InlineAlone'
  <2>1. \A q \in Requests : ~HoldsIo(q)
    BY <1>1 DEF IInv, WriterSound, HoldsIo
  <2> QED
    BY <1>1, <2>1 DEF InlineAlone, HoldsIo
<1>11. FileOnce' /\ ReplayEnds'
  BY <1>1, FileOnceKept
<1> QED
  BY <1>8, <1>9, <1>10, <1>11 DEF Once

(* The first request of the batch is answered and leaves it.               *)
LEMMA WriterReportsKeepsOnce ==
  ASSUME IInv, Once, WriterReports
  PROVE  Once'
<1> DEFINE h == Head(batch)
           x == IF error THEN "error" ELSE "ok"
<1>1. /\ UNCHANGED <<pc, queue_, wpc, failure_, header, file>> /\ wpc = "report"
      /\ batch # <<>> /\ batch' = Tail(batch) /\ done' = [done EXCEPT ![h] = x]
  BY DEF WriterReports, fileVars
<1>2. batch \in Seq(Requests) /\ Len(batch) \in Nat \ {0} /\ h = batch[1] /\ h \in Requests
  BY <1>1 DEF IInv, TypeOK
<1>3. /\ Len(batch') = Len(batch) - 1
      /\ \A i \in 1..Len(batch') : batch'[i] = batch[i + 1]
  BY <1>1, <1>2
<1>4. \A i \in 1..Len(batch') : i + 1 \in 1..Len(batch) /\ i + 1 # 1
  BY <1>2, <1>3
<1>5. \A i, j \in 1..Len(batch) : batch[i] = batch[j] => i = j
  BY DEF Once, WaitingOnce
<1>6. Batched(h) /\ ~Queued(h)
  BY <1>2 DEF Batched, Once, WaitingOnce
<1>7. 1 \in 1..Len(batch)
  BY <1>2
<1>8. \A q \in Requests : /\ Batched(q)' => Batched(q) /\ q # h
                          /\ Queued(q)' <=> Queued(q)
  <2>1. ASSUME NEW q \in Requests, Batched(q)'
        PROVE  Batched(q) /\ q # h
    <3>1. PICK i \in 1..Len(batch') : batch'[i] = q
      BY <2>1 DEF Batched
    <3> QED
      BY <1>2, <1>3, <1>4, <1>5, <1>7, <3>1 DEF Batched
  <2> QED
    BY <1>1, <2>1 DEF Queued
<1>9. \A q \in Requests \ {h} : done'[q] = done[q]
  BY <1>1, <1>2 DEF IInv, TypeOK
<1>10. WaitingOnce'
  <2>1. \A q \in Requests : Queued(q)' \/ Batched(q)' =>
          pc'[q] \in {"enqueued", "waiting"} /\ done'[q] = "none"
    BY <1>1, <1>6, <1>8, <1>9 DEF Once, WaitingOnce
  <2>2. \A q \in Requests : pc'[q] = "idle" => done'[q] = "none"
    BY <1>1, <1>2, <1>6, <1>9 DEF Once, WaitingOnce
  <2>3. ASSUME NEW i \in 1..Len(batch'), NEW j \in 1..Len(batch'), batch'[i] = batch'[j]
        PROVE  i = j
    <3>1. i + 1 = j + 1
      BY <1>3, <1>4, <1>5, <2>3
    <3> QED
      BY <1>2, <1>3, <3>1
  <2>4. \A i, j \in 1..Len(queue_') : queue_'[i] = queue_'[j] => i = j
    BY <1>1 DEF Once, WaitingOnce
  <2>5. \A q \in Requests : ~(Queued(q)' /\ Batched(q)')
    BY <1>8 DEF Once, WaitingOnce
  <2> QED
    BY <2>1, <2>2, <2>3, <2>4, <2>5 DEF WaitingOnce
<1>11. Unwritten'
  BY <1>1, <1>8 DEF Once, Unwritten, InFile
<1>12. InlineAlone'
  BY <1>1 DEF Once, InlineAlone, HoldsIo
<1>13. FileOnce' /\ ReplayEnds'
  BY <1>1, FileOnceKept
<1> QED
  BY <1>10, <1>11, <1>12, <1>13 DEF Once

------------------------------------------------------------------------------
(* Steps that write.                                                       *)

(* A frame that was being written when the write failed is not whole.      *)
LEMMA TornFrame ==
  ASSUME TypeOK, NEW rs \in Seq(Requests), NEW w \in 0..Len(rs), w + 1 \in 0..Len(rs)
  PROVE  ~(file \o Numbered(rs, w + 1, w))[Len(file) + (w + 1)].whole
<1> DEFINE g == Numbered(rs, w + 1, w)
           f == file \o g
<1>1. w \in Nat /\ Len(file) \in Nat /\ next_sequence_ \in Nat /\ next_sequence_ >= 1
      /\ file \in Seq(Frames)
  <2>1. next_sequence_ \in 1..MaxSequence /\ file \in Seq(Frames)
    BY ZenonT(60), ZenonT(90) DEF TypeOK
  <2>2. MaxSequence \in Nat
    BY WalAssumption
  <2> QED
    BY <2>1, <2>2
<1>2. \A i \in 1..(w + 1) : rs[i] \in Requests
  BY <1>1
<1>3. \A i \in 1..(w + 1) : Frame(rs[i], next_sequence_ + i - 1, i <= w) \in Frames
  BY <1>1, <1>2 DEF Frame, Frames
<1>4. g \in Seq(Frames) /\ Len(g) = w + 1
  BY <1>1, <1>3 DEF Numbered
<1>5. ~g[w + 1].whole
  <2>1. w + 1 \in 1..(w + 1) /\ ~(w + 1 <= w)
    BY <1>1
  <2>2. g[w + 1].whole = (w + 1 <= w)
    BY <2>1 DEF Numbered, Frame
  <2> QED
    BY ZenonT(60), ZenonT(90), <2>1, <2>2
<1> HIDE DEF g
<1>6. f[Len(file) + (w + 1)] = g[w + 1]
  BY <1>1, <1>4
<1> QED
  BY ZenonT(60), ZenonT(90), <1>5, <1>6 DEF f, g

(* What a write, complete or not, leaves behind a sound file: the frames   *)
(* that were there, then frames of the batch, and replay gets at least to  *)
(* the end of the old file.                                                *)
LEMMA WriteResult ==
  ASSUME IInv, ~Broken, NEW rs \in Seq(Requests),
         WriteFrames(rs) \/ WriteFramesThrows(rs)
  PROVE  /\ Len(file') \in Len(file)..(Len(file) + Len(rs))
         /\ \A i \in 1..Len(file) : file'[i] = file[i]
         /\ \A i \in 1..(Len(file') - Len(file)) : file'[Len(file) + i].req = rs[i]
         /\ \E n \in Len(file)..Len(file') : EndsReplay(n)'
<1>1. /\ file \in Seq(Frames) /\ Len(file) \in Nat /\ Len(rs) \in Nat
      /\ next_sequence_ = Len(file) + 1
      /\ header # "partial" /\ header \in {"none", "partial", "valid"}
      /\ Len(file) > 0 => header = "valid"
      /\ \A i \in 1..Len(file) : file[i].whole /\ file[i].seq = i
      /\ TypeOK
  BY DEF IInv, TypeOK, FileSound
<1>2. CASE UNCHANGED file /\ (header = "valid" => header' = "valid")
  <2>1. EndsReplay(Len(file))'
    BY <1>1, <1>2 DEF EndsReplay, Replayable
  <2> QED
    BY <1>1, <1>2, <2>1
<1>3. ASSUME header' = EnsuredHeader, NEW w \in 0..Len(rs), NEW m \in 0..Len(rs),
             m = w \/ m = w + 1, file' = file \o Numbered(rs, m, w)
      PROVE  /\ Len(file') \in Len(file)..(Len(file) + Len(rs))
             /\ \A i \in 1..Len(file) : file'[i] = file[i]
             /\ \A i \in 1..(Len(file') - Len(file)) : file'[Len(file) + i].req = rs[i]
             /\ \E n \in Len(file)..Len(file') : EndsReplay(n)'
  <2>1. /\ Len(file') = Len(file) + m
        /\ \A i \in 1..Len(file) : file'[i] = file[i]
        /\ \A i \in 1..m : /\ file'[Len(file) + i].req = rs[i]
                          /\ file'[Len(file) + i].seq = next_sequence_ + i - 1
        /\ \A i \in 1..m : i <= w => file'[Len(file) + i].whole
    <3> DEFINE f == file \o Numbered(rs, m, w)
    <3>1. file' = f
      BY <1>3
    <3>2. /\ Len(f) = Len(file) + m
          /\ \A i \in 1..Len(file) : f[i] = file[i]
          /\ \A i \in 1..m : /\ f[Len(file) + i].req = rs[i]
                            /\ f[Len(file) + i].seq = next_sequence_ + i - 1
          /\ \A i \in 1..m : i <= w => f[Len(file) + i].whole
      BY <1>1, AppendedFrames, Zenon
    <3> HIDE DEF f
    <3> QED
      BY <3>1, <3>2
  <2>2. header' = "valid"
    BY <1>1, <1>3 DEF EnsuredHeader
  <2>3. m = w + 1 => ~file'[Len(file) + (w + 1)].whole
    BY ZenonT(60), ZenonT(90), <1>1, <1>3, TornFrame
  <2>4. PICK n \in Nat : n = Len(file) + w /\ n \in Len(file)..Len(file')
    <3>1. Len(file) + w \in Nat /\ Len(file) + w \in Len(file)..Len(file')
      BY <1>1, <1>3, <2>1
    <3> QED
      BY <3>1
  <2>5. ASSUME NEW i \in 1..n
        PROVE  file'[i].whole /\ file'[i].seq = i
    <3>1. CASE i <= Len(file)
      <4>1. i \in 1..Len(file)
        BY <1>1, <2>4, <3>1
      <4> QED
        BY <1>1, <2>1, <4>1
    <3>2. CASE i > Len(file)
      <4>1. i - Len(file) \in 1..m /\ i - Len(file) <= w /\ Len(file) + (i - Len(file)) = i
        BY <1>1, <1>3, <2>4, <3>2
      <4>2. /\ file'[Len(file) + (i - Len(file))].whole
            /\ file'[Len(file) + (i - Len(file))].seq = next_sequence_ + (i - Len(file)) - 1
        BY ZenonT(60), ZenonT(90), <2>1, <4>1
      <4> QED
        BY <1>1, <4>1, <4>2
    <3> QED
      BY <1>1, <2>4, <3>1, <3>2
  <2>6. EndsReplay(n)'
    <3>1. Replayable(n)'
      BY <2>2, <2>5 DEF Replayable
    <3>2. ASSUME n < Len(file')
          PROVE  ~Replayable(n + 1)'
      <4>1. m = w + 1
        BY <1>1, <1>3, <2>1, <2>4, <3>2
      <4>2. n + 1 \in 1..(n + 1) /\ n + 1 = Len(file) + (w + 1)
        BY <1>1, <1>3, <2>4
      <4>3. ~file'[n + 1].whole
        BY <2>3, <4>1, <4>2
      <4> QED
        BY <4>2, <4>3 DEF Replayable
    <3> QED
      BY <3>1, <3>2 DEF EndsReplay
  <2>7. Len(file') \in Len(file)..(Len(file) + Len(rs)) /\ Len(file') - Len(file) = m
    BY <1>1, <1>3, <2>1
  <2> QED
    BY <2>1, <2>4, <2>6, <2>7
<1>4. CASE WriteFrames(rs)
  <2>1. Len(rs) \in 0..Len(rs)
    BY <1>1
  <2> QED
    BY ZenonT(60), ZenonT(90), <1>3, <1>4, <2>1 DEF WriteFrames
<1>5. CASE WriteFramesThrows(rs)
  <2>1. CASE /\ header # "valid"
             /\ header' \in {header, "partial", "valid"}
             /\ UNCHANGED <<file, next_sequence_>>
    BY <1>2, <2>1
  <2>2. CASE /\ SequenceExhausted(rs)
             /\ header' = EnsuredHeader
             /\ next_sequence_' = MaxSequence
             /\ UNCHANGED file
    BY <1>2, <2>2 DEF EnsuredHeader
  <2>3. CASE /\ ~SequenceExhausted(rs)
             /\ header' = EnsuredHeader
             /\ next_sequence_' = next_sequence_ + Len(rs)
             /\ \E w \in 0..Len(rs) : \E m \in {w, w + 1} \cap 0..Len(rs) :
                  file' = file \o Numbered(rs, m, w)
    <3>1. PICK w \in 0..Len(rs), m \in 0..Len(rs) :
            (m = w \/ m = w + 1) /\ file' = file \o Numbered(rs, m, w)
      BY ZenonT(60), ZenonT(90), <2>3
    <3> QED
      BY ZenonT(60), ZenonT(90), <1>3, <2>3, <3>1
  <2> QED
    BY ZenonT(60), ZenonT(90), <1>5, <2>1, <2>2, <2>3 DEF WriteFramesThrows
<1> QED
  BY ZenonT(60), ZenonT(90), <1>4, <1>5

(* Writing requests that differ and are not in the file yet.               *)
LEMMA WriteKeepsFileOnce ==
  ASSUME IInv, Once, ~Broken, NEW rs \in Seq(Requests),
         WriteFrames(rs) \/ WriteFramesThrows(rs),
         \A i, j \in 1..Len(rs) : rs[i] = rs[j] => i = j,
         \A i \in 1..Len(rs) : ~InFile(rs[i]) /\ pc'[rs[i]] # "idle",
         \A q \in Requests : pc'[q] = "idle" => pc[q] = "idle"
  PROVE  /\ FileOnce' /\ ReplayEnds'
         /\ \A q \in Requests : InFile(q)' => InFile(q) \/ \E i \in 1..Len(rs) : rs[i] = q
<1>1. /\ Len(file') \in Len(file)..(Len(file) + Len(rs))
      /\ \A i \in 1..Len(file) : file'[i] = file[i]
      /\ \A i \in 1..(Len(file') - Len(file)) : file'[Len(file) + i].req = rs[i]
      /\ \E n \in Len(file)..Len(file') : EndsReplay(n)'
  BY WriteResult
<1>2. Len(file) \in Nat /\ Len(rs) \in Nat
  BY DEF IInv, TypeOK
<1>3. ASSUME NEW i \in 1..Len(file')
      PROVE  \/ i \in 1..Len(file) /\ file'[i].req = file[i].req
             \/ i - Len(file) \in 1..Len(rs) /\ file'[i].req = rs[i - Len(file)]
  <2>1. CASE i \in 1..Len(file)
    BY <1>1, <2>1
  <2>2. CASE i \notin 1..Len(file)
    <3>1. /\ i - Len(file) \in 1..(Len(file') - Len(file)) /\ i - Len(file) \in 1..Len(rs)
          /\ Len(file) + (i - Len(file)) = i
      BY <1>1, <1>2, <2>2
    <3>2. file'[Len(file) + (i - Len(file))].req = rs[i - Len(file)]
      BY <1>1, <3>1
    <3> QED
      BY <3>1, <3>2
  <2> QED
    BY <2>1, <2>2
<1>4. \A q \in Requests : InFile(q)' => InFile(q) \/ \E i \in 1..Len(rs) : rs[i] = q
  BY <1>3 DEF InFile
<1>5. ASSUME NEW i \in 1..Len(file'), NEW j \in 1..Len(file'), file'[i].req = file'[j].req
      PROVE  i = j
  <2>1. \A k \in 1..Len(file), l \in 1..Len(rs) : file[k].req # rs[l]
    BY DEF InFile
  <2>2. CASE i \in 1..Len(file) /\ file'[i].req = file[i].req
    <3>1. CASE j \in 1..Len(file) /\ file'[j].req = file[j].req
      BY ZenonT(60), ZenonT(90), <1>5, <2>2, <3>1 DEF Once, FileOnce
    <3>2. CASE j - Len(file) \in 1..Len(rs) /\ file'[j].req = rs[j - Len(file)]
      BY ZenonT(60), ZenonT(90), <1>5, <2>1, <2>2, <3>2
    <3> QED
      BY <1>3, <3>1, <3>2
  <2>3. CASE i - Len(file) \in 1..Len(rs) /\ file'[i].req = rs[i - Len(file)]
    <3>1. CASE j \in 1..Len(file) /\ file'[j].req = file[j].req
      BY ZenonT(60), ZenonT(90), <1>5, <2>1, <2>3, <3>1
    <3>2. CASE j - Len(file) \in 1..Len(rs) /\ file'[j].req = rs[j - Len(file)]
      <4>1. i - Len(file) = j - Len(file)
        BY ZenonT(60), ZenonT(90), <1>5, <2>3, <3>2
      <4> QED
        BY <1>1, <1>2, <4>1
    <3> QED
      BY <1>3, <3>1, <3>2
  <2> QED
    BY <1>3, <2>2, <2>3
<1>6. FileOnce'
  <2>1. \A q \in Requests : InFile(q)' => pc'[q] # "idle"
    BY <1>4 DEF Once, FileOnce
  <2> QED
    BY <1>5, <2>1 DEF FileOnce
<1>7. ReplayEnds'
  <2>1. PICK n \in Len(file)..Len(file') : EndsReplay(n)'
    BY <1>1
  <2>2. n \in 0..Len(file')
    BY <1>1, <1>2
  <2> QED
    BY <2>1, <2>2 DEF ReplayEnds
<1> QED
  BY <1>4, <1>6, <1>7

(* A caller writes its own frame, under io_mutex_.                         *)
LEMMA InlineWritesKeepOnce ==
  ASSUME IInv, Once, NEW r \in Requests, InlineWrite(r) \/ InlineWriteThrows(r)
  PROVE  Once'
<1>1. /\ pc[r] = "idle" /\ ~GroupCommit /\ ~failure_ /\ IoMutexFree
      /\ WriteFrames(<<r>>) \/ WriteFramesThrows(<<r>>)
      /\ UNCHANGED <<done, queue_, batch, wpc>>
      /\ \/ pc' = [pc EXCEPT ![r] = "written"] /\ failure_' = failure_
         \/ pc' = [pc EXCEPT ![r] = "error"]
  BY DEF InlineWrite, InlineWriteThrows, InlineEnter, AppendAllowed, writerVars
<1>2. pc'[r] \in {"written", "error"} /\ \A q \in Requests \ {r} : pc'[q] = pc[q]
  BY <1>1 DEF IInv, TypeOK
<1>3. ~Broken
  BY <1>1 DEF Broken, IInv, WriterSound
<1>4. ~Queued(r) /\ ~Batched(r) /\ ~InFile(r)
  BY <1>1, NotWaiting DEF Once, FileOnce
<1>5. /\ FileOnce' /\ ReplayEnds'
      /\ \A q \in Requests : InFile(q)' => InFile(q) \/ q = r
  <2>1. <<r>> \in Seq(Requests) /\ Len(<<r>>) = 1 /\ <<r>>[1] = r
    OBVIOUS
  <2>2. \A i \in 1..Len(<<r>>) : i = 1
    BY <2>1
  <2>3. \A q \in Requests : pc'[q] = "idle" => pc[q] = "idle"
    BY <1>2
  <2>4. /\ \A i, j \in 1..Len(<<r>>) : <<r>>[i] = <<r>>[j] => i = j
        /\ \A i \in 1..Len(<<r>>) : ~InFile(<<r>>[i]) /\ pc'[<<r>>[i]] # "idle"
    BY <1>2, <1>4, <2>1, <2>2
  <2>5. /\ FileOnce' /\ ReplayEnds'
        /\ \A q \in Requests :
             InFile(q)' => InFile(q) \/ \E i \in 1..Len(<<r>>) : <<r>>[i] = q
    <3> DEFINE rs == <<r>>
    <3>1. rs \in Seq(Requests) /\ (WriteFrames(rs) \/ WriteFramesThrows(rs))
      BY <1>1, <2>1
    <3>2. /\ \A i, j \in 1..Len(rs) : rs[i] = rs[j] => i = j
          /\ \A i \in 1..Len(rs) : ~InFile(rs[i]) /\ pc'[rs[i]] # "idle"
      BY <2>4
    <3> HIDE DEF rs
    <3>3. /\ FileOnce' /\ ReplayEnds'
          /\ \A q \in Requests : InFile(q)' => InFile(q) \/ \E i \in 1..Len(rs) : rs[i] = q
      BY ZenonT(60), ZenonT(90), <1>3, <2>3, <3>1, <3>2, WriteKeepsFileOnce
    <3> QED
      BY <3>3 DEF rs
  <2> QED
    BY <2>1, <2>2, <2>5
<1>6. \A q \in Requests : (Queued(q)' <=> Queued(q)) /\ (Batched(q)' <=> Batched(q))
  BY <1>1 DEF Queued, Batched
<1>7. WaitingOnce'
  <2>1. \A q \in Requests : Queued(q)' \/ Batched(q)' =>
          pc'[q] \in {"enqueued", "waiting"} /\ done'[q] = "none"
    BY <1>1, <1>2, <1>4, <1>6 DEF Once, WaitingOnce
  <2>2. \A q \in Requests : pc'[q] = "idle" => done'[q] = "none"
    BY <1>1, <1>2 DEF Once, WaitingOnce
  <2>3. /\ \A i, j \in 1..Len(queue_') : queue_'[i] = queue_'[j] => i = j
        /\ \A i, j \in 1..Len(batch') : batch'[i] = batch'[j] => i = j
    BY <1>1 DEF Once, WaitingOnce
  <2>4. \A q \in Requests : ~(Queued(q)' /\ Batched(q)')
    BY <1>6 DEF Once, WaitingOnce
  <2> QED
    BY <2>1, <2>2, <2>3, <2>4 DEF WaitingOnce
<1>8. Unwritten'
  BY <1>1, <1>4, <1>5, <1>6 DEF Once, Unwritten
<1>9. InlineAlone'
  <2>1. \A q \in Requests \ {r} : ~HoldsIo(q)'
    BY <1>1, <1>2 DEF HoldsIo, IoMutexFree
  <2>2. HoldsIo(r)' => ~failure_'
    BY <1>1 DEF HoldsIo, IInv, TypeOK
  <2> QED
    BY <2>1, <2>2 DEF InlineAlone
<1> QED
  BY <1>5, <1>7, <1>8, <1>9 DEF Once

(* The writer writes its batch.                                            *)
LEMMA WriterWritesKeepOnce ==
  ASSUME IInv, Once, WriterWrites \/ WriterWriteThrows
  PROVE  Once'
<1>1. /\ wpc = "taken" /\ wpc' \in {"written", "failing"}
      /\ WriteFrames(batch) \/ WriteFramesThrows(batch)
      /\ UNCHANGED <<pc, done, queue_, batch, failure_>>
  BY DEF WriterWrites, WriterWriteThrows
<1>2. GroupCommit /\ ~Broken
  BY <1>1 DEF Broken, IInv, WriterSound
<1>3. batch \in Seq(Requests)
  BY DEF IInv, TypeOK
<1>4. \A i \in 1..Len(batch) : batch[i] \in Requests /\ Batched(batch[i])
  BY <1>3 DEF Batched
<1>5. \A i \in 1..Len(batch) : ~InFile(batch[i]) /\ pc'[batch[i]] # "idle"
  BY <1>1, <1>4 DEF Once, Unwritten, WaitingOnce
<1>6. /\ FileOnce' /\ ReplayEnds'
      /\ \A q \in Requests : InFile(q)' => InFile(q) \/ Batched(q)
  <2>1. \A i, j \in 1..Len(batch) : batch[i] = batch[j] => i = j
    BY DEF Once, WaitingOnce
  <2>2. \A q \in Requests : pc'[q] = "idle" => pc[q] = "idle"
    BY <1>1
  <2> QED
    BY ZenonT(60), ZenonT(90), <1>1, <1>2, <1>3, <1>5, <2>1, <2>2, WriteKeepsFileOnce DEF Batched
<1>7. WaitingOnce'
  BY <1>1 DEF Once, WaitingOnce, Queued, Batched
<1>8. Unwritten'
  <2>1. \A q \in Requests : Queued(q)' <=> Queued(q)
    BY <1>1 DEF Queued
  <2> QED
    BY ZenonT(60), ZenonT(90), <1>1, <1>6, <2>1 DEF Once, Unwritten, WaitingOnce
<1>9. InlineAlone'
  <2>1. \A q \in Requests : ~HoldsIo(q)'
    BY <1>1, <1>2 DEF IInv, WriterSound, HoldsIo
  <2> QED
    BY <2>1 DEF InlineAlone
<1> QED
  BY <1>6, <1>7, <1>8, <1>9 DEF Once

(* No request is ever written twice.                                       *)
LEMMA OnceHolds ==
  /\ Init => Once
  /\ IInv /\ Once /\ [Next]_vars => Once'
<1>1. Init => Once
  <2> SUFFICES ASSUME Init PROVE Once
    OBVIOUS
  <2>1. /\ Len(file) = 0 /\ Len(queue_) = 0 /\ Len(batch) = 0 /\ header = "none"
        /\ pc = [r \in Requests |-> "idle"] /\ done = [r \in Requests |-> "none"]
    BY DEF Init
  <2>2. \A r \in Requests : ~Queued(r) /\ ~Batched(r) /\ ~InFile(r) /\ ~HoldsIo(r)
    BY <2>1 DEF Queued, Batched, InFile, HoldsIo
  <2>3. FileOnce /\ WaitingOnce /\ Unwritten /\ InlineAlone
    BY <2>1, <2>2 DEF FileOnce, WaitingOnce, Unwritten, InlineAlone
  <2>4. ReplayEnds
    BY <2>1 DEF ReplayEnds, EndsReplay
  <2> QED
    BY <2>3, <2>4 DEF Once
<1>2. IInv /\ Once /\ [Next]_vars => Once'
  <2> SUFFICES ASSUME IInv, Once, [Next]_vars PROVE Once'
    OBVIOUS
  <2>1. ASSUME NEW r \in Requests, Caller(r) PROVE Once'
    BY <2>1, CallersKeepOnce, EnqueueKeepsOnce, InlineWritesKeepOnce DEF Caller
  <2>2. CASE Writer
    BY <2>2, OthersKeepOnce, WriterTakesKeepsOnce, WriterCatchesKeepsOnce,
       WriterReportsKeepsOnce, WriterWritesKeepOnce DEF Writer
  <2>3. CASE SpuriousWakeup \/ Destroy \/ DestroyNotifies \/ Destroyed \/ UNCHANGED vars
    BY <2>3, OthersKeepOnce DEF Destroyed
  <2> QED
    BY <2>1, <2>2, <2>3 DEF Next
<1> QED
  BY <1>1, <1>2

------------------------------------------------------------------------------
(* What a replay of the file returns.                                      *)

(* The replayed part of the file: the requests of its frames, in order, up *)
(* to the last position replay reaches; until an error that is the end.    *)
Shape ==
  /\ ReplayedLength \in 0..Len(file)
  /\ ReplayedLog \in Seq(Requests)
  /\ Len(ReplayedLog) = ReplayedLength
  /\ \A i \in 1..ReplayedLength : ReplayedLog[i] = file[i].req
  /\ \A n \in 1..Len(file) : Replayable(n) <=> n <= ReplayedLength
  /\ ~Broken => ReplayedLength = Len(file)

(* The invariants give the replayed log that shape.                        *)
LEMMA ReplayedShape == IInv /\ Once => Shape
<1> SUFFICES ASSUME IInv, Once PROVE Shape
  OBVIOUS
<1>1. Len(file) \in Nat /\ file \in Seq(Frames)
  BY DEF IInv, TypeOK
<1>2. PICK n \in 0..Len(file) : n = ReplayedLength /\ EndsReplay(n)
  BY DEF Once, ReplayEnds, ReplayedLength
<1>3. \A i \in 1..n : i \in 1..Len(file) /\ file[i].req \in Requests
  <2>1. \A i \in 1..n : i \in 1..Len(file)
    BY <1>1
  <2>2. \A i \in 1..Len(file) : file[i] \in Frames
    BY <1>1
  <2> QED
    BY <2>1, <2>2 DEF Frames
<1>4. ReplayedLog = [i \in 1..n |-> file[i].req]
  BY <1>2 DEF ReplayedLog
<1>5. ReplayedLog \in Seq(Requests) /\ Len(ReplayedLog) = n
  BY <1>1, <1>3, <1>4
<1>6. ASSUME NEW i \in 1..Len(file)
      PROVE  Replayable(i) <=> i <= n
  <2>1. CASE i <= n
    <3>1. Replayable(n) /\ \A j \in 1..i : j \in 1..n
      BY <1>1, <1>2, <2>1 DEF EndsReplay
    <3> QED
      BY <2>1, <3>1 DEF Replayable
  <2>2. CASE ~(i <= n)
    <3>1. n < Len(file) /\ \A j \in 1..(n + 1) : j \in 1..i
      BY <1>1, <2>2
    <3>2. ~Replayable(n + 1)
      BY <1>2, <3>1 DEF EndsReplay
    <3> QED
      BY <2>2, <3>1, <3>2 DEF Replayable
  <2> QED
    BY <2>1, <2>2
<1>7. ASSUME ~Broken
      PROVE  n = Len(file)
  <2>1. CASE n < Len(file)
    <3>1. n + 1 \in 1..Len(file) /\ ~(n + 1 <= n) /\ Len(file) > 0
          /\ \A j \in 1..(n + 1) : j \in 1..Len(file)
      BY <1>1, <2>1
    <3>2. Replayable(n + 1)
      BY <1>7, <3>1 DEF IInv, FileSound, Replayable
    <3> QED
      BY <1>6, <3>1, <3>2
  <2> QED
    BY <1>1, <2>1
<1> QED
  BY <1>2, <1>4, <1>5, <1>6, <1>7 DEF Shape

(* A step that leaves the file alone leaves what is replayed alone.        *)
LEMMA LogKept ==
  ASSUME IInv, Shape, Shape', UNCHANGED <<header, file>>
  PROVE  ReplayedLength' = ReplayedLength /\ ReplayedLog' = ReplayedLog
<1>1. Len(file) \in Nat
  BY DEF IInv, TypeOK
<1>2. /\ ReplayedLength \in 0..Len(file) /\ ReplayedLength' \in 0..Len(file)
      /\ \A n \in 1..Len(file) : Replayable(n) <=> n <= ReplayedLength
      /\ \A n \in 1..Len(file) : Replayable(n)' <=> n <= ReplayedLength'
  BY DEF Shape
<1>3. \A n \in 1..Len(file) : Replayable(n)' <=> Replayable(n)
  BY DEF Replayable
<1>4. ReplayedLength' = ReplayedLength
  BY <1>1, <1>2, <1>3
<1> QED
  BY <1>4 DEF ReplayedLog

(* With it goes the durable part, if nothing is synced.                    *)
LEMMA DurableKept ==
  ASSUME IInv, Shape, Shape', UNCHANGED <<header, file, synced>>
  PROVE  UNCHANGED <<ReplayedLog, DurableLength>>
BY LogKept DEF DurableLength

(* A call that returns is one more outcome.                                *)
LEMMA OutcomeSet ==
  ASSUME IInv, NEW r \in Requests, NEW x \in {"ok", "error"},
         pc' = [pc EXCEPT ![r] = x], pc[r] \notin {"ok", "error"}
  PROVE  Outcome[r] = "none" /\ Outcome' = [Outcome EXCEPT ![r] = x]
<1>1. pc'[r] = x /\ \A q \in Requests \ {r} : pc'[q] = pc[q]
  BY DEF IInv, TypeOK
<1> QED
  BY ZenonT(60), ZenonT(90), <1>1 DEF Outcome

(* A step inside calls is none.                                            *)
LEMMA OutcomeKept ==
  ASSUME \A q \in Requests :
           pc'[q] = pc[q] \/ (pc[q] \notin {"ok", "error"} /\ pc'[q] \notin {"ok", "error"})
  PROVE  Outcome' = Outcome
BY DEF Outcome

------------------------------------------------------------------------------
(* Every step is a step of CommitLog or leaves its variables alone.        *)

(* A request whose frame is in the file is in the part of the log that an  *)
(* acknowledgement promises.                                               *)
LEMMA SafeInLog ==
  ASSUME IInv, Shape, NEW r \in Requests, Safe(r)
  PROVE  \E i \in 1..(IF policy_ # "Buffered" THEN DurableLength ELSE Len(ReplayedLog)) :
           ReplayedLog[i] = r
<1>1. /\ Len(file) \in Nat /\ synced \in 0..Len(file)
      /\ ReplayedLength \in 0..Len(file) /\ Len(ReplayedLog) = ReplayedLength
  BY DEF IInv, TypeOK, Shape
<1>2. PICK i \in 1..Covered : file[i].req = r /\ Replayable(i)
  BY DEF Safe
<1>3. i \in 1..Len(file) /\ (policy_ # "Buffered" => i <= synced)
  BY <1>1 DEF Covered
<1>4. i <= ReplayedLength
  BY <1>2, <1>3 DEF Shape
<1>5. i \in 1..ReplayedLength /\ ReplayedLog[i] = r
  BY <1>1, <1>2, <1>3, <1>4 DEF Shape
<1>6. policy_ # "Buffered" => i \in 1..DurableLength
  BY <1>1, <1>3, <1>4 DEF DurableLength
<1> QED
  BY <1>1, <1>5, <1>6

(* What is written goes behind the log, once.                              *)
LEMMA WriteExtendsLog ==
  ASSUME IInv, Once', Shape, Shape', ~Broken, NEW rs \in Seq(Requests),
         WriteFrames(rs) \/ WriteFramesThrows(rs),
         \A i \in 1..Len(rs) : Outcome[rs[i]] = "none"
  PROVE  CL!LogExtends /\ ReplayedLength = Len(file) /\ ReplayedLength <= ReplayedLength'
<1>1. /\ Len(file') \in Len(file)..(Len(file) + Len(rs))
      /\ \A i \in 1..Len(file) : file'[i] = file[i]
      /\ \A i \in 1..(Len(file') - Len(file)) : file'[Len(file) + i].req = rs[i]
      /\ \E n \in Len(file)..Len(file') : EndsReplay(n)'
  BY WriteResult
<1>2. Len(file) \in Nat /\ Len(rs) \in Nat /\ Len(file') \in Nat
  <2>1. Len(file) \in Nat /\ Len(rs) \in Nat
    BY DEF IInv, TypeOK
  <2> QED
    BY <1>1, <2>1
<1>3. /\ ReplayedLength = Len(file) /\ Len(ReplayedLog) = Len(file)
      /\ \A i \in 1..Len(file) : ReplayedLog[i] = file[i].req
  BY DEF Shape
<1>4. /\ ReplayedLength' \in 0..Len(file') /\ Len(ReplayedLog') = ReplayedLength'
      /\ \A i \in 1..ReplayedLength' : ReplayedLog'[i] = file'[i].req
  BY DEF Shape
<1>5. Len(file) <= ReplayedLength'
  <2>1. PICK n \in Len(file)..Len(file') : EndsReplay(n)'
    BY <1>1
  <2>2. CASE n = 0
    BY <1>2, <1>4, <2>2
  <2>3. CASE n # 0
    <3>1. n \in 1..Len(file') /\ Replayable(n)'
      BY <1>2, <2>1, <2>3 DEF EndsReplay
    <3>2. n <= ReplayedLength'
      BY <3>1 DEF Shape
    <3> QED
      BY <1>2, <1>4, <3>2
  <2> QED
    BY <2>2, <2>3
<1>6. \A i \in 1..Len(file) : ReplayedLog'[i] = ReplayedLog[i]
  <2>1. \A i \in 1..Len(file) : i \in 1..ReplayedLength'
    BY <1>2, <1>4, <1>5
  <2> QED
    BY <1>1, <1>3, <1>4, <2>1
<1>7. ASSUME NEW i \in (Len(file) + 1)..ReplayedLength'
      PROVE  /\ Outcome[ReplayedLog'[i]] = "none"
             /\ \A j \in 1..(i - 1) : ReplayedLog'[j] # ReplayedLog'[i]
  <2>1. /\ i \in 1..ReplayedLength' /\ i \in 1..Len(file')
        /\ i - Len(file) \in 1..(Len(file') - Len(file)) /\ i - Len(file) \in 1..Len(rs)
        /\ Len(file) + (i - Len(file)) = i
    BY <1>1, <1>2, <1>4
  <2>2. file'[Len(file) + (i - Len(file))].req = rs[i - Len(file)]
    BY <1>1, <2>1
  <2>3. ReplayedLog'[i] = rs[i - Len(file)]
    BY <1>4, <2>1, <2>2
  <2>4. ASSUME NEW j \in 1..(i - 1)
        PROVE  ReplayedLog'[j] # ReplayedLog'[i]
    <3>1. j \in 1..ReplayedLength' /\ j \in 1..Len(file') /\ j # i
      BY <1>2, <1>4, <2>1
    <3>2. file'[j].req # file'[i].req
      BY <2>1, <3>1 DEF Once, FileOnce
    <3> QED
      BY <1>4, <2>1, <3>1, <3>2
  <2> QED
    BY <2>1, <2>3, <2>4
<1>8. CL!LogExtends
  BY <1>2, <1>3, <1>4, <1>5, <1>6, <1>7 DEF CL!LogExtends
<1> QED
  BY <1>3, <1>5, <1>8

(* Steps that only move requests about leave the log's variables alone.    *)
LEMMA StepsThatStutter ==
  ASSUME IInv, Shape, Shape',
         \/ \E r \in Requests : Enqueue(r) \/ Notify(r)
         \/ WriterSleep \/ WriterStops \/ WriterDelays \/ WriterTakes
         \/ WriterCatches \/ WriterReports \/ WriterLoops
         \/ SpuriousWakeup \/ Destroy \/ DestroyNotifies \/ UNCHANGED vars
  PROVE  UNCHANGED CL!vars
<1>1. UNCHANGED <<policy_, header, file, synced>>
  BY ZenonT(60), ZenonT(90)
     DEF Enqueue, Notify, WriterSleep, WriterStops, WriterDelays, WriterTakes,
         WriterCatches, WriterReports, WriterLoops, SpuriousWakeup, Destroy,
         DestroyNotifies, vars, fileVars
<1>2. Broken' = Broken
  <2>1. CASE \E r \in Requests : Enqueue(r) \/ Notify(r)
    BY <2>1 DEF Enqueue, Notify, writerVars, WakeWriter, Broken
  <2>2. CASE WriterSleep \/ WriterStops \/ WriterDelays \/ SpuriousWakeup
    BY <2>2 DEF WriterSleep, WriterStops, WriterDelays, SpuriousWakeup, Broken
  <2>3. CASE WriterTakes \/ WriterCatches
    BY <2>3 DEF WriterTakes, WriterCatches, Broken
  <2>4. CASE WriterReports \/ WriterLoops
    BY <2>4 DEF WriterReports, WriterLoops, Broken
  <2>5. CASE Destroy \/ DestroyNotifies \/ UNCHANGED vars
    BY <2>5 DEF Destroy, DestroyNotifies, vars, writerVars, WakeWriter, Broken
  <2> QED
    BY ZenonT(60), ZenonT(90), <2>1, <2>2, <2>3, <2>4, <2>5
<1>3. Outcome' = Outcome
  <2>1. CASE \E r \in Requests : Enqueue(r) \/ Notify(r)
    <3>1. PICK r \in Requests : Enqueue(r) \/ Notify(r)
      BY <2>1
    <3>2. /\ pc[r] \in {"idle", "enqueued"} /\ pc'[r] \in {"enqueued", "waiting"}
          /\ \A q \in Requests \ {r} : pc'[q] = pc[q]
      BY <3>1 DEF Enqueue, Notify, IInv, TypeOK
    <3> QED
      BY ZenonT(60), ZenonT(90), <3>2, OutcomeKept
  <2>2. CASE ~\E r \in Requests : Enqueue(r) \/ Notify(r)
    <3>1. pc' = pc
      BY ZenonT(60), ZenonT(90), <2>2 DEF WriterSleep, WriterStops, WriterDelays, WriterTakes,
         WriterCatches, WriterReports, WriterLoops, SpuriousWakeup, Destroy,
         DestroyNotifies, vars
    <3> QED
      BY <3>1, OutcomeKept
  <2> QED
    BY <2>1, <2>2
<1>4. UNCHANGED <<ReplayedLog, DurableLength>>
  BY <1>1, DurableKept
<1> QED
  BY <1>1, <1>2, <1>3, <1>4 DEF CL!vars

(* A call that returns acknowledges its request or refuses it.             *)
LEMMA CallsReturn ==
  ASSUME IInv, Shape, Shape', NEW r \in Requests,
         Reject(r) \/ Rethrow(r) \/ InlineReturn(r) \/ Return(r)
  PROVE  CL!Acknowledge(r) \/ CL!Refuse(r)
<1>1. /\ UNCHANGED <<policy_, header, file, synced>>
      /\ failure_' = failure_ /\ wpc' = wpc
  BY ZenonT(60), ZenonT(90) DEF Reject, Rethrow, InlineReturn, Return, writerVars, fileVars
<1>2. UNCHANGED <<ReplayedLog, DurableLength>> /\ Broken' = Broken
  BY <1>1, DurableKept DEF Broken
<1>3. ASSUME pc' = [pc EXCEPT ![r] = "error"], pc[r] \notin {"ok", "error"}
      PROVE  CL!Refuse(r)
  <2>1. Outcome[r] = "none" /\ Outcome' = [Outcome EXCEPT ![r] = "error"]
    BY ZenonT(60), ZenonT(90), <1>3, OutcomeSet
  <2> QED
    BY <1>1, <1>2, <2>1 DEF CL!Refuse
<1>4. ASSUME pc' = [pc EXCEPT ![r] = "ok"], pc[r] \notin {"ok", "error"}, Safe(r)
      PROVE  CL!Acknowledge(r)
  <2>1. Outcome[r] = "none" /\ Outcome' = [Outcome EXCEPT ![r] = "ok"]
    BY ZenonT(60), ZenonT(90), <1>4, OutcomeSet
  <2> QED
    BY <1>1, <1>2, <1>4, <2>1, SafeInLog DEF CL!Acknowledge
<1>5. CASE Reject(r) \/ Rethrow(r)
  BY <1>3, <1>5 DEF Reject, Rethrow
<1>6. CASE InlineReturn(r)
  <2>1. /\ policy_ \in {"Buffered", "Sync"} /\ pc' = [pc EXCEPT ![r] = "ok"]
        /\ pc[r] = IF policy_ = "Sync" THEN "synced" ELSE "written"
    <3>1. policy_ \in {"Buffered", "Sync", "GroupCommit"}
      BY WalAssumption DEF IInv, TypeOK
    <3> QED
      BY <1>6, <3>1 DEF InlineReturn, GroupCommit
  <2>2. Safe(r)
    BY <2>1 DEF IInv, StageSound, Safe, Written, Covered
  <2> QED
    BY <1>4, <2>1, <2>2
<1>7. CASE Return(r)
  <2>1. /\ pc[r] = "waiting" /\ done[r] \in {"ok", "error"}
        /\ pc' = [pc EXCEPT ![r] = done[r]]
    BY <1>7 DEF Return, IInv, TypeOK
  <2>2. CASE done[r] = "ok"
    BY ZenonT(60), ZenonT(90), <1>4, <2>1, <2>2 DEF IInv, StageSound
  <2>3. CASE done[r] = "error"
    BY <1>3, <2>1, <2>3
  <2> QED
    BY <2>1, <2>2, <2>3
<1> QED
  BY <1>5, <1>6, <1>7

(* A successful sync makes more of the log durable; one that fails may.    *)
LEMMA SyncsMap ==
  ASSUME IInv, Once, Shape, Shape',
         \/ \E r \in Requests : InlineSyncs(r) \/ InlineSyncThrows(r)
         \/ WriterSyncs \/ WriterSyncThrows
  PROVE  CL!Flush \/ CL!Break
<1>1. /\ UNCHANGED <<policy_, header, file>> /\ synced' \in synced..Len(file)
      /\ Len(file) \in Nat /\ synced \in 0..Len(file)
  BY DEF InlineSyncs, InlineSyncThrows, WriterSyncs, WriterSyncThrows, SyncLocked,
         SyncThrows, IInv, TypeOK
<1>2. ~Broken
  <2>1. ASSUME NEW r \in Requests, InlineSyncs(r) \/ InlineSyncThrows(r)
        PROVE  ~Broken
    <3>1. HoldsIo(r) /\ policy_ = "Sync"
      BY <2>1 DEF InlineSyncs, InlineSyncThrows, HoldsIo
    <3> QED
      BY <3>1 DEF Once, InlineAlone, IInv, WriterSound, GroupCommit, Broken
  <2>2. ASSUME WriterSyncs \/ WriterSyncThrows
        PROVE  ~Broken
    BY <2>2 DEF WriterSyncs, WriterSyncThrows, IInv, WriterSound, Broken
  <2> QED
    BY <2>1, <2>2
<1>3. /\ ReplayedLength' = ReplayedLength /\ ReplayedLog' = ReplayedLog
      /\ ReplayedLength = Len(file) /\ Len(ReplayedLog) = Len(file)
  BY <1>1, <1>2, LogKept DEF Shape
<1>4. DurableLength' \in DurableLength..Len(ReplayedLog)
  BY <1>1, <1>3 DEF DurableLength
<1>5. CL!LogExtends
  <2>1. \A i \in (Len(ReplayedLog) + 1)..Len(ReplayedLog) : FALSE
    BY <1>1, <1>3
  <2> QED
    BY <1>1, <1>3, <2>1 DEF CL!LogExtends
<1>6. ASSUME NEW r \in Requests, InlineSyncs(r)
      PROVE  CL!Flush
  <2>1. pc[r] = "written" /\ pc'[r] = "synced" /\ \A q \in Requests \ {r} : pc'[q] = pc[q]
    BY <1>6 DEF InlineSyncs, IInv, TypeOK
  <2>2. Outcome' = Outcome
    BY <2>1, OutcomeKept
  <2>3. Broken' = Broken
    BY <1>6 DEF InlineSyncs, writerVars, Broken
  <2> QED
    BY <1>1, <1>3, <1>4, <2>2, <2>3 DEF CL!Flush
<1>7. ASSUME NEW r \in Requests, InlineSyncThrows(r)
      PROVE  CL!Break
  <2>1. Outcome[r] = "none" /\ Outcome' = [Outcome EXCEPT ![r] = "error"]
    BY ZenonT(60), ZenonT(90), <1>7, OutcomeSet DEF InlineSyncThrows
  <2>2. Broken' = TRUE
    BY <1>7 DEF InlineSyncThrows, Broken
  <2> QED
    BY ZenonT(60), ZenonT(90), <1>1, <1>2, <1>3, <1>4, <1>5, <2>1, <2>2 DEF CL!Break
<1>8. CASE WriterSyncs
  <2>1. Outcome' = Outcome
    BY <1>8, OutcomeKept DEF WriterSyncs
  <2>2. Broken' = Broken
    BY <1>8 DEF WriterSyncs, Broken
  <2> QED
    BY <1>1, <1>3, <1>4, <2>1, <2>2 DEF CL!Flush
<1>9. CASE WriterSyncThrows
  <2>1. Outcome' = Outcome
    BY <1>9, OutcomeKept DEF WriterSyncThrows
  <2>2. Broken' = TRUE
    BY <1>9 DEF WriterSyncThrows, Broken
  <2> QED
    BY <1>1, <1>2, <1>3, <1>4, <1>5, <2>1, <2>2 DEF CL!Break
<1> QED
  BY <1>6, <1>7, <1>8, <1>9

(* A write extends the log; one that fails breaks it as well.              *)
LEMMA WritesMap ==
  ASSUME IInv, Once, Once', Shape, Shape',
         \/ \E r \in Requests : InlineWrite(r) \/ InlineWriteThrows(r)
         \/ WriterWrites \/ WriterWriteThrows
  PROVE  CL!Write \/ CL!Break
<1>1. UNCHANGED <<policy_, synced>> /\ synced \in 0..Len(file) /\ Len(file) \in Nat
  <2>1. UNCHANGED <<policy_, synced>>
    BY ZenonT(60), ZenonT(90) DEF InlineWrite, InlineWriteThrows, WriterWrites, WriterWriteThrows
  <2>2. synced \in 0..Len(file) /\ Len(file) \in Nat
    BY DEF IInv, TypeOK
  <2> QED
    BY <2>1, <2>2
<1>2. ASSUME CL!LogExtends, ReplayedLength = Len(file), ReplayedLength <= ReplayedLength'
      PROVE  DurableLength' = DurableLength /\ DurableLength' \in DurableLength..Len(ReplayedLog')
  <2>1. ReplayedLength' \in Nat /\ Len(ReplayedLog') = ReplayedLength'
    BY DEF Shape
  <2> QED
    BY <1>1, <1>2, <2>1 DEF DurableLength
<1>3. ASSUME NEW r \in Requests, InlineWrite(r) \/ InlineWriteThrows(r)
      PROVE  CL!Write \/ CL!Break
  <2>1. /\ pc[r] = "idle" /\ ~GroupCommit /\ ~failure_ /\ wpc' = wpc
        /\ WriteFrames(<<r>>) \/ WriteFramesThrows(<<r>>)
    BY <1>3 DEF InlineWrite, InlineWriteThrows, InlineEnter, AppendAllowed, writerVars
  <2>2. ~Broken
    BY <2>1 DEF Broken, IInv, WriterSound
  <2>3. Outcome[r] = "none"
    BY <2>1 DEF Outcome
  <2>4. CL!LogExtends /\ ReplayedLength = Len(file) /\ ReplayedLength <= ReplayedLength'
    <3> DEFINE rs == <<r>>
    <3>1. /\ rs \in Seq(Requests) /\ (WriteFrames(rs) \/ WriteFramesThrows(rs))
          /\ \A i \in 1..Len(rs) : Outcome[rs[i]] = "none"
      BY <2>1, <2>3
    <3> HIDE DEF rs
    <3> QED
      BY <2>2, <3>1, WriteExtendsLog
  <2>5. CASE InlineWrite(r)
    <3>1. pc'[r] = "written" /\ \A q \in Requests \ {r} : pc'[q] = pc[q]
      BY <2>5 DEF InlineWrite, IInv, TypeOK
    <3>2. Outcome' = Outcome
      BY <2>1, <3>1, OutcomeKept
    <3>3. Broken' = Broken
      BY <2>1, <2>5 DEF InlineWrite, Broken
    <3> QED
      BY <1>1, <1>2, <2>2, <2>4, <3>2, <3>3 DEF CL!Write
  <2>6. CASE InlineWriteThrows(r)
    <3>1. Outcome' = [Outcome EXCEPT ![r] = "error"]
      BY ZenonT(60), ZenonT(90), <2>1, <2>6, OutcomeSet DEF InlineWriteThrows
    <3>2. Broken' = TRUE
      BY <2>6 DEF InlineWriteThrows, Broken
    <3> QED
      BY ZenonT(60), ZenonT(90), <1>1, <1>2, <2>2, <2>3, <2>4, <3>1, <3>2 DEF CL!Break
  <2> QED
    BY <1>3, <2>5, <2>6
<1>4. ASSUME WriterWrites \/ WriterWriteThrows
      PROVE  CL!Write \/ CL!Break
  <2>1. /\ wpc = "taken" /\ pc' = pc /\ failure_' = failure_ /\ batch \in Seq(Requests)
        /\ WriteFrames(batch) \/ WriteFramesThrows(batch)
    BY <1>4 DEF WriterWrites, WriterWriteThrows, IInv, TypeOK
  <2>2. ~Broken
    BY <2>1 DEF Broken, IInv, WriterSound
  <2>3. \A i \in 1..Len(batch) : batch[i] \in Requests /\ Batched(batch[i])
    BY <2>1 DEF Batched
  <2>4. \A i \in 1..Len(batch) : Outcome[batch[i]] = "none"
    BY ZenonT(60), ZenonT(90), <2>3 DEF Once, WaitingOnce, Outcome
  <2>5. CL!LogExtends /\ ReplayedLength = Len(file) /\ ReplayedLength <= ReplayedLength'
    BY <2>1, <2>2, <2>4, WriteExtendsLog
  <2>6. Outcome' = Outcome
    BY <2>1, OutcomeKept
  <2>7. CASE WriterWrites
    <3>1. Broken' = Broken
      BY <2>1, <2>7 DEF WriterWrites, Broken
    <3> QED
      BY <1>1, <1>2, <2>2, <2>5, <2>6, <3>1 DEF CL!Write
  <2>8. CASE WriterWriteThrows
    <3>1. Broken' = TRUE
      BY <2>8 DEF WriterWriteThrows, Broken
    <3> QED
      BY <1>1, <1>2, <2>2, <2>5, <2>6, <3>1 DEF CL!Break
  <2> QED
    BY <1>4, <2>7, <2>8
<1> QED
  BY <1>3, <1>4

(* Whatever the callers, the writer and the failing I/O calls do, the      *)
(* append path behaves as the log CommitLog describes.                     *)
THEOREM AppendsImplementCommitLog == Spec => ImplementsCommitLog
<1>1. IInv /\ Once /\ Init => CL!Init
  <2> SUFFICES ASSUME IInv, Once, Init PROVE CL!Init
    OBVIOUS
  <2>1. ReplayedLog \in Seq(Requests) /\ Len(ReplayedLog) = 0 /\ ReplayedLength = 0
    BY ReplayedShape DEF Shape, Init
  <2>2. ReplayedLog = <<>>
    BY <2>1
  <2>3. DurableLength = 0 /\ Outcome = [r \in Requests |-> "none"] /\ Broken = FALSE
    BY <2>1 DEF Init, DurableLength, Outcome, Broken
  <2> QED
    BY <2>2, <2>3 DEF CL!Init
<1>2. IInv /\ Once /\ Once' /\ Shape /\ Shape' /\ [Next]_vars => [CL!Next]_(CL!vars)
  <2> SUFFICES ASSUME IInv, Once, Once', Shape, Shape', [Next]_vars
               PROVE  CL!Next \/ UNCHANGED CL!vars
    OBVIOUS
  <2>1. ASSUME NEW r \in Requests, Caller(r)
        PROVE  CL!Next \/ UNCHANGED CL!vars
    BY <2>1, CallsReturn, StepsThatStutter, SyncsMap, WritesMap DEF Caller, CL!Next
  <2>2. CASE Writer
    BY <2>2, StepsThatStutter, SyncsMap, WritesMap DEF Writer, CL!Next
  <2>3. CASE SpuriousWakeup \/ Destroy \/ DestroyNotifies \/ Destroyed \/ UNCHANGED vars
    BY <2>3, StepsThatStutter DEF Destroyed
  <2> QED
    BY <2>1, <2>2, <2>3 DEF Next
<1>3. Init => Once
  BY OnceHolds
<1>4. IInv /\ Once /\ [Next]_vars => Once'
  BY OnceHolds
<1>5. IInv /\ Once => Shape
  BY ReplayedShape
<1> QED
  BY <1>1, <1>2, <1>3, <1>4, <1>5, Invariance, PTL
     DEF Spec, ImplementsCommitLog, CL!Spec
===============================================================================
