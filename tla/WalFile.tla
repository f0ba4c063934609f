-------------------------------- MODULE WalFile --------------------------------
(***************************************************************************)
(* The log file of WriteAheadLog (src/src/persistence/wal.cpp) and the     *)
(* members that say how it may be written.  Writer threads, batches and    *)
(* durability are the subject of WalAppend and Recovery.                   *)
(*                                                                         *)
(* The file is a sequence of cells.  A version 3 header is two cells (the  *)
(* magic; version, generation and checksum), a frame three (length,        *)
(* checksum, record), so that offsets inside a header or a frame exist and *)
(* a write can stop at them.  A torn cell is a field of which only a part  *)
(* reached the file.  A version 2 file has no header, and its records no   *)
(* sequence number.                                                        *)
(*                                                                         *)
(* A method gives the set of its outcomes: the file, the object, and       *)
(* whether the call returned ("ok"), threw without touching the log        *)
(* ("refused") or met an I/O error ("io").                                 *)
(***************************************************************************)
EXTENDS Data, Sequences, FiniteSetsExt

CONSTANTS
  kRecordOverhead,    \* opcode, sizes and sequence number of a record
  MaxSequence,        \* stands for the largest std::uint64_t
  MaxGeneration       \* likewise

ASSUME WalFileAssumption ==
  /\ kRecordOverhead \in Nat
  /\ MaxSequence \in Nat \ {0} /\ MaxGeneration \in Nat \ {0}

kHeaderLength == 2
kFrameLength == 3

Magic == [is |-> "magic"]
TornMagic == [is |-> "magic", torn |-> TRUE]
Torn == [is |-> "torn"]
Length == [is |-> "length"]
Generation(g) == [is |-> "generation", generation |-> g]
Checksum(record) == [is |-> "checksum", of |-> record]
Record(n, k, v) ==
  [is |-> "record", sequence |-> n, op |-> IF v = Absent THEN "Delete" ELSE "Set",
   key |-> k, val |-> v]

Header(g) == <<Magic, Generation(g)>>
Frame(record) == <<Length, Checksum(record), record>>

(* What a cell can be.  A length cell stands for a length within the       *)
(* limit, so that the fields of the record behind it are within it too.    *)
Records ==
  {r \in [is : {"record"}, sequence : 0..MaxSequence, op : {"Set", "Delete", "other"},
          key : Keys, val : Values \cup {Absent}] :
     /\ Bytes(r.key) <= kMaxRecordLength
     /\ r.val # Absent => Bytes(r.val) <= kMaxRecordLength}
Cells ==
  {Magic, TornMagic, Torn, Length} \cup {Generation(g) : g \in 0..MaxGeneration}
    \cup Records \cup {Checksum(r) : r \in Records}

------------------------------------------------------------------------------
(* Reading the file.                                                       *)

MagicPrefix(f) == f # <<>> /\ f[1] \in {Magic, TornMagic}

ParseHeader(f) == Len(f) >= kHeaderLength /\ f[1] = Magic /\ f[2].is = "generation"

(* The first record after the header is number 1; one read from another    *)
(* offset may have any number.  Later ones are consecutive.                *)
SequenceOk(f, start, i) ==
  LET sequence(j) == f[start + kFrameLength * j].sequence IN
  /\ sequence(i) # 0
  /\ i = 1 /\ start = kHeaderLength => sequence(i) = 1
  /\ i > 1 => sequence(i) = sequence(i - 1) + 1

(* What the i-th turn of the replay loop finds, given that the earlier     *)
(* ones applied a frame each.  A cell that is not the expected field reads *)
(* as an impossible length.                                                *)
FrameStatus(f, start, i) ==
  LET cursor == start + kFrameLength * (i - 1) IN
  IF cursor >= Len(f) THEN "CleanEof"
  ELSE IF f[cursor + 1] = Torn THEN "PartialRecord"
  ELSE IF f[cursor + 1] # Length THEN "InvalidLength"
  ELSE IF Len(f) < cursor + kFrameLength \/ f[cursor + 3] = Torn THEN "PartialRecord"
  ELSE IF f[cursor + 2] # Checksum(f[cursor + 3]) THEN "ChecksumMismatch"
  ELSE IF f[cursor + 3].op \notin {"Set", "Delete"} THEN "InvalidOpcode"
  ELSE IF MagicPrefix(f) /\ ~SequenceOk(f, start, i) THEN "InvalidSequence"
  ELSE "Applied"

Applied(f, start) ==
  Max({n \in 0..(Len(f) \div kFrameLength) : \A i \in 1..n : FrameStatus(f, start, i) = "Applied"})

ReplayFromDetailed(f, offset) ==
  LET start == IF MagicPrefix(f) /\ offset = 0 THEN kHeaderLength ELSE offset
      n == Applied(f, start)
      result(status, from, count) ==
        [status |-> status, start |-> from, applied_operations |-> count,
         last_good_offset |-> from + kFrameLength * count,
         last_sequence |-> IF MagicPrefix(f) /\ count > 0
                             THEN f[from + kFrameLength * count].sequence ELSE 0]
  IN
  IF f = <<>> THEN result("CleanEof", offset, 0)
  ELSE IF MagicPrefix(f) /\ (~ParseHeader(f) \/ offset \in 1..(kHeaderLength - 1))
    THEN result("InvalidHeader", 0, 0)
  ELSE result(FrameStatus(f, start, n + 1), start, n)

(* An offset that a store has recorded for the log: none, or where replay  *)
(* from the start ends a record, with the numbering going on behind it.    *)
FirstFrame(f) == IF MagicPrefix(f) THEN kHeaderLength ELSE 0
Boundary(f, offset) ==
  \/ offset = 0
  \/ \E m \in 0..Len(f) :
       /\ offset = FirstFrame(f) + kFrameLength * m
       /\ MagicPrefix(f) => ParseHeader(f)
       /\ \A i \in 1..m : FrameStatus(f, FirstFrame(f), i) = "Applied"
       /\ FrameStatus(f, offset, 1) = "Applied"
            => FrameStatus(f, FirstFrame(f), m + 1) = "Applied"

(* Variant for mutation: a key already there is not overwritten.           *)
ReplayInto_First(store, f, offset) ==
  LET r == ReplayFromDetailed(f, offset)
      record(i) == f[r.start + kFrameLength * i]
      about(k) == {i \in 1..r.applied_operations : record(i).key = k}
  IN [k \in Keys |-> IF about(k) = {} THEN store[k] ELSE record(Min(about(k))).val]

(* apply_record for every record the replay reaches, in order.             *)
ReplayInto(store, f, offset) ==
  LET r == ReplayFromDetailed(f, offset)
      record(i) == f[r.start + kFrameLength * i]
      about(k) == {i \in 1..r.applied_operations : record(i).key = k}
  IN [k \in Keys |-> IF about(k) = {} THEN store[k] ELSE record(Max(about(k))).val]

------------------------------------------------------------------------------
(* The members of a WriteAheadLog.  stream is the state of output_.        *)

Object(legacy, pending, valid, recovery, g, n) ==
  [legacy_v2_ |-> legacy, header_pending_ |-> pending, format_valid_ |-> valid,
   needs_recovery_ |-> recovery, generation_ |-> g, next_sequence_ |-> n,
   failure_ |-> FALSE, stream |-> "good"]

Objects ==
  [legacy_v2_ : BOOLEAN, header_pending_ : BOOLEAN, format_valid_ : BOOLEAN,
   needs_recovery_ : BOOLEAN, generation_ : 0..MaxGeneration,
   next_sequence_ : 1..MaxSequence, failure_ : BOOLEAN,
   stream : {"good", "bad", "closed"}]

(* The constructor, which throws when the sequence is exhausted.           *)
Opened(f) ==
  LET r == ReplayFromDetailed(f, 0) IN
  IF f = <<>> THEN Object(FALSE, TRUE, TRUE, FALSE, 1, 1)
  ELSE IF ~MagicPrefix(f) THEN Object(TRUE, FALSE, TRUE, r.status # "CleanEof", 0, 1)
  ELSE IF ~ParseHeader(f) THEN Object(FALSE, FALSE, FALSE, FALSE, 0, 1)
  ELSE Object(FALSE, FALSE, TRUE, r.status # "CleanEof", f[2].generation,
              r.last_sequence + 1)

CanOpen(f) == ReplayFromDetailed(f, 0).last_sequence # MaxSequence

Outcome(f, w, how) == [file |-> f, wal |-> w, how |-> how]

(* What a failing write may leave of cells at the end of the file.         *)
WrittenPartly(cells) ==
  {SubSeq(cells, 1, n) : n \in 0..Len(cells)}
    \cup {Append(SubSeq(cells, 1, n), IF cells[n + 1] = Magic THEN TornMagic ELSE Torn) :
            n \in 0..(Len(cells) - 1)}

(* Variant for mutation: every record is short enough.                     *)
CheckedRecordLength_Any(k, v) == TRUE

CheckedRecordLength(k, v) ==
  kRecordOverhead + Bytes(k) + (IF v = Absent THEN 0 ELSE Bytes(v)) <= kMaxRecordLength

(* Variant for mutation: appends go on behind a tail that does not parse.  *)
MayAppend_UnlessFailed(w) == ~w.failure_ /\ w.format_valid_

MayAppend(w) == ~w.failure_ /\ w.format_valid_ /\ ~w.needs_recovery_

(* Variant for mutation: the sequence number is never exhausted.           *)
Exhausted_Never(w) == FALSE

Exhausted(w) == ~w.legacy_v2_ /\ w.next_sequence_ = MaxSequence

(* AppendSet and, with v = Absent, AppendDelete.  An error leaves failure_ *)
(* behind, and nothing resets it: from then on the other members are not   *)
(* used for appending.                                                     *)
AppendRecord(f, w, k, v) ==
  LET header == IF w.header_pending_ /\ ~w.legacy_v2_ THEN Header(w.generation_) ELSE <<>>
      number == IF w.legacy_v2_ THEN 0 ELSE w.next_sequence_
      cells == header \o (IF Exhausted(w) THEN <<>> ELSE Frame(Record(number, k, v)))
      failed == [w EXCEPT !.failure_ = TRUE]
  IN
  IF ~CheckedRecordLength(k, v) \/ ~MayAppend(w) THEN {Outcome(f, w, "refused")}
  ELSE IF w.stream # "good" THEN {Outcome(f, failed, "refused")}
  ELSE {IF Exhausted(w) THEN Outcome(f \o cells, failed, "refused")
        ELSE Outcome(f \o cells,
                     [w EXCEPT !.header_pending_ = FALSE,
                               !.next_sequence_ = IF w.legacy_v2_ THEN @ ELSE @ + 1], "ok")}
       \cup {Outcome(f \o part,
                     [failed EXCEPT !.stream = IF part = cells THEN "good" ELSE "bad"], "io") :
               part \in WrittenPartly(cells)}

(* Throws unless the stream can be flushed.                                *)
CanTellOffset(w) == w.stream = "good"

(* Variant for mutation: the offset is one too far.                        *)
CurrentOffset_OffByOne(f) == Len(f) + 1

CurrentOffset(f) == Len(f)

(* Clear and Rotate: an error leaves the file as it was, or empty with the *)
(* stream closed, or comes from the last sync, when all is done.           *)
Clear(f, w) ==
  LET cleared == [w EXCEPT !.generation_ = @ + 1, !.next_sequence_ = 1,
                           !.legacy_v2_ = FALSE, !.header_pending_ = TRUE,
                           !.format_valid_ = TRUE, !.needs_recovery_ = FALSE,
                           !.stream = "good"]
      closed == [w EXCEPT !.stream = "closed"]
  IN
  IF w.generation_ = MaxGeneration THEN {Outcome(f, w, "refused")}
  ELSE {Outcome(<<>>, cleared, "ok"), Outcome(f, w, "io"), Outcome(f, closed, "io"),
        Outcome(<<>>, closed, "io"), Outcome(<<>>, cleared, "io")}

(* The members after the file was cut to f, or the exception that the rest *)
(* is not a valid prefix, with the members as they were.                   *)
Renumbered(f, w, offset) ==
  LET r == ReplayFromDetailed(f, 0)
      open == [w EXCEPT !.stream = "good", !.needs_recovery_ = FALSE]
  IN
  CASE w.legacy_v2_ -> Outcome(f, open, "ok")
    [] ~w.legacy_v2_ /\ offset = 0 ->
         Outcome(f, [open EXCEPT !.generation_ = @ + 1, !.next_sequence_ = 1,
                                 !.header_pending_ = TRUE, !.format_valid_ = TRUE], "ok")
    [] ~w.legacy_v2_ /\ offset # 0 ->
         IF r.status # "CleanEof" \/ r.last_sequence = MaxSequence
           THEN Outcome(f, [w EXCEPT !.stream = "good"], "refused")
           ELSE Outcome(f, [open EXCEPT !.next_sequence_ = r.last_sequence + 1], "ok")

(* An offset past the end is found out only when the stream is closed.     *)
TruncateTo(f, w, offset) ==
  LET closed == [w EXCEPT !.stream = "closed"]
      cut == SubSeq(f, 1, offset)
      done == Renumbered(cut, w, offset)
  IN
  IF ~w.legacy_v2_ /\ offset = 0 /\ w.generation_ = MaxGeneration
    THEN {Outcome(f, w, "refused")}
  ELSE IF offset > Len(f) THEN {Outcome(f, closed, "refused")}
  ELSE {done, Outcome(f, w, "io"), Outcome(f, closed, "io"), Outcome(cut, closed, "io"),
        [done EXCEPT !.how = "io"]}

ReplayFromAndTruncate(f, w, offset) ==
  LET r == ReplayFromDetailed(f, offset) IN
  IF r.status = "CleanEof" THEN {Outcome(f, w, "ok")}
  ELSE TruncateTo(f, w, r.last_good_offset)
==============================================================================
