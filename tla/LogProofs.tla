------------------------------ MODULE LogProofs -------------------------------
(***************************************************************************)
(* Proofs about WalFile, for every log: what replay reads, at which        *)
(* offsets it may start, what the methods of the log leave of both, and    *)
(* which value a replay gives to a key.                                    *)
(***************************************************************************)
EXTENDS WalFile, FiniteSetTheorems, TLAPS

(* Every leaf is tried with Z3, with Zenon, and again with Z3, unless it   *)
(* names its prover: the time to translate a leaf varies, and has a limit. *)
USE SMTT(20), ZenonT(20), SMTT(40), SMTT(60), SMTT(90)

------------------------------------------------------------------------------
(* Reading the log.                                                        *)

(* A set of counters that is closed downward has its cardinality as its    *)
(* greatest member.                                                        *)
LEMMA Initial ==
  ASSUME NEW m \in Nat, NEW S \in SUBSET (0..m), 0 \in S,
         \A n \in S : \A j \in 0..n : j \in S
  PROVE  \E top \in S : S = 0..top
<1> DEFINE T == S \ {0}
           c == Cardinality(T)
<1>0. 0 \in Int /\ m \in Int
  OBVIOUS
<1>1. IsFiniteSet(S) /\ IsFiniteSet(T)
  BY ZenonT(60), ZenonT(90), <1>0, FS_Interval, FS_Subset
<1>2. c \in Nat
  BY <1>1, FS_CardinalityType
<1>3. ASSUME NEW n \in T PROVE n <= c
  <2>1. 1..n \subseteq T
    BY <1>3
  <2>2. Cardinality(1..n) <= c
    BY <1>1, <2>1, FS_Subset
  <2>3. Cardinality(1..n) = n
    BY <1>3, FS_Interval
  <2>4. QED
    BY <2>2, <2>3
<1>4. T \subseteq 1..c
  BY <1>2, <1>3
<1>5. c \in S
  <2>1. CASE c \in T
    BY <2>1
  <2>2. CASE c = 0
    BY <2>2
  <2>3. CASE c # 0 /\ c \notin T
    <3>1. T \subseteq 1..(c - 1)
      BY <1>2, <1>4, <2>3
    <3>2. IsFiniteSet(1..(c - 1)) /\ Cardinality(1..(c - 1)) = c - 1
      BY <1>2, <2>3, FS_Interval, c - 1 \in Int, 1 \in Int, ~(1 > c - 1 /\ c - 1 # 0)
    <3>3. c <= c - 1
      BY ZenonT(60), ZenonT(90), <3>1, <3>2, FS_Subset
    <3>4. QED
      BY <1>2, <3>3
  <2>4. QED
    BY <2>1, <2>2, <2>3
<1>6. S = 0..c
  <2>1. 0..c \subseteq S
    BY ZenonT(60), ZenonT(90), <1>5
  <2>2. ASSUME NEW n \in S PROVE n \in 0..c
    BY <1>2, <1>3
  <2>3. QED
    BY ZenonT(60), ZenonT(90), <2>1, <2>2
<1>7. QED
  BY <1>5, <1>6

(* A bounded set of counters has a greatest member.                        *)
LEMMA Greatest ==
  ASSUME NEW m \in Nat, NEW S \in SUBSET (0..m), S # {}
  PROVE  \E top \in S : \A n \in S : n <= top
<1> DEFINE Below == {j \in 0..m : \E n \in S : j <= n}
<1>1. 0 \in Below /\ Below \in SUBSET (0..m) /\ \A n \in Below : \A j \in 0..n : j \in Below
  <2>1. 0 \in Below
    <3>1. PICK n \in S : TRUE
      BY ZenonT(60), ZenonT(90)
    <3>2. n \in Nat /\ 0 <= n /\ 0 \in 0..m
      OBVIOUS
    <3>3. QED
      BY <3>2
  <2>2. ASSUME NEW n \in Below, NEW j \in 0..n PROVE j \in Below
    <3>1. PICK k \in S : n <= k
      OBVIOUS
    <3>2. j <= k /\ j \in 0..m
      BY <3>1
    <3>3. QED
      BY <3>2
  <2>3. QED
    BY <2>1, <2>2
<1>2. PICK top \in Below : Below = 0..top
  <2> HIDE DEF Below
  <2>1. QED
    BY ZenonT(60), ZenonT(90), <1>1, Initial
<1>3. PICK n \in S : top <= n
  BY <1>2
<1>4. \A j \in S : j \in Below
  OBVIOUS
<1>5. \A j \in S : j <= n
  BY <1>2, <1>3, <1>4
<1>6. QED
  BY <1>5

LEMMA MaxOfCounters ==
  ASSUME NEW m \in Nat, NEW S \in SUBSET (0..m), S # {}
  PROVE  Max(S) \in S /\ \A n \in S : n <= Max(S)
<1>1. PICK top \in S : \A n \in S : n <= top
  BY ZenonT(60), ZenonT(90), Greatest
<1>2. \A n \in S : top >= n
  BY <1>1
<1>3. QED
  BY ZenonT(60), ZenonT(90), <1>2 DEF Max

(* A cell that matches its checksum is a record.                           *)
LEMMA CellKinds ==
  ASSUME NEW c \in Cells
  PROVE  /\ c.is = "generation" => c.generation \in 0..MaxGeneration
         /\ \A x : c = Checksum(x) => x \in Records
<1> USE DEF Magic, TornMagic, Torn, Length, Generation, Checksum
<1>1. CASE c \in {Magic, TornMagic, Torn, Length}
  BY <1>1
<1>2. CASE \E g \in 0..MaxGeneration : c = Generation(g)
  BY <1>2
<1>3. CASE c \in Records
  <2>1. c.is = "record"
    BY <1>3 DEF Records
  <2>2. QED
    BY <2>1
<1>4. CASE \E r \in Records : c = Checksum(r)
  <2>1. PICK r \in Records : c = Checksum(r)
    BY <1>4
  <2>2. c.is = "checksum" /\ c.of = r
    BY <2>1
  <2>3. QED
    BY <2>2
<1>5. QED
  BY <1>1, <1>2, <1>3, <1>4 DEF Cells

LEMMA AppliedIsRecord ==
  ASSUME NEW f \in Seq(Cells), NEW start \in Nat, NEW i \in Nat \ {0},
         FrameStatus(f, start, i) = "Applied"
  PROVE  /\ start + 3 * i \in 1..Len(f)
         /\ f[start + 3 * i] \in Records
<1> DEFINE cursor == start + 3 * (i - 1)
<1>1. /\ ~(cursor >= Len(f)) /\ ~(Len(f) < cursor + 3)
      /\ f[cursor + 2] = Checksum(f[cursor + 3])
  BY DEF FrameStatus, kFrameLength
<1>2. cursor \in Nat /\ cursor + 3 = start + 3 * i
  OBVIOUS
<1>3. cursor + 2 \in 1..Len(f) /\ cursor + 3 \in 1..Len(f)
  BY <1>1, <1>2
<1>4. f[cursor + 2] \in Cells
  BY <1>3
<1>5. f[cursor + 3] \in Records
  BY <1>1, <1>4, CellKinds
<1>6. QED
  BY <1>2, <1>3, <1>5

LEMMA AppliedCount ==
  ASSUME NEW f \in Seq(Cells), NEW start \in Nat
  PROVE  /\ Applied(f, start) \in Nat
         /\ \A i \in 1..Applied(f, start) : FrameStatus(f, start, i) = "Applied"
<1> DEFINE S == {n \in 0..(Len(f) \div 3) :
                   \A i \in 1..n : FrameStatus(f, start, i) = "Applied"}
<1>1. Len(f) \in Nat /\ Len(f) \div 3 \in Nat
  OBVIOUS
<1>2. 0 \in S /\ S \in SUBSET (0..(Len(f) \div 3))
  BY <1>1
<1>3. Max(S) \in S
  <2> HIDE DEF S
  <2>1. QED
    BY ZenonT(60), ZenonT(90), <1>1, <1>2, MaxOfCounters
<1>4. Applied(f, start) = Max(S)
  BY DEF Applied, kFrameLength
<1>5. QED
  BY <1>3, <1>4

(* What a replay reports, whatever is in the file.                         *)
LEMMA ReplayReport ==
  ASSUME NEW f \in Seq(Cells), NEW offset \in Nat
  PROVE  LET r == ReplayFromDetailed(f, offset) IN
         /\ r.start \in Nat /\ r.applied_operations \in Nat /\ r.last_good_offset \in Nat
         /\ \A i \in 1..r.applied_operations :
              r.start + 3 * i \in 1..Len(f) /\ f[r.start + 3 * i] \in Records
         /\ r.last_sequence \in 0..MaxSequence
<1> DEFINE start == IF MagicPrefix(f) /\ offset = 0 THEN 2 ELSE offset
           n == Applied(f, start)
           r == ReplayFromDetailed(f, offset)
           reached(from, count) ==
             /\ r.start = from /\ r.applied_operations = count
             /\ r.last_good_offset = from + 3 * count
             /\ r.last_sequence = IF MagicPrefix(f) /\ count > 0
                                    THEN f[from + 3 * count].sequence ELSE 0
<1>1. start \in Nat
  OBVIOUS
<1>2. n \in Nat /\ \A i \in 1..n : FrameStatus(f, start, i) = "Applied"
  <2> HIDE DEF start
  <2>1. QED
    BY <1>1, AppliedCount
<1>3. ASSUME NEW i \in 1..n PROVE start + 3 * i \in 1..Len(f) /\ f[start + 3 * i] \in Records
  <2> HIDE DEF start, n
  <2>1. i \in Nat \ {0}
    BY <1>2
  <2>2. QED
    BY ZenonT(60), ZenonT(90), <1>1, <1>2, <2>1, AppliedIsRecord
<1>4. reached(offset, 0) \/ reached(0, 0) \/ reached(start, n)
  BY ZenonT(60), ZenonT(90) DEF ReplayFromDetailed, kFrameLength, kHeaderLength
<1>5. CASE reached(offset, 0) \/ reached(0, 0)
  BY <1>5, DataAssumption, WalFileAssumption
<1>6. CASE reached(start, n)
  <2> HIDE DEF start, n, r
  <2>1. n > 0 => f[start + 3 * n].sequence \in 0..MaxSequence
    <3>1. n > 0 => f[start + 3 * n] \in Records
      BY <1>2, <1>3
    <3>2. QED
      BY <3>1 DEF Records
  <2>2. r.last_sequence \in 0..MaxSequence
    BY <1>6, <2>1, DataAssumption, WalFileAssumption
  <2>3. r.start \in Nat /\ r.applied_operations \in Nat /\ r.last_good_offset \in Nat
    BY <1>1, <1>2, <1>6
  <2>4. \A i \in 1..r.applied_operations :
          r.start + 3 * i \in 1..Len(f) /\ f[r.start + 3 * i] \in Records
    BY <1>3, <1>6
  <2>5. QED
    BY <2>2, <2>3, <2>4 DEF r
<1>7. QED
  BY <1>4, <1>5, <1>6

------------------------------------------------------------------------------
(* Entries that fit into a snapshot.                                       *)

EntryFits(k, v) ==
  v # Absent => Bytes(k) <= kMaxSnapshotFieldLength /\ Bytes(v) <= kMaxSnapshotFieldLength
FittingMaps == {m \in [Keys -> Values \cup {Absent}] : \A k \in Keys : EntryFits(k, m[k])}

(* Records are short enough for a snapshot, so replay yields what can be   *)
(* saved and loaded again.                                                 *)
LEMMA RecordFits ==
  ASSUME NEW r \in Records
  PROVE  r.key \in Keys /\ r.val \in Values \cup {Absent} /\ EntryFits(r.key, r.val)
<1>1. /\ r.key \in Keys /\ r.val \in Values \cup {Absent}
      /\ Bytes(r.key) <= kMaxRecordLength
      /\ r.val # Absent => Bytes(r.val) <= kMaxRecordLength
  BY DEF Records
<1>2. Bytes(r.key) \in Nat /\ (r.val # Absent => Bytes(r.val) \in Nat)
  BY <1>1, DataAssumption, WalFileAssumption
<1>3. QED
  BY <1>1, <1>2, DataAssumption, WalFileAssumption DEF EntryFits

LEMMA ReplayFits ==
  ASSUME NEW store \in FittingMaps, NEW f \in Seq(Cells), NEW offset \in Nat
  PROVE  ReplayInto(store, f, offset) \in FittingMaps
<1> DEFINE r == ReplayFromDetailed(f, offset)
           record(i) == f[r.start + 3 * i]
           about(k) == {i \in 1..r.applied_operations : record(i).key = k}
           after == [k \in Keys |-> IF about(k) = {} THEN store[k] ELSE record(Max(about(k))).val]
<1>1. r.applied_operations \in Nat /\ \A i \in 1..r.applied_operations : record(i) \in Records
  BY ReplayReport
<1>2. ASSUME NEW k \in Keys
      PROVE  after[k] \in Values \cup {Absent} /\ EntryFits(k, after[k])
  <2>1. CASE about(k) = {}
    BY <2>1 DEF FittingMaps
  <2>2. CASE about(k) # {}
    <3>1. Max(about(k)) \in about(k)
      <4>1. about(k) \in SUBSET (0..r.applied_operations)
        BY <1>1
      <4> HIDE DEF about, r
      <4>2. QED
        BY ZenonT(60), ZenonT(90), <1>1, <2>2, <4>1, MaxOfCounters
    <3>2. record(Max(about(k))) \in Records /\ record(Max(about(k))).key = k
      BY <1>1, <3>1
    <3>3. after[k] = record(Max(about(k))).val
      BY <2>2
    <3> HIDE DEF after, about, record
    <3>4. QED
      BY <3>2, <3>3, RecordFits
  <2>3. QED
    BY <2>1, <2>2
<1>3. ReplayInto(store, f, offset) = after
  BY DEF ReplayInto, kFrameLength
<1>4. after \in [Keys -> Values \cup {Absent}]
  BY <1>2
<1>5. QED
  BY ZenonT(60), ZenonT(90), <1>2, <1>3, <1>4 DEF FittingMaps

------------------------------------------------------------------------------
(* The methods of the log keep its types.                                  *)

Outcomes == [file : Seq(Cells), wal : Objects, how : {"ok", "refused", "io"}]

LEMMA OutcomeType ==
  ASSUME NEW f \in Seq(Cells), NEW w \in Objects, NEW how \in {"ok", "refused", "io"}
  PROVE  Outcome(f, w, how) \in Outcomes
  BY DEF Outcome, Outcomes

LEMMA ObjectType ==
  ASSUME NEW legacy \in BOOLEAN, NEW pending \in BOOLEAN, NEW valid \in BOOLEAN,
         NEW recovery \in BOOLEAN, NEW g \in 0..MaxGeneration, NEW n \in 1..MaxSequence
  PROVE  Object(legacy, pending, valid, recovery, g, n) \in Objects
  BY DEF Object, Objects

LEMMA OpenedType ==
  ASSUME NEW f \in Seq(Cells), CanOpen(f)
  PROVE  Opened(f) \in Objects
<1> DEFINE r == ReplayFromDetailed(f, 0)
<1>1. r.last_sequence \in 0..MaxSequence /\ r.last_sequence # MaxSequence
  BY ReplayReport DEF CanOpen
<1>2. r.last_sequence + 1 \in 1..MaxSequence /\ 1 \in 1..MaxSequence
      /\ 0 \in 0..MaxGeneration /\ 1 \in 0..MaxGeneration
  BY <1>1, DataAssumption, WalFileAssumption
<1>3. ParseHeader(f) => f[2].generation \in 0..MaxGeneration
  <2>1. ParseHeader(f) => f[2] \in Cells /\ f[2].is = "generation"
    BY DEF ParseHeader, kHeaderLength
  <2>2. QED
    BY <2>1, CellKinds
<1> HIDE DEF r
<1>4. CASE f = <<>>
  BY ZenonT(60), ZenonT(90), <1>2, <1>4, ObjectType DEF Opened
<1>5. CASE f # <<>> /\ ~MagicPrefix(f)
  BY ZenonT(60), ZenonT(90), <1>2, <1>5, ObjectType DEF Opened
<1>6. CASE f # <<>> /\ MagicPrefix(f) /\ ~ParseHeader(f)
  BY ZenonT(60), ZenonT(90), <1>2, <1>6, ObjectType DEF Opened
<1>7. CASE f # <<>> /\ MagicPrefix(f) /\ ParseHeader(f)
  BY ZenonT(60), ZenonT(90), <1>2, <1>3, <1>7, ObjectType DEF Opened, r
<1>8. QED
  BY <1>4, <1>5, <1>6, <1>7

(* The record of a write that is short enough.                             *)
LEMMA WrittenRecord ==
  ASSUME NEW n \in 0..MaxSequence, NEW k \in Keys, NEW v \in Values \cup {Absent},
         CheckedRecordLength(k, v)
  PROVE  Record(n, k, v) \in Records
<1>1. Bytes(k) \in Nat /\ (v # Absent => Bytes(v) \in Nat)
  BY DataAssumption, WalFileAssumption
<1>2. Bytes(k) <= kMaxRecordLength /\ (v # Absent => Bytes(v) <= kMaxRecordLength)
  BY <1>1, DataAssumption, WalFileAssumption DEF CheckedRecordLength
<1>3. QED
  BY <1>2 DEF Record, Records

LEMMA CellsWritten ==
  /\ \A r \in Records : Frame(r) \in Seq(Cells)
  /\ \A g \in 0..MaxGeneration : Header(g) \in Seq(Cells)
  /\ Torn \in Cells /\ TornMagic \in Cells
<1>1. ASSUME NEW r \in Records PROVE Frame(r) \in Seq(Cells)
  <2>1. Length \in Cells /\ Checksum(r) \in Cells /\ r \in Cells
    BY DEF Cells
  <2>2. QED
    BY <2>1 DEF Frame
<1>2. ASSUME NEW g \in 0..MaxGeneration PROVE Header(g) \in Seq(Cells)
  <2>1. Magic \in Cells /\ Generation(g) \in Cells
    BY DEF Cells
  <2>2. QED
    BY <2>1 DEF Header
<1>3. Torn \in Cells /\ TornMagic \in Cells
  BY DEF Cells
<1>4. QED
  BY <1>1, <1>2, <1>3

LEMMA PartlyWritten ==
  ASSUME NEW cells \in Seq(Cells), NEW part \in WrittenPartly(cells)
  PROVE  part \in Seq(Cells)
<1>1. CASE \E n \in 0..Len(cells) : part = SubSeq(cells, 1, n)
  BY <1>1
<1>2. CASE \E n \in 0..(Len(cells) - 1) :
             part = Append(SubSeq(cells, 1, n), IF cells[n + 1] = Magic THEN TornMagic ELSE Torn)
  BY <1>2, CellsWritten
<1>3. QED
  BY ZenonT(60), ZenonT(90), <1>1, <1>2 DEF WrittenPartly

LEMMA AppendType ==
  ASSUME NEW f \in Seq(Cells), NEW w \in Objects, NEW k \in Keys,
         NEW v \in Values \cup {Absent}, NEW r \in AppendRecord(f, w, k, v)
  PROVE  /\ r \in Outcomes
         /\ r.how = "ok" => CheckedRecordLength(k, v)
<1> DEFINE header == IF w.header_pending_ /\ ~w.legacy_v2_ THEN Header(w.generation_) ELSE <<>>
           number == IF w.legacy_v2_ THEN 0 ELSE w.next_sequence_
           cells == header \o (IF Exhausted(w) THEN <<>> ELSE Frame(Record(number, k, v)))
           failed == [w EXCEPT !.failure_ = TRUE]
           moved == [w EXCEPT !.header_pending_ = FALSE,
                              !.next_sequence_ = IF w.legacy_v2_ THEN @ ELSE @ + 1]
<1>1. failed \in Objects /\ \A s \in {"good", "bad"} : [failed EXCEPT !.stream = s] \in Objects
  BY ZenonT(60), ZenonT(90) DEF Objects
<1>2. ~Exhausted(w) => moved \in Objects
  <2> DEFINE next == IF w.legacy_v2_ THEN w.next_sequence_ ELSE w.next_sequence_ + 1
  <2>1. w.next_sequence_ \in 1..MaxSequence
    BY DEF Objects
  <2>2. ~Exhausted(w) => next \in 1..MaxSequence
    BY <2>1, DataAssumption, WalFileAssumption DEF Exhausted
  <2>3. moved = [w EXCEPT !.header_pending_ = FALSE, !.next_sequence_ = next]
    BY DEF Objects
  <2> HIDE DEF next, moved
  <2>4. QED
    BY ZenonT(60), ZenonT(90), <2>2, <2>3 DEF Objects
<1>3. CheckedRecordLength(k, v) => cells \in Seq(Cells)
  <2>1. w.generation_ \in 0..MaxGeneration /\ number \in 0..MaxSequence
    BY DataAssumption, WalFileAssumption DEF Objects
  <2>2. header \in Seq(Cells)
    BY <2>1, CellsWritten
  <2>3. CheckedRecordLength(k, v) => Frame(Record(number, k, v)) \in Seq(Cells)
    <3> HIDE DEF number
    <3>1. QED
      BY <2>1, WrittenRecord, CellsWritten
  <2> HIDE DEF header, number
  <2>4. QED
    BY <2>2, <2>3
<1> HIDE DEF cells, moved, failed
<1>4. CASE r = Outcome(f, w, "refused") \/ r = Outcome(f, failed, "refused")
  <2>1. r \in Outcomes
    BY <1>1, <1>4, OutcomeType
  <2>2. r.how = "refused"
    BY <1>4 DEF Outcome
  <2>3. QED
    BY <2>1, <2>2
<1>5. CASE CheckedRecordLength(k, v) /\ ~Exhausted(w) /\ r = Outcome(f \o cells, moved, "ok")
  <2>1. f \o cells \in Seq(Cells)
    BY <1>3, <1>5
  <2>2. QED
    BY ZenonT(60), ZenonT(90), <1>2, <1>5, <2>1, OutcomeType
<1>6. CASE CheckedRecordLength(k, v) /\ r = Outcome(f \o cells, failed, "refused")
  <2>1. f \o cells \in Seq(Cells)
    BY <1>3, <1>6
  <2>2. QED
    BY ZenonT(60), ZenonT(90), <1>1, <1>6, <2>1, OutcomeType
<1>7. CASE CheckedRecordLength(k, v) /\ \E part \in WrittenPartly(cells) :
             r = Outcome(f \o part, [failed EXCEPT !.stream = IF part = cells THEN "good"
                                                              ELSE "bad"], "io")
  <2>1. PICK part \in WrittenPartly(cells) :
          r = Outcome(f \o part, [failed EXCEPT !.stream = IF part = cells THEN "good"
                                                           ELSE "bad"], "io")
    BY <1>7
  <2>2. f \o part \in Seq(Cells)
    BY <1>3, <1>7, PartlyWritten
  <2>3. [failed EXCEPT !.stream = IF part = cells THEN "good" ELSE "bad"] \in Objects
    BY <1>1
  <2>4. QED
    BY ZenonT(60), ZenonT(90), <1>7, <2>1, <2>2, <2>3, OutcomeType
<1>8. QED
  BY ZenonT(60), ZenonT(90), <1>4, <1>5, <1>6, <1>7 DEF AppendRecord, cells, moved, failed

LEMMA ClearType ==
  ASSUME NEW f \in Seq(Cells), NEW w \in Objects, NEW r \in Clear(f, w)
  PROVE  r \in Outcomes
<1> DEFINE closed == [w EXCEPT !.stream = "closed"]
           cleared == [w EXCEPT !.generation_ = @ + 1, !.next_sequence_ = 1,
                                !.legacy_v2_ = FALSE, !.header_pending_ = TRUE,
                                !.format_valid_ = TRUE, !.needs_recovery_ = FALSE,
                                !.stream = "good"]
<1>1. closed \in Objects /\ <<>> \in Seq(Cells)
  BY DEF Objects
<1>2. w.generation_ # MaxGeneration => cleared \in Objects
  <2>1. w.generation_ # MaxGeneration => w.generation_ + 1 \in 0..MaxGeneration
    BY DataAssumption, WalFileAssumption DEF Objects
  <2>2. 1 \in 1..MaxSequence
    BY DataAssumption, WalFileAssumption
  <2>3. QED
    BY ZenonT(60), ZenonT(90), <2>1, <2>2 DEF Objects
<1> HIDE DEF closed, cleared
<1>3. \/ r = Outcome(f, w, "refused")
      \/ /\ w.generation_ # MaxGeneration
         /\ \/ r = Outcome(<<>>, cleared, "ok") \/ r = Outcome(f, w, "io")
            \/ r = Outcome(f, closed, "io") \/ r = Outcome(<<>>, closed, "io")
            \/ r = Outcome(<<>>, cleared, "io")
  BY DEF Clear, closed, cleared
<1>4. QED
  BY ZenonT(60), ZenonT(90), <1>1, <1>2, <1>3, OutcomeType

LEMMA TruncateType ==
  ASSUME NEW f \in Seq(Cells), NEW w \in Objects, NEW offset \in Nat,
         NEW r \in TruncateTo(f, w, offset)
  PROVE  r \in Outcomes
<1> DEFINE closed == [w EXCEPT !.stream = "closed"]
           cut == SubSeq(f, 1, offset)
           done == Renumbered(cut, w, offset)
           rest == ReplayFromDetailed(cut, 0)
           good == [w EXCEPT !.stream = "good"]
           open == [w EXCEPT !.stream = "good", !.needs_recovery_ = FALSE]
           fresh == [open EXCEPT !.generation_ = @ + 1, !.next_sequence_ = 1,
                                 !.header_pending_ = TRUE, !.format_valid_ = TRUE]
           numbered == [open EXCEPT !.next_sequence_ = rest.last_sequence + 1]
<1>1. closed \in Objects /\ good \in Objects /\ open \in Objects
  BY ZenonT(60), ZenonT(90) DEF Objects
<1>2. w.generation_ # MaxGeneration => fresh \in Objects
  <2>1. w.generation_ # MaxGeneration => w.generation_ + 1 \in 0..MaxGeneration
    BY DataAssumption, WalFileAssumption DEF Objects
  <2>2. 1 \in 1..MaxSequence
    BY DataAssumption, WalFileAssumption
  <2>3. QED
    BY ZenonT(60), ZenonT(90), <2>1, <2>2 DEF Objects
<1>3. ASSUME offset <= Len(f), w.legacy_v2_ \/ offset # 0 \/ w.generation_ # MaxGeneration
      PROVE  done \in Outcomes
  <2>1. cut \in Seq(Cells)
    BY <1>3
  <2>2. rest.last_sequence # MaxSequence => numbered \in Objects
    <3>1. rest.last_sequence \in 0..MaxSequence
      <4> HIDE DEF cut
      <4>1. QED
        BY <2>1, ReplayReport
    <3>2. rest.last_sequence # MaxSequence => rest.last_sequence + 1 \in 1..MaxSequence
      BY <3>1, DataAssumption, WalFileAssumption
    <3> HIDE DEF rest, open
    <3>3. QED
      BY ZenonT(60), ZenonT(90), <1>1, <3>2 DEF Objects
  <2> HIDE DEF cut, rest, good, open, fresh, numbered
  <2>3. CASE w.legacy_v2_
    <3>1. done = Outcome(cut, open, "ok")
      BY <2>3 DEF Renumbered, open
    <3>2. QED
      BY <1>1, <2>1, <3>1, OutcomeType
  <2>4. CASE ~w.legacy_v2_ /\ offset = 0
    <3>1. done = Outcome(cut, fresh, "ok")
      BY <2>4 DEF Renumbered, open, fresh
    <3>2. QED
      BY <1>2, <1>3, <2>1, <2>4, <3>1, OutcomeType
  <2>5. CASE ~w.legacy_v2_ /\ offset # 0
    <3>1. \/ done = Outcome(cut, good, "refused")
          \/ rest.last_sequence # MaxSequence /\ done = Outcome(cut, numbered, "ok")
      BY <2>5 DEF Renumbered, open, good, numbered, rest
    <3>2. QED
      BY <1>1, <2>1, <2>2, <3>1, OutcomeType
  <2>6. QED
    BY <2>3, <2>4, <2>5
<1> HIDE DEF closed, cut, done
<1>4. CASE \/ r = Outcome(f, w, "refused") \/ r = Outcome(f, w, "io")
           \/ r = Outcome(f, closed, "refused") \/ r = Outcome(f, closed, "io")
  BY <1>1, <1>4, OutcomeType
<1>5. CASE /\ offset <= Len(f)
           /\ w.legacy_v2_ \/ offset # 0 \/ w.generation_ # MaxGeneration
           /\ \/ r = done \/ r = Outcome(cut, closed, "io") \/ r = [done EXCEPT !.how = "io"]
  <2>1. cut \in Seq(Cells)
    BY <1>5 DEF cut
  <2>2. done \in Outcomes
    BY <1>3, <1>5
  <2>3. [done EXCEPT !.how = "io"] \in Outcomes
    BY <2>2 DEF Outcomes
  <2>4. QED
    BY <1>1, <1>5, <2>1, <2>2, <2>3, OutcomeType
<1>6. QED
  BY <1>4, <1>5 DEF TruncateTo, closed, cut, done

LEMMA ReplayAndTruncateType ==
  ASSUME NEW f \in Seq(Cells), NEW w \in Objects, NEW offset \in Nat,
         NEW r \in ReplayFromAndTruncate(f, w, offset)
  PROVE  r \in Outcomes
<1>1. CASE r = Outcome(f, w, "ok")
  BY <1>1, OutcomeType
<1>2. CASE r \in TruncateTo(f, w, ReplayFromDetailed(f, offset).last_good_offset)
  <2>1. ReplayFromDetailed(f, offset).last_good_offset \in Nat
    BY ReplayReport
  <2>2. QED
    BY <1>2, <2>1, TruncateType
<1>3. QED
  BY <1>1, <1>2 DEF ReplayFromAndTruncate
------------------------------------------------------------------------------
(* Frames that replay applies.                                             *)

(* What is behind c reads as a frame, its number aside.                    *)
Sound(f, c) ==
  /\ c + 3 <= Len(f)
  /\ f[c + 1] = Length /\ f[c + 3] # Torn
  /\ f[c + 2] = Checksum(f[c + 3])
  /\ f[c + 3].op \in {"Set", "Delete"}

LEMMA AppliedMeans ==
  ASSUME NEW f \in Seq(Cells), NEW start \in Nat, NEW i \in Nat \ {0}
  PROVE  FrameStatus(f, start, i) = "Applied"
           <=> /\ Sound(f, start + 3 * (i - 1))
               /\ MagicPrefix(f) => SequenceOk(f, start, i)
<1> DEFINE cursor == start + 3 * (i - 1)
<1>1. cursor \in Nat /\ Len(f) \in Nat /\ Length # Torn
  BY DEF Length, Torn
<1> HIDE DEF cursor
<1>2. FrameStatus(f, start, i) =
        IF cursor >= Len(f) THEN "CleanEof"
        ELSE IF f[cursor + 1] = Torn THEN "PartialRecord"
        ELSE IF f[cursor + 1] # Length THEN "InvalidLength"
        ELSE IF Len(f) < cursor + 3 \/ f[cursor + 3] = Torn THEN "PartialRecord"
        ELSE IF f[cursor + 2] # Checksum(f[cursor + 3]) THEN "ChecksumMismatch"
        ELSE IF f[cursor + 3].op \notin {"Set", "Delete"} THEN "InvalidOpcode"
        ELSE IF MagicPrefix(f) /\ ~SequenceOk(f, start, i) THEN "InvalidSequence"
        ELSE "Applied"
  BY DEF FrameStatus, kFrameLength, cursor
<1>3. QED
  BY <1>1, <1>2 DEF Sound, cursor

LEMMA AppliedMost ==
  ASSUME NEW f \in Seq(Cells), NEW start \in Nat
  PROVE  /\ FrameStatus(f, start, Applied(f, start) + 1) # "Applied"
         /\ \A m \in Nat : (\A i \in 1..m : FrameStatus(f, start, i) = "Applied")
              => m <= Applied(f, start)
<1> DEFINE N == Applied(f, start)
           S == {n \in 0..(Len(f) \div 3) :
                   \A i \in 1..n : FrameStatus(f, start, i) = "Applied"}
<1>1. Len(f) \in Nat /\ Len(f) \div 3 \in Nat
  OBVIOUS
<1>2. S \in SUBSET (0..(Len(f) \div 3)) /\ 0 \in S
  BY <1>1
<1>3. N = Max(S)
  BY DEF Applied, kFrameLength
<1>4. \A n \in S : n <= N
  <2> HIDE DEF S, N
  <2>1. QED
    BY ZenonT(60), ZenonT(90), <1>1, <1>2, <1>3, MaxOfCounters
<1>5. N \in Nat /\ \A i \in 1..N : FrameStatus(f, start, i) = "Applied"
  BY AppliedCount
<1> HIDE DEF N
<1>6. ASSUME NEW m \in Nat, \A i \in 1..m : FrameStatus(f, start, i) = "Applied"
      PROVE  m <= N
  <2>1. m # 0 => start + 3 * m <= Len(f)
    BY <1>6, AppliedIsRecord
  <2>2. m \in 0..(Len(f) \div 3)
    BY <1>1, <2>1
  <2>3. QED
    BY <1>4, <1>6, <2>2
<1>7. FrameStatus(f, start, N + 1) # "Applied"
  <2>1. SUFFICES ASSUME FrameStatus(f, start, N + 1) = "Applied" PROVE FALSE
    OBVIOUS
  <2>2. \A i \in 1..(N + 1) : FrameStatus(f, start, i) = "Applied"
    BY <1>5, <2>1
  <2>3. N + 1 <= N
    BY <1>5, <1>6, <2>2
  <2>4. QED
    BY <1>5, <2>3
<1>8. QED
  BY <1>6, <1>7 DEF N

(* The number of frames applied is known from where they stop.             *)
LEMMA AppliedIs ==
  ASSUME NEW f \in Seq(Cells), NEW start \in Nat, NEW n \in Nat,
         \A i \in 1..n : FrameStatus(f, start, i) = "Applied",
         FrameStatus(f, start, n + 1) # "Applied"
  PROVE  Applied(f, start) = n
<1>1. Applied(f, start) \in Nat /\ n <= Applied(f, start)
  BY AppliedCount, AppliedMost
<1>2. n < Applied(f, start) => FrameStatus(f, start, n + 1) = "Applied"
  BY <1>1, AppliedCount
<1>3. QED
  BY <1>1, <1>2

(* The header, if any, and n frames that replay applies.                   *)
HeaderOk(f) == MagicPrefix(f) => ParseHeader(f)
Frames(f, n) ==
  /\ n \in Nat /\ HeaderOk(f)
  /\ Len(f) = FirstFrame(f) + 3 * n
  /\ \A i \in 1..n : FrameStatus(f, FirstFrame(f), i) = "Applied"
Whole(f) == \E n \in Nat : Frames(f, n)

(* What a replay reports that does not stop at the header.                 *)
LEMMA ReplayFrames ==
  ASSUME NEW f \in Seq(Cells), HeaderOk(f), NEW offset \in Nat,
         f = <<>> => offset = 0, MagicPrefix(f) => offset # 1
  PROVE  LET start == IF offset = 0 THEN FirstFrame(f) ELSE offset
             n == Applied(f, start)
             r == ReplayFromDetailed(f, offset) IN
         /\ start \in Nat
         /\ r.start = start /\ r.applied_operations = n
         /\ r.last_good_offset = start + 3 * n
         /\ r.status = FrameStatus(f, start, n + 1)
         /\ r.last_sequence = IF MagicPrefix(f) /\ n > 0 THEN f[start + 3 * n].sequence ELSE 0
<1> DEFINE start == IF offset = 0 THEN FirstFrame(f) ELSE offset
           n == Applied(f, start)
           r == ReplayFromDetailed(f, offset)
<1>1. start \in Nat
  BY DEF FirstFrame, kHeaderLength
<1>2. CASE f # <<>>
  <2>1. start = IF MagicPrefix(f) /\ offset = 0 THEN kHeaderLength ELSE offset
    BY DEF FirstFrame
  <2>2. ~(MagicPrefix(f) /\ (~ParseHeader(f) \/ offset \in 1..(kHeaderLength - 1)))
    BY DEF HeaderOk, kHeaderLength
  <2> HIDE DEF start
  <2>3. r = [status |-> FrameStatus(f, start, n + 1), start |-> start, applied_operations |-> n,
             last_good_offset |-> start + 3 * n,
             last_sequence |-> IF MagicPrefix(f) /\ n > 0
                                 THEN f[start + 3 * n].sequence ELSE 0]
    BY <1>2, <2>1, <2>2 DEF ReplayFromDetailed, kFrameLength
  <2> HIDE DEF r, n
  <2>4. QED
    BY <1>1, <2>3 DEF r, n, start
<1>3. CASE f = <<>>
  <2>1. start = 0 /\ ~MagicPrefix(f)
    BY <1>3 DEF FirstFrame, MagicPrefix
  <2>2. FrameStatus(f, 0, 1) = "CleanEof"
    BY <1>3 DEF FrameStatus, kFrameLength
  <2>3. n = 0
    <3>1. Applied(f, 0) = 0
      BY <2>2, AppliedIs
    <3>2. QED
      BY <2>1, <3>1
  <2>4. /\ r.start = 0 /\ r.applied_operations = 0 /\ r.last_good_offset = 0
        /\ r.status = "CleanEof" /\ r.last_sequence = 0
    BY <1>3, <2>1 DEF ReplayFromDetailed, kFrameLength
  <2> HIDE DEF r, n, start
  <2>5. QED
    BY <2>1, <2>2, <2>3, <2>4 DEF r, n, start
<1>4. QED
  BY <1>2, <1>3

LastNumber(f, n) == IF MagicPrefix(f) /\ n > 0 THEN f[FirstFrame(f) + 3 * n].sequence ELSE 0

(* A whole log is one that replay reads to its end, and no other is.       *)
LEMMA FramesReplay ==
  ASSUME NEW f \in Seq(Cells), NEW n, Frames(f, n)
  PROVE  LET r == ReplayFromDetailed(f, 0) IN
         /\ r.status = "CleanEof" /\ r.start = FirstFrame(f) /\ r.applied_operations = n
         /\ r.last_good_offset = Len(f) /\ r.last_sequence = LastNumber(f, n)
<1> DEFINE start == FirstFrame(f)
<1>1. n \in Nat /\ start \in Nat /\ Len(f) = start + 3 * n /\ HeaderOk(f)
  BY DEF Frames, FirstFrame, kHeaderLength
<1>2. FrameStatus(f, start, n + 1) = "CleanEof"
  <2>1. start + 3 * ((n + 1) - 1) >= Len(f)
    BY <1>1
  <2>2. QED
    BY <2>1 DEF FrameStatus, kFrameLength
<1>3. Applied(f, start) = n
  BY ZenonT(60), ZenonT(90), <1>1, <1>2, AppliedIs DEF Frames
<1> DEFINE r == ReplayFromDetailed(f, 0)
           k == Applied(f, start)
<1>4. /\ r.start = start /\ r.applied_operations = k
      /\ r.last_good_offset = start + 3 * k
      /\ r.status = FrameStatus(f, start, k + 1)
      /\ r.last_sequence = IF MagicPrefix(f) /\ k > 0 THEN f[start + 3 * k].sequence ELSE 0
  BY <1>1, ReplayFrames
<1> HIDE DEF r
<1>5. QED
  BY <1>1, <1>2, <1>3, <1>4 DEF r, LastNumber

LEMMA EmptyIsWhole == Frames(<<>>, 0) /\ LastNumber(<<>>, 0) = 0
  BY DEF Frames, HeaderOk, FirstFrame, MagicPrefix, LastNumber

(* The first frames of a log, as far as a replay from the start gets, are  *)
(* within it.                                                              *)
LEMMA FramesWithin ==
  ASSUME NEW f \in Seq(Cells), HeaderOk(f), NEW n \in Nat,
         \A i \in 1..n : FrameStatus(f, FirstFrame(f), i) = "Applied"
  PROVE  /\ FirstFrame(f) \in {0, 2} /\ FirstFrame(f) + 3 * n <= Len(f)
         /\ FirstFrame(f) = 2 <=> MagicPrefix(f)
<1>1. FirstFrame(f) \in {0, 2} /\ (FirstFrame(f) = 2 <=> MagicPrefix(f))
  BY DEF FirstFrame, kHeaderLength
<1>2. FirstFrame(f) <= Len(f)
  BY <1>1 DEF HeaderOk, ParseHeader, kHeaderLength
<1>3. n # 0 => FirstFrame(f) + 3 * n <= Len(f)
  <2>1. n # 0 => FrameStatus(f, FirstFrame(f), n) = "Applied" /\ n \in Nat \ {0}
    OBVIOUS
  <2>2. QED
    BY <1>1, <2>1, AppliedIsRecord
<1>4. QED
  BY <1>1, <1>2, <1>3

LEMMA CleanIsWhole ==
  ASSUME NEW f \in Seq(Cells), ReplayFromDetailed(f, 0).status = "CleanEof"
  PROVE  Whole(f)
<1>1. CASE f = <<>>
  BY <1>1, EmptyIsWhole DEF Whole
<1>2. CASE f # <<>>
  <2>1. HeaderOk(f)
    BY <1>2 DEF ReplayFromDetailed, HeaderOk
  <2> DEFINE start == FirstFrame(f)
             n == Applied(f, start)
  <2>2. start \in Nat /\ FrameStatus(f, start, n + 1) = "CleanEof"
    BY <2>1, ReplayFrames
  <2>3. n \in Nat /\ \A i \in 1..n : FrameStatus(f, start, i) = "Applied"
    BY <2>2, AppliedCount
  <2>4. start + 3 * n <= Len(f)
    BY <2>1, <2>3, FramesWithin
  <2>5. start + 3 * n >= Len(f)
    <3>1. start + 3 * ((n + 1) - 1) >= Len(f)
      BY <2>2 DEF FrameStatus, kFrameLength
    <3> HIDE DEF n, start
    <3>2. QED
      BY <2>2, <2>3, <3>1
  <2>6. Len(f) = start + 3 * n
    BY <2>2, <2>3, <2>4, <2>5
  <2> HIDE DEF n
  <2>7. QED
    BY <2>1, <2>3, <2>6 DEF Whole, Frames
<1>3. QED
  BY <1>1, <1>2

(* Frames within the part two logs share read alike.                       *)
Continues(g, f) ==
  f # <<>> /\ Len(f) <= Len(g) /\ \A j \in 1..Len(f) : g[j] = f[j]

LEMMA SameHeader ==
  ASSUME NEW f \in Seq(Cells), NEW g \in Seq(Cells), Continues(g, f)
  PROVE  /\ MagicPrefix(g) = MagicPrefix(f) /\ FirstFrame(g) = FirstFrame(f)
         /\ ParseHeader(f) => ParseHeader(g)
         /\ Len(f) >= 2 /\ ParseHeader(g) => ParseHeader(f)
<1>1. g # <<>> /\ g[1] = f[1] /\ (Len(f) >= 2 => g[2] = f[2])
  BY DEF Continues
<1>2. MagicPrefix(g) = MagicPrefix(f)
  BY <1>1 DEF MagicPrefix, Continues
<1>3. QED
  BY <1>1, <1>2 DEF FirstFrame, ParseHeader, Continues, kHeaderLength

LEMMA SameFrame ==
  ASSUME NEW f \in Seq(Cells), NEW g \in Seq(Cells), Continues(g, f),
         NEW start \in Nat, NEW i \in Nat \ {0}, start + 3 * i <= Len(f)
  PROVE  FrameStatus(g, start, i) = "Applied" <=> FrameStatus(f, start, i) = "Applied"
<1> DEFINE c == start + 3 * (i - 1)
<1>1. /\ c \in Nat /\ c + 3 = start + 3 * i
      /\ c + 3 <= Len(f) /\ c + 3 <= Len(g)
      /\ g[c + 1] = f[c + 1] /\ g[c + 2] = f[c + 2] /\ g[c + 3] = f[c + 3]
      /\ i > 1 => g[c] = f[c]
  BY DEF Continues
<1>2. Sound(g, c) <=> Sound(f, c)
  BY <1>1 DEF Sound
<1>3. SequenceOk(g, start, i) <=> SequenceOk(f, start, i)
  <2>1. g[start + 3 * i] = f[start + 3 * i]
    BY <1>1
  <2>2. i > 1 => g[start + 3 * (i - 1)] = f[start + 3 * (i - 1)]
    BY <1>1
  <2>3. QED
    BY <2>1, <2>2 DEF SequenceOk, kFrameLength
<1>4. QED
  BY <1>2, <1>3, AppliedMeans, SameHeader

(* A frame with the next number, written behind a whole log, is read.      *)
LEMMA FrameAppended ==
  ASSUME NEW f \in Seq(Cells), NEW n, Frames(f, n),
         NEW rec \in Records, rec.op \in {"Set", "Delete"},
         MagicPrefix(f) => rec.sequence = LastNumber(f, n) + 1
  PROVE  LET g == f \o Frame(rec) IN
         /\ g \in Seq(Cells) /\ g # <<>>
         /\ MagicPrefix(g) = MagicPrefix(f)
         /\ Frames(g, n + 1)
         /\ LastNumber(g, n + 1) = IF MagicPrefix(f) THEN rec.sequence ELSE 0
<1> DEFINE g == f \o Frame(rec)
           L == Len(f)
           start == FirstFrame(f)
<1>1. n \in Nat /\ HeaderOk(f) /\ L \in Nat /\ L = start + 3 * n /\ start \in {0, 2}
      /\ (start = 2 <=> MagicPrefix(f))
  BY FramesWithin DEF Frames
<1>2. Frame(rec) \in Seq(Cells) /\ Len(Frame(rec)) = 3
      /\ Frame(rec)[1] = Length /\ Frame(rec)[2] = Checksum(rec) /\ Frame(rec)[3] = rec
  BY CellsWritten DEF Frame
<1>3. /\ g \in Seq(Cells) /\ g # <<>> /\ Len(g) = L + 3
      /\ g[L + 1] = Length /\ g[L + 2] = Checksum(rec) /\ g[L + 3] = rec
      /\ \A j \in 1..L : g[j] = f[j]
  <2> DEFINE fr == Frame(rec)
  <2> HIDE DEF fr
  <2>1. g = f \o fr /\ fr \in Seq(Cells) /\ Len(fr) = 3
        /\ fr[1] = Length /\ fr[2] = Checksum(rec) /\ fr[3] = rec
    BY <1>2 DEF fr
  <2> HIDE DEF g
  <2>2. /\ g \in Seq(Cells) /\ Len(g) = L + Len(fr)
        /\ \A j \in 1..L : g[j] = f[j]
        /\ \A j \in 1..Len(fr) : g[L + j] = fr[j]
    <3>1. /\ f \o fr \in Seq(Cells) /\ Len(f \o fr) = L + Len(fr)
          /\ \A j \in 1..L : (f \o fr)[j] = f[j]
          /\ \A j \in 1..Len(fr) : (f \o fr)[L + j] = fr[j]
      <4>1. fr \in Seq(Cells)
        BY <2>1
      <4>2. QED
        BY ONLY <4>1, f \in Seq(Cells)
    <3>2. QED
      BY Zenon, <2>1, <3>1
  <2>3. g # <<>> /\ Len(g) = L + 3
    BY ONLY <1>1, <2>1, <2>2
  <2>4. g[L + 1] = fr[1] /\ g[L + 2] = fr[2] /\ g[L + 3] = fr[3]
    <3>1. 1 \in 1..Len(fr) /\ 2 \in 1..Len(fr) /\ 3 \in 1..Len(fr)
      BY <2>1
    <3>2. QED
      BY Zenon, <2>2, <3>1
  <2>5. QED
    BY Zenon, <2>1, <2>2, <2>3, <2>4
<1> HIDE DEF g
<1>4. f # <<>> => Continues(g, f)
  BY <1>1, <1>3 DEF Continues
<1>5. /\ MagicPrefix(g) = MagicPrefix(f) /\ FirstFrame(g) = start /\ HeaderOk(g)
  <2>1. CASE f = <<>>
    <3>1. g[1] = Length /\ Length # Magic /\ Length # TornMagic
      BY <1>3, <2>1 DEF Length, Magic, TornMagic
    <3>2. MagicPrefix(g) = FALSE /\ MagicPrefix(f) = FALSE
      BY <2>1, <3>1 DEF MagicPrefix
    <3>3. QED
      BY ZenonT(60), ZenonT(90), <3>2 DEF FirstFrame, HeaderOk
  <2>2. CASE f # <<>>
    BY <1>1, <1>3, <1>4, <2>2, SameHeader DEF HeaderOk
  <2>3. QED
    BY <2>1, <2>2
<1>6. ASSUME NEW i \in 1..n PROVE FrameStatus(g, start, i) = "Applied"
  <2>1. f # <<>> /\ i \in Nat \ {0} /\ start + 3 * i <= L
    BY <1>1
  <2>2. FrameStatus(f, start, i) = "Applied"
    BY DEF Frames
  <2>3. QED
    BY <1>1, <1>3, <1>4, <2>1, <2>2, SameFrame
<1>7. LastNumber(f, n) \in Nat
  <2>1. n > 0 => f[start + 3 * n] \in Records
    <3>1. n > 0 => FrameStatus(f, start, n) = "Applied"
      BY <1>1 DEF Frames
    <3>2. QED
      BY <1>1, <3>1, AppliedIsRecord
  <2>2. QED
    BY <2>1, WalFileAssumption DEF LastNumber, Records
<1>8. FrameStatus(g, start, n + 1) = "Applied"
  <2>1. Sound(g, start + 3 * ((n + 1) - 1))
    <3>1. rec # Torn
      BY DEF Records, Torn
    <3>2. start + 3 * ((n + 1) - 1) = L
      BY <1>1
    <3>3. QED
      BY <1>1, <1>3, <3>1, <3>2 DEF Sound
  <2>2. MagicPrefix(g) => SequenceOk(g, start, n + 1)
    <3>1. SUFFICES ASSUME MagicPrefix(f) PROVE SequenceOk(g, start, n + 1)
      BY <1>5
    <3>2. g[start + 3 * (n + 1)].sequence = LastNumber(f, n) + 1
      BY <1>1, <1>3, <3>1
    <3>3. n + 1 > 1 => g[start + 3 * ((n + 1) - 1)].sequence = LastNumber(f, n)
      BY <1>1, <1>3, <3>1 DEF LastNumber
    <3>4. n + 1 = 1 => LastNumber(f, n) = 0
      BY <1>1 DEF LastNumber
    <3>5. QED
      BY <1>1, <1>7, <3>2, <3>3, <3>4 DEF SequenceOk, kFrameLength
  <2>3. QED
    BY <1>1, <1>3, <2>1, <2>2, AppliedMeans
<1>9. Frames(g, n + 1)
  BY <1>1, <1>3, <1>5, <1>6, <1>8 DEF Frames
<1>10. LastNumber(g, n + 1) = IF MagicPrefix(f) THEN rec.sequence ELSE 0
  BY <1>1, <1>3, <1>5 DEF LastNumber
<1>11. QED
  BY <1>3, <1>5, <1>9, <1>10 DEF g

(* A frame written only in part is not.                                    *)
LEMMA FrameTorn ==
  ASSUME NEW f \in Seq(Cells), NEW rec \in Records,
         NEW part \in WrittenPartly(Frame(rec)), part # Frame(rec)
  PROVE  ~Sound(f \o part, Len(f))
<1>1. Frame(rec) \in Seq(Cells) /\ Len(Frame(rec)) = 3
      /\ Frame(rec)[1] = Length /\ Frame(rec)[2] = Checksum(rec) /\ Frame(rec)[3] = rec
  BY CellsWritten DEF Frame
<1>2. part \in Seq(Cells)
  BY <1>1, PartlyWritten
<1>3. CASE \E m \in 0..Len(Frame(rec)) : part = SubSeq(Frame(rec), 1, m)
  <2>1. PICK m \in 0..3 : part = SubSeq(Frame(rec), 1, m)
    BY <1>1, <1>3
  <2>2. m # 3
    BY <1>1, <2>1
  <2>3. Len(part) = m
    BY <1>1, <2>1
  <2>4. QED
    BY <1>2, <2>2, <2>3 DEF Sound
<1>4. CASE \E m \in 0..(Len(Frame(rec)) - 1) :
             part = Append(SubSeq(Frame(rec), 1, m),
                           IF Frame(rec)[m + 1] = Magic THEN TornMagic ELSE Torn)
  <2>1. PICK m \in 0..(Len(Frame(rec)) - 1) :
          part = Append(SubSeq(Frame(rec), 1, m),
                        IF Frame(rec)[m + 1] = Magic THEN TornMagic ELSE Torn)
    BY <1>4
  <2>2. m \in 0..2 /\ Frame(rec)[m + 1] # Magic
    <3>1. Length # Magic /\ Checksum(rec) # Magic /\ rec # Magic
      BY DEF Length, Checksum, Magic, Records
    <3>2. QED
      BY <1>1, <3>1
  <2>3. Len(part) = m + 1 /\ part[m + 1] = Torn
    BY <1>1, <2>1, <2>2, CellsWritten
  <2>4. (f \o part)[Len(f) + (m + 1)] = Torn /\ Len(f \o part) = Len(f) + (m + 1)
    BY <1>2, <2>3
  <2>5. m # 2 => ~(Len(f) + 3 <= Len(f \o part))
    BY ONLY <2>2, <2>4, Len(f) \in Nat
  <2>6. m = 2 => (f \o part)[Len(f) + 3] = Torn
    BY <2>4
  <2>7. QED
    BY <2>5, <2>6 DEF Sound
<1>5. QED
  BY ZenonT(60), ZenonT(90), <1>3, <1>4 DEF WrittenPartly

(* Frames behind an offset between frames read from there as they do from  *)
(* the start, but the first may have any number.                           *)
LEMMA FramesFrom ==
  ASSUME NEW f \in Seq(Cells), NEW m \in Nat, NEW i \in Nat \ {0}
  PROVE  LET start == FirstFrame(f)
             offset == start + 3 * m IN
         /\ FrameStatus(f, start, m + i) = "Applied" => FrameStatus(f, offset, i) = "Applied"
         /\ i > 1 /\ FrameStatus(f, offset, i) = "Applied"
              => FrameStatus(f, start, m + i) = "Applied"
<1> DEFINE start == FirstFrame(f)
           offset == start + 3 * m
<1>1. start \in {0, 2} /\ (start = 2 <=> MagicPrefix(f))
  BY DEF FirstFrame, kHeaderLength
<1> HIDE DEF start
<1>2. /\ offset \in Nat /\ m + i \in Nat \ {0}
      /\ offset + 3 * (i - 1) = start + 3 * ((m + i) - 1)
      /\ offset + 3 * i = start + 3 * (m + i)
  BY <1>1
<1>3. MagicPrefix(f) => (SequenceOk(f, start, m + i) => SequenceOk(f, offset, i))
  <2>1. CASE i = 1 /\ start = 2
    <3>1. offset = 2 => m + i = 1
      BY <2>1
    <3> HIDE DEF offset
    <3>2. QED
      BY <1>2, <2>1, <3>1 DEF SequenceOk, kFrameLength, kHeaderLength
  <2>2. CASE i > 1
    <3>1. m + i > 1
      BY <2>2
    <3> HIDE DEF offset
    <3> DEFINE here == f[offset + 3 * i]
               before == f[offset + 3 * (i - 1)]
    <3>2. /\ here = f[start + 3 * (m + i)]
          /\ before = f[start + 3 * ((m + i) - 1)]
      BY <1>2
    <3> HIDE DEF here, before
    <3>3. SequenceOk(f, start, m + i)
            => here.sequence # 0 /\ here.sequence = before.sequence + 1
      BY <3>1, <3>2 DEF SequenceOk, kFrameLength
    <3>4. here.sequence # 0 /\ here.sequence = before.sequence + 1
            => SequenceOk(f, offset, i)
      BY <2>2 DEF SequenceOk, kFrameLength, here, before
    <3>5. QED
      BY <3>3, <3>4
  <2>3. QED
    BY <1>1, <2>1, <2>2
<1>4. i > 1 => (SequenceOk(f, offset, i) => SequenceOk(f, start, m + i))
  BY <1>1, <1>2 DEF SequenceOk, kFrameLength, kHeaderLength
<1>5. FrameStatus(f, start, m + i) = "Applied"
        <=> Sound(f, offset + 3 * (i - 1)) /\ (MagicPrefix(f) => SequenceOk(f, start, m + i))
  BY <1>1, <1>2, AppliedMeans
<1>6. FrameStatus(f, offset, i) = "Applied"
        <=> Sound(f, offset + 3 * (i - 1)) /\ (MagicPrefix(f) => SequenceOk(f, offset, i))
  <2> HIDE DEF offset
  <2>1. QED
    BY <1>2, AppliedMeans
<1>7. QED
  BY <1>3, <1>4, <1>5, <1>6 DEF start

------------------------------------------------------------------------------
(* Offsets between records.                                                *)

(* The first m frames are applied, and the numbering goes on behind them.  *)
Cut(f, offset, m) ==
  /\ m \in Nat /\ offset = FirstFrame(f) + 3 * m /\ HeaderOk(f)
  /\ \A i \in 1..m : FrameStatus(f, FirstFrame(f), i) = "Applied"
  /\ FrameStatus(f, offset, 1) = "Applied"
       => FrameStatus(f, FirstFrame(f), m + 1) = "Applied"

LEMMA CutIsBoundary ==
  ASSUME NEW f \in Seq(Cells), NEW offset, NEW m, Cut(f, offset, m)
  PROVE  Boundary(f, offset)
<1>1. m \in Nat /\ FirstFrame(f) \in {0, 2} /\ FirstFrame(f) + 3 * m <= Len(f)
  BY FramesWithin DEF Cut
<1>2. m \in 0..Len(f)
  BY <1>1
<1>3. QED
  BY <1>2 DEF Cut, Boundary, HeaderOk, kFrameLength

LEMMA BoundaryIsCut ==
  ASSUME NEW f \in Seq(Cells), NEW offset, Boundary(f, offset), offset # 0
  PROVE  /\ \E m \in Nat : Cut(f, offset, m)
         /\ offset \in 2..Len(f) /\ f # <<>>
<1>1. PICK m \in 0..Len(f) :
        /\ offset = FirstFrame(f) + kFrameLength * m
        /\ MagicPrefix(f) => ParseHeader(f)
        /\ \A i \in 1..m : FrameStatus(f, FirstFrame(f), i) = "Applied"
        /\ FrameStatus(f, offset, 1) = "Applied"
             => FrameStatus(f, FirstFrame(f), m + 1) = "Applied"
  BY DEF Boundary
<1>2. m \in Nat /\ HeaderOk(f) /\ offset = FirstFrame(f) + 3 * m
  BY <1>1 DEF HeaderOk, kFrameLength
<1>3. FirstFrame(f) \in {0, 2} /\ FirstFrame(f) + 3 * m <= Len(f)
  BY <1>1, <1>2, FramesWithin
<1>4. Cut(f, offset, m)
  BY <1>1, <1>2 DEF Cut
<1>5. offset \in 2..Len(f) /\ f # <<>>
  BY <1>2, <1>3
<1>6. QED
  BY <1>2, <1>4, <1>5

(* The end of a whole log is one.                                          *)
LEMMA EndIsBoundary ==
  ASSUME NEW f \in Seq(Cells), Whole(f)
  PROVE  Boundary(f, Len(f))
<1>1. PICK n \in Nat : Frames(f, n)
  BY DEF Whole
<1>2. FrameStatus(f, Len(f), 1) = "CleanEof"
  <2>1. Len(f) + 3 * (1 - 1) >= Len(f)
    OBVIOUS
  <2>2. QED
    BY <2>1 DEF FrameStatus, kFrameLength
<1>3. Cut(f, Len(f), n)
  BY <1>1, <1>2 DEF Cut, Frames
<1>4. QED
  BY <1>3, CutIsBoundary

(* A replay from such an offset, or from the start, gets no less far, and  *)
(* reads no further than the log goes.                                     *)
LEMMA ReplayFromCut ==
  ASSUME NEW f \in Seq(Cells), NEW offset, NEW m, Cut(f, offset, m), f # <<>>
  PROVE  LET start == FirstFrame(f)
             n == Applied(f, start)
             all == ReplayFromDetailed(f, 0)
             r == ReplayFromDetailed(f, offset) IN
         /\ n \in Nat /\ m <= n /\ start + 3 * n <= Len(f)
         /\ \A i \in 1..n : FrameStatus(f, start, i) = "Applied"
         /\ all.start = start /\ all.applied_operations = n
         /\ all.last_good_offset = start + 3 * n
         /\ offset # 0 => /\ r.start = offset /\ r.applied_operations = n - m
                          /\ r.last_good_offset = start + 3 * n
<1> DEFINE start == FirstFrame(f)
           n == Applied(f, start)
           all == ReplayFromDetailed(f, 0)
           r == ReplayFromDetailed(f, offset)
<1>1. /\ m \in Nat /\ offset = start + 3 * m /\ HeaderOk(f)
      /\ start \in {0, 2} /\ (start = 2 <=> MagicPrefix(f))
  BY FramesWithin DEF Cut
<1>2. n \in Nat /\ (\A i \in 1..n : FrameStatus(f, start, i) = "Applied")
      /\ FrameStatus(f, start, n + 1) # "Applied"
  BY ZenonT(60), ZenonT(90), <1>1, AppliedCount, AppliedMost
<1>3. m <= n
  BY <1>1, AppliedMost DEF Cut
<1>4. start + 3 * n <= Len(f)
  BY <1>1, <1>2, FramesWithin
<1>5. all.start = start /\ all.applied_operations = n /\ all.last_good_offset = start + 3 * n
  BY <1>1, ReplayFrames
<1>6. ASSUME offset # 0
      PROVE  r.start = offset /\ r.applied_operations = n - m
             /\ r.last_good_offset = start + 3 * n
  <2>1. offset \in Nat /\ (MagicPrefix(f) => offset # 1)
    BY <1>1
  <2>2. \A i \in 1..(n - m) : FrameStatus(f, offset, i) = "Applied"
    <3>1. ASSUME NEW i \in 1..(n - m) PROVE FrameStatus(f, offset, i) = "Applied"
      <4>1. i \in Nat \ {0} /\ m + i \in 1..n
        BY <1>1, <1>2, <1>3
      <4>2. FrameStatus(f, start, m + i) = "Applied"
        BY <1>2, <4>1
      <4>3. QED
        BY <1>1, <4>1, <4>2, FramesFrom
    <3>2. QED
      BY <3>1
  <2>3. FrameStatus(f, offset, (n - m) + 1) # "Applied"
    <3>1. SUFFICES ASSUME FrameStatus(f, offset, (n - m) + 1) = "Applied" PROVE FALSE
      OBVIOUS
    <3>2. (n - m) + 1 \in Nat \ {0} /\ m + ((n - m) + 1) = n + 1
      BY <1>1, <1>2, <1>3
    <3>3. CASE (n - m) + 1 = 1
      <4>1. m = n
        BY <1>1, <1>2, <3>3
      <4>2. QED
        BY <1>2, <3>1, <3>3, <4>1 DEF Cut
    <3>4. CASE (n - m) + 1 > 1
      <4>1. FrameStatus(f, start, m + ((n - m) + 1)) = "Applied"
        BY <1>1, <3>1, <3>2, <3>4, FramesFrom
      <4>2. QED
        BY <1>2, <3>2, <4>1
    <3>5. QED
      BY <3>2, <3>3, <3>4
  <2>4. Applied(f, offset) = n - m
    BY <1>1, <1>2, <1>3, <2>1, <2>2, <2>3, AppliedIs
  <2> HIDE DEF n, start
  <2>5. r.start = offset /\ r.applied_operations = Applied(f, offset)
        /\ r.last_good_offset = offset + 3 * Applied(f, offset)
    BY <1>1, <1>6, <2>1, ReplayFrames
  <2> HIDE DEF r
  <2>6. QED
    BY <1>1, <1>2, <2>4, <2>5
<1>7. QED
  BY <1>2, <1>3, <1>4, <1>5, <1>6

(* Appending to a whole log, completely or in part, keeps them.            *)
LEMMA BoundaryKeptByAppend ==
  ASSUME NEW f \in Seq(Cells), NEW n, Frames(f, n), f # <<>>,
         NEW rec \in Records, rec.op \in {"Set", "Delete"},
         MagicPrefix(f) => rec.sequence = LastNumber(f, n) + 1,
         NEW part \in WrittenPartly(Frame(rec)), NEW offset, Boundary(f, offset)
  PROVE  Boundary(f \o part, offset)
<1> DEFINE g == f \o part
           start == FirstFrame(f)
<1>1. CASE offset = 0
  BY <1>1 DEF Boundary
<1>2. CASE offset # 0
  <2>1. PICK m \in Nat : Cut(f, offset, m)
    BY <1>2, BoundaryIsCut
  <2>2. Frame(rec) \in Seq(Cells) /\ part \in Seq(Cells) /\ g \in Seq(Cells)
    BY CellsWritten, PartlyWritten
  <2>3. Continues(g, f)
    BY <2>2 DEF Continues
  <2>4. /\ FirstFrame(g) = start /\ MagicPrefix(g) = MagicPrefix(f) /\ HeaderOk(f)
        /\ HeaderOk(g)
    BY ZenonT(60), ZenonT(90), <2>1, <2>2, <2>3, SameHeader DEF HeaderOk, Cut
  <2>5. /\ start \in {0, 2} /\ start + 3 * m <= Len(f) /\ offset = start + 3 * m
        /\ \A i \in 1..m : FrameStatus(f, start, i) = "Applied"
    BY <2>1, FramesWithin DEF Cut
  <2>6. n \in Nat /\ Len(f) = start + 3 * n
        /\ \A i \in 1..n : FrameStatus(f, start, i) = "Applied"
    BY DEF Frames
  <2> HIDE DEF g, start
  <2>7. m <= n
    BY <2>5, <2>6
  <2>8. ASSUME NEW i \in 1..n PROVE FrameStatus(g, start, i) = "Applied"
    <3>1. i \in Nat \ {0} /\ start \in Nat /\ start + 3 * i <= Len(f)
      BY <2>5, <2>6
    <3>2. QED
      BY <2>2, <2>3, <2>6, <3>1, SameFrame
  <2>9. ASSUME FrameStatus(g, offset, 1) = "Applied"
        PROVE  FrameStatus(g, start, m + 1) = "Applied"
    <3>1. CASE m < n
      BY <2>6, <2>8, <3>1
    <3>2. CASE m = n /\ part = Frame(rec)
      <4>1. Frames(g, n + 1)
        BY <3>2, FrameAppended DEF g
      <4>2. n + 1 \in 1..(n + 1)
        BY <2>6
      <4>3. QED
        BY <2>4, <3>2, <4>1, <4>2 DEF Frames
    <3>3. CASE m = n /\ part # Frame(rec)
      <4>1. ~Sound(g, Len(f))
        BY <3>3, FrameTorn DEF g
      <4>2. offset \in Nat /\ offset + 3 * (1 - 1) = Len(f)
        BY <2>5, <2>6, <3>3
      <4>3. Sound(g, offset + 3 * (1 - 1))
        BY <2>2, <2>9, <4>2, AppliedMeans
      <4>4. QED
        BY <4>1, <4>2, <4>3
    <3>4. QED
      BY <2>6, <2>7, <3>1, <3>2, <3>3
  <2>10. \A i \in 1..m : FrameStatus(g, start, i) = "Applied"
    BY <2>6, <2>7, <2>8
  <2>11. Cut(g, offset, m)
    BY <2>4, <2>5, <2>9, <2>10 DEF Cut
  <2>12. QED
    BY ZenonT(60), ZenonT(90), <2>2, <2>11, CutIsBoundary DEF g
<1>3. QED
  BY <1>1, <1>2

(* Cutting the log keeps the ones before the cut.                          *)
LEMMA BoundaryKeptByCut ==
  ASSUME NEW f \in Seq(Cells), NEW c \in 0..Len(f), NEW offset, Boundary(f, offset),
         offset <= c
  PROVE  Boundary(SubSeq(f, 1, c), offset)
<1> DEFINE g == SubSeq(f, 1, c)
           start == FirstFrame(f)
<1>1. CASE offset = 0
  BY <1>1 DEF Boundary
<1>2. CASE offset # 0
  <2>1. PICK m \in Nat : Cut(f, offset, m)
    BY <1>2, BoundaryIsCut
  <2>2. offset \in 2..Len(f)
    BY <1>2, BoundaryIsCut
  <2>3. g \in Seq(Cells) /\ Len(g) = c /\ \A j \in 1..c : g[j] = f[j]
    OBVIOUS
  <2>4. Continues(f, g) /\ Len(g) >= 2
    BY <2>2, <2>3 DEF Continues
  <2>5. /\ FirstFrame(g) = start /\ MagicPrefix(g) = MagicPrefix(f) /\ HeaderOk(f)
        /\ HeaderOk(g)
    BY ZenonT(60), ZenonT(90), <2>1, <2>3, <2>4, SameHeader DEF HeaderOk, Cut
  <2>6. /\ start \in {0, 2} /\ offset = start + 3 * m
        /\ \A i \in 1..m : FrameStatus(f, start, i) = "Applied"
    BY <2>1, FramesWithin DEF Cut
  <2> HIDE DEF g, start
  <2>7. ASSUME NEW i \in 1..m PROVE FrameStatus(g, start, i) = "Applied"
    <3>1. i \in Nat \ {0} /\ start \in Nat /\ start + 3 * i <= Len(g)
      BY <2>3, <2>6
    <3>2. QED
      BY <2>3, <2>4, <2>6, <3>1, SameFrame
  <2>8. ASSUME FrameStatus(g, offset, 1) = "Applied"
        PROVE  FrameStatus(g, start, m + 1) = "Applied"
    <3>1. /\ offset \in Nat /\ start \in Nat /\ m + 1 \in Nat \ {0}
          /\ start + 3 * (m + 1) = offset + 3 * 1
      BY <2>6
    <3>2. offset + 3 * 1 <= Len(g)
      BY <2>3, <2>8, <3>1, AppliedIsRecord
    <3>3. FrameStatus(f, offset, 1) = "Applied"
      BY <2>3, <2>4, <2>8, <3>1, <3>2, SameFrame
    <3>4. FrameStatus(f, start, m + 1) = "Applied"
      BY <2>1, <3>3 DEF Cut, start
    <3>5. QED
      BY <2>3, <2>4, <3>1, <3>2, <3>4, SameFrame
  <2>9. Cut(g, offset, m)
    BY <2>5, <2>6, <2>7, <2>8 DEF Cut
  <2>10. QED
    BY ZenonT(60), ZenonT(90), <2>3, <2>9, CutIsBoundary DEF g
<1>3. QED
  BY <1>1, <1>2

(* Where a replay from the start stops: the log up to there is whole, and  *)
(* no recorded offset lies behind it.                                      *)
LEMMA GoodPart ==
  ASSUME NEW f \in Seq(Cells)
  PROVE  LET good == ReplayFromDetailed(f, 0).last_good_offset
             g == SubSeq(f, 1, good) IN
         /\ good \in 0..Len(f) /\ g \in Seq(Cells) /\ Len(g) = good /\ Whole(g)
         /\ g = <<>> \/ Continues(f, g)
<1> DEFINE good == ReplayFromDetailed(f, 0).last_good_offset
           g == SubSeq(f, 1, good)
<1>1. CASE f = <<>> \/ ~HeaderOk(f)
  <2>1. good = 0
    BY <1>1 DEF ReplayFromDetailed, HeaderOk, kFrameLength
  <2>2. g = <<>>
    BY <2>1
  <2>3. g \in Seq(Cells) /\ Len(g) = 0 /\ Whole(g)
    <3>1. <<>> \in Seq(Cells) /\ Len(<<>>) = 0 /\ 0 \in Nat
      OBVIOUS
    <3>2. Whole(<<>>)
      BY <3>1, EmptyIsWhole, Zenon DEF Whole
    <3>3. QED
      BY <2>2, <3>1, <3>2, Zenon
  <2> HIDE DEF g
  <2>4. good \in 0..Len(f)
    BY <2>1
  <2>5. QED
    BY <2>1, <2>2, <2>3, <2>4 DEF g
<1>2. CASE f # <<>> /\ HeaderOk(f)
  <2> DEFINE start == FirstFrame(f)
             n == Applied(f, start)
  <2>1. start \in Nat /\ good = start + 3 * n
    BY <1>2, ReplayFrames
  <2>2. n \in Nat /\ \A i \in 1..n : FrameStatus(f, start, i) = "Applied"
    BY <2>1, AppliedCount
  <2>3. start \in {0, 2} /\ start + 3 * n <= Len(f) /\ (start = 2 <=> MagicPrefix(f))
    BY <1>2, <2>2, FramesWithin
  <2> HIDE DEF n, start
  <2>4. good \in 0..Len(f)
    BY <2>1, <2>2, <2>3
  <2> HIDE DEF good
  <2>5. g \in Seq(Cells) /\ Len(g) = good /\ \A j \in 1..good : g[j] = f[j]
    BY <2>4
  <2>6. CASE good = 0
    <3>1. g = <<>>
      BY <2>5, <2>6
    <3>2. QED
      BY ZenonT(60), ZenonT(90), <2>4, <2>5, <3>1, EmptyIsWhole DEF Whole, good
  <2>7. CASE good # 0
    <3> HIDE DEF g
    <3>1. Continues(f, g)
      BY <2>4, <2>5, <2>7 DEF Continues
    <3>2. FirstFrame(g) = start /\ MagicPrefix(g) = MagicPrefix(f) /\ HeaderOk(g)
      <4>1. Len(g) >= 2
        BY <2>1, <2>2, <2>3, <2>5, <2>7
      <4>2. QED
        BY <1>2, <2>5, <3>1, <4>1, SameHeader DEF HeaderOk, start
    <3>3. ASSUME NEW i \in 1..n PROVE FrameStatus(g, start, i) = "Applied"
      <4>1. i \in Nat \ {0} /\ start + 3 * i <= Len(g)
        BY <2>1, <2>2, <2>5
      <4>2. QED
        BY <2>1, <2>2, <2>5, <3>1, <4>1, SameFrame
    <3>4. Frames(g, n)
      BY <2>1, <2>2, <2>5, <3>2, <3>3 DEF Frames
    <3>5. QED
      BY <2>2, <2>4, <2>5, <3>1, <3>4 DEF Whole, good, g
  <2>8. QED
    BY <2>6, <2>7
<1>3. QED
  BY <1>1, <1>2

LEMMA BoundaryIsGood ==
  ASSUME NEW f \in Seq(Cells), NEW offset, Boundary(f, offset)
  PROVE  LET good == ReplayFromDetailed(f, 0).last_good_offset IN
         /\ offset \in Nat /\ offset <= good
         /\ ReplayFromDetailed(f, offset).last_good_offset = good
         /\ Boundary(SubSeq(f, 1, good), offset)
<1> DEFINE good == ReplayFromDetailed(f, 0).last_good_offset
<1>1. good \in 0..Len(f)
  BY GoodPart
<1>2. CASE offset = 0
  BY <1>1, <1>2, BoundaryKeptByCut
<1>3. CASE offset # 0
  <2>1. PICK m \in Nat : Cut(f, offset, m)
    BY <1>3, BoundaryIsCut
  <2>2. offset \in 2..Len(f) /\ f # <<>>
    BY <1>3, BoundaryIsCut
  <2> DEFINE start == FirstFrame(f)
             n == Applied(f, start)
  <2>3. /\ n \in Nat /\ m <= n /\ good = start + 3 * n
        /\ ReplayFromDetailed(f, offset).last_good_offset = start + 3 * n
    BY <1>3, <2>1, <2>2, ReplayFromCut
  <2>4. offset = start + 3 * m /\ start \in Nat
    BY <2>1 DEF Cut, FirstFrame, kHeaderLength
  <2> HIDE DEF n, start, good
  <2>5. offset <= good
    BY <2>3, <2>4
  <2>6. Boundary(SubSeq(f, 1, good), offset)
    BY <1>1, <2>5, BoundaryKeptByCut
  <2>7. QED
    BY <2>2, <2>3, <2>5, <2>6 DEF good
<1>4. QED
  BY <1>2, <1>3

(* A replay from a recorded offset reads what a replay from the start      *)
(* reads behind it.                                                        *)
LEMMA BoundaryAgrees ==
  ASSUME NEW f \in Seq(Cells), NEW offset, Boundary(f, offset)
  PROVE  LET all == ReplayFromDetailed(f, 0)
             r == ReplayFromDetailed(f, offset) IN
         {r.start + 3 * i : i \in 1..r.applied_operations}
           = {p \in {all.start + 3 * i : i \in 1..all.applied_operations} : p > offset}
<1>1. CASE offset = 0
  <2> DEFINE start == ReplayFromDetailed(f, 0).start
             n == ReplayFromDetailed(f, 0).applied_operations
  <2>1. start \in Nat /\ n \in Nat
    BY ReplayReport
  <2> HIDE DEF start, n
  <2>2. {start + 3 * i : i \in 1..n} = {p \in {start + 3 * i : i \in 1..n} : p > 0}
    BY <2>1
  <2>3. QED
    BY <1>1, <2>2 DEF start, n
<1>2. CASE offset # 0
  <2>1. PICK m \in Nat : Cut(f, offset, m)
    BY <1>2, BoundaryIsCut
  <2>2. f # <<>>
    BY <1>2, BoundaryIsCut
  <2> DEFINE start == FirstFrame(f)
             n == Applied(f, start)
             all == ReplayFromDetailed(f, 0)
             r == ReplayFromDetailed(f, offset)
  <2>3. /\ n \in Nat /\ m <= n
        /\ all.start = start /\ all.applied_operations = n
        /\ r.start = offset /\ r.applied_operations = n - m
    BY <1>2, <2>1, <2>2, ReplayFromCut
  <2>4. offset = start + 3 * m /\ start \in Nat
    BY <2>1 DEF Cut, FirstFrame, kHeaderLength
  <2> DEFINE Places(s, c) == {s + 3 * i : i \in 1..c}
  <2> HIDE DEF n, start
  <2>5. Places(offset, n - m) = {p \in Places(start, n) : p > offset}
    <3>1. ASSUME NEW i \in 1..(n - m)
          PROVE  /\ offset + 3 * i > offset
                 /\ \E j \in 1..n : offset + 3 * i = start + 3 * j
      <4>1. m + i \in 1..n /\ offset + 3 * i = start + 3 * (m + i) /\ offset + 3 * i > offset
        BY <2>3, <2>4
      <4>2. QED
        BY <4>1
    <3>2. ASSUME NEW j \in 1..n, start + 3 * j > offset
          PROVE  \E i \in 1..(n - m) : start + 3 * j = offset + 3 * i
      <4>1. j - m \in 1..(n - m) /\ start + 3 * j = offset + 3 * (j - m)
        BY <2>3, <2>4, <3>2
      <4>2. QED
        BY <4>1
    <3>3. \A p : p \in Places(offset, n - m) => p \in Places(start, n) /\ p > offset
      BY <3>1
    <3>4. \A p : p \in Places(start, n) /\ p > offset => p \in Places(offset, n - m)
      BY <3>2
    <3> HIDE DEF Places
    <3>5. QED
      BY <3>3, <3>4, Zenon
  <2> HIDE DEF all, r, Places
  <2>6. Places(r.start, r.applied_operations)
          = {p \in Places(all.start, all.applied_operations) : p > offset}
    BY <2>3, <2>5, Zenon
  <2>7. QED
    BY <2>6 DEF all, r, Places
<1>3. QED
  BY ZenonT(60), ZenonT(90), <1>1, <1>2

------------------------------------------------------------------------------
(* The log and the object that writes it.                                  *)

Kind(f, w) == IF w.legacy_v2_ THEN ~MagicPrefix(f) ELSE f = <<>> \/ MagicPrefix(f)

(* The next append goes where a replay gets to, and is numbered for it.    *)
Tidy(f, w) ==
  LET r == ReplayFromDetailed(f, 0) IN
  /\ r.status = "CleanEof"
  /\ ~w.legacy_v2_ => /\ w.header_pending_ <=> f = <<>>
                      /\ w.next_sequence_ = r.last_sequence + 1

(* A log that needs no recovery is whole while its stream works; after a   *)
(* failed truncation or rotation it is tidy or empty, after a failed       *)
(* append nothing is said of its tail.                                     *)
LogOk(f, w) ==
  /\ Kind(f, w)
  /\ ~w.failure_ /\ w.header_pending_ => f = <<>>
  /\ w.format_valid_ /\ ~w.needs_recovery_ =>
       /\ w.stream = "good" => ReplayFromDetailed(f, 0).status = "CleanEof"
       /\ ~w.failure_ => Tidy(f, w) \/ (f = <<>> /\ w.stream # "good")

LEMMA OutcomeFields ==
  \A r, f, w, how : r = Outcome(f, w, how) => r.file = f /\ r.wal = w /\ r.how = how
  BY DEF Outcome

LEMMA EmptyReplay ==
  ReplayFromDetailed(<<>>, 0).status = "CleanEof" /\ ReplayFromDetailed(<<>>, 0).last_sequence = 0
<1>1. <<>> \in Seq(Cells)
  OBVIOUS
<1>2. QED
  BY ZenonT(60), ZenonT(90), <1>1, EmptyIsWhole, FramesReplay

LEMMA OpenedOk ==
  ASSUME NEW f \in Seq(Cells)
  PROVE  LogOk(f, Opened(f))
<1> DEFINE r == ReplayFromDetailed(f, 0)
           w == Opened(f)
           torn == r.status # "CleanEof"
<1>1. CASE f = <<>>
  <2>1. Opened(f) = Object(FALSE, TRUE, TRUE, FALSE, 1, 1)
    BY <1>1 DEF Opened
  <2>2. QED
    BY <1>1, <2>1, EmptyReplay DEF Object, LogOk, Kind, Tidy
<1>2. CASE f # <<>> /\ ~MagicPrefix(f)
  <2>1. w = Object(TRUE, FALSE, TRUE, torn, 0, 1)
    BY <1>2 DEF Opened
  <2>2. /\ w.legacy_v2_ = TRUE /\ w.header_pending_ = FALSE
        /\ w.needs_recovery_ = torn
    <3>1. torn \in BOOLEAN
      OBVIOUS
    <3> HIDE DEF w, torn, r
    <3>2. QED
      BY ONLY <2>1, <3>1 DEF Object
  <2> HIDE DEF w
  <2>3. QED
    BY ZenonT(60), ZenonT(90), <1>2, <2>2 DEF LogOk, Kind, Tidy, w
<1>3. CASE f # <<>> /\ MagicPrefix(f) /\ ~ParseHeader(f)
  <2>1. Opened(f) = Object(FALSE, FALSE, FALSE, FALSE, 0, 1)
    BY <1>3 DEF Opened
  <2>2. QED
    BY <1>3, <2>1 DEF Object, LogOk, Kind
<1>4. CASE f # <<>> /\ MagicPrefix(f) /\ ParseHeader(f)
  <2>1. w = Object(FALSE, FALSE, TRUE, torn, f[2].generation, r.last_sequence + 1)
    BY <1>4 DEF Opened
  <2>2. /\ w.legacy_v2_ = FALSE /\ w.header_pending_ = FALSE
        /\ w.needs_recovery_ = torn /\ w.next_sequence_ = r.last_sequence + 1
    <3>1. torn \in BOOLEAN
      OBVIOUS
    <3> HIDE DEF w, torn, r
    <3>2. QED
      BY ONLY <2>1, <3>1 DEF Object
  <2> HIDE DEF w
  <2>3. QED
    BY ZenonT(60), ZenonT(90), <1>4, <2>2 DEF LogOk, Kind, Tidy, w
<1>5. QED
  BY <1>1, <1>2, <1>3, <1>4

LEMMA ClearOk ==
  ASSUME NEW f \in Seq(Cells), NEW w \in Objects, LogOk(f, w), NEW r \in Clear(f, w)
  PROVE  /\ LogOk(r.file, r.wal)
         /\ w.format_valid_ /\ ~w.needs_recovery_
              => r.wal.format_valid_ /\ ~r.wal.needs_recovery_
<1> DEFINE closed == [w EXCEPT !.stream = "closed"]
           cleared == [w EXCEPT !.generation_ = @ + 1, !.next_sequence_ = 1,
                                !.legacy_v2_ = FALSE, !.header_pending_ = TRUE,
                                !.format_valid_ = TRUE, !.needs_recovery_ = FALSE,
                                !.stream = "good"]
<1>1. /\ closed.stream = "closed" /\ closed.legacy_v2_ = w.legacy_v2_
      /\ closed.failure_ = w.failure_ /\ closed.header_pending_ = w.header_pending_
      /\ closed.format_valid_ = w.format_valid_ /\ closed.needs_recovery_ = w.needs_recovery_
      /\ closed.next_sequence_ = w.next_sequence_
  BY DEF Objects
<1>2. /\ cleared.legacy_v2_ = FALSE /\ cleared.next_sequence_ = 1
      /\ cleared.header_pending_ = TRUE /\ cleared.format_valid_ = TRUE
      /\ cleared.needs_recovery_ = FALSE
  BY DEF Objects
<1> HIDE DEF closed, cleared
<1>3. LogOk(f, closed)
  BY <1>1, Zenon DEF LogOk, Kind, Tidy
<1>4. LogOk(<<>>, closed)
  BY <1>1 DEF LogOk, Kind, MagicPrefix
<1>5. LogOk(<<>>, cleared)
  BY <1>2, EmptyReplay DEF LogOk, Kind, Tidy
<1>6. \/ r = Outcome(f, w, "refused") \/ r = Outcome(<<>>, cleared, "ok")
      \/ r = Outcome(f, w, "io") \/ r = Outcome(f, closed, "io")
      \/ r = Outcome(<<>>, closed, "io") \/ r = Outcome(<<>>, cleared, "io")
  BY DEF Clear, closed, cleared
<1>7. \/ (r.file = f /\ r.wal = w) \/ (r.file = <<>> /\ r.wal = cleared)
      \/ (r.file = f /\ r.wal = closed) \/ (r.file = <<>> /\ r.wal = closed)
  BY ONLY SMTT(90), <1>6, OutcomeFields
<1>8. QED
  BY <1>1, <1>2, <1>3, <1>4, <1>5, <1>7

(* Cutting the log where a replay stops leaves it whole.                   *)
LEMMA TruncateOk ==
  ASSUME NEW f \in Seq(Cells), NEW w \in Objects, LogOk(f, w),
         NEW r \in TruncateTo(f, w, ReplayFromDetailed(f, 0).last_good_offset)
  PROVE  /\ LogOk(r.file, r.wal)
         /\ w.format_valid_ /\ ~w.needs_recovery_
              => r.wal.format_valid_ /\ ~r.wal.needs_recovery_
         /\ \A offset : Boundary(f, offset) => Boundary(r.file, offset)
<1> DEFINE good == ReplayFromDetailed(f, 0).last_good_offset
           cut == SubSeq(f, 1, good)
           rest == ReplayFromDetailed(cut, 0)
           closed == [w EXCEPT !.stream = "closed"]
           opened == [w EXCEPT !.stream = "good"]
           open == [w EXCEPT !.stream = "good", !.needs_recovery_ = FALSE]
           fresh == [open EXCEPT !.generation_ = @ + 1, !.next_sequence_ = 1,
                                 !.header_pending_ = TRUE, !.format_valid_ = TRUE]
           numbered == [open EXCEPT !.next_sequence_ = rest.last_sequence + 1]
           Same(o) == /\ o.legacy_v2_ = w.legacy_v2_ /\ o.failure_ = w.failure_
           Flags(o) == /\ o.format_valid_ = w.format_valid_
                       /\ o.header_pending_ = w.header_pending_
<1>1. /\ good \in 0..Len(f) /\ cut \in Seq(Cells) /\ Len(cut) = good /\ Whole(cut)
      /\ cut = <<>> \/ Continues(f, cut)
  BY GoodPart
<1>2. \A offset : Boundary(f, offset) => Boundary(cut, offset)
  BY BoundaryIsGood
<1>3. /\ Same(closed) /\ Flags(closed) /\ closed.needs_recovery_ = w.needs_recovery_
      /\ closed.next_sequence_ = w.next_sequence_ /\ closed.stream = "closed"
  BY DEF Objects
<1>4. /\ Same(opened) /\ Flags(opened) /\ opened.needs_recovery_ = w.needs_recovery_
      /\ opened.next_sequence_ = w.next_sequence_
  BY DEF Objects
<1>5. Same(open) /\ Flags(open) /\ open.needs_recovery_ = FALSE
  BY DEF Objects
<1>6. /\ Same(fresh) /\ fresh.header_pending_ = TRUE /\ fresh.next_sequence_ = 1
      /\ fresh.format_valid_ = TRUE /\ fresh.needs_recovery_ = FALSE
  BY DEF Objects
<1>7. /\ Same(numbered) /\ Flags(numbered) /\ numbered.needs_recovery_ = FALSE
      /\ numbered.next_sequence_ = rest.last_sequence + 1
  <2> HIDE DEF rest
  <2>1. QED
    BY DEF Objects
<1>8. rest.status = "CleanEof"
  <2> HIDE DEF cut
  <2>1. PICK n \in Nat : Frames(cut, n)
    BY <1>1 DEF Whole
  <2>2. QED
    BY <1>1, <2>1, FramesReplay
<1>9. ReplayFromDetailed(f, 0).status = "CleanEof" => cut = f
  <2>1. SUFFICES ASSUME ReplayFromDetailed(f, 0).status = "CleanEof" PROVE cut = f
    OBVIOUS
  <2>2. PICK n \in Nat : Frames(f, n)
    BY <2>1, CleanIsWhole DEF Whole
  <2>3. good = Len(f)
    BY <2>2, FramesReplay
  <2> HIDE DEF good
  <2>4. QED
    BY <2>3
<1>10. Kind(cut, w)
  <2>1. CASE cut = <<>>
    BY <2>1, Zenon DEF Kind, MagicPrefix
  <2>2. CASE Continues(f, cut)
    <3> HIDE DEF cut
    <3>1. MagicPrefix(cut) = MagicPrefix(f) /\ f # <<>>
      BY <1>1, <2>2, SameHeader DEF Continues
    <3>2. QED
      BY <3>1 DEF LogOk, Kind
  <2>3. QED
    BY <1>1, <2>1, <2>2
<1>11. cut = <<>> <=> good = 0
  <2> HIDE DEF cut, good
  <2>1. QED
    BY <1>1
<1> HIDE DEF good, cut, rest, closed, opened, open, fresh, numbered
<1>12. LogOk(f, closed)
  BY <1>3, Zenon DEF LogOk, Kind, Tidy
<1>13. f = <<>> => cut = <<>>
  BY <1>1, <1>11
<1>14. ASSUME w.format_valid_, ~w.needs_recovery_, ~w.failure_
       PROVE  Tidy(cut, w) \/ f = <<>>
  <2>1. Tidy(f, w) \/ f = <<>>
    BY <1>14 DEF LogOk
  <2>2. Tidy(f, w) => cut = f
    BY <1>9 DEF Tidy
  <2>3. QED
    BY <2>1, <2>2, Zenon
<1>15. ~w.failure_ /\ w.header_pending_ => cut = <<>>
  BY <1>13 DEF LogOk
<1>16. LogOk(cut, closed)
  <2>1. Kind(cut, closed)
    BY <1>3, <1>10, Zenon DEF Kind
  <2>2. Tidy(cut, w) => Tidy(cut, closed)
    BY <1>3, Zenon DEF Tidy
  <2>3. QED
    BY <1>3, <1>13, <1>14, <1>15, <2>1, <2>2 DEF LogOk
<1>17. good # 0 => LogOk(cut, opened)
  <2>1. Kind(cut, opened)
    BY <1>4, <1>10, Zenon DEF Kind
  <2>2. Tidy(cut, w) => Tidy(cut, opened)
    BY <1>4, Zenon DEF Tidy
  <2>3. QED
    BY <1>4, <1>8, <1>11, <1>13, <1>14, <1>15, <2>1, <2>2 DEF LogOk, rest
<1>18. w.legacy_v2_ => LogOk(cut, open)
  <2>1. Kind(cut, open)
    BY <1>5, <1>10, Zenon DEF Kind
  <2>2. w.legacy_v2_ => Tidy(cut, open)
    BY <1>5, <1>8, Zenon DEF Tidy, rest
  <2>3. QED
    BY <1>5, <1>8, <1>15, <2>1, <2>2 DEF LogOk, rest
<1>19. good = 0 /\ ~w.legacy_v2_ => LogOk(cut, fresh)
  <2>1. SUFFICES ASSUME good = 0, ~w.legacy_v2_ PROVE LogOk(cut, fresh)
    OBVIOUS
  <2>2. cut = <<>>
    BY <1>11, <2>1
  <2>3. Kind(cut, fresh)
    BY <1>6, <1>10, Zenon DEF Kind
  <2>4. Tidy(cut, fresh)
    BY <1>6, <2>2, EmptyReplay DEF Tidy
  <2>5. QED
    BY <1>8, <2>2, <2>3, <2>4 DEF LogOk, rest
<1>20. good # 0 /\ ~w.legacy_v2_ => LogOk(cut, numbered)
  <2>1. SUFFICES ASSUME good # 0, ~w.legacy_v2_ PROVE LogOk(cut, numbered)
    OBVIOUS
  <2>2. cut # <<>>
    BY <1>11, <2>1
  <2>3. Kind(cut, numbered)
    BY <1>7, <1>10, Zenon DEF Kind
  <2>4. ~w.failure_ => ~numbered.header_pending_ /\ Tidy(cut, numbered)
    BY <1>7, <1>8, <1>15, <2>2 DEF Tidy, rest
  <2>5. QED
    BY <1>7, <1>8, <1>15, <2>2, <2>3, <2>4 DEF LogOk, rest
<1> DEFINE done == Renumbered(cut, w, good)
<1>21. \/ /\ w.legacy_v2_ /\ done = Outcome(cut, open, "ok")
       \/ ~w.legacy_v2_ /\ good = 0 /\ done = Outcome(cut, fresh, "ok")
       \/ ~w.legacy_v2_ /\ good # 0 /\ done = Outcome(cut, opened, "refused")
       \/ ~w.legacy_v2_ /\ good # 0 /\ done = Outcome(cut, numbered, "ok")
  BY DEF Renumbered, open, fresh, opened, numbered, rest
<1> HIDE DEF done
<1>22. /\ done.file = cut /\ LogOk(cut, done.wal)
       /\ w.format_valid_ /\ ~w.needs_recovery_
            => done.wal.format_valid_ /\ ~done.wal.needs_recovery_
  <2>1. CASE w.legacy_v2_ /\ done = Outcome(cut, open, "ok")
    <3>1. done.file = cut /\ done.wal = open
      BY ONLY SMTT(90), <2>1, OutcomeFields
    <3>2. QED
      BY <1>5, <1>18, <2>1, <3>1
  <2>2. CASE ~w.legacy_v2_ /\ good = 0 /\ done = Outcome(cut, fresh, "ok")
    <3>1. done.file = cut /\ done.wal = fresh
      BY ONLY <2>2, OutcomeFields
    <3>2. QED
      BY <1>6, <1>19, <2>2, <3>1
  <2>3. CASE good # 0 /\ done = Outcome(cut, opened, "refused")
    <3>1. done.file = cut /\ done.wal = opened
      BY ONLY SMTT(90), <2>3, OutcomeFields
    <3>2. QED
      BY <1>4, <1>17, <2>3, <3>1
  <2>4. CASE ~w.legacy_v2_ /\ good # 0 /\ done = Outcome(cut, numbered, "ok")
    <3>1. done.file = cut /\ done.wal = numbered
      BY ONLY <2>4, OutcomeFields
    <3>2. QED
      BY <1>7, <1>20, <2>4, <3>1
  <2>5. QED
    BY <1>21, <2>1, <2>2, <2>3, <2>4
<1>23. [done EXCEPT !.how = "io"].file = done.file /\ [done EXCEPT !.how = "io"].wal = done.wal
  BY <1>21 DEF Outcome
<1>24. \/ r = Outcome(f, w, "refused") \/ r = Outcome(f, w, "io")
       \/ r = Outcome(f, closed, "refused") \/ r = Outcome(f, closed, "io")
       \/ r = done \/ r = Outcome(cut, closed, "io") \/ r = [done EXCEPT !.how = "io"]
  BY DEF TruncateTo, closed, cut, done, good
<1>25. \/ r.file = f /\ (r.wal = w \/ r.wal = closed)
       \/ r.file = cut /\ (r.wal = closed \/ r.wal = done.wal)
  <2>1. CASE r = Outcome(f, w, "refused") \/ r = Outcome(f, w, "io")
    BY ONLY <2>1, OutcomeFields
  <2>2. CASE r = Outcome(f, closed, "refused") \/ r = Outcome(f, closed, "io")
    BY ONLY <2>2, OutcomeFields
  <2>3. CASE r = Outcome(cut, closed, "io")
    BY ONLY <2>3, OutcomeFields
  <2>4. CASE r = done \/ r = [done EXCEPT !.how = "io"]
    BY <1>22, <1>23, <2>4, Zenon
  <2>5. QED
    BY <1>24, <2>1, <2>2, <2>3, <2>4
<1>26. QED
  BY <1>2, <1>3, <1>12, <1>16, <1>22, <1>25

LEMMA ConcatFirst ==
  ASSUME NEW s \in Seq(Cells), NEW t \in Seq(Cells), Len(s) # 0
  PROVE  (s \o t)[1] = s[1]
  OBVIOUS

LEMMA WrittenFirst ==
  ASSUME NEW cells \in Seq(Cells), NEW part \in WrittenPartly(cells), part # <<>>
  PROVE  part[1] = cells[1] \/ part[1] = IF cells[1] = Magic THEN TornMagic ELSE Torn
<1>1. CASE \E n \in 0..Len(cells) : part = SubSeq(cells, 1, n)
  BY <1>1
<1>2. CASE \E n \in 0..(Len(cells) - 1) :
             part = Append(SubSeq(cells, 1, n), IF cells[n + 1] = Magic THEN TornMagic ELSE Torn)
  <2>1. PICK n \in 0..(Len(cells) - 1) :
          part = Append(SubSeq(cells, 1, n), IF cells[n + 1] = Magic THEN TornMagic ELSE Torn)
    BY <1>2
  <2> DEFINE last == IF cells[n + 1] = Magic THEN TornMagic ELSE Torn
             head == SubSeq(cells, 1, n)
  <2>2. head \in Seq(Cells) /\ Len(head) = n /\ \A j \in 1..n : head[j] = cells[j]
    OBVIOUS
  <2>3. last \in Cells
    BY CellsWritten
  <2>4. part = Append(head, last)
    BY <2>1
  <2> HIDE DEF last, head
  <2>5. CASE n = 0
    <3>1. part[1] = last
      BY <2>2, <2>3, <2>4, <2>5
    <3>2. QED
      BY <2>5, <3>1 DEF last
  <2>6. CASE n > 0
    BY <2>2, <2>3, <2>4, <2>6
  <2>7. QED
    BY <2>5, <2>6
<1>3. QED
  BY <1>1, <1>2 DEF WrittenPartly

LEMMA HeaderIsWhole ==
  ASSUME NEW g \in 0..MaxGeneration
  PROVE  LET h == Header(g) IN
         h \in Seq(Cells) /\ h # <<>> /\ MagicPrefix(h) /\ Frames(h, 0) /\ LastNumber(h, 0) = 0
<1> DEFINE h == Header(g)
<1>1. h \in Seq(Cells) /\ Len(h) = 2 /\ h # <<>> /\ h[1] = Magic /\ h[2] = Generation(g)
  BY CellsWritten DEF Header
<1> HIDE DEF h
<1>2. MagicPrefix(h) /\ ParseHeader(h)
  <2>1. Generation(g).is = "generation"
    BY DEF Generation
  <2>2. QED
    BY <1>1, <2>1 DEF MagicPrefix, ParseHeader, kHeaderLength
<1>3. QED
  BY <1>1, <1>2 DEF Frames, HeaderOk, FirstFrame, kHeaderLength, LastNumber, h

(* What an append starts from: the log with its header is whole, of the    *)
(* kind of the object, and the record to come continues its numbering.     *)
LEMMA AppendBase ==
  ASSUME NEW f \in Seq(Cells), NEW w \in Objects, Kind(f, w), Tidy(f, w)
  PROVE  LET header == IF w.header_pending_ /\ ~w.legacy_v2_ THEN Header(w.generation_) ELSE <<>>
             h == f \o header IN
         /\ header \in Seq(Cells) /\ h \in Seq(Cells)
         /\ f # <<>> \/ w.legacy_v2_ => header = <<>>
         /\ f = <<>> /\ ~w.legacy_v2_ => header = Header(w.generation_)
         /\ w.legacy_v2_ <=> ~MagicPrefix(h)
         /\ \E n \in Nat : Frames(h, n) /\ (~w.legacy_v2_ => w.next_sequence_ = LastNumber(h, n) + 1)
<1> DEFINE header == IF w.header_pending_ /\ ~w.legacy_v2_ THEN Header(w.generation_) ELSE <<>>
           h == f \o header
<1>1. w.generation_ \in 0..MaxGeneration /\ w.header_pending_ \in BOOLEAN /\ w.legacy_v2_ \in BOOLEAN
  BY DEF Objects
<1>2. CASE f = <<>> /\ ~w.legacy_v2_
  <2>1. header = Header(w.generation_)
    BY <1>2 DEF Tidy
  <2>2. header \in Seq(Cells) /\ MagicPrefix(header) /\ Frames(header, 0) /\ LastNumber(header, 0) = 0
    BY <1>1, <2>1, HeaderIsWhole, Zenon
  <2> HIDE DEF header
  <2>3. h = header
    BY <1>2, <2>2
  <2> HIDE DEF h
  <2>4. w.next_sequence_ = 0 + 1
    BY <1>2, EmptyReplay DEF Tidy
  <2>5. 0 \in Nat /\ Frames(h, 0) /\ w.next_sequence_ = LastNumber(h, 0) + 1 /\ MagicPrefix(h)
    BY <2>2, <2>3, <2>4
  <2>6. QED
    BY <1>2, <2>1, <2>2, <2>3, <2>5 DEF header, h
<1>3. CASE f # <<>> \/ w.legacy_v2_
  <2>1. header = <<>>
    BY <1>3 DEF Tidy
  <2> HIDE DEF header
  <2>2. header \in Seq(Cells) /\ h = f
    BY <2>1
  <2> HIDE DEF h
  <2>3. PICK n \in Nat : Frames(f, n)
    BY CleanIsWhole DEF Tidy, Whole
  <2>4. ReplayFromDetailed(f, 0).last_sequence = LastNumber(f, n)
    BY <2>3, FramesReplay
  <2>5. ~w.legacy_v2_ => w.next_sequence_ = LastNumber(f, n) + 1
    BY <2>4 DEF Tidy
  <2>6. w.legacy_v2_ <=> ~MagicPrefix(f)
    BY <1>1, <1>3 DEF Kind
  <2>7. Frames(h, n) /\ (~w.legacy_v2_ => w.next_sequence_ = LastNumber(h, n) + 1)
        /\ (w.legacy_v2_ <=> ~MagicPrefix(h)) /\ h \in Seq(Cells)
    BY <2>2, <2>3, <2>5, <2>6, Zenon
  <2>8. QED
    BY <1>3, <2>1, <2>2, <2>3, <2>7 DEF header, h
<1>4. QED
  BY <1>2, <1>3

(* What an append leaves, completely or in part.                           *)
LEMMA AppendedCells ==
  ASSUME NEW f \in Seq(Cells), NEW w \in Objects, Kind(f, w), Tidy(f, w),
         NEW k \in Keys, NEW v \in Values \cup {Absent}, CheckedRecordLength(k, v)
  PROVE  LET header == IF w.header_pending_ /\ ~w.legacy_v2_ THEN Header(w.generation_) ELSE <<>>
             number == IF w.legacy_v2_ THEN 0 ELSE w.next_sequence_
             cells == header \o (IF Exhausted(w) THEN <<>> ELSE Frame(Record(number, k, v)))
             r == ReplayFromDetailed(f \o cells, 0) IN
         /\ r.status = "CleanEof" /\ cells \in WrittenPartly(cells)
         /\ ~Exhausted(w) => f \o cells # <<>>
         /\ ~Exhausted(w) /\ ~w.legacy_v2_ => r.last_sequence = w.next_sequence_
         /\ \A part \in WrittenPartly(cells) :
              /\ Kind(f \o part, w)
              /\ \A offset : Boundary(f, offset) => Boundary(f \o part, offset)
<1> DEFINE header == IF w.header_pending_ /\ ~w.legacy_v2_ THEN Header(w.generation_) ELSE <<>>
           h == f \o header
           number == IF w.legacy_v2_ THEN 0 ELSE w.next_sequence_
           rec == Record(number, k, v)
           cells == header \o (IF Exhausted(w) THEN <<>> ELSE Frame(rec))
<1>1. /\ header \in Seq(Cells) /\ h \in Seq(Cells)
      /\ f # <<>> \/ w.legacy_v2_ => header = <<>>
      /\ f = <<>> /\ ~w.legacy_v2_ => header = Header(w.generation_)
      /\ w.legacy_v2_ <=> ~MagicPrefix(h)
  BY AppendBase
<1>2. PICK n \in Nat : /\ Frames(h, n)
                       /\ ~w.legacy_v2_ => w.next_sequence_ = LastNumber(h, n) + 1
  BY AppendBase
<1>3. number \in 0..MaxSequence /\ w.legacy_v2_ \in BOOLEAN
  BY WalFileAssumption DEF Objects
<1>4. rec \in Records /\ rec.op \in {"Set", "Delete"} /\ rec.sequence = number
  <2> HIDE DEF number
  <2>1. rec \in Records
    BY <1>3, WrittenRecord
  <2>2. QED
    BY <2>1 DEF Record
<1>5. MagicPrefix(h) => rec.sequence = LastNumber(h, n) + 1
  BY <1>1, <1>2, <1>3, <1>4
<1>6. Frame(rec) \in Seq(Cells) /\ Len(Frame(rec)) = 3 /\ Frame(rec)[1] = Length
  <2>1. Frame(rec) \in Seq(Cells)
    BY <1>4, CellsWritten
  <2> HIDE DEF rec
  <2>2. QED
    BY <2>1 DEF Frame
<1>7. \/ header = <<>>
      \/ /\ f = <<>> /\ ~w.legacy_v2_
         /\ Len(header) = 2 /\ header[1] = Magic
  BY <1>1 DEF Header
<1> HIDE DEF header, number, rec
<1>8. cells \in Seq(Cells)
  BY <1>1, <1>6
<1>9. /\ Exhausted(w) => cells = header /\ f \o cells = h
      /\ ~Exhausted(w) => cells = header \o Frame(rec) /\ f \o cells = h \o Frame(rec)
  <2>1. cells = IF Exhausted(w) THEN header \o <<>> ELSE header \o Frame(rec)
    BY ZenonT(60), ZenonT(90)
  <2>2. header \o <<>> = header
    BY <1>1
  <2>3. CASE header = <<>>
    <3>1. h = f /\ header \o Frame(rec) = Frame(rec)
      BY <1>6, <2>3
    <3> HIDE DEF h, cells
    <3>2. QED
      BY <2>1, <2>2, <3>1
  <2>4. CASE f = <<>>
    <3>1. h = header /\ f \o cells = cells
      BY <1>1, <1>8, <2>4
    <3> HIDE DEF h, cells
    <3>2. QED
      BY <2>1, <2>2, <3>1
  <2>5. QED
    BY <1>7, <2>3, <2>4
<1> HIDE DEF h, cells
<1>10. /\ ReplayFromDetailed(f \o cells, 0).status = "CleanEof"
       /\ ~Exhausted(w) => f \o cells # <<>>
       /\ ~Exhausted(w) /\ ~w.legacy_v2_
            => ReplayFromDetailed(f \o cells, 0).last_sequence = w.next_sequence_
  <2>1. CASE Exhausted(w)
    BY ZenonT(60), ZenonT(90), <1>1, <1>2, <1>9, <2>1, FramesReplay
  <2>2. CASE ~Exhausted(w)
    <3> DEFINE g == h \o Frame(rec)
    <3>1. /\ g \in Seq(Cells) /\ g # <<>> /\ Frames(g, n + 1)
          /\ LastNumber(g, n + 1) = IF MagicPrefix(h) THEN rec.sequence ELSE 0
      BY <1>1, <1>2, <1>4, <1>5, FrameAppended
    <3>2. g = f \o cells
      BY ZenonT(60), ZenonT(90), <1>9, <2>2
    <3> HIDE DEF g
    <3>3. /\ ReplayFromDetailed(g, 0).status = "CleanEof"
          /\ ReplayFromDetailed(g, 0).last_sequence = LastNumber(g, n + 1)
      BY <3>1, FramesReplay
    <3>4. ~w.legacy_v2_ => LastNumber(g, n + 1) = w.next_sequence_
      BY <1>1, <1>4, <3>1 DEF number
    <3>5. QED
      BY <2>2, <3>1, <3>2, <3>3, <3>4
  <2>3. QED
    BY <2>1, <2>2
<1>11. cells \in WrittenPartly(cells)
  <2>1. cells = SubSeq(cells, 1, Len(cells)) /\ Len(cells) \in 0..Len(cells)
    BY <1>8
  <2>2. QED
    BY ZenonT(60), ZenonT(90), <2>1 DEF WrittenPartly
<1>12. ASSUME NEW part \in WrittenPartly(cells)
       PROVE  /\ Kind(f \o part, w)
              /\ \A offset : Boundary(f, offset) => Boundary(f \o part, offset)
  <2>1. part \in Seq(Cells)
    BY <1>8, PartlyWritten
  <2>2. CASE f = <<>>
    <3>1. f \o part = part
      BY <2>1, <2>2
    <3>2. ASSUME NEW offset, Boundary(f, offset) PROVE Boundary(f \o part, offset)
      <4>1. offset = 0
        BY ZenonT(60), ZenonT(90), <2>2, <3>2, BoundaryIsCut
      <4>2. QED
        BY <4>1 DEF Boundary
    <3>3. part # <<>> => (MagicPrefix(part) <=> ~w.legacy_v2_)
      <4>1. SUFFICES ASSUME part # <<>> PROVE MagicPrefix(part) <=> ~w.legacy_v2_
        OBVIOUS
      <4>2. part[1] = cells[1] \/ part[1] = IF cells[1] = Magic THEN TornMagic ELSE Torn
        BY <1>8, <4>1, WrittenFirst
      <4>3. CASE w.legacy_v2_
        <5>1. ~Exhausted(w) /\ header = <<>>
          BY <1>1, <4>3 DEF Exhausted
        <5>2. cells = Frame(rec)
          BY <1>6, <1>9, <5>1
        <5>3. cells[1] = Length
          BY <1>6, <5>2
        <5>4. Length \notin {Magic, TornMagic} /\ Torn \notin {Magic, TornMagic}
          BY DEF Length, Magic, TornMagic, Torn
        <5>5. QED
          BY <4>2, <4>3, <5>3, <5>4 DEF MagicPrefix
      <4>4. CASE ~w.legacy_v2_
        <5>1. header = Header(w.generation_)
          BY <1>1, <2>2, <4>4
        <5>2. Len(header) = 2 /\ header[1] = Magic
          BY <5>1 DEF Header
        <5>3. cells[1] = Magic
          <6>1. header \in Seq(Cells) /\ Frame(rec) \in Seq(Cells) /\ Len(header) # 0
            BY <1>1, <1>6, <5>2
          <6>2. (header \o Frame(rec))[1] = header[1]
            BY <6>1, ConcatFirst, Zenon
          <6>3. QED
            BY <1>9, <5>2, <6>2, Zenon
        <5>4. QED
          BY <4>1, <4>2, <4>4, <5>3 DEF MagicPrefix
      <4>5. QED
        BY <1>3, <4>3, <4>4
    <3>4. Kind(part, w)
      BY <3>3 DEF Kind, MagicPrefix
    <3>5. QED
      BY <3>1, <3>2, <3>4
  <2>3. CASE f # <<>>
    <3>1. header = <<>> /\ h = f
      BY <1>1, <2>3 DEF h
    <3>2. f \o part # <<>> /\ (f \o part)[1] = f[1]
      BY <2>1, <2>3
    <3>3. Kind(f \o part, w)
      <4> DEFINE g == f \o part
      <4> HIDE DEF g
      <4>1. MagicPrefix(g) <=> MagicPrefix(f)
        BY <2>3, <3>2 DEF MagicPrefix, g
      <4>2. QED
        BY <2>3, <4>1 DEF Kind, g
    <3>4. ASSUME NEW offset, Boundary(f, offset) PROVE Boundary(f \o part, offset)
      <4>1. CASE Exhausted(w)
        <5>1. cells = <<>>
          BY <1>9, <3>1, <4>1
        <5>2. part = <<>>
          BY <5>1, <2>1 DEF WrittenPartly
        <5>3. f \o part = f
          BY <5>2
        <5>4. QED
          BY <3>4, <5>3
      <4>2. CASE ~Exhausted(w)
        <5>1. cells = Frame(rec)
          BY <1>6, <1>9, <3>1, <4>2
        <5>2. QED
          BY <1>2, <1>4, <1>5, <2>3, <3>1, <3>4, <5>1, BoundaryKeptByAppend
      <4>3. QED
        BY <4>1, <4>2
    <3>5. QED
      BY <3>3, <3>4
  <2>4. QED
    BY <2>2, <2>3
<1>13. QED
  BY ZenonT(60), ZenonT(90), <1>10, <1>11, <1>12 DEF cells, header, number, rec

LEMMA AppendOk ==
  ASSUME NEW f \in Seq(Cells), NEW w \in Objects, LogOk(f, w),
         NEW k \in Keys, NEW v \in Values \cup {Absent}, NEW r \in AppendRecord(f, w, k, v)
  PROVE  /\ LogOk(r.file, r.wal)
         /\ r.wal.format_valid_ = w.format_valid_
         /\ r.wal.needs_recovery_ = w.needs_recovery_
         /\ r.how = "ok" => w.format_valid_ /\ ~w.needs_recovery_
         /\ \A offset : Boundary(f, offset) => Boundary(r.file, offset)
<1> DEFINE header == IF w.header_pending_ /\ ~w.legacy_v2_ THEN Header(w.generation_) ELSE <<>>
           number == IF w.legacy_v2_ THEN 0 ELSE w.next_sequence_
           cells == header \o (IF Exhausted(w) THEN <<>> ELSE Frame(Record(number, k, v)))
           failed == [w EXCEPT !.failure_ = TRUE]
           moved == [w EXCEPT !.header_pending_ = FALSE,
                              !.next_sequence_ = IF w.legacy_v2_ THEN @ ELSE @ + 1]
           left(s) == [failed EXCEPT !.stream = s]
           Flags(o) == /\ o.legacy_v2_ = w.legacy_v2_ /\ o.format_valid_ = w.format_valid_
                       /\ o.needs_recovery_ = w.needs_recovery_
<1>1. /\ Flags(failed) /\ failed.failure_ = TRUE /\ failed.stream = w.stream
      /\ failed.header_pending_ = w.header_pending_
      /\ failed.next_sequence_ = w.next_sequence_
  BY DEF Objects
<1>2. \A s : Flags(left(s)) /\ left(s).failure_ = TRUE /\ left(s).stream = s
  BY DEF Objects
<1>3. /\ Flags(moved) /\ moved.failure_ = w.failure_ /\ moved.header_pending_ = FALSE
      /\ ~w.legacy_v2_ => moved.next_sequence_ = w.next_sequence_ + 1
  BY DEF Objects
<1> DEFINE open == CheckedRecordLength(k, v) /\ MayAppend(w) /\ w.stream = "good"
<1>4. open => Kind(f, w) /\ Tidy(f, w) /\ w.format_valid_ /\ ~w.needs_recovery_ /\ ~w.failure_
  BY DEF LogOk, MayAppend
<1>5. open => LET x == ReplayFromDetailed(f \o cells, 0) IN
              /\ x.status = "CleanEof" /\ cells \in WrittenPartly(cells)
              /\ ~Exhausted(w) => f \o cells # <<>>
              /\ ~Exhausted(w) /\ ~w.legacy_v2_ => x.last_sequence = w.next_sequence_
  BY ZenonT(60), ZenonT(90), <1>4, AppendedCells
<1>6. open => \A part \in WrittenPartly(cells) :
                /\ Kind(f \o part, w)
                /\ \A offset : Boundary(f, offset) => Boundary(f \o part, offset)
  BY ZenonT(60), ZenonT(90), <1>4, AppendedCells
<1>7. \/ r = Outcome(f, w, "refused")
      \/ r = Outcome(f, failed, "refused")
      \/ open /\ r = Outcome(f \o cells, failed, "refused")
      \/ open /\ ~Exhausted(w) /\ r = Outcome(f \o cells, moved, "ok")
      \/ open /\ \E part \in WrittenPartly(cells) :
                   r = Outcome(f \o part, left(IF part = cells THEN "good" ELSE "bad"), "io")
  BY ZenonT(60), ZenonT(90) DEF AppendRecord
<1> HIDE DEF header, number, cells, failed, moved, left, open
<1>8. CASE r = Outcome(f, w, "refused")
  <2>1. r.file = f /\ r.wal = w /\ r.how = "refused"
    BY ONLY <1>8, OutcomeFields
  <2>2. QED
    BY <2>1, Zenon
<1>9. CASE r = Outcome(f, failed, "refused")
  <2>1. r.file = f /\ r.wal = failed /\ r.how = "refused"
    BY ONLY <1>9, OutcomeFields
  <2>2. LogOk(f, failed)
    BY <1>1, Zenon DEF LogOk, Kind, Tidy
  <2>3. QED
    BY <1>1, <2>1, <2>2, Zenon
<1>10. CASE open /\ r = Outcome(f \o cells, failed, "refused")
  <2>1. r.file = f \o cells /\ r.wal = failed /\ r.how = "refused"
    <3> DEFINE g == f \o cells
    <3> HIDE DEF g
    <3>1. r = Outcome(g, failed, "refused")
      BY <1>10 DEF g
    <3>2. r.file = g /\ r.wal = failed /\ r.how = "refused"
      BY ONLY SMTT(90), <3>1, OutcomeFields
    <3>3. QED
      BY <3>2 DEF g
  <2>2. LogOk(f \o cells, failed)
    <3>1. Kind(f \o cells, failed)
      BY <1>1, <1>5, <1>6, <1>10, Zenon DEF Kind
    <3>2. QED
      BY <1>1, <1>5, <1>10, <3>1 DEF LogOk
  <2>3. QED
    BY <1>1, <1>5, <1>6, <1>10, <2>1, <2>2, Zenon
<1>11. CASE open /\ ~Exhausted(w) /\ r = Outcome(f \o cells, moved, "ok")
  <2>1. r.file = f \o cells /\ r.wal = moved /\ r.how = "ok"
    <3> DEFINE g == f \o cells
    <3> HIDE DEF g
    <3>1. r = Outcome(g, moved, "ok")
      BY <1>11 DEF g
    <3>2. r.file = g /\ r.wal = moved /\ r.how = "ok"
      BY ONLY SMTT(90), <3>1, OutcomeFields
    <3>3. QED
      BY <3>2 DEF g
  <2>2. LogOk(f \o cells, moved)
    <3>1. Kind(f \o cells, moved)
      BY <1>3, <1>5, <1>6, <1>11, Zenon DEF Kind
    <3>2. Tidy(f \o cells, moved)
      BY ZenonT(60), ZenonT(90), <1>3, <1>5, <1>11 DEF Tidy
    <3>3. QED
      BY <1>3, <1>5, <1>11, <3>1, <3>2 DEF LogOk
  <2>3. QED
    BY <1>3, <1>4, <1>5, <1>6, <1>11, <2>1, <2>2, Zenon
<1>12. CASE open /\ \E part \in WrittenPartly(cells) :
                      r = Outcome(f \o part, left(IF part = cells THEN "good" ELSE "bad"), "io")
  <2>1. PICK part \in WrittenPartly(cells) :
          r = Outcome(f \o part, left(IF part = cells THEN "good" ELSE "bad"), "io")
    BY <1>12
  <2> DEFINE s == IF part = cells THEN "good" ELSE "bad"
  <2>2. r.file = f \o part /\ r.wal = left(s) /\ r.how = "io"
    <3> DEFINE g == f \o part
               o == left(s)
    <3> HIDE DEF g, o
    <3>1. r = Outcome(g, o, "io")
      BY <2>1 DEF g, o
    <3>2. r.file = g /\ r.wal = o /\ r.how = "io"
      BY ONLY SMTT(90), <3>1, OutcomeFields
    <3>3. QED
      BY <3>2 DEF g, o
  <2>3. LogOk(f \o part, left(s))
    <3>1. Kind(f \o part, left(s))
      BY <1>2, <1>6, <1>12, Zenon DEF Kind
    <3>2. left(s).stream = "good" => part = cells
      BY <1>2
    <3>3. left(s).stream = "good" => ReplayFromDetailed(f \o part, 0).status = "CleanEof"
      BY <1>5, <1>12, <3>2, Zenon
    <3> HIDE DEF s
    <3>4. QED
      BY <1>2, <3>1, <3>3 DEF LogOk
  <2> HIDE DEF s
  <2>4. QED
    BY <1>2, <1>6, <1>12, <2>2, <2>3, Zenon
<1>13. QED
  BY <1>7, <1>8, <1>9, <1>10, <1>11, <1>12

(* Recovery that truncates cuts where a replay from the start would.       *)
LEMMA ReplayAndTruncateOk ==
  ASSUME NEW f \in Seq(Cells), NEW w \in Objects, LogOk(f, w),
         NEW start, Boundary(f, start), NEW r \in ReplayFromAndTruncate(f, w, start)
  PROVE  /\ LogOk(r.file, r.wal)
         /\ \A offset : Boundary(f, offset) => Boundary(r.file, offset)
<1>1. ReplayFromDetailed(f, start).last_good_offset = ReplayFromDetailed(f, 0).last_good_offset
  BY BoundaryIsGood
<1>2. \/ r = Outcome(f, w, "ok")
      \/ r \in TruncateTo(f, w, ReplayFromDetailed(f, 0).last_good_offset)
  BY <1>1 DEF ReplayFromAndTruncate
<1>3. CASE r = Outcome(f, w, "ok")
  <2>1. r.file = f /\ r.wal = w
    BY ONLY <1>3, OutcomeFields
  <2>2. QED
    BY <2>1, Zenon
<1>4. CASE r \in TruncateTo(f, w, ReplayFromDetailed(f, 0).last_good_offset)
  BY <1>4, TruncateOk
<1>5. QED
  BY <1>2, <1>3, <1>4

------------------------------------------------------------------------------
(* What a replay puts into the store.                                      *)

(* Where the records lie that a replay of the whole log applies, and those *)
(* of them about k behind an offset.                                       *)
Places(f) ==
  LET r == ReplayFromDetailed(f, 0) IN {r.start + 3 * i : i \in 1..r.applied_operations}
Mine(f, offset, k) == {p \in Places(f) : p > offset /\ f[p].key = k}

LEMMA PlacesAreRecords ==
  ASSUME NEW f \in Seq(Cells)
  PROVE  Places(f) \subseteq 1..Len(f) /\ \A p \in Places(f) : f[p] \in Records
<1> DEFINE start == ReplayFromDetailed(f, 0).start
           n == ReplayFromDetailed(f, 0).applied_operations
<1>1. \A i \in 1..n : start + 3 * i \in 1..Len(f) /\ f[start + 3 * i] \in Records
  BY ReplayReport
<1>2. Places(f) = {start + 3 * i : i \in 1..n}
  BY DEF Places
<1> HIDE DEF start, n
<1>3. QED
  BY <1>1, <1>2

LEMMA MineAreCounters ==
  ASSUME NEW f \in Seq(Cells), NEW offset, NEW k
  PROVE  Len(f) \in Nat /\ Mine(f, offset, k) \in SUBSET (0..Len(f))
<1>1. Places(f) \subseteq 1..Len(f)
  BY PlacesAreRecords
<1>2. QED
  BY <1>1 DEF Mine

(* From a recorded offset, a key gets the value of its last record behind  *)
(* it, if there is one.                                                    *)
LEMMA ReplayedValue ==
  ASSUME NEW store, NEW f \in Seq(Cells), NEW offset, Boundary(f, offset), NEW k \in Keys
  PROVE  ReplayInto(store, f, offset)[k] =
           IF Mine(f, offset, k) = {} THEN store[k] ELSE f[Max(Mine(f, offset, k))].val
<1> DEFINE start == ReplayFromDetailed(f, offset).start
           n == ReplayFromDetailed(f, offset).applied_operations
           about == {i \in 1..n : f[start + 3 * i].key = k}
           M == Mine(f, offset, k)
<1>1. offset \in Nat
  BY BoundaryIsGood
<1>2. start \in Nat /\ n \in Nat
  BY <1>1, ReplayReport
<1>3. ReplayInto(store, f, offset)[k] =
        IF about = {} THEN store[k] ELSE f[start + 3 * Max(about)].val
  BY DEF ReplayInto, kFrameLength
<1>4. {start + 3 * i : i \in 1..n} = {p \in Places(f) : p > offset}
  BY BoundaryAgrees DEF Places
<1> HIDE DEF start, n
<1>5. M = {start + 3 * i : i \in about}
  <2>1. \A p : p \in M <=> p \in {start + 3 * i : i \in 1..n} /\ f[p].key = k
    BY <1>4 DEF Mine
  <2> HIDE DEF M
  <2>2. QED
    BY <2>1
<1>6. about \in SUBSET (0..n)
  BY <1>2
<1>7. M \in SUBSET (0..Len(f)) /\ Len(f) \in Nat
  BY MineAreCounters
<1> HIDE DEF about, M
<1>8. CASE about = {}
  <2>1. M = {}
    BY <1>5, <1>8
  <2>2. QED
    BY <1>3, <1>8, <2>1 DEF M
<1>9. CASE about # {}
  <2>1. M # {}
    BY <1>5, <1>9
  <2> DEFINE a == Max(about)
             b == Max(M)
  <2>2. a \in about /\ \A i \in about : i <= a
    BY ZenonT(60), ZenonT(90), <1>2, <1>6, <1>9, MaxOfCounters
  <2>3. b \in M /\ \A p \in M : p <= b
    BY ZenonT(60), ZenonT(90), <1>7, <2>1, MaxOfCounters
  <2> HIDE DEF a, b
  <2>4. a \in Nat /\ b \in Nat /\ start + 3 * a \in M
    BY <1>5, <1>6, <1>7, <2>2, <2>3
  <2>5. start + 3 * a <= b
    BY ZenonT(60), ZenonT(90), <2>3, <2>4
  <2>6. PICK i \in about : b = start + 3 * i
    BY <1>5, <2>3
  <2>7. i <= a /\ i \in Nat
    BY <1>6, <2>2
  <2>8. start + 3 * a = b
    BY <1>2, <2>4, <2>5, <2>6, <2>7
  <2>9. QED
    BY <1>3, <1>9, <2>1, <2>8 DEF a, b, M
<1>10. QED
  BY <1>8, <1>9

LEMMA ReplayIsMap ==
  ASSUME NEW store, NEW f, NEW offset
  PROVE  ReplayInto(store, f, offset) = [k \in Keys |-> ReplayInto(store, f, offset)[k]]
  BY DEF ReplayInto

(* Replaying once more, from the start, changes nothing; and a key's value *)
(* does not depend on the other keys.                                      *)
LEMMA ReplayTwice ==
  ASSUME NEW store, NEW f \in Seq(Cells), NEW k \in Keys
  PROVE  ReplayInto(ReplayInto(store, f, 0), f, 0)[k] = ReplayInto(store, f, 0)[k]
<1>1. Boundary(f, 0)
  BY DEF Boundary
<1> DEFINE once == ReplayInto(store, f, 0)
<1>2. once[k] = IF Mine(f, 0, k) = {} THEN store[k] ELSE f[Max(Mine(f, 0, k))].val
  BY ZenonT(60), ZenonT(90), <1>1, ReplayedValue
<1> HIDE DEF once
<1>3. ReplayInto(once, f, 0)[k]
        = IF Mine(f, 0, k) = {} THEN once[k] ELSE f[Max(Mine(f, 0, k))].val
  BY ZenonT(60), ZenonT(90), <1>1, ReplayedValue
<1>4. QED
  BY <1>2, <1>3 DEF once

LEMMA ReplayOfKey ==
  ASSUME NEW f \in Seq(Cells), NEW offset, Boundary(f, offset), NEW k \in Keys,
         NEW store, NEW other, store[k] = other[k]
  PROVE  ReplayInto(store, f, offset)[k] = ReplayInto(other, f, offset)[k]
  BY ReplayedValue

(* Behind a whole log there is nothing to replay, nor in an empty one.     *)
LEMMA NothingBehind ==
  ASSUME NEW store, NEW f \in Seq(Cells), Boundary(f, Len(f)), NEW k \in Keys
  PROVE  ReplayInto(store, f, Len(f))[k] = store[k]
<1>1. Places(f) \subseteq 1..Len(f)
  BY PlacesAreRecords
<1>2. Mine(f, Len(f), k) = {}
  BY <1>1 DEF Mine
<1>3. QED
  BY <1>2, ReplayedValue

LEMMA NothingInEmpty ==
  ASSUME NEW store, NEW k \in Keys
  PROVE  ReplayInto(store, <<>>, 0)[k] = store[k]
<1>1. <<>> \in Seq(Cells) /\ Len(<<>>) = 0 /\ Boundary(<<>>, 0)
  BY DEF Boundary
<1>2. QED
  BY ZenonT(60), ZenonT(90), <1>1, NothingBehind

(* Two logs that a replay reads alike; one with a record about k more.     *)
Alike(f, g) == Places(g) = Places(f) /\ \A p \in Places(f) : g[p] = f[p]
Grown(f, g, k, v) ==
  \E last \in Nat :
    /\ last > Len(f) /\ Places(g) = Places(f) \cup {last}
    /\ \A p \in Places(f) : g[p] = f[p]
    /\ g[last].key = k /\ g[last].val = v

LEMMA AlikeItself == \A f : Alike(f, f)
  BY DEF Alike

LEMMA AlikeReplay ==
  ASSUME NEW f \in Seq(Cells), NEW g \in Seq(Cells), Alike(f, g),
         NEW offset, Boundary(f, offset), Boundary(g, offset), NEW store, NEW k \in Keys
  PROVE  ReplayInto(store, g, offset)[k] = ReplayInto(store, f, offset)[k]
<1> DEFINE M == Mine(f, offset, k)
<1>1. Mine(g, offset, k) = M
  BY DEF Alike, Mine
<1>2. M \subseteq Places(f)
  BY DEF Mine
<1>3. M # {} => Max(M) \in M
  BY ZenonT(60), ZenonT(90), MineAreCounters, MaxOfCounters
<1> HIDE DEF M
<1>4. M # {} => g[Max(M)] = f[Max(M)]
  BY <1>2, <1>3 DEF Alike
<1>5. ReplayInto(store, f, offset)[k] = IF M = {} THEN store[k] ELSE f[Max(M)].val
  BY ZenonT(60), ZenonT(90), ReplayedValue DEF M
<1>6. ReplayInto(store, g, offset)[k] = IF M = {} THEN store[k] ELSE g[Max(M)].val
  <2> DEFINE N == Mine(g, offset, k)
  <2>1. ReplayInto(store, g, offset)[k] = IF N = {} THEN store[k] ELSE g[Max(N)].val
    BY ZenonT(60), ZenonT(90), ReplayedValue
  <2> HIDE DEF N
  <2>2. N = M
    BY <1>1 DEF N
  <2>3. QED
    BY <2>1, <2>2
<1>7. QED
  BY <1>4, <1>5, <1>6

LEMMA GrownReplay ==
  ASSUME NEW f \in Seq(Cells), NEW g \in Seq(Cells), NEW key, NEW v, Grown(f, g, key, v),
         NEW offset, Boundary(f, offset), Boundary(g, offset), NEW store, NEW k \in Keys
  PROVE  ReplayInto(store, g, offset)[k]
           = IF k = key THEN v ELSE ReplayInto(store, f, offset)[k]
<1> DEFINE M == Mine(f, offset, k)
           N == Mine(g, offset, k)
<1>1. PICK last \in Nat :
        /\ last > Len(f) /\ Places(g) = Places(f) \cup {last}
        /\ \A p \in Places(f) : g[p] = f[p]
        /\ g[last].key = key /\ g[last].val = v
  BY DEF Grown
<1>2. offset \in Nat /\ offset <= Len(f)
  <2>1. ReplayFromDetailed(f, 0).last_good_offset \in 0..Len(f)
    BY GoodPart
  <2>2. QED
    BY <2>1, BoundaryIsGood
<1>3. Places(f) \subseteq 1..Len(f)
  BY PlacesAreRecords
<1>4. last > offset /\ last \notin Places(f)
  BY <1>1, <1>2, <1>3
<1>5. ReplayInto(store, g, offset)[k] = IF N = {} THEN store[k] ELSE g[Max(N)].val
  BY ZenonT(60), ZenonT(90), ReplayedValue
<1>6. N \in SUBSET (0..Len(g)) /\ Len(g) \in Nat
  BY MineAreCounters
<1>7. CASE k = key
  <2>1. last \in N
    BY <1>1, <1>4, <1>7 DEF Mine
  <2>2. \A p \in N : p \in Places(f) \/ p = last
    BY <1>1 DEF Mine
  <2> HIDE DEF N
  <2>3. Max(N) \in N /\ last <= Max(N)
    BY ZenonT(60), ZenonT(90), <1>6, <2>1, MaxOfCounters
  <2>4. Max(N) = last
    BY <1>1, <1>3, <2>2, <2>3
  <2>5. QED
    BY <1>1, <1>5, <1>7, <2>1, <2>4
<1>8. CASE k # key
  <2>1. N = M
    BY <1>1, <1>8 DEF Mine
  <2>2. M \subseteq Places(f)
    BY DEF Mine
  <2>3. M # {} => Max(M) \in M
    BY ZenonT(60), ZenonT(90), MineAreCounters, MaxOfCounters
  <2>4. ReplayInto(store, f, offset)[k] = IF M = {} THEN store[k] ELSE f[Max(M)].val
    BY ZenonT(60), ZenonT(90), ReplayedValue
  <2> HIDE DEF M, N
  <2>5. M # {} => g[Max(M)] = f[Max(M)]
    BY <1>1, <2>2, <2>3
  <2>6. QED
    BY <1>5, <1>8, <2>1, <2>4, <2>5
<1>9. QED
  BY <1>7, <1>8

(* Cutting the log where a replay stops.                                   *)
LEMMA PlacesOfFrames ==
  ASSUME NEW f \in Seq(Cells), HeaderOk(f)
  PROVE  Places(f) = {FirstFrame(f) + 3 * i : i \in 1..Applied(f, FirstFrame(f))}
<1>1. /\ ReplayFromDetailed(f, 0).start = FirstFrame(f)
      /\ ReplayFromDetailed(f, 0).applied_operations = Applied(f, FirstFrame(f))
  BY ReplayFrames
<1>2. QED
  BY <1>1 DEF Places

LEMMA PlacesOfWhole ==
  ASSUME NEW f \in Seq(Cells), NEW n, Frames(f, n)
  PROVE  Places(f) = {FirstFrame(f) + 3 * i : i \in 1..n}
  BY FramesReplay DEF Places

LEMMA PlacesOfNone ==
  ASSUME NEW f \in Seq(Cells), f = <<>> \/ ~HeaderOk(f)
  PROVE  Places(f) = {}
<1>1. ReplayFromDetailed(f, 0).applied_operations = 0
  BY DEF ReplayFromDetailed, HeaderOk
<1>2. QED
  BY <1>1 DEF Places

LEMMA CutAlike ==
  ASSUME NEW f \in Seq(Cells)
  PROVE  Alike(f, SubSeq(f, 1, ReplayFromDetailed(f, 0).last_good_offset))
<1> DEFINE good == ReplayFromDetailed(f, 0).last_good_offset
           g == SubSeq(f, 1, good)
<1>1. /\ good \in 0..Len(f) /\ g \in Seq(Cells) /\ Len(g) = good /\ Whole(g)
      /\ g = <<>> \/ Continues(f, g)
  BY GoodPart
<1>2. \A p \in 1..good : g[p] = f[p]
  BY <1>1
<1>3. PICK n \in Nat : Frames(g, n)
  BY <1>1 DEF Whole
<1>4. Places(g) = {FirstFrame(g) + 3 * i : i \in 1..n} /\ Len(g) = FirstFrame(g) + 3 * n
  BY ZenonT(60), ZenonT(90), <1>1, <1>3, PlacesOfWhole DEF Frames
<1> HIDE DEF g
<1>5. Places(g) = Places(f)
  <2>1. CASE f = <<>> \/ ~HeaderOk(f)
    <3>1. good = 0
      BY <2>1 DEF ReplayFromDetailed, HeaderOk, kFrameLength
    <3>2. g = <<>>
      BY <1>1, <3>1
    <3>3. QED
      BY ZenonT(60), ZenonT(90), <1>1, <2>1, <3>2, PlacesOfNone
  <2>2. CASE f # <<>> /\ HeaderOk(f)
    <3> DEFINE start == FirstFrame(f)
               m == Applied(f, start)
    <3>1. start \in Nat /\ good = start + 3 * m
      BY <2>2, ReplayFrames
    <3>2. m \in Nat /\ Places(f) = {start + 3 * i : i \in 1..m}
      BY ZenonT(60), ZenonT(90), <2>2, <3>1, AppliedCount, PlacesOfFrames
    <3>3. CASE g = <<>>
      <4>1. start = 0 /\ m = 0
        <5> HIDE DEF m, start
        <5>1. QED
          BY <1>1, <3>1, <3>2, <3>3
      <4>2. Places(g) = {}
        BY ZenonT(60), ZenonT(90), <1>1, <3>3, PlacesOfNone
      <4>3. QED
        BY <3>2, <4>1, <4>2
    <3>4. CASE Continues(f, g)
      <4>1. FirstFrame(g) = start
        BY <1>1, <3>4, SameHeader
      <4> HIDE DEF m, start
      <4>2. m = n
        BY <1>1, <1>4, <3>1, <3>2, <4>1
      <4>3. QED
        BY <1>4, <3>2, <4>1, <4>2
    <3>5. QED
      BY <1>1, <3>3, <3>4
  <2>3. QED
    BY <2>1, <2>2
<1>6. \A p \in Places(g) : p \in 1..good
  BY <1>1, PlacesAreRecords
<1>7. QED
  BY ZenonT(60), ZenonT(90), <1>2, <1>5, <1>6 DEF Alike, g

(* A record appended to a whole log, and one written only in part.         *)
LEMMA FrameGrown ==
  ASSUME NEW f \in Seq(Cells), NEW n, Frames(f, n),
         NEW rec \in Records, rec.op \in {"Set", "Delete"},
         MagicPrefix(f) => rec.sequence = LastNumber(f, n) + 1
  PROVE  Grown(f, f \o Frame(rec), rec.key, rec.val)
<1> DEFINE g == f \o Frame(rec)
           L == Len(f)
           start == FirstFrame(f)
<1>1. g \in Seq(Cells) /\ g # <<>> /\ MagicPrefix(g) = MagicPrefix(f) /\ Frames(g, n + 1)
  BY FrameAppended
<1>2. n \in Nat /\ L \in Nat /\ L = start + 3 * n /\ FirstFrame(g) = start /\ start \in Nat
  BY <1>1 DEF Frames, FirstFrame, kHeaderLength
<1>3. Places(f) = {start + 3 * i : i \in 1..n}
  BY PlacesOfWhole
<1>4. Places(g) = {start + 3 * i : i \in 1..(n + 1)}
  <2> HIDE DEF g
  <2>1. Places(g) = {FirstFrame(g) + 3 * i : i \in 1..(n + 1)}
    BY <1>1, PlacesOfWhole
  <2>2. QED
    BY <1>2, <2>1
<1>5. g[L + 3] = rec /\ \A j \in 1..L : g[j] = f[j]
  <2> DEFINE fr == Frame(rec)
  <2>1. fr \in Seq(Cells) /\ Len(fr) = 3 /\ fr[3] = rec
    BY CellsWritten DEF Frame
  <2> HIDE DEF fr
  <2>2. /\ \A j \in 1..L : (f \o fr)[j] = f[j]
        /\ \A j \in 1..Len(fr) : (f \o fr)[L + j] = fr[j]
    <3>1. fr \in Seq(Cells)
      BY <2>1
    <3>2. QED
      BY ONLY <3>1, f \in Seq(Cells)
  <2>3. (f \o fr)[L + 3] = fr[3]
    <3>1. 3 \in 1..Len(fr)
      BY <2>1
    <3>2. QED
      BY Zenon, <2>2, <3>1
  <2>4. QED
    BY Zenon, <2>1, <2>2, <2>3 DEF fr
<1>6. Places(f) \subseteq 1..L
  BY PlacesAreRecords
<1> HIDE DEF g, start
<1>7. Places(g) = Places(f) \cup {L + 3}
  <2>1. \A i \in 1..n : i \in 1..(n + 1)
    BY <1>2
  <2>2. \A i \in 1..(n + 1) : i \in 1..n \/ i = n + 1
    BY <1>2
  <2>3. start + 3 * (n + 1) = L + 3 /\ n + 1 \in 1..(n + 1)
    BY <1>2
  <2> HIDE DEF L
  <2>4. QED
    BY <1>3, <1>4, <2>1, <2>2, <2>3
<1>8. L + 3 \in Nat /\ L + 3 > Len(f)
  BY <1>2
<1>9. QED
  BY ZenonT(60), ZenonT(90), <1>5, <1>6, <1>7, <1>8 DEF Grown, g

LEMMA TornAlike ==
  ASSUME NEW f \in Seq(Cells), NEW n, Frames(f, n), NEW rec \in Records,
         NEW part \in WrittenPartly(Frame(rec)), part # Frame(rec),
         f = <<>> => ~MagicPrefix(f \o part)
  PROVE  Alike(f, f \o part)
<1> DEFINE g == f \o part
           start == FirstFrame(f)
<1>1. part \in Seq(Cells) /\ g \in Seq(Cells)
  BY CellsWritten, PartlyWritten
<1>2. \A j \in 1..Len(f) : g[j] = f[j]
  BY <1>1
<1>3. Len(f) <= Len(g)
  BY <1>1
<1>4. ~Sound(g, Len(f))
  BY FrameTorn
<1> HIDE DEF g
<1>5. FirstFrame(g) = start /\ HeaderOk(g)
  <2>1. CASE f = <<>>
    BY <2>1 DEF FirstFrame, HeaderOk, MagicPrefix, g
  <2>2. CASE f # <<>>
    <3>1. Continues(g, f)
      BY <1>2, <1>3, <2>2 DEF Continues
    <3>2. QED
      BY <1>1, <3>1, SameHeader DEF Frames, HeaderOk
  <2>3. QED
    BY <2>1, <2>2
<1>6. /\ n \in Nat /\ start \in Nat /\ Len(f) = start + 3 * n
      /\ \A i \in 1..n : FrameStatus(f, start, i) = "Applied"
  BY DEF Frames, FirstFrame, kHeaderLength
<1>7. ASSUME NEW i \in 1..n PROVE FrameStatus(g, start, i) = "Applied"
  <2> HIDE DEF start
  <2>1. i \in Nat \ {0} /\ start + 3 * i <= Len(f) /\ f # <<>>
    BY <1>6
  <2>2. Continues(g, f)
    BY <1>2, <1>3, <2>1 DEF Continues
  <2>3. QED
    BY <1>1, <1>6, <2>1, <2>2, SameFrame
<1>8. FrameStatus(g, start, n + 1) # "Applied"
  <2> HIDE DEF start
  <2>1. n + 1 \in Nat \ {0} /\ start + 3 * ((n + 1) - 1) = Len(f)
    BY <1>6
  <2>2. QED
    BY <1>1, <1>4, <1>6, <2>1, AppliedMeans
<1>9. Applied(g, start) = n
  BY <1>1, <1>6, <1>7, <1>8, AppliedIs
<1>10. Places(g) = {start + 3 * i : i \in 1..n}
  BY <1>1, <1>5, <1>9, PlacesOfFrames
<1>11. Places(f) = {start + 3 * i : i \in 1..n} /\ Places(f) \subseteq 1..Len(f)
  BY PlacesOfWhole, PlacesAreRecords
<1>12. QED
  BY <1>2, <1>10, <1>11 DEF Alike, g

(* Nothing is read from the first append to an empty log before it is      *)
(* complete.                                                               *)
LEMMA WrittenEnd ==
  ASSUME NEW cells \in Seq(Cells), NEW part \in WrittenPartly(cells)
  PROVE  /\ Len(part) <= Len(cells)
         /\ part = cells \/ Len(part) < Len(cells) \/ part[Len(cells)] \notin Records
<1>1. CASE \E n \in 0..Len(cells) : part = SubSeq(cells, 1, n)
  <2>1. PICK n \in 0..Len(cells) : part = SubSeq(cells, 1, n)
    BY <1>1
  <2>2. Len(part) = n
    BY <2>1
  <2>3. n = Len(cells) => part = cells
    BY <2>1
  <2>4. QED
    BY <2>2, <2>3
<1>2. CASE \E n \in 0..(Len(cells) - 1) :
             part = Append(SubSeq(cells, 1, n), IF cells[n + 1] = Magic THEN TornMagic ELSE Torn)
  <2>1. PICK n \in 0..(Len(cells) - 1) :
          part = Append(SubSeq(cells, 1, n), IF cells[n + 1] = Magic THEN TornMagic ELSE Torn)
    BY <1>2
  <2> DEFINE last == IF cells[n + 1] = Magic THEN TornMagic ELSE Torn
             head == SubSeq(cells, 1, n)
  <2>2. head \in Seq(Cells) /\ Len(head) = n
    OBVIOUS
  <2>3. last \in Cells /\ last \notin Records
    <3>1. Torn \notin Records /\ TornMagic \notin Records
      BY DEF Torn, TornMagic, Records
    <3>2. QED
      BY <3>1, CellsWritten
  <2>4. part = Append(head, last)
    BY <2>1
  <2> HIDE DEF last, head
  <2>5. Len(part) = n + 1 /\ part[n + 1] = last
    BY <2>2, <2>3, <2>4
  <2>6. QED
    BY <2>3, <2>5
<1>3. QED
  BY <1>1, <1>2 DEF WrittenPartly

LEMMA FirstPlace ==
  ASSUME NEW f \in Seq(Cells), MagicPrefix(f)
  PROVE  \A p \in Places(f) : p >= 5
<1>1. CASE HeaderOk(f)
  <2>1. FirstFrame(f) = 2
    BY DEF FirstFrame, kHeaderLength
  <2> DEFINE n == Applied(f, FirstFrame(f))
  <2>2. Places(f) = {2 + 3 * i : i \in 1..n} /\ n \in Nat
    BY ZenonT(60), ZenonT(90), <1>1, <2>1, PlacesOfFrames, AppliedCount
  <2> HIDE DEF n
  <2>3. QED
    BY <2>2
<1>2. CASE ~HeaderOk(f)
  BY <1>2, PlacesOfNone
<1>3. QED
  BY <1>1, <1>2

LEMMA FirstAppendTorn ==
  ASSUME NEW cells \in Seq(Cells), NEW part \in WrittenPartly(cells), cells[1] = Magic,
         Len(cells) < 5 \/ (Len(cells) = 5 /\ part # cells)
  PROVE  Alike(<<>>, part)
<1>1. part \in Seq(Cells)
  BY PartlyWritten
<1>2. Places(part) = {}
  <2>1. CASE part = <<>>
    BY ZenonT(60), ZenonT(90), <1>1, <2>1, PlacesOfNone
  <2>2. CASE part # <<>>
    <3>1. MagicPrefix(part)
      BY <2>2, WrittenFirst DEF MagicPrefix
    <3>2. ASSUME NEW p \in Places(part) PROVE FALSE
      <4>1. p >= 5 /\ p \in 1..Len(part) /\ part[p] \in Records
        BY <1>1, <3>1, FirstPlace, PlacesAreRecords
      <4>2. /\ Len(part) \in Nat /\ Len(cells) \in Nat /\ Len(part) <= Len(cells)
            /\ part = cells \/ Len(part) < Len(cells) \/ part[Len(cells)] \notin Records
        BY <1>1, WrittenEnd
      <4> DEFINE a == Len(part)
                 b == Len(cells)
      <4> HIDE DEF a, b
      <4>3. a \in Nat /\ b \in Nat /\ a <= b /\ p \in 1..a /\ p >= 5 /\ b <= 5
        <5>1. b < 5 \/ b = 5
          BY Zenon DEF b
        <5>2. a \in Nat /\ b \in Nat /\ a <= b /\ p \in 1..a /\ p >= 5
          BY <4>1, <4>2, Zenon DEF a, b
        <5>3. QED
          BY ONLY <5>1, <5>2
      <4>4. p = 5 /\ a = 5 /\ b = 5
        BY ONLY <4>3
      <4>5. part # cells /\ ~(Len(part) < Len(cells))
        BY <4>4 DEF a, b
      <4>6. part[5] \notin Records
        BY <4>2, <4>4, <4>5, Zenon DEF b
      <4>7. QED
        BY <4>1, <4>4, <4>6
    <3>3. QED
      BY <3>2
  <2>3. QED
    BY <2>1, <2>2
<1>3. Places(<<>>) = {}
  <2>1. <<>> \in Seq(Cells)
    OBVIOUS
  <2>2. QED
    BY ZenonT(60), ZenonT(90), <2>1, PlacesOfNone
<1>4. QED
  BY <1>2, <1>3 DEF Alike

(* What an append, complete or not, changes for a replay.                  *)
LEMMA AppendedPlaces ==
  ASSUME NEW f \in Seq(Cells), NEW w \in Objects, Kind(f, w), Tidy(f, w),
         NEW k \in Keys, NEW v \in Values \cup {Absent}, CheckedRecordLength(k, v)
  PROVE  LET header == IF w.header_pending_ /\ ~w.legacy_v2_ THEN Header(w.generation_) ELSE <<>>
             number == IF w.legacy_v2_ THEN 0 ELSE w.next_sequence_
             cells == header \o (IF Exhausted(w) THEN <<>> ELSE Frame(Record(number, k, v))) IN
         /\ ~Exhausted(w) => Grown(f, f \o cells, k, v)
         /\ \A part \in WrittenPartly(cells) :
              Exhausted(w) \/ part # cells => Alike(f, f \o part)
<1> DEFINE header == IF w.header_pending_ /\ ~w.legacy_v2_ THEN Header(w.generation_) ELSE <<>>
           h == f \o header
           number == IF w.legacy_v2_ THEN 0 ELSE w.next_sequence_
           rec == Record(number, k, v)
           cells == header \o (IF Exhausted(w) THEN <<>> ELSE Frame(rec))
<1>1. /\ header \in Seq(Cells) /\ h \in Seq(Cells)
      /\ f # <<>> \/ w.legacy_v2_ => header = <<>>
      /\ f = <<>> /\ ~w.legacy_v2_ => header = Header(w.generation_)
      /\ w.legacy_v2_ <=> ~MagicPrefix(h)
  BY AppendBase
<1>2. PICK n \in Nat : /\ Frames(h, n)
                       /\ ~w.legacy_v2_ => w.next_sequence_ = LastNumber(h, n) + 1
  BY AppendBase
<1>3. number \in 0..MaxSequence /\ w.legacy_v2_ \in BOOLEAN
  BY WalFileAssumption DEF Objects
<1>4. /\ rec \in Records /\ rec.op \in {"Set", "Delete"} /\ rec.sequence = number
      /\ rec.key = k /\ rec.val = v
  <2> HIDE DEF number
  <2>1. rec \in Records
    BY <1>3, WrittenRecord
  <2>2. QED
    BY <2>1 DEF Record
<1>5. MagicPrefix(h) => rec.sequence = LastNumber(h, n) + 1
  BY <1>1, <1>2, <1>3, <1>4
<1>6. Frame(rec) \in Seq(Cells) /\ Len(Frame(rec)) = 3 /\ Frame(rec)[1] = Length
  <2>1. Frame(rec) \in Seq(Cells)
    BY <1>4, CellsWritten
  <2> HIDE DEF rec
  <2>2. QED
    BY <2>1 DEF Frame
<1>7. \/ header = <<>>
      \/ f = <<>> /\ ~w.legacy_v2_ /\ Len(header) = 2 /\ header[1] = Magic
  BY <1>1 DEF Header
<1> HIDE DEF header, number, rec
<1>8. cells \in Seq(Cells)
  BY <1>1, <1>6
<1>9. CASE header = <<>>
  <2>1. h = f
    BY <1>9
  <2>2. Exhausted(w) => cells = <<>>
    BY <1>9
  <2>3. ~Exhausted(w) => cells = Frame(rec)
    BY <1>6, <1>9
  <2> HIDE DEF cells, h
  <2>4. ~Exhausted(w) => Grown(f, f \o cells, k, v)
    <3>1. Grown(h, h \o Frame(rec), rec.key, rec.val)
      BY <1>1, <1>2, <1>4, <1>5, FrameGrown
    <3>2. QED
      BY <1>4, <2>1, <2>3, <3>1
  <2>5. ASSUME NEW part \in WrittenPartly(cells), Exhausted(w) PROVE Alike(f, f \o part)
    <3>1. part = <<>>
      <4>1. cells = <<>>
        BY <2>2, <2>5
      <4>2. part \in Seq(Cells) /\ Len(part) <= Len(cells)
        BY <1>8, PartlyWritten, WrittenEnd
      <4>3. QED
        BY <4>1, <4>2
    <3>2. f \o part = f
      BY <3>1
    <3>3. QED
      BY <3>2, AlikeItself, Zenon
  <2>6. ASSUME NEW part \in WrittenPartly(cells), ~Exhausted(w), part # cells
        PROVE  Alike(f, f \o part)
    <3>1. f = <<>> => ~MagicPrefix(f \o part)
      <4>1. SUFFICES ASSUME f = <<>> PROVE ~MagicPrefix(f \o part)
        OBVIOUS
      <4>2. part \in Seq(Cells) /\ f \o part = part
        BY <1>8, <4>1, PartlyWritten
      <4>3. part # <<>> => part[1] \in {Length, Torn}
        <5>1. cells[1] = Length /\ Length # Magic
          BY <1>6, <2>3, <2>6 DEF Length, Magic
        <5>2. QED
          BY <1>8, <5>1, WrittenFirst
      <4>4. Length \notin {Magic, TornMagic} /\ Torn \notin {Magic, TornMagic}
        BY DEF Length, Magic, TornMagic, Torn
      <4>5. ~MagicPrefix(part)
        BY <4>3, <4>4 DEF MagicPrefix
      <4>6. QED
        BY <4>2, <4>5
    <3>2. QED
      BY <1>2, <1>4, <2>1, <2>3, <2>6, <3>1, TornAlike
  <2>7. QED
    BY ZenonT(60), ZenonT(90), <2>4, <2>5, <2>6 DEF cells, header, number, rec
<1>10. CASE f = <<>> /\ ~w.legacy_v2_ /\ Len(header) = 2 /\ header[1] = Magic
  <2>1. h = header
    BY <1>1, <1>10
  <2>2. ~Exhausted(w) => cells = header \o Frame(rec)
    OBVIOUS
  <2>3. Exhausted(w) => cells = header
    BY <1>1
  <2>4. f \o cells = cells
    BY <1>8, <1>10
  <2> HIDE DEF cells, h
  <2>5. cells[1] = Magic
    <3>1. Len(header) # 0
      BY <1>10
    <3>2. (header \o Frame(rec))[1] = header[1]
      BY <1>1, <1>6, <3>1, ConcatFirst, Zenon
    <3>3. QED
      BY <1>10, <2>2, <2>3, <3>2, Zenon
  <2>6. (Exhausted(w) => Len(cells) = 2) /\ (~Exhausted(w) => Len(cells) = 5)
    <3>1. Len(header \o Frame(rec)) = 5
      <4> DEFINE fr == Frame(rec)
      <4>1. fr \in Seq(Cells) /\ Len(fr) = 3
        BY <1>6
      <4> HIDE DEF fr
      <4>2. Len(header \o fr) = Len(header) + Len(fr)
        <5>1. header \in Seq(Cells) /\ fr \in Seq(Cells)
          BY <1>1, <4>1
        <5>2. QED
          BY ONLY <5>1
      <4>3. QED
        BY <1>10, <4>1, <4>2 DEF fr
    <3>2. QED
      BY <1>10, <2>2, <2>3, <3>1, Zenon
  <2>7. ASSUME ~Exhausted(w) PROVE Grown(f, f \o cells, k, v)
    <3>1. Grown(h, h \o Frame(rec), rec.key, rec.val)
      BY <1>1, <1>2, <1>4, <1>5, FrameGrown
    <3>2. Grown(h, cells, k, v)
      BY <1>4, <2>1, <2>2, <2>7, <3>1, Zenon
    <3>3. Places(h) = {} /\ Places(f) = {}
      <4>1. n = 0 /\ Places(h) = {FirstFrame(h) + 3 * i : i \in 1..n}
        <5>1. Len(h) = 2 /\ MagicPrefix(h)
          BY <1>1, <1>10, <2>1
        <5>2. n = 0
          <6>1. Len(h) = FirstFrame(h) + 3 * n /\ FirstFrame(h) = 2
            BY <1>2, <5>1 DEF Frames, FirstFrame, kHeaderLength
          <6>2. QED
            BY <5>1, <6>1
        <5>3. QED
          BY <1>1, <1>2, <5>2, PlacesOfWhole
      <4>2. 1..n = {}
        BY <4>1
      <4>3. QED
        BY <1>10, <4>1, <4>2, PlacesOfNone, Zenon
    <3>4. Len(f) = 0 /\ Len(h) = 2
      BY <1>10, <2>1
    <3>5. Grown(f, cells, k, v)
      BY <3>2, <3>3, <3>4 DEF Grown
    <3>6. QED
      BY <2>4, <3>5
  <2>8. ASSUME NEW part \in WrittenPartly(cells), Exhausted(w) \/ part # cells
        PROVE  Alike(f, f \o part)
    <3>1. part \in Seq(Cells) /\ f \o part = part
      BY <1>8, <1>10, PartlyWritten
    <3>2. Len(cells) < 5 \/ (Len(cells) = 5 /\ part # cells)
      <4>1. Len(cells) = 2 => Len(cells) < 5
        OBVIOUS
      <4>2. QED
        BY <2>6, <2>8, <4>1, Zenon
    <3>3. Alike(<<>>, part)
      BY <1>8, <2>5, <3>2, FirstAppendTorn
    <3>4. QED
      BY <1>10, <3>1, <3>3
  <2>9. QED
    BY ZenonT(60), ZenonT(90), <2>7, <2>8 DEF cells, header, number, rec
<1>11. QED
  BY ZenonT(60), ZenonT(90), <1>7, <1>9, <1>10

(* An append that returns adds its record, one that is refused nothing,    *)
(* and one that fails either.                                              *)
LEMMA AppendReplays ==
  ASSUME NEW f \in Seq(Cells), NEW w \in Objects, LogOk(f, w),
         NEW k \in Keys, NEW v \in Values \cup {Absent}, NEW r \in AppendRecord(f, w, k, v)
  PROVE  \/ r.how = "refused" /\ Alike(f, r.file)
         \/ r.how = "ok" /\ Grown(f, r.file, k, v)
         \/ r.how = "io" /\ (Alike(f, r.file) \/ Grown(f, r.file, k, v))
<1> DEFINE header == IF w.header_pending_ /\ ~w.legacy_v2_ THEN Header(w.generation_) ELSE <<>>
           number == IF w.legacy_v2_ THEN 0 ELSE w.next_sequence_
           cells == header \o (IF Exhausted(w) THEN <<>> ELSE Frame(Record(number, k, v)))
           failed == [w EXCEPT !.failure_ = TRUE]
           moved == [w EXCEPT !.header_pending_ = FALSE,
                              !.next_sequence_ = IF w.legacy_v2_ THEN @ ELSE @ + 1]
           left(s) == [failed EXCEPT !.stream = s]
           open == CheckedRecordLength(k, v) /\ MayAppend(w) /\ w.stream = "good"
<1>1. open => Kind(f, w) /\ Tidy(f, w)
  BY DEF LogOk, MayAppend
<1>2. open => /\ ~Exhausted(w) => Grown(f, f \o cells, k, v)
              /\ \A part \in WrittenPartly(cells) :
                   Exhausted(w) \/ part # cells => Alike(f, f \o part)
  BY ZenonT(60), ZenonT(90), <1>1, AppendedPlaces
<1>3. open => cells \in WrittenPartly(cells)
  BY ZenonT(60), ZenonT(90), <1>1, AppendedCells
<1>4. \/ r = Outcome(f, w, "refused")
      \/ r = Outcome(f, failed, "refused")
      \/ open /\ Exhausted(w) /\ r = Outcome(f \o cells, failed, "refused")
      \/ open /\ ~Exhausted(w) /\ r = Outcome(f \o cells, moved, "ok")
      \/ open /\ \E part \in WrittenPartly(cells) :
                   r = Outcome(f \o part, left(IF part = cells THEN "good" ELSE "bad"), "io")
  BY ZenonT(60), ZenonT(90) DEF AppendRecord
<1> HIDE DEF header, number, cells, failed, moved, left, open
<1>5. CASE r = Outcome(f, w, "refused") \/ r = Outcome(f, failed, "refused")
  <2>1. r.file = f /\ r.how = "refused"
    BY ONLY <1>5, OutcomeFields
  <2>2. QED
    BY <2>1, AlikeItself, Zenon
<1> DEFINE g == f \o cells
<1> HIDE DEF g
<1>6. CASE open /\ Exhausted(w) /\ r = Outcome(g, failed, "refused")
  <2>1. r.file = g /\ r.how = "refused"
    BY ONLY <1>6, OutcomeFields
  <2>2. QED
    BY <1>2, <1>3, <1>6, <2>1, Zenon DEF g
<1>7. CASE open /\ ~Exhausted(w) /\ r = Outcome(g, moved, "ok")
  <2>1. r.file = g /\ r.how = "ok"
    BY ONLY <1>7, OutcomeFields
  <2>2. QED
    BY <1>2, <1>7, <2>1, Zenon DEF g
<1>8. CASE open /\ \E part \in WrittenPartly(cells) :
                     r = Outcome(f \o part, left(IF part = cells THEN "good" ELSE "bad"), "io")
  <2>1. PICK part \in WrittenPartly(cells) :
          r = Outcome(f \o part, left(IF part = cells THEN "good" ELSE "bad"), "io")
    BY <1>8
  <2> DEFINE q == f \o part
             o == left(IF part = cells THEN "good" ELSE "bad")
  <2>2. r = Outcome(q, o, "io")
    BY <2>1
  <2> HIDE DEF q, o
  <2>3. r.file = q /\ r.how = "io"
    BY ONLY <2>2, OutcomeFields
  <2>4. Alike(f, q) \/ Grown(f, q, k, v)
    BY <1>2, <1>8, Zenon DEF q
  <2>5. QED
    BY <2>3, <2>4, Zenon
<1>9. QED
  BY <1>4, <1>5, <1>6, <1>7, <1>8 DEF g

(* Cutting off a tail changes nothing for a replay.                        *)
LEMMA TruncateReplays ==
  ASSUME NEW f \in Seq(Cells), NEW w \in Objects,
         NEW r \in TruncateTo(f, w, ReplayFromDetailed(f, 0).last_good_offset)
  PROVE  Alike(f, r.file)
<1> DEFINE good == ReplayFromDetailed(f, 0).last_good_offset
           cut == SubSeq(f, 1, good)
           done == Renumbered(cut, w, good)
           closed == [w EXCEPT !.stream = "closed"]
<1>1. Alike(f, cut)
  BY CutAlike
<1>2. \E o, how : done = Outcome(cut, o, how)
  BY DEF Renumbered
<1>3. \/ r = Outcome(f, w, "refused") \/ r = Outcome(f, w, "io")
      \/ r = Outcome(f, closed, "refused") \/ r = Outcome(f, closed, "io")
      \/ r = done \/ r = Outcome(cut, closed, "io") \/ r = [done EXCEPT !.how = "io"]
  BY DEF TruncateTo
<1> HIDE DEF good, cut, done, closed
<1>4. done.file = cut /\ [done EXCEPT !.how = "io"].file = done.file
  BY <1>2 DEF Outcome
<1>5. r.file = f \/ r.file = cut
  <2>1. CASE r = done \/ r = [done EXCEPT !.how = "io"]
    BY <1>4, <2>1, Zenon
  <2>2. CASE \/ r = Outcome(f, w, "refused") \/ r = Outcome(f, w, "io")
             \/ r = Outcome(f, closed, "refused") \/ r = Outcome(f, closed, "io")
             \/ r = Outcome(cut, closed, "io")
    BY ONLY <2>2, OutcomeFields
  <2>3. QED
    BY <1>3, <2>1, <2>2
<1>6. QED
  BY <1>1, <1>5, AlikeItself, Zenon

LEMMA ReplayAndTruncateReplays ==
  ASSUME NEW f \in Seq(Cells), NEW w \in Objects, NEW start, Boundary(f, start),
         NEW r \in ReplayFromAndTruncate(f, w, start)
  PROVE  Alike(f, r.file)
<1>1. ReplayFromDetailed(f, start).last_good_offset = ReplayFromDetailed(f, 0).last_good_offset
  BY BoundaryIsGood
<1>2. \/ r = Outcome(f, w, "ok")
      \/ r \in TruncateTo(f, w, ReplayFromDetailed(f, 0).last_good_offset)
  BY <1>1 DEF ReplayFromAndTruncate
<1>3. CASE r = Outcome(f, w, "ok")
  <2>1. r.file = f
    BY ONLY <1>3, OutcomeFields
  <2>2. QED
    BY <2>1, AlikeItself, Zenon
<1>4. CASE r \in TruncateTo(f, w, ReplayFromDetailed(f, 0).last_good_offset)
  BY <1>4, TruncateReplays
<1>5. QED
  BY <1>2, <1>3, <1>4
===============================================================================
