----------------------------- MODULE SessionProofs -----------------------------
(***************************************************************************)
(* Proofs about Session, for all keys, values and lines and whatever files *)
(* the first process finds: types, snapshots that load, appends that       *)
(* replay reaches and offsets that lie between records.                    *)
(***************************************************************************)
EXTENDS Session, LogProofs

(* Every leaf is tried with Z3, with Zenon, and again with Z3, unless it   *)
(* names its prover: the time to translate a leaf varies, and has a limit. *)
USE SMTT(20), ZenonT(20), SMTT(40), SMTT(60), SMTT(90)

------------------------------------------------------------------------------
(* The snapshot file.                                                      *)

LEMMA EmptyFits == Empty \in FittingMaps
  BY DEF Empty, FittingMaps, EntryFits

(* Whatever Load accepts holds entries that can be saved again.            *)
LEMMA LoadFits ==
  ASSUME NEW f, Layout(f)
  PROVE  Load(f).store \in FittingMaps /\ Load(f).wal_offset \in Nat
<1> DEFINE head == HeadLength(f)
           n == f[head].n
           about(k) == {i \in 1..n : f[head + i].key = k}
           store == [k \in Keys |-> IF about(k) = {} THEN Absent ELSE f[head + Max(about(k))].val]
           offset == IF head = 4 THEN f[3].n ELSE 0
<1>1. CASE Load(f) = NotLoaded \/ Load(f) = LoadThrows
  BY <1>1, EmptyFits DEF NotLoaded, LoadThrows, LoadResult
<1>2. CASE ~(Load(f) = NotLoaded \/ Load(f) = LoadThrows)
  <2>1. /\ f # <<>> /\ ~(Len(f) < head)
        /\ ~(Len(f) < head + n) /\ \A i \in 1..n : EntryReadable(f[head + i])
        /\ Load(f).store = store /\ Load(f).wal_offset = offset
    BY ZenonT(60), ZenonT(90), <1>2 DEF Load, LoadResult
  <2>2. f \in Seq(SnapshotCells) /\ Len(f) \in Nat \ {0}
    BY <2>1 DEF Layout
  <2>3. head \in {1, 4} /\ (head = 1 => f[1] # kSnapshotMagic)
    BY DEF HeadLength
  <2>4. ASSUME NEW i \in 1..Len(f), f[i].is = "number" PROVE f[i].n \in Nat
    <3>1. f[i] \in SnapshotCells
      BY <2>2
    <3>2. QED
      BY <2>4, <3>1 DEF SnapshotCells, kSnapshotMagic
  <2>5. ASSUME NEW i \in 1..Len(f), f[i].is = "entry"
        PROVE  f[i].key \in Keys /\ f[i].val \in Values
    <3>1. f[i] \in SnapshotCells
      BY <2>2
    <3>2. QED
      BY <2>5, <3>1 DEF SnapshotCells, kSnapshotMagic
  <2>6. f[1].is = "magic" => f[1] = kSnapshotMagic
    <3>1. f[1] \in SnapshotCells
      BY <2>2
    <3>2. QED
      BY <3>1 DEF SnapshotCells, kSnapshotMagic
  <2>7. n \in Nat /\ offset \in Nat
    <3>1. f[head].is = "number" /\ (head = 4 => f[3].is = "number")
      BY <2>1, <2>2, <2>3, <2>6 DEF Layout
    <3>2. head \in 1..Len(f) /\ (head = 4 => 3 \in 1..Len(f))
      BY <2>1, <2>2, <2>3
    <3> HIDE DEF head
    <3>3. QED
      BY <2>4, <3>1, <3>2
  <2>8. ASSUME NEW i \in 1..n
        PROVE  f[head + i].key \in Keys /\ f[head + i].val \in Values
               /\ EntryReadable(f[head + i])
    <3>1. head + i \in 2..Len(f) /\ head + i > head
      BY <2>1, <2>2, <2>3, <2>7
    <3>2. f[head + i].is = "entry"
      BY <3>1 DEF Layout
    <3> HIDE DEF head, n
    <3>3. QED
      BY <2>1, <2>2, <2>5, <3>1, <3>2
  <2>9. ASSUME NEW k \in Keys
        PROVE  store[k] \in Values \cup {Absent} /\ EntryFits(k, store[k])
    <3>1. CASE about(k) = {}
      BY <3>1 DEF EntryFits
    <3>2. CASE about(k) # {}
      <4>1. Max(about(k)) \in about(k)
        <5>1. about(k) \in SUBSET (0..n)
          BY <2>7
        <5> HIDE DEF about, n
        <5>2. QED
          BY ZenonT(60), ZenonT(90), <2>7, <3>2, <5>1, MaxOfCounters
      <4>2. store[k] = f[head + Max(about(k))].val
        BY <3>2
      <4>3. Max(about(k)) \in 1..n /\ f[head + Max(about(k))].key = k
        BY <4>1
      <4> HIDE DEF store, head, n, about
      <4>4. QED
        BY <2>8, <4>2, <4>3 DEF EntryReadable, EntryFits
    <3>3. QED
      BY <3>1, <3>2
  <2>10. store \in FittingMaps
    <3>1. store \in [Keys -> Values \cup {Absent}]
      BY <2>9
    <3> HIDE DEF store
    <3>2. QED
      BY <2>9, <3>1 DEF FittingMaps
  <2>11. QED
    BY <2>1, <2>7, <2>10
<1>3. QED
  BY <1>1, <1>2

(* A map's entries in some order: each once, and nothing else.             *)
LEMMA EntriesOfMap ==
  ASSUME NEW store \in FittingMaps
  PROVE  LET S == {Entry(k, store[k]) : k \in {j \in Keys : store[j] # Absent}}
             e == Entries(store) IN
         /\ e \in Seq(S)
         /\ \A x \in S : \E i \in 1..Len(e) : e[i] = x
         /\ \A i, j \in 1..Len(e) : e[i] = e[j] => i = j
<1> DEFINE There == {j \in Keys : store[j] # Absent}
           S == {Entry(k, store[k]) : k \in There}
           e == Entries(store)
           n == Cardinality(S)
<1>1. IsFiniteSet(There)
  BY DataAssumption, WalFileAssumption, FS_Subset
<1>2. IsFiniteSet(S)
  <2>1. [k \in There |-> Entry(k, store[k])] \in Surjection(There, S)
    BY DEF Surjection
  <2> HIDE DEF There, S
  <2>2. QED
    BY <1>1, <2>1, FS_Surjection DEF ExistsSurjection
<1>3. n \in Nat /\ ExistsBijection(1..n, S)
  BY <1>2, FS_CardinalityType
<1> HIDE DEF S
<1>4. e \in Bijection(1..n, S)
  BY ZenonT(60), ZenonT(90), <1>3 DEF ExistsBijection, Entries, S
<1> HIDE DEF e
<1>5. /\ e \in [1..n -> S] /\ \A i, j \in 1..n : e[i] = e[j] => i = j
      /\ \A x \in S : \E i \in 1..n : e[i] = x
  BY <1>4 DEF Bijection, Injection, Surjection, IsInjective
<1>6. e \in Seq(S) /\ Len(e) = n
  BY <1>3, <1>5
<1>7. QED
  BY ZenonT(60), ZenonT(90), <1>5, <1>6 DEF S, e

(* Load gives back what Save was given: the map and the offset.            *)
LEMMA SaveThenLoad ==
  ASSUME NEW store \in FittingMaps, NEW offset \in Nat
  PROVE  /\ Layout(Encoding(store, offset))
         /\ Load(Encoding(store, offset))
              = LoadResult("loaded", store, Len(Entries(store)), offset)
<1> DEFINE S == {Entry(k, store[k]) : k \in {j \in Keys : store[j] # Absent}}
           e == Entries(store)
           n == Len(e)
           f == Encoding(store, offset)
<1>1. /\ e \in Seq(S)
      /\ \A x \in S : \E i \in 1..n : e[i] = x
      /\ \A i, j \in 1..n : e[i] = e[j] => i = j
  BY ZenonT(60), ZenonT(90), EntriesOfMap
<1>2. n \in Nat /\ \A i \in 1..n : e[i] \in S
  BY <1>1
<1>3. ASSUME NEW i \in 1..n
      PROVE  /\ e[i] \in [is : {"entry"}, key : Keys, val : Values]
             /\ e[i].val = store[e[i].key] /\ EntryReadable(e[i])
  <2>1. PICK k \in Keys : store[k] # Absent /\ e[i] = Entry(k, store[k])
    BY <1>2
  <2>2. store[k] \in Values /\ EntryFits(k, store[k])
    BY <2>1 DEF FittingMaps
  <2>3. QED
    BY <2>1, <2>2 DEF Entry, EntryReadable, EntryFits
<1>4. ASSUME NEW k \in Keys, store[k] # Absent
      PROVE  \E i \in 1..n : e[i].key = k
  <2>1. Entry(k, store[k]) \in S
    BY <1>4
  <2>2. PICK i \in 1..n : e[i] = Entry(k, store[k])
    BY <1>1, <2>1
  <2>3. QED
    BY <2>2 DEF Entry
<1>5. e \in Seq(SnapshotCells)
  BY <1>1, <1>2, <1>3 DEF SnapshotCells
<1> HIDE DEF S, e
<1>6. f = <<kSnapshotMagic, kSnapshotVersion, Number(offset), Number(n)>> \o e
  BY <1>5 DEF Encoding, LegacyEncoding, e
<1>7. <<kSnapshotMagic, kSnapshotVersion, Number(offset), Number(n)>> \in Seq(SnapshotCells)
  BY <1>2 DEF SnapshotCells, kSnapshotVersion, Number
<1> HIDE DEF f
<1>8. /\ f \in Seq(SnapshotCells) /\ Len(f) = 4 + n /\ f # <<>>
      /\ f[1] = kSnapshotMagic /\ f[2] = kSnapshotVersion
      /\ f[3] = Number(offset) /\ f[4] = Number(n)
      /\ \A i \in 1..n : f[4 + i] = e[i]
  BY <1>2, <1>5, <1>6, <1>7
<1>9. HeadLength(f) = 4
  BY <1>8 DEF HeadLength
<1>10. Layout(f)
  <2>1. ASSUME NEW i \in 2..Len(f)
        PROVE  f[i].is = IF i > HeadLength(f) THEN "entry" ELSE "number"
    <3>1. CASE i > 4
      <4>1. i - 4 \in 1..n /\ f[i] = e[i - 4]
        BY <1>2, <1>8, <3>1
      <4>2. QED
        BY <1>3, <1>9, <3>1, <4>1
    <3>2. CASE i \in 2..4
      BY <1>8, <1>9, <3>2 DEF Number, kSnapshotVersion
    <3>3. QED
      BY <3>1, <3>2
  <2>2. f[1].is = "magic"
    BY <1>8 DEF kSnapshotMagic
  <2>3. QED
    BY <1>8, <2>1, <2>2 DEF Layout
<1> DEFINE head == HeadLength(f)
           about(k) == {i \in 1..f[head].n : f[head + i].key = k}
           loaded == [k \in Keys |-> IF about(k) = {} THEN Absent
                                     ELSE f[head + Max(about(k))].val]
<1>11. head = 4 /\ f[head].n = n /\ f[3].n = offset
  BY <1>8, <1>9 DEF Number
<1>12. ASSUME NEW k \in Keys PROVE loaded[k] = store[k]
  <2>1. \A i : i \in about(k) <=> i \in 1..n /\ e[i].key = k
    BY <1>8, <1>11
  <2>2. CASE about(k) = {}
    <3>1. loaded[k] = Absent
      BY <2>2
    <3> HIDE DEF loaded, about
    <3>2. QED
      BY <1>4, <2>1, <2>2, <3>1
  <2>3. CASE about(k) # {}
    <3>1. Max(about(k)) \in about(k)
      <4>1. about(k) \in SUBSET (0..n)
        BY <1>2, <2>1
      <4> HIDE DEF about
      <4>2. QED
        BY ZenonT(60), ZenonT(90), <1>2, <2>3, <4>1, MaxOfCounters
    <3>2. loaded[k] = f[head + Max(about(k))].val
      BY <2>3
    <3> HIDE DEF loaded, about, n
    <3>3. Max(about(k)) \in 1..n /\ e[Max(about(k))].key = k
      BY <2>1, <3>1
    <3>4. f[head + Max(about(k))] = e[Max(about(k))]
      BY <1>8, <1>11, <3>3
    <3>5. QED
      BY <1>3, <3>2, <3>3, <3>4
  <2>4. QED
    BY <2>2, <2>3
<1>13. Load(f) = LoadResult("loaded", store, n, offset)
  <2>1. loaded = store
    BY <1>12 DEF FittingMaps
  <2>2. ~(Len(f) < head) /\ ~(head = 4 /\ f[2] # kSnapshotVersion) /\ ~(Len(f) < head + f[head].n)
    BY <1>2, <1>8, <1>11
  <2>3. \A i \in 1..f[head].n : EntryReadable(f[head + i])
    BY <1>3, <1>8, <1>11
  <2>4. Load(f) = LoadResult("loaded", loaded, f[head].n, IF head = 4 THEN f[3].n ELSE 0)
    BY <1>8, <2>2, <2>3 DEF Load
  <2> HIDE DEF loaded
  <2>5. QED
    BY <1>11, <2>1, <2>4
<1>14. QED
  BY <1>10, <1>13 DEF f, e

(* So the snapshot that is in place after SaveVerified can be loaded, and  *)
(* only an I/O error makes it throw.                                       *)
LEMMA SaveOutcome ==
  ASSUME NEW f, Layout(f), NEW store \in FittingMaps, NEW offset \in Nat,
         NEW s \in SaveVerified(f, store, offset)
  PROVE  /\ s.how \in {"ok", "io"}
         /\ Layout(s.snap)
         /\ \/ s.snap = f /\ s.how = "io"
            \/ Load(s.snap) = LoadResult("loaded", store, Len(Entries(store)), offset)
<1>1. \/ s = [snap |-> f, how |-> "io"]
      \/ s.snap = Encoding(store, offset) /\ s.how \in {"ok", "io"}
  BY SaveThenLoad DEF SaveVerified, Verify
<1>2. QED
  BY <1>1, SaveThenLoad

------------------------------------------------------------------------------
(* Types, and a snapshot that loads.                                       *)

(* SnapshotLoads is kept because what is in memory, or copied from it by   *)
(* the checkpoint thread, fits into a snapshot.                            *)
Captures == [offset : Nat, store : FittingMaps]
Storable ==
  /\ TypeOK
  /\ mem \in FittingMaps
  /\ captured # NotCaptured => captured \in Captures
  /\ SnapshotLoads

LEMMA Counting ==
  ASSUME TypeOK, NEW how, Fault(how)
  PROVE  faults' \in 0..MaxFaults
  BY SessionAssumption DEF TypeOK, Fault

LEMMA RecoveredFits ==
  ASSUME TypeOK
  PROVE  Recovered(file, snap) \in FittingMaps
<1>1. file \in Seq(Cells) /\ Layout(snap)
  BY DEF TypeOK
<1>2. QED
  BY <1>1, LoadFits, ReplayFits DEF Recovered

LEMMA FittingIsMap == FittingMaps \subseteq [Keys -> Values \cup {Absent}]
  BY DEF FittingMaps

LEMMA CapturesType ==
  Captures \subseteq [offset : Nat, store : [Keys -> Values \cup {Absent}]]
  BY FittingIsMap DEF Captures

LEMMA StorableInit == Init => Storable
<1> SUFFICES ASSUME Init PROVE Storable
  OBVIOUS
<1>1. file \in Seq(Cells) /\ Layout(snap)
  BY SessionAssumption DEF Init
<1>2. mem \in FittingMaps
  BY EmptyFits DEF Init
<1>3. 0 \in 0..MaxLines /\ 0 \in 0..MaxStops /\ 0 \in 0..MaxFaults
  BY SessionAssumption
<1>4. TypeOK
  BY ZenonT(60), ZenonT(90), <1>1, <1>2, <1>3, FittingIsMap DEF Init, TypeOK
<1>5. QED
  BY <1>2, <1>4 DEF Init, Storable, SnapshotLoads

LEMMA StartStorable ==
  ASSUME Storable, Start PROVE Storable'
<1>1. TypeOK /\ file \in Seq(Cells) /\ CanOpen(file)
  BY DEF Storable, TypeOK, Start, CanStart
<1>2. wal' \in Objects /\ up'
  BY <1>1, OpenedType DEF Start
<1>3. mem' \in FittingMaps
  BY <1>1, RecoveredFits DEF Start
<1>4. UNCHANGED <<file, snap, due, captured, checkpoint_error_, out, lines, stops, faults>>
  BY DEF Start, background, bounds
<1>5. TypeOK'
  BY <1>2, <1>3, <1>4, <1>1, FittingIsMap DEF Storable, TypeOK, Start
<1>6. SnapshotLoads'
  BY <1>4 DEF SnapshotLoads, Start, CanStart
<1>7. QED
  BY <1>3, <1>4, <1>5, <1>6 DEF Storable

LEMMA StartTruncatingStorable ==
  ASSUME Storable, StartTruncating PROVE Storable'
<1>1. TypeOK /\ file \in Seq(Cells) /\ Layout(snap) /\ CanOpen(file)
  BY DEF Storable, TypeOK, StartTruncating, CanStart
<1>2. Opened(file) \in Objects /\ Load(snap).wal_offset \in Nat
  BY <1>1, OpenedType, LoadFits
<1>3. PICK r \in ReplayFromAndTruncate(file, Opened(file), Load(snap).wal_offset) :
        /\ Fault(r.how) /\ file' = r.file /\ up' = (r.how = "ok")
        /\ wal' = IF r.how = "ok" THEN r.wal ELSE NoWal
        /\ mem' = IF r.how = "ok" THEN Recovered(file, snap) ELSE mem
  BY DEF StartTruncating
<1>4. r \in Outcomes
  BY <1>1, <1>2, ReplayAndTruncateType
<1>5. file' \in Seq(Cells) /\ r.wal \in Objects
  BY <1>3, <1>4 DEF Outcomes
<1>6. mem' \in FittingMaps
  BY <1>1, <1>3, RecoveredFits DEF Storable
<1>7. faults' \in 0..MaxFaults
  BY <1>1, <1>3, Counting
<1>8. UNCHANGED <<snap, due, captured, checkpoint_error_, out, lines, stops>>
  BY DEF StartTruncating, background
<1>9. TypeOK'
  <2>1. (IF up THEN wal \in Objects ELSE wal = NoWal)' /\ up' \in BOOLEAN
    BY ZenonT(60), ZenonT(90), <1>3, <1>5
  <2>2. QED
    BY <1>1, <1>5, <1>6, <1>7, <1>8, <2>1, FittingIsMap DEF TypeOK
<1>10. SnapshotLoads'
  BY <1>8 DEF SnapshotLoads, StartTruncating, CanStart
<1>11. QED
  BY <1>6, <1>8, <1>9, <1>10 DEF Storable

LEMMA StopStorable ==
  ASSUME Storable, Stop, out' \in {"none", "OK", "ERR", "0", "1", "shown", "Bye"},
         lines' \in 0..MaxLines
  PROVE  Storable'
<1>1. mem' \in FittingMaps
  BY EmptyFits DEF Stop
<1>2. stops' \in 0..MaxStops
  BY SessionAssumption DEF Stop, Storable, TypeOK
<1>3. TypeOK'
  BY ZenonT(60), ZenonT(90), <1>1, <1>2, FittingIsMap DEF Storable, TypeOK, Stop
<1>4. QED
  BY <1>1, <1>3 DEF Storable, Stop, SnapshotLoads

LEMMA MutateStorable ==
  ASSUME Storable, up, NEW k \in Keys, NEW v \in Values \cup {Absent},
         NEW answer \in {"OK", "0", "1"}, Mutate(k, v, answer), lines' \in 0..MaxLines
  PROVE  Storable'
<1>1. TypeOK /\ file \in Seq(Cells) /\ wal \in Objects
  BY DEF Storable, TypeOK
<1>2. UNCHANGED <<snap, up, captured, checkpoint_error_, stops>>
  BY DEF Mutate
<1>3. CASE checkpoint_error_
  <2>1. UNCHANGED <<file, wal, mem, due, faults>> /\ out' = "ERR"
    BY <1>3 DEF Mutate, Reply
  <2>2. TypeOK'
    BY <1>1, <1>2, <2>1 DEF TypeOK
  <2>3. QED
    BY <1>2, <2>1, <2>2 DEF Storable, SnapshotLoads
<1>4. CASE ~checkpoint_error_
  <2>1. PICK r \in AppendRecord(file, wal, k, v) :
          /\ Fault(r.how) /\ file' = r.file /\ wal' = r.wal
          /\ mem' = Stored(k, v, r.how)
          /\ due' = (due \/ r.how = "ok")
          /\ out' = IF r.how = "ok" THEN answer ELSE "ERR"
    BY <1>4 DEF Mutate, Reply
  <2>2. r \in Outcomes /\ (r.how = "ok" => CheckedRecordLength(k, v))
    BY <1>1, AppendType
  <2>3. mem' \in FittingMaps
    <3>1. mem \in FittingMaps
      BY DEF Storable
    <3>2. CheckedRecordLength(k, v) => EntryFits(k, v)
      <4>1. CheckedRecordLength(k, v) => Record(0, k, v) \in Records
        BY WrittenRecord, WalFileAssumption
      <4>2. Record(0, k, v).key = k /\ Record(0, k, v).val = v
        BY DEF Record
      <4>3. QED
        BY <4>1, <4>2, RecordFits
    <3>3. QED
      BY <2>1, <2>2, <3>1, <3>2 DEF Stored, FittingMaps
  <2>4. file' \in Seq(Cells) /\ wal' \in Objects
    BY <2>1, <2>2 DEF Outcomes
  <2>5. faults' \in 0..MaxFaults
    BY <1>1, <2>1, Counting
  <2>6. due' \in BOOLEAN /\ out' \in {"OK", "0", "1", "ERR"}
    BY <1>1, <2>1 DEF TypeOK
  <2>7. TypeOK'
    BY <1>1, <1>2, <2>3, <2>4, <2>5, <2>6, FittingIsMap DEF TypeOK
  <2>8. QED
    BY <1>2, <2>3, <2>7 DEF Storable, SnapshotLoads
<1>5. QED
  BY <1>3, <1>4

LEMMA ClearStorable ==
  ASSUME Storable, NEW c, ExecuteClearPersistence(c)
  PROVE  Storable'
<1>1. TypeOK /\ up /\ file \in Seq(Cells) /\ wal \in Objects /\ lines' \in 0..MaxLines
  BY SessionAssumption DEF Storable, TypeOK, ExecuteClearPersistence, Reads
<1>2. PICK r \in Clear(file, wal) :
        /\ Fault(r.how) /\ file' = r.file /\ wal' = r.wal
        /\ snap' = IF r.how = "ok" THEN <<>> ELSE snap
        /\ due' = (due /\ r.how # "ok")
        /\ out' = IF r.how = "ok" THEN "OK" ELSE "ERR"
  BY DEF ExecuteClearPersistence, Reply
<1>3. UNCHANGED <<mem, up, captured, checkpoint_error_, stops>>
  BY DEF ExecuteClearPersistence
<1>4. file' \in Seq(Cells) /\ wal' \in Objects
  BY <1>1, <1>2, ClearType DEF Outcomes
<1>5. Layout(snap')
  BY <1>1, <1>2 DEF TypeOK, Layout
<1>6. faults' \in 0..MaxFaults
  BY <1>1, <1>2, Counting
<1>7. TypeOK'
  BY <1>1, <1>2, <1>3, <1>4, <1>5, <1>6 DEF TypeOK
<1>8. SnapshotLoads'
  <2>1. Load(<<>>).status # "thrown"
    BY DEF Load, NotLoaded, LoadResult
  <2>2. QED
    BY <1>1, <1>2, <2>1 DEF Storable, SnapshotLoads
<1>9. QED
  BY <1>3, <1>7, <1>8 DEF Storable

(* A save, whatever becomes of it, leaves a snapshot that loads if the one *)
(* before it did.                                                          *)
LEMMA SavedLoads ==
  ASSUME Storable, up, NEW store \in FittingMaps, NEW offset \in Nat,
         NEW s \in SaveVerified(snap, store, offset)
  PROVE  /\ Layout(s.snap) /\ Load(s.snap).status # "thrown"
         /\ s.how \in {"ok", "io"}
<1>1. Layout(snap) /\ Load(snap).status # "thrown"
  BY DEF Storable, TypeOK, SnapshotLoads
<1>2. /\ s.how \in {"ok", "io"} /\ Layout(s.snap)
      /\ \/ s.snap = snap
         \/ Load(s.snap) = LoadResult("loaded", store, Len(Entries(store)), offset)
  BY <1>1, SaveOutcome
<1>3. LoadResult("loaded", store, Len(Entries(store)), offset).status = "loaded"
  BY DEF LoadResult
<1>4. QED
  BY <1>1, <1>2, <1>3

LEMMA CompactStorable ==
  ASSUME Storable, NEW c, ExecuteCompact(c)
  PROVE  Storable'
<1>1. /\ TypeOK /\ up /\ file \in Seq(Cells) /\ wal \in Objects /\ lines' \in 0..MaxLines
      /\ mem \in FittingMaps
  <2>1. TypeOK /\ mem \in FittingMaps
    BY DEF Storable
  <2>2. up /\ lines < MaxLines /\ lines' = lines + 1
    BY DEF ExecuteCompact, Reads
  <2>3. file \in Seq(Cells) /\ wal \in Objects /\ lines \in 0..MaxLines
    BY <2>1, <2>2 DEF TypeOK
  <2>4. lines' \in 0..MaxLines
    BY <2>2, <2>3, SessionAssumption
  <2>5. QED
    BY <2>1, <2>2, <2>3, <2>4
<1>2. PICK s \in SaveVerified(snap, mem, 0) :
        /\ snap' = s.snap
        /\ \E r \in IF s.how = "ok" THEN Clear(file, wal) ELSE {Outcome(file, wal, s.how)} :
             /\ Fault(r.how) /\ file' = r.file /\ wal' = r.wal
             /\ due' = (due /\ r.how # "ok")
             /\ out' = IF r.how = "ok" THEN "OK" ELSE "ERR"
  BY ZenonT(60), ZenonT(90) DEF ExecuteCompact, Reply
<1>3. Layout(s.snap) /\ Load(s.snap).status # "thrown" /\ s.how \in {"ok", "io"}
  BY <1>1, SavedLoads
<1>4. PICK r \in IF s.how = "ok" THEN Clear(file, wal) ELSE {Outcome(file, wal, s.how)} :
        /\ Fault(r.how) /\ file' = r.file /\ wal' = r.wal
        /\ due' = (due /\ r.how # "ok")
        /\ out' = IF r.how = "ok" THEN "OK" ELSE "ERR"
  BY <1>2
<1>5. r \in Outcomes
  BY <1>1, <1>3, ClearType, OutcomeType
<1>6. file' \in Seq(Cells) /\ wal' \in Objects
  BY <1>4, <1>5 DEF Outcomes
<1>7. faults' \in 0..MaxFaults
  BY <1>1, <1>4, Counting
<1>8. UNCHANGED <<mem, up, captured, checkpoint_error_, stops>>
  BY ZenonT(60), ZenonT(90) DEF ExecuteCompact
<1>9. TypeOK'
  BY <1>1, <1>2, <1>3, <1>4, <1>6, <1>7, <1>8 DEF TypeOK
<1>10. QED
  BY <1>2, <1>3, <1>8, <1>9 DEF Storable, SnapshotLoads

LEMMA ExecuteStorable ==
  ASSUME Storable, NEW line \in Lines, Execute(Parse(line))
  PROVE  Storable'
<1> DEFINE c == Parse(line)
<1>1. /\ c.type \in {"Set", "Del"} => c.key \in Keys
      /\ c.type = "Set" => c.value \in Values
  BY SessionAssumption
<1> HIDE DEF c
<1>2. ASSUME NEW type, Reads(type, c) PROVE up /\ lines' \in 0..MaxLines /\ c.type = type
  BY <1>2, SessionAssumption DEF Storable, TypeOK, Reads
<1>3. CASE ExecuteSet(c)
  <2>1. Reads("Set", c) /\ Mutate(c.key, c.value, "OK")
    BY <1>3 DEF ExecuteSet
  <2>2. up /\ lines' \in 0..MaxLines /\ c.key \in Keys /\ c.value \in Values \cup {Absent}
    BY <1>1, <1>2, <2>1
  <2>3. QED
    BY <2>1, <2>2, MutateStorable
<1>4. CASE ExecuteDel(c)
  <2>1. PICK answer \in {"1", "0"} : Reads("Del", c) /\ Mutate(c.key, Absent, answer)
    BY <1>4 DEF ExecuteDel
  <2>2. up /\ lines' \in 0..MaxLines /\ c.key \in Keys
    BY <1>1, <1>2, <2>1
  <2>3. QED
    BY <2>1, <2>2, MutateStorable
<1>5. CASE ExecuteReadOnly(c)
  <2>1. lines' \in 0..MaxLines
    BY <1>2, <1>5 DEF ExecuteReadOnly
  <2>2. out' \in {"ERR", "shown"}
    BY <1>5 DEF ExecuteReadOnly, Reply
  <2>3. UNCHANGED <<file, wal, snap, mem, up, due, captured, checkpoint_error_, stops, faults>>
    BY <1>5 DEF ExecuteReadOnly, files, background
  <2>4. TypeOK'
    BY <2>1, <2>2, <2>3 DEF Storable, TypeOK
  <2>5. QED
    BY <2>3, <2>4 DEF Storable, SnapshotLoads
<1>6. CASE ExecuteExit(c)
  BY <1>2, <1>6, StopStorable DEF ExecuteExit, Reply
<1>7. CASE ExecuteClearPersistence(c)
  BY <1>7, ClearStorable
<1>8. CASE ExecuteCompact(c)
  BY <1>8, CompactStorable
<1>9. QED
  BY <1>3, <1>4, <1>5, <1>6, <1>7, <1>8 DEF Execute, c

LEMMA CaptureStorable ==
  ASSUME Storable, Capture PROVE Storable'
<1>1. UNCHANGED <<file, wal, snap, mem, up, out, lines, stops, faults>>
  BY DEF Capture, files, bounds
<1>2. CASE CanTellOffset(wal)
  <2>1. captured' = [offset |-> Len(file), store |-> mem] /\ ~due' /\ UNCHANGED checkpoint_error_
    BY <1>2 DEF Capture, CurrentOffset
  <2>2. captured' \in Captures /\ due' \in BOOLEAN
    <3>1. Len(file) \in Nat /\ mem \in FittingMaps
      BY DEF Storable, TypeOK
    <3>2. captured' \in Captures
      BY <2>1, <3>1 DEF Captures
    <3>3. due' = FALSE
      BY <1>2 DEF Capture
    <3>4. QED
      BY ZenonT(60), ZenonT(90), <3>2, <3>3
  <2>3. TypeOK'
    BY <1>1, <2>1, <2>2, CapturesType DEF Storable, TypeOK
  <2>4. QED
    BY <1>1, <2>2, <2>3 DEF Storable, SnapshotLoads
<1>3. CASE ~CanTellOffset(wal)
  <2>1. checkpoint_error_' = TRUE /\ UNCHANGED <<captured, due>>
    BY <1>3 DEF Capture
  <2>2. TypeOK'
    BY <1>1, <2>1 DEF Storable, TypeOK
  <2>3. QED
    BY <1>1, <2>1, <2>2 DEF Storable, SnapshotLoads
<1>4. QED
  BY <1>2, <1>3

LEMMA SaveCapturedStorable ==
  ASSUME Storable, SaveCaptured PROVE Storable'
<1>1. TypeOK /\ up /\ captured.store \in FittingMaps /\ captured.offset \in Nat
  BY DEF Storable, SaveCaptured, Captures
<1>2. PICK s \in SaveVerified(snap, captured.store, captured.offset) :
        /\ Fault(s.how) /\ snap' = s.snap
        /\ checkpoint_error_' = (checkpoint_error_ \/ s.how # "ok")
  BY DEF SaveCaptured
<1>3. Layout(snap') /\ Load(snap').status # "thrown"
  BY <1>1, <1>2, SavedLoads
<1>4. faults' \in 0..MaxFaults
  BY <1>1, <1>2, Counting
<1>5. captured' = NotCaptured /\ UNCHANGED <<file, wal, mem, up, due, out, lines, stops>>
  BY DEF SaveCaptured
<1>6. checkpoint_error_' \in BOOLEAN
  BY <1>1, <1>2 DEF TypeOK
<1>7. TypeOK'
  BY <1>1, <1>3, <1>4, <1>5, <1>6 DEF TypeOK
<1>8. QED
  BY <1>3, <1>5, <1>7 DEF Storable, SnapshotLoads

LEMMA SaveSnapshotStorable ==
  ASSUME Storable, SaveSnapshot PROVE Storable'
<1>1. TypeOK /\ up /\ mem \in FittingMaps /\ Len(file) \in Nat
  BY DEF Storable, TypeOK, SaveSnapshot
<1>2. PICK s \in SaveVerified(snap, mem, Len(file)) :
        Fault(s.how) /\ snap' = s.snap /\ due' = (due /\ s.how # "ok")
  BY DEF SaveSnapshot, CurrentOffset
<1>3. Layout(snap') /\ Load(snap').status # "thrown"
  BY <1>1, <1>2, SavedLoads
<1>4. faults' \in 0..MaxFaults
  BY <1>1, <1>2, Counting
<1>5. UNCHANGED <<file, wal, mem, up, captured, checkpoint_error_, out, lines, stops>>
  BY DEF SaveSnapshot
<1>6. due' \in BOOLEAN
  BY <1>1, <1>2 DEF TypeOK
<1>7. TypeOK'
  BY <1>1, <1>3, <1>4, <1>5, <1>6 DEF TypeOK
<1>8. QED
  BY <1>3, <1>5, <1>7 DEF Storable, SnapshotLoads

LEMMA TruncateTailStorable ==
  ASSUME Storable, TruncateTail PROVE Storable'
<1>1. TypeOK /\ up /\ file \in Seq(Cells) /\ wal \in Objects
  BY DEF Storable, TypeOK, TruncateTail
<1>2. ReplayFromDetailed(file, 0).last_good_offset \in Nat
  BY <1>1, ReplayReport
<1>3. PICK r \in TruncateTo(file, wal, ReplayFromDetailed(file, 0).last_good_offset) :
        Fault(r.how) /\ file' = r.file /\ wal' = r.wal
  BY DEF TruncateTail
<1>4. file' \in Seq(Cells) /\ wal' \in Objects
  BY <1>1, <1>2, <1>3, TruncateType DEF Outcomes
<1>5. faults' \in 0..MaxFaults
  BY <1>1, <1>3, Counting
<1>6. UNCHANGED <<snap, mem, up, due, captured, checkpoint_error_, out, lines, stops>>
  BY DEF TruncateTail, background
<1>7. TypeOK'
  BY <1>1, <1>4, <1>5, <1>6 DEF TypeOK
<1>8. QED
  BY <1>6, <1>7 DEF Storable, SnapshotLoads

LEMMA StorableStep ==
  ASSUME Storable, [Next]_vars PROVE Storable'
<1>1. CASE UNCHANGED vars
  <2>1. TypeOK'
    BY <1>1 DEF vars, Storable, TypeOK
  <2>2. QED
    BY <1>1, <2>1 DEF vars, Storable, SnapshotLoads
<1>2. CASE Kill
  BY <1>2, StopStorable DEF Kill, Storable, TypeOK
<1>3. CASE EndOfInput
  BY ZenonT(60), ZenonT(90), <1>3, StopStorable DEF EndOfInput, Storable, TypeOK
<1>4. CASE \E line \in Lines : Execute(Parse(line))
  BY <1>4, ExecuteStorable
<1>5. QED
  BY <1>1, <1>2, <1>3, <1>4, StartStorable, StartTruncatingStorable, CaptureStorable,
     SaveCapturedStorable, SaveSnapshotStorable, TruncateTailStorable DEF Next

(* Every variable keeps its type, whatever damage the first process found  *)
(* in the files and whichever calls fail.                                  *)
THEOREM SessionTypeCorrect == Spec => []TypeOK
<1>1. Storable => TypeOK
  BY DEF Storable
<1>2. QED
  BY <1>1, StorableInit, StorableStep, PTL DEF Spec

(* What the log accepts as a record, Load accepts as an entry: a running   *)
(* process never leaves a snapshot behind that cannot be loaded.           *)
THEOREM SnapshotsLoad == Spec => []SnapshotLoads
<1>1. Storable => SnapshotLoads
  BY DEF Storable
<1>2. QED
  BY <1>1, StorableInit, StorableStep, PTL DEF Spec

------------------------------------------------------------------------------
(* The log, the object that writes it, and the offsets recorded for it.    *)

Placed ==
  /\ up => LogOk(file, wal)
  /\ Boundary(file, Load(snap).wal_offset)
  /\ captured # NotCaptured => Boundary(file, captured.offset)
  /\ ~up => captured = NotCaptured /\ ~due
  /\ up /\ due => wal.format_valid_ /\ ~wal.needs_recovery_

LEMMA PlacedInit == Init => Placed
<1> SUFFICES ASSUME Init PROVE Placed
  OBVIOUS
<1>1. Boundary(file, Load(snap).wal_offset)
  BY SessionAssumption DEF Init
<1>2. QED
  BY ZenonT(60), ZenonT(90), <1>1 DEF Init, Placed

LEMMA StartPlaced ==
  ASSUME Storable, Placed, Start PROVE Placed'
<1>1. file \in Seq(Cells) /\ ~up
  BY DEF Storable, TypeOK, Start, CanStart
<1>2. wal' = Opened(file) /\ up' /\ UNCHANGED <<file, snap, due, captured>>
  BY DEF Start, background
<1>3. LogOk(file, Opened(file))
  BY <1>1, OpenedOk
<1>4. QED
  BY <1>1, <1>2, <1>3 DEF Placed

LEMMA StartTruncatingPlaced ==
  ASSUME Storable, Placed, StartTruncating PROVE Placed'
<1>1. file \in Seq(Cells) /\ CanOpen(file) /\ ~up
  BY DEF Storable, TypeOK, StartTruncating, CanStart
<1>2. PICK r \in ReplayFromAndTruncate(file, Opened(file), Load(snap).wal_offset) :
        /\ file' = r.file /\ up' = (r.how = "ok")
        /\ wal' = IF r.how = "ok" THEN r.wal ELSE NoWal
  BY DEF StartTruncating
<1>3. UNCHANGED <<snap, due, captured>>
  BY DEF StartTruncating, background
<1>4. Opened(file) \in Objects /\ LogOk(file, Opened(file))
  BY <1>1, OpenedType, OpenedOk
<1>5. Boundary(file, Load(snap).wal_offset)
  BY DEF Placed
<1>6. /\ LogOk(r.file, r.wal)
      /\ \A offset : Boundary(file, offset) => Boundary(r.file, offset)
  BY <1>1, <1>4, <1>5, ReplayAndTruncateOk
<1>7. up' => LogOk(file', wal')
  BY ZenonT(60), ZenonT(90), <1>2, <1>6
<1>8. captured' = NotCaptured /\ ~due'
  BY ZenonT(60), ZenonT(90), <1>1, <1>3 DEF Placed
<1>9. QED
  BY ZenonT(60), ZenonT(90), <1>2, <1>3, <1>5, <1>6, <1>7, <1>8 DEF Placed

LEMMA StopPlaced ==
  ASSUME Placed, Stop PROVE Placed'
  BY DEF Placed, Stop

LEMMA MutatePlaced ==
  ASSUME Storable, Placed, up, NEW k \in Keys, NEW v \in Values \cup {Absent},
         NEW answer, Mutate(k, v, answer)
  PROVE  Placed'
<1>1. file \in Seq(Cells) /\ wal \in Objects /\ LogOk(file, wal)
  BY DEF Storable, TypeOK, Placed
<1>2. UNCHANGED <<snap, up, captured>>
  BY DEF Mutate
<1>3. CASE checkpoint_error_
  <2>1. UNCHANGED <<file, wal, due>>
    BY <1>3 DEF Mutate
  <2>2. QED
    BY ZenonT(60), ZenonT(90), <1>2, <2>1 DEF Placed
<1>4. CASE ~checkpoint_error_
  <2>1. PICK r \in AppendRecord(file, wal, k, v) :
          file' = r.file /\ wal' = r.wal /\ due' = (due \/ r.how = "ok")
    BY <1>4 DEF Mutate
  <2>2. /\ LogOk(r.file, r.wal)
        /\ r.wal.format_valid_ = wal.format_valid_
        /\ r.wal.needs_recovery_ = wal.needs_recovery_
        /\ r.how = "ok" => wal.format_valid_ /\ ~wal.needs_recovery_
        /\ \A offset : Boundary(file, offset) => Boundary(r.file, offset)
    BY <1>1, AppendOk
  <2>3. due' => wal'.format_valid_ /\ ~wal'.needs_recovery_
    BY ZenonT(60), ZenonT(90), <2>1, <2>2 DEF Placed
  <2>4. QED
    BY ZenonT(60), ZenonT(90), <1>2, <2>1, <2>2, <2>3 DEF Placed
<1>5. QED
  BY <1>3, <1>4

LEMMA ClearPlaced ==
  ASSUME Storable, Placed, NEW c, ExecuteClearPersistence(c) PROVE Placed'
<1>1. up /\ captured = NotCaptured /\ UNCHANGED <<up, captured>>
  BY DEF ExecuteClearPersistence, Reads
<1>2. file \in Seq(Cells) /\ wal \in Objects /\ LogOk(file, wal)
  BY <1>1 DEF Storable, TypeOK, Placed
<1>3. PICK r \in Clear(file, wal) :
        /\ r.how = "ok" \/ r.file = file
        /\ file' = r.file /\ wal' = r.wal
        /\ snap' = IF r.how = "ok" THEN <<>> ELSE snap
        /\ due' = (due /\ r.how # "ok")
  BY DEF ExecuteClearPersistence
<1>4. /\ LogOk(r.file, r.wal)
      /\ wal.format_valid_ /\ ~wal.needs_recovery_
           => r.wal.format_valid_ /\ ~r.wal.needs_recovery_
  BY <1>2, ClearOk
<1>5. Boundary(file', Load(snap').wal_offset)
  <2>1. Load(<<>>).wal_offset = 0
    BY DEF Load, NotLoaded, LoadResult
  <2>2. CASE r.how = "ok"
    BY <1>3, <2>1, <2>2 DEF Boundary
  <2>3. CASE r.how # "ok"
    BY <1>3, <2>3 DEF Placed
  <2>4. QED
    BY <2>2, <2>3
<1>6. due' => wal'.format_valid_ /\ ~wal'.needs_recovery_
  BY ZenonT(60), ZenonT(90), <1>1, <1>3, <1>4 DEF Placed
<1>7. QED
  BY ZenonT(60), ZenonT(90), <1>1, <1>3, <1>4, <1>5, <1>6 DEF Placed

(* A save leaves the snapshot that was there, or one with the new offset.  *)
LEMMA SavedOffset ==
  ASSUME Storable, NEW store \in FittingMaps, NEW offset \in Nat,
         NEW s \in SaveVerified(snap, store, offset)
  PROVE  \/ s.snap = snap /\ s.how = "io"
         \/ Load(s.snap).wal_offset = offset
<1>1. Layout(snap)
  BY DEF Storable, TypeOK
<1>2. \/ s.snap = snap /\ s.how = "io"
      \/ Load(s.snap) = LoadResult("loaded", store, Len(Entries(store)), offset)
  BY <1>1, SaveOutcome
<1>3. LoadResult("loaded", store, Len(Entries(store)), offset).wal_offset = offset
  BY DEF LoadResult
<1>4. QED
  BY <1>2, <1>3

LEMMA CompactPlaced ==
  ASSUME Storable, Placed, NEW c, ExecuteCompact(c) PROVE Placed'
<1>1. up /\ captured = NotCaptured /\ UNCHANGED <<up, captured>>
  BY DEF ExecuteCompact, Reads
<1>2. file \in Seq(Cells) /\ wal \in Objects /\ LogOk(file, wal) /\ mem \in FittingMaps
  BY <1>1 DEF Storable, TypeOK, Placed
<1>3. PICK s \in SaveVerified(snap, mem, 0) :
        /\ snap' = s.snap
        /\ \E r \in IF s.how = "ok" THEN Clear(file, wal) ELSE {Outcome(file, wal, s.how)} :
             file' = r.file /\ wal' = r.wal /\ due' = (due /\ r.how # "ok")
  BY ZenonT(60), ZenonT(90) DEF ExecuteCompact
<1>4. PICK r \in IF s.how = "ok" THEN Clear(file, wal) ELSE {Outcome(file, wal, s.how)} :
        file' = r.file /\ wal' = r.wal /\ due' = (due /\ r.how # "ok")
  BY <1>3
<1>5. (s.snap = snap /\ s.how = "io") \/ Load(s.snap).wal_offset = 0
  BY <1>2, SavedOffset
<1>6. CASE s.how = "ok"
  <2>1. r \in Clear(file, wal)
    BY <1>6
  <2>2. /\ LogOk(r.file, r.wal)
        /\ wal.format_valid_ /\ ~wal.needs_recovery_
             => r.wal.format_valid_ /\ ~r.wal.needs_recovery_
    BY <1>2, <2>1, ClearOk
  <2>3. Boundary(file', Load(snap').wal_offset)
    BY <1>3, <1>5, <1>6 DEF Boundary
  <2>4. due' => wal'.format_valid_ /\ ~wal'.needs_recovery_
    BY ZenonT(60), ZenonT(90), <1>1, <1>4, <2>2 DEF Placed
  <2>5. QED
    BY ZenonT(60), ZenonT(90), <1>1, <1>4, <2>2, <2>3, <2>4 DEF Placed
<1>7. CASE s.how # "ok"
  <2>1. r = Outcome(file, wal, s.how)
    BY <1>7
  <2>2. r.file = file /\ r.wal = wal
    BY ONLY <2>1, OutcomeFields
  <2>3. Boundary(file, Load(snap').wal_offset)
    <3>1. CASE s.snap = snap
      BY ZenonT(60), ZenonT(90), <1>3, <3>1 DEF Placed
    <3>2. CASE Load(s.snap).wal_offset = 0
      BY <1>3, <3>2 DEF Boundary
    <3>3. QED
      BY <1>5, <3>1, <3>2
  <2>4. QED
    BY ZenonT(60), ZenonT(90), <1>1, <1>4, <2>2, <2>3 DEF Placed
<1>8. QED
  BY <1>6, <1>7

LEMMA ExecutePlaced ==
  ASSUME Storable, Placed, NEW line \in Lines, Execute(Parse(line)) PROVE Placed'
<1> DEFINE c == Parse(line)
<1>1. /\ c.type \in {"Set", "Del"} => c.key \in Keys
      /\ c.type = "Set" => c.value \in Values
  BY SessionAssumption
<1> HIDE DEF c
<1>2. CASE ExecuteSet(c)
  <2>1. up /\ c.type = "Set" /\ Mutate(c.key, c.value, "OK")
    BY <1>2 DEF ExecuteSet, Reads
  <2>2. c.key \in Keys /\ c.value \in Values \cup {Absent}
    BY <1>1, <2>1
  <2>3. QED
    BY <2>1, <2>2, MutatePlaced
<1>3. CASE ExecuteDel(c)
  <2>1. PICK answer : up /\ c.type = "Del" /\ Mutate(c.key, Absent, answer)
    BY <1>3 DEF ExecuteDel, Reads
  <2>2. c.key \in Keys
    BY <1>1, <2>1
  <2>3. QED
    BY <2>1, <2>2, MutatePlaced
<1>4. CASE ExecuteReadOnly(c)
  <2>1. UNCHANGED <<file, wal, snap, up, due, captured>>
    BY <1>4 DEF ExecuteReadOnly, files, background
  <2>2. QED
    BY <2>1 DEF Placed
<1>5. CASE ExecuteExit(c)
  BY <1>5, StopPlaced DEF ExecuteExit
<1>6. QED
  BY <1>2, <1>3, <1>4, <1>5, ClearPlaced, CompactPlaced DEF Execute, c

(* The end of a log that needs no recovery is an offset to record.         *)
LEMMA EndPlaced ==
  ASSUME Storable, Placed, up, wal.format_valid_, ~wal.needs_recovery_, CanTellOffset(wal)
  PROVE  Boundary(file, Len(file))
<1>1. file \in Seq(Cells) /\ ReplayFromDetailed(file, 0).status = "CleanEof"
  BY DEF Storable, TypeOK, Placed, LogOk, CanTellOffset
<1>2. QED
  BY <1>1, CleanIsWhole, EndIsBoundary

LEMMA CapturePlaced ==
  ASSUME Storable, Placed, Capture PROVE Placed'
<1>1. up /\ due /\ UNCHANGED <<file, wal, snap, up>>
  BY DEF Capture, files
<1>2. CASE CanTellOffset(wal)
  <2>1. captured' = [offset |-> Len(file), store |-> mem] /\ due' = FALSE
    BY ZenonT(60), ZenonT(90), <1>2 DEF Capture, CurrentOffset
  <2>2. captured'.offset = Len(file)
    BY <2>1
  <2>3. Boundary(file, Len(file))
    BY <1>1, <1>2, EndPlaced DEF Placed
  <2>4. QED
    BY <1>1, <2>1, <2>2, <2>3 DEF Placed
<1>3. CASE ~CanTellOffset(wal)
  <2>1. UNCHANGED <<captured, due>>
    BY <1>3 DEF Capture
  <2>2. QED
    BY <1>1, <2>1 DEF Placed
<1>4. QED
  BY <1>2, <1>3

LEMMA SaveCapturedPlaced ==
  ASSUME Storable, Placed, SaveCaptured PROVE Placed'
<1>1. /\ captured.store \in FittingMaps /\ captured.offset \in Nat
      /\ Boundary(file, captured.offset)
  BY DEF Storable, SaveCaptured, Captures, Placed
<1>2. PICK s \in SaveVerified(snap, captured.store, captured.offset) : snap' = s.snap
  BY DEF SaveCaptured
<1>3. captured' = NotCaptured /\ UNCHANGED <<file, wal, up, due>> /\ up
  BY DEF SaveCaptured
<1>4. s.snap = snap \/ Load(s.snap).wal_offset = captured.offset
  BY <1>1, SavedOffset
<1>5. Boundary(file, Load(snap').wal_offset)
  BY <1>1, <1>2, <1>4 DEF Placed
<1>6. QED
  BY <1>3, <1>5 DEF Placed

LEMMA SaveSnapshotPlaced ==
  ASSUME SavesBehindTail = FALSE, Storable, Placed, SaveSnapshot PROVE Placed'
<1>1. /\ up /\ wal.format_valid_ /\ ~wal.needs_recovery_ /\ CanTellOffset(wal)
      /\ UNCHANGED <<file, wal, up, captured>>
  BY DEF SaveSnapshot
<1>2. mem \in FittingMaps /\ Len(file) \in Nat
  BY DEF Storable, TypeOK
<1>3. PICK s \in SaveVerified(snap, mem, Len(file)) :
        snap' = s.snap /\ due' = (due /\ s.how # "ok")
  BY DEF SaveSnapshot, CurrentOffset
<1>4. Boundary(file, Len(file))
  BY <1>1, EndPlaced
<1>5. s.snap = snap \/ Load(s.snap).wal_offset = Len(file)
  BY <1>2, SavedOffset
<1>6. Boundary(file, Load(snap').wal_offset)
  BY <1>3, <1>4, <1>5 DEF Placed
<1>7. QED
  BY ZenonT(60), ZenonT(90), <1>1, <1>3, <1>6 DEF Placed

LEMMA TruncateTailPlaced ==
  ASSUME Storable, Placed, TruncateTail PROVE Placed'
<1>1. up /\ file \in Seq(Cells) /\ wal \in Objects /\ LogOk(file, wal)
  BY DEF Storable, TypeOK, TruncateTail, Placed
<1>2. PICK r \in TruncateTo(file, wal, ReplayFromDetailed(file, 0).last_good_offset) :
        file' = r.file /\ wal' = r.wal
  BY DEF TruncateTail
<1>3. UNCHANGED <<snap, up, due, captured>>
  BY DEF TruncateTail, background
<1>4. /\ LogOk(r.file, r.wal)
      /\ wal.format_valid_ /\ ~wal.needs_recovery_
           => r.wal.format_valid_ /\ ~r.wal.needs_recovery_
      /\ \A offset : Boundary(file, offset) => Boundary(r.file, offset)
  BY <1>1, <1>2, TruncateOk
<1>5. QED
  BY ZenonT(60), ZenonT(90), <1>1, <1>2, <1>3, <1>4 DEF Placed

LEMMA PlacedStep ==
  ASSUME SavesBehindTail = FALSE, Storable, Placed, [Next]_vars PROVE Placed'
<1>1. CASE UNCHANGED vars
  BY <1>1 DEF vars, Placed
<1>2. CASE Kill \/ EndOfInput
  BY <1>2, StopPlaced DEF Kill, EndOfInput
<1>3. CASE \E line \in Lines : Execute(Parse(line))
  BY <1>3, ExecutePlaced
<1>4. QED
  BY ZenonT(60), ZenonT(90), <1>1, <1>2, <1>3, StartPlaced, StartTruncatingPlaced, CapturePlaced,
     SaveCapturedPlaced, SaveSnapshotPlaced, TruncateTailPlaced DEF Next

LEMMA AlwaysPlaced ==
  SavesBehindTail = FALSE /\ Spec => [](Storable /\ Placed)
<1> SUFFICES ASSUME SavesBehindTail = FALSE PROVE Spec => [](Storable /\ Placed)
  BY ZenonT(60), ZenonT(90)
<1>1. Storable /\ Placed /\ [Next]_vars => (Storable /\ Placed)'
  BY ZenonT(60), ZenonT(90), StorableStep, PlacedStep
<1>2. QED
  BY <1>1, StorableInit, PlacedInit, PTL DEF Spec

(* No acknowledged record is written behind a tail that replay cannot      *)
(* pass: a log that takes appends is whole, and the next record continues  *)
(* its numbering, whatever the first process found in the files and        *)
(* whichever truncations, rotations and appends failed, as long as no      *)
(* snapshot is saved behind such a tail.                                   *)
THEOREM AppendsReach == SavesBehindTail = FALSE /\ Spec => []AppendsAreReachable
<1>1. Placed => AppendsAreReachable
  BY DEF Placed, LogOk, Tidy, MayAppend, AppendsAreReachable
<1>2. QED
  BY <1>1, AlwaysPlaced, PTL

(* The offset of the snapshot always lies between records: replay from it  *)
(* reads what a replay of the whole log reads behind it, though the log    *)
(* was appended to, torn, cut or rotated since the offset was taken.       *)
THEOREM OffsetsAgree == SavesBehindTail = FALSE /\ Spec => []OffsetAgrees
<1>1. ASSUME Storable, Placed PROVE OffsetAgrees
  <2>1. file \in Seq(Cells) /\ Boundary(file, Load(snap).wal_offset)
    BY <1>1 DEF Storable, TypeOK, Placed
  <2>2. QED
    BY <2>1, BoundaryAgrees DEF OffsetAgrees, kFrameLength
<1>2. QED
  BY <1>1, AlwaysPlaced, PTL
===============================================================================
