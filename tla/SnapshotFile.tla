----------------------------- MODULE SnapshotFile -----------------------------
(***************************************************************************)
(* The file of Snapshot (src/src/persistence/snapshot.cpp): how Save lays  *)
(* it out and what Load, and so Verify, accept.  The file is a sequence of *)
(* cells, one for each primitive of its head and one for each entry; a     *)
(* missing file is the empty sequence.  The steps of Save and their order  *)
(* on the disk are the subject of Recovery.                                *)
(***************************************************************************)
EXTENDS Data, Sequences, FiniteSetsExt

Number(n) == [is |-> "number", n |-> n]
kSnapshotMagic == [is |-> "magic"]
kSnapshotVersion == Number(1)
Entry(k, v) == [is |-> "entry", key |-> k, val |-> v]

(* What a cell can be, and where: one that is there has been written as a  *)
(* whole, but the file may end anywhere.                                   *)
SnapshotCells ==
  {kSnapshotMagic} \cup [is : {"number"}, n : Nat]
    \cup [is : {"entry"}, key : Keys, val : Values]
HeadLength(f) == IF f[1] = kSnapshotMagic THEN 4 ELSE 1
Layout(f) ==
  /\ f \in Seq(SnapshotCells)
  /\ \A i \in 2..Len(f) : f[i].is = IF i > HeadLength(f) THEN "entry" ELSE "number"
  /\ f # <<>> => f[1].is \in {"magic", "number"}

(* The entries of the map in some order.                                   *)
Entries(store) ==
  LET present == {Entry(k, store[k]) : k \in {j \in Keys : store[j] # Absent}} IN
  CHOOSE e \in Bijection(1..Cardinality(present), present) : TRUE

(* The layout before offsets were recorded.                                *)
LegacyEncoding(store) == <<Number(Len(Entries(store)))>> \o Entries(store)

Encoding(store, wal_offset) ==
  <<kSnapshotMagic, kSnapshotVersion, Number(wal_offset)>> \o LegacyEncoding(store)

Empty == [k \in Keys |-> Absent]

LoadResult(status, store, count, offset) ==
  [status |-> status, store |-> store, entry_count |-> count, wal_offset |-> offset]
NotLoaded == LoadResult("none", Empty, 0, 0)
LoadThrows == LoadResult("thrown", Empty, 0, 0)

(* read_entry refuses a field longer than the limit, which write_entry     *)
(* does not know.                                                          *)
EntryReadable(e) ==
  Bytes(e.key) <= kMaxSnapshotFieldLength /\ Bytes(e.val) <= kMaxSnapshotFieldLength

(* The target is replaced only when the whole file has been read.          *)
Load(f) ==
  LET head == HeadLength(f)
      n == f[head].n
      about(k) == {i \in 1..n : f[head + i].key = k}
  IN
  IF f = <<>> THEN NotLoaded
  ELSE IF Len(f) < head \/ (head = 4 /\ f[2] # kSnapshotVersion) THEN LoadThrows
  ELSE IF Len(f) < head + n \/ \E i \in 1..n : ~EntryReadable(f[head + i]) THEN LoadThrows
  ELSE LoadResult("loaded",
                  [k \in Keys |-> IF about(k) = {} THEN Absent ELSE f[head + Max(about(k))].val],
                  n, IF head = 4 THEN f[3].n ELSE 0)

Verify(f, store, wal_offset) ==
  Load(f) = LoadResult("loaded", store, Len(Entries(store)), wal_offset)

(* SaveVerified: an error before the rename leaves the old file, one after *)
(* it the new; the new file is in place before it is verified.             *)
SaveVerified(f, store, wal_offset) ==
  LET new == Encoding(store, wal_offset) IN
  {[snap |-> new, how |-> IF Verify(new, store, wal_offset) THEN "ok" ELSE "refused"],
   [snap |-> f, how |-> "io"], [snap |-> new, how |-> "io"]}
==============================================================================
