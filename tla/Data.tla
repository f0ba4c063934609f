--------------------------------- MODULE Data ---------------------------------
(***************************************************************************)
(* The keys and values that occur, as texts, and the limits on their       *)
(* length that the log (src/src/persistence/wal.cpp) and the snapshot      *)
(* (src/src/persistence/snapshot.cpp) know.                                *)
(***************************************************************************)
EXTENDS Integers, FiniteSets

CONSTANTS
  Keys,
  Values,
  Absent,                    \* the value of a key that is not there
  Bytes(_),                  \* the length of a key or value
  kMaxRecordLength,
  kMaxSnapshotFieldLength

ASSUME DataAssumption ==
  /\ IsFiniteSet(Keys) /\ Absent \notin Values
  /\ \A text \in Keys \cup Values : Bytes(text) \in Nat
  /\ kMaxRecordLength \in Nat /\ kMaxSnapshotFieldLength \in Nat
  /\ kMaxRecordLength <= kMaxSnapshotFieldLength
===============================================================================
