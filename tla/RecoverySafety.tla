---------------------------- MODULE RecoverySafety ----------------------------
(***************************************************************************)
(* What crashes and power losses leave: the inductive invariant behind     *)
(* ProcessCrashSafe, PowerLossSafe and OffsetWithinWal, for every set of   *)
(* keys and values and every number of writes and crashes.                 *)
(***************************************************************************)
EXTENDS RecoveryProofs

(* Every leaf is tried with Z3, with Zenon, and again with Z3, unless it   *)
(* names its prover: the time to translate a leaf varies, and has a limit. *)
USE SMTT(20), ZenonT(20), SMTT(40), SMTT(60), SMTT(90)

------------------------------------------------------------------------------
(* When recovery stays harmless.                                           *)

(* Fewer possible logs, more allowed contents, the same write in progress, *)
(* or none any more.                                                       *)
LEMMA GoodWeaken ==
  ASSUME NEW P, NEW Q, NEW w, NEW a, NEW b, NEW p, NEW q, NEW k, NEW x, NEW o,
         Good(P, w, a, p, k, x, o), Q \subseteq P, a \subseteq b,
         q = p \/ q = NoWrite
  PROVE  Good(Q, w, b, q, k, x, o)
BY DEF Good, NoWrite

(* Without a write in progress, only the possible logs count.              *)
LEMMA GoodIdle ==
  ASSUME NEW P, NEW Q, NEW w, NEW n, NEW a, NEW p, NEW k, NEW x, NEW o,
         Good(P, w, a, p, k, x, o), Q \subseteq P
  PROVE  Good(Q, n, a, NoWrite, k, x, o)
BY DEF Good, NoWrite

(* A record is appended to a log that is whole.                            *)
LEMMA GoodAppend ==
  ASSUME NEW w \in Seq(WalFrames), NEW P, NEW Q, NEW a, NEW b, NEW p, NEW q,
         NEW k, NEW x, NEW o \in Nat, NEW j \in Keys, NEW v \in Contents,
         Good(P, w, a, p, k, x, o), w \in P, Within(P, o), Clean(w),
         \A u \in Q : u \in P \/ u = Append(w, Record(j, v)) \/ u = Append(w, Torn),
         IF j = k THEN b = a \cup {v} /\ q = [val |-> v, stage |-> "written"]
                  ELSE b = a /\ q = p
  PROVE  Good(Q, Append(w, Record(j, v)), b, q, k, x, o)
<1> DEFINE n == Append(w, Record(j, v))
           t == Append(w, Torn)
<1>1. o <= Len(w)
  BY DEF Within
<1>2. Value(t, o, x, k) = Value(w, o, x, k)
  BY ValueTorn
<1>3. Value(n, o, x, k) = Value(w, o, x, k) \/ (j = k /\ Value(n, o, x, k) = v)
  BY ValueAppend
<1>4. ASSUME j = k PROVE Value(n, o, x, k) = v
  BY <1>1, <1>4, ValueOwnAppend
<1> HIDE DEF n, t
<1>5. \A u \in Q : u \in P \/ u = n \/ u = t
  BY DEF n, t
<1>6. CASE j = k
  <2>1. b = a \cup {v} /\ q = [val |-> v, stage |-> "written"]
    BY <1>6
  <2>2. \A u \in Q : Value(u, o, x, k) \in b
    BY <1>2, <1>4, <1>5, <1>6, <2>1 DEF Good
  <2>3. q.stage = "written" /\ q.val = v
    BY <2>1
  <2>4. QED
    BY <1>4, <1>6, <2>2, <2>3 DEF Good, n
<1>7. CASE j # k
  BY ZenonT(60), ZenonT(90), <1>2, <1>3, <1>5, <1>7 DEF Good, n
<1>8. QED
  BY <1>6, <1>7

(* Part of a frame is appended.                                            *)
LEMMA GoodTorn ==
  ASSUME NEW w \in Seq(WalFrames), NEW P, NEW Q, NEW a, NEW p, NEW q,
         NEW k, NEW x, NEW o \in Nat, NEW n,
         Good(P, w, a, p, k, x, o), w \in P,
         n = w \/ n = Append(w, Torn),
         \A u \in Q : u \in P \/ u = Append(w, Torn),
         q = p \/ q = NoWrite
  PROVE  Good(Q, n, a, q, k, x, o)
<1> DEFINE t == Append(w, Torn)
<1>1. Value(t, o, x, k) = Value(w, o, x, k)
  BY ValueTorn
<1> HIDE DEF t
<1>2. (n = w \/ n = t) /\ \A u \in Q : u \in P \/ u = t
  BY DEF t
<1>3. QED
  BY <1>1, <1>2 DEF Good, NoWrite

(* A value that comes to be allowed may take the place of one that was,    *)
(* when the log is replayed from its start.                                *)
LEMMA GoodNewValue ==
  ASSUME NEW P, NEW w, NEW a, NEW k, NEW x \in a, NEW y,
         Good(P, w, a, NoWrite, k, y, 0)
  PROVE  Good(P, w, a, NoWrite, k, x, 0)
BY ValueOrRecord DEF Good, NoWrite

(* The write in progress is acknowledged.                                  *)
LEMMA GoodAcknowledge ==
  ASSUME NEW P, NEW w, NEW a, NEW p, NEW k, NEW x, NEW o,
         Good(P, w, a, p, k, x, o), p.stage = "synced" \/ (p.stage = "written" /\ P = {w})
  PROVE  Good(P, w, {p.val}, NoWrite, k, x, o)
BY DEF Good, NoWrite

(* The write in progress is synced.                                        *)
LEMMA GoodSync ==
  ASSUME NEW P, NEW w, NEW a, NEW p, NEW q, NEW k, NEW x, NEW o,
         Good(P, w, a, p, k, x, o), w \in P, p.stage # "none", q.val = p.val
  PROVE  Good({w}, w, a, q, k, x, o)
BY DEF Good

------------------------------------------------------------------------------
(* The sources of a recovery through the steps.                            *)

LEMMA OffsetZero ==
  ASSUME TypeOK
  PROVE  OffsetOk(0)
<1>1. \A u \in PossibleWals : Len(u) \in Nat
  BY PossibleFacts
<1>2. QED
  BY <1>1 DEF OffsetOk, Within

LEMMA AllowedNonempty ==
  ASSUME TypeOK, SourcesOk, NEW k \in Keys
  PROVE  \E y \in allowed[k] : KeyOk(k, y, 0)
BY PossibleFacts DEF SourcesOk, KeyOk, Good

LEMMA SourceTypes ==
  ASSUME TypeOK
  PROVE  /\ snap.off \in Nat /\ snapDurable.off \in Nat /\ job.off \in Nat /\ off \in Nat
         /\ \A k \in Keys : /\ snap.data[k] \in Contents /\ snapDurable.data[k] \in Contents
                            /\ job.data[k] \in Contents /\ mem[k] \in Contents
                            /\ allowed[k] \subseteq Contents
BY DEF TypeOK, SnapshotFiles

(* A step carries the recovery of every key over, and no offset out of a   *)
(* possible log.                                                           *)
KeysCarried ==
  \A k \in Keys, x \in Contents, o \in Nat :
    KeyOk(k, x, o) /\ OffsetOk(o) =>
      Good(PossibleWals', wal', allowed'[k], pend'[k], k, x, o)
OffsetsCarried == \A o \in Nat : OffsetOk(o) => Within(PossibleWals', o)
NewValuesOk ==
  \A k \in Keys : \A x \in allowed'[k] :
    Good(PossibleWals', wal', allowed'[k], pend'[k], k, x, 0)

LEMMA OldValuesOk ==
  ASSUME TypeOK, SourcesOk, KeysCarried, \A k \in Keys : allowed'[k] \subseteq allowed[k]
  PROVE  NewValuesOk
<1> SUFFICES ASSUME NEW k \in Keys, NEW x \in allowed'[k]
             PROVE  Good(PossibleWals', wal', allowed'[k], pend'[k], k, x, 0)
  BY DEF NewValuesOk
<1>1. x \in allowed[k]
  OBVIOUS
<1>2. x \in Contents /\ KeyOk(k, x, 0) /\ OffsetOk(0) /\ 0 \in Nat
  BY <1>1, SourceTypes, OffsetZero DEF SourcesOk
<1>3. QED
  BY <1>2 DEF KeysCarried

(* The files of a job that goes on, or ends, are as good as before.        *)
LEMMA Carry ==
  ASSUME TypeOK, SourcesOk, OffsetsOk, ~Wiping, UNCHANGED <<scenario, snap, snapDurable>>,
         Saving' => Saving /\ job'.data = job.data /\ job'.off = job.off,
         KeysCarried, OffsetsCarried, NewValuesOk
  PROVE  SourcesOk' /\ OffsetsOk'
<1>1. Power' = Power
  BY DEF Power, Faults
<1>2. /\ OffsetOk(snap.off) /\ (Power => OffsetOk(snapDurable.off))
      /\ Saving => OffsetOk(job.off)
  BY DEF OffsetsOk
<1>3. ASSUME NEW k \in Keys PROVE KeyOk(k, snap.data[k], snap.off)'
  <2>1. KeyOk(k, snap.data[k], snap.off)
    BY DEF SourcesOk
  <2>2. Good(PossibleWals', wal', allowed'[k], pend'[k], k, snap.data[k], snap.off)
    BY <1>2, <2>1, SourceTypes DEF KeysCarried
  <2>3. QED
    BY <2>2 DEF KeyOk
<1>4. ASSUME Power, NEW k \in Keys PROVE KeyOk(k, snapDurable.data[k], snapDurable.off)'
  <2>1. KeyOk(k, snapDurable.data[k], snapDurable.off)
    BY <1>4 DEF SourcesOk
  <2>2. Good(PossibleWals', wal', allowed'[k], pend'[k], k, snapDurable.data[k], snapDurable.off)
    BY <1>2, <1>4, <2>1, SourceTypes DEF KeysCarried
  <2>3. QED
    BY <2>2 DEF KeyOk
<1>5. ASSUME Saving', NEW k \in Keys PROVE KeyOk(k, job.data[k], job.off)'
  <2>1. KeyOk(k, job.data[k], job.off) /\ OffsetOk(job.off)
    BY <1>2, <1>5 DEF SourcesOk
  <2>2. Good(PossibleWals', wal', allowed'[k], pend'[k], k, job.data[k], job.off)
    BY <2>1, SourceTypes DEF KeysCarried
  <2>3. QED
    BY <1>5, <2>2 DEF KeyOk
<1>6. \A k \in Keys : \A x \in allowed'[k] : KeyOk(k, x, 0)'
  BY DEF NewValuesOk, KeyOk
<1>7. SourcesOk'
  BY <1>1, <1>3, <1>4, <1>5, <1>6 DEF SourcesOk
<1>8. OffsetsOk'
  BY <1>1, <1>2, SourceTypes DEF OffsetsCarried, OffsetsOk, OffsetOk
<1>9. QED
  BY <1>7, <1>8

LEMMA AppendSources ==
  ASSUME IInv, UNCHANGED scenario, NEW j \in Keys, NEW v \in Contents, AppendToWal(j, v)
  PROVE  SourcesOk' /\ OffsetsOk'
<1> USE DEF IInv
<1>1. /\ wal \in Seq(WalFrames) /\ wal' = Append(wal, Record(j, v))
      /\ UNCHANGED <<scenario, walDurable, snap, snapDurable, job>>
      /\ ~Wiping /\ Clean(wal) /\ pend[j] = NoWrite
  BY DEF AppendToWal, ShardFree, AppendAllowed, TypeOK, TornOk, Wiping,
         WholeStoreLocked, JobNames
<1>2. \A u \in PossibleWals' : u \in PossibleWals \/ u = Append(wal, Record(j, v)) \/ u = Append(wal, Torn)
  BY <1>1, ConstantTypes, PossibleAppend
<1>3. \A k \in Keys : IF j = k THEN /\ allowed'[k] = allowed[k] \cup {v}
                                    /\ pend'[k] = [val |-> v, stage |-> "written"]
                               ELSE allowed'[k] = allowed[k] /\ pend'[k] = pend[k]
  BY DEF AppendToWal, TypeOK
<1>4. KeysCarried
  <2> SUFFICES ASSUME NEW k \in Keys, NEW x \in Contents, NEW o \in Nat,
                      KeyOk(k, x, o), OffsetOk(o)
               PROVE  Good(PossibleWals', wal', allowed'[k], pend'[k], k, x, o)
    BY DEF KeysCarried
  <2>1. Good(PossibleWals, wal, allowed[k], pend[k], k, x, o) /\ Within(PossibleWals, o) /\ wal \in PossibleWals
    BY PossibleFacts DEF KeyOk, OffsetOk
  <2>2. Good(PossibleWals', Append(wal, Record(j, v)), allowed'[k], pend'[k], k, x, o)
    BY ZenonT(60), ZenonT(90), <1>1, <1>2, <1>3, <2>1, GoodAppend
  <2>3. QED
    BY <1>1, <2>2
<1>5. OffsetsCarried
  <2> SUFFICES ASSUME NEW o \in Nat, OffsetOk(o), NEW u \in PossibleWals' PROVE o <= Len(u)
    BY DEF OffsetsCarried, Within
  <2>1. o <= Len(wal) /\ (u \in PossibleWals => o <= Len(u))
    BY PossibleFacts DEF OffsetOk, Within
  <2>2. Len(Append(wal, Record(j, v))) = Len(wal) + 1 /\ Len(Append(wal, Torn)) = Len(wal) + 1 /\ Len(wal) \in Nat
    BY <1>1
  <2>3. QED
    BY <1>2, <2>1, <2>2
<1>6. NewValuesOk
  <2> SUFFICES ASSUME NEW k \in Keys, NEW x \in allowed'[k]
               PROVE  Good(PossibleWals', wal', allowed'[k], pend'[k], k, x, 0)
    BY DEF NewValuesOk
  <2>1. PICK y \in allowed[k] : KeyOk(k, y, 0)
    BY AllowedNonempty
  <2>2. \A z \in allowed[k] : Good(PossibleWals', wal', allowed'[k], pend'[k], k, z, 0)
    BY <1>4, SourceTypes, OffsetZero DEF KeysCarried, SourcesOk
  <2>3. CASE x \in allowed[k]
    BY <2>2, <2>3
  <2>4. CASE x \notin allowed[k]
    <3>1. k = j /\ x = v
      BY <1>3, <2>4
    <3>2. \A u \in PossibleWals' : Value(u, 0, x, k) \in allowed'[k]
      <4>1. Good(PossibleWals', wal', allowed'[k], pend'[k], k, y, 0)
        BY <2>1, <2>2
      <4>2. QED
        BY <4>1, ValueOrRecord DEF Good
    <3>3. Value(wal', 0, x, k) = v
      <4>1. 0 <= Len(wal) /\ 0 \in Nat
        BY <1>1
      <4>2. QED
        BY <1>1, <3>1, <4>1, ValueOwnAppend
    <3>4. pend'[k].stage = "written" /\ pend'[k].val = v
      BY <1>3, <3>1
    <3>5. QED
      BY <3>2, <3>3, <3>4 DEF Good
  <2>5. QED
    BY <2>3, <2>4
<1>7. QED
  BY <1>1, <1>4, <1>5, <1>6, Carry DEF Saving

LEMMA AppendThrowsSources ==
  ASSUME IInv, UNCHANGED scenario, NEW j \in Keys, NEW v \in Contents, AppendThrows(j, v)
  PROVE  SourcesOk' /\ OffsetsOk'
<1> USE DEF IInv
<1>1. /\ wal \in Seq(WalFrames) /\ (wal' = wal \/ wal' = Append(wal, Torn))
      /\ UNCHANGED <<scenario, walDurable, snap, snapDurable, job, allowed>> /\ ~Wiping
  BY DEF AppendThrows, ShardFree, TypeOK, Wiping, WholeStoreLocked, JobNames
<1>2. \A u \in PossibleWals' : u \in PossibleWals \/ u = Append(wal, Torn)
  <2>1. CASE wal' = wal
    BY <1>1, <2>1, PossibleSame
  <2>2. CASE wal' = Append(wal, Torn)
    BY <1>1, <2>2, ConstantTypes, PossibleAppend
  <2>3. QED
    BY <1>1, <2>1, <2>2
<1>3. \A k \in Keys : pend'[k] = pend[k] \/ pend'[k] = NoWrite
  BY DEF AppendThrows, FailUnsynced
<1>4. KeysCarried
  <2> SUFFICES ASSUME NEW k \in Keys, NEW x \in Contents, NEW o \in Nat,
                      KeyOk(k, x, o), OffsetOk(o)
               PROVE  Good(PossibleWals', wal', allowed'[k], pend'[k], k, x, o)
    BY DEF KeysCarried
  <2>1. Good(PossibleWals, wal, allowed[k], pend[k], k, x, o) /\ wal \in PossibleWals
    BY PossibleFacts DEF KeyOk
  <2>2. Good(PossibleWals', wal', allowed[k], pend'[k], k, x, o)
    BY <1>1, <1>2, <1>3, <2>1, GoodTorn
  <2>3. QED
    BY <1>1, <2>2
<1>5. OffsetsCarried
  <2> SUFFICES ASSUME NEW o \in Nat, OffsetOk(o), NEW u \in PossibleWals' PROVE o <= Len(u)
    BY DEF OffsetsCarried, Within
  <2>1. o <= Len(wal) /\ (u \in PossibleWals => o <= Len(u))
    BY PossibleFacts DEF OffsetOk, Within
  <2>2. Len(Append(wal, Torn)) = Len(wal) + 1 /\ Len(wal) \in Nat
    BY <1>1
  <2>3. QED
    BY <1>2, <2>1, <2>2
<1>6. QED
  BY <1>1, <1>4, <1>5, OldValuesOk, Carry DEF Saving

LEMMA SyncSources ==
  ASSUME IInv, UNCHANGED scenario, SyncWal
  PROVE  SourcesOk' /\ OffsetsOk'
<1> USE DEF IInv
<1>1. /\ UNCHANGED <<scenario, wal, snap, snapDurable, job, allowed>> /\ walDurable' = wal'
      /\ wal \in Seq(WalFrames)
  BY DEF SyncWal, TypeOK
<1>2. PossibleWals' = {wal} /\ wal \in PossibleWals
  BY <1>1, PossibleFacts, LossSynced DEF PossibleWals
<1>3. \A k \in Keys : \/ pend'[k] = pend[k]
                      \/ /\ pend[k].stage # "none"
                         /\ pend'[k].val = pend[k].val
  BY DEF SyncWal, Unsynced, TypeOK
<1>4. ~Wiping
  <2>1. PICK k \in Keys : pend[k].stage = "written"
    BY DEF SyncWal, Unsynced
  <2>2. QED
    BY <2>1 DEF JobOk, Wiping, WholeStoreLocked, JobNames, NoWrite
<1>5. KeysCarried
  <2> SUFFICES ASSUME NEW k \in Keys, NEW x \in Contents, NEW o \in Nat,
                      KeyOk(k, x, o), OffsetOk(o)
               PROVE  Good(PossibleWals', wal', allowed'[k], pend'[k], k, x, o)
    BY DEF KeysCarried
  <2>1. Good(PossibleWals, wal, allowed[k], pend[k], k, x, o)
    BY DEF KeyOk
  <2>2. CASE pend'[k] = pend[k]
    <3>1. Good({wal}, wal, allowed[k], pend'[k], k, x, o)
      BY <1>2, <2>1, <2>2, GoodWeaken
    <3>2. QED
      BY <1>1, <1>2, <3>1
  <2>3. CASE pend[k].stage # "none" /\ pend'[k].val = pend[k].val
    <3>1. Good({wal}, wal, allowed[k], pend'[k], k, x, o)
      BY <1>2, <2>1, <2>3, GoodSync
    <3>2. QED
      BY <1>1, <1>2, <3>1
  <2>4. QED
    BY <1>3, <2>2, <2>3
<1>6. OffsetsCarried
  BY <1>2 DEF OffsetsCarried, OffsetOk, Within
<1>7. QED
  BY <1>1, <1>4, <1>5, <1>6, OldValuesOk, Carry DEF Saving

(* The calls in progress end without an acknowledgement.                   *)
LEMMA EndedCarried ==
  ASSUME TypeOK, SourcesOk, UNCHANGED <<scenario, wal, walDurable, allowed>>,
         \A k \in Keys : pend'[k] = pend[k] \/ pend'[k] = NoWrite
  PROVE  KeysCarried /\ OffsetsCarried /\ NewValuesOk
<1>1. PossibleWals' = PossibleWals
  BY PossibleSame
<1>2. KeysCarried
  <2> SUFFICES ASSUME NEW k \in Keys, NEW x \in Contents, NEW o \in Nat, KeyOk(k, x, o)
               PROVE  Good(PossibleWals', wal', allowed'[k], pend'[k], k, x, o)
    BY DEF KeysCarried
  <2>1. Good(PossibleWals, wal, allowed[k], pend'[k], k, x, o)
    BY GoodWeaken DEF KeyOk
  <2>2. QED
    BY <1>1, <2>1
<1>3. OffsetsCarried
  BY <1>1 DEF OffsetsCarried, OffsetOk
<1>4. QED
  BY <1>2, <1>3, OldValuesOk

LEMMA AcknowledgeSources ==
  ASSUME IInv, UNCHANGED scenario, NEW j \in Keys, Acknowledge(j)
  PROVE  SourcesOk' /\ OffsetsOk'
<1> USE DEF IInv
<1>1. UNCHANGED <<scenario, wal, walDurable, snap, snapDurable, job>>
  BY DEF Acknowledge, files
<1>2. PossibleWals' = PossibleWals
  BY <1>1, PossibleSame
<1>3. \A k \in Keys : IF j = k THEN allowed'[k] = {pend[k].val} /\ pend'[k] = NoWrite
                               ELSE allowed'[k] = allowed[k] /\ pend'[k] = pend[k]
  BY DEF Acknowledge, TypeOK
<1>4. pend[j].stage = "synced" \/ (pend[j].stage = "written" /\ PossibleWals = {wal})
  BY DEF Acknowledge, Promised, PossibleWals, Power, Faults, policy_
<1>5. ~Wiping
  BY <1>4 DEF JobOk, Wiping, WholeStoreLocked, JobNames, NoWrite
<1>6. KeysCarried
  <2> SUFFICES ASSUME NEW k \in Keys, NEW x \in Contents, NEW o \in Nat, KeyOk(k, x, o)
               PROVE  Good(PossibleWals', wal', allowed'[k], pend'[k], k, x, o)
    BY ZenonT(60), ZenonT(90) DEF KeysCarried
  <2>1. Good(PossibleWals, wal, allowed[k], pend[k], k, x, o)
    BY DEF KeyOk
  <2>2. CASE j = k
    <3>1. Good(PossibleWals, wal, {pend[k].val}, NoWrite, k, x, o)
      BY <1>4, <2>1, <2>2, GoodAcknowledge
    <3>2. QED
      BY <1>1, <1>2, <1>3, <2>2, <3>1
  <2>3. CASE j # k
    BY <1>1, <1>2, <1>3, <2>1, <2>3
  <2>4. QED
    BY ZenonT(60), ZenonT(90), <2>2, <2>3
<1>7. OffsetsCarried
  BY <1>2 DEF OffsetsCarried, OffsetOk
<1>8. NewValuesOk
  <2> SUFFICES ASSUME NEW k \in Keys, NEW x \in allowed'[k]
               PROVE  Good(PossibleWals', wal', allowed'[k], pend'[k], k, x, 0)
    BY DEF NewValuesOk
  <2>1. PICK y \in allowed[k] : KeyOk(k, y, 0)
    BY AllowedNonempty
  <2>2. \A z \in allowed[k] : Good(PossibleWals', wal', allowed'[k], pend'[k], k, z, 0)
    BY <1>6, SourceTypes, OffsetZero DEF KeysCarried, SourcesOk
  <2>3. CASE j = k
    <3>1. Good(PossibleWals', wal', allowed'[k], NoWrite, k, y, 0)
      BY <1>3, <2>1, <2>2, <2>3
    <3>2. QED
      BY <1>3, <2>3, <3>1, GoodNewValue
  <2>4. CASE j # k
    BY <1>3, <2>2, <2>4
  <2>5. QED
    BY <2>3, <2>4
<1>9. QED
  BY <1>1, <1>5, <1>6, <1>7, <1>8, Carry DEF Saving

(* More is allowed while no write is in progress.                          *)
LEMMA AllowedGrows ==
  ASSUME TypeOK, SourcesOk, NEW k \in Keys, NEW a, allowed[k] \subseteq a,
         pend[k] = NoWrite, NEW P, P \subseteq PossibleWals, NEW x \in a, NEW w
  PROVE  Good(P, w, a, NoWrite, k, x, 0)
<1>1. PICK y \in allowed[k] : KeyOk(k, y, 0)
  BY AllowedNonempty
<1>2. Good(P, w, a, NoWrite, k, y, 0)
  BY <1>1 DEF KeyOk, Good, NoWrite
<1>3. QED
  BY <1>2, GoodNewValue

LEMMA ClearMemorySources ==
  ASSUME IInv, UNCHANGED scenario, ClearMemory
  PROVE  SourcesOk' /\ OffsetsOk'
<1> USE DEF IInv
<1>1. UNCHANGED <<scenario, wal, walDurable, snap, snapDurable, job, pend>> /\ ~Wiping
  BY DEF ClearMemory, files, Wiping, WholeStoreLocked, JobNames
<1>2. PossibleWals' = PossibleWals
  BY <1>1, PossibleSame
<1>3. \A k \in Keys : allowed'[k] = allowed[k] \cup {Absent} /\ pend'[k] = NoWrite /\ pend[k] = NoWrite
  BY DEF ClearMemory
<1>4. KeysCarried
  <2> SUFFICES ASSUME NEW k \in Keys, NEW x \in Contents, NEW o \in Nat, KeyOk(k, x, o)
               PROVE  Good(PossibleWals', wal', allowed'[k], pend'[k], k, x, o)
    BY DEF KeysCarried
  <2>1. allowed[k] \subseteq allowed'[k]
    BY <1>3
  <2>2. Good(PossibleWals, wal, allowed'[k], pend[k], k, x, o)
    BY <2>1, GoodWeaken DEF KeyOk
  <2>3. QED
    BY <1>1, <1>2, <2>2
<1>5. OffsetsCarried
  BY <1>2 DEF OffsetsCarried, OffsetOk
<1>6. NewValuesOk
  BY <1>2, <1>3, AllowedGrows DEF NewValuesOk
<1>7. QED
  BY <1>1, <1>4, <1>5, <1>6, Carry DEF Saving

(* The operations on the whole store: the sources they pass from the       *)
(* captured state to the temporary file, to the snapshot, to its durable   *)
(* name.                                                                   *)

LEMMA QuietKeyOk ==
  ASSUME UNCHANGED <<scenario, wal, walDurable, allowed, pend>>
  PROVE  /\ \A k \in Keys : \A x, o : KeyOk(k, x, o) =>
              Good(PossibleWals', wal', allowed'[k], pend'[k], k, x, o)
         /\ \A o : OffsetOk(o) => Within(PossibleWals', o)
BY PossibleSame DEF KeyOk, OffsetOk

(* What a checkpoint or save captures, it captures with an offset that no  *)
(* crash takes away.                                                       *)
LEMMA CaptureSources ==
  ASSUME IInv, UNCHANGED scenario, NEW c \in Jobs, Capture(c)
  PROVE  SourcesOk' /\ OffsetsOk'
<1> USE DEF IInv
<1>1. /\ UNCHANGED <<scenario, wal, walDurable, snap, snapDurable, allowed, pend>>
      /\ job = Idle /\ c \in SaveJobs /\ up = "running"
      /\ \A k \in Keys : pend[k] = NoWrite
      /\ job'.data = mem /\ job'.off = CaptureOffset(c)
  BY DEF Capture, Begin, AllShardsFree, files
<1>2. ~Wiping /\ ~Wiping'
  BY <1>1 DEF Wiping, Idle, Capture, SaveJobs
<1>3. \A k \in Keys : mem[k] \in allowed[k] /\ KeyOk(k, mem[k], 0)
  BY <1>1 DEF MemOk, SourcesOk
<1>4. (\A k \in Keys : KeyOk(k, mem[k], CaptureOffset(c))) /\ OffsetOk(CaptureOffset(c))
  <2>1. CASE CaptureOffset(c) = 0
    BY <1>3, <2>1, OffsetZero
  <2>2. CASE CaptureOffset(c) # 0
    <3>1. CaptureOffset(c) = Len(wal) /\ failure_ # "stream"
      BY <1>1, <2>2 DEF CaptureOffset, CurrentOffset, Capture, SaveJobs
    <3>2. wal # <<>>
      BY <2>2, <3>1
    <3>3. PossibleWals = {wal}
      <4>1. CASE Power
        BY <1>1, <3>1, <3>2, <4>1, PossibleFacts DEF SyncedUp, NoWrite
      <4>2. CASE ~Power
        BY <4>2 DEF PossibleWals
      <4>3. QED
        BY <4>1, <4>2
    <3>4. wal \in Seq(WalFrames) /\ Len(wal) \in Nat
      BY DEF TypeOK
    <3>5. \A k \in Keys : Value(wal, Len(wal), mem[k], k) = mem[k]
      BY <3>4, ValueAtEnd
    <3>6. \A k \in Keys : KeyOk(k, mem[k], Len(wal))
      BY <1>1, <1>3, <3>3, <3>5 DEF KeyOk, Good, NoWrite
    <3>7. OffsetOk(Len(wal))
      BY <3>3, <3>4 DEF OffsetOk, Within
    <3>8. QED
      BY <3>1, <3>6, <3>7
  <2>3. QED
    BY <2>1, <2>2
<1>5. Power' = Power
  BY <1>1 DEF Power, Faults
<1>6. SourcesOk'
  BY ZenonT(60), ZenonT(90), <1>1, <1>4, <1>5, QuietKeyOk DEF SourcesOk, KeyOk
<1>7. OffsetsOk'
  BY ZenonT(60), ZenonT(90), <1>1, <1>2, <1>4, <1>5, QuietKeyOk DEF OffsetsOk, OffsetOk
<1>8. QED
  BY <1>6, <1>7

LEMMA RenameSources ==
  ASSUME IInv, UNCHANGED scenario, Rename
  PROVE  SourcesOk' /\ OffsetsOk'
<1> USE DEF IInv
<1>1. /\ UNCHANGED <<scenario, wal, walDurable, snapDurable, allowed, pend>>
      /\ Saving /\ ~Saving' /\ snap'.data = job.data /\ snap'.off = job.off
  BY DEF Rename, At, Saving
<1>2. ~Wiping
  BY DEF Rename, At, JobOk, Wiping, Saving, SaveJobs
<1>3. Power' = Power
  BY DEF Power, Faults
<1>4. SourcesOk'
  BY ZenonT(60), ZenonT(90), <1>1, <1>3, QuietKeyOk DEF SourcesOk, KeyOk
<1>5. OffsetsOk'
  BY <1>1, <1>2, <1>3, QuietKeyOk DEF OffsetsOk, OffsetOk
<1>6. QED
  BY <1>4, <1>5

LEMMA DirSyncSources ==
  ASSUME IInv, UNCHANGED scenario, DirSync
  PROVE  SourcesOk' /\ OffsetsOk'
<1> USE DEF IInv
<1>1. /\ UNCHANGED <<scenario, wal, walDurable, snap, allowed, pend>>
      /\ snapDurable' = snap /\ ~Saving'
  BY DEF DirSync, AfterSave, Idle, At, Saving, TypeOK
<1>2. ~Wiping
  BY DEF DirSync, At, JobOk, Wiping, Saving, SaveJobs
<1>3. Power' = Power
  BY DEF Power, Faults
<1>4. SourcesOk'
  BY ZenonT(60), ZenonT(90), <1>1, <1>3, QuietKeyOk DEF SourcesOk, KeyOk
<1>5. OffsetsOk'
  BY <1>1, <1>2, <1>3, QuietKeyOk DEF OffsetsOk, OffsetOk
<1>6. QED
  BY <1>4, <1>5

(* The log is truncated: by a compaction after its snapshot is durable and *)
(* claims no frame, by a reset after the history allows what is left.      *)
LEMMA TruncateSources ==
  ASSUME IInv, UNCHANGED scenario, Truncate
  PROVE  SourcesOk' /\ OffsetsOk'
<1> USE DEF IInv
<1>1. /\ UNCHANGED <<scenario, walDurable, snap, snapDurable, pend>> /\ wal' = <<>>
      /\ job.step = "truncate" /\ job' = [job EXCEPT !.step = "truncsync"]
  BY DEF Truncate, At
<1>2. job.op \in {"CompactPersistence", "ClearPersistence"} /\ job'.op = job.op /\ job'.step = "truncsync"
  BY <1>1 DEF JobOk, TypeOK
<1>3. \A k \in Keys : pend[k] = NoWrite
  BY <1>2 DEF JobOk, WholeStoreLocked, JobNames, SaveJobs
<1>4. \A u \in PossibleWals' : u = <<>> \/ u \in PossibleWals
  BY <1>1, PossibleTruncated
<1>5. \A k \in Keys, o \in Nat : \A x : Value(<<>>, o, x, k) = x
  <2> DEFINE e == <<>>
  <2>1. e \in Seq(WalFrames) /\ \A o \in Nat : o >= Len(e)
    OBVIOUS
  <2> HIDE DEF e
  <2>2. \A k \in Keys, o \in Nat : \A x : Value(e, o, x, k) = x
    BY <2>1, ValueAtEnd
  <2>3. QED
    BY <2>2 DEF e
<1>6. \A k \in Keys : /\ allowed[k] \subseteq allowed'[k]
                      /\ snap.data[k] \in allowed'[k]
                      /\ Power => snapDurable.data[k] \in allowed'[k]
  <2>1. CASE job.op = "CompactPersistence"
    <3>1. allowed' = allowed
      BY <2>1 DEF Truncate
    <3>2. snap.data = job.data /\ (Power => snapDurable = snap) /\ \A k \in Keys : job.data[k] \in allowed[k]
      BY <1>1, <2>1 DEF JobOk, Saving
    <3>3. QED
      BY <3>1, <3>2
  <2>2. CASE job.op = "ClearPersistence"
    BY <2>2 DEF Truncate
  <2>3. QED
    BY <1>2, <2>1, <2>2
<1>7. ASSUME NEW k \in Keys, NEW x \in allowed'[k], NEW o \in Nat,
             \A u \in PossibleWals : Value(u, o, x, k) \in allowed'[k]
      PROVE  Good(PossibleWals', wal', allowed'[k], pend'[k], k, x, o)
  BY <1>1, <1>3, <1>4, <1>5, <1>7 DEF Good, NoWrite
<1>8. Power' = Power
  BY DEF Power, Faults
<1>9. \A k \in Keys : KeyOk(k, snap.data[k], snap.off)'
  <2>1. SUFFICES ASSUME NEW k \in Keys
                 PROVE  Good(PossibleWals', wal', allowed'[k], pend'[k], k, snap.data[k], snap.off)
    BY <1>1 DEF KeyOk
  <2>2. \A u \in PossibleWals : Value(u, snap.off, snap.data[k], k) \in allowed'[k]
    BY <1>6 DEF SourcesOk, KeyOk, Good
  <2>3. QED
    BY <1>6, <1>7, <2>2, SourceTypes
<1>10. ASSUME Power PROVE \A k \in Keys : KeyOk(k, snapDurable.data[k], snapDurable.off)'
  <2>1. SUFFICES ASSUME NEW k \in Keys
                 PROVE  Good(PossibleWals', wal', allowed'[k], pend'[k], k, snapDurable.data[k], snapDurable.off)
    BY <1>1 DEF KeyOk
  <2>2. \A u \in PossibleWals : Value(u, snapDurable.off, snapDurable.data[k], k) \in allowed'[k]
    BY <1>6, <1>10 DEF SourcesOk, KeyOk, Good
  <2>3. QED
    BY ZenonT(60), ZenonT(90), <1>6, <1>7, <1>10, <2>2, SourceTypes
<1>11. \A k \in Keys : \A x \in allowed'[k] : KeyOk(k, x, 0)'
  <2>1. SUFFICES ASSUME NEW k \in Keys, NEW x \in allowed'[k]
                 PROVE  Good(PossibleWals', wal', allowed'[k], pend'[k], k, x, 0)
    BY DEF KeyOk
  <2>2. Good(PossibleWals, wal, allowed'[k], NoWrite, k, x, 0)
    BY ZenonT(60), ZenonT(90), <1>3, <1>6, AllowedGrows
  <2>3. QED
    BY <1>7, <2>2 DEF Good
<1>12. ~Saving'
  BY <1>2 DEF Saving
<1>13. SourcesOk'
  BY <1>8, <1>9, <1>10, <1>11, <1>12 DEF SourcesOk
<1>14. OffsetsOk'
  <2>1. CASE job.op = "CompactPersistence"
    <3>1. snap'.off = 0 /\ (Power => snapDurable'.off = 0)
      BY <1>1, <2>1 DEF JobOk, Saving
    <3>2. Within(PossibleWals', 0)
      BY TypeStep, OffsetZero, <1>4, PossibleFacts DEF Within, OffsetOk
    <3>3. QED
      BY <1>8, <1>12, <3>1, <3>2 DEF OffsetsOk, OffsetOk
  <2>2. CASE job.op = "ClearPersistence"
    BY <1>2, <1>12, <2>2 DEF OffsetsOk, Wiping
  <2>3. QED
    BY <1>2, <2>1, <2>2
<1>15. QED
  BY <1>13, <1>14

LEMMA TruncateSyncSources ==
  ASSUME IInv, UNCHANGED scenario, TypeOK', TruncateSync
  PROVE  SourcesOk' /\ OffsetsOk'
<1> USE DEF IInv
<1>1. /\ UNCHANGED <<scenario, wal, snap, snapDurable, pend, allowed>>
      /\ job.step = "truncsync"
      /\ Power => walDurable' = wal'
  BY DEF TruncateSync, At, Promised, Power, Faults, policy_
<1>2. job.op \in {"CompactPersistence", "ClearPersistence"}
  BY <1>1 DEF JobOk
<1>3. PossibleWals' \subseteq PossibleWals
  BY <1>1, PossibleSynced, PossibleFacts
<1>4. \A k \in Keys : \A x, o : KeyOk(k, x, o) => Good(PossibleWals', wal', allowed'[k], pend'[k], k, x, o)
  BY <1>1, <1>3, GoodWeaken DEF KeyOk
<1>5. \A o : OffsetOk(o) => Within(PossibleWals', o)
  BY <1>3 DEF OffsetOk, Within
<1>6. ~Saving' /\ (Wiping => Wiping')
  BY <1>1, <1>2 DEF TruncateSync, Saving, Wiping, Idle, TypeOK
<1>7. Power' = Power
  BY DEF Power, Faults
<1>8. SourcesOk'
  BY ZenonT(60), ZenonT(90), <1>1, <1>4, <1>6, <1>7 DEF SourcesOk, KeyOk
<1>9. OffsetsOk'
  BY <1>1, <1>5, <1>6, <1>7 DEF OffsetsOk, OffsetOk
<1>10. QED
  BY <1>8, <1>9

LEMMA RemoveSources ==
  ASSUME IInv, UNCHANGED scenario, Remove
  PROVE  SourcesOk' /\ OffsetsOk'
<1> USE DEF IInv
<1>1. /\ UNCHANGED <<scenario, wal, walDurable, snapDurable, allowed, pend>> /\ snap' = NoFile
      /\ job.step = "remove" /\ job' = [job EXCEPT !.step = "removesync"]
  BY DEF Remove, At
<1>2. job.op = "ClearPersistence" /\ Wiping /\ Wiping' /\ ~Saving'
  BY <1>1 DEF JobOk, TypeOK, Wiping, Saving
<1>3. \A k \in Keys : snap'.data[k] = Absent /\ Absent \in allowed[k] /\ snap'.off = 0
  BY <1>1, <1>2 DEF JobOk, NoFile, Empty
<1>4. Power' = Power
  BY DEF Power, Faults
<1>5. SourcesOk'
  BY <1>1, <1>2, <1>3, <1>4, QuietKeyOk DEF SourcesOk, KeyOk
<1>6. OffsetsOk'
  BY <1>2 DEF OffsetsOk
<1>7. QED
  BY <1>5, <1>6

LEMMA RemoveSyncSources ==
  ASSUME IInv, UNCHANGED scenario, RemoveSync
  PROVE  SourcesOk' /\ OffsetsOk'
<1> USE DEF IInv
<1>1. /\ UNCHANGED <<scenario, wal, walDurable, snap, allowed, pend>> /\ snapDurable' = snap
      /\ job.step = "removesync" /\ job' = Idle
  BY DEF RemoveSync, At
<1>2. snap.off = 0 /\ ~Saving'
  BY <1>1 DEF JobOk, Wiping, NoFile, Saving, Idle
<1>3. Power' = Power
  BY DEF Power, Faults
<1>4. SourcesOk'
  BY ZenonT(60), ZenonT(90), <1>1, <1>2, <1>3, QuietKeyOk DEF SourcesOk, KeyOk
<1>5. Within(PossibleWals', 0)
  BY ZenonT(60), ZenonT(90), <1>1, QuietKeyOk, OffsetZero
<1>6. OffsetsOk'
  BY <1>1, <1>2, <1>5 DEF OffsetsOk, OffsetOk
<1>7. QED
  BY <1>4, <1>6

LEMMA NotInterrupted ==
  ASSUME Promised(scenario), ResetMayEnd
  PROVE  ~Wiping
BY DEF Promised, ResetMayEnd, Wiping, Faults

(* A process crash: not where power fails, so the log stays as it is.      *)
LEMMA CrashSources ==
  ASSUME IInv, UNCHANGED scenario, Crash
  PROVE  SourcesOk' /\ OffsetsOk'
<1> USE DEF IInv
<1>1. /\ UNCHANGED <<scenario, wal, walDurable, snap, snapDurable, allowed>>
      /\ ResetMayEnd /\ \A k \in Keys : pend'[k] = NoWrite
      /\ job' = Idle
  BY DEF Crash, ProcessEnds, files
<1>2. ~Saving'
  BY <1>1 DEF Saving, Idle
<1>3. QED
  BY <1>1, <1>2, NotInterrupted, EndedCarried, Carry

(* A power loss: the next start finds one of the possible logs, and one of *)
(* the two snapshots.                                                      *)
LEMMA PowerLossSources ==
  ASSUME IInv, UNCHANGED scenario, TypeOK', PowerLoss
  PROVE  SourcesOk' /\ OffsetsOk'
<1> USE DEF IInv
<1>1. Power /\ allowed' = allowed /\ Power' = Power
  BY DEF PowerLoss, Promised, Power, Faults, policy_
<1>2. PICK w \in PossibleWals, s \in {snap, snapDurable} :
        wal' = w /\ walDurable' = w /\ snap' = Settled(s) /\ snapDurable' = Settled(s)
  BY <1>1 DEF PowerLoss, PossibleWals
<1>3. snap' = s /\ snapDurable' = s
  BY <1>2 DEF Settled, ReadableOk
<1>4. PossibleWals' = {w} /\ {w} \subseteq PossibleWals
  BY <1>2, PossibleSynced
<1>5. (\A k \in Keys : pend'[k] = NoWrite) /\ ResetMayEnd /\ job' = Idle
  BY DEF PowerLoss, ProcessEnds
<1>6. ~Wiping /\ ~Saving'
  BY <1>5, NotInterrupted DEF Saving, Idle
<1>7. \A k \in Keys : \A x, o : KeyOk(k, x, o) => Good(PossibleWals', wal', allowed'[k], pend'[k], k, x, o)
  <2> SUFFICES ASSUME NEW k \in Keys, NEW x, NEW o, KeyOk(k, x, o)
               PROVE  Good(PossibleWals', wal', allowed'[k], pend'[k], k, x, o)
    BY ZenonT(60), ZenonT(90)
  <2>1. Good(PossibleWals, wal, allowed[k], pend[k], k, x, o)
    BY ZenonT(60), ZenonT(90) DEF KeyOk
  <2>2. Good(PossibleWals', wal', allowed[k], NoWrite, k, x, o)
    BY ZenonT(60), ZenonT(90), <1>4, <2>1, GoodIdle
  <2> QED
    BY ZenonT(60), ZenonT(90), <1>1, <1>5, <2>2
<1>8. \A o : OffsetOk(o) => Within(PossibleWals', o)
  BY <1>4 DEF OffsetOk, Within
<1>9. \A k \in Keys : KeyOk(k, s.data[k], s.off)
  BY <1>1, <1>2 DEF SourcesOk
<1>10. OffsetOk(s.off)
  BY ZenonT(60), ZenonT(90), <1>1, <1>2, <1>6 DEF OffsetsOk
<1>11. SourcesOk'
  BY ZenonT(60), ZenonT(90), <1>1, <1>3, <1>6, <1>7, <1>9 DEF SourcesOk, KeyOk
<1>12. OffsetsOk'
  BY ZenonT(60), ZenonT(90), <1>3, <1>6, <1>8, <1>10 DEF OffsetsOk, OffsetOk
<1>13. QED
  BY <1>11, <1>12

LEMMA TruncateTailSources ==
  ASSUME IInv, UNCHANGED scenario, TypeOK', TruncateTail
  PROVE  SourcesOk' /\ OffsetsOk'
<1> USE DEF IInv
<1>1. /\ UNCHANGED <<scenario, snap, snapDurable, pend, allowed, job>>
      /\ Power => walDurable' = wal'
      /\ up = "loaded" /\ off = snap.off
  BY ZenonT(60), ZenonT(90) DEF TruncateTail, Promised, Power, Faults, policy_, MemOk
<1>2. ~Wiping /\ ~Saving /\ ~Wiping' /\ ~Saving'
  BY <1>1, NotWiping DEF Wiping, Saving
<1>3. wal = Append(wal', Torn) /\ wal' \in Seq(WalFrames) /\ off <= Len(wal')
  <2>1. wal = Append(wal', Torn) /\ wal' \in Seq(WalFrames)
    BY TailIsTorn DEF TypeOK
  <2>2. Len(wal) - 1 \in 0..Len(wal) /\ wal' = SubSeq(wal, 1, Len(wal) - 1) /\ off <= Len(wal) - 1
    BY TailIsTorn
  <2>3. wal \in Seq(WalFrames)
    BY DEF TypeOK
  <2>4. Len(wal') = Len(wal) - 1
    BY ZenonT(60), ZenonT(90), <2>2, <2>3, PrefixFacts
  <2>5. QED
    BY <2>1, <2>2, <2>4
<1>4. PossibleWals' = {wal'}
  BY <1>1, PossibleSynced
<1>5. \A k \in Keys : pend[k] = NoWrite
  BY <1>1 DEF JobOk
<1>6. \A k \in Keys, o \in Nat : \A x : KeyOk(k, x, o) => Good(PossibleWals', wal', allowed'[k], pend'[k], k, x, o)
  <2>1. SUFFICES ASSUME NEW k \in Keys, NEW o \in Nat, NEW x, KeyOk(k, x, o)
                 PROVE  Good(PossibleWals', wal', allowed'[k], pend'[k], k, x, o)
    OBVIOUS
  <2>2. Value(wal, o, x, k) \in allowed[k]
    BY <2>1, PossibleFacts DEF KeyOk, Good
  <2>3. Value(wal', o, x, k) = Value(wal, o, x, k)
    BY <1>3, ValueTorn
  <2>4. QED
    BY <1>1, <1>4, <1>5, <2>2, <2>3 DEF Good, NoWrite
<1>7. Power' = Power
  BY DEF Power, Faults
<1>8. SourcesOk'
  BY ZenonT(60), ZenonT(90), <1>1, <1>2, <1>6, <1>7, SourceTypes DEF SourcesOk, KeyOk
<1>9. Power => snapDurable.off = off
  BY <1>1 DEF SyncedUp
<1>10. OffsetsOk'
  BY <1>1, <1>2, <1>3, <1>4, <1>7, <1>9 DEF OffsetsOk, OffsetOk, Within
<1>11. QED
  BY <1>8, <1>10

(* The steps that change neither a file nor the history.                   *)
LEMMA QuietSources ==
  ASSUME IInv, UNCHANGED <<scenario, wal, walDurable, snap, snapDurable, allowed>>,
         \A k \in Keys : pend'[k] = pend[k] \/ pend'[k] = NoWrite, ~Wiping,
         Saving' => Saving /\ job'.data = job.data /\ job'.off = job.off
  PROVE  SourcesOk' /\ OffsetsOk'
BY EndedCarried, Carry DEF IInv

LEMMA SourcesStep ==
  ASSUME IInv, TypeOK', [Next]_vars
  PROVE  SourcesOk' /\ OffsetsOk'
<1> USE DEF IInv
<1>1. CASE UNCHANGED vars
  <2>1. CASE ~Wiping
    BY <1>1, <2>1, QuietSources DEF vars, Saving
  <2>2. CASE Wiping
    BY ZenonT(60), ZenonT(90), <1>1, QuietKeyOk
       DEF vars, SourcesOk, KeyOk, OffsetsOk, OffsetOk, Wiping, Saving, Power,
           Faults
  <2>3. QED
    BY <2>1, <2>2
<1>2. ASSUME SyncThrows, UNCHANGED scenario PROVE SourcesOk' /\ OffsetsOk'
  <2>1. \A k \in Keys : pend'[k] = pend[k] \/ pend'[k] = NoWrite
    BY <1>2 DEF SyncThrows, FailUnsynced
  <2>2. ~Wiping
    BY <1>2, NotWiping DEF SyncThrows, Unsynced
  <2>3. QED
    BY <1>2, <2>1, <2>2, QuietSources DEF SyncThrows, files, Saving
<1>3. ASSUME CaptureThrows, UNCHANGED scenario PROVE SourcesOk' /\ OffsetsOk'
  BY <1>3, QuietSources, NotWiping DEF CaptureThrows, Begin, files, Saving
<1>4. ASSUME BeginClear, UNCHANGED scenario PROVE SourcesOk' /\ OffsetsOk'
  <2>1. ~Saving'
    BY <1>4 DEF BeginClear, Idle, Saving
  <2>2. QED
    BY <1>4, <2>1, QuietSources, NotWiping DEF BeginClear, Begin, files
<1>5. ASSUME TempWrite, UNCHANGED scenario PROVE SourcesOk' /\ OffsetsOk'
  <2>1. Saving /\ job'.data = job.data /\ job'.off = job.off
    BY <1>5 DEF TempWrite, At, Saving, TypeOK
  <2>2. QED
    BY <1>5, <2>1, QuietSources, NotWiping DEF TempWrite, files
<1>6. ASSUME TempSync, UNCHANGED scenario PROVE SourcesOk' /\ OffsetsOk'
  <2>1. Saving /\ job'.data = job.data /\ job'.off = job.off
    BY <1>6 DEF TempSync, At, Saving, TypeOK
  <2>2. QED
    BY <1>6, <2>1, QuietSources, NotWiping DEF TempSync, files
<1>7. ASSUME JobThrows, UNCHANGED scenario PROVE SourcesOk' /\ OffsetsOk'
  <2>1. ~Saving'
    BY <1>7 DEF JobThrows, Idle, Saving
  <2>2. QED
    BY <1>7, <2>1, QuietSources, NotInterrupted DEF JobThrows, files
<1>8. ASSUME OpenWal, UNCHANGED scenario PROVE SourcesOk' /\ OffsetsOk'
  BY ZenonT(60), ZenonT(90), <1>8, QuietSources, NotWiping DEF OpenWal, files, Saving
<1>9. ASSUME LoadSnapshot, UNCHANGED scenario PROVE SourcesOk' /\ OffsetsOk'
  BY <1>9, QuietSources, NotWiping DEF LoadSnapshot, files, Saving
<1>10. ASSUME ReplayFromWal, UNCHANGED scenario PROVE SourcesOk' /\ OffsetsOk'
  BY <1>10, QuietSources, NotWiping DEF ReplayFromWal, files, Saving
<1>11. QED
  BY ZenonT(60), ZenonT(90), <1>1, <1>2, <1>3, <1>4, <1>5, <1>6, <1>7, <1>8, <1>9, <1>10,
     AppendSources, AppendThrowsSources, SyncSources, AcknowledgeSources,
     ClearMemorySources, CaptureSources, RenameSources, DirSyncSources,
     TruncateSources, TruncateSyncSources, RemoveSources, RemoveSyncSources,
     CrashSources, PowerLossSources, TruncateTailSources
  DEF Next, Step

------------------------------------------------------------------------------
(* The guarantees.                                                         *)

LEMMA InitOk ==
  ASSUME Init, Promised(scenario)
  PROVE  IInv
<1>1. TypeOK
  BY TypeInit
<1>2. JobOk
  BY DEF Init, JobOk, Idle, Saving, WholeStoreLocked, JobNames, SaveJobs, Wiping
<1>3. ReadableOk /\ MemOk /\ SyncedUp
  BY DEF Init, ReadableOk, MemOk, SyncedUp, NoFile, Idle
<1>4. TornOk
  BY DEF Init, TornOk, TornLast
<1>5. PossibleWals = {<<>>}
  BY <1>1, PossibleFacts DEF Init
<1>6. \A k \in Keys : KeyOk(k, Absent, 0)
  <2>1. SUFFICES ASSUME NEW k \in Keys PROVE KeyOk(k, Absent, 0)
    OBVIOUS
  <2>2. wal \in Seq(WalFrames) /\ Len(wal) = 0 /\ wal = <<>>
    BY DEF Init
  <2>3. Value(wal, 0, Absent, k) = Absent
    <3>1. wal \in Seq(WalFrames) /\ 0 >= Len(wal) /\ 0 \in Nat
      BY <2>2
    <3>2. QED
      BY <3>1, ValueAtEnd
  <2>4. Absent \in allowed[k] /\ pend[k] = NoWrite
    BY DEF Init
  <2>5. QED
    BY <1>5, <2>2, <2>3, <2>4 DEF KeyOk, Good, NoWrite
<1>7. SourcesOk
  BY <1>6 DEF Init, SourcesOk, NoFile, Empty, Saving, Idle
<1>8. OffsetsOk
  BY <1>1, OffsetZero DEF Init, OffsetsOk, NoFile, Saving, Idle
<1>9. QED
  BY <1>1, <1>2, <1>3, <1>4, <1>7, <1>8 DEF IInv

LEMMA InvariantStep ==
  ASSUME IInv, [Next]_vars
  PROVE  IInv'
<1>1. TypeOK' /\ ReadableOk'
  BY TypeStep, ReadableStep DEF IInv
<1>2. Promised(scenario)'
  BY DEF IInv, Next, vars, Promised
<1>3. QED
  BY <1>1, <1>2, JobStep, TornStep, MemStep, SyncedStep, SourcesStep DEF IInv

(* The inductive invariant: every source a start may read from recovers    *)
(* every key to an allowed value, from every log it may find.              *)
THEOREM RecoverySafe == Spec /\ Promised(scenario) => []IInv
BY InitOk, InvariantStep, PTL DEF Spec

(* After a process crash between any two steps startup finds for every key *)
(* its last acknowledged value, or that of a write that was not            *)
(* acknowledged: under Buffered too, and whatever else has failed.         *)
THEOREM ProcessCrashesSafe == Spec /\ Promised(scenario) => []ProcessCrashSafe
<1>1. IInv => ProcessCrashSafe
  <2>1. SUFFICES ASSUME IInv, NEW k \in Keys
                 PROVE  Replay(snap.data, wal, snap.off)[k] \in allowed[k]
    BY DEF ProcessCrashSafe, AllowedAfter, Recovered
  <2>2. Value(wal, snap.off, snap.data[k], k) \in allowed[k]
    BY ZenonT(60), ZenonT(90), <2>1, PossibleFacts DEF IInv, SourcesOk, KeyOk, Good
  <2>3. QED
    BY <2>2, ReplayIsValue
<1>2. QED
  BY <1>1, RecoverySafe, PTL

(* The same after a power loss, whatever part of the unsynced data is lost *)
(* and whichever of the two snapshots is found.                            *)
THEOREM PowerLossesSafe == Spec /\ Promised(scenario) => []PowerLossSafe
<1>1. IInv => PowerLossSafe
  <2>1. SUFFICES ASSUME IInv, Power, NEW w \in PossibleWals, NEW s \in {snap, snapDurable}, NEW k \in Keys
                 PROVE  Replay(s.data, w, s.off)[k] \in allowed[k]
    BY DEF PowerLossSafe, PossibleSnapshots, AllowedAfter, Recovered
  <2>2. Value(w, s.off, s.data[k], k) \in allowed[k]
    BY ZenonT(60), ZenonT(90), <2>1 DEF IInv, SourcesOk, KeyOk, Good
  <2>3. QED
    BY <2>2, ReplayIsValue
<1>2. QED
  BY <1>1, RecoverySafe, PTL

(* Every snapshot a start may find lies within every log it may find, so   *)
(* that no frame is written into what a snapshot covers: captures wait for *)
(* unsynced writes, and rotations for a durable snapshot at offset zero.   *)
THEOREM OffsetsWithinWal == Spec => []OffsetWithinWal
<1>1. IInv => OffsetWithinWal
  BY DEF IInv, OffsetWithinWal, PossibleSnapshots, OffsetsOk, Wiping, OffsetOk, Within
<1>2. ~Promised(scenario) => OffsetWithinWal
  BY DEF OffsetWithinWal
<1>3. ~Promised(scenario) /\ [Next]_vars => ~Promised(scenario)'
  BY DEF Next, vars, Promised
<1>4. QED
  BY <1>1, <1>2, <1>3, InitOk, InvariantStep, PTL DEF Spec
===============================================================================

