---------------------------- MODULE RecoveryProofs ----------------------------
(***************************************************************************)
(* Proofs about Recovery, for every setting: what replay computes, what a  *)
(* power loss can leave of the log, types, and the snapshot file.          *)
(* RecoverySafety builds on them.                                          *)
(***************************************************************************)
EXTENDS Recovery, FiniteSetTheorems, TLAPS

(* Every leaf is tried with Z3, with Zenon, and again with Z3, unless it   *)
(* names its prover: the time to translate a leaf varies, and has a limit. *)
USE SMTT(20), ZenonT(20), SMTT(40), SMTT(60), SMTT(90)

(* The value of k when replay of w starts at offset o from the value x.    *)
Mine(w, o, k) == {i \in Reached(w, o) : w[i].key = k}
Value(w, o, x, k) == IF Mine(w, o, k) = {} THEN x ELSE w[Max(Mine(w, o, k))].val

(* Only the last frame is torn; none is.                                   *)
TornLast(w) == \A i \in 1..(Len(w) - 1) : w[i] # Torn
Clean(w) == \A i \in 1..Len(w) : w[i] # Torn

------------------------------------------------------------------------------
(* What replay computes.                                                   *)

(* A set of positions has a last one.                                      *)
LEMMA LastExists ==
  ASSUME NEW n \in Nat, NEW S \in SUBSET (1..n), S # {}
  PROVE  Max(S) \in S /\ \A i \in S : i <= Max(S)
<1> DEFINE D == {i \in 1..n : \E j \in S : i <= j}
           t == Cardinality(D)
<1>1. IsFiniteSet(1..n)
  BY FS_Interval, 1 \in Int, n \in Int
<1>2. IsFiniteSet(D) /\ t \in Nat
  BY <1>1, FS_Subset, FS_CardinalityType, D \subseteq 1..n
<1>3. ASSUME NEW i \in D PROVE i <= t
  <2>1. i \in Nat /\ 1..i \subseteq D
    BY <1>3
  <2>2. IsFiniteSet(1..i) /\ Cardinality(1..i) = i
    BY <1>3, FS_Interval, 1 \in Int, i \in Int
  <2> HIDE DEF D
  <2>3. QED
    BY <1>2, <2>1, <2>2, FS_Subset
<1>4. D = 1..t
  <2>1. D \subseteq 1..t
    BY <1>2, <1>3
  <2>2. IsFiniteSet(1..t) /\ Cardinality(1..t) = t
    BY <1>2, FS_Interval, 1 \in Int, t \in Int
  <2> HIDE DEF D
  <2>3. QED
    BY ZenonT(60), ZenonT(90), <2>1, <2>2, FS_Subset
<1>5. ASSUME NEW i \in S PROVE i \in D
  <2>1. i \in 1..n /\ i <= i
    OBVIOUS
  <2>2. QED
    BY <2>1
<1>6. t \in D
  <2>1. PICK i : i \in S
    OBVIOUS
  <2>2. i \in 1..t
    BY <1>4, <1>5, <2>1
  <2> HIDE DEF D
  <2>3. t \in 1..t
    BY <1>2, <2>2
  <2>4. QED
    BY <1>4, <2>3
<1>7. PICK j \in S : t <= j
  BY <1>6
<1>8. \A i \in S : i \in 1..t
  BY <1>4, <1>5
<1> HIDE DEF D
<1>9. \E m \in S : \A i \in S : m >= i
  <2>1. \A i \in S : j >= i
    BY <1>2, <1>7, <1>8
  <2>2. QED
    BY <2>1
<1>10. QED
  BY ZenonT(60), ZenonT(90), <1>9 DEF Max

(* Replay works on each key by itself.                                     *)
LEMMA ReplayIsValue ==
  ASSUME NEW base, NEW w, NEW o, NEW k \in Keys
  PROVE  Replay(base, w, o)[k] = Value(w, o, base[k], k)
BY DEF Replay, Value, Mine

(* Replay yields the value it starts from, or one that does not depend on  *)
(* it.                                                                     *)
LEMMA ValueOrRecord ==
  ASSUME NEW w, NEW o, NEW x, NEW y, NEW k
  PROVE  Value(w, o, x, k) = x \/ Value(w, o, x, k) = Value(w, o, y, k)
BY DEF Value

(* Bytes that are not a whole frame change nothing.                        *)
LEMMA ValueTorn ==
  ASSUME NEW w \in Seq(WalFrames), NEW o \in Nat, NEW x, NEW k
  PROVE  Value(Append(w, Torn), o, x, k) = Value(w, o, x, k)
<1> DEFINE v == Append(w, Torn)
<1>1. Len(v) = Len(w) + 1 /\ Len(w) \in Nat /\ v[Len(w) + 1] = Torn
  OBVIOUS
<1>2. \A i \in 1..Len(w) : v[i] = w[i]
  OBVIOUS
<1> HIDE DEF v
<1>3. ASSUME NEW i PROVE i \in Reached(v, o) <=> i \in Reached(w, o)
  BY <1>1, <1>2 DEF Reached
<1>4. Reached(v, o) = Reached(w, o)
  BY ZenonT(60), ZenonT(90), <1>3
<1>5. \A i \in Reached(w, o) : v[i] = w[i]
  BY <1>1, <1>2 DEF Reached
<1>6. Mine(v, o, k) = Mine(w, o, k)
  BY <1>4, <1>5 DEF Mine
<1>7. CASE Mine(w, o, k) = {}
  BY <1>6, <1>7 DEF Value, v
<1>8. CASE Mine(w, o, k) # {}
  <2>1. Mine(w, o, k) \in SUBSET (1..Len(w))
    BY <1>1 DEF Mine, Reached
  <2>2. Max(Mine(w, o, k)) \in Reached(w, o)
    BY ZenonT(60), ZenonT(90), <1>1, <1>8, <2>1, LastExists DEF Mine
  <2>3. QED
    BY ZenonT(60), ZenonT(90), <1>5, <1>6, <2>2 DEF Value, v
<1>9. QED
  BY <1>7, <1>8

(* An appended record decides its key or, after a torn frame or before the *)
(* offset, changes nothing;                                                *)
LEMMA ValueAppend ==
  ASSUME NEW w \in Seq(WalFrames), NEW o \in Nat, NEW x, NEW k,
         NEW j \in Keys, NEW v \in Contents
  PROVE  \/ Value(Append(w, Record(j, v)), o, x, k) = Value(w, o, x, k)
         \/ j = k /\ Value(Append(w, Record(j, v)), o, x, k) = v
<1> DEFINE r == Record(j, v)
           u == Append(w, r)
           n == Len(w) + 1
<1>1. Len(u) = n /\ Len(w) \in Nat /\ u[n] = r
  OBVIOUS
<1>2. \A i \in 1..Len(w) : u[i] = w[i]
  OBVIOUS
<1>3. r # Torn /\ r.key = j /\ r.val = v
  BY RecoveryAssumption DEF Record, Torn
<1> HIDE DEF u, r
<1>4. \A i \in Reached(w, o) : i \in 1..Len(w) /\ u[i] = w[i]
  BY <1>1, <1>2 DEF Reached
<1>5. Reached(w, o) \subseteq Reached(u, o) /\ Reached(u, o) \subseteq Reached(w, o) \cup {n}
  BY <1>1, <1>2 DEF Reached
<1>6. CASE n \in Reached(u, o) /\ j = k
  <2>1. Mine(u, o, k) \in SUBSET (1..n) /\ n \in Mine(u, o, k) /\ n \in Nat
    BY <1>1, <1>3, <1>6 DEF Mine, Reached
  <2>2. Max(Mine(u, o, k)) = n
    <3>1. Max(Mine(u, o, k)) \in 1..n /\ n <= Max(Mine(u, o, k))
      BY ZenonT(60), ZenonT(90), <2>1, LastExists
    <3>2. QED
      BY <2>1, <3>1
  <2>3. Value(u, o, x, k) = v
    BY <1>1, <1>3, <2>1, <2>2 DEF Value
  <2>4. QED
    BY <1>6, <2>3 DEF u, r
<1>7. CASE ~(n \in Reached(u, o) /\ j = k)
  <2>1. Mine(u, o, k) = Mine(w, o, k)
    BY <1>1, <1>3, <1>4, <1>5, <1>7 DEF Mine
  <2>2. Mine(w, o, k) # {} => Max(Mine(w, o, k)) \in Reached(w, o)
    <3>1. Mine(w, o, k) \in SUBSET (1..Len(w))
      BY <1>1 DEF Mine, Reached
    <3>2. QED
      BY ZenonT(60), ZenonT(90), <1>1, <3>1, LastExists DEF Mine
  <2>3. Value(u, o, x, k) = Value(w, o, x, k)
    BY <1>4, <2>1, <2>2 DEF Value
  <2>4. QED
    BY <2>3 DEF u, r
<1>8. QED
  BY <1>6, <1>7

(* it decides its key in a log that replay gets through.                   *)
LEMMA ValueOwnAppend ==
  ASSUME NEW w \in Seq(WalFrames), NEW o \in Nat, NEW x, NEW k \in Keys,
         NEW v \in Contents, o <= Len(w), Clean(w)
  PROVE  Value(Append(w, Record(k, v)), o, x, k) = v
<1> DEFINE r == Record(k, v)
           u == Append(w, r)
           n == Len(w) + 1
<1>1. Len(u) = n /\ Len(w) \in Nat /\ n \in Nat /\ u[n] = r
  OBVIOUS
<1>2. \A i \in 1..Len(w) : u[i] = w[i] /\ w[i] # Torn
  BY DEF Clean
<1>3. r # Torn /\ r.key = k /\ r.val = v
  BY RecoveryAssumption DEF Record, Torn
<1> HIDE DEF u, r
<1>4. n \in Mine(u, o, k) /\ Mine(u, o, k) \in SUBSET (1..n)
  BY <1>1, <1>2, <1>3 DEF Mine, Reached
<1>5. Max(Mine(u, o, k)) = n
  <2>1. Max(Mine(u, o, k)) \in 1..n /\ n <= Max(Mine(u, o, k))
    BY ZenonT(60), ZenonT(90), <1>1, <1>4, LastExists
  <2>2. QED
    BY <1>1, <2>1
<1>6. QED
  BY <1>1, <1>3, <1>4, <1>5 DEF Value, u, r

(* Nothing is replayed from the end of the log or beyond it.               *)
LEMMA ValueAtEnd ==
  ASSUME NEW w \in Seq(WalFrames), NEW o \in Nat, o >= Len(w), NEW x, NEW k
  PROVE  Value(w, o, x, k) = x
<1>1. Reached(w, o) = {}
  BY DEF Reached
<1>2. QED
  BY <1>1 DEF Value, Mine

(* Replay yields contents.                                                 *)
LEMMA ValueType ==
  ASSUME NEW w \in Seq(WalFrames), NEW o \in Nat, NEW x \in Contents, NEW k \in Keys
  PROVE  Value(w, o, x, k) \in Contents
<1>1. CASE Mine(w, o, k) = {}
  BY <1>1 DEF Value
<1>2. CASE Mine(w, o, k) # {}
  <2>1. Mine(w, o, k) \in SUBSET (1..Len(w)) /\ Len(w) \in Nat
    BY DEF Mine, Reached
  <2>2. Max(Mine(w, o, k)) \in Mine(w, o, k)
    BY ZenonT(60), ZenonT(90), <1>2, <2>1, LastExists
  <2> DEFINE m == Max(Mine(w, o, k))
  <2>3. m \in 1..Len(w)
    BY <2>1, <2>2
  <2> HIDE DEF m
  <2>4. w[m] \in WalFrames
    BY <2>3
  <2>5. w[m].val \in Contents
    BY <2>4 DEF WalFrames, Torn, Contents
  <2>6. QED
    BY <1>2, <2>5 DEF Value, m
<1>3. QED
  BY <1>1, <1>2

------------------------------------------------------------------------------
(* What a power loss can leave of the log.                                 *)

(* The least length that is kept.                                          *)
Floor(d, w) == IF IsExtension(d, w) THEN Len(d) ELSE 0

LEMMA FramesEqual ==
  ASSUME NEW s \in Seq(WalFrames), NEW t \in Seq(WalFrames), Len(s) = Len(t),
         \A i \in 1..Len(s) : s[i] = t[i]
  PROVE  s = t
OBVIOUS

LEMMA PrefixFacts ==
  ASSUME NEW w \in Seq(WalFrames), NEW n \in 0..Len(w)
  PROVE  /\ SubSeq(w, 1, n) \in Seq(WalFrames)
         /\ Len(SubSeq(w, 1, n)) = n
         /\ \A i \in 1..n : SubSeq(w, 1, n)[i] = w[i]
<1>1. SubSeq(w, 1, n) \in Seq(WalFrames)
  OBVIOUS
<1>2. Len(SubSeq(w, 1, n)) = n
  OBVIOUS
<1>3. \A i \in 1..n : SubSeq(w, 1, n)[i] = w[i]
  OBVIOUS
<1>4. QED
  BY <1>1, <1>2, <1>3

LEMMA WholePrefix ==
  ASSUME NEW w \in Seq(WalFrames)
  PROVE  SubSeq(w, 1, Len(w)) = w
<1>1. Len(w) \in 0..Len(w)
  OBVIOUS
<1>2. QED
  BY <1>1, PrefixFacts, FramesEqual

LEMMA FloorFacts ==
  ASSUME NEW d \in Seq(WalFrames), NEW w \in Seq(WalFrames)
  PROVE  Floor(d, w) \in 0..Len(w)
BY DEF Floor, IsExtension

(* The members of AfterPowerLoss.                                          *)
LEMMA LossShape ==
  ASSUME NEW d \in Seq(WalFrames), NEW w \in Seq(WalFrames), NEW u
  PROVE  u \in AfterPowerLoss(d, w) <=>
           \/ \E n \in Floor(d, w)..Len(w) : u = SubSeq(w, 1, n)
           \/ \E n \in Floor(d, w)..(Len(w) - 1) : u = Append(SubSeq(w, 1, n), Torn)
           \/ ~IsExtension(d, w) /\ u = d
<1> DEFINE f == Floor(d, w)
           kept == {SubSeq(w, 1, n) : n \in f..Len(w)}
           torn == {Append(c, Torn) : c \in {c \in kept : Len(c) < Len(w)}}
<1>1. AfterPowerLoss(d, w) = kept \cup torn \cup (IF IsExtension(d, w) THEN {} ELSE {d})
  BY DEF AfterPowerLoss, Floor
<1>2. f \in Nat /\ Len(w) \in Nat /\ f <= Len(w)
  BY FloorFacts
<1>3. \A n \in f..Len(w) : Len(SubSeq(w, 1, n)) = n
  BY <1>2, PrefixFacts
<1> HIDE DEF f
<1>4. u \in torn <=> \E n \in f..(Len(w) - 1) : u = Append(SubSeq(w, 1, n), Torn)
  <2>1. ASSUME u \in torn PROVE \E n \in f..(Len(w) - 1) : u = Append(SubSeq(w, 1, n), Torn)
    <3>1. PICK n \in f..Len(w) : u = Append(SubSeq(w, 1, n), Torn) /\ Len(SubSeq(w, 1, n)) < Len(w)
      BY ZenonT(60), ZenonT(90), <2>1
    <3>2. n \in f..(Len(w) - 1)
      BY <1>2, <1>3, <3>1
    <3>3. QED
      BY <3>1, <3>2
  <2>2. ASSUME NEW n \in f..(Len(w) - 1), u = Append(SubSeq(w, 1, n), Torn) PROVE u \in torn
    <3>1. n \in f..Len(w) /\ n < Len(w)
      BY <1>2
    <3>2. SubSeq(w, 1, n) \in kept /\ Len(SubSeq(w, 1, n)) < Len(w)
      BY <1>3, <3>1
    <3>3. QED
      BY ZenonT(60), ZenonT(90), <2>2, <3>2
  <2>3. QED
    BY ZenonT(60), ZenonT(90), <2>1, <2>2
<1>5. u \in kept <=> \E n \in f..Len(w) : u = SubSeq(w, 1, n)
  OBVIOUS
<1> HIDE DEF kept, torn
<1>6. QED
  BY <1>1, <1>4, <1>5 DEF f

LEMMA LossType ==
  ASSUME NEW d \in Seq(WalFrames), NEW w \in Seq(WalFrames)
  PROVE  AfterPowerLoss(d, w) \subseteq Seq(WalFrames)
<1> SUFFICES ASSUME NEW u \in AfterPowerLoss(d, w) PROVE u \in Seq(WalFrames)
  OBVIOUS
<1>1. Floor(d, w) \in Nat /\ Len(w) \in Nat
  BY FloorFacts
<1>5. Torn \in WalFrames
  BY DEF WalFrames
<1>2. CASE \E n \in Floor(d, w)..Len(w) : u = SubSeq(w, 1, n)
  BY <1>1, <1>2, PrefixFacts
<1>3. CASE \E n \in Floor(d, w)..(Len(w) - 1) : u = Append(SubSeq(w, 1, n), Torn)
  <2>1. PICK n \in Floor(d, w)..(Len(w) - 1) : u = Append(SubSeq(w, 1, n), Torn)
    BY <1>3
  <2>2. n \in 0..Len(w)
    BY <1>1
  <2>3. SubSeq(w, 1, n) \in Seq(WalFrames)
    BY <2>2, PrefixFacts
  <2>4. QED
    BY <1>5, <2>1, <2>3
<1>4. QED
  BY <1>2, <1>3, LossShape

(* The file may survive as it is seen, and as it was last synced.          *)
LEMMA LossKeeps ==
  ASSUME NEW d \in Seq(WalFrames), NEW w \in Seq(WalFrames)
  PROVE  w \in AfterPowerLoss(d, w) /\ d \in AfterPowerLoss(d, w)
<1>1. Floor(d, w) \in Nat /\ Len(w) \in Nat /\ Floor(d, w) <= Len(w)
  BY FloorFacts
<1>2. w \in AfterPowerLoss(d, w)
  <2>1. Len(w) \in Floor(d, w)..Len(w) /\ w = SubSeq(w, 1, Len(w))
    BY <1>1, WholePrefix
  <2>2. QED
    BY <2>1, LossShape
<1>3. d \in AfterPowerLoss(d, w)
  <2>1. CASE IsExtension(d, w)
    <3>1. Len(d) \in Floor(d, w)..Len(w) /\ d = SubSeq(w, 1, Len(d))
      BY <1>1, <2>1 DEF IsExtension, Floor
    <3>2. QED
      BY <3>1, LossShape
  <2>2. CASE ~IsExtension(d, w)
    BY <2>2, LossShape
  <2>3. QED
    BY <2>1, <2>2
<1>4. QED
  BY <1>2, <1>3

(* A synced file survives unchanged.                                       *)
LEMMA LossSynced ==
  ASSUME NEW w \in Seq(WalFrames)
  PROVE  AfterPowerLoss(w, w) = {w}
<1>1. IsExtension(w, w) /\ Len(w) \in Nat
  BY WholePrefix DEF IsExtension
<1>2. Floor(w, w) = Len(w)
  BY <1>1 DEF Floor
<1>3. Floor(w, w)..Len(w) = {Len(w)} /\ Floor(w, w)..(Len(w) - 1) = {}
  BY <1>1, <1>2
<1>4. ASSUME NEW u \in AfterPowerLoss(w, w) PROVE u = w
  BY <1>1, <1>3, WholePrefix, LossShape
<1>5. QED
  BY <1>4, LossKeeps

(* An append adds the log that reads so far, and its torn form.            *)
LEMMA LossAppend ==
  ASSUME NEW d \in Seq(WalFrames), NEW w \in Seq(WalFrames), NEW r \in WalFrames,
         NEW u \in AfterPowerLoss(d, Append(w, r))
  PROVE  u \in AfterPowerLoss(d, w) \/ u = Append(w, r) \/ u = Append(w, Torn)
<1> DEFINE v == Append(w, r)
           f == Floor(d, v)
<1>1. v \in Seq(WalFrames) /\ Len(v) = Len(w) + 1 /\ Len(w) \in Nat /\ Len(d) \in Nat
  OBVIOUS
<1>2. \A n \in 0..Len(w) : SubSeq(v, 1, n) = SubSeq(w, 1, n)
  <2>1. SUFFICES ASSUME NEW n \in 0..Len(w) PROVE SubSeq(v, 1, n) = SubSeq(w, 1, n)
    OBVIOUS
  <2>2. n \in 0..Len(v) /\ n \in Nat
    BY <1>1
  <2>3. \A i \in 1..Len(w) : v[i] = w[i]
    OBVIOUS
  <2> HIDE DEF v
  <2>4. \A i \in 1..n : SubSeq(v, 1, n)[i] = SubSeq(w, 1, n)[i]
    BY <1>1, <2>2, <2>3, PrefixFacts
  <2>5. SubSeq(v, 1, n) \in Seq(WalFrames) /\ SubSeq(w, 1, n) \in Seq(WalFrames)
        /\ Len(SubSeq(v, 1, n)) = n /\ Len(SubSeq(w, 1, n)) = n
    BY <1>1, <2>2, PrefixFacts
  <2>6. QED
    BY <2>4, <2>5, FramesEqual
<1>3. SubSeq(v, 1, Len(w) + 1) = v
  BY <1>1, WholePrefix
<1> HIDE DEF v
<1>4. IsExtension(d, w) => IsExtension(d, v)
  BY <1>1, <1>2 DEF IsExtension
<1>5. f \in Nat /\ Floor(d, w) \in Nat /\ (f <= Len(w) => Floor(d, w) <= f)
  <2>1. f \in 0..Len(v) /\ Floor(d, w) \in 0..Len(w)
    BY <1>1, FloorFacts
  <2>2. QED
    BY <1>1, <1>4, <2>1 DEF Floor
<1> HIDE DEF f
<1>6. CASE \E n \in f..Len(v) : u = SubSeq(v, 1, n)
  <2>1. PICK n \in f..Len(v) : u = SubSeq(v, 1, n)
    BY <1>6
  <2>2. CASE n = Len(w) + 1
    BY <1>3, <2>1, <2>2 DEF v
  <2>3. CASE n # Len(w) + 1
    <3>1. n \in Floor(d, w)..Len(w) /\ n \in 0..Len(w)
      BY <1>1, <1>5, <2>3
    <3>2. u = SubSeq(w, 1, n)
      BY <1>2, <2>1, <3>1
    <3>3. QED
      BY ZenonT(60), ZenonT(90), <3>1, <3>2, LossShape
  <2>4. QED
    BY <2>2, <2>3
<1>7. CASE \E n \in f..(Len(v) - 1) : u = Append(SubSeq(v, 1, n), Torn)
  <2>1. PICK n \in f..(Len(v) - 1) : u = Append(SubSeq(v, 1, n), Torn)
    BY <1>7
  <2>2. n \in Floor(d, w)..Len(w) /\ n \in 0..Len(w)
    BY <1>1, <1>5
  <2>3. u = Append(SubSeq(w, 1, n), Torn)
    BY <1>2, <2>1, <2>2
  <2>4. CASE n = Len(w)
    BY <2>3, <2>4, WholePrefix
  <2>5. CASE n # Len(w)
    <3>1. n \in Floor(d, w)..(Len(w) - 1)
      BY <1>1, <1>5, <2>2, <2>5
    <3>2. QED
      BY ZenonT(60), ZenonT(90), <2>3, <3>1, LossShape
  <2>6. QED
    BY <2>4, <2>5
<1>8. CASE ~IsExtension(d, v) /\ u = d
  BY <1>8, LossKeeps
<1>9. u \in AfterPowerLoss(d, v)
  BY DEF v
<1>10. \/ \E n \in f..Len(v) : u = SubSeq(v, 1, n)
       \/ \E n \in f..(Len(v) - 1) : u = Append(SubSeq(v, 1, n), Torn)
       \/ ~IsExtension(d, v) /\ u = d
  BY ZenonT(60), ZenonT(90), <1>1, <1>9, LossShape DEF f
<1>11. QED
  BY <1>6, <1>7, <1>8, <1>10

(* A truncation leaves nothing or, unsynced, the old file.                 *)
LEMMA LossEmpty ==
  ASSUME NEW d \in Seq(WalFrames), NEW u \in AfterPowerLoss(d, <<>>)
  PROVE  u = <<>> \/ u = d
<1> DEFINE e == <<>>
<1>1. e \in Seq(WalFrames) /\ Len(e) = 0
  OBVIOUS
<1>2. u \in AfterPowerLoss(d, e)
  OBVIOUS
<1> HIDE DEF e
<1>3. Floor(d, e) = 0
  <2>1. Floor(d, e) \in 0..0
    BY ZenonT(60), ZenonT(90), <1>1, FloorFacts
  <2>2. QED
    BY <2>1
<1>4. SubSeq(e, 1, 0) = e
  BY <1>1, WholePrefix
<1>5. \/ \E n \in 0..0 : u = SubSeq(e, 1, n)
      \/ \E n \in 0..(0 - 1) : u = Append(SubSeq(e, 1, n), Torn)
      \/ u = d
  BY ZenonT(60), ZenonT(90), <1>1, <1>2, <1>3, LossShape
<1>6. 0..0 = {0} /\ 0..(0 - 1) = {}
  OBVIOUS
<1>7. QED
  BY <1>4, <1>5, <1>6 DEF e

(* Only the last frame of a file is ever torn.                             *)
LEMMA LossTornLast ==
  ASSUME NEW d \in Seq(WalFrames), NEW w \in Seq(WalFrames), TornLast(d), TornLast(w),
         NEW u \in AfterPowerLoss(d, w)
  PROVE  TornLast(u)
<1>1. Floor(d, w) \in Nat /\ Len(w) \in Nat
  BY FloorFacts
<1>2. CASE \E n \in Floor(d, w)..Len(w) : u = SubSeq(w, 1, n)
  <2>1. PICK n \in Floor(d, w)..Len(w) : u = SubSeq(w, 1, n)
    BY <1>2
  <2>2. n \in 0..Len(w)
    BY <1>1
  <2>3. QED
    BY <1>1, <2>1, <2>2, PrefixFacts DEF TornLast
<1>3. CASE \E n \in Floor(d, w)..(Len(w) - 1) : u = Append(SubSeq(w, 1, n), Torn)
  <2>1. PICK n \in Floor(d, w)..(Len(w) - 1) : u = Append(SubSeq(w, 1, n), Torn)
    BY <1>3
  <2>2. n \in 0..Len(w) /\ n < Len(w)
    BY <1>1
  <2> DEFINE c == SubSeq(w, 1, n)
  <2>3. c \in Seq(WalFrames) /\ Len(c) = n /\ \A i \in 1..n : c[i] = w[i]
    BY <2>2, PrefixFacts
  <2> HIDE DEF c
  <2>4. u = Append(c, Torn) /\ Torn \in WalFrames
    BY <2>1 DEF c, WalFrames
  <2>5. Len(u) = n + 1 /\ \A i \in 1..n : u[i] = c[i]
    BY <2>3, <2>4
  <2>6. \A i \in 1..n : w[i] # Torn
    BY <1>1, <2>2 DEF TornLast
  <2>7. QED
    BY <2>2, <2>3, <2>5, <2>6 DEF TornLast
<1>4. QED
  BY <1>2, <1>3, LossShape

(* Replay counts the frames it gets through.                               *)
LEMMA ReachedCount ==
  ASSUME NEW w \in Seq(WalFrames), NEW o \in Nat
  PROVE  Cardinality(Reached(w, o)) \in Nat
<1>1. Reached(w, o) \subseteq 1..Len(w) /\ Len(w) \in Nat
  BY DEF Reached
<1>2. IsFiniteSet(1..Len(w))
  BY <1>1, FS_Interval, 1 \in Int, Len(w) \in Int
<1>3. QED
  BY <1>1, <1>2, FS_Subset, FS_CardinalityType

(* Where only the last frame can be torn, a tail that replay does not get  *)
(* through is that frame.                                                  *)
LEMMA TornTail ==
  ASSUME NEW w \in Seq(WalFrames), TornLast(w), NEW o \in Nat, o <= Len(w),
         o + Cardinality(Reached(w, o)) < Len(w)
  PROVE  /\ Len(w) - 1 \in 0..Len(w)
         /\ o <= Len(w) - 1
         /\ o + Cardinality(Reached(w, o)) = Len(w) - 1
         /\ w = Append(SubSeq(w, 1, Len(w) - 1), Torn)
<1> DEFINE n == Len(w) - 1
<1>1. Len(w) \in Nat
  OBVIOUS
<1>2. \A i \in 1..n : w[i] # Torn
  BY DEF TornLast
<1>3. o # Len(w)
  <2>1. SUFFICES ASSUME o = Len(w) PROVE FALSE
    OBVIOUS
  <2>2. Reached(w, o) = {}
    BY <1>1, <2>1 DEF Reached
  <2>3. Cardinality(Reached(w, o)) = 0
    BY <2>2, FS_EmptySet
  <2>4. QED
    BY <1>1, <2>1, <2>3
<1>4. o <= n /\ n \in Nat /\ n \in 0..Len(w)
  BY <1>1, <1>3
<1>5. w[Len(w)] = Torn
  <2>1. SUFFICES ASSUME w[Len(w)] # Torn PROVE FALSE
    OBVIOUS
  <2>2. Reached(w, o) = (o + 1)..Len(w)
    BY <1>1, <1>2, <2>1 DEF Reached
  <2>3. Cardinality((o + 1)..Len(w)) = Len(w) - (o + 1) + 1
    BY <1>1, <1>4, FS_Interval, o + 1 \in Int, Len(w) \in Int
  <2>4. QED
    BY <1>1, <2>2, <2>3
<1>6. Cardinality(Reached(w, o)) = n - o
  <2>1. Reached(w, o) = (o + 1)..n
    BY <1>1, <1>2, <1>4, <1>5 DEF Reached
  <2>2. CASE o = n
    <3>1. (o + 1)..n = {}
      BY <1>4, <2>2
    <3>2. QED
      BY <1>4, <2>1, <2>2, <3>1, FS_EmptySet
  <2>3. CASE o # n
    BY <1>4, <2>1, <2>3, FS_Interval, o + 1 \in Int, n \in Int
  <2>4. QED
    BY <2>2, <2>3
<1>7. w = Append(SubSeq(w, 1, n), Torn)
  <2> DEFINE c == SubSeq(w, 1, n)
             t == Append(c, Torn)
  <2>1. c \in Seq(WalFrames) /\ Len(c) = n /\ \A i \in 1..n : c[i] = w[i]
    BY ZenonT(60), ZenonT(90), <1>4, PrefixFacts
  <2>2. Torn \in WalFrames
    BY DEF WalFrames
  <2> HIDE DEF c
  <2>3. t \in Seq(WalFrames) /\ Len(t) = Len(w) /\ \A i \in 1..Len(w) : w[i] = t[i]
    BY <1>1, <1>5, <2>1, <2>2
  <2> HIDE DEF t
  <2>4. w = t
    BY <2>3, FramesEqual
  <2>5. QED
    BY <2>4 DEF c, t
<1>8. QED
  BY <1>4, <1>6, <1>7

------------------------------------------------------------------------------
(* Types.                                                                  *)

LEMMA ConstantTypes ==
  /\ Absent \in Contents
  /\ Empty \in [Keys -> Contents]
  /\ NoFile \in SnapshotFiles
  /\ NoWrite \in [val : Contents, stage : {"none", "written", "synced"}]
  /\ Torn \in WalFrames
  /\ \A k \in Keys, v \in Contents : Record(k, v) \in WalFrames
  /\ <<>> \in Seq(WalFrames)
<1>1. Absent \in Contents
  BY DEF Contents
<1>2. Empty \in [Keys -> Contents]
  BY <1>1 DEF Empty
<1>3. NoFile \in SnapshotFiles
  BY <1>2 DEF NoFile, SnapshotFiles
<1>4. NoWrite \in [val : Contents, stage : {"none", "written", "synced"}]
  BY <1>1 DEF NoWrite
<1>5. Torn \in WalFrames /\ \A k \in Keys, v \in Contents : Record(k, v) \in WalFrames
  BY DEF WalFrames, Record
<1>6. QED
  BY <1>1, <1>2, <1>3, <1>4, <1>5

JobType ==
  [op : JobNames \cup {"none"},
   step : {"none", "temp", "tempsync", "rename", "dirsync", "truncate",
           "truncsync", "remove", "removesync"},
   data : [Keys -> Contents], off : Nat, synced : BOOLEAN]

LEMMA IdleType == Idle \in JobType
BY ConstantTypes DEF Idle, JobType

LEMMA BoundTypes ==
  ASSUME TypeOK
  PROVE  /\ MaxRecords \in Nat /\ MaxCrashes \in Nat /\ Jobs \subseteq JobNames
         /\ policy_ \in {"Buffered", "Sync", "GroupCommit"}
         /\ job \in JobType
BY RecoveryAssumption
   DEF TypeOK, ScenarioType, MaxCrashes, Jobs, policy_, JobType

(* Every step keeps the types.                                             *)
LEMMA TypeStep ==
  ASSUME TypeOK, [Next]_vars
  PROVE  TypeOK'
<1> USE ConstantTypes, IdleType, BoundTypes
<1>1. ASSUME NEW k \in Keys, NEW v \in Contents, AppendToWal(k, v), UNCHANGED scenario
      PROVE  TypeOK'
  <2>1. wal' \in Seq(WalFrames) /\ records' \in 0..MaxRecords
    BY <1>1 DEF TypeOK, AppendToWal, AppendAllowed
  <2>2. pend' \in [Keys -> [val : Contents, stage : {"none", "written", "synced"}]]
    BY <1>1 DEF TypeOK, AppendToWal
  <2>3. allowed' \in [Keys -> SUBSET Contents]
    BY <1>1 DEF TypeOK, AppendToWal
  <2>4. QED
    BY <1>1, <2>1, <2>2, <2>3 DEF TypeOK, AppendToWal, MaxCrashes
<1>2. ASSUME NEW k \in Keys, NEW v \in Contents, AppendThrows(k, v), UNCHANGED scenario
      PROVE  TypeOK'
  <2>1. wal' \in Seq(WalFrames) /\ records' \in 0..MaxRecords
    <3>1. wal \in Seq(WalFrames) /\ Append(wal, Torn) \in Seq(WalFrames)
      BY DEF TypeOK
    <3>2. wal' \in Seq(WalFrames)
      BY <1>2, <3>1 DEF AppendThrows
    <3>3. QED
      BY <1>2, <3>2 DEF TypeOK, AppendThrows, AppendAllowed
  <2>2. pend' \in [Keys -> [val : Contents, stage : {"none", "written", "synced"}]]
    BY <1>2 DEF TypeOK, AppendThrows, FailUnsynced
  <2>3. QED
    BY <1>2, <2>1, <2>2 DEF TypeOK, AppendThrows, MaxCrashes
<1>3. ASSUME SyncWal, UNCHANGED scenario PROVE TypeOK'
  <2>1. pend' \in [Keys -> [val : Contents, stage : {"none", "written", "synced"}]]
    BY ZenonT(60), ZenonT(90), <1>3 DEF TypeOK, SyncWal
  <2>2. QED
    BY <1>3, <2>1 DEF TypeOK, SyncWal, MaxCrashes, bounds
<1>4. ASSUME SyncThrows, UNCHANGED scenario PROVE TypeOK'
  <2>1. pend' \in [Keys -> [val : Contents, stage : {"none", "written", "synced"}]]
    BY <1>4 DEF TypeOK, SyncThrows, FailUnsynced
  <2>2. QED
    BY <1>4, <2>1 DEF TypeOK, SyncThrows, MaxCrashes, bounds, files
<1>5. ASSUME NEW k \in Keys, Acknowledge(k), UNCHANGED scenario PROVE TypeOK'
  <2>1. pend' \in [Keys -> [val : Contents, stage : {"none", "written", "synced"}]]
    BY <1>5 DEF TypeOK, Acknowledge
  <2>2. mem' \in [Keys -> Contents]
    BY <1>5 DEF TypeOK, Acknowledge
  <2>3. allowed' \in [Keys -> SUBSET Contents]
    BY <1>5 DEF TypeOK, Acknowledge
  <2>4. QED
    BY <1>5, <2>1, <2>2, <2>3 DEF TypeOK, Acknowledge, MaxCrashes, bounds, files
<1>6. ASSUME ClearMemory, UNCHANGED scenario PROVE TypeOK'
  BY <1>6 DEF TypeOK, ClearMemory, MaxCrashes, bounds, files
<1>7. ASSUME NEW o \in Jobs, Capture(o), UNCHANGED scenario PROVE TypeOK'
  <2>1. job' \in JobType
    BY <1>7
       DEF TypeOK, Capture, JobType, Begin, CaptureOffset, CurrentOffset, SaveJobs,
           JobNames
  <2>2. QED
    BY <1>7, <2>1 DEF TypeOK, Capture, MaxCrashes, JobType, bounds, files
<1>8. ASSUME CaptureThrows, UNCHANGED scenario PROVE TypeOK'
  BY <1>8 DEF TypeOK, CaptureThrows, MaxCrashes, bounds, files
<1>9. ASSUME BeginClear, UNCHANGED scenario PROVE TypeOK'
  <2>1. job' \in JobType
    BY ZenonT(60), ZenonT(90), <1>9 DEF TypeOK, BeginClear, JobType, Idle, JobNames
  <2>2. QED
    BY <1>9, <2>1 DEF TypeOK, BeginClear, MaxCrashes, JobType, bounds, files
<1>10. ASSUME TempWrite, UNCHANGED scenario PROVE TypeOK'
  <2>1. job' \in JobType
    BY ZenonT(60), ZenonT(90), <1>10 DEF TypeOK, TempWrite, JobType
  <2>2. QED
    BY ZenonT(60), ZenonT(90), <1>10, <2>1 DEF TypeOK, TempWrite, MaxCrashes, JobType, bounds, files
<1>11. ASSUME TempSync, UNCHANGED scenario PROVE TypeOK'
  <2>1. job' \in JobType
    BY ZenonT(60), ZenonT(90), <1>11 DEF TypeOK, TempSync, JobType
  <2>2. QED
    BY <1>11, <2>1 DEF TypeOK, TempSync, MaxCrashes, JobType, bounds, files
<1>12. ASSUME Rename, UNCHANGED scenario PROVE TypeOK'
  <2>1. job' \in JobType
    BY ZenonT(60), ZenonT(90), <1>12 DEF TypeOK, Rename, JobType
  <2>2. snap' \in SnapshotFiles
    BY <1>12 DEF TypeOK, Rename, JobType, SnapshotFiles
  <2>3. QED
    BY ZenonT(60), ZenonT(90), <1>12, <2>1, <2>2 DEF TypeOK, Rename, MaxCrashes, JobType, bounds
<1>13. ASSUME DirSync, UNCHANGED scenario PROVE TypeOK'
  <2>1. job' \in JobType
    BY ZenonT(60), ZenonT(90), <1>13 DEF TypeOK, DirSync, JobType, AfterSave
  <2>2. QED
    BY <1>13, <2>1 DEF TypeOK, DirSync, MaxCrashes, JobType, bounds
<1>14. ASSUME Truncate, UNCHANGED scenario PROVE TypeOK'
  <2>1. job' \in JobType
    BY ZenonT(60), ZenonT(90), <1>14 DEF TypeOK, Truncate, JobType
  <2>2. allowed' \in [Keys -> SUBSET Contents]
    BY <1>14 DEF TypeOK, Truncate, SnapshotFiles
  <2>3. failure_' \in {"none", "stream", "sync"}
    BY <1>14 DEF TypeOK, Truncate
  <2>4. QED
    BY ZenonT(60), ZenonT(90), <1>14, <2>1, <2>2, <2>3
       DEF TypeOK, Truncate, MaxCrashes, JobType, bounds
<1>15. ASSUME TruncateSync, UNCHANGED scenario PROVE TypeOK'
  <2>1. job' \in JobType
    BY ZenonT(60), ZenonT(90), <1>15 DEF TypeOK, TruncateSync, JobType
  <2>2. QED
    BY ZenonT(60), ZenonT(90), <1>15, <2>1 DEF TypeOK, TruncateSync, MaxCrashes, JobType, bounds
<1>16. ASSUME Remove, UNCHANGED scenario PROVE TypeOK'
  <2>1. job' \in JobType
    BY <1>16 DEF TypeOK, Remove, JobType
  <2>2. QED
    BY ZenonT(60), ZenonT(90), <1>16, <2>1 DEF TypeOK, Remove, MaxCrashes, JobType, bounds
<1>17. ASSUME RemoveSync, UNCHANGED scenario PROVE TypeOK'
  <2>1. job' \in JobType
    BY <1>17 DEF TypeOK, RemoveSync, JobType
  <2>2. QED
    BY <1>17, <2>1 DEF TypeOK, RemoveSync, MaxCrashes, JobType, bounds
<1>18. ASSUME JobThrows, UNCHANGED scenario PROVE TypeOK'
  <2>1. job' \in JobType
    BY <1>18 DEF TypeOK, JobThrows, JobType
  <2>2. QED
    BY <1>18, <2>1 DEF TypeOK, JobThrows, MaxCrashes, JobType, bounds, files
<1>19. ASSUME Crash, UNCHANGED scenario PROVE TypeOK'
  <2>1. pend' \in [Keys -> [val : Contents, stage : {"none", "written", "synced"}]]
    BY <1>19 DEF ProcessEnds, Crash
  <2>2. crashes' \in 0..MaxCrashes /\ records' = records
    BY <1>19 DEF TypeOK, ProcessEnds, Crash
  <2>3. QED
    BY ZenonT(60), ZenonT(90), <1>19, <2>1, <2>2
       DEF TypeOK, Crash, MaxCrashes, ProcessEnds, files, JobType
<1>20. ASSUME PowerLoss, UNCHANGED scenario PROVE TypeOK'
  <2>1. pend' \in [Keys -> [val : Contents, stage : {"none", "written", "synced"}]]
    BY <1>20 DEF ProcessEnds, PowerLoss
  <2>2. crashes' \in 0..MaxCrashes /\ records' = records
    BY <1>20 DEF TypeOK, ProcessEnds, PowerLoss
  <2>3. wal' \in Seq(WalFrames) /\ walDurable' \in Seq(WalFrames)
    BY <1>20, LossType DEF TypeOK, PowerLoss
  <2>4. snap' \in SnapshotFiles /\ snapDurable' \in SnapshotFiles
    BY <1>20 DEF TypeOK, PowerLoss, Settled, SnapshotFiles
  <2>5. allowed' \in [Keys -> SUBSET Contents]
    BY <1>20 DEF TypeOK, PowerLoss
  <2>6. QED
    BY ZenonT(60), ZenonT(90), <1>20, <2>1, <2>2, <2>3, <2>4, <2>5
       DEF TypeOK, PowerLoss, MaxCrashes, ProcessEnds, JobType
<1>21. ASSUME OpenWal, UNCHANGED scenario PROVE TypeOK'
  BY <1>21 DEF TypeOK, OpenWal, MaxCrashes, bounds, files
<1>22. ASSUME LoadSnapshot, UNCHANGED scenario PROVE TypeOK'
  BY <1>22 DEF TypeOK, LoadSnapshot, MaxCrashes, bounds, files, SnapshotFiles
<1>23. ASSUME ReplayFromWal, UNCHANGED scenario PROVE TypeOK'
  <2>1. \A k \in Keys : mem'[k] \in Contents
    <3>1. SUFFICES ASSUME NEW k \in Keys PROVE mem'[k] \in Contents
      OBVIOUS
    <3>2. mem'[k] = Value(wal, off, mem[k], k)
      BY ZenonT(60), ZenonT(90), <1>23, ReplayIsValue DEF ReplayFromWal
    <3>3. mem[k] \in Contents /\ wal \in Seq(WalFrames) /\ off \in Nat
      BY DEF TypeOK
    <3>4. QED
      BY <3>2, <3>3, ValueType
  <2>2. mem' \in [Keys -> Contents]
    BY <1>23, <2>1 DEF ReplayFromWal, Replay
  <2>3. QED
    BY <1>23, <2>1, <2>2 DEF TypeOK, ReplayFromWal, MaxCrashes, bounds, files
<1>24. ASSUME TruncateTail, UNCHANGED scenario PROVE TypeOK'
  <2> DEFINE good == off + Cardinality(Reached(wal, off))
  <2>1. good \in 0..Len(wal)
    <3>1. wal \in Seq(WalFrames) /\ off \in Nat
      BY DEF TypeOK
    <3>2. good < Len(wal)
      BY <1>24 DEF TruncateTail
    <3>3. Cardinality(Reached(wal, off)) \in Nat
      BY <3>1, ReachedCount
    <3>4. QED
      BY <3>1, <3>2, <3>3
  <2>2. wal' \in Seq(WalFrames)
    <3>1. wal' = SubSeq(wal, 1, good)
      BY <1>24 DEF TruncateTail
    <3> HIDE DEF good
    <3>2. QED
      BY <2>1, <3>1, PrefixFacts DEF TypeOK
  <2>3. QED
    BY ZenonT(60), ZenonT(90), <1>24, <2>2 DEF TypeOK, TruncateTail, MaxCrashes, bounds
<1>25. CASE UNCHANGED vars
  BY <1>25 DEF TypeOK, vars, MaxCrashes
<1>26. QED
  BY <1>1, <1>2, <1>3, <1>4, <1>5, <1>6, <1>7, <1>8, <1>9, <1>10, <1>11, <1>12,
     <1>13, <1>14, <1>15, <1>16, <1>17, <1>18, <1>19, <1>20, <1>21, <1>22, <1>23,
     <1>24, <1>25
     DEF Next, Step
LEMMA TypeInit == Init => TypeOK
<1> SUFFICES ASSUME Init PROVE TypeOK
  OBVIOUS
<1>1. MaxCrashes \in Nat /\ MaxRecords \in Nat
  BY RecoveryAssumption DEF Init, ScenarioType, MaxCrashes
<1>2. allowed \in [Keys -> SUBSET Contents]
  BY ConstantTypes DEF Init
<1>3. job \in JobType
  BY IdleType DEF Init
<1>4. pend \in [Keys -> [val : Contents, stage : {"none", "written", "synced"}]]
  BY ConstantTypes DEF Init
<1>5. /\ mem \in [Keys -> Contents]
      /\ wal \in Seq(WalFrames) /\ walDurable \in Seq(WalFrames)
      /\ snap \in SnapshotFiles /\ snapDurable \in SnapshotFiles
  BY ConstantTypes DEF Init
<1>6. records \in 0..MaxRecords /\ crashes \in 0..MaxCrashes /\ off \in Nat
  BY <1>1 DEF Init
<1>7. QED
  BY ZenonT(60), ZenonT(90), <1>2, <1>3, <1>4, <1>5, <1>6 DEF Init, TypeOK, JobType

(* Type correctness, for every setting.                                    *)
THEOREM RecoveryTypeCorrect == Spec => []TypeOK
BY TypeInit, TypeStep, PTL DEF Spec

------------------------------------------------------------------------------
(* The snapshot file.                                                      *)

ReadableOk ==
  /\ snap.state \in {"missing", "whole"} /\ snapDurable.state \in {"missing", "whole"}
  /\ job.step = "rename" => job.synced

(* Only a synced temporary file is renamed, so a snapshot that has a name  *)
(* is whole.                                                               *)
LEMMA ReadableStep ==
  ASSUME TypeOK, ReadableOk, [Next]_vars
  PROVE  ReadableOk'
<1>1. ASSUME NEW k, NEW v, AppendToWal(k, v) PROVE ReadableOk'
  BY <1>1 DEF TypeOK, ReadableOk, AppendToWal
<1>2. ASSUME NEW k, NEW v, AppendThrows(k, v) PROVE ReadableOk'
  BY <1>2 DEF TypeOK, ReadableOk, AppendThrows
<1>3. ASSUME SyncWal PROVE ReadableOk'
  BY <1>3 DEF TypeOK, ReadableOk, SyncWal
<1>4. ASSUME SyncThrows PROVE ReadableOk'
  BY <1>4 DEF TypeOK, ReadableOk, SyncThrows, files
<1>5. ASSUME NEW k, Acknowledge(k) PROVE ReadableOk'
  BY <1>5 DEF TypeOK, ReadableOk, Acknowledge, files
<1>6. ASSUME ClearMemory PROVE ReadableOk'
  BY <1>6 DEF TypeOK, ReadableOk, ClearMemory, files
<1>7. ASSUME NEW o, Capture(o) PROVE ReadableOk'
  BY <1>7 DEF TypeOK, ReadableOk, Capture, files
<1>8. ASSUME CaptureThrows PROVE ReadableOk'
  BY <1>8 DEF TypeOK, ReadableOk, CaptureThrows, files
<1>9. ASSUME BeginClear PROVE ReadableOk'
  BY <1>9 DEF TypeOK, ReadableOk, BeginClear, files, Idle
<1>10. ASSUME TempWrite PROVE ReadableOk'
  BY <1>10 DEF TypeOK, ReadableOk, TempWrite, files
<1>11. ASSUME TempSync PROVE ReadableOk'
  BY <1>11 DEF TypeOK, ReadableOk, TempSync, files
<1>12. ASSUME Rename PROVE ReadableOk'
  BY <1>12 DEF TypeOK, ReadableOk, Rename, At
<1>13. ASSUME DirSync PROVE ReadableOk'
  BY <1>13 DEF TypeOK, ReadableOk, DirSync, AfterSave, Idle
<1>14. ASSUME Truncate PROVE ReadableOk'
  BY <1>14 DEF TypeOK, ReadableOk, Truncate
<1>15. ASSUME TruncateSync PROVE ReadableOk'
  BY <1>15 DEF TypeOK, ReadableOk, TruncateSync, Idle
<1>16. ASSUME Remove PROVE ReadableOk'
  BY <1>16 DEF TypeOK, ReadableOk, Remove, NoFile
<1>17. ASSUME RemoveSync PROVE ReadableOk'
  BY <1>17 DEF TypeOK, ReadableOk, RemoveSync, Idle
<1>18. ASSUME JobThrows PROVE ReadableOk'
  BY <1>18 DEF TypeOK, ReadableOk, JobThrows, files, Idle
<1>19. ASSUME Crash PROVE ReadableOk'
  BY <1>19 DEF TypeOK, ReadableOk, Crash, ProcessEnds, files, Idle
<1>20. ASSUME PowerLoss PROVE ReadableOk'
  BY <1>20 DEF TypeOK, ReadableOk, PowerLoss, ProcessEnds, Settled, Idle
<1>21. ASSUME OpenWal PROVE ReadableOk'
  BY <1>21 DEF TypeOK, ReadableOk, OpenWal, files
<1>22. ASSUME LoadSnapshot PROVE ReadableOk'
  BY <1>22 DEF TypeOK, ReadableOk, LoadSnapshot, files
<1>23. ASSUME ReplayFromWal PROVE ReadableOk'
  BY <1>23 DEF TypeOK, ReadableOk, ReplayFromWal, files
<1>24. ASSUME TruncateTail PROVE ReadableOk'
  BY <1>24 DEF TypeOK, ReadableOk, TruncateTail
<1>25. CASE UNCHANGED vars
  BY <1>25 DEF ReadableOk, vars
<1>26. QED
  BY <1>1, <1>2, <1>3, <1>4, <1>5, <1>6, <1>7, <1>8, <1>9, <1>10, <1>11, <1>12,
     <1>13, <1>14, <1>15, <1>16, <1>17, <1>18, <1>19, <1>20, <1>21, <1>22, <1>23,
     <1>24, <1>25
     DEF Next, Step

(* No crash leaves a snapshot that Load cannot read, whatever the policy   *)
(* of the log and whatever fails.                                          *)
THEOREM SnapshotAlwaysReadable == Spec => []SnapshotReadable
<1>1. Init => ReadableOk
  BY DEF Init, ReadableOk, NoFile, Idle
<1>2. ReadableOk => SnapshotReadable
  BY DEF ReadableOk, SnapshotReadable
<1>3. QED
  BY <1>1, <1>2, TypeInit, TypeStep, ReadableStep, PTL DEF Spec

------------------------------------------------------------------------------
(* The inductive invariant behind the guarantees of RecoverySafety.         *)

(* Recovery of k from the value x at offset o does no harm, when the log   *)
(* reads w, a start may find the logs P, the history allows the contents   *)
(* a, and p is the write in progress: what it finds is allowed, it finds   *)
(* the write, and it does so in every possible log once that is synced.    *)
Good(P, w, a, p, k, x, o) ==
  /\ \A u \in P : Value(u, o, x, k) \in a
  /\ p.stage # "none" => Value(w, o, x, k) = p.val
  /\ p.stage = "synced" => \A u \in P : Value(u, o, x, k) = p.val

KeyOk(k, x, o) == Good(PossibleWals, wal, allowed[k], pend[k], k, x, o)

(* The offset lies in every possible log.                                  *)
Within(P, o) == \A u \in P : o <= Len(u)
OffsetOk(o) == Within(PossibleWals, o)

Saving == job.step \in {"temp", "tempsync", "rename"}
Wiping == job.op = "ClearPersistence" /\ job.step # "truncate"

JobOk ==
  /\ up # "running" => job = Idle /\ \A k \in Keys : pend[k] = NoWrite
  /\ job.op = "none" <=> job.step = "none"
  /\ job.op = "none" => job = Idle
  /\ Saving \/ job.step = "dirsync" => job.op \in SaveJobs
  /\ job.step \in {"truncate", "truncsync"} => job.op \in {"CompactPersistence", "ClearPersistence"}
  /\ job.step \in {"remove", "removesync"} => job.op = "ClearPersistence"
  /\ WholeStoreLocked => \A k \in Keys : pend[k] = NoWrite
  /\ job.op = "CompactPersistence" =>
       /\ job.off = 0
       /\ \A k \in Keys : job.data[k] \in allowed[k]
       /\ ~Saving => snap.data = job.data /\ snap.off = 0
       /\ ~Saving /\ job.step # "dirsync" => (Power => snapDurable = snap)
  /\ Wiping => /\ wal = <<>>
               /\ \A k \in Keys : Absent \in allowed[k]
               /\ job.step = "removesync" => snap = NoFile

TornOk ==
  /\ TornLast(wal) /\ TornLast(walDurable)
  /\ up # "down" /\ failure_ # "stream" /\ ~needs_recovery_ => Clean(wal)
  /\ up # "running" => failure_ = "none"

MemOk ==
  /\ up = "loaded" => mem = snap.data /\ off = snap.off
  /\ up = "running" => \A k \in Keys : mem[k] \in allowed[k]

(* While nothing is in flight no frame is waiting for a sync.              *)
SyncedUp ==
  /\ Power /\ failure_ # "stream" /\ (\A k \in Keys : pend[k].stage # "written") =>
       wal = walDurable \/ wal = <<>>
  /\ Power /\ up # "running" => wal = walDurable /\ snap = snapDurable

SourcesOk ==
  /\ \A k \in Keys : KeyOk(k, snap.data[k], snap.off)
  /\ Power => \A k \in Keys : KeyOk(k, snapDurable.data[k], snapDurable.off)
  /\ Saving => \A k \in Keys : KeyOk(k, job.data[k], job.off)
  /\ \A k \in Keys : \A x \in allowed[k] : KeyOk(k, x, 0)

OffsetsOk ==
  /\ ~Wiping => OffsetOk(snap.off) /\ (Power => OffsetOk(snapDurable.off))
  /\ Saving => OffsetOk(job.off)

IInv ==
  /\ TypeOK /\ Promised(scenario)
  /\ JobOk /\ ReadableOk /\ TornOk /\ MemOk /\ SyncedUp /\ SourcesOk /\ OffsetsOk

------------------------------------------------------------------------------
(* The possible logs.                                                      *)

LEMMA PossibleFacts ==
  ASSUME TypeOK
  PROVE  /\ PossibleWals \subseteq Seq(WalFrames)
         /\ wal \in PossibleWals
         /\ Power => walDurable \in PossibleWals
         /\ wal = walDurable => PossibleWals = {wal}
<1>1. wal \in Seq(WalFrames) /\ walDurable \in Seq(WalFrames)
  BY DEF TypeOK
<1>2. QED
  BY <1>1, LossType, LossKeeps, LossSynced DEF PossibleWals

LEMMA PossibleSame ==
  ASSUME UNCHANGED <<scenario, wal, walDurable>>
  PROVE  PossibleWals' = PossibleWals
BY DEF PossibleWals, Power, Faults

(* After an append: the earlier logs, the new one, and its torn form.      *)
LEMMA PossibleAppend ==
  ASSUME TypeOK, NEW r \in WalFrames, wal' = Append(wal, r),
         UNCHANGED <<scenario, walDurable>>
  PROVE  \A u \in PossibleWals' :
           u \in PossibleWals \/ u = wal' \/ u = Append(wal, Torn)
<1>1. wal \in Seq(WalFrames) /\ walDurable \in Seq(WalFrames)
  BY DEF TypeOK
<1>2. PossibleWals' = IF Power THEN AfterPowerLoss(walDurable, wal') ELSE {wal'}
  BY DEF PossibleWals, Power, Faults
<1>3. QED
  BY <1>1, <1>2, LossAppend DEF PossibleWals

(* After a sync or a power loss only the log that is read.                 *)
LEMMA PossibleSynced ==
  ASSUME TypeOK', Power => walDurable' = wal', UNCHANGED scenario
  PROVE  PossibleWals' = {wal'}
<1>1. wal' \in Seq(WalFrames)
  BY DEF TypeOK
<1>2. PossibleWals' = IF Power THEN AfterPowerLoss(walDurable', wal') ELSE {wal'}
  BY DEF PossibleWals, Power, Faults
<1>3. QED
  BY <1>1, <1>2, LossSynced

(* After a truncation nothing, or what was last synced.                    *)
LEMMA PossibleTruncated ==
  ASSUME TypeOK, wal' = <<>>, UNCHANGED <<scenario, walDurable>>
  PROVE  \A u \in PossibleWals' : u = <<>> \/ u \in PossibleWals
<1>1. wal \in Seq(WalFrames) /\ walDurable \in Seq(WalFrames)
  BY DEF TypeOK
<1>2. PossibleWals' = IF Power THEN AfterPowerLoss(walDurable, <<>>) ELSE {<<>>}
  BY DEF PossibleWals, Power, Faults
<1>3. QED
  BY <1>1, <1>2, LossEmpty, PossibleFacts

------------------------------------------------------------------------------
(* Its control part: jobs, torn frames, memory, syncs.                     *)

LEMMA NotWiping ==
  ASSUME TypeOK, JobOk
  PROVE  /\ job = Idle => ~Wiping /\ ~Saving
         /\ up # "running" => ~Wiping /\ ~Saving
         /\ Saving \/ job.step = "dirsync" => ~Wiping
         /\ (\E k \in Keys : pend[k].stage # "none") => ~Wiping
<1>1. job = Idle => ~Wiping /\ ~Saving
  BY DEF Wiping, Saving, Idle
<1>2. up # "running" => ~Wiping /\ ~Saving
  BY <1>1 DEF JobOk
<1>3. Saving \/ job.step = "dirsync" => ~Wiping
  BY DEF JobOk, Wiping, SaveJobs
<1>4. (\E k \in Keys : pend[k].stage # "none") => ~Wiping
  BY DEF JobOk, Wiping, WholeStoreLocked, JobNames, NoWrite
<1>5. QED
  BY <1>1, <1>2, <1>3, <1>4

(* A tail that replay does not get through is one torn frame, past the     *)
(* offset of the snapshot.                                                 *)
LEMMA TailIsTorn ==
  ASSUME IInv, TruncateTail
  PROVE  /\ Len(wal) - 1 \in 0..Len(wal) /\ off <= Len(wal) - 1
         /\ wal' = SubSeq(wal, 1, Len(wal) - 1)
         /\ wal = Append(wal', Torn)
<1> USE DEF IInv
<1>1. wal \in Seq(WalFrames) /\ off \in Nat /\ TornLast(wal)
  BY DEF TypeOK, TornOk
<1>2. /\ off = snap.off /\ up = "loaded" /\ off + Cardinality(Reached(wal, off)) < Len(wal)
      /\ wal' = SubSeq(wal, 1, off + Cardinality(Reached(wal, off)))
  BY DEF TruncateTail, MemOk
<1>3. off <= Len(wal)
  <2>1. ~Wiping
    BY <1>2, NotWiping
  <2>2. QED
    BY <1>2, <2>1, PossibleFacts DEF OffsetsOk, OffsetOk, Within
<1>4. QED
  BY ZenonT(60), ZenonT(90), <1>1, <1>2, <1>3, TornTail

(* A store without a job, and writes only while it runs.                   *)
LEMMA JobIdle ==
  ASSUME job' = Idle, up' # "running" => \A k \in Keys : pend'[k] = NoWrite
  PROVE  JobOk'
BY DEF JobOk, Saving, Wiping, WholeStoreLocked, JobNames, SaveJobs, Idle

LEMMA JobFrame ==
  ASSUME JobOk, UNCHANGED <<scenario, up, pend, job, snap, snapDurable, wal, allowed>>
  PROVE  JobOk'
BY DEF JobOk, Saving, Wiping, WholeStoreLocked, Power, Faults

(* A job passes through its steps with the files it left behind.           *)
LEMMA JobStep ==
  ASSUME IInv, TypeOK', [Next]_vars
  PROVE  JobOk'
<1> USE DEF IInv
<1>1. ASSUME NEW k \in Keys, NEW v \in Contents, AppendToWal(k, v), UNCHANGED scenario
      PROVE  JobOk'
  BY ZenonT(60), ZenonT(90), <1>1
     DEF JobOk, Saving, Wiping, Power, Faults, WholeStoreLocked, JobNames, SaveJobs,
         TypeOK, AppendToWal, ShardFree, NoWrite
<1>2. ASSUME NEW k \in Keys, NEW v \in Contents, AppendThrows(k, v), UNCHANGED scenario
      PROVE  JobOk'
  BY ZenonT(60), ZenonT(90), <1>2
     DEF JobOk, Saving, Wiping, Power, Faults, WholeStoreLocked, JobNames, SaveJobs,
         TypeOK, AppendThrows, ShardFree, FailUnsynced, NoWrite
<1>3. ASSUME SyncWal, UNCHANGED scenario PROVE JobOk'
  BY <1>3
     DEF JobOk, Saving, Wiping, Power, Faults, WholeStoreLocked, JobNames, SaveJobs,
         TypeOK, SyncWal, Unsynced, NoWrite
<1>4. ASSUME SyncThrows, UNCHANGED scenario PROVE JobOk'
  BY ZenonT(60), ZenonT(90), <1>4
     DEF JobOk, Saving, Wiping, Power, Faults, WholeStoreLocked, JobNames, SaveJobs,
         TypeOK, SyncThrows, FailUnsynced, NoWrite, files
<1>5. ASSUME NEW k \in Keys, Acknowledge(k), UNCHANGED scenario PROVE JobOk'
  BY ZenonT(60), ZenonT(90), <1>5
     DEF JobOk, Saving, Wiping, Power, Faults, WholeStoreLocked, JobNames, SaveJobs,
         TypeOK, Acknowledge, NoWrite, files
<1>6. ASSUME ClearMemory, UNCHANGED scenario PROVE JobOk'
  BY ZenonT(60), ZenonT(90), <1>6
     DEF JobOk, Saving, Wiping, Power, Faults, WholeStoreLocked, JobNames, SaveJobs,
         TypeOK, ClearMemory, files
<1>7. ASSUME NEW o \in Jobs, Capture(o), UNCHANGED scenario PROVE JobOk'
  BY ZenonT(60), ZenonT(90), <1>7
     DEF JobOk, Saving, Wiping, Power, Faults, WholeStoreLocked, JobNames, SaveJobs,
         TypeOK, Capture, Begin, AllShardsFree, CaptureOffset, MemOk, Idle, files
<1>8. ASSUME CaptureThrows, UNCHANGED scenario PROVE JobOk'
  BY <1>8, JobFrame DEF CaptureThrows, files
<1>9. ASSUME BeginClear, UNCHANGED scenario PROVE JobOk'
  BY <1>9
     DEF JobOk, Saving, Wiping, Power, Faults, WholeStoreLocked, JobNames, SaveJobs,
         TypeOK, BeginClear, Begin, AllShardsFree, Idle, files
<1>10. ASSUME TempWrite, UNCHANGED scenario PROVE JobOk'
  BY <1>10
     DEF JobOk, Saving, Wiping, Power, Faults, WholeStoreLocked, JobNames, SaveJobs,
         TypeOK, TempWrite, At, Idle, files
<1>11. ASSUME TempSync, UNCHANGED scenario PROVE JobOk'
  BY <1>11
     DEF JobOk, Saving, Wiping, Power, Faults, WholeStoreLocked, JobNames, SaveJobs,
         TypeOK, TempSync, At, Idle, files
<1>12. ASSUME Rename, UNCHANGED scenario PROVE JobOk'
  BY <1>12
     DEF JobOk, Saving, Wiping, Power, Faults, WholeStoreLocked, JobNames, SaveJobs,
         TypeOK, Rename, At, Idle
<1>13. ASSUME DirSync, UNCHANGED scenario PROVE JobOk'
  BY <1>13
     DEF JobOk, Saving, Wiping, Power, Faults, WholeStoreLocked, JobNames, SaveJobs,
         TypeOK, DirSync, At, AfterSave, Idle
<1>14. ASSUME Truncate, UNCHANGED scenario PROVE JobOk'
  BY <1>14
     DEF JobOk, Saving, Wiping, Power, Faults, WholeStoreLocked, JobNames, SaveJobs,
         TypeOK, Truncate, At, Idle
<1>15. ASSUME TruncateSync, UNCHANGED scenario PROVE JobOk'
  BY <1>15
     DEF JobOk, Saving, Wiping, Power, Faults, WholeStoreLocked, JobNames, SaveJobs,
         TypeOK, TruncateSync, At, Idle
<1>16. ASSUME Remove, UNCHANGED scenario PROVE JobOk'
  BY <1>16
     DEF JobOk, Saving, Wiping, Power, Faults, WholeStoreLocked, JobNames, SaveJobs,
         TypeOK, Remove, At, Idle
<1>17. ASSUME RemoveSync, UNCHANGED scenario PROVE JobOk'
  BY <1>17, JobIdle DEF RemoveSync, At
<1>18. ASSUME JobThrows, UNCHANGED scenario PROVE JobOk'
  BY <1>18, JobIdle DEF JobThrows
<1>19. ASSUME Crash, UNCHANGED scenario PROVE JobOk'
  BY <1>19, JobIdle DEF Crash, ProcessEnds
<1>20. ASSUME PowerLoss, UNCHANGED scenario PROVE JobOk'
  BY <1>20, JobIdle DEF PowerLoss, ProcessEnds
<1>21. ASSUME OpenWal, UNCHANGED scenario PROVE JobOk'
  BY <1>21, JobIdle DEF OpenWal, JobOk
<1>22. ASSUME LoadSnapshot, UNCHANGED scenario PROVE JobOk'
  BY ZenonT(60), ZenonT(90), <1>22, JobIdle DEF LoadSnapshot, JobOk
<1>23. ASSUME ReplayFromWal, UNCHANGED scenario PROVE JobOk'
  BY ZenonT(60), ZenonT(90), <1>23, JobIdle DEF ReplayFromWal, JobOk
<1>24. ASSUME TruncateTail, UNCHANGED scenario PROVE JobOk'
  BY ZenonT(60), ZenonT(90), <1>24, JobIdle DEF TruncateTail, JobOk
<1>25. CASE UNCHANGED vars
  BY <1>25, JobFrame DEF vars
<1>26. QED
  BY <1>1, <1>2, <1>3, <1>4, <1>5, <1>6, <1>7, <1>8, <1>9, <1>10, <1>11, <1>12,
     <1>13, <1>14, <1>15, <1>16, <1>17, <1>18, <1>19, <1>20, <1>21, <1>22, <1>23, <1>24,
     <1>25 DEF Next, Step

LEMMA TornFrame ==
  ASSUME TornOk, UNCHANGED <<wal, walDurable, up, failure_, needs_recovery_>>
  PROVE  TornOk'
BY DEF TornOk

(* Only the last frame is ever torn, and nothing is appended to one.       *)
LEMMA TornStep ==
  ASSUME IInv, TypeOK', [Next]_vars
  PROVE  TornOk'
<1> USE DEF IInv
<1>1. ASSUME NEW k \in Keys, NEW v \in Contents, AppendToWal(k, v), UNCHANGED scenario
      PROVE  TornOk'
  <2>1. wal \in Seq(WalFrames) /\ wal' = Append(wal, Record(k, v)) /\ Clean(wal)
    BY <1>1 DEF TornOk, AppendToWal, ShardFree, AppendAllowed, TypeOK
  <2>2. Record(k, v) # Torn
    BY RecoveryAssumption DEF Record, Torn
  <2>3. Clean(wal') /\ TornLast(wal')
    BY <2>1, <2>2 DEF Clean, TornLast
  <2>4. QED
    BY <1>1, <2>3 DEF TornOk, AppendToWal
<1>2. ASSUME NEW k \in Keys, NEW v \in Contents, AppendThrows(k, v), UNCHANGED scenario
      PROVE  TornOk'
  <2>1. wal \in Seq(WalFrames) /\ (wal' = wal \/ wal' = Append(wal, Torn)) /\ Clean(wal) /\ up = "running"
    BY <1>2 DEF TornOk, AppendThrows, ShardFree, AppendAllowed, TypeOK
  <2>2. TornLast(wal')
    <3>1. TornLast(Append(wal, Torn))
      BY <2>1 DEF Clean, TornLast
    <3>2. QED
      BY ZenonT(60), ZenonT(90), <2>1, <3>1 DEF TornOk
  <2>3. QED
    BY <1>2, <2>1, <2>2 DEF TornOk, AppendThrows
<1>3. ASSUME SyncWal, UNCHANGED scenario PROVE TornOk'
  BY <1>3 DEF TornOk, SyncWal
<1>4. ASSUME SyncThrows, UNCHANGED scenario PROVE TornOk'
  BY <1>4 DEF TornOk, SyncThrows, files
<1>5. ASSUME NEW k \in Keys, Acknowledge(k), UNCHANGED scenario PROVE TornOk'
  BY <1>5, TornFrame DEF Acknowledge, files
<1>6. ASSUME ClearMemory, UNCHANGED scenario PROVE TornOk'
  BY <1>6, TornFrame DEF ClearMemory, files
<1>7. ASSUME NEW o \in Jobs, Capture(o), UNCHANGED scenario PROVE TornOk'
  BY <1>7, TornFrame DEF Capture, files
<1>8. ASSUME CaptureThrows, UNCHANGED scenario PROVE TornOk'
  BY <1>8, TornFrame DEF CaptureThrows, files
<1>9. ASSUME BeginClear, UNCHANGED scenario PROVE TornOk'
  BY <1>9, TornFrame DEF BeginClear, files
<1>10. ASSUME TempWrite, UNCHANGED scenario PROVE TornOk'
  BY <1>10, TornFrame DEF TempWrite, files
<1>11. ASSUME TempSync, UNCHANGED scenario PROVE TornOk'
  BY <1>11, TornFrame DEF TempSync, files
<1>12. ASSUME Rename, UNCHANGED scenario PROVE TornOk'
  BY <1>12, TornFrame DEF Rename
<1>13. ASSUME DirSync, UNCHANGED scenario PROVE TornOk'
  BY <1>13, TornFrame DEF DirSync
<1>14. ASSUME Truncate, UNCHANGED scenario PROVE TornOk'
  BY <1>14 DEF TornOk, Truncate, At, TornLast, Clean
<1>15. ASSUME TruncateSync, UNCHANGED scenario PROVE TornOk'
  BY <1>15 DEF TornOk, TruncateSync
<1>16. ASSUME Remove, UNCHANGED scenario PROVE TornOk'
  BY <1>16, TornFrame DEF Remove
<1>17. ASSUME RemoveSync, UNCHANGED scenario PROVE TornOk'
  BY <1>17, TornFrame DEF RemoveSync
<1>18. ASSUME JobThrows, UNCHANGED scenario PROVE TornOk'
  BY <1>18, TornFrame DEF JobThrows, files
<1>19. ASSUME Crash, UNCHANGED scenario PROVE TornOk'
  BY <1>19 DEF TornOk, Crash, files, ProcessEnds
<1>20. ASSUME PowerLoss, UNCHANGED scenario PROVE TornOk'
  <2>1. \A w \in AfterPowerLoss(walDurable, wal) : TornLast(w)
    BY LossTornLast DEF TornOk, TypeOK
  <2>2. TornLast(wal') /\ TornLast(walDurable')
    BY <1>20, <2>1 DEF PowerLoss
  <2>3. QED
    BY <1>20, <2>2 DEF TornOk, PowerLoss, ProcessEnds
<1>21. ASSUME OpenWal, UNCHANGED scenario PROVE TornOk'
  <2>1. ~needs_recovery_' => Clean(wal)
    <3>1. SUFFICES ASSUME ~needs_recovery_', NEW i \in 1..Len(wal) PROVE wal[i] # Torn
      BY DEF Clean
    <3>2. i \in Reached(wal, 0)
      BY ZenonT(60), ZenonT(90), <1>21, <3>1 DEF OpenWal
    <3>3. i \in (0 + 1)..i
      BY <3>2 DEF Reached
    <3>4. QED
      BY <3>2, <3>3 DEF Reached
  <2>2. UNCHANGED <<wal, walDurable, failure_>> /\ up = "down" /\ up' = "open"
    BY <1>21 DEF OpenWal, files
  <2>3. QED
    BY <2>1, <2>2 DEF TornOk
<1>22. ASSUME LoadSnapshot, UNCHANGED scenario PROVE TornOk'
  BY <1>22 DEF TornOk, LoadSnapshot, files
<1>23. ASSUME ReplayFromWal, UNCHANGED scenario PROVE TornOk'
  BY <1>23 DEF TornOk, ReplayFromWal, files
<1>24. ASSUME TruncateTail, UNCHANGED scenario PROVE TornOk'
  <2>1. wal \in Seq(WalFrames) /\ Len(wal) - 1 \in 0..Len(wal) /\ wal' = SubSeq(wal, 1, Len(wal) - 1)
    BY <1>24, TailIsTorn DEF TypeOK
  <2>2. Len(wal') = Len(wal) - 1 /\ \A i \in 1..(Len(wal) - 1) : wal'[i] = wal[i]
    BY ZenonT(60), ZenonT(90), <2>1, PrefixFacts
  <2>3. Clean(wal') /\ TornLast(wal')
    BY <2>1, <2>2 DEF TornOk, TornLast, Clean
  <2>4. TornLast(walDurable')
    BY <1>24, <2>3 DEF TruncateTail, TornOk
  <2>5. QED
    BY <1>24, <2>3, <2>4 DEF TornOk, TruncateTail
<1>25. CASE UNCHANGED vars
  BY <1>25, TornFrame DEF vars
<1>26. QED
  BY <1>1, <1>2, <1>3, <1>4, <1>5, <1>6, <1>7, <1>8, <1>9, <1>10, <1>11, <1>12,
     <1>13, <1>14, <1>15, <1>16, <1>17, <1>18, <1>19, <1>20, <1>21, <1>22, <1>23, <1>24,
     <1>25 DEF Next, Step

LEMMA MemFrame ==
  ASSUME MemOk, UNCHANGED <<mem, up>>, up = "running",
         \A k \in Keys : allowed[k] \subseteq allowed'[k]
  PROVE  MemOk'
BY DEF MemOk

LEMMA MemStopped ==
  ASSUME up' \notin {"loaded", "running"}
  PROVE  MemOk'
BY DEF MemOk

LEMMA MemSame ==
  ASSUME MemOk, UNCHANGED <<mem, up, snap, off, allowed>>
  PROVE  MemOk'
BY DEF MemOk

(* Memory holds what is allowed, from the first replay on.                 *)
LEMMA MemStep ==
  ASSUME IInv, TypeOK', [Next]_vars
  PROVE  MemOk'
<1> USE DEF IInv
<1>1. ASSUME NEW k \in Keys, NEW v \in Contents, AppendToWal(k, v), UNCHANGED scenario
      PROVE  MemOk'
  <2>1. \A j \in Keys : allowed[j] \subseteq allowed'[j]
    BY <1>1 DEF AppendToWal, TypeOK
  <2>2. QED
    BY <1>1, <2>1, MemFrame DEF AppendToWal, ShardFree
<1>2. ASSUME NEW k \in Keys, NEW v \in Contents, AppendThrows(k, v), UNCHANGED scenario
      PROVE  MemOk'
  BY <1>2, MemSame DEF AppendThrows
<1>3. ASSUME SyncWal, UNCHANGED scenario PROVE MemOk'
  BY <1>3, MemSame DEF SyncWal
<1>4. ASSUME SyncThrows, UNCHANGED scenario PROVE MemOk'
  BY <1>4, MemSame DEF SyncThrows, files
<1>5. ASSUME NEW k \in Keys, Acknowledge(k), UNCHANGED scenario PROVE MemOk'
  BY ZenonT(60), ZenonT(90), <1>5 DEF MemOk, Acknowledge, TypeOK
<1>6. ASSUME ClearMemory, UNCHANGED scenario PROVE MemOk'
  BY ZenonT(60), ZenonT(90), <1>6 DEF MemOk, ClearMemory, Empty
<1>7. ASSUME NEW o \in Jobs, Capture(o), UNCHANGED scenario PROVE MemOk'
  BY <1>7, MemSame DEF Capture, files
<1>8. ASSUME CaptureThrows, UNCHANGED scenario PROVE MemOk'
  BY <1>8, MemSame DEF CaptureThrows, files
<1>9. ASSUME BeginClear, UNCHANGED scenario PROVE MemOk'
  BY <1>9, MemSame DEF BeginClear, files
<1>10. ASSUME TempWrite, UNCHANGED scenario PROVE MemOk'
  BY <1>10, MemSame DEF TempWrite, files
<1>11. ASSUME TempSync, UNCHANGED scenario PROVE MemOk'
  BY <1>11, MemSame DEF TempSync, files
<1>12. ASSUME Rename, UNCHANGED scenario PROVE MemOk'
  BY <1>12, MemFrame DEF Rename, At
<1>13. ASSUME DirSync, UNCHANGED scenario PROVE MemOk'
  BY <1>13, MemFrame DEF DirSync, At
<1>14. ASSUME Truncate, UNCHANGED scenario PROVE MemOk'
  <2>1. \A k \in Keys : allowed[k] \subseteq allowed'[k]
    BY <1>14 DEF Truncate
  <2>2. QED
    BY <1>14, <2>1, MemFrame DEF Truncate, At
<1>15. ASSUME TruncateSync, UNCHANGED scenario PROVE MemOk'
  BY <1>15, MemFrame DEF TruncateSync, At
<1>16. ASSUME Remove, UNCHANGED scenario PROVE MemOk'
  BY <1>16, MemFrame DEF Remove, At
<1>17. ASSUME RemoveSync, UNCHANGED scenario PROVE MemOk'
  BY <1>17, MemFrame DEF RemoveSync, At
<1>18. ASSUME JobThrows, UNCHANGED scenario PROVE MemOk'
  BY <1>18, MemSame DEF JobThrows, files
<1>19. ASSUME Crash, UNCHANGED scenario PROVE MemOk'
  BY <1>19, MemStopped DEF Crash, ProcessEnds
<1>20. ASSUME PowerLoss, UNCHANGED scenario PROVE MemOk'
  BY <1>20, MemStopped DEF PowerLoss, ProcessEnds
<1>21. ASSUME OpenWal, UNCHANGED scenario PROVE MemOk'
  BY <1>21, MemStopped DEF OpenWal
<1>22. ASSUME LoadSnapshot, UNCHANGED scenario PROVE MemOk'
  BY <1>22 DEF MemOk, LoadSnapshot, files
<1>23. ASSUME ReplayFromWal, UNCHANGED scenario PROVE MemOk'
  <2>1. SUFFICES ASSUME NEW k \in Keys PROVE mem'[k] \in allowed[k]
    BY <1>23 DEF MemOk, ReplayFromWal
  <2>2. mem'[k] = Value(wal, snap.off, snap.data[k], k)
    BY <1>23, ReplayIsValue DEF MemOk, ReplayFromWal
  <2>3. QED
    BY ZenonT(60), ZenonT(90), <2>2, PossibleFacts DEF SourcesOk, KeyOk, Good
<1>24. ASSUME TruncateTail, UNCHANGED scenario PROVE MemOk'
  BY <1>24, MemSame DEF TruncateTail
<1>25. CASE UNCHANGED vars
  BY <1>25, MemSame DEF vars
<1>26. QED
  BY <1>1, <1>2, <1>3, <1>4, <1>5, <1>6, <1>7, <1>8, <1>9, <1>10, <1>11, <1>12,
     <1>13, <1>14, <1>15, <1>16, <1>17, <1>18, <1>19, <1>20, <1>21, <1>22, <1>23, <1>24,
     <1>25 DEF Next, Step

LEMMA SyncedFrame ==
  ASSUME SyncedUp, UNCHANGED <<scenario, wal, walDurable, failure_, up, pend>>,
         up = "running" \/ UNCHANGED <<snap, snapDurable>>
  PROVE  SyncedUp'
BY DEF SyncedUp, Power, Faults

LEMMA SyncedWithoutPower ==
  ASSUME ~Power, UNCHANGED scenario
  PROVE  SyncedUp'
BY DEF SyncedUp, Power, Faults

(* Under a policy that syncs, an unsynced frame belongs to a call in       *)
(* progress, unless the stream has failed.                                 *)
LEMMA SyncedStep ==
  ASSUME IInv, TypeOK', [Next]_vars
  PROVE  SyncedUp'
<1> USE DEF IInv
<1>1. ASSUME NEW k \in Keys, NEW v \in Contents, AppendToWal(k, v), UNCHANGED scenario
      PROVE  SyncedUp'
  BY ZenonT(60), ZenonT(90), <1>1 DEF SyncedUp, Power, Faults, AppendToWal, ShardFree, TypeOK
<1>2. ASSUME NEW k \in Keys, NEW v \in Contents, AppendThrows(k, v), UNCHANGED scenario
      PROVE  SyncedUp'
  BY ZenonT(60), ZenonT(90), <1>2 DEF SyncedUp, Power, Faults, AppendThrows, ShardFree
<1>3. ASSUME SyncWal, UNCHANGED scenario PROVE SyncedUp'
  BY <1>3 DEF SyncedUp, Power, Faults, SyncWal
<1>4. ASSUME SyncThrows, UNCHANGED scenario PROVE SyncedUp'
  BY ZenonT(60), ZenonT(90), <1>4, SyncedWithoutPower DEF SyncThrows, Promised, Power, Faults
<1>5. ASSUME NEW k \in Keys, Acknowledge(k), UNCHANGED scenario PROVE SyncedUp'
  BY ZenonT(60), ZenonT(90), <1>5
     DEF SyncedUp, Power, Faults, Acknowledge, files, TypeOK, Promised, policy_,
         NoWrite
<1>6. ASSUME ClearMemory, UNCHANGED scenario PROVE SyncedUp'
  BY ZenonT(60), ZenonT(90), <1>6, SyncedFrame DEF ClearMemory, files
<1>7. ASSUME NEW o \in Jobs, Capture(o), UNCHANGED scenario PROVE SyncedUp'
  BY <1>7, SyncedFrame DEF Capture, files
<1>8. ASSUME CaptureThrows, UNCHANGED scenario PROVE SyncedUp'
  BY <1>8, SyncedFrame DEF CaptureThrows, files
<1>9. ASSUME BeginClear, UNCHANGED scenario PROVE SyncedUp'
  BY <1>9, SyncedFrame DEF BeginClear, files
<1>10. ASSUME TempWrite, UNCHANGED scenario PROVE SyncedUp'
  BY <1>10, SyncedFrame DEF TempWrite, files
<1>11. ASSUME TempSync, UNCHANGED scenario PROVE SyncedUp'
  BY <1>11, SyncedFrame DEF TempSync, files
<1>12. ASSUME Rename, UNCHANGED scenario PROVE SyncedUp'
  BY <1>12, SyncedFrame DEF Rename, At
<1>13. ASSUME DirSync, UNCHANGED scenario PROVE SyncedUp'
  BY <1>13, SyncedFrame DEF DirSync, At
<1>14. ASSUME Truncate, UNCHANGED scenario PROVE SyncedUp'
  BY <1>14 DEF SyncedUp, Power, Faults, Truncate, At
<1>15. ASSUME TruncateSync, UNCHANGED scenario PROVE SyncedUp'
  BY <1>15 DEF SyncedUp, Power, Faults, TruncateSync, At, Promised, policy_
<1>16. ASSUME Remove, UNCHANGED scenario PROVE SyncedUp'
  BY <1>16, SyncedFrame DEF Remove, At
<1>17. ASSUME RemoveSync, UNCHANGED scenario PROVE SyncedUp'
  BY <1>17, SyncedFrame DEF RemoveSync, At
<1>18. ASSUME JobThrows, UNCHANGED scenario PROVE SyncedUp'
  BY <1>18, SyncedFrame DEF JobThrows, files
<1>19. ASSUME Crash, UNCHANGED scenario PROVE SyncedUp'
  BY <1>19, SyncedWithoutPower DEF Crash, Promised, Power, Faults
<1>20. ASSUME PowerLoss, UNCHANGED scenario PROVE SyncedUp'
  BY <1>20 DEF SyncedUp, Power, Faults, PowerLoss, ProcessEnds
<1>21. ASSUME OpenWal, UNCHANGED scenario PROVE SyncedUp'
  BY <1>21 DEF SyncedUp, Power, Faults, OpenWal, files
<1>22. ASSUME LoadSnapshot, UNCHANGED scenario PROVE SyncedUp'
  BY <1>22 DEF SyncedUp, Power, Faults, LoadSnapshot, files
<1>23. ASSUME ReplayFromWal, UNCHANGED scenario PROVE SyncedUp'
  BY <1>23 DEF SyncedUp, Power, Faults, ReplayFromWal, files
<1>24. ASSUME TruncateTail, UNCHANGED scenario PROVE SyncedUp'
  BY ZenonT(60), ZenonT(90), <1>24
     DEF SyncedUp, Power, Faults, TruncateTail, Promised, policy_, JobOk
<1>25. CASE UNCHANGED vars
  BY <1>25, SyncedFrame DEF vars
<1>26. QED
  BY <1>1, <1>2, <1>3, <1>4, <1>5, <1>6, <1>7, <1>8, <1>9, <1>10, <1>11, <1>12,
     <1>13, <1>14, <1>15, <1>16, <1>17, <1>18, <1>19, <1>20, <1>21, <1>22, <1>23, <1>24,
     <1>25 DEF Next, Step
===============================================================================
