----------------------------- MODULE SessionMemory -----------------------------
(***************************************************************************)
(* Proof that Session remembers: what a recovery finds in the log and the  *)
(* snapshot is what was acknowledged, or written by a call that failed,    *)
(* after any number of processes, checkpoints and failed calls.            *)
(***************************************************************************)
EXTENDS SessionProofs

(* Every leaf is tried with Z3, with Zenon, and again with Z3, unless it   *)
(* names its prover: the time to translate a leaf varies, and has a limit. *)
USE SMTT(20), ZenonT(20), SMTT(40), SMTT(60), SMTT(90)

------------------------------------------------------------------------------
(* What recovery finds.                                                    *)

Within(m, a) == \A k \in Keys : m[k] \in a[k]

(* A replay of the whole log on top of m changes a key at most to a value  *)
(* of a failed write.                                                      *)
Agrees(m, f, l) == \A k \in Keys : ReplayInto(m, f, 0)[k] \in l[k] \cup {m[k]}

(* What recovery would find once the captured copy has been saved.         *)
Pending == ReplayInto(captured.store, file, captured.offset)

Histories == [Keys -> SUBSET (Values \cup {Absent})]

(* Remembered alone is not inductive: a compaction whose rotation fails    *)
(* leaves a log that is replayed from its start on top of memory, and a    *)
(* checkpoint saves a copy taken some records earlier.                     *)
Faithful ==
  /\ allowed \in Histories /\ lingering \in Histories
  /\ Load(snap).status # "thrown" =>
       /\ Within(Recovered(file, snap), allowed)
       /\ Agrees(Recovered(file, snap), file, lingering)
       /\ up => Agrees(mem, file, lingering)
       /\ captured # NotCaptured =>
            /\ \A k \in Keys : Pending[k] \in allowed[k] \cup {mem[k]}
            /\ Agrees(Pending, file, lingering)

LEMMA OnlyIs ==
  ASSUME NEW m \in FittingMaps
  PROVE  Only(m) \in Histories /\ Within(m, Only(m))
  BY FittingIsMap DEF Only, Histories, Within

LEMMA AlsoIs ==
  ASSUME NEW m \in FittingMaps, allowed \in Histories
  PROVE  /\ Also(m) \in Histories /\ Within(m, Also(m))
         /\ \A n : Within(n, allowed) => Within(n, Also(m))
  BY FittingIsMap DEF Also, Histories, Within

LEMMA RecoveredIs ==
  ASSUME NEW f, NEW s
  PROVE  Recovered(f, s) = ReplayInto(Load(s).store, f, Load(s).wal_offset)
  BY DEF Recovered

(* A log that a replay reads alike leaves all of it as it was.             *)
LEMMA AlikeKeeps ==
  ASSUME NEW f \in Seq(Cells), NEW g \in Seq(Cells), Alike(f, g),
         \A offset : Boundary(f, offset) => Boundary(g, offset)
  PROVE  /\ \A store, offset : Boundary(f, offset) =>
              ReplayInto(store, g, offset) = ReplayInto(store, f, offset)
         /\ \A m, l : Agrees(m, f, l) => Agrees(m, g, l)
<1>1. ASSUME NEW store, NEW offset, Boundary(f, offset)
      PROVE  ReplayInto(store, g, offset) = ReplayInto(store, f, offset)
  <2> DEFINE a == ReplayInto(store, f, offset)
             b == ReplayInto(store, g, offset)
  <2>1. a = [k \in Keys |-> a[k]] /\ b = [k \in Keys |-> b[k]]
    BY ReplayIsMap, Zenon
  <2>2. ASSUME NEW k \in Keys PROVE b[k] = a[k]
    <3>1. Boundary(g, offset)
      BY <1>1
    <3>2. QED
      BY ONLY AlikeReplay, f \in Seq(Cells), g \in Seq(Cells), Alike(f, g),
              k \in Keys, <1>1, <3>1, SMT
  <2> HIDE DEF a, b
  <2>3. b = a
    BY <2>1, <2>2
  <2>4. QED
    BY <2>3 DEF a, b
<1>2. Boundary(f, 0)
  BY DEF Boundary
<1>3. \A m : ReplayInto(m, g, 0) = ReplayInto(m, f, 0)
  BY <1>1, <1>2, Zenon
<1>4. QED
  BY <1>1, <1>3, Zenon DEF Agrees

(* A record more about k.                                                  *)
LEMMA GrownKeeps ==
  ASSUME NEW f \in Seq(Cells), NEW g \in Seq(Cells), NEW key \in Keys, NEW v,
         Grown(f, g, key, v),
         \A offset : Boundary(f, offset) => Boundary(g, offset),
         NEW l, NEW h, \A k \in Keys : k # key => h[k] = l[k]
  PROVE  /\ \A store, offset : Boundary(f, offset) => \A k \in Keys :
              ReplayInto(store, g, offset)[k]
                = IF k = key THEN v ELSE ReplayInto(store, f, offset)[k]
         /\ \A m, n : Agrees(m, f, l) /\ (\A k \in Keys : k # key => n[k] = m[k])
                      /\ (v = n[key] \/ v \in h[key]) => Agrees(n, g, h)
<1>1. \A store, offset : Boundary(f, offset) => \A k \in Keys :
        ReplayInto(store, g, offset)[k]
          = IF k = key THEN v ELSE ReplayInto(store, f, offset)[k]
  <2>1. ASSUME NEW store, NEW offset, Boundary(f, offset), NEW k \in Keys
        PROVE  ReplayInto(store, g, offset)[k]
                 = IF k = key THEN v ELSE ReplayInto(store, f, offset)[k]
    <3>1. Boundary(g, offset)
      BY <2>1
    <3>2. QED
      BY ONLY GrownReplay, f \in Seq(Cells), g \in Seq(Cells), Grown(f, g, key, v),
              k \in Keys, <2>1, <3>1, SMT
  <2>2. QED
    BY <2>1, Zenon
<1>2. Boundary(f, 0)
  BY DEF Boundary
<1>3. ASSUME NEW m, NEW n, Agrees(m, f, l), \A k \in Keys : k # key => n[k] = m[k],
             v = n[key] \/ v \in h[key]
      PROVE  Agrees(n, g, h)
  <2> SUFFICES ASSUME NEW k \in Keys PROVE ReplayInto(n, g, 0)[k] \in h[k] \cup {n[k]}
    BY DEF Agrees
  <2>1. ReplayInto(n, g, 0)[k] = IF k = key THEN v ELSE ReplayInto(n, f, 0)[k]
    BY <1>1, <1>2, Zenon
  <2>2. CASE k = key
    BY <1>3, <2>1, <2>2, Zenon
  <2>3. CASE k # key
    <3>1. n[k] = m[k] /\ h[k] = l[k]
      BY <1>3, <2>3
    <3>2. ReplayInto(n, f, 0)[k] = ReplayInto(m, f, 0)[k]
      <4>1. n[k] = m[k]
        BY <3>1
      <4>2. QED
        BY ONLY ReplayOfKey, f \in Seq(Cells), k \in Keys, <1>2, <4>1, SMT
    <3>3. ReplayInto(m, f, 0)[k] \in l[k] \cup {m[k]}
      BY <1>3 DEF Agrees
    <3>4. QED
      BY <2>1, <2>3, <3>1, <3>2, <3>3, Zenon
  <2>4. QED
    BY <2>2, <2>3
<1>4. QED
  BY <1>1, <1>3, Zenon

LEMMA EmptyAgrees == \A m, l : Agrees(m, <<>>, l)
  BY NothingInEmpty, Zenon DEF Agrees

LEMMA FaithfulInit == Init => Faithful
<1> SUFFICES ASSUME Init PROVE Faithful
  OBVIOUS
<1> DEFINE found == Recovered(file, snap)
           again == ReplayInto(found, file, 0)
<1>1. TypeOK /\ file \in Seq(Cells)
  BY StorableInit DEF Storable, TypeOK
<1>2. found \in FittingMaps /\ again \in FittingMaps /\ Empty \in FittingMaps
  BY <1>1, RecoveredFits, ReplayFits, EmptyFits
<1> HIDE DEF found, again
<1>3. /\ allowed = Only(IF Load(snap).status = "thrown" THEN Empty ELSE found)
      /\ lingering = Only(again) /\ ~up /\ captured = NotCaptured
  BY DEF Init, found, again
<1>4. allowed \in Histories /\ lingering \in Histories
  BY <1>2, <1>3, OnlyIs
<1>5. Load(snap).status # "thrown" => Within(found, allowed)
  BY <1>2, <1>3, OnlyIs
<1>6. Agrees(found, file, lingering)
  <2>1. \A k \in Keys : again[k] \in lingering[k]
    BY <1>2, <1>3, OnlyIs DEF Within
  <2>2. QED
    BY <2>1 DEF Agrees, again
<1>7. QED
  BY <1>3, <1>4, <1>5, <1>6 DEF Faithful, found

LEMMA AgreesMore ==
  \A m, f, l, h : Agrees(m, f, l) /\ (\A k \in Keys : l[k] \subseteq h[k]) => Agrees(m, f, h)
  BY DEF Agrees

(* A step that leaves the snapshot and what a replay reads.                *)
LEMMA AlikeFaithful ==
  ASSUME Storable, Placed, Faithful, file' \in Seq(Cells), Alike(file, file'),
         \A offset : Boundary(file, offset) => Boundary(file', offset),
         snap' = snap, captured' = captured \/ captured' = NotCaptured,
         allowed' \in Histories, lingering' \in Histories,
         \A k \in Keys : lingering[k] \subseteq lingering'[k],
         Load(snap).status # "thrown" =>
           /\ Within(Recovered(file, snap), allowed')
           /\ up' => Agrees(mem', file, lingering')
           /\ captured' # NotCaptured =>
                \A k \in Keys : Pending[k] \in allowed'[k] \cup {mem'[k]}
  PROVE  Faithful'
<1> DEFINE found == Recovered(file, snap)
<1>1. /\ file \in Seq(Cells) /\ Boundary(file, Load(snap).wal_offset)
      /\ captured # NotCaptured => Boundary(file, captured.offset)
  BY DEF Storable, TypeOK, Placed
<1>2. /\ \A store, offset : Boundary(file, offset) =>
           ReplayInto(store, file', offset) = ReplayInto(store, file, offset)
      /\ \A m, l : Agrees(m, file, l) => Agrees(m, file', l)
  BY <1>1, AlikeKeeps
<1>3. Recovered(file', snap') = found
  BY <1>1, <1>2, Zenon DEF Recovered
<1>4. captured' # NotCaptured => Pending' = Pending
  BY <1>1, <1>2, Zenon DEF Pending
<1>5. Load(snap).status # "thrown" =>
        /\ Agrees(found, file, lingering)
        /\ captured # NotCaptured => Agrees(Pending, file, lingering)
  BY DEF Faithful
<1> HIDE DEF found
<1>6. Load(snap).status # "thrown" =>
        /\ Agrees(found, file', lingering')
        /\ captured' # NotCaptured => Agrees(Pending, file', lingering')
  BY <1>2, <1>5, AgreesMore, Zenon
<1>7. Load(snap').status # "thrown" =>
        /\ Within(Recovered(file', snap'), allowed')
        /\ Agrees(Recovered(file', snap'), file', lingering')
        /\ up' => Agrees(mem', file', lingering')
        /\ captured' # NotCaptured =>
             /\ \A k \in Keys : Pending'[k] \in allowed'[k] \cup {mem'[k]}
             /\ Agrees(Pending', file', lingering')
  BY <1>2, <1>3, <1>4, <1>6, Zenon DEF found
<1>8. QED
  BY <1>7 DEF Faithful

LEMMA StartFaithful ==
  ASSUME Storable, Placed, Faithful, Start PROVE Faithful'
<1>1. /\ TypeOK /\ file \in Seq(Cells) /\ ~up /\ captured = NotCaptured
      /\ Load(snap).status # "thrown"
  BY DEF Storable, TypeOK, Start, CanStart, Placed
<1>2. /\ file' = file /\ snap' = snap /\ captured' = captured /\ lingering' = lingering
      /\ mem' = Recovered(file, snap) /\ allowed' = Only(mem')
  BY DEF Start, background
<1>3. mem' \in FittingMaps
  BY <1>1, <1>2, RecoveredFits
<1>4. allowed' \in Histories /\ Within(mem', allowed')
  BY <1>2, <1>3, OnlyIs
<1>5. lingering \in Histories /\ Agrees(mem', file, lingering)
  BY <1>1, <1>2 DEF Faithful
<1>6. Alike(file, file')
  BY <1>2, AlikeItself, Zenon
<1>7. QED
  BY <1>1, <1>2, <1>4, <1>5, <1>6, AlikeFaithful

LEMMA StartTruncatingFaithful ==
  ASSUME Storable, Placed, Faithful, StartTruncating PROVE Faithful'
<1>1. /\ TypeOK /\ file \in Seq(Cells) /\ ~up /\ captured = NotCaptured
      /\ Load(snap).status # "thrown" /\ CanOpen(file) /\ Layout(snap)
      /\ Boundary(file, Load(snap).wal_offset)
  BY DEF Storable, TypeOK, StartTruncating, CanStart, Placed
<1>2. PICK r \in ReplayFromAndTruncate(file, Opened(file), Load(snap).wal_offset) :
        /\ file' = r.file /\ up' = (r.how = "ok")
        /\ mem' = IF r.how = "ok" THEN Recovered(file, snap) ELSE mem
        /\ allowed' = IF r.how = "ok" THEN Only(mem') ELSE allowed
  BY DEF StartTruncating
<1>3. snap' = snap /\ captured' = captured /\ lingering' = lingering
  BY DEF StartTruncating, background
<1>4. Opened(file) \in Objects /\ LogOk(file, Opened(file)) /\ Load(snap).wal_offset \in Nat
  BY <1>1, OpenedType, OpenedOk, LoadFits
<1>5. /\ r \in Outcomes /\ Alike(file, r.file)
      /\ \A offset : Boundary(file, offset) => Boundary(r.file, offset)
  BY <1>1, <1>4, ReplayAndTruncateType, ReplayAndTruncateReplays, ReplayAndTruncateOk
<1>6. file' \in Seq(Cells) /\ Alike(file, file')
      /\ \A offset : Boundary(file, offset) => Boundary(file', offset)
  BY <1>2, <1>5 DEF Outcomes
<1> DEFINE found == Recovered(file, snap)
<1>7. found \in FittingMaps
  BY <1>1, RecoveredFits
<1>8. /\ allowed \in Histories /\ lingering \in Histories
      /\ Within(found, allowed) /\ Agrees(found, file, lingering)
  BY <1>1 DEF Faithful
<1>9. Only(found) \in Histories /\ Within(found, Only(found))
  BY <1>7, OnlyIs
<1> HIDE DEF found
<1>10. /\ allowed' \in Histories /\ Within(found, allowed')
       /\ up' => Agrees(mem', file, lingering)
  BY ZenonT(60), ZenonT(90), <1>2, <1>8, <1>9 DEF found
<1>11. QED
  BY <1>1, <1>3, <1>6, <1>8, <1>10, AlikeFaithful DEF found

LEMMA StopFaithful ==
  ASSUME Storable, Placed, Faithful, Stop PROVE Faithful'
<1>1. /\ ~up' /\ captured' = NotCaptured /\ file' = file /\ snap' = snap
      /\ allowed' = allowed /\ lingering' = lingering
  BY DEF Stop, expected
<1>2. Recovered(file', snap') = Recovered(file, snap)
  BY <1>1
<1>3. QED
  BY <1>1, <1>2 DEF Faithful

LEMMA TruncateTailFaithful ==
  ASSUME Storable, Placed, Faithful, TruncateTail PROVE Faithful'
<1>1. up /\ file \in Seq(Cells) /\ wal \in Objects /\ LogOk(file, wal)
  BY DEF Storable, TypeOK, TruncateTail, Placed
<1>2. PICK r \in TruncateTo(file, wal, ReplayFromDetailed(file, 0).last_good_offset) :
        file' = r.file
  BY DEF TruncateTail
<1>3. /\ snap' = snap /\ captured' = captured /\ lingering' = lingering
      /\ allowed' = allowed /\ mem' = mem /\ up' = up
  BY DEF TruncateTail, background, expected
<1>4. ReplayFromDetailed(file, 0).last_good_offset \in Nat
  BY <1>1, ReplayReport
<1>5. /\ r \in Outcomes /\ Alike(file, r.file)
      /\ \A offset : Boundary(file, offset) => Boundary(r.file, offset)
  BY <1>1, <1>4, TruncateType, TruncateReplays, TruncateOk
<1>6. file' \in Seq(Cells) /\ Alike(file, file')
      /\ \A offset : Boundary(file, offset) => Boundary(file', offset)
  BY <1>2, <1>5 DEF Outcomes
<1>7. /\ allowed \in Histories /\ lingering \in Histories
      /\ Load(snap).status # "thrown" =>
           /\ Within(Recovered(file, snap), allowed)
           /\ up => Agrees(mem, file, lingering)
           /\ captured # NotCaptured =>
                \A k \in Keys : Pending[k] \in allowed[k] \cup {mem[k]}
  BY DEF Faithful
<1>8. QED
  BY <1>3, <1>6, <1>7, AlikeFaithful

(* A step that adds a record about one key.                                *)
LEMMA GrownFaithful ==
  ASSUME Storable, Placed, Faithful, NEW key \in Keys, NEW v,
         file' \in Seq(Cells), Grown(file, file', key, v),
         \A offset : Boundary(file, offset) => Boundary(file', offset),
         snap' = snap, captured' = captured, up' = up,
         allowed' \in Histories, lingering' \in Histories,
         \A k \in Keys : k # key => allowed'[k] = allowed[k],
         \A k \in Keys : k # key => lingering'[k] = lingering[k],
         \A k \in Keys : k # key => mem'[k] = mem[k],
         v \in allowed'[key], v = mem'[key] \/ v \in lingering'[key]
  PROVE  Faithful'
<1> DEFINE found == Recovered(file, snap)
           next == Recovered(file', snap')
           then == Pending'
<1>1. /\ file \in Seq(Cells) /\ Boundary(file, Load(snap).wal_offset)
      /\ captured # NotCaptured => Boundary(file, captured.offset)
  BY DEF Storable, TypeOK, Placed
<1>2. /\ \A store, offset : Boundary(file, offset) => \A k \in Keys :
           ReplayInto(store, file', offset)[k]
             = IF k = key THEN v ELSE ReplayInto(store, file, offset)[k]
      /\ \A m, n : /\ Agrees(m, file, lingering)
                   /\ \A k \in Keys : k # key => n[k] = m[k]
                   /\ v = n[key] \/ v \in lingering'[key]
                   => Agrees(n, file', lingering')
  BY <1>1, GrownKeeps
<1>3. \A k \in Keys : next[k] = IF k = key THEN v ELSE found[k]
  <2>1. /\ next = ReplayInto(Load(snap).store, file', Load(snap).wal_offset)
        /\ found = ReplayInto(Load(snap).store, file, Load(snap).wal_offset)
    BY Zenon DEF Recovered
  <2> HIDE DEF next, found
  <2>2. QED
    BY <1>1, <1>2, <2>1
<1>4. captured # NotCaptured =>
        \A k \in Keys : then[k] = IF k = key THEN v ELSE Pending[k]
  <2>1. then = ReplayInto(captured.store, file', captured.offset)
    BY Zenon DEF Pending
  <2> HIDE DEF then
  <2>2. QED
    BY <1>1, <1>2, <2>1 DEF Pending
<1>5. Load(snap).status # "thrown" =>
        /\ Within(found, allowed) /\ Agrees(found, file, lingering)
        /\ up => Agrees(mem, file, lingering)
        /\ captured # NotCaptured =>
             /\ \A k \in Keys : Pending[k] \in allowed[k] \cup {mem[k]}
             /\ Agrees(Pending, file, lingering)
  BY DEF Faithful
<1> HIDE DEF found, next, then
<1> SUFFICES ASSUME Load(snap).status # "thrown"
             PROVE  /\ Within(next, allowed') /\ Agrees(next, file', lingering')
                    /\ up => Agrees(mem', file', lingering')
                    /\ captured # NotCaptured =>
                         /\ \A k \in Keys : then[k] \in allowed'[k] \cup {mem'[k]}
                         /\ Agrees(then, file', lingering')
  BY ZenonT(60), ZenonT(90) DEF Faithful, next, then
<1>6. Within(next, allowed')
  BY <1>3, <1>5, Zenon DEF Within
<1>7. Agrees(next, file', lingering')
  BY <1>2, <1>3, <1>5, Zenon
<1>8. up => Agrees(mem', file', lingering')
  BY <1>2, <1>5, Zenon
<1>9. ASSUME captured # NotCaptured
      PROVE  /\ \A k \in Keys : then[k] \in allowed'[k] \cup {mem'[k]}
             /\ Agrees(then, file', lingering')
  <2>1. Agrees(then, file', lingering')
    BY <1>2, <1>4, <1>5, <1>9, Zenon
  <2>2. ASSUME NEW k \in Keys PROVE then[k] \in allowed'[k] \cup {mem'[k]}
    BY <1>4, <1>5, <1>9
  <2>3. QED
    BY ZenonT(60), ZenonT(90), <2>1, <2>2
<1>10. QED
  BY <1>6, <1>7, <1>8, <1>9

LEMMA MutateFaithful ==
  ASSUME Storable, Placed, Faithful, up, NEW k \in Keys,
         NEW v \in Values \cup {Absent}, NEW answer, Mutate(k, v, answer)
  PROVE  Faithful'
<1>1. file \in Seq(Cells) /\ wal \in Objects /\ LogOk(file, wal) /\ mem \in FittingMaps
  BY DEF Storable, TypeOK, Placed
<1>2. snap' = snap /\ up' = up /\ captured' = captured
  BY DEF Mutate
<1>3. /\ allowed \in Histories /\ lingering \in Histories
      /\ Load(snap).status # "thrown" =>
           /\ Within(Recovered(file, snap), allowed)
           /\ up => Agrees(mem, file, lingering)
           /\ captured # NotCaptured =>
                \A j \in Keys : Pending[j] \in allowed[j] \cup {mem[j]}
  BY DEF Faithful
<1>4. CASE checkpoint_error_
  <2>1. file' = file /\ mem' = mem /\ allowed' = allowed /\ lingering' = lingering
    BY <1>4 DEF Mutate, expected
  <2>2. Alike(file, file')
    BY <2>1, AlikeItself, Zenon
  <2>3. QED
    BY <1>1, <1>2, <1>3, <2>1, <2>2, AlikeFaithful
<1>5. CASE ~checkpoint_error_
  <2>1. PICK r \in AppendRecord(file, wal, k, v) :
          /\ file' = r.file
          /\ mem' = Stored(k, v, r.how)
          /\ allowed' = CASE r.how = "ok" -> [allowed EXCEPT ![k] = {v}]
                           [] r.how = "io" -> [allowed EXCEPT ![k] = @ \cup {v}]
                           [] r.how = "refused" -> allowed
          /\ lingering' = CASE r.how = "ok" -> [lingering EXCEPT ![k] = {}]
                             [] r.how = "io" -> [lingering EXCEPT ![k] = @ \cup {v}]
                             [] r.how = "refused" -> lingering
    BY ZenonT(60), ZenonT(90), <1>5 DEF Mutate
  <2>2. r \in Outcomes /\ \A offset : Boundary(file, offset) => Boundary(r.file, offset)
    BY <1>1, AppendType, AppendOk
  <2>3. file' \in Seq(Cells) /\ \A offset : Boundary(file, offset) => Boundary(file', offset)
    BY <2>1, <2>2 DEF Outcomes
  <2>4. \/ r.how = "refused" /\ Alike(file, file')
        \/ r.how = "ok" /\ Grown(file, file', k, v)
        \/ r.how = "io" /\ Alike(file, file')
        \/ r.how = "io" /\ Grown(file, file', k, v)
    BY <1>1, <2>1, AppendReplays
  <2>5. CASE r.how = "refused" /\ Alike(file, file')
    <3>1. mem' = mem /\ allowed' = allowed /\ lingering' = lingering
      BY <2>1, <2>5 DEF Stored
    <3>2. QED
      BY <1>2, <1>3, <2>3, <2>5, <3>1, AlikeFaithful
  <2>6. CASE r.how = "ok"
    <3>1. /\ mem' = [mem EXCEPT ![k] = v] /\ allowed' = [allowed EXCEPT ![k] = {v}]
          /\ lingering' = [lingering EXCEPT ![k] = {}]
      BY <2>1, <2>6 DEF Stored
    <3>2. /\ allowed' \in Histories /\ lingering' \in Histories
          /\ v \in allowed'[k]
          /\ \A j \in Keys : j # k => allowed'[j] = allowed[j] /\ lingering'[j] = lingering[j]
      BY <1>3, <3>1 DEF Histories
    <3>3. v = mem'[k] /\ \A j \in Keys : j # k => mem'[j] = mem[j]
      BY <1>1, <3>1, FittingIsMap
    <3>4. QED
      BY <1>2, <2>3, <2>4, <2>6, <3>2, <3>3, GrownFaithful
  <2>7. CASE r.how = "io"
    <3>1. /\ mem' = mem /\ allowed' = [allowed EXCEPT ![k] = @ \cup {v}]
          /\ lingering' = [lingering EXCEPT ![k] = @ \cup {v}]
      BY <2>1, <2>7 DEF Stored
    <3>2. /\ allowed' \in Histories /\ lingering' \in Histories
          /\ v \in allowed'[k] /\ v \in lingering'[k]
          /\ \A j \in Keys : j # k => allowed'[j] = allowed[j] /\ lingering'[j] = lingering[j]
          /\ \A j \in Keys : allowed[j] \subseteq allowed'[j]
          /\ \A j \in Keys : lingering[j] \subseteq lingering'[j]
      BY <1>3, <3>1 DEF Histories
    <3>3. CASE Grown(file, file', k, v)
      BY ZenonT(60), ZenonT(90), <1>2, <2>3, <3>1, <3>2, <3>3, GrownFaithful
    <3>4. CASE Alike(file, file')
      <4>1. Load(snap).status # "thrown" =>
              /\ Within(Recovered(file, snap), allowed')
              /\ up' => Agrees(mem', file, lingering')
              /\ captured' # NotCaptured =>
                   \A j \in Keys : Pending[j] \in allowed'[j] \cup {mem'[j]}
        <5>1. up => Load(snap).status = "thrown" \/ Agrees(mem, file, lingering')
          BY <1>3, <3>2, AgreesMore, Zenon
        <5>2. \A m : Within(m, allowed) => Within(m, allowed')
          BY <3>2 DEF Within
        <5>3. Load(snap).status # "thrown" /\ captured # NotCaptured =>
                \A j \in Keys : Pending[j] \in allowed'[j] \cup {mem[j]}
          BY <1>3, <3>2, Zenon
        <5>4. QED
          BY ZenonT(60), ZenonT(90), <1>2, <1>3, <3>1, <5>1, <5>2, <5>3
      <4>2. QED
        BY ZenonT(60), ZenonT(90), <1>2, <2>3, <3>2, <3>4, <4>1, AlikeFaithful
    <3>5. QED
      BY <2>4, <2>7, <3>3, <3>4
  <2>8. QED
    BY <2>4, <2>5, <2>6, <2>7
<1>6. QED
  BY <1>4, <1>5

(* A snapshot of another map takes its place.                              *)
LEMMA SavedFaithful ==
  ASSUME NEW store, captured' = NotCaptured,
         Recovered(file', snap') = store,
         allowed' \in Histories, lingering' \in Histories,
         Within(store, allowed'), Agrees(store, file', lingering'),
         Agrees(mem', file', lingering')
  PROVE  Faithful'
  BY DEF Faithful

LEMMA SavedStore ==
  ASSUME Storable, NEW store \in FittingMaps, NEW offset \in Nat,
         NEW s \in SaveVerified(snap, store, offset)
  PROVE  \/ s.snap = snap /\ s.how = "io"
         \/ \A f : Recovered(f, s.snap) = ReplayInto(store, f, offset)
<1>1. Layout(snap)
  BY DEF Storable, TypeOK
<1>2. \/ s.snap = snap /\ s.how = "io"
      \/ Load(s.snap) = LoadResult("loaded", store, Len(Entries(store)), offset)
  BY <1>1, SaveOutcome
<1>3. /\ LoadResult("loaded", store, Len(Entries(store)), offset).store = store
      /\ LoadResult("loaded", store, Len(Entries(store)), offset).wal_offset = offset
  BY DEF LoadResult
<1>4. QED
  BY <1>2, <1>3, Zenon DEF Recovered

LEMMA SameMap ==
  ASSUME NEW m \in FittingMaps, NEW store, NEW f, NEW offset,
         \A k \in Keys : ReplayInto(store, f, offset)[k] = m[k]
  PROVE  ReplayInto(store, f, offset) = m
<1> DEFINE a == ReplayInto(store, f, offset)
<1>1. a = [k \in Keys |-> a[k]]
  BY ReplayIsMap, Zenon
<1>2. m = [k \in Keys |-> m[k]]
  BY FittingIsMap
<1> HIDE DEF a
<1>3. a = m
  BY <1>1, <1>2 DEF a
<1>4. QED
  BY <1>3 DEF a

LEMMA ClearLeaves ==
  ASSUME NEW f \in Seq(Cells), NEW w \in Objects, NEW r \in Clear(f, w)
  PROVE  r.file = <<>> \/ (r.file = f /\ r.how # "ok")
<1> DEFINE closed == [w EXCEPT !.stream = "closed"]
           cleared == [w EXCEPT !.generation_ = @ + 1, !.next_sequence_ = 1,
                                !.legacy_v2_ = FALSE, !.header_pending_ = TRUE,
                                !.format_valid_ = TRUE, !.needs_recovery_ = FALSE,
                                !.stream = "good"]
<1>1. \/ \E o \in {cleared, closed}, how \in {"ok", "io"} : r = Outcome(<<>>, o, how)
      \/ \E o \in {w, closed}, how \in {"refused", "io"} : r = Outcome(f, o, how)
  BY DEF Clear
<1> HIDE DEF closed, cleared
<1>2. QED
  BY ONLY <1>1, OutcomeFields, SMT

LEMMA ClearFaithful ==
  ASSUME Storable, Placed, Faithful, NEW c, ExecuteClearPersistence(c) PROVE Faithful'
<1>1. up /\ captured = NotCaptured /\ up' = up /\ captured' = captured /\ mem' = mem
  BY DEF ExecuteClearPersistence, Reads
<1>2. file \in Seq(Cells) /\ wal \in Objects
  BY <1>1 DEF Storable, TypeOK
<1>3. PICK r \in Clear(file, wal) :
        /\ r.how = "ok" \/ r.file = file
        /\ file' = r.file
        /\ snap' = IF r.how = "ok" THEN <<>> ELSE snap
        /\ allowed' = IF r.how = "ok" THEN Only(Empty) ELSE allowed
        /\ lingering' = IF r.how = "ok" THEN None ELSE lingering
  BY DEF ExecuteClearPersistence
<1>4. r.file = <<>> \/ (r.file = file /\ r.how # "ok")
  BY <1>2, ClearLeaves
<1>5. CASE r.how = "ok"
  <2>1. /\ file' = <<>> /\ snap' = <<>> /\ allowed' = Only(Empty) /\ lingering' = None
    BY <1>3, <1>4, <1>5
  <2>2. Load(<<>>).store = Empty /\ Load(<<>>).wal_offset = 0
    BY ZenonT(60), ZenonT(90) DEF Load, NotLoaded, LoadResult
  <2>3. ReplayInto(Empty, <<>>, 0) = Empty
    <3>1. \A k \in Keys : ReplayInto(Empty, <<>>, 0)[k] = Empty[k]
      BY NothingInEmpty, Zenon
    <3>2. QED
      BY ONLY <3>1, EmptyFits, SameMap, SMT
  <2>4. Recovered(<<>>, <<>>) = Empty
    BY <2>2, <2>3, Zenon DEF Recovered
  <2>5. Only(Empty) \in Histories /\ Within(Empty, Only(Empty)) /\ None \in Histories
    BY EmptyFits, OnlyIs DEF None, Histories
  <2>6. QED
    BY <1>1, <2>1, <2>4, <2>5, EmptyAgrees, SavedFaithful
<1>6. CASE r.how # "ok"
  <2>1. file' = file /\ snap' = snap /\ allowed' = allowed /\ lingering' = lingering
    BY <1>3, <1>6
  <2>2. Alike(file, file')
    BY <2>1, AlikeItself, Zenon
  <2>3. /\ allowed \in Histories /\ lingering \in Histories
        /\ Load(snap).status # "thrown" =>
             /\ Within(Recovered(file, snap), allowed)
             /\ up => Agrees(mem, file, lingering)
    BY DEF Faithful
  <2>4. QED
    BY <1>1, <1>2, <2>1, <2>2, <2>3, AlikeFaithful
<1>7. QED
  BY <1>5, <1>6

(* What Faithful says of a running process.                                *)
LEMMA RunningFaithful ==
  ASSUME Storable, Faithful, up
  PROVE  /\ Load(snap).status # "thrown"
         /\ allowed \in Histories /\ lingering \in Histories
         /\ Within(Recovered(file, snap), allowed)
         /\ Agrees(Recovered(file, snap), file, lingering)
         /\ Agrees(mem, file, lingering)
         /\ captured # NotCaptured =>
              /\ \A k \in Keys : Pending[k] \in allowed[k] \cup {mem[k]}
              /\ Agrees(Pending, file, lingering)
  BY DEF Storable, SnapshotLoads, Faithful

LEMMA CompactFaithful ==
  ASSUME Storable, Placed, Faithful, NEW c, ExecuteCompact(c) PROVE Faithful'
<1>1. up /\ captured = NotCaptured /\ up' = up /\ captured' = captured /\ mem' = mem
  BY DEF ExecuteCompact, Reads
<1>2. file \in Seq(Cells) /\ wal \in Objects /\ mem \in FittingMaps /\ Layout(snap)
  BY <1>1 DEF Storable, TypeOK
<1> DEFINE more == [k \in Keys |-> Also(mem)[k] \cup lingering[k]]
           after == ReplayInto(mem, file, 0)
<1>3. PICK s \in SaveVerified(snap, mem, 0) :
        /\ snap' = s.snap
        /\ \E r \in IF s.how = "ok" THEN Clear(file, wal) ELSE {Outcome(file, wal, s.how)} :
             /\ file' = r.file
             /\ allowed' = IF r.how = "ok" THEN Only(mem) ELSE more
             /\ lingering' = IF r.how = "ok" THEN None ELSE lingering
  BY DEF ExecuteCompact
<1>4. PICK r \in IF s.how = "ok" THEN Clear(file, wal) ELSE {Outcome(file, wal, s.how)} :
        /\ file' = r.file
        /\ allowed' = IF r.how = "ok" THEN Only(mem) ELSE more
        /\ lingering' = IF r.how = "ok" THEN None ELSE lingering
  BY <1>3
<1>5. /\ allowed \in Histories /\ lingering \in Histories
      /\ Within(Recovered(file, snap), allowed) /\ Agrees(mem, file, lingering)
  BY <1>1, RunningFaithful
<1>6. Also(mem) \in Histories /\ \A n : Within(n, allowed) => Within(n, Also(mem))
  BY <1>2, <1>5, AlsoIs
<1>7. /\ more \in Histories /\ None \in Histories
      /\ Only(mem) \in Histories /\ Within(mem, Only(mem))
  BY <1>2, <1>5, <1>6, OnlyIs DEF Histories, None
<1>8. Within(Recovered(file, snap), more) /\ Within(mem, more) /\ Within(after, more)
  <2>1. \A k \in Keys : Also(mem)[k] = allowed[k] \cup {mem[k]}
    BY DEF Also
  <2>2. \A k \in Keys : more[k] = allowed[k] \cup {mem[k]} \cup lingering[k]
    BY <2>1
  <2>3. \A k \in Keys : after[k] \in lingering[k] \cup {mem[k]}
    BY <1>5 DEF Agrees
  <2> HIDE DEF more, after
  <2>4. QED
    BY <1>5, <2>2, <2>3 DEF Within
<1>9. Agrees(after, file, lingering)
  <2>1. \A k \in Keys : ReplayInto(after, file, 0)[k] = after[k]
    BY <1>2, ReplayTwice
  <2> HIDE DEF after
  <2>2. QED
    BY <2>1 DEF Agrees
<1>10. r.file = <<>> \/ (r.file = file /\ r.how # "ok")
  <2>1. CASE s.how = "ok"
    BY <1>2, <2>1, ClearLeaves
  <2>2. CASE s.how # "ok"
    <3>1. r = Outcome(file, wal, s.how)
      BY <2>2
    <3>2. r.file = file /\ r.how = s.how
      BY ONLY <3>1, OutcomeFields
    <3>3. QED
      BY <2>2, <3>2
  <2>3. QED
    BY <2>1, <2>2
<1> HIDE DEF more, after
<1>11. CASE s.snap = snap /\ s.how = "io"
  <2>1. r = Outcome(file, wal, s.how)
    BY <1>11
  <2>2. r.file = file /\ r.how = s.how
    BY ONLY <2>1, OutcomeFields
  <2>3. file' = file /\ snap' = snap /\ allowed' = more /\ lingering' = lingering
    BY <1>3, <1>4, <1>11, <2>2
  <2>4. Alike(file, file')
    BY <2>3, AlikeItself, Zenon
  <2>5. QED
    BY ZenonT(60), ZenonT(90), <1>1, <1>2, <1>5, <1>7, <1>8, <2>3, <2>4, AlikeFaithful
<1>12. CASE \A f : Recovered(f, s.snap) = ReplayInto(mem, f, 0)
  <2>1. CASE r.file = <<>>
    <3>1. file' = <<>>
      BY <1>4, <2>1
    <3>2. ReplayInto(mem, <<>>, 0) = mem
      <4>1. \A k \in Keys : ReplayInto(mem, <<>>, 0)[k] = mem[k]
        BY NothingInEmpty, Zenon
      <4>2. QED
        BY ONLY <4>1, <1>2, SameMap, SMT
    <3>3. Recovered(file', snap') = mem
      BY <1>3, <1>12, <3>1, <3>2, Zenon
    <3>4. /\ allowed' \in Histories /\ lingering' \in Histories
          /\ Within(mem, allowed')
      BY <1>4, <1>5, <1>7, <1>8
    <3>5. QED
      BY <1>1, <3>1, <3>3, <3>4, EmptyAgrees, SavedFaithful
  <2>2. CASE r.file = file /\ r.how # "ok"
    <3>1. file' = file /\ allowed' = more /\ lingering' = lingering
      BY <1>4, <2>2
    <3>2. Recovered(file', snap') = after
      BY <1>3, <1>12, <3>1, Zenon DEF after
    <3>3. QED
      BY <1>1, <1>5, <1>7, <1>8, <1>9, <3>1, <3>2, SavedFaithful
  <2>3. QED
    BY <1>10, <2>1, <2>2
<1>13. QED
  BY <1>2, <1>11, <1>12, SavedStore

(* Nothing is behind the end of a log that needs no recovery.              *)
LEMMA NothingPending ==
  ASSUME Storable, Placed, up, wal.format_valid_, ~wal.needs_recovery_, CanTellOffset(wal)
  PROVE  ReplayInto(mem, file, Len(file)) = mem
<1>1. file \in Seq(Cells) /\ mem \in FittingMaps /\ Boundary(file, Len(file))
  BY EndPlaced DEF Storable, TypeOK
<1>2. \A k \in Keys : ReplayInto(mem, file, Len(file))[k] = mem[k]
  BY <1>1, NothingBehind
<1>3. QED
  BY ONLY <1>1, <1>2, SameMap, SMT

LEMMA CaptureFaithful ==
  ASSUME Storable, Placed, Faithful, Capture PROVE Faithful'
<1>1. /\ up /\ due /\ captured = NotCaptured /\ file' = file /\ snap' = snap /\ up' = up
      /\ mem' = mem /\ allowed' = allowed /\ lingering' = lingering
  BY DEF Capture, files, expected
<1>2. /\ file \in Seq(Cells) /\ wal.format_valid_ /\ ~wal.needs_recovery_
  BY <1>1 DEF Storable, TypeOK, Placed
<1>3. /\ allowed \in Histories /\ lingering \in Histories
      /\ Within(Recovered(file, snap), allowed)
      /\ Agrees(Recovered(file, snap), file, lingering)
      /\ Agrees(mem, file, lingering)
  BY <1>1, RunningFaithful
<1>4. CASE CanTellOffset(wal)
  <2>1. captured' = [offset |-> Len(file), store |-> mem]
    BY ZenonT(60), ZenonT(90), <1>4 DEF Capture, CurrentOffset
  <2>2. captured'.offset = Len(file) /\ captured'.store = mem
    BY <2>1
  <2>3. Pending' = ReplayInto(mem, file, Len(file))
    BY <1>1, <2>2, Zenon DEF Pending
  <2>4. Pending' = mem
    BY <1>1, <1>2, <1>4, <2>3, NothingPending
  <2>5. Recovered(file', snap') = Recovered(file, snap)
    BY <1>1
  <2>6. QED
    BY ZenonT(60), ZenonT(90), <1>1, <1>3, <2>4, <2>5 DEF Faithful
<1>5. CASE ~CanTellOffset(wal)
  <2>1. captured' = captured
    BY <1>5 DEF Capture
  <2>2. Recovered(file', snap') = Recovered(file, snap)
    BY <1>1
  <2>3. QED
    BY <1>1, <1>3, <2>1, <2>2 DEF Faithful
<1>6. QED
  BY <1>4, <1>5

LEMMA SaveCapturedFaithful ==
  ASSUME Storable, Placed, Faithful, SaveCaptured PROVE Faithful'
<1>1. /\ up /\ captured # NotCaptured /\ captured' = NotCaptured /\ file' = file
      /\ up' = up /\ mem' = mem /\ lingering' = lingering
  BY DEF SaveCaptured
<1>2. /\ file \in Seq(Cells) /\ mem \in FittingMaps
      /\ captured.store \in FittingMaps /\ captured.offset \in Nat
  BY <1>1 DEF Storable, TypeOK, Captures
<1>3. PICK s \in SaveVerified(snap, captured.store, captured.offset) :
        snap' = s.snap /\ allowed' = IF snap' = snap THEN allowed ELSE Also(mem)
  BY DEF SaveCaptured
<1>4. /\ allowed \in Histories /\ lingering \in Histories
      /\ Within(Recovered(file, snap), allowed) /\ Agrees(mem, file, lingering)
      /\ \A k \in Keys : Pending[k] \in allowed[k] \cup {mem[k]}
      /\ Agrees(Pending, file, lingering)
  BY <1>1, RunningFaithful
<1>5. CASE snap' = snap
  <2>1. allowed' = allowed
    BY <1>3, <1>5
  <2>2. Alike(file, file')
    BY <1>1, AlikeItself, Zenon
  <2>3. QED
    BY <1>1, <1>2, <1>4, <1>5, <2>1, <2>2, AlikeFaithful
<1>6. CASE snap' # snap
  <2>1. \A f : Recovered(f, s.snap) = ReplayInto(captured.store, f, captured.offset)
    BY <1>2, <1>3, <1>6, SavedStore
  <2>2. Recovered(file', snap') = Pending
    BY <1>1, <1>3, <2>1, Zenon DEF Pending
  <2>3. allowed' \in Histories /\ Within(Pending, allowed')
    <3>1. allowed' = Also(mem)
      BY <1>3, <1>6
    <3>2. Also(mem) \in Histories
      BY <1>2, <1>4, AlsoIs
    <3>3. \A k \in Keys : Also(mem)[k] = allowed[k] \cup {mem[k]}
      BY DEF Also
    <3>4. QED
      BY <1>4, <3>1, <3>2, <3>3, Zenon DEF Within
  <2>4. QED
    BY <1>1, <1>4, <2>2, <2>3, SavedFaithful
<1>7. QED
  BY <1>5, <1>6

LEMMA SaveSnapshotFaithful ==
  ASSUME SavesBehindTail = FALSE, Storable, Placed, Faithful, SaveSnapshot PROVE Faithful'
<1>1. /\ up /\ captured = NotCaptured /\ captured' = captured /\ file' = file
      /\ up' = up /\ mem' = mem /\ lingering' = lingering
      /\ wal.format_valid_ /\ ~wal.needs_recovery_ /\ CanTellOffset(wal)
  BY DEF SaveSnapshot
<1>2. file \in Seq(Cells) /\ mem \in FittingMaps /\ Len(file) \in Nat
  BY <1>1 DEF Storable, TypeOK
<1>3. PICK s \in SaveVerified(snap, mem, Len(file)) :
        snap' = s.snap /\ allowed' = IF s.how = "ok" THEN Only(mem) ELSE Also(mem)
  BY DEF SaveSnapshot, CurrentOffset
<1>4. /\ allowed \in Histories /\ lingering \in Histories
      /\ Within(Recovered(file, snap), allowed) /\ Agrees(mem, file, lingering)
  BY ZenonT(60), ZenonT(90), <1>1, RunningFaithful
<1>5. /\ Only(mem) \in Histories /\ Within(mem, Only(mem))
      /\ Also(mem) \in Histories /\ Within(mem, Also(mem))
      /\ Within(Recovered(file, snap), Also(mem))
  BY <1>2, <1>4, OnlyIs, AlsoIs
<1>6. CASE s.snap = snap /\ s.how = "io"
  <2>1. snap' = snap /\ allowed' = Also(mem)
    BY <1>3, <1>6
  <2>2. Alike(file, file')
    BY <1>1, AlikeItself, Zenon
  <2>3. QED
    BY ZenonT(60), ZenonT(90), <1>1, <1>2, <1>4, <1>5, <2>1, <2>2, AlikeFaithful
<1>7. CASE \A f : Recovered(f, s.snap) = ReplayInto(mem, f, Len(file))
  <2>1. Recovered(file', snap') = mem
    <3>1. ReplayInto(mem, file, Len(file)) = mem
      BY <1>1, NothingPending
    <3>2. QED
      BY <1>1, <1>3, <1>7, <3>1, Zenon
  <2>2. allowed' \in Histories /\ Within(mem, allowed')
    BY <1>3, <1>5
  <2>3. QED
    BY <1>1, <1>4, <2>1, <2>2, SavedFaithful
<1>8. QED
  BY <1>2, <1>6, <1>7, SavedStore

LEMMA SameFaithful ==
  ASSUME Faithful,
         UNCHANGED <<file, snap, mem, up, captured, allowed, lingering>>
  PROVE  Faithful'
<1>1. Recovered(file', snap') = Recovered(file, snap) /\ Pending' = Pending
  BY DEF Pending
<1>2. QED
  BY <1>1 DEF Faithful

LEMMA ExecuteFaithful ==
  ASSUME Storable, Placed, Faithful, NEW line \in Lines, Execute(Parse(line))
  PROVE  Faithful'
<1> DEFINE c == Parse(line)
<1>1. /\ c.type \in {"Set", "Del"} => c.key \in Keys
      /\ c.type = "Set" => c.value \in Values
  BY SessionAssumption
<1> HIDE DEF c
<1>2. CASE ExecuteSet(c)
  <2>1. up /\ c.type = "Set" /\ Mutate(c.key, c.value, "OK")
    BY <1>2 DEF ExecuteSet, Reads
  <2>2. c.key \in Keys /\ c.value \in Values \cup {Absent}
    BY <1>1, <2>1
  <2>3. QED
    BY <2>1, <2>2, MutateFaithful
<1>3. CASE ExecuteDel(c)
  <2>1. PICK answer : up /\ c.type = "Del" /\ Mutate(c.key, Absent, answer)
    BY <1>3 DEF ExecuteDel, Reads
  <2>2. c.key \in Keys
    BY <1>1, <2>1
  <2>3. QED
    BY <2>1, <2>2, MutateFaithful
<1>4. CASE ExecuteReadOnly(c)
  <2>1. UNCHANGED <<file, snap, mem, up, captured, allowed, lingering>>
    BY <1>4 DEF ExecuteReadOnly, files, background, expected
  <2>2. QED
    BY <2>1, SameFaithful
<1>5. CASE ExecuteExit(c)
  BY <1>5, StopFaithful DEF ExecuteExit
<1>6. QED
  BY <1>2, <1>3, <1>4, <1>5, ClearFaithful, CompactFaithful DEF Execute, c

LEMMA FaithfulStep ==
  ASSUME SavesBehindTail = FALSE, Storable, Placed, Faithful, [Next]_vars PROVE Faithful'
<1>1. CASE UNCHANGED vars
  BY <1>1, SameFaithful DEF vars
<1>2. CASE Kill \/ EndOfInput
  BY <1>2, StopFaithful DEF Kill, EndOfInput
<1>3. CASE \E line \in Lines : Execute(Parse(line))
  BY <1>3, ExecuteFaithful
<1>4. QED
  BY ZenonT(60), ZenonT(90), <1>1, <1>2, <1>3, StartFaithful, StartTruncatingFaithful,
     CaptureFaithful,
     SaveCapturedFaithful, SaveSnapshotFaithful, TruncateTailFaithful DEF Next

(* Whenever the process dies, the files hold for every key the value last  *)
(* acknowledged or one whose write failed since, and recovering again      *)
(* finds what the first recovery found: for all keys, values and lines,    *)
(* whatever log and snapshot the first process found, however many         *)
(* processes, failed calls and checkpoints there were, as long as no       *)
(* snapshot is saved behind a tail that replay cannot pass.                *)
THEOREM RecoveryRemembers == SavesBehindTail = FALSE /\ Spec => []Remembered
<1> SUFFICES ASSUME SavesBehindTail = FALSE PROVE Spec => []Remembered
  BY ZenonT(60), ZenonT(90)
<1>1. Storable /\ Placed /\ Faithful /\ [Next]_vars => (Storable /\ Placed /\ Faithful)'
  BY ZenonT(60), ZenonT(90), StorableStep, PlacedStep, FaithfulStep
<1>2. Faithful => Remembered
  BY DEF Faithful, Within, Remembered
<1>3. QED
  BY <1>1, <1>2, StorableInit, PlacedInit, FaithfulInit, PTL DEF Spec
==============================================================================
