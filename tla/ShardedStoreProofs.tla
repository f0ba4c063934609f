-------------------------- MODULE ShardedStoreProofs --------------------------
(***************************************************************************)
(* The inductive invariant of ShardedStore, for any threads, stores, keys, *)
(* shards and calls, and the proof that it acts as an atomic map.          *)
(*                                                                         *)
(* The argument: no two threads hold a lock unless both hold it shared     *)
(* (Exclusive); a thread that reads or writes an entry holds the lock of   *)
(* its shard in the right mode (LocksOk); so what a loop over the shards   *)
(* has read or still has to move is not changed by others (LoopOk), nor    *)
(* what a call on one key has seen of wal_ (SeenWalStays).                 *)
(***************************************************************************)
EXTENDS ShardedStore, TLAPS

(* Every leaf is tried with Z3, with Zenon, and again with Z3, unless it   *)
(* names its prover: the time to translate a leaf varies, and has a limit. *)
USE SMTT(20), ZenonT(20), SMTT(40), SMTT(60), SMTT(90)

Locks == Stores \X (0..kShardCount)
Modes == {"S", "X"}

Looping == {"self", "other", "read", "write"}
AllLocked == {"begin", "read", "write"}

(* Where a thread is says what kind of call it is in.                      *)
CallOk(t) ==
  LET c == call[t] IN
  /\ pc[t] = "idle" <=> c = Atomic!NoCall
  /\ pc[t] = "return" <=> res[t] # Atomic!NoResult
  /\ pc[t] \notin Looping => at[t] = 1
  /\ pc[t] # "idle" /\ c.op \in Atomic!Constructors => c.self = c.other
  /\ pc[t] = "same" => Atomic!SelfAssignment(c)
  /\ pc[t] \in {"shard", "append", "logged", "apply"} => c.op \in Atomic!PerKey
  /\ pc[t] \in {"append", "logged"} => c.op \in Atomic!Logged
  /\ pc[t] \in {"admin"} \cup Looping \cup AllLocked =>
       c.op \notin Atomic!PerKey /\ ~Atomic!SelfAssignment(c)
  /\ pc[t] = "other" => c.op \in Atomic!Assignments
  /\ pc[t] \in {"read", "write"} => ~Atomic!Refused(c)
  /\ pc[t] = "read" => c.op \in {"Size", "Copy", "CopyAssign"}
  /\ pc[t] = "write" => c.op \in {"Clear", "Move", "CopyAssign", "MoveAssign"}

(* The shard locks a thread has got so far.                                *)
LocksOk(t) ==
  LET c == call[t] IN
  /\ pc[t] \in {"append", "logged", "apply"} =>
       <<t, SelfMode(c)>> \in lock[<<c.self, Shard[c.key]>>]
  /\ pc[t] = "self" =>
       \A i \in Shards : i < at[t] => <<t, SelfMode(c)>> \in lock[<<c.self, i>>]
  /\ pc[t] \in {"other"} \cup AllLocked =>
       \A i \in Shards : <<t, SelfMode(c)>> \in lock[<<c.self, i>>]
  /\ pc[t] = "other" =>
       \A i \in Shards : i < at[t] => <<t, OtherMode(c)>> \in lock[<<c.other, i>>]
  /\ pc[t] \in AllLocked /\ c.op \in Atomic!Assignments =>
       \A i \in Shards : <<t, OtherMode(c)>> \in lock[<<c.other, i>>]

Source(c) == IF c.op = "Size" THEN c.self ELSE c.other

(* What a loop over the shards has done so far.                            *)
LoopOk(t) ==
  LET c == call[t] IN
  /\ pc[t] = "read" =>
       \A k \in Keys : Shard[k] < at[t] => got[t][k] = data[Source(c)][k]
  /\ pc[t] = "write" /\ c.op = "CopyAssign" =>
       \A k \in Keys : got[t][k] = data[c.other][k]
  /\ pc[t] = "write" =>
       \A s \in Written(c), k \in Keys :
         Shard[k] < at[t] => data[s][k] = Target(t, s)[k]

Exclusive ==
  \A x \in Locks, t, u \in Threads, m \in Modes :
    <<t, "X">> \in lock[x] /\ <<u, m>> \in lock[x] => u = t

IInv ==
  /\ TypeOK
  /\ res = [t \in Threads |-> res[t]]
  /\ Exclusive
  /\ \A t \in Threads : CallOk(t) /\ LocksOk(t) /\ LoopOk(t)

------------------------------------------------------------------------------
(* A step of one thread.                                                   *)
Moves(t) == (\E c \in CallsOf[t] : Invoke(t, c)) \/ Step(t)

(* A thread that is not idle is in a call of the declared form.            *)
LEMMA CallInProgress ==
  ASSUME IInv, NEW t \in Threads, pc[t] # "idle"
  PROVE  /\ call[t] \in Atomic!Call
         /\ call[t].self \in Stores /\ call[t].other \in Stores
         /\ call[t].key \in Keys /\ call[t].val \in Values
         /\ call[t].op \in Atomic!OpNames
         /\ Shard[call[t].key] \in Shards
<1>1. call[t] \in Atomic!Call
  BY DEF IInv, TypeOK, CallOk
<1>2. QED
  BY <1>1, ShardedStoreAssumption DEF Atomic!Call

(* The numbers a loop over the shards goes through.                        *)
LEMMA LoopNumbers ==
  ASSUME IInv, NEW t \in Threads
  PROVE  /\ at[t] \in Shards /\ at[t] \in Int /\ kShardCount \in Nat \ {0}
         /\ 1 \in Shards
         /\ at[t] # kShardCount => at[t] + 1 \in Shards
<1>1. kShardCount \in Nat \ {0}
  BY ShardedStoreAssumption
<1>2. at[t] \in Shards
  BY DEF IInv, TypeOK
<1>3. QED
  BY <1>1, <1>2 DEF Shards

(* A turn of a loop stays within the shards.                               *)
LEMMA LoopKeepsType ==
  ASSUME IInv, NEW t \in Threads, NEW l, LoopOrGoto(t, l)
  PROVE  /\ at' \in [Threads -> Shards]
         /\ pc' = [pc EXCEPT ![t] = IF at[t] = kShardCount THEN l ELSE pc[t]]
BY LoopNumbers DEF LoopOrGoto, Goto, IInv, TypeOK

(* Acquiring a lock keeps the type of lock.                                *)
LEMMA AcquireKeepsType ==
  ASSUME TypeOK, NEW t \in Threads, NEW x \in Locks, NEW m \in Modes, Acquire(t, x, m)
  PROVE  lock' \in [Locks -> SUBSET (Threads \X Modes)]
BY DEF Acquire, TypeOK, Locks, Modes

(* So does destroying the lock guards of a call.                           *)
LEMMA ReleaseKeepsType ==
  ASSUME TypeOK, NEW t \in Threads, ReleaseAll(t)
  PROVE  lock' \in [Locks -> SUBSET (Threads \X Modes)]
BY DEF ReleaseAll, TypeOK, Locks, Modes

(* A lock is taken shared or exclusively.                                  *)
LEMMA ModesAreModes ==
  ASSUME NEW c
  PROVE  SelfMode(c) \in Modes /\ OtherMode(c) \in Modes
BY DEF SelfMode, OtherMode, Modes

(* The end of a call keeps the types.                                      *)
LEMMA FinishKeepsType ==
  ASSUME IInv, NEW t \in Threads, NEW r, Finish(t, r)
  PROVE  /\ pc' \in [Threads -> Places]
         /\ res' = [u \in Threads |-> res'[u]]
         /\ lock' \in [Locks -> SUBSET (Threads \X Modes)]
<1>1. pc' \in [Threads -> Places]
  BY DEF Finish, Goto, IInv, TypeOK, Places
<1>2. res' = [u \in Threads |-> res'[u]]
  BY DEF Finish, IInv
<1>3. QED
  BY <1>1, <1>2, ReleaseKeepsType DEF Finish, IInv

(* Every step keeps the types.                                             *)
LEMMA TypeKept ==
  ASSUME IInv, NEW t \in Threads, Moves(t)
  PROVE  TypeOK' /\ res' = [u \in Threads |-> res'[u]]
<1> DEFINE Typed ==
      /\ pc' \in [Threads -> Places]
      /\ call' \in [Threads -> Atomic!Call \cup {Atomic!NoCall}]
      /\ at' \in [Threads -> Shards]
      /\ got' \in [Threads -> Atomic!Contents]
      /\ lock' \in [Locks -> SUBSET (Threads \X Modes)]
      /\ data' \in [Stores -> Atomic!Contents]
      /\ wal_' \in [Stores -> BOOLEAN]
      /\ calls' \in [Threads -> 0..MaxCalls]
      /\ res' = [u \in Threads |-> res'[u]]
<1>0. SUFFICES Typed
  BY DEF TypeOK, Locks, Modes
<1>t. /\ pc \in [Threads -> Places]
      /\ call \in [Threads -> Atomic!Call \cup {Atomic!NoCall}]
      /\ at \in [Threads -> Shards]
      /\ got \in [Threads -> Atomic!Contents]
      /\ lock \in [Locks -> SUBSET (Threads \X Modes)]
      /\ data \in [Stores -> Atomic!Contents]
      /\ wal_ \in [Stores -> BOOLEAN]
      /\ calls \in [Threads -> 0..MaxCalls]
      /\ res = [u \in Threads |-> res[u]]
  BY DEF IInv, TypeOK, Locks, Modes
<1>n. at[t] \in Shards /\ 1 \in Shards /\ kShardCount \in Nat
  BY LoopNumbers
<1>1. ASSUME NEW c \in CallsOf[t], Invoke(t, c)
      PROVE  Typed
  <2>1. c \in Atomic!Call
    BY ShardedStoreAssumption
  <2>2. calls' \in [Threads -> 0..MaxCalls]
    BY <1>1, <1>t, ShardedStoreAssumption DEF Invoke
  <2>3. pc' \in [Threads -> Places]
    BY <1>1, <1>t DEF Invoke, Goto, Places
  <2>4. QED
    BY <1>1, <1>t, <2>1, <2>2, <2>3 DEF Invoke
<1>2. CASE SameStore(t)
  BY <1>2, <1>t, FinishKeepsType DEF SameStore
<1>3. CASE LockShard(t)
  <2>1. <<call[t].self, Shard[call[t].key]>> \in Locks
    BY <1>3, CallInProgress, ShardedStoreAssumption DEF LockShard, Locks, Shards
  <2>2. lock' \in [Locks -> SUBSET (Threads \X Modes)]
    BY <1>3, <2>1, AcquireKeepsType, ModesAreModes DEF LockShard, IInv
  <2>3. pc' \in [Threads -> Places]
    BY <1>3, <1>t DEF LockShard, Goto, Places
  <2>4. QED
    BY <1>3, <1>t, <2>2, <2>3 DEF LockShard
<1>4. CASE AppendToWal(t)
  BY <1>4, <1>t DEF AppendToWal, Goto, Places
<1>5. CASE AppendThrows(t)
  BY <1>5, <1>t, FinishKeepsType DEF AppendThrows
<1>6. CASE ApplyToKey(t)
  <2>1. data' \in [Stores -> Atomic!Contents]
    BY <1>6, <1>t, CallInProgress DEF ApplyToKey, Atomic!Contents
  <2>2. QED
    BY <1>6, <1>t, <2>1, FinishKeepsType DEF ApplyToKey
<1>7. CASE LockAdmin(t)
  <2>1. <<call[t].self, 0>> \in Locks
    BY <1>7, <1>n, CallInProgress DEF LockAdmin, Locks
  <2>2. lock' \in [Locks -> SUBSET (Threads \X Modes)]
    BY <1>7, <2>1, AcquireKeepsType, ModesAreModes DEF LockAdmin, IInv
  <2>3. pc' \in [Threads -> Places]
    BY <1>7, <1>t DEF LockAdmin, Goto, Places
  <2>4. QED
    BY <1>7, <1>t, <2>2, <2>3 DEF LockAdmin
<1>8. CASE LockBoth(t)
  <2>1. <<call[t].self, 0>> \in Locks /\ <<call[t].other, 0>> \in Locks
    BY <1>8, <1>n, CallInProgress DEF LockBoth, Locks
  <2>2. lock' \in [Locks -> SUBSET (Threads \X Modes)]
    BY <1>8, <1>t, <2>1 DEF LockBoth, OtherMode, Modes
  <2>3. pc' \in [Threads -> Places]
    BY <1>8, <1>t DEF LockBoth, Goto, Places
  <2>4. QED
    BY <1>8, <1>t, <2>2, <2>3 DEF LockBoth
<1>9. CASE LockOwnShards(t)
  <2>1. <<call[t].self, at[t]>> \in Locks
    BY <1>9, <1>n, CallInProgress DEF LockOwnShards, Locks, Shards
  <2>2. lock' \in [Locks -> SUBSET (Threads \X Modes)]
    BY <1>9, <2>1, AcquireKeepsType, ModesAreModes DEF LockOwnShards, IInv
  <2>3. at' \in [Threads -> Shards] /\ pc' \in [Threads -> Places]
    BY <1>9, <1>t, LoopKeepsType DEF LockOwnShards, Places
  <2>4. QED
    BY <1>9, <1>t, <2>2, <2>3 DEF LockOwnShards
<1>10. CASE LockOtherShards(t)
  <2>1. <<call[t].other, at[t]>> \in Locks
    BY <1>10, <1>n, CallInProgress DEF LockOtherShards, Locks, Shards
  <2>2. lock' \in [Locks -> SUBSET (Threads \X Modes)]
    BY <1>10, <2>1, AcquireKeepsType, ModesAreModes DEF LockOtherShards, IInv
  <2>3. at' \in [Threads -> Shards] /\ pc' \in [Threads -> Places]
    BY <1>10, <1>t, LoopKeepsType DEF LockOtherShards, Places
  <2>4. QED
    BY <1>10, <1>t, <2>2, <2>3 DEF LockOtherShards
<1>11. CASE Refuse(t)
  BY <1>11, <1>t, FinishKeepsType DEF Refuse
<1>12. CASE Begin(t)
  BY <1>12, <1>t DEF Begin, Goto, Places
<1>13. CASE ReadShard(t)
  <2> DEFINE s == Source(call[t])
             seen == [k \in Keys |-> IF Shard[k] = at[t] THEN data[s][k] ELSE got[t][k]]
  <2>1. s \in Stores
    BY <1>13, CallInProgress DEF ReadShard, Source
  <2>2. seen \in Atomic!Contents
    BY <1>t, <2>1 DEF Atomic!Contents
  <2>3. got' = [got EXCEPT ![t] = seen]
    BY <1>13 DEF ReadShard, Source
  <2>4. got' \in [Threads -> Atomic!Contents]
    BY <1>t, <2>2, <2>3
  <2>5. /\ at' \in [Threads -> Shards] /\ pc' \in [Threads -> Places]
        /\ lock' \in [Locks -> SUBSET (Threads \X Modes)]
        /\ res' = [u \in Threads |-> res'[u]]
    <3>1. CASE at[t] = kShardCount /\ call[t].op # "CopyAssign"
      BY <1>13, <1>t, <1>n, <3>1, FinishKeepsType DEF ReadShard
    <3>2. CASE ~(at[t] = kShardCount /\ call[t].op # "CopyAssign")
      <4>1. LoopOrGoto(t, "write") /\ UNCHANGED <<res, lock>>
        BY <1>13, <3>2 DEF ReadShard
      <4>2. QED
        BY <4>1, <1>t, LoopKeepsType DEF Places
    <3>3. QED
      BY <3>1, <3>2
  <2>6. QED
    BY <1>13, <1>t, <2>4, <2>5 DEF ReadShard
<1>14. CASE WriteShard(t)
  <2>1. call[t].other \in Stores
    BY <1>14, CallInProgress DEF WriteShard
  <2>2. data' \in [Stores -> Atomic!Contents]
    BY <1>14, <1>t, <2>1 DEF WriteShard, Atomic!Contents
  <2>3. got' \in [Threads -> Atomic!Contents]
    BY <1>14, <1>t, <2>1 DEF WriteShard, Atomic!Contents
  <2>4. /\ at' \in [Threads -> Shards] /\ pc' \in [Threads -> Places]
        /\ lock' \in [Locks -> SUBSET (Threads \X Modes)]
        /\ wal_' \in [Stores -> BOOLEAN]
        /\ res' = [u \in Threads |-> res'[u]]
    <3>1. CASE at[t] = kShardCount
      <4>1. wal_' \in [Stores -> BOOLEAN]
        <5>1. \A s \in Stores : wal_[s] \in BOOLEAN
          BY <1>t
        <5>2. wal_' = [s \in Stores |->
                IF s = call[t].self /\ call[t].op \in Atomic!Assignments
                THEN wal_[call[t].other]
                ELSE IF s = call[t].other /\ call[t].op \in {"Move", "MoveAssign"} THEN FALSE
                ELSE wal_[s]]
          BY ZenonT(60), ZenonT(90), <1>14, <3>1 DEF WriteShard
        <5>3. QED
          BY ZenonT(60), ZenonT(90), <2>1, <5>1, <5>2
      <4>2. QED
        BY ZenonT(60), ZenonT(90), <1>14, <1>t, <1>n, <3>1, <4>1, FinishKeepsType DEF WriteShard
    <3>2. CASE at[t] # kShardCount
      <4>1. LoopOrGoto(t, "write") /\ UNCHANGED <<res, lock, wal_>>
        BY <1>14, <3>2 DEF WriteShard
      <4>2. QED
        BY <4>1, <1>t, LoopKeepsType DEF Places
    <3>3. QED
      BY <3>1, <3>2
  <2>5. QED
    BY <1>14, <1>t, <2>2, <2>3, <2>4 DEF WriteShard
<1>15. CASE Return(t)
  BY <1>15, <1>t DEF Return, Goto, Places
<1>16. QED
  BY <1>1, <1>2, <1>3, <1>4, <1>5, <1>6, <1>7, <1>8, <1>9, <1>10, <1>11, <1>12,
     <1>13, <1>14, <1>15 DEF Moves, Step

------------------------------------------------------------------------------
(* Locks: acquiring one keeps all that are held and lets nobody in beside  *)
(* an exclusive holder; the guards of a call release only its own.         *)
LEMMA AcquireEffect ==
  ASSUME TypeOK, Exclusive, NEW t \in Threads, NEW x \in Locks, NEW m \in Modes,
         Acquire(t, x, m)
  PROVE  /\ Exclusive'
         /\ <<t, m>> \in lock'[x]
         /\ \A y \in Locks : lock[y] \subseteq lock'[y]
         /\ \A y \in Locks, u \in Threads \ {t}, n \in Modes :
              <<u, n>> \in lock'[y] <=> <<u, n>> \in lock[y]
<1>1. /\ lock \in [Locks -> SUBSET (Threads \X Modes)]
      /\ lock' = [lock EXCEPT ![x] = @ \cup {<<t, m>>}]
      /\ \A h \in lock[x] : m = "S" /\ h[2] = "S"
  BY DEF TypeOK, Locks, Modes, Acquire, Free
<1>2. \A u \in Threads, n \in Modes : <<u, n>> \in lock[x] => m = "S" /\ n = "S"
  BY <1>1
<1>3. \A y \in Locks : lock'[y] = IF y = x THEN lock[x] \cup {<<t, m>>} ELSE lock[y]
  BY <1>1
<1>4. Exclusive'
  <2>1. SUFFICES ASSUME NEW y \in Locks, NEW v \in Threads, NEW u \in Threads,
                        NEW n \in Modes, <<v, "X">> \in lock'[y], <<u, n>> \in lock'[y]
                 PROVE  u = v
    BY DEF Exclusive
  <2>2. CASE y # x
    BY <2>1, <2>2, <1>3 DEF Exclusive
  <2>3. CASE y = x
    <3>1. <<v, "X">> \in lock[x] \cup {<<t, m>>} /\ <<u, n>> \in lock[x] \cup {<<t, m>>}
      BY <2>1, <2>3, <1>3
    <3>2. <<v, "X">> \notin lock[x]
      BY ZenonT(60), ZenonT(90), <1>2 DEF Modes
    <3>3. v = t /\ m = "X"
      BY <3>1, <3>2
    <3>4. <<u, n>> \notin lock[x]
      BY <1>2, <3>3
    <3>5. QED
      BY <3>1, <3>3, <3>4
  <2>4. QED
    BY <2>2, <2>3
<1>5. QED
  BY <1>3, <1>4

(* Destroying lock guards takes nothing from other threads.                *)
LEMMA ReleaseEffect ==
  ASSUME TypeOK, Exclusive, NEW t \in Threads, ReleaseAll(t)
  PROVE  /\ Exclusive'
         /\ \A y \in Locks, u \in Threads \ {t}, n \in Modes :
              <<u, n>> \in lock'[y] <=> <<u, n>> \in lock[y]
<1>1. \A y \in Locks : lock'[y] = {h \in lock[y] : h[1] # t}
  BY DEF TypeOK, Locks, ReleaseAll
<1>2. \A y \in Locks : lock'[y] \subseteq lock[y]
  BY <1>1
<1>3. Exclusive'
  BY <1>2 DEF Exclusive
<1>4. \A y \in Locks, u \in Threads \ {t}, n \in Modes :
        <<u, n>> \in lock'[y] <=> <<u, n>> \in lock[y]
  BY <1>1
<1>5. QED
  BY <1>3, <1>4

(* The two mutex_ of an assignment.                                        *)
LEMMA LockBothEffect ==
  ASSUME IInv, NEW t \in Threads, LockBoth(t)
  PROVE  /\ Exclusive'
         /\ \A y \in Locks, u \in Threads \ {t}, n \in Modes :
              <<u, n>> \in lock'[y] <=> <<u, n>> \in lock[y]
<1> DEFINE c == call[t]
           x == <<c.self, 0>>
           z == <<c.other, 0>>
<1>1. lock \in [Locks -> SUBSET (Threads \X Modes)]
  BY DEF IInv, TypeOK, Locks, Modes
<1>2. x \in Locks /\ z \in Locks
  BY CallInProgress, LoopNumbers DEF LockBoth, Locks
<1>3. x # z
  BY CallInProgress DEF LockBoth, IInv, CallOk, Atomic!SelfAssignment
<1>4. \A y \in Locks :
        lock'[y] = IF y = x THEN lock[x] \cup {<<t, "X">>}
                   ELSE IF y = z THEN lock[z] \cup {<<t, OtherMode(c)>>} ELSE lock[y]
  BY ZenonT(60), ZenonT(90), <1>1, <1>2, <1>3 DEF LockBoth
<1>5. /\ \A h \in lock[x] : FALSE
      /\ \A h \in lock[z] : OtherMode(c) = "S" /\ h[2] = "S"
  BY DEF LockBoth, Free
<1>6. \A u \in Threads, n \in Modes : <<u, n>> \in lock[z] => OtherMode(c) = "S" /\ n = "S"
  BY <1>5
<1>7. Exclusive'
  <2>1. SUFFICES ASSUME NEW y \in Locks, NEW v \in Threads, NEW u \in Threads,
                        NEW n \in Modes, <<v, "X">> \in lock'[y], <<u, n>> \in lock'[y]
                 PROVE  u = v
    BY DEF Exclusive
  <2>2. CASE y # x /\ y # z
    <3>1. lock'[y] = lock[y]
      BY <2>2, <1>4
    <3>2. QED
      BY <2>1, <3>1 DEF Exclusive, IInv
  <2>3. CASE y = x
    <3>1. <<v, "X">> \in lock[x] \cup {<<t, "X">>} /\ <<u, n>> \in lock[x] \cup {<<t, "X">>}
      BY <2>1, <2>3, <1>4
    <3>2. QED
      BY <3>1, <1>5
  <2>4. CASE y = z
    <3> DEFINE m == OtherMode(c)
    <3> HIDE DEF m
    <3>1. <<v, "X">> \in lock[z] \cup {<<t, m>>} /\ <<u, n>> \in lock[z] \cup {<<t, m>>}
      BY <2>1, <2>4, <1>3, <1>4 DEF m
    <3>2. <<v, "X">> \notin lock[z]
      BY ZenonT(60), ZenonT(90), <1>6 DEF Modes
    <3>3. v = t /\ m = "X"
      BY <3>1, <3>2
    <3>4. <<u, n>> \notin lock[z]
      BY <1>6, <3>3 DEF m
    <3>5. QED
      BY <3>1, <3>3, <3>4
  <2>5. QED
    BY <2>2, <2>3, <2>4
<1>8. QED
  BY <1>4, <1>7

(* Every shard of every store has its lock.                                *)
LEMMA ShardLocks ==
  ASSUME NEW s \in Stores, NEW i \in Shards
  PROVE  <<s, i>> \in Locks
BY ShardedStoreAssumption DEF Locks, Shards

(* A thread in a writing loop has the stores it changes to itself.         *)
LEMMA WriterHolds ==
  ASSUME IInv, NEW t \in Threads, pc[t] = "write", NEW s \in Written(call[t])
  PROVE  /\ s \in Stores
         /\ \A i \in Shards : <<s, i>> \in Locks /\ <<t, "X">> \in lock[<<s, i>>]
<1> DEFINE c == call[t]
<1>1. /\ c.self \in Stores /\ c.other \in Stores
      /\ c.op \in {"Clear", "Move", "CopyAssign", "MoveAssign"}
      /\ c.op = "Move" => c.self = c.other
  BY CallInProgress DEF IInv, CallOk, Atomic!Constructors
<1>2. /\ \A i \in Shards : <<t, "X">> \in lock[<<c.self, i>>]
      /\ c.op = "MoveAssign" => \A i \in Shards : <<t, "X">> \in lock[<<c.other, i>>]
  BY ZenonT(60), ZenonT(90), <1>1
     DEF IInv, LocksOk, AllLocked, SelfMode, OtherMode, Atomic!Assignments
<1>3. s = c.self \/ (s = c.other /\ c.op \in {"Move", "MoveAssign"})
  BY <1>1 DEF Written
<1>4. QED
  BY <1>1, <1>2, <1>3, ShardLocks

(* A step leaves the other threads where they are, with their locks, and   *)
(* changes only entries whose shard its thread holds exclusively.          *)
LEMMA Frame ==
  ASSUME IInv, NEW t \in Threads, Moves(t)
  PROVE  /\ \A u \in Threads \ {t} :
              /\ pc'[u] = pc[u] /\ call'[u] = call[u] /\ res'[u] = res[u]
              /\ at'[u] = at[u] /\ got'[u] = got[u]
         /\ Exclusive'
         /\ \A y \in Locks, u \in Threads \ {t}, n \in Modes :
              <<u, n>> \in lock'[y] <=> <<u, n>> \in lock[y]
         /\ \A s \in Stores, k \in Keys :
              data'[s][k] # data[s][k] => <<t, "X">> \in lock[<<s, Shard[k]>>]
<1> DEFINE Others == \A u \in Threads \ {t} :
              /\ pc'[u] = pc[u] /\ call'[u] = call[u] /\ res'[u] = res[u]
              /\ at'[u] = at[u] /\ got'[u] = got[u]
           OtherLocks == \A y \in Locks, u \in Threads \ {t}, n \in Modes :
              <<u, n>> \in lock'[y] <=> <<u, n>> \in lock[y]
           Guarded == \A s \in Stores, k \in Keys :
              data'[s][k] # data[s][k] => <<t, "X">> \in lock[<<s, Shard[k]>>]
<1>t. /\ pc \in [Threads -> Places]
      /\ call \in [Threads -> Atomic!Call \cup {Atomic!NoCall}]
      /\ at \in [Threads -> Shards]
      /\ got \in [Threads -> Atomic!Contents]
      /\ data \in [Stores -> Atomic!Contents]
      /\ res = [u \in Threads |-> res[u]]
      /\ TypeOK /\ Exclusive
  BY DEF IInv, TypeOK
<1>n. at[t] \in Shards /\ kShardCount \in Nat
  BY LoopNumbers
<1>l. ASSUME UNCHANGED lock
      PROVE  Exclusive' /\ OtherLocks
  BY <1>l, <1>t DEF Exclusive
<1>f. ASSUME NEW r, Finish(t, r)
      PROVE  /\ Exclusive' /\ OtherLocks
             /\ \A u \in Threads \ {t} : pc'[u] = pc[u] /\ res'[u] = res[u]
  BY <1>f, <1>t, ReleaseEffect DEF Finish, Goto
<1>g. ASSUME NEW l, LoopOrGoto(t, l)
      PROVE  \A u \in Threads \ {t} : pc'[u] = pc[u] /\ at'[u] = at[u]
  BY <1>g, <1>t DEF LoopOrGoto, Goto
<1>1. ASSUME NEW c \in CallsOf[t], Invoke(t, c)
      PROVE  Others /\ Exclusive' /\ OtherLocks /\ Guarded
  BY <1>1, <1>t, <1>l DEF Invoke, Goto
<1>2. CASE SameStore(t)
  BY <1>2, <1>t, <1>f DEF SameStore
<1>3. CASE LockShard(t)
  <2>1. <<call[t].self, Shard[call[t].key]>> \in Locks
    BY <1>3, CallInProgress, ShardLocks DEF LockShard
  <2>2. Exclusive' /\ OtherLocks
    BY ZenonT(60), ZenonT(90), <1>3, <1>t, <2>1, AcquireEffect, ModesAreModes DEF LockShard
  <2>3. QED
    BY <1>3, <1>t, <2>2 DEF LockShard, Goto
<1>4. CASE AppendToWal(t)
  BY <1>4, <1>t, <1>l DEF AppendToWal, Goto
<1>5. CASE AppendThrows(t)
  BY <1>5, <1>t, <1>f DEF AppendThrows
<1>6. CASE ApplyToKey(t)
  <2> DEFINE c == call[t]
  <2>1. c.self \in Stores /\ c.key \in Keys
    BY <1>6, CallInProgress DEF ApplyToKey
  <2>2. c.op \in {"Set", "Delete"} => <<t, "X">> \in lock[<<c.self, Shard[c.key]>>]
    BY ZenonT(60), ZenonT(90), <1>6 DEF ApplyToKey, IInv, LocksOk, SelfMode
  <2>3. c.op \notin {"Set", "Delete"} => data' = data
    BY <1>6 DEF ApplyToKey
  <2>4. \A s \in Stores, k \in Keys : s # c.self \/ k # c.key => data'[s][k] = data[s][k]
    BY <1>6, <1>t, <2>1 DEF ApplyToKey, Atomic!Contents
  <2>5. Guarded
    BY <2>2, <2>3, <2>4
  <2>6. QED
    BY ZenonT(60), ZenonT(90), <1>6, <1>t, <1>f, <2>5 DEF ApplyToKey
<1>7. CASE LockAdmin(t)
  <2>1. <<call[t].self, 0>> \in Locks
    BY <1>7, <1>n, CallInProgress DEF LockAdmin, Locks
  <2>2. Exclusive' /\ OtherLocks
    BY ZenonT(60), ZenonT(90), <1>7, <1>t, <2>1, AcquireEffect, ModesAreModes DEF LockAdmin
  <2>3. QED
    BY <1>7, <1>t, <2>2 DEF LockAdmin, Goto
<1>8. CASE LockBoth(t)
  BY ZenonT(60), ZenonT(90), <1>8, <1>t, LockBothEffect DEF LockBoth, Goto
<1>9. CASE LockOwnShards(t)
  <2>1. <<call[t].self, at[t]>> \in Locks
    BY <1>9, <1>n, CallInProgress, ShardLocks DEF LockOwnShards
  <2>2. Exclusive' /\ OtherLocks
    BY ZenonT(60), ZenonT(90), <1>9, <1>t, <2>1, AcquireEffect, ModesAreModes DEF LockOwnShards
  <2>3. QED
    BY <1>9, <1>t, <1>g, <2>2 DEF LockOwnShards
<1>10. CASE LockOtherShards(t)
  <2>1. <<call[t].other, at[t]>> \in Locks
    BY <1>10, <1>n, CallInProgress, ShardLocks DEF LockOtherShards
  <2>2. Exclusive' /\ OtherLocks
    BY ZenonT(60), ZenonT(90), <1>10, <1>t, <2>1, AcquireEffect, ModesAreModes DEF LockOtherShards
  <2>3. QED
    BY <1>10, <1>t, <1>g, <2>2 DEF LockOtherShards
<1>11. CASE Refuse(t)
  BY <1>11, <1>t, <1>f DEF Refuse
<1>12. CASE Begin(t)
  BY <1>12, <1>t, <1>l DEF Begin, Goto
<1>13. CASE ReadShard(t)
  <2>1. CASE at[t] = kShardCount /\ call[t].op # "CopyAssign"
    BY <1>13, <1>t, <1>f, <2>1 DEF ReadShard
  <2>2. CASE ~(at[t] = kShardCount /\ call[t].op # "CopyAssign")
    BY <1>13, <1>t, <1>l, <1>g, <2>2 DEF ReadShard
  <2>3. QED
    BY <2>1, <2>2
<1>14. CASE WriteShard(t)
  <2>1. pc[t] = "write"
    BY <1>14 DEF WriteShard
  <2>2. \A s \in Stores, k \in Keys :
          data'[s][k] # data[s][k] => s \in Written(call[t])
    BY <1>14 DEF WriteShard
  <2>3. Guarded
    BY <2>1, <2>2, WriterHolds, ShardedStoreAssumption
  <2>4. \A u \in Threads \ {t} : got'[u] = got[u] /\ call'[u] = call[u]
    BY <1>14, <1>t DEF WriteShard
  <2>5. CASE at[t] = kShardCount
    BY ZenonT(60), ZenonT(90), <1>14, <1>t, <1>f, <2>3, <2>4, <2>5 DEF WriteShard
  <2>6. CASE at[t] # kShardCount
    BY ZenonT(60), ZenonT(90), <1>14, <1>t, <1>l, <1>g, <2>3, <2>4, <2>6 DEF WriteShard
  <2>7. QED
    BY ZenonT(60), ZenonT(90), <2>5, <2>6
<1>15. CASE Return(t)
  BY <1>15, <1>t, <1>l DEF Return, Goto
<1>16. QED
  BY ZenonT(60), ZenonT(90), <1>1, <1>2, <1>3, <1>4, <1>5, <1>6, <1>7, <1>8, <1>9, <1>10, <1>11,
     <1>12,
     <1>13, <1>14, <1>15 DEF Moves, Step

(* A thread in a loop has the store it reads locked.                       *)
LEMMA ReaderHolds ==
  ASSUME IInv, NEW t \in Threads, pc[t] \in AllLocked, call[t].op # "Clear"
  PROVE  /\ Source(call[t]) \in Stores
         /\ \E m \in Modes : \A i \in Shards :
              <<Source(call[t]), i>> \in Locks /\ <<t, m>> \in lock[<<Source(call[t]), i>>]
<1> DEFINE c == call[t]
<1>1. /\ c.self \in Stores /\ c.other \in Stores
      /\ c.op \in Atomic!OpNames \ Atomic!PerKey
      /\ c.op \in Atomic!Constructors => c.self = c.other
  BY CallInProgress DEF IInv, CallOk, AllLocked
<1>2. CASE c.op \in Atomic!Assignments
  BY ZenonT(60), ZenonT(90), <1>1, <1>2, ModesAreModes, ShardLocks
     DEF IInv, LocksOk, AllLocked, Source, Atomic!Assignments
<1>3. CASE c.op \in Atomic!Constructors \cup {"Size"}
  <2>1. Source(c) = c.self
    BY <1>1, <1>3 DEF Source, Atomic!Constructors
  <2>2. QED
    BY ZenonT(60), ZenonT(90), <1>1, <2>1, ModesAreModes, ShardLocks DEF IInv, LocksOk, AllLocked
<1>4. QED
  BY <1>1, <1>2, <1>3 DEF Atomic!OpNames

(* What a thread has locked, in whatever mode, another's step keeps.       *)
LEMMA Protected ==
  ASSUME IInv, NEW t \in Threads, Moves(t), NEW u \in Threads \ {t}, NEW m \in Modes,
         NEW s \in Stores, NEW k \in Keys, <<u, m>> \in lock[<<s, Shard[k]>>]
  PROVE  data'[s][k] = data[s][k]
<1>1. <<s, Shard[k]>> \in Locks
  BY ShardLocks, ShardedStoreAssumption
<1>2. <<t, "X">> \notin lock[<<s, Shard[k]>>]
  BY <1>1 DEF IInv, Exclusive
<1>3. QED
  BY ZenonT(60), ZenonT(90), <1>2, Frame

(* The store a thread in a loop reads from is not changed by others.       *)
LEMMA SourceKept ==
  ASSUME IInv, NEW t \in Threads, Moves(t), NEW u \in Threads \ {t},
         pc[u] \in AllLocked, call[u].op # "Clear", NEW k \in Keys
  PROVE  data'[Source(call[u])][k] = data[Source(call[u])][k]
<1>1. Shard[k] \in Shards
  BY ShardedStoreAssumption
<1>2. u \in Threads
  OBVIOUS
<1>3. Source(call[u]) \in Stores
  BY <1>2, ReaderHolds
<1>4. PICK m \in Modes : \A i \in Shards : <<u, m>> \in lock[<<Source(call[u]), i>>]
  BY <1>2, ReaderHolds
<1>5. QED
  BY ZenonT(60), ZenonT(90), <1>1, <1>3, <1>4, Protected

(* Nor are the stores it is changing.                                      *)
LEMMA WrittenKept ==
  ASSUME IInv, NEW t \in Threads, Moves(t), NEW u \in Threads \ {t},
         pc[u] = "write", NEW s \in Written(call[u]), NEW k \in Keys
  PROVE  data'[s][k] = data[s][k]
<1>1. Shard[k] \in Shards
  BY ShardedStoreAssumption
<1>2. u \in Threads
  OBVIOUS
<1>3. s \in Stores /\ <<u, "X">> \in lock[<<s, Shard[k]>>]
  BY <1>1, <1>2, WriterHolds
<1>4. "X" \in Modes
  BY DEF Modes
<1>5. QED
  BY <1>3, <1>4, Protected

(* The step of one thread keeps what is said of the others.                *)
LEMMA OthersKept ==
  ASSUME IInv, NEW t \in Threads, Moves(t), NEW u \in Threads \ {t}
  PROVE  CallOk(u)' /\ LocksOk(u)' /\ LoopOk(u)'
<1> DEFINE c == call[u]
<1>1. /\ pc'[u] = pc[u] /\ call'[u] = call[u] /\ res'[u] = res[u]
      /\ at'[u] = at[u] /\ got'[u] = got[u]
  BY ZenonT(60), ZenonT(90), Frame
<1>2. CallOk(u) /\ LocksOk(u) /\ LoopOk(u)
  BY DEF IInv
<1>3. CallOk(u)'
  BY <1>1, <1>2 DEF CallOk
<1>4. LocksOk(u)'
  <2>1. \A y \in Locks, n \in Modes : <<u, n>> \in lock[y] => <<u, n>> \in lock'[y]
    BY ZenonT(60), ZenonT(90), Frame
  <2>2. CASE pc[u] = "idle"
    BY <1>1, <2>2 DEF LocksOk, AllLocked
  <2>3. CASE pc[u] # "idle"
    <3>1. /\ c.self \in Stores /\ c.other \in Stores
          /\ Shard[c.key] \in Shards
      BY <2>3, CallInProgress
    <3>2. \A s \in Stores, i \in Shards : <<s, i>> \in Locks
      BY ZenonT(60), ZenonT(90), ShardLocks
    <3>3. SelfMode(c) \in Modes /\ OtherMode(c) \in Modes
      BY ModesAreModes
    <3>4. QED
      BY <1>1, <1>2, <2>1, <3>1, <3>2, <3>3 DEF LocksOk
  <2>4. QED
    BY <2>2, <2>3
<1>5. LoopOk(u)'
  <2>1. ASSUME pc[u] = "read", NEW k \in Keys, Shard[k] < at[u]
        PROVE  got'[u][k] = data'[Source(c)][k]
    <3>1. c.op # "Clear"
      BY <1>2, <2>1 DEF CallOk
    <3>2. data'[Source(c)][k] = data[Source(c)][k]
      BY <2>1, <3>1, SourceKept DEF AllLocked
    <3>3. QED
      BY <1>1, <1>2, <2>1, <3>2 DEF LoopOk
  <2>2. ASSUME pc[u] = "write", c.op = "CopyAssign", NEW k \in Keys
        PROVE  got'[u][k] = data'[c.other][k]
    <3>1. data'[c.other][k] = data[c.other][k]
      BY <2>2, SourceKept DEF AllLocked, Source
    <3>2. QED
      BY <1>1, <1>2, <2>2, <3>1 DEF LoopOk
  <2>3. ASSUME pc[u] = "write", NEW s \in Written(c), NEW k \in Keys, Shard[k] < at[u]
        PROVE  data'[s][k] = Target(u, s)'[k]
    <3>1. data'[s][k] = data[s][k]
      BY <2>3, WrittenKept
    <3>2. data[s][k] = Target(u, s)[k]
      BY <1>2, <2>3 DEF LoopOk
    <3>3. Target(u, s)'[k] = Target(u, s)[k]
      BY <1>1, <2>3, <3>1 DEF Target
    <3>4. QED
      BY <3>1, <3>2, <3>3
  <2>4. QED
    BY <1>1, <2>1, <2>2, <2>3 DEF LoopOk
<1>6. QED
  BY <1>3, <1>4, <1>5

------------------------------------------------------------------------------
(* The thread that moves.                                                  *)

(* No result is mistaken for the lack of one.                              *)
LEMMA ResultsDiffer ==
  ASSUME NEW x
  PROVE  /\ Atomic!Done # Atomic!NoResult /\ Atomic!Thrown # Atomic!NoResult
         /\ <<"value", x>> # Atomic!NoResult /\ <<"found", x>> # Atomic!NoResult
         /\ <<"size", x>> # Atomic!NoResult /\ <<"store", x>> # Atomic!NoResult
BY DEF Atomic!Done, Atomic!Thrown, Atomic!NoResult

(* A call that ends leaves nothing behind but its result.                  *)
LEMMA FinishKeeps ==
  ASSUME IInv, NEW t \in Threads, pc[t] # "idle", NEW r, r # Atomic!NoResult,
         Finish(t, r), UNCHANGED call, at'[t] = 1
  PROVE  CallOk(t)' /\ LocksOk(t)' /\ LoopOk(t)'
<1>1. pc'[t] = "return" /\ res'[t] = r /\ call'[t] = call[t]
  <2>1. pc'[t] = "return" /\ call'[t] = call[t]
    BY DEF Finish, Goto, IInv, TypeOK
  <2>2. res'[t] = r
    BY DEF Finish, IInv
  <2>3. QED
    BY <2>1, <2>2
<1>2. /\ call[t] # Atomic!NoCall
      /\ call[t].op \in Atomic!Constructors => call[t].self = call[t].other
  BY DEF IInv, CallOk
<1>3. CallOk(t)'
  BY <1>1, <1>2 DEF CallOk, Looping, AllLocked
<1>4. LocksOk(t)' /\ LoopOk(t)'
  BY <1>1 DEF LocksOk, LoopOk, AllLocked
<1>5. QED
  BY <1>3, <1>4

(* The step of a thread keeps what is said of the thread itself.           *)
LEMMA OwnKept ==
  ASSUME IInv, NEW t \in Threads, Moves(t)
  PROVE  CallOk(t)' /\ LocksOk(t)' /\ LoopOk(t)'
<1> DEFINE c == call[t]
           Kept == CallOk(t)' /\ LocksOk(t)' /\ LoopOk(t)'
<1>t. /\ pc \in [Threads -> Places]
      /\ call \in [Threads -> Atomic!Call \cup {Atomic!NoCall}]
      /\ at \in [Threads -> Shards]
      /\ got \in [Threads -> Atomic!Contents]
      /\ data \in [Stores -> Atomic!Contents]
      /\ TypeOK /\ Exclusive
  BY DEF IInv, TypeOK
<1>o. CallOk(t) /\ LocksOk(t) /\ LoopOk(t)
  BY DEF IInv
<1>n. /\ at[t] \in Shards /\ kShardCount \in Nat \ {0} /\ Shards = 1..kShardCount
      /\ \A k \in Keys : Shard[k] \in Shards
  BY LoopNumbers, ShardedStoreAssumption DEF Shards
<1>1. ASSUME NEW d \in CallsOf[t], Invoke(t, d)
      PROVE  Kept
  <2>1. /\ d \in Atomic!Call /\ d # Atomic!NoCall /\ d.op \in Atomic!OpNames
        /\ d.op \in Atomic!Constructors => d.self = d.other
    BY ShardedStoreAssumption DEF Atomic!Call, Atomic!NoCall, Atomic!OpNames,
       Atomic!PerKey, Atomic!Logged, Atomic!Constructors, Atomic!Assignments
  <2>2. pc[t] = "idle" /\ call'[t] = d /\ at'[t] = at[t] /\ res'[t] = res[t]
    BY <1>1, <1>t DEF Invoke
  <2>3. at[t] = 1 /\ res[t] = Atomic!NoResult
    BY <1>o, <2>2 DEF CallOk, Looping
  <2>4. pc'[t] = CASE d.op \in Atomic!PerKey -> "shard"
                   [] d.op = "Size" -> "self"
                   [] Atomic!SelfAssignment(d) -> "same"
                   [] OTHER -> "admin"
    BY <1>1, <1>t DEF Invoke, Goto
  <2>5. /\ d.op \in Atomic!PerKey => d.op # "Size" /\ ~Atomic!SelfAssignment(d)
        /\ d.op = "Size" => ~Atomic!SelfAssignment(d)
    BY DEF Atomic!SelfAssignment, Atomic!Assignments, Atomic!PerKey, Atomic!Logged
  <2>6. \/ d.op \in Atomic!PerKey /\ pc'[t] = "shard"
        \/ d.op = "Size" /\ d.op \notin Atomic!PerKey /\ pc'[t] = "self"
        \/ Atomic!SelfAssignment(d) /\ pc'[t] = "same"
        \/ d.op \notin Atomic!PerKey /\ ~Atomic!SelfAssignment(d) /\ pc'[t] = "admin"
    BY <2>4, <2>5
  <2>7. CallOk(t)'
    BY <2>1, <2>2, <2>3, <2>5, <2>6 DEF CallOk, Looping, AllLocked
  <2>8. LocksOk(t)'
    BY <2>2, <2>3, <2>6, <1>n DEF LocksOk, AllLocked
  <2>9. LoopOk(t)'
    BY <2>6 DEF LoopOk
  <2>10. QED
    BY <2>7, <2>8, <2>9
<1>2. CASE SameStore(t)
  <2>1. at'[t] = 1
    BY <1>2, <1>o DEF SameStore, CallOk, Looping
  <2>2. QED
    BY <1>2, <2>1, FinishKeeps, ResultsDiffer DEF SameStore
<1>3. CASE LockShard(t)
  <2>1. pc[t] = "shard" /\ call'[t] = c /\ at'[t] = at[t] /\ res'[t] = res[t]
    BY <1>3 DEF LockShard
  <2>2. \/ pc'[t] = "append" /\ c.op \in Atomic!Logged
        \/ pc'[t] = "apply"
    BY <1>3, <1>t DEF LockShard, Goto
  <2>3. <<c.self, Shard[c.key]>> \in Locks
    BY <2>1, CallInProgress, ShardLocks
  <2>4. <<t, SelfMode(c)>> \in lock'[<<c.self, Shard[c.key]>>]
    BY ZenonT(60), ZenonT(90), <1>3, <1>t, <2>3, AcquireEffect, ModesAreModes DEF LockShard
  <2>5. CallOk(t)'
    <3>1. CASE pc'[t] = "append" /\ c.op \in Atomic!Logged
      BY ZenonT(60), ZenonT(90), <1>o, <2>1, <3>1 DEF CallOk, Looping, AllLocked
    <3>2. CASE pc'[t] = "apply"
      BY ZenonT(60), ZenonT(90), <1>o, <2>1, <3>2 DEF CallOk, Looping, AllLocked
    <3>3. QED
      BY ONLY <2>2, <3>1, <3>2
  <2>6. LocksOk(t)' /\ LoopOk(t)'
    BY ZenonT(60), ZenonT(90), <2>1, <2>2, <2>4 DEF LocksOk, LoopOk, AllLocked
  <2>7. QED
    BY <2>5, <2>6
<1>4. CASE AppendToWal(t)
  <2>1. /\ pc[t] = "append" /\ call'[t] = c /\ at'[t] = at[t] /\ res'[t] = res[t]
        /\ lock' = lock /\ pc'[t] = "logged"
    BY <1>4, <1>t DEF AppendToWal, Goto
  <2>2. CallOk(t)'
    BY ZenonT(60), ZenonT(90), <1>o, <2>1 DEF CallOk, Looping, AllLocked
  <2>3. LocksOk(t)' /\ LoopOk(t)'
    BY ZenonT(60), ZenonT(90), <1>o, <2>1 DEF LocksOk, LoopOk, AllLocked
  <2>4. QED
    BY <2>2, <2>3
<1>5. CASE AppendThrows(t)
  <2>1. at'[t] = 1
    BY <1>5, <1>o DEF AppendThrows, CallOk, Looping
  <2>2. QED
    BY <1>5, <2>1, FinishKeeps, ResultsDiffer DEF AppendThrows
<1>6. CASE ApplyToKey(t)
  <2>1. at'[t] = 1
    BY <1>6, <1>o DEF ApplyToKey, CallOk, Looping
  <2> DEFINE entry == data[c.self][c.key]
             r == CASE c.op = "Set" -> Atomic!Done
                    [] c.op = "Get" -> <<"value", entry>>
                    [] OTHER -> <<"found", entry # Absent>>
  <2>2. r # Atomic!NoResult
    BY ResultsDiffer
  <2>3. pc[t] \in {"apply", "logged"} /\ Finish(t, r) /\ UNCHANGED call
    BY <1>6 DEF ApplyToKey
  <2> HIDE DEF r
  <2>4. QED
    BY <2>1, <2>2, <2>3, FinishKeeps
<1>7. CASE LockAdmin(t)
  <2>1. /\ pc[t] = "admin" /\ call'[t] = c /\ at'[t] = at[t] /\ res'[t] = res[t]
        /\ pc'[t] = "self"
    BY <1>7, <1>t DEF LockAdmin, Goto
  <2>2. at[t] = 1
    BY <1>o, <2>1 DEF CallOk, Looping
  <2>3. CallOk(t)'
    BY ZenonT(60), ZenonT(90), <1>o, <2>1, <2>2 DEF CallOk, Looping, AllLocked
  <2>4. \A i \in Shards : ~(i < at'[t])
    BY <1>n, <2>1, <2>2
  <2>5. pc'[t] \notin {"append", "logged", "apply", "other", "read", "write"} /\ pc'[t] \notin AllLocked
    BY <2>1 DEF AllLocked
  <2>6. LocksOk(t)'
    BY ZenonT(60), ZenonT(90), <2>4, <2>5 DEF LocksOk
  <2>7. LoopOk(t)'
    BY ZenonT(60), ZenonT(90), <2>5 DEF LoopOk
  <2>8. QED
    BY <2>3, <2>6, <2>7
<1>8. CASE LockBoth(t)
  <2>1. /\ pc[t] = "admin" /\ call'[t] = c /\ at'[t] = at[t] /\ res'[t] = res[t]
        /\ pc'[t] = "self"
    BY <1>8, <1>t DEF LockBoth, Goto
  <2>2. at[t] = 1
    BY <1>o, <2>1 DEF CallOk, Looping
  <2>3. CallOk(t)'
    BY <1>o, <2>1, <2>2 DEF CallOk, Looping, AllLocked
  <2>4. \A i \in Shards : ~(i < at'[t])
    BY <1>n, <2>1, <2>2
  <2>5. pc'[t] \notin {"append", "logged", "apply", "other", "read", "write"} /\ pc'[t] \notin AllLocked
    BY <2>1 DEF AllLocked
  <2>6. LocksOk(t)'
    BY ZenonT(60), ZenonT(90), <2>4, <2>5 DEF LocksOk
  <2>7. LoopOk(t)'
    BY ZenonT(60), ZenonT(90), <2>5 DEF LoopOk
  <2>8. QED
    BY <2>3, <2>6, <2>7
<1>9. CASE LockOwnShards(t)
  <2>1. pc[t] = "self" /\ call'[t] = c /\ res'[t] = res[t]
    BY <1>9 DEF LockOwnShards
  <2> DEFINE l == IF c.op \in Atomic!Assignments THEN "other" ELSE "begin"
  <2>2. /\ at'[t] = IF at[t] = kShardCount THEN 1 ELSE at[t] + 1
        /\ pc'[t] = IF at[t] = kShardCount THEN l ELSE "self"
    BY <1>9, <1>t, <2>1 DEF LockOwnShards, LoopOrGoto, Goto
  <2>3. c.self \in Stores /\ c.op \notin Atomic!PerKey
    BY ZenonT(60), ZenonT(90), <1>o, <2>1, CallInProgress DEF CallOk, Looping
  <2>4. <<c.self, at[t]>> \in Locks
    BY <1>n, <2>3, ShardLocks
  <2>5. /\ <<t, SelfMode(c)>> \in lock'[<<c.self, at[t]>>]
        /\ \A y \in Locks : lock[y] \subseteq lock'[y]
    BY <1>9, <1>t, <2>4, AcquireEffect, ModesAreModes DEF LockOwnShards
  <2>6. \A i \in Shards : i <= at[t] => <<t, SelfMode(c)>> \in lock'[<<c.self, i>>]
    <3>1. SUFFICES ASSUME NEW i \in Shards, i <= at[t]
                   PROVE  <<t, SelfMode(c)>> \in lock'[<<c.self, i>>]
      OBVIOUS
    <3>2. CASE i = at[t]
      BY <2>5, <3>2
    <3>3. CASE i # at[t]
      <4>1. i < at[t]
        BY <1>n, <3>1, <3>3
      <4>2. <<t, SelfMode(c)>> \in lock[<<c.self, i>>]
        BY <1>o, <2>1, <4>1 DEF LocksOk
      <4>3. QED
        BY <2>3, <2>5, <4>2, ShardLocks
    <3>4. QED
      BY <3>2, <3>3
  <2>7. CASE at[t] = kShardCount
    <3>1. at'[t] = 1 /\ pc'[t] \in {"other", "begin"}
          /\ (pc'[t] = "other" <=> c.op \in Atomic!Assignments)
      BY <2>2, <2>7
    <3>2. \A i \in Shards : i <= at[t] /\ ~(i < 1)
      BY <1>n, <2>7
    <3>3. CallOk(t)'
      BY <1>o, <2>1, <3>1 DEF CallOk, Looping, AllLocked
    <3>4. LocksOk(t)'
      BY ZenonT(60), ZenonT(90), <2>1, <2>6, <3>1, <3>2 DEF LocksOk, AllLocked
    <3>5. LoopOk(t)'
      BY <3>1 DEF LoopOk
    <3>6. QED
      BY <3>3, <3>4, <3>5
  <2>8. CASE at[t] # kShardCount
    <3>1. at'[t] = at[t] + 1 /\ pc'[t] = "self"
      BY <2>2, <2>8
    <3>2. \A i \in Shards : i < at'[t] => i <= at[t]
      BY <1>n, <3>1
    <3>3. CallOk(t)'
      BY <1>o, <2>1, <3>1 DEF CallOk, Looping, AllLocked
    <3>4. LocksOk(t)' /\ LoopOk(t)'
      BY ZenonT(60), ZenonT(90), <2>1, <2>6, <3>1, <3>2 DEF LocksOk, LoopOk, AllLocked
    <3>5. QED
      BY <3>3, <3>4
  <2>9. QED
    BY <2>7, <2>8
<1>10. CASE LockOtherShards(t)
  <2>1. pc[t] = "other" /\ call'[t] = c /\ res'[t] = res[t]
    BY <1>10 DEF LockOtherShards
  <2>2. /\ at'[t] = IF at[t] = kShardCount THEN 1 ELSE at[t] + 1
        /\ pc'[t] = IF at[t] = kShardCount THEN "begin" ELSE "other"
    BY <1>10, <1>t, <2>1 DEF LockOtherShards, LoopOrGoto, Goto
  <2>3. c.self \in Stores /\ c.other \in Stores
    BY <2>1, CallInProgress
  <2>4. <<c.other, at[t]>> \in Locks
    BY <1>n, <2>3, ShardLocks
  <2>5. /\ <<t, OtherMode(c)>> \in lock'[<<c.other, at[t]>>]
        /\ \A y \in Locks : lock[y] \subseteq lock'[y]
    BY <1>10, <1>t, <2>4, AcquireEffect, ModesAreModes DEF LockOtherShards
  <2>6. \A i \in Shards : i <= at[t] => <<t, OtherMode(c)>> \in lock'[<<c.other, i>>]
    <3>1. SUFFICES ASSUME NEW i \in Shards, i <= at[t]
                   PROVE  <<t, OtherMode(c)>> \in lock'[<<c.other, i>>]
      OBVIOUS
    <3>2. CASE i = at[t]
      BY <2>5, <3>2
    <3>3. CASE i # at[t]
      <4>1. i < at[t]
        BY <1>n, <3>1, <3>3
      <4>2. <<t, OtherMode(c)>> \in lock[<<c.other, i>>]
        BY <1>o, <2>1, <4>1 DEF LocksOk
      <4>3. QED
        BY <2>3, <2>5, <4>2, ShardLocks
    <3>4. QED
      BY <3>2, <3>3
  <2>7. \A i \in Shards : <<t, SelfMode(c)>> \in lock'[<<c.self, i>>]
    BY ZenonT(60), ZenonT(90), <1>o, <2>1, <2>3, <2>5, ShardLocks DEF LocksOk
  <2>8. CASE at[t] = kShardCount
    <3>1. at'[t] = 1 /\ pc'[t] = "begin"
      BY <2>2, <2>8
    <3>2. \A i \in Shards : i <= at[t]
      BY <1>n, <2>8
    <3>3. CallOk(t)'
      BY ZenonT(60), ZenonT(90), <1>o, <2>1, <3>1 DEF CallOk, Looping, AllLocked
    <3>4. LocksOk(t)' /\ LoopOk(t)'
      BY ZenonT(60), ZenonT(90), <2>1, <2>6, <2>7, <3>1, <3>2 DEF LocksOk, LoopOk, AllLocked
    <3>5. QED
      BY <3>3, <3>4
  <2>9. CASE at[t] # kShardCount
    <3>1. at'[t] = at[t] + 1 /\ pc'[t] = "other"
      BY <2>2, <2>9
    <3>2. \A i \in Shards : i < at'[t] => i <= at[t]
      BY <1>n, <3>1
    <3>3. CallOk(t)'
      BY ZenonT(60), ZenonT(90), <1>o, <2>1, <3>1 DEF CallOk, Looping, AllLocked
    <3>4. LocksOk(t)' /\ LoopOk(t)'
      BY ZenonT(60), ZenonT(90), <2>1, <2>6, <2>7, <3>1, <3>2 DEF LocksOk, LoopOk, AllLocked
    <3>5. QED
      BY <3>3, <3>4
  <2>10. QED
    BY <2>8, <2>9
<1>11. CASE Refuse(t)
  <2>1. at'[t] = 1
    BY <1>11, <1>o DEF Refuse, CallOk, Looping
  <2>2. QED
    BY <1>11, <2>1, FinishKeeps, ResultsDiffer DEF Refuse
<1>12. CASE Begin(t)
  <2>1. /\ pc[t] = "begin" /\ call'[t] = c /\ at'[t] = at[t] /\ res'[t] = res[t]
        /\ lock' = lock /\ ~Atomic!Refused(c)
        /\ pc'[t] = IF c.op \in {"Size", "Copy", "CopyAssign"} THEN "read" ELSE "write"
    BY <1>12, <1>t DEF Begin, Goto
  <2>2. at[t] = 1 /\ c.op \notin Atomic!PerKey /\ c.op \in Atomic!OpNames
    BY ZenonT(60), ZenonT(90), <1>o, <2>1, CallInProgress DEF CallOk, Looping, AllLocked
  <2>3. \/ pc'[t] = "read" /\ c.op \in {"Size", "Copy", "CopyAssign"}
        \/ pc'[t] = "write" /\ c.op \in {"Clear", "Move", "MoveAssign"}
    BY <2>1, <2>2 DEF Atomic!OpNames, Atomic!Constructors, Atomic!Assignments
  <2>4. \A k \in Keys : ~(Shard[k] < 1)
    BY <1>n
  <2>5. CallOk(t)'
    BY ZenonT(60), ZenonT(90), <1>o, <2>1, <2>3 DEF CallOk, Looping, AllLocked
  <2>6. LocksOk(t)'
    BY <1>o, <2>1, <2>3 DEF LocksOk, AllLocked
  <2>7. LoopOk(t)'
    BY ZenonT(60), ZenonT(90), <2>1, <2>2, <2>3, <2>4 DEF LoopOk
  <2>8. QED
    BY <2>5, <2>6, <2>7
<1>13. CASE ReadShard(t)
  <2> DEFINE s == Source(c)
             seen == [k \in Keys |-> IF Shard[k] = at[t] THEN data[s][k] ELSE got[t][k]]
  <2>1. pc[t] = "read" /\ call' = call /\ got'[t] = seen /\ data' = data
    BY <1>13, <1>t DEF ReadShard, Source
  <2>2. \A k \in Keys : Shard[k] <= at[t] => got'[t][k] = data[s][k]
    <3>1. \A k \in Keys : Shard[k] <= at[t] => Shard[k] = at[t] \/ Shard[k] < at[t]
      BY <1>n
    <3>2. QED
      BY ZenonT(60), ZenonT(90), <1>o, <2>1, <3>1 DEF LoopOk
  <2>3. CASE at[t] = kShardCount /\ c.op # "CopyAssign"
    <3> DEFINE r == IF c.op = "Size" THEN <<"size", Atomic!Count(seen)>> ELSE <<"store", seen>>
    <3>1. r # Atomic!NoResult
      BY ResultsDiffer
    <3>2. Finish(t, r) /\ at'[t] = 1
      BY <1>13, <1>t, <2>3 DEF ReadShard, Source
    <3> HIDE DEF r
    <3>3. QED
      BY ZenonT(60), ZenonT(90), <2>1, <3>1, <3>2, FinishKeeps
  <2>4. CASE at[t] = kShardCount /\ c.op = "CopyAssign"
    <3>1. at'[t] = 1 /\ pc'[t] = "write" /\ lock' = lock /\ res' = res
      BY <1>13, <1>t, <2>4 DEF ReadShard, LoopOrGoto, Goto
    <3>2. \A k \in Keys : Shard[k] <= at[t] /\ ~(Shard[k] < 1)
      BY <1>n, <2>4
    <3>3. CallOk(t)'
      BY ZenonT(60), ZenonT(90), <1>o, <2>1, <2>4, <3>1 DEF CallOk, Looping, AllLocked
    <3>4. LocksOk(t)'
      BY ZenonT(60), ZenonT(90), <1>o, <2>1, <3>1 DEF LocksOk, AllLocked
    <3>5. LoopOk(t)'
      BY ZenonT(60), ZenonT(90), <2>1, <2>2, <2>4, <3>1, <3>2 DEF LoopOk, Source
    <3>6. QED
      BY <3>3, <3>4, <3>5
  <2>5. CASE at[t] # kShardCount
    <3>1. at'[t] = at[t] + 1 /\ pc'[t] = "read" /\ lock' = lock /\ res' = res
      BY <1>13, <1>t, <2>1, <2>5 DEF ReadShard, LoopOrGoto, Goto
    <3>2. \A k \in Keys : Shard[k] < at'[t] => Shard[k] <= at[t]
      BY <1>n, <3>1
    <3>3. CallOk(t)'
      BY ZenonT(60), ZenonT(90), <1>o, <2>1, <3>1 DEF CallOk, Looping, AllLocked
    <3>4. LocksOk(t)'
      BY ZenonT(60), ZenonT(90), <1>o, <2>1, <3>1 DEF LocksOk, AllLocked
    <3>5. LoopOk(t)'
      BY ZenonT(60), ZenonT(90), <2>1, <2>2, <3>1, <3>2 DEF LoopOk
    <3>6. QED
      BY <3>3, <3>4, <3>5
  <2>6. QED
    BY <2>3, <2>4, <2>5
<1>14. CASE WriteShard(t)
  <2> DEFINE entry(s, k) == CASE c.op = "CopyAssign" -> got[t][k]
                              [] c.op = "MoveAssign" /\ s = c.self -> data[c.other][k]
                              [] OTHER -> Absent
             taken == [k \in Keys |-> IF c.op = "Move" /\ Shard[k] = at[t]
                                      THEN data[c.other][k] ELSE got[t][k]]
  <2>1. pc[t] = "write" /\ call' = call /\ got'[t] = taken
    BY <1>14, <1>t DEF WriteShard
  <2>2. CASE at[t] = kShardCount
    <3> DEFINE r == IF c.op = "Move" THEN <<"store", taken>> ELSE Atomic!Done
    <3>1. r # Atomic!NoResult
      BY ResultsDiffer
    <3>2. Finish(t, r) /\ at'[t] = 1
      BY <1>14, <1>t, <2>2 DEF WriteShard
    <3> HIDE DEF r
    <3>3. QED
      BY <2>1, <3>1, <3>2, FinishKeeps
  <2>3. CASE at[t] # kShardCount
    <3>1. at'[t] = at[t] + 1 /\ pc'[t] = "write" /\ lock' = lock /\ res' = res
      BY <1>14, <1>t, <2>1, <2>3 DEF WriteShard, LoopOrGoto, Goto
    <3>2. \A k \in Keys : Shard[k] < at'[t] => Shard[k] = at[t] \/ Shard[k] < at[t]
      BY <1>n, <3>1
    <3>3. CallOk(t)'
      BY ZenonT(60), ZenonT(90), <1>o, <2>1, <3>1 DEF CallOk, Looping, AllLocked
    <3>4. LocksOk(t)'
      BY ZenonT(60), ZenonT(90), <1>o, <2>1, <3>1 DEF LocksOk, AllLocked
    <3>5. /\ c.self \in Stores /\ c.other \in Stores
          /\ c.op \in {"Clear", "Move", "CopyAssign", "MoveAssign"}
          /\ c.op \in {"CopyAssign", "MoveAssign"} => c.self # c.other
      BY ZenonT(60), ZenonT(90), <1>o, <2>1, CallInProgress
         DEF CallOk, Looping, Atomic!SelfAssignment,
         Atomic!Assignments
    <3>6. \A s \in Stores, k \in Keys :
            data'[s][k] = IF s \in Written(c) /\ Shard[k] = at[t] THEN entry(s, k)
                          ELSE data[s][k]
      BY <1>14 DEF WriteShard
    <3>7. ASSUME c.op = "CopyAssign", NEW k \in Keys
          PROVE  got'[t][k] = data'[c.other][k]
      <4>1. c.other \notin Written(c)
        BY <3>5, <3>7 DEF Written
      <4>2. QED
        BY <1>o, <2>1, <3>5, <3>6, <3>7, <4>1 DEF LoopOk
    <3>8. ASSUME NEW s \in Written(c), NEW k \in Keys, Shard[k] < at'[t]
          PROVE  data'[s][k] = Target(t, s)'[k]
      <4>1. s \in Stores
        BY ZenonT(60), ZenonT(90), <2>1, WriterHolds
      <4>2. CASE c.op = "MoveAssign" /\ s = c.self
        BY <2>1, <3>8, <4>2 DEF Target
      <4>3. CASE c.op = "CopyAssign"
        <5>1. Target(t, s)'[k] = got[t][k]
          BY <2>1, <4>3 DEF Target
        <5>2. CASE Shard[k] = at[t]
          BY <3>6, <4>1, <4>3, <5>1, <5>2
        <5>3. CASE Shard[k] # at[t]
          <6>1. data[s][k] = Target(t, s)[k]
            BY <1>o, <2>1, <3>2, <3>8, <5>3 DEF LoopOk
          <6>2. QED
            BY <3>6, <4>1, <4>3, <5>1, <5>3, <6>1 DEF Target
        <5>4. QED
          BY <5>2, <5>3
      <4>4. CASE c.op # "CopyAssign" /\ ~(c.op = "MoveAssign" /\ s = c.self)
        <5>1. Target(t, s)'[k] = Absent
          BY <2>1, <4>4 DEF Target
        <5>2. CASE Shard[k] = at[t]
          BY <3>6, <4>1, <4>4, <5>1, <5>2
        <5>3. CASE Shard[k] # at[t]
          <6>1. data[s][k] = Target(t, s)[k]
            BY <1>o, <2>1, <3>2, <3>8, <5>3 DEF LoopOk
          <6>2. QED
            BY <3>6, <4>1, <4>4, <5>1, <5>3, <6>1 DEF Target
        <5>4. QED
          BY <5>2, <5>3
      <4>5. QED
        BY <4>2, <4>3, <4>4
    <3>9. LoopOk(t)'
      BY ZenonT(60), ZenonT(90), <2>1, <3>1, <3>7, <3>8 DEF LoopOk
    <3>10. QED
      BY <3>3, <3>4, <3>9
  <2>4. QED
    BY <2>2, <2>3
<1>15. CASE Return(t)
  <2>1. /\ pc[t] = "return" /\ call'[t] = Atomic!NoCall /\ at'[t] = at[t]
        /\ pc'[t] = "idle" /\ res'[t] = Atomic!NoResult
    <3>1. res'[t] = Atomic!NoResult
      BY <1>15 DEF Return, IInv
    <3>2. QED
      BY <1>15, <1>t, <3>1 DEF Return, Goto
  <2>2. CallOk(t)'
    BY ZenonT(60), ZenonT(90), <1>o, <2>1 DEF CallOk, Looping, AllLocked
  <2>3. LocksOk(t)' /\ LoopOk(t)'
    BY ZenonT(60), ZenonT(90), <2>1 DEF LocksOk, LoopOk, AllLocked
  <2>4. QED
    BY <2>2, <2>3
<1>16. QED
  BY ZenonT(60), ZenonT(90), <1>1, <1>2, <1>3, <1>4, <1>5, <1>6, <1>7, <1>8, <1>9, <1>10, <1>11,
     <1>12,
     <1>13, <1>14, <1>15 DEF Moves, Step

------------------------------------------------------------------------------
(* IInv is an invariant.                                                   *)

(* Before the first call nothing is locked and nobody is in a loop.        *)
LEMMA InitiallyIInv == Init => IInv
<1> SUFFICES ASSUME Init PROVE IInv
  OBVIOUS
<1>1. kShardCount \in Nat \ {0} /\ 1 \in Shards
  BY ShardedStoreAssumption DEF Shards
<1>2. TypeOK
  <2>1. data \in [Stores -> Atomic!Contents]
    BY ShardedStoreAssumption DEF Init
  <2>2. got \in [Threads -> Atomic!Contents]
    BY DEF Init, Atomic!Contents, Atomic!Empty
  <2>3. calls \in [Threads -> 0..MaxCalls]
    BY ShardedStoreAssumption DEF Init
  <2>4. QED
    BY <1>1, <2>1, <2>2, <2>3 DEF Init, TypeOK, Places
<1>3. Exclusive
  BY DEF Init, Exclusive, Locks
<1>4. res = [t \in Threads |-> res[t]]
  BY DEF Init
<1>5. \A t \in Threads : CallOk(t) /\ LocksOk(t) /\ LoopOk(t)
  BY ZenonT(60), ZenonT(90) DEF Init, CallOk, LocksOk, LoopOk, Looping, AllLocked
<1>6. QED
  BY <1>2, <1>3, <1>4, <1>5 DEF IInv

(* Every step keeps the invariant.                                         *)
LEMMA IInvKept == IInv /\ [Next]_vars => IInv'
<1> SUFFICES ASSUME IInv, [Next]_vars PROVE IInv'
  OBVIOUS
<1>1. CASE Next
  <2>1. PICK t \in Threads : Moves(t)
    BY <1>1 DEF Next, Moves
  <2>2. TypeOK' /\ res' = [u \in Threads |-> res'[u]] /\ Exclusive'
    BY ZenonT(60), ZenonT(90), <2>1, TypeKept, Frame
  <2>3. ASSUME NEW u \in Threads
        PROVE  CallOk(u)' /\ LocksOk(u)' /\ LoopOk(u)'
    BY <2>1, OwnKept, OthersKept
  <2>4. QED
    BY <2>2, <2>3 DEF IInv
<1>2. CASE UNCHANGED vars
  <2>1. TypeOK' /\ res' = [u \in Threads |-> res'[u]] /\ Exclusive'
    BY <1>2 DEF vars, IInv, TypeOK, Exclusive
  <2>2. ASSUME NEW u \in Threads
        PROVE  CallOk(u)' /\ LocksOk(u)' /\ LoopOk(u)'
    <3>1. CallOk(u) /\ LocksOk(u) /\ LoopOk(u)
      BY DEF IInv
    <3>2. CallOk(u)'
      BY ZenonT(60), ZenonT(90), <1>2, <3>1 DEF vars, CallOk
    <3>3. LocksOk(u)'
      BY ZenonT(60), ZenonT(90), <1>2, <3>1 DEF vars, LocksOk
    <3>4. LoopOk(u)'
      BY <1>2, <3>1 DEF vars, LoopOk, Target
    <3>5. QED
      BY <3>2, <3>3, <3>4
  <2>3. QED
    BY <2>1, <2>2 DEF IInv
<1>3. QED
  BY <1>1, <1>2

(* So it holds throughout.                                                 *)
LEMMA Invariance == Spec => []IInv
BY InitiallyIInv, IInvKept, PTL DEF Spec

(* The variables keep their types: no loop over the shards runs past the   *)
(* last one, and every entry stays a value or absent.                      *)
THEOREM TypeCorrect == Spec => []TypeOK
<1>1. IInv => TypeOK
  BY DEF IInv
<1>2. QED
  BY <1>1, Invariance, PTL

------------------------------------------------------------------------------
(* What a call has seen of wal_ stays true.                                *)

(* A step changes wal_ only of a store whose shards its thread holds       *)
(* exclusively, so not of one in which another thread holds a shard.       *)
LEMMA WalKept ==
  ASSUME IInv, NEW t \in Threads, Moves(t), NEW u \in Threads \ {t}, NEW m \in Modes,
         NEW s \in Stores, NEW i \in Shards, <<u, m>> \in lock[<<s, i>>]
  PROVE  wal_'[s] = wal_[s]
<1> DEFINE c == call[t]
<1>1. CASE ~WriteShard(t)
  BY ZenonT(60), ZenonT(90), <1>1
     DEF Moves, Step, Invoke, SameStore, LockShard, AppendToWal, AppendThrows, ApplyToKey,
     LockAdmin, LockBoth, LockOwnShards, LockOtherShards, Refuse, Begin, ReadShard, Return
<1>2. CASE WriteShard(t)
  <2>1. s \notin Written(c)
    <3>1. SUFFICES ASSUME s \in Written(c) PROVE FALSE
      OBVIOUS
    <3>2. <<s, i>> \in Locks /\ <<t, "X">> \in lock[<<s, i>>]
      BY <1>2, <3>1, WriterHolds DEF WriteShard
    <3>3. QED
      BY <3>2 DEF IInv, Exclusive
  <2>2. /\ s = c.self => c.op \notin Atomic!Assignments
        /\ s = c.other => c.op \notin {"Move", "MoveAssign"}
    BY <2>1 DEF Written, Atomic!Assignments
  <2>3. CASE at[t] = kShardCount
    BY ZenonT(60), ZenonT(90), <1>2, <2>2, <2>3 DEF WriteShard
  <2>4. CASE at[t] # kShardCount
    BY <1>2, <2>4 DEF WriteShard
  <2>5. QED
    BY <2>3, <2>4
<1>3. QED
  BY <1>1, <1>2

(* A step keeps what the calls in progress have seen.                      *)
LEMMA SeenWalKept ==
  ASSUME IInv, SeenWalStays, NEW t \in Threads, Moves(t)
  PROVE  SeenWalStays'
<1> DEFINE Seen(u) ==
      /\ pc[u] \in {"append", "logged"} => wal_[call[u].self]
      /\ pc[u] = "apply" /\ call[u].op \in Atomic!Logged => ~wal_[call[u].self]
<1>t. pc \in [Threads -> Places]
  BY DEF IInv, TypeOK
<1>1. ASSUME NEW u \in Threads \ {t} PROVE Seen(u)'
  <2>1. pc'[u] = pc[u] /\ call'[u] = call[u]
    BY Frame
  <2>2. CASE pc[u] \in {"append", "logged", "apply"}
    <3>1. /\ call[u].self \in Stores /\ Shard[call[u].key] \in Shards
          /\ <<u, SelfMode(call[u])>> \in lock[<<call[u].self, Shard[call[u].key]>>]
      BY <2>2, CallInProgress DEF IInv, LocksOk
    <3>2. wal_'[call[u].self] = wal_[call[u].self]
      BY <3>1, WalKept, ModesAreModes
    <3>3. QED
      BY ZenonT(60), ZenonT(90), <2>1, <3>2 DEF SeenWalStays
  <2>3. CASE pc[u] \notin {"append", "logged", "apply"}
    BY <2>1, <2>3
  <2>4. QED
    BY <2>2, <2>3
<1>2. Seen(t)'
  <2>1. CASE LockShard(t)
    <3>1. /\ pc'[t] = IF call[t].op \in Atomic!Logged /\ wal_[call[t].self]
                      THEN "append" ELSE "apply"
          /\ call'[t] = call[t] /\ wal_' = wal_
      BY <2>1, <1>t DEF LockShard, Goto
    <3>2. QED
      BY ZenonT(60), ZenonT(90), <3>1
  <2>2. CASE AppendToWal(t)
    <3>1. pc[t] = "append" /\ pc'[t] = "logged" /\ call'[t] = call[t] /\ wal_' = wal_
      BY <2>2, <1>t DEF AppendToWal, Goto
    <3>2. QED
      BY ZenonT(60), ZenonT(90), <3>1 DEF SeenWalStays
  <2>3. CASE ~LockShard(t) /\ ~AppendToWal(t)
    <3>1. pc'[t] \notin {"append", "logged", "apply"}
      <4>1. CASE \E d \in CallsOf[t] : Invoke(t, d)
        BY <4>1, <1>t DEF Invoke, Goto
      <4>2. CASE \/ SameStore(t) \/ AppendThrows(t) \/ ApplyToKey(t) \/ Refuse(t)
                 \/ Return(t)
        BY <4>2, <1>t DEF SameStore, AppendThrows, ApplyToKey, Refuse, Return, Finish, Goto
      <4>3. CASE \/ LockAdmin(t) \/ LockBoth(t) \/ Begin(t)
        BY <4>3, <1>t DEF LockAdmin, LockBoth, Begin, Goto
      <4>4. CASE \/ LockOwnShards(t) \/ LockOtherShards(t)
        BY <4>4, <1>t DEF LockOwnShards, LockOtherShards, LoopOrGoto, Goto
      <4>5. CASE ReadShard(t)
        BY <4>5, <1>t DEF ReadShard, LoopOrGoto, Finish, Goto
      <4>6. CASE WriteShard(t)
        BY <4>6, <1>t DEF WriteShard, LoopOrGoto, Finish, Goto
      <4>7. QED
        BY <2>3, <4>1, <4>2, <4>3, <4>4, <4>5, <4>6 DEF Moves, Step
    <3>2. QED
      BY <3>1
  <2>4. QED
    BY <2>1, <2>2, <2>3
<1>3. QED
  BY ZenonT(60), ZenonT(90), <1>1, <1>2 DEF SeenWalStays

(* From the moment Set or Delete looks at wal_ until it returns, the store *)
(* keeps the WAL that the call saw, or goes on without one, however many   *)
(* threads assign and move stores: none changes wal_ without the lock of   *)
(* every shard, and the call holds one.                                    *)
THEOREM SeenWalsStay == Spec => []SeenWalStays
<1>1. Init => SeenWalStays
  BY DEF Init, SeenWalStays
<1>2. IInv /\ SeenWalStays /\ [Next]_vars => SeenWalStays'
  <2> SUFFICES ASSUME IInv, SeenWalStays, [Next]_vars PROVE SeenWalStays'
    OBVIOUS
  <2>1. CASE Next
    <3>1. PICK t \in Threads : Moves(t)
      BY <2>1 DEF Next, Moves
    <3>2. QED
      BY <3>1, SeenWalKept
  <2>2. CASE UNCHANGED vars
    BY <2>2 DEF vars, SeenWalStays
  <2>3. QED
    BY <2>1, <2>2
<1>3. QED
  BY <1>1, <1>2, Invariance, PTL DEF Spec

------------------------------------------------------------------------------
(* ShardedStore acts as an atomic map.                                     *)
(*                                                                         *)
(* A store shows its entries, or, while a thread is in a loop that changes *)
(* all of it, what that loop will leave (AtomicContents).  By IInv at most *)
(* one thread is in such a loop and nobody else has any of the store's     *)
(* shards locked, so entering the loop is one step on the whole store and  *)
(* its turns cannot be seen; reads and single entries need the same        *)
(* exclusion to see the store as it shows.                                 *)

(* No two threads are in a loop that changes the same store.               *)
OneWriter == \A s \in Stores : \A t, u \in Writers(s) : t = u

(* Each would hold the store's first shard exclusively.                    *)
LEMMA WritersExclude == IInv => OneWriter
<1> SUFFICES ASSUME IInv, NEW s \in Stores, NEW t \in Writers(s), NEW u \in Writers(s)
             PROVE  t = u
  BY DEF OneWriter
<1>1. /\ t \in Threads /\ pc[t] = "write" /\ s \in Written(call[t])
      /\ u \in Threads /\ pc[u] = "write" /\ s \in Written(call[u])
  BY DEF Writers
<1>2. 1 \in Shards
  BY <1>1, LoopNumbers
<1>3. /\ <<s, 1>> \in Locks
      /\ <<t, "X">> \in lock[<<s, 1>>] /\ <<u, "X">> \in lock[<<s, 1>>]
  BY <1>1, <1>2, WriterHolds
<1>4. QED
  BY ZenonT(60), ZenonT(90), <1>1, <1>3 DEF IInv, Exclusive, Modes

(* What the stores and the calls show are functions.                       *)
LEMMA ShownAreFunctions ==
  /\ AtomicContents = [s \in Stores |-> AtomicContents[s]]
  /\ AtomicContents' = [s \in Stores |-> AtomicContents'[s]]
  /\ AtomicResults = [t \in Threads |-> AtomicResults[t]]
  /\ AtomicResults' = [t \in Threads |-> AtomicResults'[t]]
<1> DEFINE f(s) == IF Writers(s) = {} THEN data[s]
                   ELSE Target(CHOOSE t \in Writers(s) : TRUE, s)
           g(t) == IF pc[t] # "write" THEN res[t]
                   ELSE IF call[t].op = "Move"
                   THEN <<"store", [k \in Keys |-> IF Shard[k] < at[t] THEN got[t][k]
                                                   ELSE data[call[t].other][k]]>>
                   ELSE <<"done">>
<1>1. /\ AtomicContents = [s \in Stores |-> f(s)]
      /\ AtomicResults = [t \in Threads |-> g(t)]
  BY ZenonT(60), ZenonT(90) DEF AtomicContents, AtomicResults
<1>2. /\ AtomicContents' = [s \in Stores |-> f(s)']
      /\ AtomicResults' = [t \in Threads |-> g(t)']
  BY ZenonT(60), ZenonT(90) DEF AtomicContents, AtomicResults
<1> HIDE DEF f, g
<1>3. QED
  BY <1>1, <1>2

(* The only member of a set is the one chosen.                             *)
LEMMA ChooseOnly ==
  ASSUME NEW S, NEW t \in S, \A u \in S : u = t
  PROVE  (CHOOSE u \in S : TRUE) = t
OBVIOUS

(* A store that a thread has locked is not being changed by another.       *)
LEMMA NoWriters ==
  ASSUME IInv, NEW t \in Threads, pc[t] # "write", NEW m \in Modes, NEW s \in Stores,
         NEW i \in Shards, <<t, m>> \in lock[<<s, i>>]
  PROVE  Writers(s) = {} /\ AtomicContents[s] = data[s]
<1>1. ASSUME NEW u \in Writers(s)
      PROVE  FALSE
  <2>1. u \in Threads /\ pc[u] = "write" /\ s \in Written(call[u])
    BY DEF Writers
  <2>2. <<s, i>> \in Locks /\ <<u, "X">> \in lock[<<s, i>>]
    BY <2>1, WriterHolds
  <2>3. t = u
    BY <2>1, <2>2 DEF IInv, Exclusive
  <2>4. QED
    BY <2>1, <2>3
<1>2. QED
  BY <1>1 DEF AtomicContents

(* A store that is being changed shows what it will become,                *)
LEMMA WriterShows ==
  ASSUME OneWriter, NEW s \in Stores, NEW t \in Writers(s)
  PROVE  AtomicContents[s] = Target(t, s)
<1>1. (CHOOSE u \in Writers(s) : TRUE) = t
  <2>1. \A u \in Writers(s) : u = t
    BY DEF OneWriter
  <2>2. QED
    BY <2>1, ChooseOnly
<1>2. QED
  BY ZenonT(60), ZenonT(90), <1>1 DEF AtomicContents

(* in the next state as well.                                              *)
LEMMA WriterShowsNext ==
  ASSUME OneWriter', NEW s \in Stores, NEW t, t \in Writers(s)'
  PROVE  AtomicContents'[s] = Target(t, s)'
<1>1. (CHOOSE u \in Writers(s)' : TRUE) = t
  <2>1. \A u \in Writers(s)' : u = t
    BY DEF OneWriter
  <2>2. QED
    BY <2>1, ChooseOnly
<1>2. QED
  BY ZenonT(60), ZenonT(90), <1>1 DEF AtomicContents

(* A store that the moving thread is not writing shows what it showed.     *)
LEMMA ContentsSame ==
  ASSUME IInv, OneWriter, OneWriter', NEW t \in Threads, Moves(t), NEW s \in Stores,
         t \notin Writers(s), t \notin Writers(s)', data'[s] = data[s]
  PROVE  AtomicContents'[s] = AtomicContents[s]
<1>1. \A u \in Threads : u \in Writers(s) <=> u \in Writers(s)'
  <2>1. ASSUME NEW u \in Threads \ {t}
        PROVE  u \in Writers(s) <=> u \in Writers(s)'
    <3>1. pc'[u] = pc[u] /\ call'[u] = call[u]
      BY ZenonT(60), ZenonT(90), Frame
    <3>2. QED
      BY ZenonT(60), ZenonT(90), <3>1 DEF Writers
  <2>2. QED
    BY ZenonT(60), ZenonT(90), <2>1
<1>2. CASE Writers(s) = {}
  <2>1. Writers(s)' = {}
    BY <1>1, <1>2 DEF Writers
  <2>2. QED
    BY <1>2, <2>1 DEF AtomicContents
<1>3. ASSUME NEW u \in Writers(s)
      PROVE  AtomicContents'[s] = AtomicContents[s]
  <2>1. u \in Threads /\ u \in Threads \ {t} /\ pc[u] = "write" /\ s \in Written(call[u])
    BY DEF Writers
  <2>2. call'[u] = call[u] /\ at'[u] = at[u] /\ got'[u] = got[u]
    BY ZenonT(60), ZenonT(90), <2>1, Frame
  <2>3. AtomicContents[s] = Target(u, s) /\ AtomicContents'[s] = Target(u, s)'
    BY <1>1, <2>1, WriterShows, WriterShowsNext
  <2>4. ASSUME call[u].op = "MoveAssign", NEW k \in Keys
        PROVE  data'[call[u].other][k] = data[call[u].other][k]
    <3>1. call[u].other \in Written(call[u])
      BY <2>4 DEF Written
    <3>2. QED
      BY <2>1, <3>1, WrittenKept
  <2>5. Target(u, s)' = Target(u, s)
    BY <2>2, <2>4 DEF Target
  <2>6. QED
    BY <2>3, <2>5
<1>4. QED
  BY <1>2, <1>3

(* A step shows in no result of another thread.                            *)
LEMMA ResultsSame ==
  ASSUME IInv, NEW t \in Threads, Moves(t), NEW u \in Threads \ {t}
  PROVE  AtomicResults'[u] = AtomicResults[u]
<1>1. /\ pc'[u] = pc[u] /\ call'[u] = call[u] /\ res'[u] = res[u]
      /\ at'[u] = at[u] /\ got'[u] = got[u]
  BY ZenonT(60), ZenonT(90), Frame
<1>2. ASSUME pc[u] = "write", call[u].op = "Move", NEW k \in Keys
      PROVE  data'[call[u].other][k] = data[call[u].other][k]
  <2>1. call[u].other \in Written(call[u])
    BY <1>2 DEF Written
  <2>2. QED
    BY <1>2, <2>1, WrittenKept
<1>3. CASE pc[u] = "write" /\ call[u].op = "Move"
  <2>1. [k \in Keys |-> IF Shard[k] < at[u] THEN got[u][k] ELSE data[call[u].other][k]]
        = [k \in Keys |-> IF Shard[k] < at[u] THEN got[u][k] ELSE data'[call[u].other][k]]
    BY <1>2, <1>3
  <2>2. QED
    BY <1>1, <1>3, <2>1 DEF AtomicResults
<1>4. CASE ~(pc[u] = "write" /\ call[u].op = "Move")
  BY <1>1, <1>4 DEF AtomicResults
<1>5. QED
  BY <1>3, <1>4

(* A step that is not part of a writing loop and leaves the entries alone  *)
(* shows at most in its thread's result.                                   *)
LEMMA QuietStep ==
  ASSUME IInv, OneWriter, OneWriter', NEW t \in Threads, Moves(t),
         pc[t] # "write", pc'[t] # "write", data' = data
  PROVE  /\ AtomicContents' = AtomicContents
         /\ AtomicResults[t] = res[t]
         /\ AtomicResults' = [AtomicResults EXCEPT ![t] = res'[t]]
<1>1. \A s \in Stores : AtomicContents'[s] = AtomicContents[s]
  BY ContentsSame DEF Writers
<1>2. AtomicContents' = AtomicContents
  BY <1>1, ShownAreFunctions
<1>3. AtomicResults[t] = res[t] /\ AtomicResults'[t] = res'[t]
  BY DEF AtomicResults
<1>4. AtomicResults' = [AtomicResults EXCEPT ![t] = res'[t]]
  BY <1>3, ResultsSame, ShownAreFunctions
<1>5. QED
  BY <1>2, <1>3, <1>4

(* While a call is under way its result is not known to its caller.        *)
LEMMA Pending ==
  ASSUME IInv, NEW t \in Threads, pc[t] \notin {"idle", "return", "write"}
  PROVE  call[t] # Atomic!NoCall /\ AtomicResults[t] = Atomic!NoResult
BY DEF IInv, CallOk, AtomicResults

(* A step that leaves the entries and the results alone is a stutter.      *)
LEMMA Stutters ==
  ASSUME IInv, OneWriter, OneWriter', NEW t \in Threads, Moves(t),
         pc[t] # "write", pc'[t] # "write", data' = data, call' = call, res' = res
  PROVE  UNCHANGED Atomic!vars
<1>1. /\ AtomicContents' = AtomicContents
      /\ AtomicResults' = [AtomicResults EXCEPT ![t] = AtomicResults[t]]
  BY QuietStep
<1>2. AtomicResults' = AtomicResults
  BY <1>1, ShownAreFunctions
<1>3. QED
  BY <1>1, <1>2 DEF Atomic!vars

(* A step of the moving thread alone shows in the results only as its own. *)
LEMMA OwnResult ==
  ASSUME IInv, NEW t \in Threads, Moves(t), NEW r, AtomicResults'[t] = r
  PROVE  AtomicResults' = [AtomicResults EXCEPT ![t] = r]
BY ResultsSame, ShownAreFunctions

(* A call on one key takes effect when it reads or changes its entry.      *)
LEMMA ApplyTakes ==
  ASSUME IInv, OneWriter, OneWriter', NEW t \in Threads, Moves(t), ApplyToKey(t)
  PROVE  Atomic!Take(t)
<1> DEFINE c == call[t]
           entry == data[c.self][c.key]
<1>1. /\ pc[t] \in {"apply", "logged"} /\ call' = call
      /\ data' = CASE c.op = "Set" -> [data EXCEPT ![c.self][c.key] = c.val]
                    [] c.op = "Delete" -> [data EXCEPT ![c.self][c.key] = Absent]
                    [] OTHER -> data
  BY DEF ApplyToKey
<1>2. /\ c.self \in Stores /\ c.key \in Keys /\ Shard[c.key] \in Shards
      /\ c.op \in Atomic!PerKey /\ c # Atomic!NoCall /\ AtomicResults[t] = Atomic!NoResult
  BY <1>1, CallInProgress, Pending DEF IInv, CallOk
<1>3. <<t, SelfMode(c)>> \in lock[<<c.self, Shard[c.key]>>] /\ SelfMode(c) \in Modes
  BY ZenonT(60), ZenonT(90), <1>1, ModesAreModes DEF IInv, LocksOk
<1>4. Writers(c.self) = {} /\ AtomicContents[c.self] = data[c.self]
  BY <1>1, <1>2, <1>3, NoWriters
<1>5. pc'[t] = "return" /\ \A s \in Stores : t \notin Writers(s) /\ t \notin Writers(s)'
  BY <1>1 DEF ApplyToKey, Finish, Goto, IInv, TypeOK, Writers
<1>6. data \in [Stores -> Atomic!Contents]
  BY DEF IInv, TypeOK
<1>7. PICK s \in Stores : s = c.self
  BY <1>2
<1>8. AtomicContents'[s] = data'[s]
  <2>1. \A u \in Threads : u \in Writers(s)' => u \in Writers(s)
    BY ZenonT(60), ZenonT(90), <1>5, Frame DEF Writers
  <2>2. Writers(s)' = {}
    BY <1>4, <1>7, <2>1 DEF Writers
  <2>3. QED
    BY <2>2 DEF AtomicContents
<1>9. \A x \in Stores \ {s} : AtomicContents'[x] = AtomicContents[x]
  <2>1. \A x \in Stores \ {s} : data'[x] = data[x]
    BY <1>1, <1>6, <1>7
  <2>2. QED
    BY <1>5, <2>1, ContentsSame
<1>10. AtomicContents' = Atomic!Effect(c, AtomicContents)
  <2>1. c.op \in {"Set", "Delete", "Get", "Contains"}
    BY <1>2 DEF Atomic!PerKey, Atomic!Logged
  <2>2. CASE c.op = "Set"
    <3>1. Atomic!Effect(c, AtomicContents) = [AtomicContents EXCEPT ![c.self][c.key] = c.val]
      BY <2>2 DEF Atomic!Effect
    <3>2. data'[c.self] = [data[c.self] EXCEPT ![c.key] = c.val]
      BY <1>1, <1>2, <1>6, <2>2
    <3>3. QED
      BY <1>4, <1>7, <1>8, <1>9, <3>1, <3>2, ShownAreFunctions
  <2>3. CASE c.op = "Delete"
    <3>1. Atomic!Effect(c, AtomicContents) = [AtomicContents EXCEPT ![c.self][c.key] = Absent]
      BY <2>3 DEF Atomic!Effect
    <3>2. data'[c.self] = [data[c.self] EXCEPT ![c.key] = Absent]
      BY <1>1, <1>2, <1>6, <2>3
    <3>3. QED
      BY <1>4, <1>7, <1>8, <1>9, <3>1, <3>2, ShownAreFunctions
  <2>4. CASE c.op \in {"Get", "Contains"}
    <3>1. Atomic!Effect(c, AtomicContents) = AtomicContents
      BY <2>4 DEF Atomic!Effect
    <3>2. data' = data
      BY <1>1, <2>4
    <3>3. QED
      BY <1>4, <1>7, <1>8, <1>9, <3>1, <3>2, ShownAreFunctions
  <2>5. QED
    BY <2>1, <2>2, <2>3, <2>4
<1>11. AtomicResults'[t] = Atomic!Result(c, AtomicContents)
  <2>1. AtomicResults'[t] = res'[t]
    BY <1>5 DEF AtomicResults
  <2>2. res'[t] = CASE c.op = "Set" -> Atomic!Done
                    [] c.op = "Get" -> <<"value", entry>>
                    [] OTHER -> <<"found", entry # Absent>>
    BY DEF ApplyToKey, Finish, IInv
  <2>3. c.op \in {"Set", "Delete", "Get", "Contains"}
    BY <1>2 DEF Atomic!PerKey, Atomic!Logged
  <2>4. CASE c.op = "Set"
    BY <2>1, <2>2, <2>4 DEF Atomic!Result, Atomic!Constructors
  <2>5. CASE c.op = "Get"
    BY <1>4, <2>1, <2>2, <2>5 DEF Atomic!Result, Atomic!Constructors
  <2>6. CASE c.op \in {"Contains", "Delete"}
    <3>1. Atomic!Result(c, AtomicContents) = <<"found", AtomicContents[c.self][c.key] # Absent>>
      BY <2>6 DEF Atomic!Result, Atomic!Constructors
    <3>2. res'[t] = <<"found", entry # Absent>>
      BY <2>2, <2>6
    <3>3. QED
      BY <1>4, <2>1, <3>1, <3>2
  <2>7. QED
    BY <2>3, <2>4, <2>5, <2>6
<1>12. AtomicResults' = [AtomicResults EXCEPT ![t] = Atomic!Result(c, AtomicContents)]
  BY <1>11, OwnResult
<1>13. ~Atomic!Refused(c)
  BY <1>2 DEF Atomic!Refused, Atomic!PerKey, Atomic!Logged, Atomic!Constructors,
     Atomic!Assignments
<1>14. QED
  BY <1>1, <1>2, <1>10, <1>12, <1>13 DEF Atomic!Take

(* Where all locks are held, the stores concerned show their entries.      *)
LEMMA LockedShow ==
  ASSUME IInv, NEW t \in Threads, pc[t] \in {"begin", "read"}
  PROVE  LET c == call[t] IN
         /\ c.self \in Stores /\ c.other \in Stores
         /\ c.op \in Atomic!OpNames \ Atomic!PerKey
         /\ c.op \in Atomic!Constructors => c.self = c.other
         /\ ~Atomic!SelfAssignment(c)
         /\ AtomicContents[c.self] = data[c.self]
         /\ c.op \in Atomic!Constructors \cup Atomic!Assignments =>
              AtomicContents[c.other] = data[c.other]
<1> DEFINE c == call[t]
<1>1. /\ c.self \in Stores /\ c.other \in Stores
      /\ c.op \in Atomic!OpNames \ Atomic!PerKey
      /\ c.op \in Atomic!Constructors => c.self = c.other
      /\ ~Atomic!SelfAssignment(c)
  BY CallInProgress DEF IInv, CallOk, AllLocked
<1>2. 1 \in Shards /\ SelfMode(c) \in Modes /\ OtherMode(c) \in Modes
  BY LoopNumbers, ModesAreModes
<1>3. AtomicContents[c.self] = data[c.self]
  <2>1. <<t, SelfMode(c)>> \in lock[<<c.self, 1>>]
    BY ZenonT(60), ZenonT(90), <1>2 DEF IInv, LocksOk, AllLocked
  <2>2. QED
    BY <1>1, <1>2, <2>1, NoWriters
<1>4. ASSUME c.op \in Atomic!Assignments
      PROVE  AtomicContents[c.other] = data[c.other]
  <2>1. <<t, OtherMode(c)>> \in lock[<<c.other, 1>>]
    BY ZenonT(60), ZenonT(90), <1>2, <1>4 DEF IInv, LocksOk, AllLocked
  <2>2. QED
    BY <1>1, <1>2, <2>1, NoWriters
<1>5. QED
  BY <1>1, <1>3, <1>4

(* Entering the loop of Clear or of a move is the moment it takes effect.  *)
LEMMA BeginTakes ==
  ASSUME IInv, OneWriter, OneWriter', NEW t \in Threads, Moves(t), Begin(t),
         pc'[t] = "write"
  PROVE  Atomic!Take(t)
<1> DEFINE c == call[t]
<1>1. /\ pc[t] = "begin" /\ call' = call /\ data' = data /\ at' = at
      /\ ~Atomic!Refused(c) /\ c.op \notin {"Size", "Copy", "CopyAssign"}
  BY DEF Begin, Goto, IInv, TypeOK
<1>2. /\ c.self \in Stores /\ c.other \in Stores
      /\ c.op \in Atomic!OpNames \ Atomic!PerKey
      /\ c.op \in Atomic!Constructors => c.self = c.other
      /\ ~Atomic!SelfAssignment(c)
      /\ AtomicContents[c.self] = data[c.self]
      /\ c.op \in Atomic!Constructors \cup Atomic!Assignments =>
           AtomicContents[c.other] = data[c.other]
  BY <1>1, LockedShow
<1>3. c.op \in {"Clear", "Move", "MoveAssign"}
  BY <1>1, <1>2 DEF Atomic!OpNames, Atomic!Constructors, Atomic!Assignments
<1>4. at[t] = 1 /\ \A k \in Keys : ~(Shard[k] < 1)
  <2>1. at[t] = 1
    BY <1>1 DEF IInv, CallOk, Looping
  <2>2. QED
    BY <2>1, ShardedStoreAssumption DEF Shards
<1>5. c.op = "MoveAssign" => c.self # c.other
  BY <1>2 DEF Atomic!SelfAssignment, Atomic!Assignments
<1>6. ASSUME NEW s \in Stores, s \notin Written(c)
      PROVE  AtomicContents'[s] = AtomicContents[s]
  <2>1. t \notin Writers(s) /\ t \notin Writers(s)'
    BY <1>1, <1>6 DEF Writers
  <2>2. QED
    BY <1>1, <2>1, ContentsSame
<1>7. ASSUME NEW s \in Stores, s \in Written(c)
      PROVE  AtomicContents'[s] = Target(t, s)'
  <2>1. t \in Writers(s)'
    BY <1>1, <1>7 DEF Writers
  <2>2. QED
    BY <2>1, WriterShowsNext
<1>8. data \in [Stores -> [Keys -> Values \cup {Absent}]]
  BY DEF IInv, TypeOK, Atomic!Contents
<1>9. AtomicContents' = Atomic!Effect(c, AtomicContents)
  <2>1. CASE c.op = "Clear"
    <3>1. Atomic!Effect(c, AtomicContents) = [AtomicContents EXCEPT ![c.self] = Atomic!Empty]
      BY <2>1 DEF Atomic!Effect
    <3>2. Written(c) = {c.self}
      BY <2>1 DEF Written
    <3>3. \A s \in Stores : Target(t, s)' = Atomic!Empty
      BY <1>1, <2>1 DEF Target, Atomic!Empty
    <3>4. QED
      BY <1>6, <1>7, <3>1, <3>2, <3>3, ShownAreFunctions
  <2>2. CASE c.op = "Move"
    <3>1. Atomic!Effect(c, AtomicContents) = [AtomicContents EXCEPT ![c.other] = Atomic!Empty]
      BY <2>2 DEF Atomic!Effect
    <3>2. Written(c) = {c.other}
      BY <2>2 DEF Written
    <3>3. \A s \in Stores : Target(t, s)' = Atomic!Empty
      BY <1>1, <2>2 DEF Target, Atomic!Empty
    <3>4. QED
      BY <1>6, <1>7, <3>1, <3>2, <3>3, ShownAreFunctions
  <2>3. CASE c.op = "MoveAssign"
    <3>1. Atomic!Effect(c, AtomicContents)
          = [AtomicContents EXCEPT ![c.self] = AtomicContents[c.other],
                                   ![c.other] = Atomic!Empty]
      BY <1>5, <2>3 DEF Atomic!Effect
    <3>2. Written(c) = {c.self, c.other}
      BY <2>3 DEF Written
    <3>3. \A s \in Stores : s # c.self => Target(t, s)' = Atomic!Empty
      BY <1>1, <2>3 DEF Target, Atomic!Empty
    <3>4. PICK self \in Stores : self = c.self
      BY <1>2
    <3>5. Target(t, self)' = data[c.other]
      <4>1. Target(t, self)' = [k \in Keys |-> data[c.other][k]]
        BY <1>1, <1>4, <2>3, <3>4 DEF Target
      <4>2. QED
        BY <1>2, <1>8, <4>1
    <3>6. AtomicContents[c.other] = data[c.other]
      BY <1>2, <2>3 DEF Atomic!Assignments
    <3>7. AtomicContents'[c.self] = AtomicContents[c.other]
      BY <1>7, <3>2, <3>4, <3>5, <3>6
    <3>8. AtomicContents'[c.other] = Atomic!Empty
      BY <1>2, <1>5, <1>7, <2>3, <3>2, <3>3
    <3>9. \A s \in Stores : s \notin {c.self, c.other} =>
             AtomicContents'[s] = AtomicContents[s]
      BY <1>6, <3>2
    <3>10. QED
      BY <1>2, <1>5, <3>1, <3>7, <3>8, <3>9, ShownAreFunctions
  <2>4. QED
    BY <1>3, <2>1, <2>2, <2>3
<1>10. AtomicResults'[t] = Atomic!Result(c, AtomicContents)
  <2>1. CASE c.op = "Move"
    <3>1. Atomic!Result(c, AtomicContents) = <<"store", data[c.other]>>
      BY <1>2, <2>1 DEF Atomic!Result, Atomic!Constructors
    <3>2. AtomicResults'[t] = <<"store", [k \in Keys |-> data[c.other][k]]>>
      BY <1>1, <1>4, <2>1 DEF AtomicResults
    <3>3. [k \in Keys |-> data[c.other][k]] = data[c.other]
      BY <1>2, <1>8
    <3>4. QED
      BY <3>1, <3>2, <3>3
  <2>2. CASE c.op # "Move"
    <3>1. AtomicResults'[t] = Atomic!Done
      BY <1>1, <2>2 DEF AtomicResults, Atomic!Done
    <3>2. QED
      BY <1>3, <2>2, <3>1 DEF Atomic!Result, Atomic!Constructors
  <2>3. QED
    BY <2>1, <2>2
<1>11. AtomicResults' = [AtomicResults EXCEPT ![t] = Atomic!Result(c, AtomicContents)]
  BY <1>10, OwnResult
<1>12. c # Atomic!NoCall /\ AtomicResults[t] = Atomic!NoResult
  BY <1>1, Pending
<1>13. QED
  BY <1>1, <1>9, <1>11, <1>12 DEF Atomic!Take

(* Reading the last shard is the moment of Size, of the copy constructor   *)
(* and of copy assignment.                                                 *)
LEMMA ReadTakes ==
  ASSUME IInv, OneWriter, OneWriter', NEW t \in Threads, Moves(t), ReadShard(t),
         at[t] = kShardCount
  PROVE  Atomic!Take(t)
<1> DEFINE c == call[t]
           src == Source(c)
           seen == [k \in Keys |-> IF Shard[k] = at[t] THEN data[src][k] ELSE got[t][k]]
<1>1. pc[t] = "read" /\ call' = call /\ data' = data /\ got'[t] = seen
  BY DEF ReadShard, Source, IInv, TypeOK
<1>2. /\ c.self \in Stores /\ c.other \in Stores
      /\ c.op \in Atomic!Constructors => c.self = c.other
      /\ ~Atomic!SelfAssignment(c)
      /\ AtomicContents[c.self] = data[c.self]
      /\ c.op \in Atomic!Constructors \cup Atomic!Assignments =>
           AtomicContents[c.other] = data[c.other]
  BY ZenonT(60), ZenonT(90), <1>1, LockedShow
<1>3. /\ c.op \in {"Size", "Copy", "CopyAssign"} /\ ~Atomic!Refused(c)
      /\ LoopOk(t)
  BY <1>1 DEF IInv, CallOk
<1>4. src \in Stores /\ AtomicContents[src] = data[src]
  BY ZenonT(60), ZenonT(90), <1>2, <1>3 DEF Source, Atomic!Constructors, Atomic!Assignments
<1>5. data \in [Stores -> [Keys -> Values \cup {Absent}]]
  BY DEF IInv, TypeOK, Atomic!Contents
<1>6. seen = data[src]
  <2>1. \A k \in Keys : Shard[k] = at[t] \/ Shard[k] < at[t]
    BY ShardedStoreAssumption DEF Shards
  <2>2. \A k \in Keys : seen[k] = data[src][k]
    BY <1>1, <1>3, <2>1 DEF LoopOk
  <2>3. QED
    BY <1>4, <1>5, <2>2
<1>7. c # Atomic!NoCall /\ AtomicResults[t] = Atomic!NoResult
  BY ZenonT(60), ZenonT(90), <1>1, Pending
<1>8. CASE c.op # "CopyAssign"
  <2>1. Finish(t, IF c.op = "Size" THEN <<"size", Atomic!Count(seen)>> ELSE <<"store", seen>>)
    BY ZenonT(60), ZenonT(90), <1>8 DEF ReadShard, Source
  <2>2. pc'[t] = "return"
    BY <2>1 DEF Finish, Goto, IInv, TypeOK
  <2>3. res'[t] = IF c.op = "Size" THEN <<"size", Atomic!Count(data[src])>>
                  ELSE <<"store", data[src]>>
    BY <1>6, <2>1 DEF Finish, IInv
  <2>4. AtomicContents' = AtomicContents
        /\ AtomicResults' = [AtomicResults EXCEPT ![t] = res'[t]]
    BY ZenonT(60), ZenonT(90), <1>1, <2>2, QuietStep
  <2>5. Atomic!Effect(c, AtomicContents) = AtomicContents
    BY <1>3, <1>8 DEF Atomic!Effect
  <2>6. Atomic!Result(c, AtomicContents) = res'[t]
    <3>1. CASE c.op = "Size"
      BY <1>4, <2>3, <3>1 DEF Atomic!Result, Atomic!Constructors, Source
    <3>2. CASE c.op = "Copy"
      BY <1>4, <2>3, <3>2 DEF Atomic!Result, Atomic!Constructors, Source
    <3>3. QED
      BY ZenonT(60), ZenonT(90), <1>3, <1>8, <3>1, <3>2
  <2>7. QED
    BY ZenonT(60), ZenonT(90), <1>1, <1>3, <1>7, <2>4, <2>5, <2>6 DEF Atomic!Take
<1>9. CASE c.op = "CopyAssign"
  <2>1. pc'[t] = "write"
    BY <1>9 DEF ReadShard, LoopOrGoto, Goto, IInv, TypeOK
  <2>2. src = c.other /\ Written(c) = {c.self}
    BY <1>9 DEF Source, Written
  <2>3. PICK self \in Stores : self = c.self
    BY ZenonT(60), ZenonT(90), <1>2
  <2>4. AtomicContents'[self] = AtomicContents[c.other]
    <3>1. t \in Writers(self)'
      BY <1>1, <2>1, <2>2, <2>3 DEF Writers
    <3>2. AtomicContents'[self] = Target(t, self)'
      BY <3>1, WriterShowsNext
    <3>3. Target(t, self)' = [k \in Keys |-> got'[t][k]]
      BY <1>1, <1>9 DEF Target
    <3>4. Target(t, self)' = data[src]
      BY <1>1, <1>4, <1>5, <1>6, <3>3
    <3>5. QED
      BY <1>4, <2>2, <3>2, <3>4
  <2>5. \A s \in Stores \ {self} : AtomicContents'[s] = AtomicContents[s]
    <3>1. \A s \in Stores \ {self} : t \notin Writers(s) /\ t \notin Writers(s)'
      BY ZenonT(60), ZenonT(90), <1>1, <2>2, <2>3 DEF Writers
    <3>2. QED
      BY ZenonT(60), ZenonT(90), <1>1, <3>1, ContentsSame
  <2>6. AtomicContents' = Atomic!Effect(c, AtomicContents)
    <3>1. Atomic!Effect(c, AtomicContents)
          = [AtomicContents EXCEPT ![c.self] = AtomicContents[c.other]]
      BY <1>9 DEF Atomic!Effect
    <3>2. QED
      BY <2>3, <2>4, <2>5, <3>1, ShownAreFunctions
  <2>7. AtomicResults'[t] = Atomic!Result(c, AtomicContents)
    <3>1. AtomicResults'[t] = Atomic!Done
      BY <1>1, <1>9, <2>1 DEF AtomicResults, Atomic!Done
    <3>2. QED
      BY <1>9, <3>1 DEF Atomic!Result, Atomic!Constructors
  <2>8. AtomicResults' = [AtomicResults EXCEPT ![t] = Atomic!Result(c, AtomicContents)]
    BY <2>7, OwnResult
  <2>9. QED
    BY ZenonT(60), ZenonT(90), <1>1, <1>3, <1>7, <2>6, <2>8 DEF Atomic!Take
<1>10. QED
  BY <1>8, <1>9

(* A turn of a writing loop changes nothing its callers can see.           *)
LEMMA WriteStutters ==
  ASSUME IInv, OneWriter, OneWriter', NEW t \in Threads, Moves(t), WriteShard(t)
  PROVE  UNCHANGED Atomic!vars
<1> DEFINE c == call[t]
           entry(s, k) == CASE c.op = "CopyAssign" -> got[t][k]
                            [] c.op = "MoveAssign" /\ s = c.self -> data[c.other][k]
                            [] OTHER -> Absent
           taken == [k \in Keys |-> IF c.op = "Move" /\ Shard[k] = at[t]
                                    THEN data[c.other][k] ELSE got[t][k]]
<1>1. pc[t] = "write" /\ call' = call /\ got'[t] = taken
  BY DEF WriteShard, IInv, TypeOK
<1>2. \A s \in Stores, k \in Keys :
        data'[s][k] = IF s \in Written(c) /\ Shard[k] = at[t] THEN entry(s, k)
                      ELSE data[s][k]
  BY DEF WriteShard
<1>3. /\ c.self \in Stores /\ c.other \in Stores
      /\ c.op \in {"Clear", "Move", "CopyAssign", "MoveAssign"}
      /\ c.op \in {"CopyAssign", "MoveAssign"} => c.self # c.other
      /\ LoopOk(t)
  BY <1>1, CallInProgress DEF IInv, CallOk, Looping, Atomic!SelfAssignment,
     Atomic!Assignments
<1>4. /\ at[t] \in Shards /\ kShardCount \in Nat \ {0} /\ Shards = 1..kShardCount
      /\ \A k \in Keys : Shard[k] \in Shards
  BY ZenonT(60), ZenonT(90), LoopNumbers, ShardedStoreAssumption DEF Shards
<1>5. \/ /\ at[t] # kShardCount /\ at'[t] = at[t] + 1 /\ pc'[t] = "write"
      \/ /\ at[t] = kShardCount /\ pc'[t] = "return"
         /\ res'[t] = IF c.op = "Move" THEN <<"store", taken>> ELSE Atomic!Done
  <2>1. CASE at[t] # kShardCount
    BY <1>1, <2>1 DEF WriteShard, LoopOrGoto, Goto, IInv, TypeOK
  <2>2. CASE at[t] = kShardCount
    <3>1. Finish(t, IF c.op = "Move" THEN <<"store", taken>> ELSE Atomic!Done)
      BY <2>2 DEF WriteShard
    <3>2. pc'[t] = "return"
      BY <3>1 DEF Finish, Goto, IInv, TypeOK
    <3>3. res'[t] = IF c.op = "Move" THEN <<"store", taken>> ELSE Atomic!Done
      BY <3>1 DEF Finish, IInv
    <3>4. QED
      BY <2>2, <3>2, <3>3
  <2>3. QED
    BY ZenonT(60), ZenonT(90), <2>1, <2>2
<1>6. /\ data \in [Stores -> [Keys -> Values \cup {Absent}]]
      /\ data' \in [Stores -> [Keys -> Values \cup {Absent}]]
  BY TypeKept DEF IInv, TypeOK, Atomic!Contents
<1>7. ASSUME NEW s \in Stores, s \notin Written(c)
      PROVE  AtomicContents'[s] = AtomicContents[s]
  <2>1. t \notin Writers(s) /\ t \notin Writers(s)'
    BY <1>1, <1>7 DEF Writers
  <2>2. data'[s] = data[s]
    BY <1>2, <1>6, <1>7
  <2>3. QED
    BY ZenonT(60), ZenonT(90), <2>1, <2>2, ContentsSame
<1>8. ASSUME NEW s \in Stores, s \in Written(c)
      PROVE  AtomicContents'[s] = AtomicContents[s]
  <2>1. t \in Writers(s) /\ AtomicContents[s] = Target(t, s)
    <3>1. t \in Writers(s)
      BY ZenonT(60), ZenonT(90), <1>1, <1>8 DEF Writers
    <3>2. QED
      BY <3>1, WriterShows
  <2>2. CASE at[t] # kShardCount
    <3>1. at'[t] = at[t] + 1 /\ pc'[t] = "write"
      BY <1>5, <2>2
    <3>2. t \in Writers(s)'
      BY ZenonT(60), ZenonT(90), <1>1, <1>8, <3>1 DEF Writers
    <3>3. AtomicContents'[s] = Target(t, s)'
      BY <3>2, WriterShowsNext
    <3>4. Target(t, s)' = Target(t, s)
      <4>1. CASE c.op = "CopyAssign"
        BY <1>1, <4>1 DEF Target
      <4>2. CASE c.op = "MoveAssign" /\ s = c.self
        <5>1. Written(c) = {c.self, c.other}
          BY <4>2 DEF Written
        <5>2. ASSUME NEW k \in Keys
              PROVE  (IF Shard[k] < at'[t] THEN data'[s][k] ELSE data'[c.other][k])
                     = (IF Shard[k] < at[t] THEN data[s][k] ELSE data[c.other][k])
          <6>1. /\ Shard[k] \in Int /\ at[t] \in Int
                /\ Shard[k] < at'[t] <=> Shard[k] < at[t] \/ Shard[k] = at[t]
            BY <1>4, <3>1
          <6>2. CASE Shard[k] = at[t]
            <7>1. data'[s][k] = data[c.other][k]
              BY <1>2, <1>8, <4>2, <6>2
            <7>2. ~(Shard[k] < at[t])
              BY <6>1, <6>2
            <7>3. QED
              BY <6>1, <6>2, <7>1, <7>2
          <6>3. CASE Shard[k] # at[t]
            BY <1>2, <1>3, <6>1, <6>3
          <6>4. QED
            BY <6>2, <6>3
        <5>3. QED
          BY <1>1, <4>2, <5>2 DEF Target
      <4>3. CASE c.op # "CopyAssign" /\ ~(c.op = "MoveAssign" /\ s = c.self)
        BY <1>1, <4>3 DEF Target
      <4>4. QED
        BY <4>1, <4>2, <4>3
    <3>5. QED
      BY <2>1, <3>3, <3>4
  <2>3. CASE at[t] = kShardCount
    <3>1. pc'[t] = "return"
      BY <1>5, <2>3
    <3>2. Writers(s)' = {}
      <4>1. \A u \in Threads : u \in Writers(s)' => u # t /\ u \in Writers(s)
        BY ZenonT(60), ZenonT(90), <3>1, Frame DEF Writers
      <4>2. \A u \in Writers(s) : u = t
        BY <2>1 DEF OneWriter
      <4>3. QED
        BY <4>1, <4>2 DEF Writers
    <3>3. AtomicContents'[s] = data'[s]
      BY <3>2 DEF AtomicContents
    <3>4. ASSUME NEW k \in Keys
          PROVE  data'[s][k] = Target(t, s)[k]
      <4>1. Shard[k] = at[t] \/ Shard[k] < at[t]
        BY <1>4, <2>3
      <4>2. CASE Shard[k] # at[t]
        BY <1>1, <1>2, <1>3, <1>8, <4>1, <4>2 DEF LoopOk
      <4>3. CASE Shard[k] = at[t]
        <5>1. data'[s][k] = entry(s, k)
          BY <1>2, <1>8, <4>3
        <5>2. ~(Shard[k] < at[t])
          BY <1>4, <4>3
        <5>3. Target(t, s)[k] = entry(s, k)
          <6>1. CASE c.op = "CopyAssign"
            BY <6>1 DEF Target
          <6>2. CASE c.op = "MoveAssign" /\ s = c.self
            BY <5>2, <6>2 DEF Target
          <6>3. CASE c.op # "CopyAssign" /\ ~(c.op = "MoveAssign" /\ s = c.self)
            BY <6>3 DEF Target
          <6>4. QED
            BY <6>1, <6>2, <6>3
        <5>4. QED
          BY <5>1, <5>3
      <4>4. QED
        BY <4>2, <4>3
    <3>5. data'[s] = Target(t, s)
      <4>1. Target(t, s) = [k \in Keys |-> Target(t, s)[k]]
        BY DEF Target
      <4>2. data'[s] = [k \in Keys |-> data'[s][k]]
        BY <1>6
      <4>3. QED
        BY <3>4, <4>1, <4>2
    <3>6. QED
      BY <2>1, <3>3, <3>5
  <2>4. QED
    BY <2>2, <2>3
<1>9. AtomicContents' = AtomicContents
  BY <1>7, <1>8, ShownAreFunctions
<1>10. AtomicResults'[t] = AtomicResults[t]
  <2>1. CASE c.op # "Move"
    BY ZenonT(60), ZenonT(90), <1>1, <1>5, <2>1 DEF AtomicResults, Atomic!Done
  <2>2. CASE c.op = "Move"
    <3> DEFINE old == [k \in Keys |-> IF Shard[k] < at[t] THEN got[t][k]
                                      ELSE data[c.other][k]]
               new == [k \in Keys |-> IF Shard[k] < at'[t] THEN got'[t][k]
                                      ELSE data'[c.other][k]]
    <3>1. AtomicResults[t] = <<"store", old>>
      BY ZenonT(60), ZenonT(90), <1>1, <2>2 DEF AtomicResults
    <3>2. CASE at[t] # kShardCount
      <4>1. at'[t] = at[t] + 1 /\ pc'[t] = "write"
        BY ZenonT(60), ZenonT(90), <1>5, <3>2
      <4>2. AtomicResults'[t] = <<"store", new>>
        BY ZenonT(60), ZenonT(90), <1>1, <2>2, <4>1 DEF AtomicResults
      <4>3. ASSUME NEW k \in Keys
            PROVE  new[k] = old[k]
        <5>1. /\ Shard[k] < at'[t] <=> Shard[k] < at[t] \/ Shard[k] = at[t]
              /\ ~(Shard[k] < at[t] /\ Shard[k] = at[t])
          BY <1>4, <4>1
        <5>2. got'[t][k] = IF Shard[k] = at[t] THEN data[c.other][k] ELSE got[t][k]
          BY <1>1, <2>2
        <5>3. Shard[k] # at[t] => data'[c.other][k] = data[c.other][k]
          BY <1>2, <1>3
        <5>4. QED
          BY <5>1, <5>2, <5>3
      <4>4. QED
        BY ZenonT(60), ZenonT(90), <3>1, <4>2, <4>3
    <3>3. CASE at[t] = kShardCount
      <4>1. AtomicResults'[t] = <<"store", taken>>
        BY ZenonT(60), ZenonT(90), <1>5, <2>2, <3>3 DEF AtomicResults
      <4>2. \A k \in Keys : Shard[k] < at[t] <=> Shard[k] # at[t]
        BY <1>4, <3>3
      <4>3. taken = old
        BY <2>2, <4>2
      <4>4. QED
        BY <3>1, <4>1, <4>3
    <3>4. QED
      BY <3>2, <3>3
  <2>3. QED
    BY <2>1, <2>2
<1>11. AtomicResults' = AtomicResults
  BY <1>10, ResultsSame, ShownAreFunctions
<1>12. QED
  BY <1>1, <1>9, <1>11 DEF Atomic!vars

(* Every step of a thread is a step of the atomic map, or a stutter.       *)
LEMMA MovesRefine ==
  ASSUME IInv, OneWriter, OneWriter', NEW t \in Threads, Moves(t)
  PROVE  Atomic!Next \/ UNCHANGED Atomic!vars
<1> DEFINE c == call[t]
<1>t. pc \in [Threads -> Places]
  BY DEF IInv, TypeOK
<1>1. ASSUME NEW d \in CallsOf[t], Invoke(t, d)
      PROVE  Atomic!Next
  <2>1. pc[t] = "idle" /\ data' = data /\ res' = res /\ call[t] = Atomic!NoCall
        /\ call' = [call EXCEPT ![t] = d]
    BY <1>1 DEF Invoke, IInv, CallOk
  <2>2. pc'[t] # "write"
    BY <1>1, <1>t DEF Invoke, Goto
  <2>3. AtomicContents' = AtomicContents
        /\ AtomicResults' = [AtomicResults EXCEPT ![t] = AtomicResults[t]]
    BY <2>1, <2>2, QuietStep
  <2>4. AtomicResults' = AtomicResults
    BY <2>3, ShownAreFunctions
  <2>5. Atomic!Invoke(t, d)
    BY <2>1, <2>3, <2>4 DEF Atomic!Invoke
  <2>6. QED
    BY ZenonT(60), ZenonT(90), <2>5 DEF Atomic!Next
<1>2. CASE SameStore(t)
  <2>1. pc[t] = "same" /\ data' = data /\ call' = call
    BY <1>2 DEF SameStore
  <2>2. pc'[t] = "return" /\ res'[t] = Atomic!Done
    <3>1. pc'[t] = "return"
      BY <1>2, <1>t DEF SameStore, Finish, Goto
    <3>2. res'[t] = Atomic!Done
      BY <1>2 DEF SameStore, Finish, IInv
    <3>3. QED
      BY <3>1, <3>2
  <2>3. AtomicContents' = AtomicContents
        /\ AtomicResults' = [AtomicResults EXCEPT ![t] = Atomic!Done]
    BY <2>1, <2>2, QuietStep
  <2>4. c # Atomic!NoCall /\ AtomicResults[t] = Atomic!NoResult
    BY <2>1, Pending
  <2>5. c.op \in {"CopyAssign", "MoveAssign"} /\ c.self = c.other /\ ~Atomic!Refused(c)
    BY <2>1 DEF IInv, CallOk, Atomic!SelfAssignment, Atomic!Assignments, Atomic!Refused
  <2>6. Atomic!Effect(c, AtomicContents) = AtomicContents
    <3>1. CASE c.op = "CopyAssign"
      <4>1. Atomic!Effect(c, AtomicContents)
            = [AtomicContents EXCEPT ![c.self] = AtomicContents[c.self]]
        BY <2>5, <3>1 DEF Atomic!Effect
      <4>2. QED
        BY <4>1, ShownAreFunctions
    <3>2. CASE c.op = "MoveAssign"
      BY <2>5, <3>2 DEF Atomic!Effect
    <3>3. QED
      BY <2>5, <3>1, <3>2
  <2>7. Atomic!Result(c, AtomicContents) = Atomic!Done
    BY <2>5 DEF Atomic!Result, Atomic!Constructors
  <2>8. Atomic!Take(t)
    BY <2>1, <2>3, <2>4, <2>5, <2>6, <2>7 DEF Atomic!Take
  <2>9. QED
    BY <2>8 DEF Atomic!Next
<1>3. CASE LockShard(t) \/ AppendToWal(t) \/ LockAdmin(t) \/ LockBoth(t)
           \/ LockOwnShards(t) \/ LockOtherShards(t)
  <2>1. pc[t] # "write" /\ data' = data /\ call' = call /\ res' = res
    BY ZenonT(60), ZenonT(90), <1>3 DEF LockShard, AppendToWal, LockAdmin, LockBoth, LockOwnShards,
       LockOtherShards
  <2>2. pc'[t] # "write"
    BY ZenonT(60), ZenonT(90), <1>3, <1>t
       DEF LockShard, AppendToWal, LockAdmin, LockBoth, LockOwnShards,
       LockOtherShards, LoopOrGoto, Goto
  <2>3. QED
    BY <2>1, <2>2, Stutters
<1>4. CASE AppendThrows(t) \/ Refuse(t)
  <2>1. /\ pc[t] \in {"append", "begin"} /\ data' = data /\ call' = call
        /\ Finish(t, Atomic!Thrown)
        /\ pc[t] = "begin" => Atomic!Refused(c)
    BY ZenonT(60), ZenonT(90), <1>4 DEF AppendThrows, Refuse
  <2>2. pc'[t] = "return" /\ res'[t] = Atomic!Thrown
    <3>1. pc'[t] = "return"
      BY <2>1, <1>t DEF Finish, Goto
    <3>2. res'[t] = Atomic!Thrown
      BY <2>1 DEF Finish, IInv
    <3>3. QED
      BY <3>1, <3>2
  <2>3. AtomicContents' = AtomicContents
        /\ AtomicResults' = [AtomicResults EXCEPT ![t] = Atomic!Thrown]
    BY ZenonT(60), ZenonT(90), <2>1, <2>2, QuietStep
  <2>4. c # Atomic!NoCall /\ AtomicResults[t] = Atomic!NoResult
    BY <2>1, Pending
  <2>5. Atomic!Refused(c) \/ c.op \in Atomic!Logged
    BY <2>1 DEF IInv, CallOk
  <2>6. Atomic!Throw(t)
    BY <2>1, <2>3, <2>4, <2>5 DEF Atomic!Throw
  <2>7. QED
    BY <2>6 DEF Atomic!Next
<1>5. CASE ApplyToKey(t)
  BY <1>5, ApplyTakes DEF Atomic!Next
<1>6. CASE Begin(t)
  <2>1. pc[t] = "begin" /\ data' = data /\ call' = call /\ res' = res
    BY <1>6 DEF Begin
  <2>2. CASE pc'[t] = "write"
    BY <1>6, <2>2, BeginTakes DEF Atomic!Next
  <2>3. CASE pc'[t] # "write"
    BY <2>1, <2>3, Stutters
  <2>4. QED
    BY <2>2, <2>3
<1>7. CASE ReadShard(t)
  <2>1. CASE at[t] = kShardCount
    BY <1>7, <2>1, ReadTakes DEF Atomic!Next
  <2>2. CASE at[t] # kShardCount
    <3>1. pc[t] = "read" /\ data' = data /\ call' = call /\ res' = res
      BY ZenonT(60), ZenonT(90), <1>7, <2>2 DEF ReadShard
    <3>2. pc'[t] = "read"
      BY ZenonT(60), ZenonT(90), <1>7, <1>t, <2>2, <3>1 DEF ReadShard, LoopOrGoto, Goto
    <3>3. QED
      BY <3>1, <3>2, Stutters
  <2>3. QED
    BY <2>1, <2>2
<1>8. CASE WriteShard(t)
  BY <1>8, WriteStutters
<1>9. CASE Return(t)
  <2>1. /\ pc[t] = "return" /\ data' = data /\ call' = [call EXCEPT ![t] = Atomic!NoCall]
        /\ res[t] # Atomic!NoResult
    BY <1>9 DEF Return, IInv, CallOk
  <2>2. pc'[t] = "idle" /\ res'[t] = Atomic!NoResult
    <3>1. pc'[t] = "idle"
      BY <1>9, <1>t DEF Return, Goto
    <3>2. res'[t] = Atomic!NoResult
      BY <1>9 DEF Return, IInv
    <3>3. QED
      BY <3>1, <3>2
  <2>3. /\ AtomicContents' = AtomicContents
        /\ AtomicResults[t] = res[t]
        /\ AtomicResults' = [AtomicResults EXCEPT ![t] = Atomic!NoResult]
    BY ZenonT(60), ZenonT(90), <2>1, <2>2, QuietStep
  <2>4. Atomic!Return(t)
    BY <2>1, <2>3 DEF Atomic!Return
  <2>5. QED
    BY <2>4 DEF Atomic!Next
<1>10. QED
  BY ZenonT(60), ZenonT(90), <1>1, <1>2, <1>3, <1>4, <1>5, <1>6, <1>7, <1>8, <1>9 DEF Moves, Step

(* Whatever the threads, stores, keys, shards and calls: the calls of      *)
(* KVStore take effect one at a time.  The locks and the loops over the    *)
(* shards cannot be told from one step on whole stores, and a call that    *)
(* throws leaves no trace.                                                 *)
THEOREM CallsActAtomically == Spec => ActsAtomically
<1>1. Init => Atomic!Init
  <2> SUFFICES ASSUME Init PROVE Atomic!Init
    OBVIOUS
  <2>1. \A s \in Stores : Writers(s) = {}
    BY DEF Init, Writers
  <2>2. data \in [Stores -> Atomic!Contents]
    BY ShardedStoreAssumption DEF Init
  <2>3. AtomicContents = data
    BY <2>1, <2>2 DEF AtomicContents
  <2>4. AtomicResults = [t \in Threads |-> Atomic!NoResult]
    BY DEF Init, AtomicResults
  <2>5. QED
    BY <2>2, <2>3, <2>4 DEF Init, Atomic!Init
<1>2. IInv /\ OneWriter /\ OneWriter' /\ [Next]_vars => [Atomic!Next]_(Atomic!vars)
  <2> SUFFICES ASSUME IInv, OneWriter, OneWriter', [Next]_vars
               PROVE  Atomic!Next \/ UNCHANGED Atomic!vars
    OBVIOUS
  <2>1. CASE Next
    <3>1. PICK t \in Threads : Moves(t)
      BY <2>1 DEF Next, Moves
    <3>2. QED
      BY <3>1, MovesRefine
  <2>2. CASE UNCHANGED vars
    BY <2>2 DEF vars, Atomic!vars, AtomicContents, AtomicResults, Writers, Target
  <2>3. QED
    BY <2>1, <2>2
<1>3. Spec => []IInv
  BY Invariance
<1>4. QED
  BY <1>1, <1>2, <1>3, WritersExclude, PTL DEF Spec, ActsAtomically, Atomic!Spec
==============================================================================
