----------------------------- MODULE ShardedStore -----------------------------
(***************************************************************************)
(* The locking of KVStore (src/src/store/kv_store.cpp): several threads    *)
(* call Set, Get, Delete, Contains, Size, Clear, the copy and move         *)
(* constructors and the assignments of several stores.                     *)
(*                                                                         *)
(* A lock is acquired in a step of its own, LockAllShards one shard after  *)
(* the other, and loops over the shards take one step per shard, so that   *)
(* only the locks keep calls apart.  Lock guards release what they hold in *)
(* one step, when the call ends.  The checkpoint machinery of a store with *)
(* a Snapshot is the subject of Checkpoint; here such a store only refuses *)
(* to be copied or moved.                                                  *)
(***************************************************************************)
EXTENDS Integers, FiniteSets

CONSTANTS Threads, Stores, Keys, Values, Absent, Uncopyable, CallsOf,
  kShardCount,
  Shard,          \* Shard[k]: the shard of key k, from the hash of the key
  Logging,        \* the stores constructed with a WAL
  InitialData,    \* the contents the stores may start with
  MaxCalls        \* bound on the calls of each thread

VARIABLES
  pc,       \* where each thread is
  call,     \* the call it is in
  res,      \* the call's result, or that it threw
  at,       \* the shard its loop is at
  got,      \* the entries it has counted, collected or moved out so far
  lock,     \* lock[s, i]: holders of store s's mutex_ (i = 0) or i-th shard
  data,     \* data[s][k]: the entry of key k in its shard of store s
  wal_,     \* wal_[s]: whether store s has a WAL
  calls     \* calls each thread has made

vars == <<pc, call, res, at, got, lock, data, wal_, calls>>

------------------------------------------------------------------------------
(* The stores as their users see them.  A call that changes whole stores   *)
(* takes effect when its loop starts: from then on they show the contents  *)
(* they will have when it ends.                                            *)

Written(c) ==
  CASE c.op \in {"Clear", "CopyAssign"} -> {c.self}
    [] c.op = "Move" -> {c.other}
    [] c.op = "MoveAssign" -> {c.self, c.other}
    [] OTHER -> {}

Writers(s) == {t \in Threads : pc[t] = "write" /\ s \in Written(call[t])}

Target(t, s) ==
  [k \in Keys |->
     CASE call[t].op = "CopyAssign" -> got[t][k]
       [] call[t].op = "MoveAssign" /\ s = call[t].self ->
            IF Shard[k] < at[t] THEN data[s][k] ELSE data[call[t].other][k]
       [] OTHER -> Absent]

AtomicContents ==
  [s \in Stores |-> IF Writers(s) = {} THEN data[s]
                    ELSE Target(CHOOSE t \in Writers(s) : TRUE, s)]

AtomicResults ==
  [t \in Threads |->
     IF pc[t] # "write" THEN res[t]
     ELSE IF call[t].op = "Move"
     THEN <<"store", [k \in Keys |-> IF Shard[k] < at[t] THEN got[t][k]
                                     ELSE data[call[t].other][k]]>>
     ELSE <<"done">>]

Atomic == INSTANCE AtomicMap WITH map <- AtomicContents, res <- AtomicResults

Shards == 1..kShardCount

ASSUME ShardedStoreAssumption ==
  /\ kShardCount \in Nat \ {0}
  /\ Shard \in [Keys -> Shards]
  /\ Absent \notin Values
  /\ Uncopyable \subseteq Stores
  /\ Logging \subseteq Stores
  /\ InitialData \subseteq [Stores -> Atomic!Contents]
  /\ CallsOf \in [Threads -> SUBSET Atomic!Call]
  /\ \A t \in Threads : \A c \in CallsOf[t] :
       c.op \in Atomic!Constructors => c.self = c.other
  /\ MaxCalls \in Nat

Places == {"idle", "same", "shard", "append", "logged", "apply", "admin",
           "self", "other", "begin", "read", "write", "return"}

(* What the variables hold: the places a thread can be at, the locks of    *)
(* every store with their holders, an entry or none for every key.         *)
TypeOK ==
  /\ pc \in [Threads -> Places]
  /\ call \in [Threads -> Atomic!Call \cup {Atomic!NoCall}]
  /\ at \in [Threads -> Shards]
  /\ got \in [Threads -> Atomic!Contents]
  /\ lock \in [Stores \X (0..kShardCount) -> SUBSET (Threads \X {"S", "X"})]
  /\ data \in [Stores -> Atomic!Contents]
  /\ wal_ \in [Stores -> BOOLEAN]
  /\ calls \in [Threads -> 0..MaxCalls]

Init ==
  /\ pc = [t \in Threads |-> "idle"]
  /\ call = [t \in Threads |-> Atomic!NoCall]
  /\ res = [t \in Threads |-> Atomic!NoResult]
  /\ at = [t \in Threads |-> 1]
  /\ got = [t \in Threads |-> Atomic!Empty]
  /\ lock = [x \in Stores \X (0..kShardCount) |-> {}]
  /\ data \in InitialData
  /\ wal_ = [s \in Stores |-> s \in Logging]
  /\ calls = [t \in Threads |-> 0]

Goto(t, l) == pc' = [pc EXCEPT ![t] = l]

------------------------------------------------------------------------------
(* Locks: std::shared_mutex, held shared ("S") or exclusively ("X").       *)

Free(x, mode) == \A h \in lock[x] : mode = "S" /\ h[2] = "S"

Acquire(t, x, mode) ==
  /\ Free(x, mode)
  /\ lock' = [lock EXCEPT ![x] = @ \cup {<<t, mode>>}]

ReleaseAll(t) == lock' = [x \in DOMAIN lock |-> {h \in lock[x] : h[1] # t}]

SelfMode(c) == IF c.op \in {"Get", "Contains", "Size", "Copy"} THEN "S" ELSE "X"
OtherMode(c) == IF c.op = "CopyAssign" THEN "S" ELSE "X"

(* The call ends with result r; its lock guards are destroyed.             *)
Finish(t, r) ==
  /\ res' = [res EXCEPT ![t] = r]
  /\ ReleaseAll(t)
  /\ Goto(t, "return")

------------------------------------------------------------------------------
(* Size and the calls on one key do without mutex_.                        *)
Invoke(t, c) ==
  /\ pc[t] = "idle" /\ calls[t] < MaxCalls
  /\ calls' = [calls EXCEPT ![t] = @ + 1]
  /\ call' = [call EXCEPT ![t] = c]
  /\ Goto(t, CASE c.op \in Atomic!PerKey -> "shard"
               [] c.op = "Size" -> "self"
               [] Atomic!SelfAssignment(c) -> "same"
               [] OTHER -> "admin")
  /\ UNCHANGED <<res, at, got, lock, data, wal_>>

(* The early return of a self-assignment.                                  *)
SameStore(t) ==
  /\ pc[t] = "same"
  /\ Finish(t, Atomic!Done)
  /\ UNCHANGED <<call, at, got, data, wal_, calls>>

LockShard(t) ==
  LET c == call[t] IN
  /\ pc[t] = "shard"
  /\ Acquire(t, <<c.self, Shard[c.key]>>, SelfMode(c))
  /\ Goto(t, IF c.op \in Atomic!Logged /\ wal_[c.self] THEN "append" ELSE "apply")
  /\ UNCHANGED <<call, res, at, got, data, wal_, calls>>

(* AppendSet and AppendDelete, under the shard's lock.                     *)
AppendToWal(t) ==
  /\ pc[t] = "append"
  /\ Goto(t, "logged")
  /\ UNCHANGED <<call, res, at, got, lock, data, wal_, calls>>

AppendThrows(t) ==
  /\ pc[t] = "append"
  /\ Finish(t, Atomic!Thrown)
  /\ UNCHANGED <<call, at, got, data, wal_, calls>>

ApplyToKey(t) ==
  LET c == call[t]
      entry == data[c.self][c.key]
  IN
  /\ pc[t] \in {"apply", "logged"}
  /\ data' = CASE c.op = "Set" -> [data EXCEPT ![c.self][c.key] = c.val]
               [] c.op = "Delete" -> [data EXCEPT ![c.self][c.key] = Absent]
               [] OTHER -> data
  /\ Finish(t, CASE c.op = "Set" -> Atomic!Done
                 [] c.op = "Get" -> <<"value", entry>>
                 [] OTHER -> <<"found", entry # Absent>>)
  /\ UNCHANGED <<call, at, got, wal_, calls>>

------------------------------------------------------------------------------
(* Calls on whole stores.                                                  *)

LockAdmin(t) ==
  LET c == call[t] IN
  /\ pc[t] = "admin" /\ c.op \notin Atomic!Assignments
  /\ Acquire(t, <<c.self, 0>>, SelfMode(c))
  /\ Goto(t, "self")
  /\ UNCHANGED <<call, res, at, got, data, wal_, calls>>

(* Variant for mutation: an assignment takes only its own mutex_.          *)
LockBoth_OwnOnly(t) ==
  LET c == call[t] IN
  /\ pc[t] = "admin" /\ c.op \in Atomic!Assignments
  /\ Acquire(t, <<c.self, 0>>, "X")
  /\ Goto(t, "self")
  /\ UNCHANGED <<call, res, at, got, data, wal_, calls>>

(* Variant for mutation: wal_ is copied before the shards are locked.      *)
LockBoth_CopiesWal(t) ==
  LET c == call[t] IN
  /\ pc[t] = "admin" /\ c.op \in Atomic!Assignments
  /\ Free(<<c.self, 0>>, "X") /\ Free(<<c.other, 0>>, OtherMode(c))
  /\ lock' = [lock EXCEPT ![<<c.self, 0>>] = @ \cup {<<t, "X">>},
                          ![<<c.other, 0>>] = @ \cup {<<t, OtherMode(c)>>}]
  /\ wal_' = IF c.op = "CopyAssign" THEN [wal_ EXCEPT ![c.self] = wal_[c.other]] ELSE wal_
  /\ Goto(t, "self")
  /\ UNCHANGED <<call, res, at, got, data, calls>>

(* std::lock: both mutex_ or, backing off, neither.                        *)
LockBoth(t) ==
  LET c == call[t] IN
  /\ pc[t] = "admin" /\ c.op \in Atomic!Assignments
  /\ Free(<<c.self, 0>>, "X") /\ Free(<<c.other, 0>>, OtherMode(c))
  /\ lock' = [lock EXCEPT ![<<c.self, 0>>] = @ \cup {<<t, "X">>},
                          ![<<c.other, 0>>] = @ \cup {<<t, OtherMode(c)>>}]
  /\ Goto(t, "self")
  /\ UNCHANGED <<call, res, at, got, data, wal_, calls>>

(* Variant for mutation: the loop's index is not reset.                    *)
LoopOrGoto_PastEnd(t, l) ==
  /\ at' = [at EXCEPT ![t] = @ + 1]
  /\ Goto(t, IF at[t] = kShardCount THEN l ELSE pc[t])

(* One turn of a loop over the shards; after the last, go on at l.         *)
LoopOrGoto(t, l) ==
  /\ at' = [at EXCEPT ![t] = IF @ = kShardCount THEN 1 ELSE @ + 1]
  /\ Goto(t, IF at[t] = kShardCount THEN l ELSE pc[t])

(* Variant for mutation: only the first shard is locked.                   *)
LockOwnShards_First(t) ==
  LET c == call[t] IN
  /\ pc[t] = "self"
  /\ Acquire(t, <<c.self, 1>>, SelfMode(c))
  /\ Goto(t, IF c.op \in Atomic!Assignments THEN "other" ELSE "begin")
  /\ UNCHANGED <<call, res, at, got, data, wal_, calls>>

(* LockAllShardsShared and LockAllShardsExclusive.                         *)
LockOwnShards(t) ==
  LET c == call[t] IN
  /\ pc[t] = "self"
  /\ Acquire(t, <<c.self, at[t]>>, SelfMode(c))
  /\ LoopOrGoto(t, IF c.op \in Atomic!Assignments THEN "other" ELSE "begin")
  /\ UNCHANGED <<call, res, got, data, wal_, calls>>

LockOtherShards(t) ==
  LET c == call[t] IN
  /\ pc[t] = "other"
  /\ Acquire(t, <<c.other, at[t]>>, OtherMode(c))
  /\ LoopOrGoto(t, "begin")
  /\ UNCHANGED <<call, res, got, data, wal_, calls>>

(* All locks are held: throw std::logic_error or enter the loop.           *)
Refuse(t) ==
  /\ pc[t] = "begin" /\ Atomic!Refused(call[t])
  /\ Finish(t, Atomic!Thrown)
  /\ UNCHANGED <<call, at, got, data, wal_, calls>>

Begin(t) ==
  /\ pc[t] = "begin" /\ ~Atomic!Refused(call[t])
  /\ Goto(t, IF call[t].op \in {"Size", "Copy", "CopyAssign"} THEN "read" ELSE "write")
  /\ UNCHANGED <<call, res, at, got, lock, data, wal_, calls>>

(* CollectDataLocked, and the loop of Size.                                *)
ReadShard(t) ==
  LET c == call[t]
      s == IF c.op = "Size" THEN c.self ELSE c.other
      seen == [k \in Keys |-> IF Shard[k] = at[t] THEN data[s][k] ELSE got[t][k]]
  IN
  /\ pc[t] = "read"
  /\ got' = [got EXCEPT ![t] = seen]
  /\ IF at[t] = kShardCount /\ c.op # "CopyAssign"
       THEN /\ Finish(t, IF c.op = "Size" THEN <<"size", Atomic!Count(seen)>>
                         ELSE <<"store", seen>>)
            /\ at' = [at EXCEPT ![t] = 1]
       ELSE LoopOrGoto(t, "write") /\ UNCHANGED <<res, lock>>
  /\ UNCHANGED <<call, data, wal_, calls>>

(* ReplaceDataLocked, the loop of Clear and those that move the shards of  *)
(* other into self or into a new store; a map moved from is empty.         *)
WriteShard(t) ==
  LET c == call[t]
      entry(s, k) == CASE c.op = "CopyAssign" -> got[t][k]
                       [] c.op = "MoveAssign" /\ s = c.self -> data[c.other][k]
                       [] OTHER -> Absent
      taken == [k \in Keys |-> IF c.op = "Move" /\ Shard[k] = at[t]
                               THEN data[c.other][k] ELSE got[t][k]]
  IN
  /\ pc[t] = "write"
  /\ data' = [s \in Stores |-> [k \in Keys |->
                IF s \in Written(c) /\ Shard[k] = at[t] THEN entry(s, k) ELSE data[s][k]]]
  /\ got' = [got EXCEPT ![t] = taken]
  /\ IF at[t] = kShardCount
       THEN /\ Finish(t, IF c.op = "Move" THEN <<"store", taken>> ELSE Atomic!Done)
            /\ at' = [at EXCEPT ![t] = 1]
            /\ wal_' = [s \in Stores |->
                          IF s = c.self /\ c.op \in Atomic!Assignments THEN wal_[c.other]
                          ELSE IF s = c.other /\ c.op \in {"Move", "MoveAssign"} THEN FALSE
                          ELSE wal_[s]]
       ELSE LoopOrGoto(t, "write") /\ UNCHANGED <<res, lock, wal_>>
  /\ UNCHANGED <<call, calls>>

------------------------------------------------------------------------------
Return(t) ==
  /\ pc[t] = "return"
  /\ Goto(t, "idle")
  /\ call' = [call EXCEPT ![t] = Atomic!NoCall]
  /\ res' = [res EXCEPT ![t] = Atomic!NoResult]
  /\ UNCHANGED <<at, got, lock, data, wal_, calls>>

Step(t) ==
  \/ SameStore(t) \/ LockShard(t) \/ AppendToWal(t) \/ AppendThrows(t)
  \/ ApplyToKey(t) \/ LockAdmin(t) \/ LockBoth(t) \/ LockOwnShards(t)
  \/ LockOtherShards(t) \/ Refuse(t) \/ Begin(t) \/ ReadShard(t)
  \/ WriteShard(t) \/ Return(t)

Next == \E t \in Threads : (\E c \in CallsOf[t] : Invoke(t, c)) \/ Step(t)

Spec == Init /\ [][Next]_vars

(* A thread that can go on does: the operating system runs every thread,   *)
(* and as the calls are finitely many a lock in demand comes free.         *)
FairSpec == Spec /\ \A t \in Threads : WF_vars(Step(t))

------------------------------------------------------------------------------
(* Every call on shared stores takes effect at one moment, as if the store *)
(* had one lock: Size counts one state of all the shards, a copy is a      *)
(* state the source was in, a move empties one store and fills the other   *)
(* at once, and a call that throws leaves no trace.                        *)
ActsAtomically == Atomic!Spec

(* What Set and Delete see of wal_ stays true until the entry is changed,  *)
(* though they take no mutex_ and hold the lock of one shard only: no      *)
(* assignment or move takes a WAL away from a call that appends to it, and *)
(* none gives a store a WAL between a call's look at wal_ and its change   *)
(* of the entry, which would then be missing from the log.                 *)
SeenWalStays ==
  \A t \in Threads :
    /\ pc[t] \in {"append", "logged"} => wal_[call[t].self]
    /\ pc[t] = "apply" /\ call[t].op \in Atomic!Logged => ~wal_[call[t].self]

(* No combination of calls waits in a circle: ascending shard locks, and   *)
(* assignments between stores kept apart by mutex_, let every call return. *)
CallsReturn == \A t \in Threads : call[t] # Atomic!NoCall ~> call[t] = Atomic!NoCall
==============================================================================
