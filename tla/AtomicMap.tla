------------------------------- MODULE AtomicMap -------------------------------
(***************************************************************************)
(* What KVStore (src/include/store/kv_store.h) promises the threads that   *)
(* share stores: every call takes effect at one moment between its         *)
(* invocation and its return, whole stores being copied, moved, counted or *)
(* cleared at once, and a call that throws changes nothing.                *)
(***************************************************************************)
EXTENDS Integers, FiniteSets

CONSTANTS
  Threads,
  Stores,
  Keys,
  Values,
  Absent,       \* stands for a key without an entry
  Uncopyable,   \* the stores with a Snapshot, hence a checkpoint thread
  CallsOf       \* CallsOf[t]: the calls thread t may make

(* Set and Delete: the ones that write the WAL and throw when it refuses.  *)
Logged == {"Set", "Delete"}
PerKey == Logged \cup {"Get", "Contains"}
Constructors == {"Copy", "Move"}
Assignments == {"CopyAssign", "MoveAssign"}
OpNames == PerKey \cup Constructors \cup Assignments \cup {"Size", "Clear"}

(* self is the store called, other the source of a copy or move; self is   *)
(* also the source when a new store is constructed.                        *)
Call == [op : OpNames, self : Stores, other : Stores, key : Keys, val : Values]

NoCall == [op |-> "none"]
NoResult == <<>>
Done == <<"done">>
Thrown == <<"thrown">>

Contents == [Keys -> Values \cup {Absent}]
Empty == [k \in Keys |-> Absent]
Count(m) == Cardinality({k \in Keys : m[k] # Absent})

VARIABLES
  map,    \* map[s]: the contents of store s
  call,   \* the call each thread is in
  res     \* its result, once it has taken effect

vars == <<map, call, res>>

SelfAssignment(c) == c.op \in Assignments /\ c.self = c.other

(* Copying or moving from or to a store with a checkpoint thread throws.   *)
Refused(c) ==
  /\ c.op \in Constructors \cup Assignments
  /\ ~SelfAssignment(c)
  /\ {c.self, c.other} \cap Uncopyable # {}

Result(c, m) ==
  CASE c.op = "Get" -> <<"value", m[c.self][c.key]>>
    [] c.op \in {"Contains", "Delete"} -> <<"found", m[c.self][c.key] # Absent>>
    [] c.op = "Size" -> <<"size", Count(m[c.self])>>
    [] c.op \in Constructors -> <<"store", m[c.other]>>
    [] OTHER -> Done

Effect(c, m) ==
  CASE c.op = "Set" -> [m EXCEPT ![c.self][c.key] = c.val]
    [] c.op = "Delete" -> [m EXCEPT ![c.self][c.key] = Absent]
    [] c.op = "Clear" -> [m EXCEPT ![c.self] = Empty]
    [] c.op = "Move" -> [m EXCEPT ![c.other] = Empty]
    [] c.op = "CopyAssign" -> [m EXCEPT ![c.self] = m[c.other]]
    [] c.op = "MoveAssign" /\ c.self # c.other ->
         [m EXCEPT ![c.self] = m[c.other], ![c.other] = Empty]
    [] OTHER -> m

Init ==
  /\ map \in [Stores -> Contents]
  /\ call = [t \in Threads |-> NoCall]
  /\ res = [t \in Threads |-> NoResult]

Invoke(t, c) ==
  /\ call[t] = NoCall
  /\ call' = [call EXCEPT ![t] = c]
  /\ UNCHANGED <<map, res>>

Take(t) ==
  /\ call[t] # NoCall /\ res[t] = NoResult
  /\ ~Refused(call[t])
  /\ map' = Effect(call[t], map)
  /\ res' = [res EXCEPT ![t] = Result(call[t], map)]
  /\ UNCHANGED call

Throw(t) ==
  /\ call[t] # NoCall /\ res[t] = NoResult
  /\ Refused(call[t]) \/ call[t].op \in Logged
  /\ res' = [res EXCEPT ![t] = Thrown]
  /\ UNCHANGED <<map, call>>

Return(t) ==
  /\ res[t] # NoResult
  /\ call' = [call EXCEPT ![t] = NoCall]
  /\ res' = [res EXCEPT ![t] = NoResult]
  /\ UNCHANGED map

Next ==
  \E t \in Threads :
    \/ \E c \in CallsOf[t] : Invoke(t, c)
    \/ Take(t)
    \/ Throw(t)
    \/ Return(t)

Spec == Init /\ [][Next]_vars
==============================================================================
