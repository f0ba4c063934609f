---------------------------- MODULE MCShardedStore ----------------------------
(* Values for the constants of ShardedStore: two stores that are copied to *)
(* and fro while a third thread works on their keys, and a store that      *)
(* refuses to be copied.                                                   *)
EXTENDS ShardedStore

CONSTANTS t1, t2, t3, a, b, p, k1, k2, v1, v2

MCShard == [k \in Keys |-> IF k = k1 THEN 1 ELSE 2]

On(op, self, other, key) ==
  [op |-> op, self |-> self, other |-> other, key |-> key, val |-> v2]

MCCallsOf ==
  [t \in Threads |->
     CASE t = t1 -> {On("CopyAssign", a, b, k1), On("MoveAssign", a, b, k1),
                     On("MoveAssign", b, b, k1), On("Clear", a, a, k1),
                     On("Move", b, b, k1), On("CopyAssign", p, a, k1)}
       [] t = t2 -> {On("CopyAssign", b, a, k1), On("MoveAssign", b, a, k1),
                     On("CopyAssign", b, p, k1),
                     On("Copy", a, a, k1), On("Size", a, a, k1), On("Set", a, a, k1)}
       [] t = t3 -> {On("Set", a, a, k2), On("Delete", b, b, k2), On("Get", a, a, k1),
                     On("Contains", b, b, k1), On("MoveAssign", p, a, k1),
                     On("Size", b, b, k1), On("Copy", b, b, k1)}]

MCInitialData ==
  {[s \in Stores |-> [k \in Keys |-> IF s = a \/ k = k2 THEN v1 ELSE Absent]]}
==============================================================================
