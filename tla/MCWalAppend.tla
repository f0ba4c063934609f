----------------------------- MODULE MCWalAppend -----------------------------
(* Values for the constants of WalAppend.                                  *)
EXTENDS WalAppend, TLC

CONSTANTS r1, r2, r3, wide, big

(* Small records, of which four fit into a batch; a record as large as a   *)
(* frame may hold, which fills a batch alone; one that no frame can hold.  *)
MCRecordLength ==
  [r \in Requests |-> CASE r = big -> kMaxRecordLength + 1
                        [] r = wide -> kMaxRecordLength
                        [] OTHER -> 1]

SmallOnesAlike == Permutations({r1, r2, r3})
==============================================================================
