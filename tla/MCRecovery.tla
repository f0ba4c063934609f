------------------------------ MODULE MCRecovery ------------------------------
(* Values for the constants of Recovery.                                   *)
EXTENDS Recovery, TLC

CONSTANTS k1, k2, v1, v2

KeysAlike == Permutations(Keys)
ValuesAlike == Permutations(Values)
DataAlike == KeysAlike \cup ValuesAlike

(* Power losses under Sync; power losses under Buffered, with the job that *)
(* records no offset; process crashes and I/O errors under both ways of    *)
(* acknowledging.  Jobs that throw under Sync meet the power losses.       *)
PowerScenario ==
  [policy |-> "Sync", faults |-> {"power", "job"}, crashes |-> 2,
   jobs |-> {"Checkpoint", "CompactPersistence", "ClearPersistence"}]
BufferedPowerScenario ==
  [policy |-> "Buffered", faults |-> {"power"}, crashes |-> 2,
   jobs |-> {"CompactPersistence"}]
ProcessScenario(p, throwing) ==
  [policy |-> p, faults |-> {"crash", "stream", "sync"} \cup throwing, crashes |-> 1,
   jobs |-> {"Checkpoint", "CompactPersistence"}]
SafeScenarios ==
  {PowerScenario, BufferedPowerScenario,
   ProcessScenario("Buffered", {"job"}), ProcessScenario("Sync", {})}

(* A reset that is interrupted.                                            *)
InterruptedReset ==
  {[policy |-> "Sync", faults |-> {"crash", "reset"}, crashes |-> 1,
    jobs |-> {"SaveSnapshot", "ClearPersistence"}]}

(* The three ways in which a snapshot covers frames that were not synced   *)
(* before the power fails; RecoveryUnsyncedOffset checks the first.        *)
CrashThenPowerLoss ==
  {[policy |-> "Sync", faults |-> {"crash", "power"}, crashes |-> 2,
    jobs |-> {"SaveSnapshot"}]}
FailedSyncThenPowerLoss ==
  {[policy |-> "Sync", faults |-> {"sync", "power"}, crashes |-> 2,
    jobs |-> {"SaveSnapshot"}]}
BufferedPowerLoss ==
  {[policy |-> "Buffered", faults |-> {"power"}, crashes |-> 2,
    jobs |-> {"SaveSnapshot"}]}
===============================================================================
