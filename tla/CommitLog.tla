------------------------------ MODULE CommitLog ------------------------------
(***************************************************************************)
(* What the write-ahead log promises to the store that appends to it.      *)
(*                                                                         *)
(* A log of requests only grows, a prefix of it is on stable storage, and  *)
(* a request is acknowledged only once it is in the part of the log that   *)
(* the durability policy names.  The first error breaks the log: from then *)
(* on it never grows again, and requests can only be answered with errors. *)
(***************************************************************************)
EXTENDS Integers, Sequences

CONSTANT
  Requests     \* append calls, each made at most once

VARIABLES
  needsSync,   \* TRUE when an acknowledgement promises stable storage
  log,         \* the requests a replay of the file returns, in order
  durable,     \* how many of them survive a power loss
  outcome,     \* what each call returned: "none" while it has not returned
  broken       \* TRUE after the first I/O error

vars == <<needsSync, log, durable, outcome, broken>>

Init ==
  /\ needsSync \in BOOLEAN
  /\ log = <<>>
  /\ durable = 0
  /\ outcome = [r \in Requests |-> "none"]
  /\ broken = FALSE

(* The log keeps what it has and gains only requests that are still open,   *)
(* none of them twice.                                                      *)
LogExtends ==
  /\ Len(log') >= Len(log)
  /\ \A i \in 1..Len(log) : log'[i] = log[i]
  /\ \A i \in (Len(log) + 1)..Len(log') :
       /\ outcome[log'[i]] = "none"
       /\ \A j \in 1..(i - 1) : log'[j] # log'[i]

Write ==
  /\ ~broken
  /\ LogExtends
  /\ UNCHANGED <<needsSync, durable, outcome, broken>>

Flush ==
  /\ durable' \in durable..Len(log)
  /\ UNCHANGED <<needsSync, log, outcome, broken>>

Acknowledge(r) ==
  /\ outcome[r] = "none"
  /\ \E i \in 1..(IF needsSync THEN durable ELSE Len(log)) : log[i] = r
  /\ outcome' = [outcome EXCEPT ![r] = "ok"]
  /\ UNCHANGED <<needsSync, log, durable, broken>>

Refuse(r) ==
  /\ outcome[r] = "none"
  /\ outcome' = [outcome EXCEPT ![r] = "error"]
  /\ UNCHANGED <<needsSync, log, durable, broken>>

(* An I/O error: part of what was being written may have reached the file,  *)
(* and the caller that was doing the I/O itself is told so at once.         *)
Break ==
  /\ ~broken
  /\ UNCHANGED needsSync
  /\ broken' = TRUE
  /\ LogExtends
  /\ durable' \in durable..Len(log')
  /\ \/ UNCHANGED outcome
     \/ \E r \in Requests :
          /\ outcome[r] = "none"
          /\ outcome' = [outcome EXCEPT ![r] = "error"]

Next ==
  \/ Write
  \/ Flush
  \/ \E r \in Requests : Acknowledge(r) \/ Refuse(r)
  \/ Break

Spec == Init /\ [][Next]_vars
==============================================================================
