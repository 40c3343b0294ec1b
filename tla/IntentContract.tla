--------------------------- MODULE IntentContract ---------------------------
(***************************************************************************)
(* What the platform promises of an intent, without schedulers, workers or *)
(* messages: an accepted intent is open until it is rejected or starts to  *)
(* run; it runs once; money moves only while it runs, and once; it is      *)
(* reported done only if its money moved and failed only if it did not.    *)
(***************************************************************************)
CONSTANTS
  Intent,      \* intent ids
  Transfers    \* those that move money

VARIABLES
  phase,   \* what a client is told of an intent
  paid     \* intents whose money has moved

contract == <<phase, paid>>

CInit ==
  /\ phase = [i \in Intent |-> "none"]
  /\ paid = {}

Enter(i, p) == phase' = [phase EXCEPT ![i] = p] /\ UNCHANGED paid

Accept(i) == phase[i] = "none" /\ Enter(i, "open")

Start(i) == phase[i] = "open" /\ Enter(i, "running")

Pay(i) ==
  /\ phase[i] = "running"
  /\ i \in Transfers \ paid
  /\ paid' = paid \cup {i}
  /\ UNCHANGED phase

Complete(i) ==
  /\ phase[i] = "running"
  /\ i \in Transfers => i \in paid
  /\ Enter(i, "done")

Reject(i) ==
  /\ phase[i] \in {"open", "running"}
  /\ i \notin paid
  /\ Enter(i, "failed")

CNext ==
  \E i \in Intent : Accept(i) \/ Start(i) \/ Pay(i) \/ Complete(i) \/ Reject(i)

CSpec == CInit /\ [][CNext]_contract

=============================================================================
