---------------------------- MODULE IntentState -----------------------------
(***************************************************************************)
(* The state the scheduler and the execution engine share: the status      *)
(* column of table intents, the streams between the services, and what the *)
(* Wallet Service has applied.  Also the faults a run may contain.         *)
(***************************************************************************)
EXTENDS JetStream

CONSTANTS
  Intent,      \* intent ids
  Transfers,   \* the intents of type TRANSFER; the others move no money
  Deadlined,   \* the intents submitted with a deadline
  Faults,      \* classes of faults that may happen
  MaxFaults    \* bound: how many faults happen in a behaviour

FaultClass ==
  { "schedulerCrash", "workerCrash",   \* process killed, in the middle of a handler
    "schedulerDB", "engineDB",         \* a statement fails, applied or not
    "publishTask", "republishTask",    \* a publish fails, stored or not
    "publishResult",
    "rpc",                             \* the answer of the wallet is lost
    "slow",                            \* AckWait runs out on a message in hand
    "timeout",                         \* the context of a task ends as it is executed
    "duplicate" }                      \* the outbox publishes an event again

ASSUME IntentAssumption ==
  /\ Transfers \subseteq Intent
  /\ Deadlined \subseteq Intent
  /\ Faults \subseteq FaultClass
  /\ MaxFaults \in Nat

VARIABLES
  status,    \* intents.status; "none" before the row is committed
  late,      \* intents whose deadline has passed
  events,    \* stream INTENTS
  tasks,     \* stream TASKS
  executed,  \* stream EXECUTIONS
  moved,     \* wallet_transactions: intents whose transfer was applied
  faults     \* faults so far

shared == <<status, late, events, tasks, executed, moved, faults>>

Status == {"none", "PENDING", "SCHEDULED", "EXECUTING", "COMPLETED", "FAILED"}

Final == {"COMPLETED", "FAILED"}

SharedInit ==
  /\ status = [i \in Intent |-> "none"]
  /\ late = {}
  /\ events = <<>>
  /\ tasks = <<>>
  /\ executed = <<>>
  /\ moved = {}
  /\ faults = 0

(* One fault of class f *)
Fault(f) ==
  /\ f \in Faults
  /\ faults < MaxFaults
  /\ faults' = faults + 1

NoFault == UNCHANGED faults

SetStatus(i, st) == status' = [status EXCEPT ![i] = st]

(* A statement that would set the status, and whose answer is an error:    *)
(* applied or not.                                                         *)
MaybeSetStatus(i, st) == status' \in {status, [status EXCEPT ![i] = st]}

SharedTypeOK ==
  /\ status \in [Intent -> Status]
  /\ late \subseteq Deadlined
  /\ events \in Seq(Message(Intent))
  /\ tasks \in Seq(Message(Intent))
  /\ executed \in Seq(Message(Intent))
  /\ moved \subseteq Transfers
  /\ faults \in 0 .. MaxFaults

=============================================================================
