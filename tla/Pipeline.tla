------------------------------ MODULE Pipeline ------------------------------
(***************************************************************************)
(* The path of an intent from submission to its final status: schedulers   *)
(* and workers over the shared status column, INTENTS and TASKS.           *)
(***************************************************************************)
EXTENDS Scheduler, ExecutionEngine

vars == <<shared, scheduler, engine>>

PInit == SharedInit /\ SchedulerInit /\ EngineInit

(* The intent service commits the row; its outbox publishes the event. *)
Submit(i) ==
  /\ status[i] = "none"
  /\ SetStatus(i, "PENDING")
  /\ events' = Publish(events, i)
  /\ UNCHANGED <<late, tasks, executed, moved, faults, scheduler, engine>>

(* The outbox delivers at least once. *)
SubmitAgain(i) ==
  /\ status[i] # "none"
  /\ Fault("duplicate")
  /\ events' = Publish(events, i)
  /\ UNCHANGED <<status, late, tasks, executed, moved, scheduler, engine>>

DeadlinePasses(i) ==
  /\ i \in Deadlined \ late
  /\ late' = late \cup {i}
  /\ UNCHANGED <<status, events, tasks, executed, moved, faults, scheduler, engine>>

PNext ==
  \/ \E i \in Intent : Submit(i) \/ SubmitAgain(i) \/ DeadlinePasses(i)
  \/ SchedulerNext /\ UNCHANGED engine
  \/ EngineNext /\ UNCHANGED scheduler

PSpec == PInit /\ [][PNext]_vars

(* The broker delivers what is ready and gives up on unanswered messages,  *)
(* and a handler that is not killed goes on: its calls return, within the  *)
(* timeouts of 10 and 30 seconds.  Faults happen, they are never due; that *)
(* MaxFaults bounds them says that they stop for long enough.              *)
Fairness ==
  /\ \A s \in Process : WF_vars((ReceiveEvent(s) \/ Handle(s)) /\ UNCHANGED engine)
  /\ WF_vars(EventAckWait /\ UNCHANGED engine)
  /\ \A w \in Worker : WF_vars((ReceiveTask(w) \/ Execute(w)) /\ UNCHANGED scheduler)
  /\ WF_vars(TaskAckWait /\ UNCHANGED scheduler)

FairPSpec == PSpec /\ Fairness

-----------------------------------------------------------------------------
(* Properties *)

(* Every variable has its type; a handler has a message in hand exactly    *)
(* while it runs (scheduler/main.go, execution-engine/main.go).            *)
PTypeOK == SharedTypeOK /\ SchedulerTypeOK /\ EngineTypeOK

(* The transitions of table intents: "STATE MACHINE" of intent.proto,      *)
(* without the states no service ever sets.                                *)
Forward ==
  { <<"none", "PENDING">>, <<"PENDING", "SCHEDULED">>, <<"PENDING", "FAILED">>,
    <<"SCHEDULED", "EXECUTING">>, <<"EXECUTING", "COMPLETED">>, <<"EXECUTING", "FAILED">> }

(* Status only moves forward, although the scheduler and the final write   *)
(* of the engine update it without looking at it.                          *)
StatusForward ==
  [][ \A i \in Intent : status'[i] = status[i] \/ <<status[i], status'[i]>> \in Forward ]_vars

(* Worker w is between its claim of an intent and the result *)
Executes(w, i) == wpc[w] \in {"execute", "finish"} /\ WIntent(w) = i

(* EXECUTING "acts as a state lock": tasks of one intent, delivered twice  *)
(* or published twice, never run in two workers, and a running one has the *)
(* status.                                                                 *)
OneExecutor ==
  \A i \in Intent :
    /\ \A v, w \in Worker : Executes(v, i) /\ Executes(w, i) => v = w
    /\ \A w \in Worker : Executes(w, i) => status[i] = "EXECUTING"

(* What a client sees of a status: INTENT_STATUS_SCHEDULED is an internal  *)
(* step of an intent that is still to be executed.                         *)
Phase(st) ==
  CASE st \in {"PENDING", "SCHEDULED"} -> "open"
    [] st = "EXECUTING"                -> "running"
    [] st = "COMPLETED"                -> "done"
    [] st = "FAILED"                   -> "failed"
    [] OTHER                           -> "none"

Contract ==
  INSTANCE IntentContract WITH phase <- [i \in Intent |-> Phase(status[i])], paid <- moved

(* The pipeline keeps the contract of an intent: redelivered events and    *)
(* tasks, second publishes, crashes and failed statements never run it     *)
(* twice, take back a final status, report COMPLETED of a transfer the     *)
(* wallet did not apply or FAILED of one that it did.                      *)
KeepsContract == Contract!CSpec

(* Intent i is late, and no scheduler has read it in time *)
Overdue(i) ==
  /\ i \in late
  /\ status[i] \in {"none", "PENDING"}
  /\ \A s \in Process : ~(spc[s] = "schedule" /\ SIntent(s) = i)

(* "Deadline check": once the deadline is over and no handler is between   *)
(* its check and its UPDATE, the intent can only become FAILED, however    *)
(* often its event is delivered.                                           *)
OverdueOnlyFails ==
  [][ \A i \in Intent : Overdue(i) => Overdue(i)' \/ status'[i] = "FAILED" ]_vars

(* "We must call m.Ack() once the database write + NATS publish succeed":  *)
(* when the scheduler has acknowledged all it was told of an intent, the   *)
(* intent has left PENDING, and if it is SCHEDULED its task is in TASKS.   *)
AckedMeansPublished ==
  \A i \in Intent :
    ~Pending(events, i) => /\ status[i] # "PENDING"
                           /\ status[i] = "SCHEDULED" => Stored(tasks, i)

(* A SCHEDULED intent is never forgotten: a message that will move it on   *)
(* is still unacknowledged.                                                *)
ScheduledIsRemembered ==
  \A i \in Intent : status[i] = "SCHEDULED" => Pending(events, i) \/ Pending(tasks, i)

(* Every submitted intent gets a final status. *)
EveryIntentSettles ==
  \A i \in Intent : status[i] = "PENDING" ~> status[i] \in Final

=============================================================================
