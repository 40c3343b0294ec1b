----------------------------- MODULE Scheduler ------------------------------
(***************************************************************************)
(* handleSubmittedIntent and the subscription that calls it.  Each         *)
(* scheduler process handles one message of the queue group at a time,     *)
(* statement by statement.                                                 *)
(***************************************************************************)
EXTENDS IntentState

CONSTANT Process   \* scheduler processes

VARIABLES
  spc,   \* next step of the handler
  smsg   \* position in INTENTS of the message in hand; 0 for none

scheduler == <<spc, smsg>>

SchedulerPC == {"idle", "read", "expire", "schedule", "publish", "republish", "ack", "nak"}

SchedulerInit ==
  /\ spc = [s \in Process |-> "idle"]
  /\ smsg = [s \in Process |-> 0]

SGoto(s, l) == spc' = [spc EXCEPT ![s] = l] /\ UNCHANGED smsg

(* Mutant: the handler ends and keeps its message. *)
SDoneKeepingMessage(s) == SGoto(s, "idle")

SDone(s) ==
  /\ spc' = [spc EXCEPT ![s] = "idle"]
  /\ smsg' = [smsg EXCEPT ![s] = 0]

SIntent(s) == events[smsg[s]].intent

-----------------------------------------------------------------------------
ReceiveEvent(s) ==
  /\ spc[s] = "idle"
  /\ \E m \in Ready(events) :
       /\ events' = Deliver(events, m)
       /\ smsg' = [smsg EXCEPT ![s] = m]
  /\ spc' = [spc EXCEPT ![s] = "read"]
  /\ UNCHANGED <<status, late, tasks, executed, moved, faults>>

(* Mutant: the deadline is not looked at. *)
AfterReadAnyDeadline(i) ==
  CASE status[i] = "PENDING"   -> "schedule"
    [] status[i] = "SCHEDULED" -> "republish"
    [] OTHER                   -> "ack"

(* SELECT status, deadline: what the handler does next depends on the      *)
(* status it reads here, and on the clock.                                 *)
AfterRead(i) ==
  CASE status[i] = "PENDING" /\ i \in late    -> "expire"
    [] status[i] = "PENDING" /\ i \notin late -> "schedule"
    [] status[i] = "SCHEDULED"                -> "republish"
    [] OTHER                                  -> "ack"

ReadStatus(s) ==
  /\ spc[s] = "read"
  /\ \/ SGoto(s, AfterRead(SIntent(s))) /\ NoFault
     \/ SGoto(s, "nak") /\ Fault("schedulerDB")
  /\ UNCHANGED <<status, late, events, tasks, executed, moved>>

ExpireIntent(s) ==
  /\ spc[s] = "expire"
  /\ \/ SetStatus(SIntent(s), "FAILED") /\ SGoto(s, "ack") /\ NoFault
     \/ MaybeSetStatus(SIntent(s), "FAILED") /\ SGoto(s, "nak") /\ Fault("schedulerDB")
  /\ UNCHANGED <<late, events, tasks, executed, moved>>

(* The transaction that sets SCHEDULED, whatever the status is by now *)
ScheduleIntent(s) ==
  /\ spc[s] = "schedule"
  /\ \/ SetStatus(SIntent(s), "SCHEDULED") /\ SGoto(s, "publish") /\ NoFault
     \/ MaybeSetStatus(SIntent(s), "SCHEDULED") /\ SGoto(s, "nak") /\ Fault("schedulerDB")
  /\ UNCHANGED <<late, events, tasks, executed, moved>>

(* Mutant: a failed publish is acknowledged. *)
PublishTaskAndAck(s) ==
  /\ spc[s] = "publish"
  /\ \/ tasks' = Publish(tasks, SIntent(s)) /\ NoFault
     \/ tasks' \in PublishFails(tasks, SIntent(s)) /\ Fault("publishTask")
  /\ SGoto(s, "ack")
  /\ UNCHANGED <<status, late, events, executed, moved>>

PublishTask(s) ==
  /\ spc[s] = "publish"
  /\ \/ tasks' = Publish(tasks, SIntent(s)) /\ SGoto(s, "ack") /\ NoFault
     \/ tasks' \in PublishFails(tasks, SIntent(s)) /\ SGoto(s, "nak") /\ Fault("publishTask")
  /\ UNCHANGED <<status, late, events, executed, moved>>

(* Mutant: nothing is published for an intent already SCHEDULED. *)
RepublishTaskSkipped(s) ==
  /\ spc[s] = "republish"
  /\ SGoto(s, "ack")
  /\ UNCHANGED shared

(* Already SCHEDULED: the task is published again, and the message is      *)
(* acknowledged whether that succeeds or not.                              *)
RepublishTask(s) ==
  /\ spc[s] = "republish"
  /\ \/ tasks' = Publish(tasks, SIntent(s)) /\ NoFault
     \/ tasks' \in PublishFails(tasks, SIntent(s)) /\ Fault("republishTask")
  /\ SGoto(s, "ack")
  /\ UNCHANGED <<status, late, events, executed, moved>>

AckEvent(s) ==
  /\ spc[s] = "ack"
  /\ events' = Ack(events, smsg[s])
  /\ SDone(s)
  /\ UNCHANGED <<status, late, tasks, executed, moved, faults>>

(* Mutant: the message is acknowledged although the handler failed. *)
NakEventAcked(s) ==
  /\ spc[s] = "nak"
  /\ events' = Ack(events, smsg[s])
  /\ SDone(s)
  /\ UNCHANGED <<status, late, tasks, executed, moved, faults>>

NakEvent(s) ==
  /\ spc[s] = "nak"
  /\ events' = Redeliver(events, smsg[s])
  /\ SDone(s)
  /\ UNCHANGED <<status, late, tasks, executed, moved, faults>>

(* The process is killed; its message stays out until AckWait expires.  A  *)
(* lost Ack or Nak has the same effect.                                    *)
SchedulerCrash(s) ==
  /\ spc[s] # "idle"
  /\ Fault("schedulerCrash")
  /\ SDone(s)
  /\ UNCHANGED <<status, late, events, tasks, executed, moved>>

(* AckWait expires on a message nobody holds any more, or on one that its  *)
(* holder, busy with an earlier message, has not finished.                 *)
EventAckWait ==
  /\ \E m \in DOMAIN events :
       /\ events[m].state = "out"
       /\ IF \E s \in Process : smsg[s] = m THEN Fault("slow") ELSE NoFault
       /\ events' = Redeliver(events, m)
  /\ UNCHANGED <<status, late, tasks, executed, moved, scheduler>>

(* Every step of the handler but the crash *)
Handle(s) ==
  \/ ReadStatus(s) \/ ExpireIntent(s) \/ ScheduleIntent(s)
  \/ PublishTask(s) \/ RepublishTask(s)
  \/ AckEvent(s) \/ NakEvent(s)

SchedulerNext ==
  \/ \E s \in Process : ReceiveEvent(s) \/ Handle(s) \/ SchedulerCrash(s)
  \/ EventAckWait

SchedulerTypeOK ==
  /\ spc \in [Process -> SchedulerPC]
  /\ smsg \in [Process -> 0 .. Len(events)]
  /\ \A s \in Process : smsg[s] = 0 <=> spc[s] = "idle"

=============================================================================
