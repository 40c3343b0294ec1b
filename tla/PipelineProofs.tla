--------------------------- MODULE PipelineProofs ---------------------------
(***************************************************************************)
(* The safety properties of Pipeline, and its refinement of                *)
(* IntentContract, for every set of intents, workers and scheduler         *)
(* processes.                                                              *)
(***************************************************************************)
EXTENDS Pipeline, TLAPS

-----------------------------------------------------------------------------
(* Streams *)

(* A message with a new state *)
LEMMA MessageWithState ==
  ASSUME NEW r \in Message(Intent), NEW x \in MessageState
  PROVE  [r EXCEPT !.state = x] = [intent |-> r.intent, state |-> x]
<1>. DEFINE q == [r EXCEPT !.state = x]
<1>1. q \in Message(Intent) /\ q.state = x /\ q.intent = r.intent
  BY DEF Message
<1>. HIDE DEF q
<1>2. q = [intent |-> q.intent, state |-> q.state]
  BY <1>1 DEF Message
<1>. QED  BY <1>1, <1>2 DEF q

(* A publish appends a ready message for the intent. *)
LEMMA PublishFacts ==
  ASSUME NEW st \in Seq(Message(Intent)), NEW i \in Intent
  PROVE  /\ Publish(st, i) \in Seq(Message(Intent))
         /\ Len(Publish(st, i)) = Len(st) + 1
         /\ DOMAIN Publish(st, i) = DOMAIN st \cup {Len(st) + 1}
         /\ \A m \in DOMAIN st : Publish(st, i)[m] = st[m]
         /\ Publish(st, i)[Len(st) + 1] = [intent |-> i, state |-> "ready"]
  BY DEF Publish, Message, MessageState

(* The stream with message m in state x *)
With(st, m, x) == [st EXCEPT ![m].state = x]

LEMMA WithFacts ==
  ASSUME NEW st \in Seq(Message(Intent)), NEW m \in DOMAIN st, NEW x \in MessageState
  PROVE  /\ With(st, m, x) \in Seq(Message(Intent))
         /\ Len(With(st, m, x)) = Len(st)
         /\ DOMAIN With(st, m, x) = DOMAIN st
         /\ \A n \in DOMAIN st : With(st, m, x)[n].intent = st[n].intent
         /\ \A n \in DOMAIN st \ {m} : With(st, m, x)[n].state = st[n].state
         /\ With(st, m, x)[m].state = x
<1>1. st[m] \in Message(Intent)
  OBVIOUS
<1>. DEFINE r == [intent |-> st[m].intent, state |-> x]
<1>2. With(st, m, x) = [st EXCEPT ![m] = r]
  BY <1>1, MessageWithState, Zenon DEF With
<1>3. r \in Message(Intent) /\ r.intent = st[m].intent /\ r.state = x
  BY <1>1 DEF Message
<1>. HIDE DEF r
<1>. QED  BY <1>2, <1>3

(* A delivery, an answer or its timeout changes the state of one message,  *)
(* and never an intent.                                                    *)
LEMMA StateFacts ==
  ASSUME NEW st \in Seq(Message(Intent)), NEW m \in DOMAIN st, NEW st2,
         st2 \in {Deliver(st, m), Ack(st, m), Redeliver(st, m)}
  PROVE  /\ st2 \in Seq(Message(Intent))
         /\ Len(st2) = Len(st)
         /\ DOMAIN st2 = DOMAIN st
         /\ \A n \in DOMAIN st : st2[n].intent = st[n].intent
         /\ \A n \in DOMAIN st \ {m} : st2[n].state = st[n].state
         /\ Redeliver(st, m)[m].state = "acked" <=> st[m].state = "acked"
         /\ Deliver(st, m)[m].state = "out"
<1>1. st[m] \in Message(Intent)
  OBVIOUS
<1>. DEFINE y == IF st[m].state = "out" THEN "ready" ELSE st[m].state
<1>2. y \in MessageState /\ (y = "acked" <=> st[m].state = "acked")
  BY <1>1 DEF Message, MessageState
<1>3. /\ Deliver(st, m) = With(st, m, "out")
      /\ Ack(st, m) = With(st, m, "acked")
      /\ Redeliver(st, m) = With(st, m, y)
  BY Zenon DEF Deliver, Ack, Redeliver, With
<1>4. "out" \in MessageState /\ "acked" \in MessageState
  BY DEF MessageState
<1>. HIDE DEF y
<1>5. ASSUME NEW x \in MessageState
      PROVE  /\ With(st, m, x) \in Seq(Message(Intent))
             /\ Len(With(st, m, x)) = Len(st)
             /\ DOMAIN With(st, m, x) = DOMAIN st
             /\ \A n \in DOMAIN st : With(st, m, x)[n].intent = st[n].intent
             /\ \A n \in DOMAIN st \ {m} : With(st, m, x)[n].state = st[n].state
             /\ With(st, m, x)[m].state = x
  BY WithFacts
<1>. QED  BY <1>2, <1>3, <1>4, <1>5

-----------------------------------------------------------------------------
(* Types *)

LEMMA HandlerFacts ==
  ASSUME PTypeOK, NEW s \in Process, spc[s] # "idle"
  PROVE  smsg[s] \in DOMAIN events /\ SIntent(s) \in Intent
<1>1. smsg[s] \in DOMAIN events
  BY DEF PTypeOK, SharedTypeOK, SchedulerTypeOK
<1>2. events[smsg[s]] \in Message(Intent)
  BY <1>1 DEF PTypeOK, SharedTypeOK
<1>. QED  BY <1>1, <1>2 DEF SIntent, Message

LEMMA WorkerFacts ==
  ASSUME PTypeOK, NEW w \in Worker, wpc[w] # "idle"
  PROVE  wtask[w] \in DOMAIN tasks /\ WIntent(w) \in Intent
<1>1. wtask[w] \in DOMAIN tasks
  BY DEF PTypeOK, SharedTypeOK, EngineTypeOK
<1>2. tasks[wtask[w]] \in Message(Intent)
  BY <1>1 DEF PTypeOK, SharedTypeOK
<1>. QED  BY <1>1, <1>2 DEF WIntent, Message

(* A message is delivered, answered or timed out, or one is published. *)
Moves(st, st2) ==
  \/ st2 = st
  \/ \E m \in DOMAIN st : st2 \in {Deliver(st, m), Ack(st, m), Redeliver(st, m)}
  \/ \E i \in Intent : st2 = Publish(st, i)

LEMMA StreamType ==
  ASSUME NEW st, NEW st2, st \in Seq(Message(Intent)), Moves(st, st2)
  PROVE  /\ st2 \in Seq(Message(Intent))
         /\ Len(st) <= Len(st2)
         /\ DOMAIN st \subseteq DOMAIN st2
         /\ \A n \in DOMAIN st : st2[n].intent = st[n].intent
<1>1. CASE st2 = st
  BY <1>1
<1>2. CASE \E m \in DOMAIN st : st2 \in {Deliver(st, m), Ack(st, m), Redeliver(st, m)}
  <2>1. PICK m \in DOMAIN st : st2 \in {Deliver(st, m), Ack(st, m), Redeliver(st, m)}
    BY <1>2
  <2>2. /\ st2 \in Seq(Message(Intent))
        /\ Len(st2) = Len(st)
        /\ DOMAIN st2 = DOMAIN st
        /\ \A n \in DOMAIN st : st2[n].intent = st[n].intent
    BY <2>1, StateFacts
  <2>. QED  BY <2>2
<1>3. CASE \E i \in Intent : st2 = Publish(st, i)
  <2>1. PICK i \in Intent : st2 = Publish(st, i)
    BY <1>3
  <2>2. /\ st2 \in Seq(Message(Intent))
        /\ Len(st2) = Len(st) + 1
        /\ DOMAIN st2 = DOMAIN st \cup {Len(st) + 1}
        /\ \A n \in DOMAIN st : st2[n] = st[n]
    BY <2>1, PublishFacts
  <2>. QED  BY <2>2
<1>. QED  BY <1>1, <1>2, <1>3 DEF Moves

LEMMA StreamsMove ==
  ASSUME PTypeOK, PNext
  PROVE  Moves(events, events') /\ Moves(tasks, tasks') /\ Moves(executed, executed')
<1>. USE DEF Moves, shared, scheduler, engine
<1>1. ASSUME NEW i \in Intent, Submit(i) \/ SubmitAgain(i) \/ DeadlinePasses(i)
      PROVE  Moves(events, events') /\ Moves(tasks, tasks') /\ Moves(executed, executed')
  BY <1>1 DEF Submit, SubmitAgain, DeadlinePasses
<1>2. ASSUME NEW s \in Process, ReceiveEvent(s) \/ Handle(s) \/ SchedulerCrash(s)
      PROVE  Moves(events, events') /\ Moves(tasks, tasks') /\ Moves(executed, executed')
  <2>1. CASE ReceiveEvent(s)
    BY <2>1 DEF ReceiveEvent, Ready
  <2>2. CASE ReadStatus(s) \/ ExpireIntent(s) \/ ScheduleIntent(s) \/ SchedulerCrash(s)
    BY <2>2 DEF ReadStatus, ExpireIntent, ScheduleIntent, SchedulerCrash
  <2>3. CASE PublishTask(s) \/ RepublishTask(s)
    BY <2>3, HandlerFacts DEF PublishTask, RepublishTask, PublishFails
  <2>4. CASE AckEvent(s) \/ NakEvent(s)
    BY <2>4, HandlerFacts DEF AckEvent, NakEvent
  <2>. QED  BY <1>2, <2>1, <2>2, <2>3, <2>4 DEF Handle
<1>3. ASSUME EventAckWait
      PROVE  Moves(events, events') /\ Moves(tasks, tasks') /\ Moves(executed, executed')
  BY <1>3 DEF EventAckWait
<1>4. ASSUME NEW w \in Worker, ReceiveTask(w) \/ Execute(w) \/ WorkerCrash(w)
      PROVE  Moves(events, events') /\ Moves(tasks, tasks') /\ Moves(executed, executed')
  <2>1. CASE ReceiveTask(w)
    BY <2>1 DEF ReceiveTask, Ready
  <2>2. CASE Claim(w) \/ Transfer(w) \/ TransferRefused(w) \/ Compute(w) \/ ContextEnds(w)
             \/ WriteResult(w) \/ WorkerCrash(w)
    BY <2>2 DEF Claim, Transfer, TransferRefused, Compute, ContextEnds, WriteResult, WorkerCrash
  <2>3. CASE PublishResult(w)
    BY <2>3, WorkerFacts DEF PublishResult, PublishFails
  <2>4. CASE AckTask(w) \/ NakTask(w)
    BY <2>4, WorkerFacts DEF AckTask, NakTask
  <2>. QED  BY <1>4, <2>1, <2>2, <2>3, <2>4 DEF Execute
<1>5. ASSUME TaskAckWait
      PROVE  Moves(events, events') /\ Moves(tasks, tasks') /\ Moves(executed, executed')
  BY <1>5 DEF TaskAckWait
<1>. HIDE DEF Moves, shared, scheduler, engine
<1>. QED  BY <1>1, <1>2, <1>3, <1>4, <1>5 DEF PNext, SchedulerNext, EngineNext

LEMMA StreamsType ==
  ASSUME PTypeOK, PNext
  PROVE  /\ events' \in Seq(Message(Intent)) /\ Len(events) <= Len(events')
         /\ tasks' \in Seq(Message(Intent)) /\ Len(tasks) <= Len(tasks')
         /\ executed' \in Seq(Message(Intent))
         /\ \A m \in DOMAIN events : m \in DOMAIN events' /\ events'[m].intent = events[m].intent
         /\ \A m \in DOMAIN tasks : m \in DOMAIN tasks' /\ tasks'[m].intent = tasks[m].intent
  BY StreamsMove, StreamType DEF PTypeOK, SharedTypeOK

LEMMA PTypeInit == PInit => PTypeOK
  BY IntentAssumption DEF PInit, SharedInit, SchedulerInit, EngineInit,
     PTypeOK, SharedTypeOK, SchedulerTypeOK, EngineTypeOK,
     Status, SchedulerPC, WorkerPC, Final

LEMMA PTypeStep == PTypeOK /\ [PNext]_vars => PTypeOK'
<1>1. ASSUME PTypeOK, UNCHANGED vars PROVE PTypeOK'
  BY <1>1 DEF vars, shared, scheduler, engine, PTypeOK, SharedTypeOK, SchedulerTypeOK, EngineTypeOK
<1>2. ASSUME PTypeOK, PNext PROVE PTypeOK'
  <2>. USE <1>2 DEF shared, scheduler, engine, NoFault, Fault, SetStatus, MaybeSetStatus
  <2>. DEFINE Streams == /\ events' \in Seq(Message(Intent)) /\ Len(events) <= Len(events')
                         /\ tasks' \in Seq(Message(Intent)) /\ Len(tasks) <= Len(tasks')
                         /\ executed' \in Seq(Message(Intent))
  <2>0. Streams
    BY StreamsType
  <2>. HIDE DEF Streams
  <2>a. /\ Len(events) \in Nat /\ Len(events') \in Nat /\ Len(tasks) \in Nat /\ Len(tasks') \in Nat
        /\ Len(events) <= Len(events') /\ Len(tasks) <= Len(tasks')
    BY <2>0 DEF Streams, PTypeOK, SharedTypeOK
  <2>1. ASSUME NEW i \in Intent, Submit(i) \/ SubmitAgain(i) \/ DeadlinePasses(i) PROVE PTypeOK'
    <3>1. SharedTypeOK'
      BY <2>0, <2>1, IntentAssumption DEF Streams, PTypeOK, SharedTypeOK, Submit, SubmitAgain, DeadlinePasses, Status
    <3>2. SchedulerTypeOK' /\ EngineTypeOK'
      BY <2>a, <2>1 DEF PTypeOK, SchedulerTypeOK, EngineTypeOK, Submit, SubmitAgain, DeadlinePasses
    <3>. QED  BY <3>1, <3>2 DEF PTypeOK
  <2>2. ASSUME NEW s \in Process, ReceiveEvent(s) \/ Handle(s) \/ SchedulerCrash(s), UNCHANGED engine
        PROVE  PTypeOK'
    <3>1. spc[s] # "idle" => SIntent(s) \in Intent
      BY HandlerFacts
    <3>2. status' \in [Intent -> Status] /\ late' = late /\ moved' = moved /\ faults' \in 0 .. MaxFaults
      BY <2>2, <3>1, IntentAssumption DEF PTypeOK, SharedTypeOK, Status, ReceiveEvent, Handle, ReadStatus, ExpireIntent,
         ScheduleIntent, PublishTask, RepublishTask, AckEvent, NakEvent, SchedulerCrash
    <3>3. SharedTypeOK'
      BY <2>0, <3>2 DEF Streams, PTypeOK, SharedTypeOK
    <3>4. SchedulerTypeOK'
      <4>. USE DEF PTypeOK, SchedulerTypeOK, SchedulerPC, SGoto, SDone
      <4>1. CASE ReceiveEvent(s)
        BY <2>a, <4>1 DEF ReceiveEvent, Ready, SharedTypeOK
      <4>2. CASE ReadStatus(s)
        BY <2>a, <4>2 DEF ReadStatus, AfterRead
      <4>3. CASE ExpireIntent(s) \/ ScheduleIntent(s)
        BY <2>a, <4>3 DEF ExpireIntent, ScheduleIntent
      <4>4. CASE PublishTask(s) \/ RepublishTask(s)
        BY <2>a, <4>4 DEF PublishTask, RepublishTask
      <4>5. CASE AckEvent(s)
        BY <2>a, <4>5 DEF AckEvent
      <4>6. CASE NakEvent(s)
        BY <2>a, <4>6 DEF NakEvent
      <4>7. CASE SchedulerCrash(s)
        BY <2>a, <4>7 DEF SchedulerCrash
      <4>. QED  BY <2>2, <4>1, <4>2, <4>3, <4>4, <4>5, <4>6, <4>7 DEF Handle
    <3>5. EngineTypeOK'
      BY <2>a, <2>2 DEF PTypeOK, EngineTypeOK
    <3>. QED  BY <3>3, <3>4, <3>5 DEF PTypeOK
  <2>3. ASSUME EventAckWait \/ TaskAckWait, UNCHANGED <<spc, smsg, wpc, wtask, wres>> PROVE PTypeOK'
    <3>1. SharedTypeOK'
      BY <2>0, <2>3, IntentAssumption DEF Streams, PTypeOK, SharedTypeOK, EventAckWait, TaskAckWait
    <3>2. SchedulerTypeOK' /\ EngineTypeOK'
      BY <2>a, <2>3 DEF PTypeOK, SchedulerTypeOK, EngineTypeOK
    <3>. QED  BY <3>1, <3>2 DEF PTypeOK
  <2>4. ASSUME NEW w \in Worker, ReceiveTask(w) \/ Execute(w) \/ WorkerCrash(w), UNCHANGED scheduler
        PROVE  PTypeOK'
    <3>1. wpc[w] # "idle" => WIntent(w) \in Intent
      BY WorkerFacts
    <3>2. status' \in [Intent -> Status] /\ late' = late /\ moved' \subseteq Transfers /\ faults' \in 0 .. MaxFaults
      <4>. USE IntentAssumption DEF PTypeOK, SharedTypeOK
      <4>1. CASE ReceiveTask(w) \/ TransferRefused(w) \/ AckTask(w) \/ NakTask(w) \/ WorkerCrash(w) \/ PublishResult(w)
        BY <4>1 DEF ReceiveTask, TransferRefused, AckTask, NakTask, WorkerCrash, PublishResult
      <4>2. CASE Claim(w)
        BY <3>1, <4>2 DEF Claim, Status
      <4>3. CASE Transfer(w) \/ Compute(w) \/ ContextEnds(w)
        BY <3>1, <4>3 DEF Transfer, Compute, ContextEnds
      <4>4. CASE WriteResult(w)
        <5>1. wpc[w] = "finish" => wres[w] \in Status
          BY DEF EngineTypeOK, Final, Status
        <5>. QED  BY <3>1, <5>1, <4>4 DEF WriteResult
      <4>. QED  BY <2>4, <4>1, <4>2, <4>3, <4>4 DEF Execute
    <3>3. SharedTypeOK'
      BY <2>0, <3>2 DEF Streams, PTypeOK, SharedTypeOK
    <3>4. EngineTypeOK'
      <4>. USE DEF PTypeOK, EngineTypeOK, WorkerPC, Final, WGoto, WDone, Result
      <4>1. CASE ReceiveTask(w)
        BY <2>a, <4>1 DEF ReceiveTask, Ready, SharedTypeOK
      <4>2. CASE Claim(w) \/ ContextEnds(w) \/ WriteResult(w) \/ PublishResult(w)
        BY <2>a, <4>2 DEF Claim, ContextEnds, WriteResult, PublishResult
      <4>3. CASE Transfer(w) \/ TransferRefused(w) \/ Compute(w)
        <5>1. wpc[w] = "execute" /\ (Result(w, "COMPLETED") \/ Result(w, "FAILED"))
          BY <4>3 DEF Transfer, TransferRefused, Compute
        <5>2. wres' \in [Worker -> Final \cup {"none"}]
          BY <5>1
        <5>. QED  BY <2>a, <5>1, <5>2
      <4>4. CASE AckTask(w) \/ NakTask(w) \/ WorkerCrash(w)
        <5>1. WDone(w)
          BY <4>4 DEF AckTask, NakTask, WorkerCrash
        <5>2. wres' \in [Worker -> Final \cup {"none"}]
          BY <5>1
        <5>. QED  BY <2>a, <5>1, <5>2
      <4>. QED  BY <2>4, <4>1, <4>2, <4>3, <4>4 DEF Execute
    <3>5. SchedulerTypeOK'
      BY <2>a, <2>4 DEF PTypeOK, SchedulerTypeOK
    <3>. QED  BY <3>3, <3>4, <3>5 DEF PTypeOK
  <2>. QED
    BY <2>1, <2>2, <2>3, <2>4 DEF PNext, SchedulerNext, EngineNext, EventAckWait, TaskAckWait
<1>. QED  BY <1>1, <1>2

(* Every variable keeps its type, and a handler has a message in hand      *)
(* exactly while it runs, for any number of schedulers and workers.        *)
THEOREM PipelineTypeCorrect == PSpec => []PTypeOK
  BY PTypeInit, PTypeStep, PTL DEF PSpec

-----------------------------------------------------------------------------
(* What holds for any number of schedulers *)

(* A message that asks for an answer is still there after a delivery, a    *)
(* timeout or a publish, and after the acknowledgement of another intent.  *)
LEMMA PendingKept ==
  ASSUME NEW st \in Seq(Message(Intent)), NEW i, Pending(st, i), NEW st2,
         \/ st2 = st
         \/ \E m \in DOMAIN st : st2 \in {Deliver(st, m), Redeliver(st, m)}
         \/ \E m \in DOMAIN st : st2 = Ack(st, m) /\ st[m].intent # i
         \/ \E j \in Intent : st2 = Publish(st, j)
  PROVE  Pending(st2, i)
<1>. PICK n \in DOMAIN st : st[n].intent = i /\ st[n].state # "acked"
  BY DEF Pending
<1>1. CASE st2 = st
  BY <1>1 DEF Pending
<1>2. ASSUME NEW m \in DOMAIN st, st2 \in {Deliver(st, m), Redeliver(st, m)}
      PROVE  Pending(st2, i)
  <2>1. /\ DOMAIN st2 = DOMAIN st
        /\ st2[n].intent = st[n].intent
        /\ n # m => st2[n].state = st[n].state
        /\ Redeliver(st, m)[m].state = "acked" <=> st[m].state = "acked"
        /\ Deliver(st, m)[m].state = "out"
    BY <1>2, StateFacts
  <2>. QED  BY <1>2, <2>1 DEF Pending
<1>3. ASSUME NEW m \in DOMAIN st, st2 = Ack(st, m), st[m].intent # i
      PROVE  Pending(st2, i)
  <2>1. /\ DOMAIN st2 = DOMAIN st
        /\ st2[n].intent = st[n].intent
        /\ n # m => st2[n].state = st[n].state
    BY <1>3, StateFacts
  <2>. QED  BY <1>3, <2>1 DEF Pending
<1>4. ASSUME NEW j \in Intent, st2 = Publish(st, j)
      PROVE  Pending(st2, i)
  <2>1. /\ DOMAIN Publish(st, j) = DOMAIN st \cup {Len(st) + 1}
        /\ \A m \in DOMAIN st : Publish(st, j)[m] = st[m]
    BY PublishFacts
  <2>. QED  BY <1>4, <2>1 DEF Pending
<1>. QED  BY <1>1, <1>2, <1>3, <1>4

(* An event is published after its row is committed. *)
EventsKnown == \A m \in DOMAIN events : status[events[m].intent] # "none"

(* A task is published after the status is SCHEDULED. *)
TasksScheduled == \A m \in DOMAIN tasks : status[tasks[m].intent] \notin {"none", "PENDING"}

(* A handler that has done its part has moved the intent from PENDING. *)
Decided ==
  \A s \in Process :
    spc[s] \in {"publish", "republish", "ack"} => status[SIntent(s)] \notin {"none", "PENDING"}

(* A PENDING intent has an event that is not acknowledged. *)
PendingIsTold == \A i \in Intent : status[i] = "PENDING" => Pending(events, i)

ResultKnown == \A w \in Worker : wpc[w] = "finish" => wres[w] \in Final

AInv == PTypeOK /\ EventsKnown /\ TasksScheduled /\ Decided /\ PendingIsTold /\ ResultKnown

(* A status other than "none" and PENDING is never left for these two. *)
Onward(a, b) ==
  \/ b = a
  \/ a = "none" /\ b = "PENDING"
  \/ a # "none" /\ b \notin {"none", "PENDING"}

LEMMA StatusOnward ==
  ASSUME AInv, PNext
  PROVE  \A i \in Intent : Onward(status[i], status'[i])
<1>. USE DEF AInv, Onward, shared, scheduler, engine, NoFault, Fault, SetStatus, MaybeSetStatus
<1>0. status \in [Intent -> Status]
  BY DEF PTypeOK, SharedTypeOK
<1>1. ASSUME NEW i \in Intent, Submit(i) \/ SubmitAgain(i) \/ DeadlinePasses(i)
      PROVE  \A j \in Intent : Onward(status[j], status'[j])
  BY <1>0, <1>1 DEF Submit, SubmitAgain, DeadlinePasses
<1>2. ASSUME NEW s \in Process, ReceiveEvent(s) \/ Handle(s) \/ SchedulerCrash(s)
      PROVE  \A j \in Intent : Onward(status[j], status'[j])
  <2>1. CASE ReceiveEvent(s) \/ ReadStatus(s) \/ PublishTask(s) \/ RepublishTask(s)
             \/ AckEvent(s) \/ NakEvent(s) \/ SchedulerCrash(s)
    BY <2>1 DEF ReceiveEvent, ReadStatus, PublishTask, RepublishTask, AckEvent, NakEvent, SchedulerCrash
  <2>2. CASE ExpireIntent(s) \/ ScheduleIntent(s)
    <3>1. SIntent(s) \in Intent /\ status[SIntent(s)] # "none"
      BY <2>2, HandlerFacts DEF ExpireIntent, ScheduleIntent, EventsKnown, SIntent
    <3>. QED  BY <1>0, <2>2, <3>1 DEF ExpireIntent, ScheduleIntent
  <2>. QED  BY <1>2, <2>1, <2>2 DEF Handle
<1>3. ASSUME EventAckWait \/ TaskAckWait
      PROVE  \A j \in Intent : Onward(status[j], status'[j])
  BY <1>3 DEF EventAckWait, TaskAckWait
<1>4. ASSUME NEW w \in Worker, ReceiveTask(w) \/ Execute(w) \/ WorkerCrash(w)
      PROVE  \A j \in Intent : Onward(status[j], status'[j])
  <2>1. CASE ReceiveTask(w) \/ Transfer(w) \/ TransferRefused(w) \/ Compute(w) \/ ContextEnds(w)
             \/ PublishResult(w) \/ AckTask(w) \/ NakTask(w) \/ WorkerCrash(w)
    BY <2>1 DEF ReceiveTask, Transfer, TransferRefused, Compute, ContextEnds, PublishResult, AckTask, NakTask, WorkerCrash
  <2>2. CASE Claim(w)
    <3>1. WIntent(w) \in Intent
      BY <2>2, WorkerFacts DEF Claim
    <3>. QED  BY <1>0, <2>2, <3>1 DEF Claim
  <2>3. CASE WriteResult(w)
    <3>1. /\ WIntent(w) \in Intent /\ status[WIntent(w)] # "none"
          /\ wres[w] \notin {"none", "PENDING"}
      BY <2>3, WorkerFacts DEF WriteResult, TasksScheduled, WIntent, ResultKnown, Final
    <3>. QED  BY <1>0, <2>3, <3>1 DEF WriteResult
  <2>. QED  BY <1>4, <2>1, <2>2, <2>3 DEF Execute
<1>. HIDE DEF AInv, Onward
<1>. QED  BY <1>1, <1>2, <1>3, <1>4 DEF PNext, SchedulerNext, EngineNext

(* A handler or worker that keeps its message keeps its intent. *)
LEMMA IntentKept ==
  ASSUME PTypeOK, PNext
  PROVE  /\ \A s \in Process : spc[s] # "idle" /\ smsg'[s] = smsg[s] => SIntent(s)' = SIntent(s)
         /\ \A w \in Worker : wpc[w] # "idle" /\ wtask'[w] = wtask[w] => WIntent(w)' = WIntent(w)
<1>1. ASSUME NEW s \in Process, spc[s] # "idle", smsg'[s] = smsg[s] PROVE SIntent(s)' = SIntent(s)
  BY <1>1, HandlerFacts, StreamsType DEF SIntent
<1>2. ASSUME NEW w \in Worker, wpc[w] # "idle", wtask'[w] = wtask[w] PROVE WIntent(w)' = WIntent(w)
  BY <1>2, WorkerFacts, StreamsType DEF WIntent
<1>. QED  BY <1>1, <1>2

LEMMA AInvInit == PInit => AInv
<1>. SUFFICES ASSUME PInit PROVE AInv
  OBVIOUS
<1>1. PTypeOK
  BY PTypeInit
<1>2. EventsKnown /\ TasksScheduled /\ Decided /\ PendingIsTold /\ ResultKnown
  BY DEF PInit, SharedInit, SchedulerInit, EngineInit, EventsKnown, TasksScheduled, Decided, PendingIsTold, ResultKnown
<1>. QED  BY <1>1, <1>2 DEF AInv

(* How the streams change: only a handler acknowledges, only a submission  *)
(* or its repetition publishes an event, and only a scheduler a task.      *)
LEMMA EventsStep ==
  ASSUME PTypeOK, PNext
  PROVE  \/ events' = events
         \/ \E m \in DOMAIN events : events' \in {Deliver(events, m), Redeliver(events, m)}
         \/ \E s \in Process : AckEvent(s)
         \/ \E i \in Intent : Submit(i) \/ SubmitAgain(i)
<1>1. ASSUME NEW s \in Process, ReceiveEvent(s) \/ NakEvent(s)
      PROVE  \E m \in DOMAIN events : events' \in {Deliver(events, m), Redeliver(events, m)}
  BY <1>1, HandlerFacts DEF ReceiveEvent, Ready, NakEvent
<1>2. ASSUME NEW s \in Process, Handle(s) \/ SchedulerCrash(s), ~AckEvent(s), ~NakEvent(s)
      PROVE  events' = events
  BY <1>2 DEF Handle, ReadStatus, ExpireIntent, ScheduleIntent, PublishTask, RepublishTask, SchedulerCrash
<1>3. ASSUME NEW w \in Worker, ReceiveTask(w) \/ Execute(w) \/ WorkerCrash(w)
      PROVE  events' = events
  BY <1>3 DEF ReceiveTask, Execute, Claim, Transfer, TransferRefused, Compute, ContextEnds, WriteResult,
     PublishResult, AckTask, NakTask, WorkerCrash, shared
<1>4. TaskAckWait \/ (\E i \in Intent : DeadlinePasses(i)) => events' = events
  BY DEF TaskAckWait, DeadlinePasses
<1>5. EventAckWait => \E m \in DOMAIN events : events' \in {Deliver(events, m), Redeliver(events, m)}
  BY DEF EventAckWait
<1>. QED  BY <1>1, <1>2, <1>3, <1>4, <1>5 DEF PNext, SchedulerNext, EngineNext

LEMMA TasksStep ==
  ASSUME PTypeOK, PNext
  PROVE  \/ tasks' = tasks
         \/ \E m \in DOMAIN tasks : tasks' \in {Deliver(tasks, m), Redeliver(tasks, m)}
         \/ \E w \in Worker : AckTask(w)
         \/ \E s \in Process : /\ PublishTask(s) \/ RepublishTask(s)
                               /\ tasks' = Publish(tasks, SIntent(s))
<1>1. ASSUME NEW w \in Worker, ReceiveTask(w) \/ NakTask(w)
      PROVE  \E m \in DOMAIN tasks : tasks' \in {Deliver(tasks, m), Redeliver(tasks, m)}
  BY <1>1, WorkerFacts DEF ReceiveTask, Ready, NakTask
<1>2. ASSUME NEW w \in Worker, Execute(w) \/ WorkerCrash(w), ~AckTask(w), ~NakTask(w)
      PROVE  tasks' = tasks
  BY <1>2 DEF Execute, Claim, Transfer, TransferRefused, Compute, ContextEnds, WriteResult, PublishResult,
     WorkerCrash, shared
<1>3. ASSUME NEW s \in Process, PublishTask(s) \/ RepublishTask(s)
      PROVE  tasks' = tasks \/ tasks' = Publish(tasks, SIntent(s))
  BY <1>3 DEF PublishTask, RepublishTask, PublishFails
<1>4. ASSUME NEW s \in Process, ReceiveEvent(s) \/ Handle(s) \/ SchedulerCrash(s), ~PublishTask(s), ~RepublishTask(s)
      PROVE  tasks' = tasks
  BY <1>4 DEF ReceiveEvent, Handle, ReadStatus, ExpireIntent, ScheduleIntent, AckEvent, NakEvent, SchedulerCrash
<1>5. EventAckWait \/ (\E i \in Intent : Submit(i) \/ SubmitAgain(i) \/ DeadlinePasses(i)) => tasks' = tasks
  BY DEF EventAckWait, Submit, SubmitAgain, DeadlinePasses
<1>6. TaskAckWait => \E m \in DOMAIN tasks : tasks' \in {Deliver(tasks, m), Redeliver(tasks, m)}
  BY DEF TaskAckWait
<1>. QED  BY <1>1, <1>2, <1>3, <1>4, <1>5, <1>6 DEF PNext, SchedulerNext, EngineNext

LEMMA SameDomain ==
  ASSUME NEW st \in Seq(Message(Intent)), NEW m \in DOMAIN st, NEW st2,
         st2 \in {Deliver(st, m), Ack(st, m), Redeliver(st, m)}
  PROVE  DOMAIN st2 = DOMAIN st
  BY StateFacts

LEMMA EventsKnownStep ==
  ASSUME AInv, PNext
  PROVE  EventsKnown'
<1>1. PTypeOK /\ events \in Seq(Message(Intent)) /\ EventsKnown
  BY DEF AInv, PTypeOK, SharedTypeOK
<1>2. \A m \in DOMAIN events : status'[events'[m].intent] # "none"
  <2>. TAKE m \in DOMAIN events
  <2>a. events'[m].intent = events[m].intent /\ events[m] \in Message(Intent)
    BY <1>1, StreamsType
  <2>1. events[m].intent \in Intent /\ events'[m].intent = events[m].intent
    BY <2>a DEF Message
  <2>2. Onward(status[events[m].intent], status'[events[m].intent])
    BY <2>1, StatusOnward
  <2>. QED  BY <1>1, <2>1, <2>2 DEF EventsKnown, Onward
<1>3. ASSUME NEW i \in Intent, Submit(i) \/ SubmitAgain(i)
      PROVE  EventsKnown'
  <2>1. events' = Publish(events, i) /\ status'[i] # "none"
    BY <1>3 DEF Submit, SubmitAgain, SetStatus, AInv, PTypeOK, SharedTypeOK
  <2>2. /\ DOMAIN Publish(events, i) = DOMAIN events \cup {Len(events) + 1}
        /\ Publish(events, i)[Len(events) + 1] = [intent |-> i, state |-> "ready"]
    BY <1>1, PublishFacts
  <2>. QED  BY <1>2, <2>1, <2>2 DEF EventsKnown
<1>4. CASE DOMAIN events' = DOMAIN events
  BY <1>2, <1>4 DEF EventsKnown
<1>5. ASSUME NEW s \in Process, AckEvent(s) PROVE DOMAIN events' = DOMAIN events
  BY <1>1, <1>5, HandlerFacts, SameDomain DEF AckEvent
<1>6. ASSUME NEW m \in DOMAIN events, events' \in {Deliver(events, m), Redeliver(events, m)}
      PROVE  DOMAIN events' = DOMAIN events
  BY <1>1, <1>6, SameDomain
<1>. QED  BY <1>1, <1>3, <1>4, <1>5, <1>6, EventsStep

LEMMA TasksScheduledStep ==
  ASSUME AInv, PNext
  PROVE  TasksScheduled'
<1>1. PTypeOK /\ tasks \in Seq(Message(Intent)) /\ TasksScheduled
  BY DEF AInv, PTypeOK, SharedTypeOK
<1>2. \A m \in DOMAIN tasks : status'[tasks'[m].intent] \notin {"none", "PENDING"}
  <2>. TAKE m \in DOMAIN tasks
  <2>a. tasks'[m].intent = tasks[m].intent /\ tasks[m] \in Message(Intent)
    BY <1>1, StreamsType
  <2>1. tasks[m].intent \in Intent /\ tasks'[m].intent = tasks[m].intent
    BY <2>a DEF Message
  <2>2. Onward(status[tasks[m].intent], status'[tasks[m].intent])
    BY <2>1, StatusOnward
  <2>. QED  BY <1>1, <2>1, <2>2 DEF TasksScheduled, Onward
<1>3. ASSUME NEW s \in Process, PublishTask(s) \/ RepublishTask(s), tasks' = Publish(tasks, SIntent(s))
      PROVE  TasksScheduled'
  <2>1. SIntent(s) \in Intent /\ status'[SIntent(s)] \notin {"none", "PENDING"}
    BY <1>1, <1>3, HandlerFacts DEF PublishTask, RepublishTask, AInv, Decided
  <2>2. /\ DOMAIN Publish(tasks, SIntent(s)) = DOMAIN tasks \cup {Len(tasks) + 1}
        /\ Publish(tasks, SIntent(s))[Len(tasks) + 1] = [intent |-> SIntent(s), state |-> "ready"]
    BY <1>1, <2>1, PublishFacts
  <2>. QED  BY <1>2, <1>3, <2>1, <2>2 DEF TasksScheduled
<1>4. CASE DOMAIN tasks' = DOMAIN tasks
  BY <1>2, <1>4 DEF TasksScheduled
<1>5. ASSUME NEW w \in Worker, AckTask(w) PROVE DOMAIN tasks' = DOMAIN tasks
  BY <1>1, <1>5, WorkerFacts, SameDomain DEF AckTask
<1>6. ASSUME NEW m \in DOMAIN tasks, tasks' \in {Deliver(tasks, m), Redeliver(tasks, m)}
      PROVE  DOMAIN tasks' = DOMAIN tasks
  BY <1>1, <1>6, SameDomain
<1>. QED  BY <1>1, <1>3, <1>4, <1>5, <1>6, TasksStep

LEMMA DecidedStep ==
  ASSUME AInv, PNext
  PROVE  Decided'
<1>1. PTypeOK /\ EventsKnown /\ Decided /\ status \in [Intent -> Status]
  BY DEF AInv, PTypeOK, SharedTypeOK
<1>2. ASSUME NEW t \in Process, spc'[t] = spc[t], smsg'[t] = smsg[t],
             spc[t] \in {"publish", "republish", "ack"}
      PROVE  status'[SIntent(t)'] \notin {"none", "PENDING"}
  <2>1. SIntent(t) \in Intent /\ SIntent(t)' = SIntent(t)
    BY <1>1, <1>2, HandlerFacts, IntentKept
  <2>2. Onward(status[SIntent(t)], status'[SIntent(t)])
    BY <2>1, StatusOnward
  <2>. QED  BY <1>1, <1>2, <2>1, <2>2 DEF Decided, Onward
<1>3. CASE UNCHANGED scheduler
  BY <1>2, <1>3 DEF Decided, scheduler
<1>4. ASSUME NEW s \in Process, ReceiveEvent(s) \/ Handle(s) \/ SchedulerCrash(s)
      PROVE  Decided'
  <2>. USE DEF SGoto, SDone
  <2>1. \A t \in Process \ {s} : spc'[t] = spc[t] /\ smsg'[t] = smsg[t]
    BY <1>1, <1>4 DEF PTypeOK, SchedulerTypeOK, ReceiveEvent, Handle, ReadStatus, ExpireIntent, ScheduleIntent,
       PublishTask, RepublishTask, AckEvent, NakEvent, SchedulerCrash
  <2>2. spc'[s] \in {"publish", "republish", "ack"} => status'[SIntent(s)'] \notin {"none", "PENDING"}
    <3>0. spc[s] # "idle" => SIntent(s) \in Intent /\ status[SIntent(s)] # "none"
      BY <1>1, HandlerFacts DEF EventsKnown, SIntent
    <3>a. spc[s] # "idle" /\ smsg'[s] = smsg[s] => SIntent(s)' = SIntent(s)
      BY <1>1, IntentKept
    <3>b. spc \in [Process -> SchedulerPC] /\ smsg \in [Process -> 0 .. Len(events)]
      BY <1>1 DEF PTypeOK, SchedulerTypeOK
    <3>1. CASE ReceiveEvent(s) \/ AckEvent(s) \/ NakEvent(s) \/ SchedulerCrash(s)
      BY <3>1, <3>b DEF ReceiveEvent, AckEvent, NakEvent, SchedulerCrash
    <3>2. CASE ReadStatus(s)
      BY <3>0, <3>a, <3>b, <3>2 DEF ReadStatus, AfterRead
    <3>3. CASE ExpireIntent(s) \/ ScheduleIntent(s)
      BY <1>1, <3>0, <3>a, <3>b, <3>3 DEF ExpireIntent, ScheduleIntent, SetStatus
    <3>4. CASE PublishTask(s) \/ RepublishTask(s)
      BY <1>1, <3>0, <3>a, <3>b, <3>4 DEF PublishTask, RepublishTask, Decided
    <3>. QED  BY <1>4, <3>1, <3>2, <3>3, <3>4 DEF Handle
  <2>. QED  BY <1>2, <2>1, <2>2 DEF Decided
<1>5. UNCHANGED scheduler \/ \E s \in Process : ReceiveEvent(s) \/ Handle(s) \/ SchedulerCrash(s)
  BY DEF PNext, SchedulerNext, EventAckWait, Submit, SubmitAgain, DeadlinePasses, scheduler
<1>. QED  BY <1>3, <1>4, <1>5

LEMMA PendingIsToldStep ==
  ASSUME AInv, PNext
  PROVE  PendingIsTold'
<1>1. PTypeOK /\ PendingIsTold /\ Decided /\ events \in Seq(Message(Intent)) /\ status \in [Intent -> Status]
  BY DEF AInv, PTypeOK, SharedTypeOK
<1>. SUFFICES ASSUME NEW i \in Intent, status'[i] = "PENDING" PROVE Pending(events', i)
  BY DEF PendingIsTold, Pending
<1>2. CASE status[i] # "PENDING"
  <2>1. status[i] = "none"
    BY <1>2, StatusOnward DEF Onward
  <2>2. Submit(i)
    <3>1. \A s \in Process : spc[s] # "idle" => SIntent(s) \in Intent /\ status[SIntent(s)] # "none"
      BY <1>1, HandlerFacts DEF AInv, EventsKnown, SIntent
    <3>2. ASSUME NEW s \in Process, ReceiveEvent(s) \/ Handle(s) \/ SchedulerCrash(s) PROVE status'[i] = status[i]
      BY <1>1, <2>1, <3>1, <3>2 DEF ReceiveEvent, Handle, ReadStatus, ExpireIntent, ScheduleIntent,
         PublishTask, RepublishTask, AckEvent, NakEvent, SchedulerCrash, SetStatus, MaybeSetStatus
    <3>3. \A w \in Worker : wpc[w] # "idle" => WIntent(w) \in Intent /\ status[WIntent(w)] # "none"
      BY <1>1, WorkerFacts DEF AInv, TasksScheduled, WIntent
    <3>4. ASSUME NEW w \in Worker, ReceiveTask(w) \/ Execute(w) \/ WorkerCrash(w) PROVE status'[i] = status[i]
      BY <1>1, <2>1, <3>3, <3>4 DEF ReceiveTask, Execute, Claim, Transfer, TransferRefused, Compute, ContextEnds,
         WriteResult, PublishResult, AckTask, NakTask, WorkerCrash, SetStatus, MaybeSetStatus, shared
    <3>5. ASSUME NEW j \in Intent, j # i, Submit(j) PROVE status'[i] = status[i]
      BY <1>1, <3>5 DEF Submit, SetStatus
    <3>6. EventAckWait \/ TaskAckWait \/ (\E j \in Intent : SubmitAgain(j) \/ DeadlinePasses(j)) => status'[i] = status[i]
      BY DEF EventAckWait, TaskAckWait, SubmitAgain, DeadlinePasses
    <3>. QED  BY <2>1, <3>2, <3>4, <3>5, <3>6 DEF PNext, SchedulerNext, EngineNext
  <2>3. events' = Publish(events, i)
    BY <2>2 DEF Submit
  <2>4. /\ DOMAIN Publish(events, i) = DOMAIN events \cup {Len(events) + 1}
        /\ Publish(events, i)[Len(events) + 1] = [intent |-> i, state |-> "ready"]
    BY <1>1, PublishFacts
  <2>. QED  BY <2>3, <2>4 DEF Pending
<1>3. CASE status[i] = "PENDING"
  <2>1. Pending(events, i)
    BY <1>1, <1>3 DEF PendingIsTold
  <2>2. ASSUME NEW s \in Process, AckEvent(s)
        PROVE  smsg[s] \in DOMAIN events /\ events' = Ack(events, smsg[s]) /\ events[smsg[s]].intent # i
    BY <1>1, <1>3, <2>2, HandlerFacts DEF AckEvent, Decided, SIntent
  <2>3. ASSUME NEW j \in Intent, Submit(j) \/ SubmitAgain(j) PROVE events' = Publish(events, j)
    BY <2>3 DEF Submit, SubmitAgain
  <2>. QED  BY <1>1, <2>1, <2>2, <2>3, EventsStep, PendingKept
<1>. QED  BY <1>2, <1>3

LEMMA ResultKnownStep ==
  ASSUME AInv, PNext
  PROVE  ResultKnown'
<1>1. PTypeOK /\ ResultKnown
  BY DEF AInv
<1>2. CASE UNCHANGED engine
  BY <1>1, <1>2 DEF engine, ResultKnown
<1>3. ASSUME NEW w \in Worker, ReceiveTask(w) \/ Execute(w) \/ WorkerCrash(w) PROVE ResultKnown'
  <2>. USE <1>1 DEF ResultKnown, PTypeOK, EngineTypeOK
  <2>1. CASE Claim(w) \/ ContextEnds(w) \/ WriteResult(w) \/ PublishResult(w)
    BY <2>1 DEF Claim, ContextEnds, WriteResult, PublishResult, WGoto
  <2>2. CASE ReceiveTask(w)
    BY <2>2 DEF ReceiveTask
  <2>3. CASE WDone(w)
    BY <2>3 DEF WDone
  <2>4. CASE Result(w, "COMPLETED") \/ Result(w, "FAILED")
    BY <2>4 DEF Result, Final
  <2>. QED
    BY <1>3, <2>1, <2>2, <2>3, <2>4 DEF Execute, Transfer, TransferRefused, Compute, AckTask, NakTask, WorkerCrash
<1>4. UNCHANGED engine \/ \E w \in Worker : ReceiveTask(w) \/ Execute(w) \/ WorkerCrash(w)
  BY DEF PNext, EngineNext, TaskAckWait, Submit, SubmitAgain, DeadlinePasses, engine
<1>. QED  BY <1>2, <1>3, <1>4

LEMMA AInvStep == AInv /\ [PNext]_vars => AInv'
<1>1. ASSUME AInv, PNext PROVE AInv'
  BY <1>1, PTypeStep, EventsKnownStep, TasksScheduledStep, DecidedStep, PendingIsToldStep, ResultKnownStep DEF AInv
<1>2. ASSUME AInv, UNCHANGED vars PROVE AInv'
  BY <1>2, PTypeStep DEF AInv, vars, shared, scheduler, engine, EventsKnown, TasksScheduled, Decided, SIntent,
     PendingIsTold, Pending, ResultKnown
<1>. QED  BY <1>1, <1>2

LEMMA AInvariant == PSpec => []AInv
  BY AInvInit, AInvStep, PTL DEF PSpec

(* Who changes a status: a submission, a scheduler at one of two steps, or *)
(* a worker at one of two steps.                                           *)
LEMMA StatusStep ==
  ASSUME AInv, PNext, NEW i \in Intent
  PROVE  \/ status'[i] = status[i]
         \/ Submit(i) /\ status[i] = "none" /\ status'[i] = "PENDING"
         \/ \E s \in Process : /\ SIntent(s) = i
                               /\ \/ ExpireIntent(s) /\ status'[i] = "FAILED"
                                  \/ ScheduleIntent(s) /\ status'[i] = "SCHEDULED"
         \/ \E w \in Worker : /\ WIntent(w) = i
                              /\ \/ /\ Claim(w)
                                    /\ status[i] = "SCHEDULED" /\ status'[i] = "EXECUTING"
                                 \/ WriteResult(w) /\ status'[i] = wres[w]
<1>1. PTypeOK /\ status \in [Intent -> Status]
  BY DEF AInv, PTypeOK, SharedTypeOK
<1>2. ASSUME NEW s \in Process, ReceiveEvent(s) \/ Handle(s) \/ SchedulerCrash(s)
      PROVE  \/ status'[i] = status[i]
             \/ /\ SIntent(s) = i
                /\ \/ ExpireIntent(s) /\ status'[i] = "FAILED"
                   \/ ScheduleIntent(s) /\ status'[i] = "SCHEDULED"
  <2>1. spc[s] # "idle" => SIntent(s) \in Intent
    BY <1>1, HandlerFacts
  <2>2. CASE ExpireIntent(s)
    BY <1>1, <2>1, <2>2 DEF ExpireIntent, SetStatus, MaybeSetStatus
  <2>3. CASE ScheduleIntent(s)
    BY <1>1, <2>1, <2>3 DEF ScheduleIntent, SetStatus, MaybeSetStatus
  <2>. QED
    BY <1>2, <2>2, <2>3 DEF ReceiveEvent, Handle, ReadStatus, PublishTask, RepublishTask, AckEvent, NakEvent, SchedulerCrash
<1>3. ASSUME NEW w \in Worker, ReceiveTask(w) \/ Execute(w) \/ WorkerCrash(w)
      PROVE  \/ status'[i] = status[i]
             \/ /\ WIntent(w) = i
                /\ \/ Claim(w) /\ status[i] = "SCHEDULED" /\ status'[i] = "EXECUTING"
                   \/ WriteResult(w) /\ status'[i] = wres[w]
  <2>1. wpc[w] # "idle" => WIntent(w) \in Intent
    BY <1>1, WorkerFacts
  <2>2. CASE Claim(w)
    BY <1>1, <2>1, <2>2 DEF Claim, SetStatus, MaybeSetStatus
  <2>3. CASE WriteResult(w)
    BY <1>1, <2>1, <2>3 DEF WriteResult, SetStatus, MaybeSetStatus
  <2>. QED
    BY <1>3, <2>2, <2>3 DEF ReceiveTask, Execute, Transfer, TransferRefused, Compute, ContextEnds, PublishResult,
       AckTask, NakTask, WorkerCrash, shared
<1>4. ASSUME NEW j \in Intent, Submit(j)
      PROVE  status'[i] = status[i] \/ (j = i /\ status[i] = "none" /\ status'[i] = "PENDING")
  BY <1>1, <1>4 DEF Submit, SetStatus
<1>5. EventAckWait \/ TaskAckWait \/ (\E j \in Intent : SubmitAgain(j) \/ DeadlinePasses(j)) => status'[i] = status[i]
  BY DEF EventAckWait, TaskAckWait, SubmitAgain, DeadlinePasses
<1>. QED  BY <1>2, <1>3, <1>4, <1>5 DEF PNext, SchedulerNext, EngineNext

(* A handler comes to its decision only by reading PENDING, and to         *)
(* "schedule" only before the deadline.                                    *)
LEMMA DecideStep ==
  ASSUME AInv, PNext, NEW s \in Process, spc'[s] \in {"schedule", "expire"}
  PROVE  \/ spc[s] = spc'[s] /\ SIntent(s)' = SIntent(s)
         \/ /\ status[SIntent(s)'] = "PENDING" /\ status' = status
            /\ spc'[s] = "schedule" => SIntent(s)' \notin late
<1>1. PTypeOK /\ spc \in [Process -> SchedulerPC] /\ smsg \in [Process -> 0 .. Len(events)]
  BY DEF AInv, PTypeOK, SchedulerTypeOK
<1>2. spc[s] # "idle" /\ smsg'[s] = smsg[s] => SIntent(s)' = SIntent(s)
  BY <1>1, IntentKept
<1>3. CASE UNCHANGED scheduler
  BY <1>2, <1>3 DEF scheduler
<1>4. ASSUME NEW t \in Process, ReceiveEvent(t) \/ Handle(t) \/ SchedulerCrash(t)
      PROVE  \/ spc[s] = spc'[s] /\ smsg'[s] = smsg[s]
             \/ /\ spc[s] = "read" /\ smsg'[s] = smsg[s] /\ status' = status
                /\ status[SIntent(s)] = "PENDING"
                /\ spc'[s] = "schedule" => SIntent(s) \notin late
  <2>. USE <1>1 DEF SGoto, SDone
  <2>1. CASE ReadStatus(t)
    BY <2>1 DEF ReadStatus, AfterRead
  <2>2. CASE ReceiveEvent(t) \/ ExpireIntent(t) \/ ScheduleIntent(t) \/ PublishTask(t) \/ RepublishTask(t)
    BY <2>2 DEF ReceiveEvent, ExpireIntent, ScheduleIntent, PublishTask, RepublishTask
  <2>3. CASE AckEvent(t) \/ NakEvent(t) \/ SchedulerCrash(t)
    BY <2>3 DEF AckEvent, NakEvent, SchedulerCrash
  <2>. QED  BY <1>4, <2>1, <2>2, <2>3 DEF Handle
<1>5. UNCHANGED scheduler \/ \E t \in Process : ReceiveEvent(t) \/ Handle(t) \/ SchedulerCrash(t)
  BY DEF PNext, SchedulerNext, EventAckWait, Submit, SubmitAgain, DeadlinePasses, scheduler
<1>. QED  BY <1>2, <1>3, <1>4, <1>5

LEMMA OverdueStep ==
  ASSUME AInv, PNext, NEW i \in Intent, Overdue(i)
  PROVE  Overdue(i)' \/ status'[i] = "FAILED"
<1>. SUFFICES ASSUME status'[i] # "FAILED" PROVE Overdue(i)'
  OBVIOUS
<1>1. i \in late'
  <2>1. late' = late \/ \E j \in Intent : DeadlinePasses(j)
    BY DEF PNext, SchedulerNext, ReceiveEvent, Handle, ReadStatus, ExpireIntent, ScheduleIntent, PublishTask,
       RepublishTask, AckEvent, NakEvent, SchedulerCrash, EventAckWait, EngineNext, ReceiveTask, Execute, Claim,
       Transfer, TransferRefused, Compute, ContextEnds, WriteResult, PublishResult, AckTask, NakTask, WorkerCrash,
       TaskAckWait, Submit, SubmitAgain, shared
  <2>. QED  BY <2>1 DEF Overdue, DeadlinePasses
<1>2. \A w \in Worker : wpc[w] # "idle" => WIntent(w) # i
  BY WorkerFacts DEF AInv, TasksScheduled, WIntent, Overdue
<1>3. status'[i] \in {"none", "PENDING"}
  BY <1>2, StatusStep DEF Overdue, Claim, WriteResult, ScheduleIntent
<1>4. ASSUME NEW s \in Process, spc'[s] = "schedule", SIntent(s)' = i PROVE FALSE
  BY <1>4, DecideStep DEF Overdue
<1>. QED  BY <1>1, <1>3, <1>4 DEF Overdue

(* "Deadline check": an intent that is overdue before a scheduler has read *)
(* it can only become FAILED, for any number of schedulers and workers and *)
(* any faults.                                                             *)
THEOREM DeadlineKept == PSpec => OverdueOnlyFails
<1>1. AInv /\ [PNext]_vars
      => [\A i \in Intent : Overdue(i) => Overdue(i)' \/ status'[i] = "FAILED"]_vars
  BY OverdueStep
<1>. QED  BY <1>1, AInvariant, PTL DEF PSpec, OverdueOnlyFails

-----------------------------------------------------------------------------
(* What holds for one scheduler process *)

OneScheduler == \A s, t \in Process : s = t

(* An intent a handler is about to schedule or to expire is still PENDING. *)
Deciding ==
  \A s \in Process :
    spc[s] \in {"schedule", "expire"} => status[SIntent(s)] = "PENDING"

(* A task is acknowledged after a worker has claimed its intent. *)
Taken ==
  \A w \in Worker :
    wpc[w] \in {"announce", "ack"} => status[WIntent(w)] \in {"EXECUTING", "COMPLETED", "FAILED"}

BInv == AInv /\ Deciding /\ Taken /\ OneExecutor

(* What a worker does in a step that is not its own, and in one that is *)
LEMMA WorkerStep ==
  ASSUME PTypeOK, PNext, NEW w \in Worker
  PROVE  \/ /\ wpc'[w] = wpc[w] /\ wtask'[w] = wtask[w] /\ wres'[w] = wres[w]
            /\ ~Claim(w) /\ ~WriteResult(w)
         \/ ReceiveTask(w) \/ Execute(w) \/ WorkerCrash(w)
<1>1. wpc \in [Worker -> WorkerPC] /\ wtask \in [Worker -> 0 .. Len(tasks)] /\ wres \in [Worker -> Final \cup {"none"}]
  BY DEF PTypeOK, EngineTypeOK
<1>2. CASE UNCHANGED engine
  BY <1>1, <1>2 DEF engine, Claim, WriteResult, WGoto
<1>3. ASSUME NEW v \in Worker, v # w, ReceiveTask(v) \/ Execute(v) \/ WorkerCrash(v)
      PROVE  wpc'[w] = wpc[w] /\ wtask'[w] = wtask[w] /\ wres'[w] = wres[w]
  <2>. USE <1>1, <1>3 DEF WGoto, WDone, Result
  <2>1. CASE ReceiveTask(v) \/ Claim(v) \/ ContextEnds(v) \/ WriteResult(v) \/ PublishResult(v)
    BY <2>1 DEF ReceiveTask, Claim, ContextEnds, WriteResult, PublishResult
  <2>2. CASE Transfer(v) \/ TransferRefused(v) \/ Compute(v)
    <3>1. Result(v, "COMPLETED") \/ Result(v, "FAILED")
      BY <2>2 DEF Transfer, TransferRefused, Compute
    <3>. QED  BY <3>1
  <2>3. CASE AckTask(v) \/ NakTask(v) \/ WorkerCrash(v)
    BY <2>3 DEF AckTask, NakTask, WorkerCrash
  <2>. QED  BY <2>1, <2>2, <2>3 DEF Execute
<1>4. wpc'[w] = wpc[w] => ~Claim(w) /\ ~WriteResult(w)
  BY <1>1 DEF Claim, WriteResult, WGoto
<1>5. UNCHANGED engine \/ \E v \in Worker : ReceiveTask(v) \/ Execute(v) \/ WorkerCrash(v)
  BY DEF PNext, EngineNext, TaskAckWait, Submit, SubmitAgain, DeadlinePasses, engine
<1>. QED  BY <1>2, <1>3, <1>4, <1>5

(* With one scheduler, every step moves a status forward. *)
LEMMA ForwardStep ==
  ASSUME BInv, PNext, NEW i \in Intent
  PROVE  status'[i] = status[i] \/ <<status[i], status'[i]>> \in Forward
<1>1. ASSUME NEW s \in Process, SIntent(s) = i, ExpireIntent(s) \/ ScheduleIntent(s)
      PROVE  status[i] = "PENDING"
  BY <1>1 DEF BInv, Deciding, ExpireIntent, ScheduleIntent
<1>2. ASSUME NEW w \in Worker, WIntent(w) = i, WriteResult(w)
      PROVE  status[i] = "EXECUTING" /\ wres[w] \in {"COMPLETED", "FAILED"}
  BY <1>2 DEF BInv, AInv, OneExecutor, Executes, WriteResult, ResultKnown, Final
<1>. QED  BY <1>1, <1>2, StatusStep DEF Forward, BInv

LEMMA DecidingStep ==
  ASSUME OneScheduler, BInv, PNext
  PROVE  Deciding'
<1>. SUFFICES ASSUME NEW s \in Process, spc'[s] \in {"schedule", "expire"}
              PROVE  status'[SIntent(s)'] = "PENDING"
  BY DEF Deciding, SIntent
<1>1. PTypeOK /\ AInv /\ spc \in [Process -> SchedulerPC]
  BY DEF BInv, AInv, PTypeOK, SchedulerTypeOK
<1>2. CASE status[SIntent(s)'] = "PENDING" /\ status' = status
  BY <1>2
<1>3. CASE spc[s] = spc'[s] /\ SIntent(s)' = SIntent(s)
  <2>1. SIntent(s) \in Intent /\ status[SIntent(s)] = "PENDING"
    BY <1>1, <1>3, HandlerFacts DEF BInv, Deciding
  <2>2. ASSUME NEW t \in Process PROVE ~ExpireIntent(t) /\ ~ScheduleIntent(t)
    <3>1. t = s
      BY DEF OneScheduler
    <3>. QED  BY <1>1, <1>3, <3>1 DEF ExpireIntent, ScheduleIntent, SGoto
  <2>3. \A w \in Worker : wpc[w] # "idle" => WIntent(w) # SIntent(s)
    BY <1>1, <2>1, WorkerFacts DEF AInv, TasksScheduled, WIntent
  <2>. QED  BY <1>1, <1>3, <2>1, <2>2, <2>3, StatusStep DEF Claim, WriteResult
<1>. QED  BY <1>1, <1>2, <1>3, DecideStep

(* A claimed intent stays EXECUTING until its result is written. *)
LEMMA ClaimedStays ==
  ASSUME BInv, PNext, NEW i \in Intent, status[i] \in {"EXECUTING", "COMPLETED", "FAILED"}
  PROVE  status'[i] \in {"EXECUTING", "COMPLETED", "FAILED"}
  BY ForwardStep DEF Forward

LEMMA TakenStep ==
  ASSUME BInv, PNext
  PROVE  Taken'
<1>. SUFFICES ASSUME NEW w \in Worker, wpc'[w] \in {"announce", "ack"}
              PROVE  status'[WIntent(w)'] \in {"EXECUTING", "COMPLETED", "FAILED"}
  BY DEF Taken, WIntent
<1>1. PTypeOK /\ AInv /\ wpc \in [Worker -> WorkerPC] /\ status \in [Intent -> Status]
  BY DEF BInv, AInv, PTypeOK, EngineTypeOK, SharedTypeOK
<1>2. wpc[w] # "idle" => WIntent(w) \in Intent /\ status[WIntent(w)] \notin {"none", "PENDING"}
  BY <1>1, WorkerFacts DEF AInv, TasksScheduled, WIntent
<1>3. wpc[w] # "idle" /\ wtask'[w] = wtask[w] => WIntent(w)' = WIntent(w)
  BY <1>1, IntentKept
<1>4. CASE wpc'[w] = wpc[w] /\ wtask'[w] = wtask[w]
  <2>1. WIntent(w)' = WIntent(w) /\ status[WIntent(w)] \in {"EXECUTING", "COMPLETED", "FAILED"}
    BY <1>1, <1>3, <1>4 DEF BInv, Taken
  <2>. QED  BY <1>1, <1>2, <1>4, <2>1, ClaimedStays
<1>5. CASE PublishResult(w)
  BY <1>1, <1>2, <1>3, <1>5 DEF PublishResult, WGoto, BInv, Taken
<1>6. CASE WriteResult(w)
  <2>1. wres[w] \in Final
    BY <1>1, <1>6 DEF AInv, ResultKnown, WriteResult
  <2>. QED  BY <1>1, <1>2, <1>3, <1>6, <2>1 DEF WriteResult, SetStatus, WGoto, Final
<1>7. CASE Claim(w)
  <2>1. wpc'[w] = "ack" => status' = status /\ status[WIntent(w)] # "SCHEDULED"
    BY <1>1, <1>7 DEF Claim, WGoto
  <2>2. wpc'[w] # "announce" /\ wpc[w] # "idle" /\ wtask'[w] = wtask[w]
    BY <1>1, <1>7 DEF Claim, WGoto
  <2>. QED  BY <1>1, <1>2, <1>3, <2>1, <2>2 DEF Status
<1>8. CASE ReceiveTask(w) \/ Transfer(w) \/ TransferRefused(w) \/ Compute(w) \/ ContextEnds(w)
           \/ AckTask(w) \/ NakTask(w) \/ WorkerCrash(w)
  BY <1>1, <1>8 DEF ReceiveTask, Transfer, TransferRefused, Compute, Result, ContextEnds, WGoto,
     AckTask, NakTask, WorkerCrash, WDone
<1>. QED  BY <1>1, <1>4, <1>5, <1>6, <1>7, <1>8, WorkerStep DEF Execute

(* A worker comes to execute an intent only by its claim. *)
LEMMA ExecutesStep ==
  ASSUME BInv, PNext, NEW w \in Worker, NEW i \in Intent, Executes(w, i)'
  PROVE  \/ Executes(w, i) /\ ~WriteResult(w)
         \/ Claim(w) /\ WIntent(w) = i /\ status[i] = "SCHEDULED" /\ status'[i] = "EXECUTING"
<1>1. PTypeOK /\ wpc \in [Worker -> WorkerPC] /\ status \in [Intent -> Status]
  BY DEF BInv, AInv, PTypeOK, EngineTypeOK, SharedTypeOK
<1>2. wpc'[w] \in {"execute", "finish"} /\ WIntent(w)' = i
  BY DEF Executes, WIntent
<1>3. wpc[w] # "idle" /\ wtask'[w] = wtask[w] => WIntent(w)' = WIntent(w)
  BY <1>1, IntentKept
<1>4. CASE wpc'[w] = wpc[w] /\ wtask'[w] = wtask[w] /\ ~WriteResult(w)
  BY <1>1, <1>2, <1>3, <1>4 DEF Executes
<1>5. CASE Claim(w)
  <2>1. wpc[w] = "claim" /\ wtask'[w] = wtask[w]
    BY <1>5 DEF Claim, WGoto
  <2>2. status[WIntent(w)] = "SCHEDULED" /\ SetStatus(WIntent(w), "EXECUTING")
    BY <1>1, <1>2, <1>5 DEF Claim, WGoto
  <2>. QED  BY <1>1, <1>2, <1>3, <1>5, <2>1, <2>2 DEF SetStatus
<1>6. CASE Transfer(w) \/ TransferRefused(w) \/ Compute(w)
  <2>1. wpc[w] = "execute" /\ wtask'[w] = wtask[w]
    BY <1>6 DEF Transfer, TransferRefused, Compute, Result
  <2>. QED  BY <1>1, <1>2, <1>3, <2>1 DEF Executes, WriteResult
<1>7. CASE ReceiveTask(w) \/ ContextEnds(w) \/ WriteResult(w) \/ PublishResult(w) \/ AckTask(w) \/ NakTask(w) \/ WorkerCrash(w)
  BY <1>1, <1>2, <1>7 DEF ReceiveTask, ContextEnds, WriteResult, PublishResult, WGoto, AckTask, NakTask, WorkerCrash, WDone
<1>. QED  BY <1>1, <1>4, <1>5, <1>6, <1>7, WorkerStep DEF Execute

LEMMA OneExecutorStep ==
  ASSUME BInv, PNext
  PROVE  OneExecutor'
<1>. SUFFICES ASSUME NEW i \in Intent
              PROVE  /\ \A v, w \in Worker : Executes(v, i)' /\ Executes(w, i)' => v = w
                     /\ \A w \in Worker : Executes(w, i)' => status'[i] = "EXECUTING"
  BY DEF OneExecutor, Executes
<1>1. /\ \A v, w \in Worker : Executes(v, i) /\ Executes(w, i) => v = w
      /\ \A w \in Worker : Executes(w, i) => status[i] = "EXECUTING"
  BY DEF BInv, OneExecutor
<1>2. ASSUME NEW v \in Worker, NEW w \in Worker, Claim(v), Claim(w), Executes(v, i)' PROVE v = w
  <2>1. wpc \in [Worker -> WorkerPC]
    BY DEF BInv, AInv, PTypeOK, EngineTypeOK
  <2>. QED  BY <1>2, <2>1 DEF Claim, WGoto
<1>3. ASSUME NEW v \in Worker, NEW w \in Worker, Executes(v, i)', Executes(w, i)' PROVE v = w
  BY <1>1, <1>2, <1>3, ExecutesStep
<1>4. ASSUME NEW w \in Worker, Executes(w, i)' PROVE status'[i] = "EXECUTING"
  <2>1. CASE Claim(w) /\ status'[i] = "EXECUTING"
    BY <2>1
  <2>2. CASE Executes(w, i) /\ ~WriteResult(w)
    <3>1. status[i] = "EXECUTING"
      BY <1>1, <2>2
    <3>2. \A s \in Process : SIntent(s) = i => ~ExpireIntent(s) /\ ~ScheduleIntent(s)
      BY <3>1 DEF BInv, Deciding, ExpireIntent, ScheduleIntent
    <3>3. ASSUME NEW v \in Worker, WIntent(v) = i, WriteResult(v) PROVE FALSE
      BY <1>1, <2>2, <3>3 DEF Executes, WriteResult
    <3>4. AInv
      BY DEF BInv
    <3>. QED  BY <3>1, <3>2, <3>3, <3>4, StatusStep
  <2>. QED  BY <1>4, <2>1, <2>2, ExecutesStep
<1>. QED  BY <1>3, <1>4

LEMMA BInvInit == PInit => BInv
  BY AInvInit DEF BInv, PInit, SchedulerInit, EngineInit, Deciding, Taken, OneExecutor, Executes

LEMMA BInvStep == OneScheduler /\ BInv /\ [PNext]_vars => BInv'
<1>1. ASSUME OneScheduler, BInv, PNext PROVE BInv'
  BY <1>1, AInvStep, DecidingStep, TakenStep, OneExecutorStep DEF BInv
<1>2. ASSUME BInv, UNCHANGED vars PROVE BInv'
  BY <1>2, AInvStep DEF BInv, vars, shared, scheduler, engine, Deciding, Taken, OneExecutor, Executes, SIntent, WIntent
<1>. QED  BY <1>1, <1>2

LEMMA BInvariant == OneScheduler => (PSpec => []BInv)
<1>. SUFFICES ASSUME OneScheduler PROVE PSpec => []BInv
  OBVIOUS
<1>1. BInv /\ [PNext]_vars => BInv'
  BY BInvStep
<1>. QED  BY <1>1, BInvInit, PTL DEF PSpec

(* EXECUTING "acts as a state lock": with one scheduler process, no two    *)
(* workers run one intent, for any number of workers and any faults.       *)
THEOREM ExecutesOnce == OneScheduler => (PSpec => []OneExecutor)
<1>1. BInv => OneExecutor
  BY DEF BInv
<1>. QED  BY <1>1, BInvariant, PTL

(* With one scheduler process the status column only moves forward,        *)
(* although two of its writers do not look at it.                          *)
THEOREM StatusMovesForward == OneScheduler => (PSpec => StatusForward)
<1>. SUFFICES ASSUME OneScheduler PROVE PSpec => StatusForward
  OBVIOUS
<1>1. BInv /\ [PNext]_vars
      => [\A i \in Intent : status'[i] = status[i] \/ <<status[i], status'[i]>> \in Forward]_vars
  BY ForwardStep
<1>. QED  BY <1>1, BInvariant, PTL DEF PSpec, StatusForward

(* Only an intent that runs or has COMPLETED moved its money; a worker     *)
(* knows about its own.                                                    *)
MoneyKnown ==
  /\ \A i \in moved : status[i] \in {"EXECUTING", "COMPLETED"}
  /\ \A w \in Worker :
       /\ wpc[w] = "execute" => WIntent(w) \notin moved
       /\ wpc[w] = "finish" => /\ wres[w] = "COMPLETED" /\ WIntent(w) \in Transfers => WIntent(w) \in moved
                               /\ wres[w] = "FAILED" => WIntent(w) \notin moved

CInv == BInv /\ MoneyKnown

(* Money moves only by the transfer of a worker that runs the intent. *)
LEMMA MovedStep ==
  ASSUME PTypeOK, PNext
  PROVE  moved' = moved \/ \E w \in Worker : Transfer(w) /\ moved' = moved \cup {WIntent(w)}
<1>1. ASSUME NEW s \in Process, ReceiveEvent(s) \/ Handle(s) \/ SchedulerCrash(s) PROVE moved' = moved
  BY <1>1 DEF ReceiveEvent, Handle, ReadStatus, ExpireIntent, ScheduleIntent, PublishTask, RepublishTask,
     AckEvent, NakEvent, SchedulerCrash
<1>2. ASSUME NEW w \in Worker, ReceiveTask(w) \/ Execute(w) \/ WorkerCrash(w), ~Transfer(w) PROVE moved' = moved
  BY <1>2 DEF ReceiveTask, Execute, Claim, TransferRefused, Compute, ContextEnds, WriteResult,
     PublishResult, AckTask, NakTask, WorkerCrash, shared
<1>3. ASSUME NEW w \in Worker, Transfer(w) PROVE moved' = moved \cup {WIntent(w)}
  BY <1>3 DEF Transfer
<1>4. EventAckWait \/ TaskAckWait \/ (\E i \in Intent : Submit(i) \/ SubmitAgain(i) \/ DeadlinePasses(i)) => moved' = moved
  BY DEF EventAckWait, TaskAckWait, Submit, SubmitAgain, DeadlinePasses
<1>. QED  BY <1>1, <1>2, <1>3, <1>4 DEF PNext, SchedulerNext, EngineNext

(* The wallet answers every call. *)
AnswersArrive == "rpc" \notin Faults

(* Nobody but its one worker moves the money of a running intent. *)
LEMMA OwnMoney ==
  ASSUME BInv, PNext, NEW w \in Worker, wpc[w] \in {"execute", "finish"}, ~Transfer(w)
  PROVE  WIntent(w) \in moved' <=> WIntent(w) \in moved
<1>1. PTypeOK /\ WIntent(w) \in Intent
  BY WorkerFacts DEF BInv, AInv
<1>2. ASSUME NEW v \in Worker, Transfer(v) PROVE WIntent(v) # WIntent(w)
  BY <1>1, <1>2 DEF BInv, OneExecutor, Executes, Transfer
<1>. QED  BY <1>1, <1>2, MovedStep

LEMMA MoneyKnownStep ==
  ASSUME AnswersArrive, CInv, PNext
  PROVE  MoneyKnown'
<1>1. /\ BInv /\ AInv /\ PTypeOK /\ MoneyKnown /\ wpc \in [Worker -> WorkerPC] /\ status \in [Intent -> Status]
      /\ moved \subseteq Intent /\ wres \in [Worker -> Final \cup {"none"}]
  BY IntentAssumption DEF CInv, BInv, AInv, PTypeOK, SharedTypeOK, EngineTypeOK
<1>2. ASSUME NEW i \in moved' PROVE status'[i] \in {"EXECUTING", "COMPLETED"}
  <2>1. CASE i \in moved
    <3>1. i \in Intent /\ status[i] \in {"EXECUTING", "COMPLETED"}
      BY <1>1, <2>1 DEF MoneyKnown
    <3>2. ASSUME NEW s \in Process, SIntent(s) = i, ExpireIntent(s) \/ ScheduleIntent(s) PROVE FALSE
      BY <1>1, <3>1, <3>2 DEF BInv, Deciding, ExpireIntent, ScheduleIntent
    <3>3. ASSUME NEW w \in Worker, WIntent(w) = i, WriteResult(w) PROVE wres[w] = "COMPLETED"
      BY <1>1, <2>1, <3>3 DEF MoneyKnown, WriteResult, AInv, ResultKnown, Final
    <3>. QED  BY <1>1, <3>1, <3>2, <3>3, StatusStep
  <2>2. CASE i \notin moved
    <3>1. PICK w \in Worker : Transfer(w) /\ i = WIntent(w)
      BY <1>1, <1>2, <2>2, MovedStep
    <3>2. WIntent(w) \in Intent /\ Executes(w, i)
      BY <1>1, <3>1, WorkerFacts DEF Transfer, Executes
    <3>. QED  BY <1>1, <3>1, <3>2 DEF BInv, OneExecutor, Transfer
  <2>. QED  BY <2>1, <2>2
<1>3. ASSUME NEW w \in Worker, wpc'[w] \in {"execute", "finish"}
      PROVE  /\ wpc'[w] = "execute" => WIntent(w)' \notin moved'
             /\ wpc'[w] = "finish" =>
                  /\ wres'[w] = "COMPLETED" /\ WIntent(w)' \in Transfers => WIntent(w)' \in moved'
                  /\ wres'[w] = "FAILED" => WIntent(w)' \notin moved'
  <2>a. wpc[w] # "idle" /\ wtask'[w] = wtask[w] => WIntent(w)' = WIntent(w)
    BY <1>1, IntentKept
  <2>1. CASE wpc'[w] = wpc[w] /\ wtask'[w] = wtask[w] /\ wres'[w] = wres[w]
    <3>1. ~Transfer(w)
      BY <1>1, <2>1 DEF Transfer, Result
    <3>2. WIntent(w)' = WIntent(w) /\ (WIntent(w) \in moved' <=> WIntent(w) \in moved)
      BY <1>1, <1>3, <2>1, <2>a, <3>1, OwnMoney
    <3>. QED  BY <1>1, <1>3, <2>1, <3>2 DEF MoneyKnown
  <2>2. CASE Claim(w)
    <3>1. wpc[w] = "claim" /\ wtask'[w] = wtask[w] /\ wpc'[w] = "execute" /\ moved' = moved
      BY <1>1, <1>3, <2>2 DEF Claim, WGoto
    <3>2. status[WIntent(w)] = "SCHEDULED"
      BY <1>1, <1>3, <2>2 DEF Claim, WGoto
    <3>. QED  BY <1>1, <2>a, <3>1, <3>2 DEF MoneyKnown
  <2>3. CASE Transfer(w)
    <3>1. /\ wpc[w] = "execute" /\ wtask'[w] = wtask[w] /\ wpc'[w] = "finish"
          /\ moved' = moved \cup {WIntent(w)}
      BY <1>1, <2>3 DEF Transfer, Result
    <3>2. wres'[w] = "COMPLETED"
      BY <1>1, <2>3 DEF Transfer, Result, Fault, AnswersArrive
    <3>. QED  BY <2>a, <3>1, <3>2
  <2>4. CASE TransferRefused(w) \/ Compute(w)
    <3>1. /\ wpc[w] = "execute" /\ wtask'[w] = wtask[w] /\ wpc'[w] = "finish" /\ moved' = moved
      BY <1>1, <2>4 DEF TransferRefused, Compute, Result, shared
    <3>2. wres'[w] = "COMPLETED" => WIntent(w) \notin Transfers
      BY <1>1, <2>4 DEF TransferRefused, Compute, Result
    <3>. QED  BY <1>1, <2>a, <3>1, <3>2 DEF MoneyKnown
  <2>5. CASE ReceiveTask(w) \/ ContextEnds(w) \/ WriteResult(w) \/ PublishResult(w) \/ AckTask(w) \/ NakTask(w) \/ WorkerCrash(w)
    BY <1>1, <1>3, <2>5 DEF ReceiveTask, ContextEnds, WriteResult, PublishResult, WGoto, AckTask, NakTask, WorkerCrash, WDone
  <2>. QED  BY <1>1, <2>1, <2>2, <2>3, <2>4, <2>5, WorkerStep DEF Execute
<1>. QED  BY <1>2, <1>3 DEF MoneyKnown, WIntent

LEMMA CInvInit == PInit => CInv
  BY BInvInit DEF CInv, PInit, SharedInit, EngineInit, MoneyKnown

LEMMA CInvStep == OneScheduler /\ AnswersArrive /\ CInv /\ [PNext]_vars => CInv'
<1>1. ASSUME OneScheduler, AnswersArrive, CInv, PNext PROVE CInv'
  BY <1>1, BInvStep, MoneyKnownStep DEF CInv
<1>2. ASSUME OneScheduler, CInv, UNCHANGED vars PROVE CInv'
  BY <1>2, BInvStep DEF CInv, vars, shared, engine, MoneyKnown, WIntent
<1>. QED  BY <1>1, <1>2

(* The contract's view of the statuses *)
Phases(f) == [i \in Intent |-> Phase(f[i])]

(* The steps of the contract, in terms of Phases *)
LEMMA ContractMeaning ==
  /\ Contract!CInit <=> Phases(status) = [i \in Intent |-> "none"] /\ moved = {}
  /\ Contract!CNext <=>
       \E i \in Intent :
         \/ /\ Phases(status)[i] = "none"
            /\ Phases(status') = [Phases(status) EXCEPT ![i] = "open"] /\ moved' = moved
         \/ /\ Phases(status)[i] = "open"
            /\ Phases(status') = [Phases(status) EXCEPT ![i] = "running"] /\ moved' = moved
         \/ /\ Phases(status)[i] = "running" /\ i \in Transfers \ moved
            /\ moved' = moved \cup {i} /\ Phases(status') = Phases(status)
         \/ /\ Phases(status)[i] = "running" /\ (i \in Transfers => i \in moved)
            /\ Phases(status') = [Phases(status) EXCEPT ![i] = "done"] /\ moved' = moved
         \/ /\ Phases(status)[i] \in {"open", "running"} /\ i \notin moved
            /\ Phases(status') = [Phases(status) EXCEPT ![i] = "failed"] /\ moved' = moved
  /\ (UNCHANGED Contract!contract) <=> Phases(status') = Phases(status) /\ moved' = moved
  BY DEF Contract!CInit, Contract!CNext, Contract!Accept, Contract!Start, Contract!Pay, Contract!Complete,
     Contract!Reject, Contract!Enter, Contract!contract, Phases

LEMMA ContractInit == PInit => Contract!CInit
  BY ContractMeaning DEF PInit, SharedInit, Phases, Phase

LEMMA ContractStep ==
  ASSUME CInv, PNext
  PROVE  Contract!CNext \/ UNCHANGED Contract!contract
<1>1. /\ BInv /\ AInv /\ PTypeOK /\ MoneyKnown /\ status \in [Intent -> Status]
  BY DEF CInv, BInv, AInv, PTypeOK, SharedTypeOK
<1>. DEFINE Goal == Contract!CNext \/ UNCHANGED Contract!contract
<1>2. ASSUME NEW i \in Intent, NEW x \in Status, status' \in {status, [status EXCEPT ![i] = x]}, moved' = moved,
             \/ status[i] = "none" /\ x = "PENDING"
             \/ status[i] = "PENDING" /\ x = "SCHEDULED"
             \/ status[i] = "SCHEDULED" /\ x = "EXECUTING"
             \/ status[i] = "EXECUTING" /\ x = "COMPLETED" /\ (i \in Transfers => i \in moved)
             \/ status[i] \in {"PENDING", "EXECUTING"} /\ x = "FAILED" /\ i \notin moved
      PROVE  Goal
  <2>1. CASE status' = status
    BY <1>2, <2>1, ContractMeaning
  <2>2. CASE status' = [status EXCEPT ![i] = x]
    <3>1. /\ Phases(status') = [Phases(status) EXCEPT ![i] = Phase(x)]
          /\ Phases(status)[i] = Phase(status[i])
          /\ Phase(x) = Phase(status[i]) => Phases(status') = Phases(status)
      BY <1>1, <2>2 DEF Phases
    <3>2. /\ Phase("none") = "none" /\ Phase("PENDING") = "open" /\ Phase("SCHEDULED") = "open"
          /\ Phase("EXECUTING") = "running" /\ Phase("COMPLETED") = "done" /\ Phase("FAILED") = "failed"
      BY DEF Phase
    <3>3. CASE status[i] = "none" /\ x = "PENDING"
      BY <1>2, <3>1, <3>2, <3>3, ContractMeaning
    <3>4. CASE status[i] = "PENDING" /\ x = "SCHEDULED"
      BY <1>2, <3>1, <3>2, <3>4, ContractMeaning
    <3>5. CASE status[i] = "SCHEDULED" /\ x = "EXECUTING"
      <4>1. Phases(status)[i] = "open" /\ Phases(status') = [Phases(status) EXCEPT ![i] = "running"] /\ moved' = moved
        BY <1>2, <3>1, <3>2, <3>5
      <4>. QED  BY <1>2, <3>5, <4>1, ContractMeaning
    <3>6. CASE status[i] = "EXECUTING" /\ x = "COMPLETED" /\ (i \in Transfers => i \in moved)
      <4>1. /\ Phases(status)[i] = "running" /\ (i \in Transfers => i \in moved)
            /\ Phases(status') = [Phases(status) EXCEPT ![i] = "done"] /\ moved' = moved
        BY <1>2, <3>1, <3>2, <3>6
      <4>. QED  BY <4>1, ContractMeaning
    <3>7. CASE status[i] \in {"PENDING", "EXECUTING"} /\ x = "FAILED" /\ i \notin moved
      <4>1. /\ Phases(status)[i] \in {"open", "running"} /\ i \notin moved
            /\ Phases(status') = [Phases(status) EXCEPT ![i] = "failed"] /\ moved' = moved
        BY <1>2, <3>1, <3>2, <3>7
      <4>. QED  BY <4>1, ContractMeaning
    <3>. QED  BY <1>2, <3>3, <3>4, <3>5, <3>6, <3>7
  <2>. QED  BY <1>2, <2>1, <2>2
<1>. HIDE DEF Goal
<1>3. ASSUME NEW i \in Intent, Submit(i) PROVE Goal
  BY <1>2, <1>3 DEF Submit, SetStatus, Status
<1>4. ASSUME NEW s \in Process, ExpireIntent(s) \/ ScheduleIntent(s) PROVE Goal
  <2>1. SIntent(s) \in Intent /\ status[SIntent(s)] = "PENDING" /\ SIntent(s) \notin moved
    BY <1>1, <1>4, HandlerFacts DEF ExpireIntent, ScheduleIntent, BInv, Deciding, MoneyKnown
  <2>2. CASE ExpireIntent(s)
    <3>1. status' \in {status, [status EXCEPT ![SIntent(s)] = "FAILED"]} /\ moved' = moved
      BY <2>2 DEF ExpireIntent, SetStatus, MaybeSetStatus
    <3>. QED  BY <1>2, <2>1, <3>1 DEF Status
  <2>3. CASE ScheduleIntent(s)
    <3>1. status' \in {status, [status EXCEPT ![SIntent(s)] = "SCHEDULED"]} /\ moved' = moved
      BY <2>3 DEF ScheduleIntent, SetStatus, MaybeSetStatus
    <3>. QED  BY <1>2, <2>1, <3>1 DEF Status
  <2>. QED  BY <1>4, <2>2, <2>3
<1>5. ASSUME NEW w \in Worker, Claim(w) PROVE Goal
  <2>1. WIntent(w) \in Intent
    BY <1>1, <1>5, WorkerFacts DEF Claim
  <2>2. CASE status[WIntent(w)] = "SCHEDULED"
    <3>1. status' \in {status, [status EXCEPT ![WIntent(w)] = "EXECUTING"]} /\ moved' = moved
      BY <1>5, <2>2 DEF Claim, SetStatus, MaybeSetStatus
    <3>. QED  BY <1>2, <2>1, <2>2, <3>1 DEF Status
  <2>3. CASE status[WIntent(w)] # "SCHEDULED"
    BY <1>5, <2>3, ContractMeaning DEF Goal, Claim
  <2>. QED  BY <2>2, <2>3
<1>6. ASSUME NEW w \in Worker, WriteResult(w) PROVE Goal
  <2>1. /\ WIntent(w) \in Intent /\ status[WIntent(w)] = "EXECUTING" /\ wres[w] \in Final
        /\ wres[w] = "COMPLETED" /\ WIntent(w) \in Transfers => WIntent(w) \in moved
        /\ wres[w] = "FAILED" => WIntent(w) \notin moved
    BY <1>1, <1>6, WorkerFacts DEF WriteResult, BInv, OneExecutor, Executes, AInv, ResultKnown, MoneyKnown
  <2>2. status' \in {status, [status EXCEPT ![WIntent(w)] = wres[w]]} /\ moved' = moved
    BY <1>6 DEF WriteResult, SetStatus, MaybeSetStatus
  <2>. QED  BY <1>2, <2>1, <2>2 DEF Status, Final
<1>7. ASSUME NEW w \in Worker, Transfer(w) PROVE Goal
  <2>1. /\ WIntent(w) \in Intent /\ status[WIntent(w)] = "EXECUTING" /\ WIntent(w) \in Transfers \ moved
        /\ moved' = moved \cup {WIntent(w)} /\ status' = status
    BY <1>1, <1>7, WorkerFacts DEF Transfer, BInv, OneExecutor, Executes
  <2>2. Phases(status)[WIntent(w)] = "running"
    BY <2>1 DEF Phases, Phase
  <2>. QED  BY <2>1, <2>2, ContractMeaning DEF Goal
<1>8. ASSUME UNCHANGED <<status, moved>> PROVE Goal
  BY <1>8, ContractMeaning DEF Goal
<1>9. ASSUME NEW s \in Process, ReceiveEvent(s) \/ Handle(s) \/ SchedulerCrash(s), ~ExpireIntent(s), ~ScheduleIntent(s)
      PROVE  UNCHANGED <<status, moved>>
  BY <1>9 DEF ReceiveEvent, Handle, ReadStatus, PublishTask, RepublishTask, AckEvent, NakEvent, SchedulerCrash
<1>10. ASSUME NEW w \in Worker, ReceiveTask(w) \/ Execute(w) \/ WorkerCrash(w), ~Claim(w), ~WriteResult(w), ~Transfer(w)
       PROVE  UNCHANGED <<status, moved>>
  BY <1>10 DEF ReceiveTask, Execute, TransferRefused, Compute, ContextEnds, PublishResult, AckTask, NakTask,
     WorkerCrash, shared
<1>11. EventAckWait \/ TaskAckWait \/ (\E i \in Intent : SubmitAgain(i) \/ DeadlinePasses(i))
       => UNCHANGED <<status, moved>>
  BY DEF EventAckWait, TaskAckWait, SubmitAgain, DeadlinePasses
<1>. QED
  <2>1. Goal
    BY <1>3, <1>4, <1>5, <1>6, <1>7, <1>8, <1>9, <1>10, <1>11 DEF PNext, SchedulerNext, EngineNext
  <2>. QED  BY <2>1 DEF Goal

(* With one scheduler process and a wallet whose answers arrive, the       *)
(* pipeline implements IntentContract: redeliveries, second publishes,     *)
(* crashes and failed statements never run an intent twice, take back a    *)
(* final status or misreport a transfer.                                   *)
THEOREM PipelineKeepsContract == OneScheduler /\ AnswersArrive => (PSpec => KeepsContract)
<1>. SUFFICES ASSUME OneScheduler, AnswersArrive PROVE PSpec => KeepsContract
  OBVIOUS
<1>1. CInv /\ [PNext]_vars => CInv'
  BY CInvStep
<1>2. CInv /\ [PNext]_vars => [Contract!CNext]_(Contract!contract)
  <2>1. ASSUME CInv, PNext PROVE [Contract!CNext]_(Contract!contract)
    BY <2>1, ContractStep
  <2>2. ASSUME UNCHANGED vars PROVE [Contract!CNext]_(Contract!contract)
    BY <2>2, ContractMeaning DEF vars, shared
  <2>. QED  BY <2>1, <2>2
<1>. QED  BY <1>1, <1>2, CInvInit, ContractInit, PTL DEF PSpec, KeepsContract, Contract!CSpec

(* The message in hand is not acknowledged. *)
Unacked == \A s \in Process : spc[s] # "idle" => events[smsg[s]].state # "acked"

(* A handler that acknowledges its event leaves a task if one is needed. *)
TaskFollows ==
  \A s \in Process :
    spc[s] = "ack" /\ status[SIntent(s)] = "SCHEDULED" => Pending(tasks, SIntent(s))

DInv == BInv /\ Unacked /\ TaskFollows /\ ScheduledIsRemembered


(* The second publish of a task, after which the event is acknowledged     *)
(* whatever its outcome, does not fail.                                    *)
RepublishSucceeds == "republishTask" \notin Faults

(* A task of a SCHEDULED intent is not acknowledged. *)
LEMMA TaskKept ==
  ASSUME BInv, PNext, NEW i \in Intent, status[i] = "SCHEDULED", Pending(tasks, i)
  PROVE  Pending(tasks', i)
<1>1. PTypeOK /\ tasks \in Seq(Message(Intent))
  BY DEF BInv, AInv, PTypeOK, SharedTypeOK
<1>2. ASSUME NEW w \in Worker, AckTask(w)
      PROVE  wtask[w] \in DOMAIN tasks /\ tasks' = Ack(tasks, wtask[w]) /\ tasks[wtask[w]].intent # i
  BY <1>1, <1>2, WorkerFacts DEF AckTask, BInv, Taken, WIntent
<1>3. ASSUME NEW s \in Process, PublishTask(s) \/ RepublishTask(s) PROVE SIntent(s) \in Intent
  BY <1>1, <1>3, HandlerFacts DEF PublishTask, RepublishTask
<1>. QED  BY <1>1, <1>2, <1>3, TasksStep, PendingKept

(* A handler comes to its acknowledgement with a task published, or with   *)
(* an intent that needs none.                                              *)
LEMMA AckStep ==
  ASSUME RepublishSucceeds, BInv, PNext, NEW s \in Process, spc'[s] = "ack"
  PROVE  \/ spc[s] = "ack" /\ smsg'[s] = smsg[s]
         \/ /\ spc[s] # "idle" /\ smsg'[s] = smsg[s]
            /\ \/ status'[SIntent(s)] # "SCHEDULED"
               \/ tasks' = Publish(tasks, SIntent(s))
<1>1. PTypeOK /\ spc \in [Process -> SchedulerPC] /\ smsg \in [Process -> 0 .. Len(events)] /\ status \in [Intent -> Status]
  BY DEF BInv, AInv, PTypeOK, SchedulerTypeOK, SharedTypeOK
<1>2. CASE UNCHANGED scheduler
  BY <1>2 DEF scheduler
<1>3. ASSUME NEW t \in Process, t # s, ReceiveEvent(t) \/ Handle(t) \/ SchedulerCrash(t)
      PROVE  spc'[s] = spc[s] /\ smsg'[s] = smsg[s]
  BY <1>1, <1>3 DEF SGoto, SDone, ReceiveEvent, Handle, ReadStatus, ExpireIntent, ScheduleIntent,
     PublishTask, RepublishTask, AckEvent, NakEvent, SchedulerCrash
<1>4. CASE ReceiveEvent(s) \/ ScheduleIntent(s) \/ AckEvent(s) \/ NakEvent(s) \/ SchedulerCrash(s)
  BY <1>1, <1>4 DEF ReceiveEvent, ScheduleIntent, AckEvent, NakEvent, SchedulerCrash, SGoto, SDone
<1>5. CASE ReadStatus(s)
  BY <1>1, <1>5 DEF ReadStatus, AfterRead, SGoto
<1>6. CASE ExpireIntent(s)
  <2>1. SIntent(s) \in Intent
    BY <1>1, <1>6, HandlerFacts DEF ExpireIntent
  <2>. QED  BY <1>1, <1>6, <2>1 DEF ExpireIntent, SGoto, SetStatus
<1>7. CASE PublishTask(s) \/ RepublishTask(s)
  BY <1>1, <1>7 DEF PublishTask, RepublishTask, SGoto, Fault, RepublishSucceeds
<1>8. UNCHANGED scheduler \/ \E t \in Process : ReceiveEvent(t) \/ Handle(t) \/ SchedulerCrash(t)
  BY DEF PNext, SchedulerNext, EventAckWait, Submit, SubmitAgain, DeadlinePasses, scheduler
<1>. QED  BY <1>2, <1>3, <1>4, <1>5, <1>6, <1>7, <1>8 DEF Handle

LEMMA TaskFollowsStep ==
  ASSUME RepublishSucceeds, DInv, PNext
  PROVE  TaskFollows'
<1>. SUFFICES ASSUME NEW s \in Process, spc'[s] = "ack", status'[SIntent(s)'] = "SCHEDULED"
              PROVE  Pending(tasks', SIntent(s)')
  BY DEF TaskFollows, SIntent, Pending
<1>1. BInv /\ AInv /\ PTypeOK /\ TaskFollows /\ tasks \in Seq(Message(Intent))
  BY DEF DInv, BInv, AInv, PTypeOK, SharedTypeOK
<1>2. spc[s] # "idle" /\ smsg'[s] = smsg[s]
  BY <1>1, AckStep
<1>3. SIntent(s)' = SIntent(s) /\ SIntent(s) \in Intent
  BY <1>1, <1>2, IntentKept, HandlerFacts
<1>4. CASE tasks' = Publish(tasks, SIntent(s))
  <2>1. /\ DOMAIN Publish(tasks, SIntent(s)) = DOMAIN tasks \cup {Len(tasks) + 1}
        /\ Publish(tasks, SIntent(s))[Len(tasks) + 1] = [intent |-> SIntent(s), state |-> "ready"]
    BY <1>1, <1>3, PublishFacts
  <2>. QED  BY <1>3, <1>4, <2>1 DEF Pending
<1>5. CASE spc[s] = "ack"
  <2>1. status[SIntent(s)] = "SCHEDULED"
    BY <1>1, <1>3, <1>5, ForwardStep DEF Forward, AInv, Decided
  <2>. QED  BY <1>1, <1>3, <1>5, <2>1, TaskKept DEF TaskFollows
<1>. QED  BY <1>1, <1>3, <1>4, <1>5, AckStep

LEMMA UnackedStep ==
  ASSUME OneScheduler, DInv, PNext
  PROVE  Unacked'
<1>. SUFFICES ASSUME NEW s \in Process, spc'[s] # "idle" PROVE events'[smsg'[s]].state # "acked"
  BY DEF Unacked
<1>1. /\ PTypeOK /\ Unacked /\ events \in Seq(Message(Intent))
      /\ spc \in [Process -> SchedulerPC] /\ smsg \in [Process -> 0 .. Len(events)]
  BY DEF DInv, BInv, AInv, PTypeOK, SharedTypeOK, SchedulerTypeOK
<1>2. CASE ReceiveEvent(s)
  <2>1. PICK m \in Ready(events) : events' = Deliver(events, m) /\ smsg'[s] = m
    BY <1>1, <1>2 DEF ReceiveEvent
  <2>2. Deliver(events, m)[m].state = "out"
    BY <1>1, StateFacts DEF Ready
  <2>. QED  BY <2>1, <2>2
<1>3. CASE spc[s] # "idle" /\ smsg'[s] = smsg[s] /\ ~AckEvent(s)
  <2>1. smsg[s] \in DOMAIN events /\ events[smsg[s]].state # "acked"
    BY <1>1, <1>3, HandlerFacts DEF Unacked
  <2>2. ASSUME NEW m \in DOMAIN events, events' \in {Deliver(events, m), Redeliver(events, m)}
        PROVE  events'[smsg[s]].state # "acked"
    <3>1. /\ smsg[s] # m => events'[smsg[s]].state = events[smsg[s]].state
          /\ Redeliver(events, m)[m].state = "acked" <=> events[m].state = "acked"
          /\ Deliver(events, m)[m].state = "out"
      BY <1>1, <2>1, <2>2, StateFacts
    <3>. QED  BY <2>1, <2>2, <3>1
  <2>3. ASSUME NEW i \in Intent, Submit(i) \/ SubmitAgain(i)
        PROVE  events'[smsg[s]] = events[smsg[s]]
    <3>1. \A m \in DOMAIN events : Publish(events, i)[m] = events[m]
      BY <1>1, PublishFacts
    <3>. QED  BY <2>1, <2>3, <3>1 DEF Submit, SubmitAgain
  <2>4. \A t \in Process : ~AckEvent(t)
    BY <1>3 DEF OneScheduler
  <2>. QED  BY <1>1, <1>3, <2>1, <2>2, <2>3, <2>4, EventsStep
<1>4. ReceiveEvent(s) \/ (spc[s] # "idle" /\ smsg'[s] = smsg[s] /\ ~AckEvent(s))
  <2>1. AckEvent(s) \/ NakEvent(s) \/ SchedulerCrash(s) => spc'[s] = "idle"
    BY <1>1 DEF AckEvent, NakEvent, SchedulerCrash, SDone
  <2>2. ReadStatus(s) \/ ExpireIntent(s) \/ ScheduleIntent(s) \/ PublishTask(s) \/ RepublishTask(s)
        => spc[s] # "idle" /\ smsg'[s] = smsg[s]
    BY <1>1 DEF ReadStatus, ExpireIntent, ScheduleIntent, PublishTask, RepublishTask, SGoto
  <2>3. UNCHANGED scheduler \/ \E t \in Process : ReceiveEvent(t) \/ Handle(t) \/ SchedulerCrash(t)
    BY DEF PNext, SchedulerNext, EventAckWait, Submit, SubmitAgain, DeadlinePasses, scheduler
  <2>4. UNCHANGED scheduler \/ ReceiveEvent(s) \/ Handle(s) \/ SchedulerCrash(s)
    BY <2>3 DEF OneScheduler
  <2>5. CASE UNCHANGED scheduler
    BY <2>1, <2>5 DEF scheduler
  <2>. QED  BY <2>1, <2>2, <2>4, <2>5 DEF Handle
<1>. QED  BY <1>2, <1>3, <1>4

LEMMA RememberedStep ==
  ASSUME OneScheduler, DInv, PNext
  PROVE  ScheduledIsRemembered'
<1>. SUFFICES ASSUME NEW i \in Intent, status'[i] = "SCHEDULED"
              PROVE  Pending(events', i) \/ Pending(tasks', i)
  BY DEF ScheduledIsRemembered, Pending
<1>1. /\ BInv /\ AInv /\ PTypeOK /\ Unacked /\ TaskFollows /\ ScheduledIsRemembered
      /\ events \in Seq(Message(Intent))
  BY DEF DInv, BInv, AInv, PTypeOK, SharedTypeOK
<1>2. CASE status[i] # "SCHEDULED"
  <2>1. PICK s \in Process : SIntent(s) = i /\ ScheduleIntent(s)
    BY <1>1, <1>2, StatusStep DEF WriteResult, AInv, ResultKnown, Final
  <2>2. smsg[s] \in DOMAIN events /\ events' = events /\ events[smsg[s]].state # "acked"
    BY <1>1, <2>1, HandlerFacts DEF ScheduleIntent, Unacked
  <2>. QED  BY <2>1, <2>2 DEF Pending, SIntent
<1>3. CASE status[i] = "SCHEDULED" /\ Pending(tasks, i)
  BY <1>1, <1>3, TaskKept
<1>4. CASE status[i] = "SCHEDULED" /\ ~Pending(tasks, i)
  <2>1. Pending(events, i)
    BY <1>1, <1>4 DEF ScheduledIsRemembered
  <2>2. ASSUME NEW s \in Process, AckEvent(s)
        PROVE  smsg[s] \in DOMAIN events /\ events' = Ack(events, smsg[s]) /\ events[smsg[s]].intent # i
    BY <1>1, <1>4, <2>2, HandlerFacts DEF AckEvent, TaskFollows, SIntent
  <2>3. ASSUME NEW j \in Intent, Submit(j) \/ SubmitAgain(j) PROVE events' = Publish(events, j)
    BY <2>3 DEF Submit, SubmitAgain
  <2>. QED  BY <1>1, <2>1, <2>2, <2>3, EventsStep, PendingKept
<1>. QED  BY <1>2, <1>3, <1>4

LEMMA DInvInit == PInit => DInv
  BY BInvInit DEF DInv, PInit, SharedInit, SchedulerInit, Unacked, TaskFollows, ScheduledIsRemembered

LEMMA DInvStep == OneScheduler /\ RepublishSucceeds /\ DInv /\ [PNext]_vars => DInv'
<1>1. ASSUME OneScheduler, RepublishSucceeds, DInv, PNext PROVE DInv'
  BY <1>1, BInvStep, UnackedStep, TaskFollowsStep, RememberedStep DEF DInv
<1>2. ASSUME OneScheduler, DInv, UNCHANGED vars PROVE DInv'
  BY <1>2, BInvStep DEF DInv, vars, shared, scheduler, Unacked, TaskFollows, ScheduledIsRemembered, SIntent, Pending
<1>. QED  BY <1>1, <1>2

LEMMA DInvariant == OneScheduler /\ RepublishSucceeds => (PSpec => []DInv)
<1>. SUFFICES ASSUME OneScheduler, RepublishSucceeds PROVE PSpec => []DInv
  OBVIOUS
<1>1. DInv /\ [PNext]_vars => DInv'
  BY DInvStep
<1>. QED  BY <1>1, DInvInit, PTL DEF PSpec

(* With one scheduler process and no failed second publish, a message that *)
(* will move a SCHEDULED intent on is always unacknowledged.               *)
THEOREM NothingForgotten == OneScheduler /\ RepublishSucceeds => (PSpec => []ScheduledIsRemembered)
<1>1. DInv => ScheduledIsRemembered
  BY DEF DInv
<1>. QED  BY <1>1, DInvariant, PTL

(* "We must call m.Ack() once the database write + NATS publish succeed":  *)
(* under the same hypotheses, what the scheduler acknowledged is decided,  *)
(* and a SCHEDULED intent has a task in TASKS.                             *)
THEOREM AcknowledgedIsPublished == OneScheduler /\ RepublishSucceeds => (PSpec => []AckedMeansPublished)
<1>1. DInv => AckedMeansPublished
  BY DEF DInv, BInv, AInv, PendingIsTold, ScheduledIsRemembered, AckedMeansPublished, Pending, Stored
<1>. QED  BY <1>1, DInvariant, PTL

=============================================================================
