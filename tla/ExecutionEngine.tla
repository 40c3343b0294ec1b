-------------------------- MODULE ExecutionEngine ---------------------------
(***************************************************************************)
(* startWorker and executeTask: the worker goroutines of all the engine    *)
(* processes.  A worker takes one task at a time, claims the intent by a   *)
(* conditional UPDATE, executes it and writes the result.                  *)
(***************************************************************************)
EXTENDS IntentState

CONSTANT Worker   \* worker goroutines, over all engine processes

VARIABLES
  wpc,    \* next step of executeTask
  wtask,  \* position in TASKS of the message in hand; 0 for none
  wres    \* finalStatus, once known

engine == <<wpc, wtask, wres>>

WorkerPC == {"idle", "claim", "execute", "finish", "announce", "ack", "nak"}

EngineInit ==
  /\ wpc = [w \in Worker |-> "idle"]
  /\ wtask = [w \in Worker |-> 0]
  /\ wres = [w \in Worker |-> "none"]

WGoto(w, l) == wpc' = [wpc EXCEPT ![w] = l] /\ UNCHANGED <<wtask, wres>>

WDone(w) ==
  /\ wpc' = [wpc EXCEPT ![w] = "idle"]
  /\ wtask' = [wtask EXCEPT ![w] = 0]
  /\ wres' = [wres EXCEPT ![w] = "none"]

WIntent(w) == tasks[wtask[w]].intent

-----------------------------------------------------------------------------
ReceiveTask(w) ==
  /\ wpc[w] = "idle"
  /\ \E m \in Ready(tasks) :
       /\ tasks' = Deliver(tasks, m)
       /\ wtask' = [wtask EXCEPT ![w] = m]
  /\ wpc' = [wpc EXCEPT ![w] = "claim"]
  /\ UNCHANGED <<status, late, events, executed, moved, faults, wres>>

(* Mutant: the UPDATE does not ask for status SCHEDULED. *)
ClaimUnconditionally(w) ==
  /\ wpc[w] = "claim"
  /\ SetStatus(WIntent(w), "EXECUTING")
  /\ WGoto(w, "execute")
  /\ UNCHANGED <<late, events, tasks, executed, moved, faults>>

(* Mutant: an intent found EXECUTING is taken over. *)
ClaimAgain(w) ==
  /\ wpc[w] = "claim"
  /\ IF status[WIntent(w)] \in {"SCHEDULED", "EXECUTING"}
       THEN SetStatus(WIntent(w), "EXECUTING") /\ WGoto(w, "execute")
       ELSE UNCHANGED status /\ WGoto(w, "ack")
  /\ UNCHANGED <<late, events, tasks, executed, moved, faults>>

(* UPDATE ... EXECUTING WHERE id AND status = SCHEDULED.  No row: somebody *)
(* else has it, the task is acknowledged.                                  *)
Claim(w) ==
  /\ wpc[w] = "claim"
  /\ \/ /\ status[WIntent(w)] = "SCHEDULED"
        /\ SetStatus(WIntent(w), "EXECUTING")
        /\ WGoto(w, "execute")
        /\ NoFault
     \/ /\ status[WIntent(w)] # "SCHEDULED"
        /\ WGoto(w, "ack")
        /\ UNCHANGED <<status, faults>>
     \/ /\ IF status[WIntent(w)] = "SCHEDULED" THEN MaybeSetStatus(WIntent(w), "EXECUTING")
                                               ELSE UNCHANGED status
        /\ WGoto(w, "nak")
        /\ Fault("engineDB")
  /\ UNCHANGED <<late, events, tasks, executed, moved>>

Result(w, st) ==
  /\ wres' = [wres EXCEPT ![w] = st]
  /\ wpc' = [wpc EXCEPT ![w] = "finish"]
  /\ UNCHANGED wtask

(* A transfer the wallet applies, under the intent's id as reference, *)
Transfer(w) ==
  /\ wpc[w] = "execute"
  /\ WIntent(w) \in Transfers \ moved
  /\ moved' = moved \cup {WIntent(w)}
  /\ \/ Result(w, "COMPLETED") /\ NoFault
     \/ Result(w, "FAILED") /\ Fault("rpc")
  /\ UNCHANGED <<status, late, events, tasks, executed>>

(* and one that it refuses: payload, funds, or a reference already used.   *)
TransferRefused(w) ==
  /\ wpc[w] = "execute"
  /\ WIntent(w) \in Transfers
  /\ Result(w, "FAILED")
  /\ UNCHANGED shared

(* COMPUTE sleeps two seconds; any other type is a no-op. *)
Compute(w) ==
  /\ wpc[w] = "execute"
  /\ WIntent(w) \notin Transfers
  /\ Result(w, "COMPLETED")
  /\ UNCHANGED shared

(* The context of the task ends while it is executed.  Whatever has become *)
(* of the transfer or the computation, the result is written under the     *)
(* same context: the UPDATE fails, and the task goes back to the stream.   *)
ContextEnds(w) ==
  /\ wpc[w] \in {"execute", "finish"}
  /\ Fault("timeout")
  /\ WGoto(w, "nak")
  /\ UNCHANGED <<status, late, events, tasks, executed, moved>>

WriteResult(w) ==
  /\ wpc[w] = "finish"
  /\ \/ SetStatus(WIntent(w), wres[w]) /\ WGoto(w, "announce") /\ NoFault
     \/ MaybeSetStatus(WIntent(w), wres[w]) /\ WGoto(w, "nak") /\ Fault("engineDB")
  /\ UNCHANGED <<late, events, tasks, executed, moved>>

(* The event for the validator; a failure is only logged. *)
PublishResult(w) ==
  /\ wpc[w] = "announce"
  /\ \/ executed' = Publish(executed, WIntent(w)) /\ NoFault
     \/ executed' \in PublishFails(executed, WIntent(w)) /\ Fault("publishResult")
  /\ WGoto(w, "ack")
  /\ UNCHANGED <<status, late, events, tasks, moved>>

AckTask(w) ==
  /\ wpc[w] = "ack"
  /\ tasks' = Ack(tasks, wtask[w])
  /\ WDone(w)
  /\ UNCHANGED <<status, late, events, executed, moved, faults>>

NakTask(w) ==
  /\ wpc[w] = "nak"
  /\ tasks' = Redeliver(tasks, wtask[w])
  /\ WDone(w)
  /\ UNCHANGED <<status, late, events, executed, moved, faults>>

(* The process is killed, or told to stop: main closes taskChan and        *)
(* returns without waiting for the workers.                                *)
WorkerCrash(w) ==
  /\ wpc[w] # "idle"
  /\ Fault("workerCrash")
  /\ WDone(w)
  /\ UNCHANGED <<status, late, events, tasks, executed, moved>>

(* AckWait runs while a task waits in taskChan and while it is executed. *)
TaskAckWait ==
  /\ \E m \in DOMAIN tasks :
       /\ tasks[m].state = "out"
       /\ IF \E w \in Worker : wtask[w] = m THEN Fault("slow") ELSE NoFault
       /\ tasks' = Redeliver(tasks, m)
  /\ UNCHANGED <<status, late, events, executed, moved, engine>>

(* Every step of executeTask and startWorker but the crash *)
Execute(w) ==
  \/ Claim(w)
  \/ Transfer(w) \/ TransferRefused(w) \/ Compute(w) \/ ContextEnds(w)
  \/ WriteResult(w) \/ PublishResult(w)
  \/ AckTask(w) \/ NakTask(w)

EngineNext ==
  \/ \E w \in Worker : ReceiveTask(w) \/ Execute(w) \/ WorkerCrash(w)
  \/ TaskAckWait

EngineTypeOK ==
  /\ wpc \in [Worker -> WorkerPC]
  /\ wtask \in [Worker -> 0 .. Len(tasks)]
  /\ wres \in [Worker -> Final \cup {"none"}]
  /\ \A w \in Worker : wtask[w] = 0 <=> wpc[w] = "idle"

=============================================================================
