----------------------------- MODULE Validator ------------------------------
(***************************************************************************)
(* The end of the pipeline: the engine writes a result and announces it,   *)
(* the validator scans its ledger at startup and runs handleExecutedIntent *)
(* for one message of EXECUTIONS at a time, with Append to the file.       *)
(***************************************************************************)
EXTENDS Ledger, JetStream

CONSTANTS
  Intent,      \* intent ids
  Faults,      \* classes of faults that may happen
  MaxFaults    \* bound: how many faults happen in a behaviour

FaultClass ==
  { "crash",      \* the process is killed between two calls
    "torn",       \* the process is killed during the write
    "short",      \* the write fails half way (disk full)
    "sync",       \* Sync fails after the write
    "db",         \* the query fails
    "slow",       \* AckWait expires on a message in hand
    "publish",    \* the engine cannot announce a result, or is killed before
    "reschedule"  \* a second scheduler sets a final status back to SCHEDULED
  }

ASSUME ValidatorAssumption ==
  /\ Faults \subseteq FaultClass
  /\ MaxFaults \in Nat

VARIABLES
  status,    \* intents.status, as far as the validator tells values apart
  due,       \* how many results of an intent the engine is about to announce
  silent,    \* intents with a result whose announcement failed
  mode,      \* "starting", "up", or "down" after a crash or a failed scan
  vpc,       \* next step of the handler
  vmsg,      \* position in EXECUTIONS of the message in hand; 0 for none
  dbStatus,  \* the status the handler read
  lines,     \* the ledger file
  eol,       \* its last line ends with a newline
  cut,       \* a write was cut short
  executed,  \* stream EXECUTIONS
  faults     \* faults so far

results == <<status, due, silent>>
handler == <<vpc, vmsg, dbStatus>>
file    == <<lines, eol, cut>>
vars    == <<results, mode, handler, file, executed, faults>>

Final == {"COMPLETED", "FAILED"}

VInit ==
  /\ status = [i \in Intent |-> "none"]
  /\ due = [i \in Intent |-> 0]
  /\ silent = {}
  /\ mode = "starting"
  /\ vpc = "idle"
  /\ vmsg = 0
  /\ dbStatus = "none"
  /\ lines = <<>>
  /\ eol = TRUE
  /\ cut = FALSE
  /\ executed = <<>>
  /\ faults = 0

Fault(f) ==
  /\ f \in Faults
  /\ faults < MaxFaults
  /\ faults' = faults + 1

NoFault == UNCHANGED faults

VIntent == executed[vmsg].intent

-----------------------------------------------------------------------------
(* The engine writes a result, *)
WriteResult(i, st) ==
  /\ status[i] \notin Final
  /\ status' = [status EXCEPT ![i] = st]
  /\ due' = [due EXCEPT ![i] = @ + 1]
  /\ UNCHANGED <<silent, mode, handler, file, executed, faults>>

(* and then announces it; a failure is logged, and nobody tries again. *)
Announce(i) ==
  /\ due[i] > 0
  /\ due' = [due EXCEPT ![i] = @ - 1]
  /\ \/ executed' = Publish(executed, i) /\ NoFault /\ UNCHANGED silent
     \/ /\ executed' \in PublishFails(executed, i)
        /\ silent' = silent \cup {i}
        /\ Fault("publish")
  /\ UNCHANGED <<status, mode, handler, file>>

(* A second scheduler, slow with the same event, sets SCHEDULED again; the *)
(* engine will execute the intent once more.                               *)
Reschedule(i) ==
  /\ status[i] \in Final
  /\ Fault("reschedule")
  /\ status' = [status EXCEPT ![i] = "SCHEDULED"]
  /\ UNCHANGED <<due, silent, mode, handler, file, executed>>

(* Startup: the service only goes on when the whole file verifies. *)
StartupScan ==
  /\ mode = "starting"
  /\ mode' = IF Verify(lines) THEN "up" ELSE "down"
  /\ UNCHANGED <<results, handler, file, executed, faults>>

(* The StatefulSet starts the container again. *)
Restart ==
  /\ mode = "down"
  /\ mode' = "starting"
  /\ UNCHANGED <<results, handler, file, executed, faults>>

ReceiveExecution ==
  /\ mode = "up"
  /\ vpc = "idle"
  /\ \E m \in Ready(executed) :
       /\ executed' = Deliver(executed, m)
       /\ vmsg' = m
  /\ vpc' = "query"
  /\ UNCHANGED <<results, mode, dbStatus, file, faults>>

(* Mutant: an intent that has a block is not looked up again. *)
QueryStatusCached ==
  /\ vpc = "query"
  /\ vpc' = "write"
  /\ dbStatus' = IF Recorded(lines, VIntent) THEN FirstStatus(lines, VIntent) ELSE status[VIntent]
  /\ UNCHANGED <<results, mode, vmsg, file, executed, faults>>

(* SELECT status: only a final one goes to the ledger. *)
QueryStatus ==
  /\ vpc = "query"
  /\ \/ /\ dbStatus' = status[VIntent]
        /\ vpc' = IF status[VIntent] \in Final THEN "write" ELSE "nak"
        /\ NoFault
     \/ vpc' = "nak" /\ Fault("db") /\ UNCHANGED dbStatus
  /\ UNCHANGED <<results, mode, vmsg, file, executed>>

Block == NewBlock(lines, VIntent, dbStatus)

(* Append up to the write.  A write that fails half way is reported, what  *)
(* it wrote stays in the file.                                             *)
WriteBlock ==
  /\ vpc = "write"
  /\ \/ /\ lines' = WriteLine(lines, eol, Block)
        /\ eol' = TRUE
        /\ vpc' = "sync"
        /\ NoFault
        /\ UNCHANGED cut
     \/ /\ lines' \in CutShort(lines, eol, Block)
        /\ eol' = FALSE
        /\ cut' = TRUE
        /\ vpc' = "nak"
        /\ Fault("short")
     \/ /\ vpc' = "nak"
        /\ Fault("short")
        /\ UNCHANGED <<lines, eol, cut>>
  /\ UNCHANGED <<results, mode, vmsg, dbStatus, executed>>

SyncFile ==
  /\ vpc = "sync"
  /\ \/ vpc' = "ack" /\ NoFault
     \/ vpc' = "nak" /\ Fault("sync")
  /\ UNCHANGED <<results, mode, vmsg, dbStatus, file, executed>>

VDone == vpc' = "idle" /\ vmsg' = 0 /\ dbStatus' = "none"

AckExecution ==
  /\ vpc = "ack"
  /\ executed' = Ack(executed, vmsg)
  /\ VDone
  /\ UNCHANGED <<results, mode, file, faults>>

(* Mutant: the message is acknowledged although the handler failed. *)
NakExecutionAcked ==
  /\ vpc = "nak"
  /\ executed' = Ack(executed, vmsg)
  /\ VDone
  /\ UNCHANGED <<results, mode, file, faults>>

NakExecution ==
  /\ vpc = "nak"
  /\ executed' = Redeliver(executed, vmsg)
  /\ VDone
  /\ UNCHANGED <<results, mode, file, faults>>

(* The process is killed between two calls, or in the middle of the write. *)
Crash ==
  /\ mode = "up"
  /\ mode' = "down"
  /\ VDone
  /\ \/ Fault("crash") /\ UNCHANGED <<lines, eol, cut>>
     \/ /\ vpc = "write"
        /\ Fault("torn")
        /\ lines' \in CutShort(lines, eol, Block)
        /\ eol' = FALSE
        /\ cut' = TRUE
  /\ UNCHANGED <<results, executed>>

(* Mutant: a message is delivered only once. *)
ExecutionAckWaitNever ==
  /\ \E m \in DOMAIN executed :
       /\ executed[m].state = "out"
       /\ m = vmsg
       /\ Fault("slow")
       /\ executed' = Redeliver(executed, m)
  /\ UNCHANGED <<results, mode, handler, file>>

ExecutionAckWait ==
  /\ \E m \in DOMAIN executed :
       /\ executed[m].state = "out"
       /\ IF m = vmsg THEN Fault("slow") ELSE NoFault
       /\ executed' = Redeliver(executed, m)
  /\ UNCHANGED <<results, mode, handler, file>>

Run ==
  \/ StartupScan \/ Restart
  \/ ReceiveExecution \/ QueryStatus \/ WriteBlock \/ SyncFile
  \/ AckExecution \/ NakExecution

VNext ==
  \/ \E i \in Intent :
       \/ \E st \in Final : WriteResult(i, st)
       \/ Announce(i)
       \/ Reschedule(i)
  \/ Run
  \/ Crash
  \/ ExecutionAckWait

VSpec == VInit /\ [][VNext]_vars

(* The engine goes on after it wrote a result, the validator's container   *)
(* is restarted, its calls return, the broker redelivers.                  *)
FairVSpec ==
  /\ VSpec
  /\ WF_vars(Run) /\ WF_vars(ExecutionAckWait)
  /\ \A i \in Intent : /\ WF_vars(\E st \in Final : status[i] = "SCHEDULED" /\ WriteResult(i, st))
                       /\ WF_vars(Announce(i))

-----------------------------------------------------------------------------
(* Properties *)

(* As long as no write was cut short, the file verifies at every moment:   *)
(* whatever is retried or redelivered, and whenever the process is killed  *)
(* between two calls, the next startup scan succeeds.                      *)
LedgerVerifies == ~cut => Verify(lines)

(* An acknowledged result has its block in the file ("to guarantee         *)
(* durability").                                                           *)
AckedMeansRecorded ==
  \A i \in Intent : Stored(executed, i) /\ ~Pending(executed, i) => Recorded(lines, i)

(* Lost writes do not go unnoticed: as long as every line of the file can  *)
(* be shown on the dashboard, all the more when it verifies, it holds a    *)
(* block for every acknowledged result, even if writes were cut short.     *)
PageIsComplete == PageShown(lines) => AckedMeansRecorded

(* The last block of an intent tells what the table tells, whatever is     *)
(* executed, announced or delivered twice, once all that was announced is  *)
(* acknowledged.                                                           *)
LedgerAgrees ==
  \A i \in Intent :
    /\ status[i] \in Final /\ due[i] = 0 /\ i \notin silent
    /\ ~Pending(executed, i) /\ ~cut
    => LastStatus(lines, i) = status[i]

(* Every result is recorded, unless it could not be announced or a write   *)
(* was cut short.                                                          *)
EveryResultRecorded ==
  \A i \in Intent : status[i] \in Final ~> Recorded(lines, i) \/ cut \/ i \in silent

=============================================================================
