----------------------------- MODULE Lifecycle ------------------------------
(***************************************************************************)
(* How the services start, wait for each other and stop.  main of every    *)
(* service is a sequence of steps; one that fails ends the process with    *)
(* os.Exit(1), and the container is started again.  Tables and streams are *)
(* created by the service that owns them; the tables are there for good,   *)
(* the streams until NATS is restarted.  What a service then does to an    *)
(* intent is one step, or three in the engine, where a stop in between     *)
(* shows; what else fails in the handlers is in Pipeline, Outbox and       *)
(* Validator.                                                              *)
(***************************************************************************)
EXTENDS Naturals, Sequences

CONSTANTS
  Proc,         \* service processes
  Kind,         \* function from process to the service it runs
  Deployments,  \* sets of processes and backends that are deployed together
  Intent,       \* intent ids
  MaxAttempts,  \* maxRetries of ConnectPostgres
  Faults,       \* classes of faults that may happen
  MaxFaults     \* bound: how many faults happen in a behaviour

Service == {"intentService", "scheduler", "executionEngine", "validator", "wallet", "gateway"}

Backend == {"postgres", "nats", "redis"}

ASSUME LifecycleAssumption ==
  /\ Kind \in [Proc -> Service]
  /\ Deployments \subseteq SUBSET (Proc \cup Backend)
  /\ MaxAttempts \in Nat \ {0}
  /\ Faults \subseteq Backend \cup    \* it cannot be reached for a time
                      {"natsRestart", \* nats-server runs -js without a store on a volume
                       "local",       \* a file cannot be read, a port is taken, DDL statements collide
                       "stop"}        \* SIGTERM
  /\ MaxFaults \in Nat

VARIABLES
  deployed,  \* the processes and backends of this behaviour
  up,        \* backends that accept connections
  made,      \* tables and streams that exist
  lost,      \* streams that went with a restart of NATS
  pc,        \* position in main of each process
  tries,     \* failed attempts of its ConnectPostgres
  stopped,   \* processes that got SIGTERM
  deaf,      \* processes whose subscription went with a restart of NATS
  stage,     \* how far each intent got
  busy,      \* which processes of the engine are executing which intents
  faults     \* faults so far

things  == <<made, lost>>
process == <<deployed, pc, tries, stopped, deaf>>
work    == <<stage, busy>>
vars    == <<up, things, process, work, faults>>

-----------------------------------------------------------------------------
(* main, up to the point where the service serves *)

(* Mutant: the stream is there before the tables. *)
IntentServiceMainStreamFirst ==
  <<"postgres", "nats", "stream", "migrate", "outbox", "listen">>

IntentServiceMain ==
  <<"postgres", "migrate", "nats", "stream", "outbox", "listen">>

(* Mutant: nobody creates stream TASKS. *)
SchedulerMainWithoutStream == <<"postgres", "nats", "subscribe">>

SchedulerMain == <<"postgres", "nats", "stream", "subscribe">>

ExecutionEngineMain == <<"postgres", "nats", "dial", "subscribe">>

ValidatorMain == <<"verify", "postgres", "nats", "stream", "subscribe">>

WalletMain == <<"postgres", "migrate", "listen">>

GatewayMain == <<"redis", "dial", "listen">>

MainOf ==
  [ intentService   |-> IntentServiceMain,
    scheduler       |-> SchedulerMain,
    executionEngine |-> ExecutionEngineMain,
    validator       |-> ValidatorMain,
    wallet          |-> WalletMain,
    gateway         |-> GatewayMain ]

Main(p) == MainOf[Kind[p]]

(* What Migrate and AddStream create, and what QueueSubscribe asks for *)
Table  == [intentService |-> "intents", wallet |-> "wallet_accounts"]
Stream == [intentService |-> "INTENTS", scheduler |-> "TASKS", validator |-> "EXECUTIONS"]
Source == [scheduler |-> "INTENTS", executionEngine |-> "TASKS", validator |-> "EXECUTIONS"]

At(p, step) == p \in deployed /\ pc[p] \in DOMAIN Main(p) /\ Main(p)[pc[p]] = step

Running(p) == pc[p] > Len(Main(p))
Serving(p) == Running(p) /\ p \notin stopped
Served(k)  == \E p \in Proc : Kind[p] = k /\ Serving(p) /\ p \notin deaf

-----------------------------------------------------------------------------
LCInit ==
  /\ deployed \in Deployments
  /\ up = {}
  /\ made = {}
  /\ lost = {}
  /\ pc = [p \in Proc |-> 1]
  /\ tries = [p \in Proc |-> 0]
  /\ stopped = {}
  /\ deaf = {}
  /\ stage = [i \in Intent |-> "none"]
  /\ busy = {}
  /\ faults = 0

Fault(f) ==
  /\ f \in Faults
  /\ faults < MaxFaults
  /\ faults' = faults + 1

NoFault == UNCHANGED faults

Advance(p) ==
  /\ pc' = [pc EXCEPT ![p] = @ + 1]
  /\ tries' = [tries EXCEPT ![p] = 0]
  /\ UNCHANGED <<deployed, stopped, deaf>>

(* The process ends, and its container is started again. *)
Exit(p) ==
  /\ pc' = [pc EXCEPT ![p] = 1]
  /\ tries' = [tries EXCEPT ![p] = 0]
  /\ stopped' = stopped \ {p}
  /\ deaf' = deaf \ {p}
  /\ UNCHANGED deployed

(* Up to MaxAttempts pings, three seconds apart *)
ConnectPostgres(p) ==
  /\ At(p, "postgres")
  /\ \/ "postgres" \in up /\ Advance(p)
     \/ /\ "postgres" \notin up
        /\ tries[p] + 1 < MaxAttempts
        /\ tries' = [tries EXCEPT ![p] = @ + 1]
        /\ UNCHANGED <<deployed, pc, stopped, deaf>>
     \/ "postgres" \notin up /\ tries[p] + 1 = MaxAttempts /\ Exit(p)
  /\ UNCHANGED <<up, things, work, faults>>

(* nats.Connect and the Ping of Redis are tried once: MaxReconnects is     *)
(* about connections that were made.                                       *)
Connect(p) ==
  /\ \E b \in {"nats", "redis"} : At(p, b) /\ IF b \in up THEN Advance(p) ELSE Exit(p)
  /\ UNCHANGED <<up, things, work, faults>>

(* The schema file.  The statements of two replicas may collide. *)
Migrate(p) ==
  /\ At(p, "migrate")
  /\ \/ /\ "postgres" \in up
        /\ made' = made \cup {Table[Kind[p]]}
        /\ Advance(p)
        /\ NoFault
     \/ Exit(p) /\ UNCHANGED made /\ IF "postgres" \in up THEN Fault("local") ELSE NoFault
  /\ UNCHANGED <<up, lost, work>>

AddStream(p) ==
  /\ At(p, "stream")
  /\ \/ /\ "nats" \in up
        /\ made' = made \cup {Stream[Kind[p]]}
        /\ lost' = lost \ {Stream[Kind[p]]}
        /\ Advance(p)
     \/ "nats" \notin up /\ Exit(p) /\ UNCHANGED things
  /\ UNCHANGED <<up, work, faults>>

(* Only a stream that exists can be subscribed to. *)
QueueSubscribe(p) ==
  /\ At(p, "subscribe")
  /\ IF "nats" \in up /\ Source[Kind[p]] \in made THEN Advance(p) ELSE Exit(p)
  /\ UNCHANGED <<up, things, work, faults>>

(* The steps that depend on the container alone: the scan of the ledger,   *)
(* the listener and the certificates of a server, and those of a client.   *)
(* The outbox worker runs from its step on, before the service listens.    *)
LocalStep(p) ==
  /\ \E s \in {"verify", "outbox", "listen", "dial"} :
       /\ At(p, s)
       /\ \/ Advance(p) /\ NoFault
          \/ s # "outbox" /\ Exit(p) /\ Fault("local")
  /\ UNCHANGED <<up, things, work>>

-----------------------------------------------------------------------------
(* SIGTERM *)

(* It is caught once the service serves; before, it kills the process. *)
Sigterm(p) ==
  /\ p \in deployed \ stopped
  /\ Fault("stop")
  /\ IF Running(p) THEN stopped' = stopped \cup {p} /\ UNCHANGED <<deployed, pc, tries, deaf>>
                   ELSE Exit(p)
  /\ UNCHANGED <<up, things, work>>

(* main returns.  GracefulStop sees the calls of a gRPC server off; nobody *)
(* waits for the workers of the engine, so that what they were executing   *)
(* is cut: the task is delivered again, and skipped as claimed already.    *)
Terminate(p) ==
  /\ p \in stopped
  /\ Exit(p)
  /\ stage' = [i \in Intent |-> IF <<p, i>> \in busy THEN "cut" ELSE stage[i]]
  /\ busy' = {b \in busy : b[1] # p}
  /\ UNCHANGED <<up, things, faults>>

-----------------------------------------------------------------------------
(* Backends *)

Outage(b) ==
  /\ b \in up
  /\ Fault(b)
  /\ up' = up \ {b}
  /\ UNCHANGED <<things, process, work>>

StreamNames == {"INTENTS", "TASKS", "EXECUTIONS"}

(* The streams are gone, with the messages and consumers in them.  The     *)
(* clients connect again, but nobody who runs looks for them.              *)
NatsRestart ==
  /\ "nats" \in up
  /\ Fault("natsRestart")
  /\ up' = up \ {"nats"}
  /\ made' = made \ StreamNames
  /\ lost' = lost \cup (made \cap StreamNames)
  /\ deaf' = {p \in Proc : Running(p) /\ Kind[p] \in DOMAIN Source}
  /\ stage' = [i \in Intent |-> IF stage[i] \in {"event", "task", "result"} THEN "cut" ELSE stage[i]]
  /\ UNCHANGED <<deployed, pc, tries, stopped, busy>>

Recover(b) ==
  /\ b \in deployed \ up
  /\ up' = up \cup {b}
  /\ UNCHANGED <<things, process, work, faults>>

-----------------------------------------------------------------------------
(* The way of an intent *)

Move(i, from, to) ==
  /\ stage[i] = from
  /\ stage' = [stage EXCEPT ![i] = to]
  /\ UNCHANGED <<up, things, process, faults>>

Pass(i, from, to) == Move(i, from, to) /\ UNCHANGED busy

(* POST /intents: the row and its outbox event are committed. *)
Submit(i) ==
  /\ Pass(i, "none", "row")
  /\ Served("intentService") /\ "postgres" \in up


OutboxRuns ==
  \E p \in Proc, k \in 1 .. Len(IntentServiceMain) :
    Kind[p] = "intentService" /\ Main(p)[k] = "outbox" /\ k < pc[p]

PublishIntent(i) ==
  /\ Pass(i, "row", "event")
  /\ OutboxRuns /\ {"postgres", "nats"} \subseteq up /\ "INTENTS" \in made

Schedule(i) ==
  /\ Pass(i, "event", "task")
  /\ Served("scheduler") /\ {"postgres", "nats"} \subseteq up /\ "TASKS" \in made

(* A worker of p claims the intent (EXECUTING). *)
Claim(p, i) ==
  /\ Kind[p] = "executionEngine" /\ Serving(p) /\ p \notin deaf
  /\ {"postgres", "nats"} \subseteq up
  /\ Move(i, "task", "claimed")
  /\ busy' = busy \cup {<<p, i>>}

(* The final status.  If it cannot be written, the task is delivered again *)
(* and skipped: the intent stays EXECUTING.                                *)
Finish(p, i) ==
  /\ <<p, i>> \in busy
  /\ \/ "postgres" \in up /\ Pass(i, "claimed", "final")
     \/ "postgres" \notin up /\ Move(i, "claimed", "cut") /\ busy' = busy \ {<<p, i>>}

(* The engine creates no stream: without EXECUTIONS the result is not      *)
(* announced, which is only logged; so is an error of NATS.                *)
Announce(p, i) ==
  /\ <<p, i>> \in busy
  /\ \/ "nats" \in up /\ "EXECUTIONS" \in made /\ Move(i, "final", "result")
     \/ "nats" \in up /\ "EXECUTIONS" \notin made /\ Move(i, "final", "unannounced")
     \/ "nats" \notin up /\ Move(i, "final", "cut")
  /\ busy' = busy \ {<<p, i>>}

Record(i) ==
  /\ Pass(i, "result", "block")
  /\ Served("validator") /\ {"postgres", "nats"} \subseteq up

MainStep(p) ==
  /\ p \in deployed /\ ~Running(p)
  /\ \/ ConnectPostgres(p) \/ Connect(p) \/ Migrate(p) \/ AddStream(p)
     \/ QueueSubscribe(p) \/ LocalStep(p)

Execute(p, i) == Claim(p, i) \/ Finish(p, i) \/ Announce(p, i)

Work(i) ==
  PublishIntent(i) \/ Schedule(i) \/ (\E p \in Proc : Execute(p, i)) \/ Record(i)

LCNext ==
  \/ \E p \in Proc :
       \/ MainStep(p)
       \/ Sigterm(p) \/ Terminate(p)
  \/ \E b \in Backend : Outage(b) \/ Recover(b)
  \/ NatsRestart
  \/ \E i \in Intent : Submit(i) \/ Work(i)

(* Containers are restarted, backends come back, and the broker and the    *)
(* outbox deliver while the services are there.                            *)
LCFairness ==
  /\ \A p \in Proc : WF_vars(MainStep(p) \/ Terminate(p))
  /\ WF_vars(\E b \in Backend : Recover(b))
  /\ \A i \in Intent : WF_vars(Work(i))

LCSpec == LCInit /\ [][LCNext]_vars /\ LCFairness

-----------------------------------------------------------------------------
(* Properties *)

(* What a service works on when it runs *)
Needs ==
  [ intentService   |-> {"intents", "INTENTS"},
    scheduler       |-> {"intents", "INTENTS", "TASKS"},
    executionEngine |-> {"TASKS"},
    validator       |-> {"EXECUTIONS"},
    wallet          |-> {"wallet_accounts"},
    gateway         |-> {} ]

(* A service that runs has its tables and streams, also those another      *)
(* service creates, unless they went with NATS: the scheduler, the engine  *)
(* and the validator run no migration.  The scheduler waits for stream     *)
(* INTENTS, which is younger than table intents; the engine and the        *)
(* validator may run before the table is there, but not have an intent to  *)
(* execute or to record.  That the engine finds EXECUTIONS is not said.    *)
ServingMeansProvisioned ==
  /\ \A p \in Proc : Running(p) => Needs[Kind[p]] \subseteq made \cup lost
  /\ \A i \in Intent : stage[i] \in {"task", "claimed", "final", "result"} => "intents" \in made

(* In whatever order the containers are started, whatever exits, is        *)
(* stopped or goes away in between: in the end every service serves.  Only *)
(* the scheduler and the engine, who do not create the stream they         *)
(* subscribe to, are restarted for ever when it went with NATS and the     *)
(* service that creates it goes on.                                        *)
EveryServiceComesUp ==
  <>[](\A p \in Proc \cap deployed :
         \/ Serving(p)
         \/ Kind[p] \in {"scheduler", "executionEngine"} /\ Source[Kind[p]] \in lost)


=============================================================================
