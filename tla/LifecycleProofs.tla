-------------------------- MODULE LifecycleProofs ---------------------------
(***************************************************************************)
(* Proofs about Lifecycle, for any number of processes of each service,    *)
(* any deployment and any faults: a service that runs finds the tables and *)
(* streams it works on, but for streams that went with NATS.               *)
(***************************************************************************)
EXTENDS Lifecycle, TLAPS

(* With these tables and streams a step of main has had its effect. *)
Behind(known, p, step) ==
  /\ step = "migrate" => Table[Kind[p]] \in known
  /\ step = "stream" => Stream[Kind[p]] \in known
  /\ step = "subscribe" => Source[Kind[p]] \in known

(* The tables and streams that exist, or existed before NATS was restarted *)
Known == made \cup lost

(* An intent that was submitted, or is being executed *)
Begun(i) == stage[i] # "none" \/ \E p \in Proc : <<p, i>> \in busy

(* The steps a process has taken have had their effect, tables are there   *)
(* for good, and stream INTENTS is younger than table intents, as is every *)
(* intent.                                                                 *)
MadeInv ==
  /\ pc \in [Proc -> Nat \ {0}]
  /\ lost \subseteq StreamNames
  /\ \A p \in Proc : \A n \in DOMAIN Main(p) : n < pc[p] => Behind(Known, p, Main(p)[n])
  /\ "INTENTS" \in Known => "intents" \in made
  /\ \A i \in Intent : Begun(i) => "intents" \in made

-----------------------------------------------------------------------------
(* The main of each service, step by step *)

LEMMA MainSteps ==
  ASSUME NEW p \in Proc
  PROVE  /\ Kind[p] \in Service
         /\ Kind[p] = "intentService" =>
              /\ Len(Main(p)) = 6 /\ DOMAIN Main(p) = 1 .. 6
              /\ Main(p)[1] = "postgres" /\ Main(p)[2] = "migrate" /\ Main(p)[3] = "nats"
              /\ Main(p)[4] = "stream" /\ Main(p)[5] = "outbox" /\ Main(p)[6] = "listen"
         /\ Kind[p] = "scheduler" =>
              /\ Len(Main(p)) = 4 /\ DOMAIN Main(p) = 1 .. 4
              /\ Main(p)[1] = "postgres" /\ Main(p)[2] = "nats"
              /\ Main(p)[3] = "stream" /\ Main(p)[4] = "subscribe"
         /\ Kind[p] = "executionEngine" =>
              /\ Len(Main(p)) = 4 /\ DOMAIN Main(p) = 1 .. 4
              /\ Main(p)[1] = "postgres" /\ Main(p)[2] = "nats"
              /\ Main(p)[3] = "dial" /\ Main(p)[4] = "subscribe"
         /\ Kind[p] = "validator" =>
              /\ Len(Main(p)) = 5 /\ DOMAIN Main(p) = 1 .. 5
              /\ Main(p)[1] = "verify" /\ Main(p)[2] = "postgres" /\ Main(p)[3] = "nats"
              /\ Main(p)[4] = "stream" /\ Main(p)[5] = "subscribe"
         /\ Kind[p] = "wallet" =>
              /\ Len(Main(p)) = 3 /\ DOMAIN Main(p) = 1 .. 3
              /\ Main(p)[1] = "postgres" /\ Main(p)[2] = "migrate" /\ Main(p)[3] = "listen"
         /\ Kind[p] = "gateway" =>
              /\ Len(Main(p)) = 3 /\ DOMAIN Main(p) = 1 .. 3
              /\ Main(p)[1] = "redis" /\ Main(p)[2] = "dial" /\ Main(p)[3] = "listen"
<1>1. Kind[p] \in Service
  BY LifecycleAssumption
<1>2. CASE Kind[p] = "intentService"
  BY <1>1, <1>2 DEF Main, MainOf, IntentServiceMain, Service
<1>3. CASE Kind[p] = "scheduler"
  BY <1>1, <1>3 DEF Main, MainOf, SchedulerMain, Service
<1>4. CASE Kind[p] = "executionEngine"
  BY <1>1, <1>4 DEF Main, MainOf, ExecutionEngineMain, Service
<1>5. CASE Kind[p] = "validator"
  BY <1>1, <1>5 DEF Main, MainOf, ValidatorMain, Service
<1>6. CASE Kind[p] = "wallet"
  BY <1>1, <1>6 DEF Main, MainOf, WalletMain, Service
<1>7. CASE Kind[p] = "gateway"
  BY <1>1, <1>7 DEF Main, MainOf, GatewayMain, Service
<1> QED
  BY <1>1, <1>2, <1>3, <1>4, <1>5, <1>6, <1>7 DEF Service

(* What is made by whom, and looked for by whom *)
LEMMA Makers ==
  /\ Table["intentService"] = "intents" /\ Table["wallet"] = "wallet_accounts"
  /\ Stream["intentService"] = "INTENTS" /\ Stream["scheduler"] = "TASKS"
  /\ Stream["validator"] = "EXECUTIONS"
  /\ Source["scheduler"] = "INTENTS" /\ Source["executionEngine"] = "TASKS"
  /\ Source["validator"] = "EXECUTIONS"
BY DEF Table, Stream, Source

-----------------------------------------------------------------------------
(* A service that serves is provisioned. *)

(* Nothing is unmade, and a process that moves on has had the effect of    *)
(* the step it leaves.                                                     *)
LEMMA MovesOn ==
  ASSUME MadeInv,
         Known \subseteq Known', lost' \subseteq StreamNames,
         "intents" \in made => "intents" \in made',
         "INTENTS" \in Known' => "intents" \in made',
         \A i \in Intent : Begun(i)' => "intents" \in made',
         pc' \in [Proc -> Nat \ {0}],
         \A q \in Proc :
           \/ pc'[q] <= pc[q]
           \/ pc[q] \in DOMAIN Main(q) /\ pc'[q] = pc[q] + 1 /\ Behind(Known', q, Main(q)[pc[q]])
  PROVE  MadeInv'
<1>1. ASSUME NEW q \in Proc, NEW n \in DOMAIN Main(q), n < pc'[q]
      PROVE  Behind(Known', q, Main(q)[n])
  <2>1. n \in Nat /\ pc[q] \in Nat /\ pc'[q] \in Nat
    BY MainSteps DEF MadeInv, Service
  <2>2. CASE n < pc[q]
    <3>1. Behind(Known, q, Main(q)[n])
      BY <2>2 DEF MadeInv
    <3> QED
      BY <3>1 DEF Behind
  <2>3. CASE ~(n < pc[q])
    <3>1. n = pc[q] /\ Behind(Known', q, Main(q)[pc[q]])
      BY <1>1, <2>1, <2>3
    <3> QED
      BY <3>1
  <2> QED
    BY <2>2, <2>3
<1> QED
  BY <1>1 DEF MadeInv

(* The tables and streams a process in the middle of main has made *)
LEMMA MadeSoFar ==
  ASSUME MadeInv, NEW p \in Proc, Kind[p] = "intentService", pc[p] > 2
  PROVE  "intents" \in made
<1>1. 2 \in DOMAIN Main(p) /\ Main(p)[2] = "migrate"
  BY MainSteps
<1>2. Behind(Known, p, "migrate")
  BY <1>1 DEF MadeInv
<1>3. "intents" \in Known
  BY <1>2, Makers DEF Behind
<1> QED
  BY <1>3 DEF Known, MadeInv, StreamNames

LEMMA MadeIsInductive ==
  ASSUME MadeInv, [LCNext]_vars
  PROVE  MadeInv'
<1> USE DEF things, process, work
<1>1. CASE UNCHANGED <<pc, things, work>>
  BY <1>1 DEF MadeInv, Known, Behind, Begun
<1>2. ASSUME NEW p \in Proc, Exit(p), UNCHANGED things,
             \A i \in Intent : Begun(i)' => Begun(i)
      PROVE  MadeInv'
  <2>1. pc' \in [Proc -> Nat \ {0}] /\ \A q \in Proc : pc'[q] <= pc[q]
    BY <1>2 DEF MadeInv, Exit
  <2>2. Known' = Known
    BY <1>2 DEF Known
  <2> QED
    BY <1>2, <2>1, <2>2, MovesOn DEF MadeInv
<1>3. ASSUME NEW p \in Proc, pc[p] \in DOMAIN Main(p), Advance(p), UNCHANGED work,
             Known \subseteq Known', lost' \subseteq lost, made \subseteq made',
             Behind(Known', p, Main(p)[pc[p]]),
             "INTENTS" \in Known' => "intents" \in made'
      PROVE  MadeInv'
  <2>1. pc' \in [Proc -> Nat \ {0}] /\ pc'[p] = pc[p] + 1
        /\ \A q \in Proc : q # p => pc'[q] <= pc[q]
    BY <1>3 DEF MadeInv, Advance
  <2>2. lost' \subseteq StreamNames /\ \A i \in Intent : Begun(i)' => "intents" \in made'
    BY <1>3 DEF MadeInv, Begun
  <2> QED
    BY <1>3, <2>1, <2>2, MovesOn
(* Steps that make nothing *)
<1>4. ASSUME NEW p \in Proc, NEW step, At(p, step), Advance(p), UNCHANGED <<things, work>>,
             step \notin {"migrate", "stream"},
             step = "subscribe" => Source[Kind[p]] \in made
      PROVE  MadeInv'
  <2>1. Known' = Known
    BY <1>4 DEF Known
  <2>2. Behind(Known', p, Main(p)[pc[p]])
    BY <1>4, <2>1 DEF Behind, At, Known
  <2> QED
    BY <1>3, <1>4, <2>1, <2>2 DEF At, MadeInv
<1>5. ASSUME NEW p \in Proc, MainStep(p)
      PROVE  MadeInv'
  <2>0. UNCHANGED work
    BY <1>5 DEF MainStep, ConnectPostgres, Connect, Migrate, AddStream, QueueSubscribe, LocalStep
  <2>0a. ASSUME Exit(p), UNCHANGED things
        PROVE  MadeInv'
    <3>1. \A i \in Intent : Begun(i)' => Begun(i)
      BY <2>0 DEF Begun
    <3> QED
      BY <1>2, <2>0a, <3>1
  <2>1. CASE ConnectPostgres(p)
    BY <1>1, <1>4, <2>0a, <2>0, <2>1 DEF ConnectPostgres
  <2>2. CASE Connect(p)
    BY <2>0a, <1>4, <2>0, <2>2 DEF Connect
  <2>3. CASE Migrate(p)
    <3>1. CASE made' = made \cup {Table[Kind[p]]} /\ Advance(p)
      <4>1. At(p, "migrate") /\ lost' = lost
        BY <2>3 DEF Migrate
      <4>2. Kind[p] \in {"intentService", "wallet"}
        BY <4>1, MainSteps DEF At, Service
      <4>3. Behind(Known', p, Main(p)[pc[p]])
        BY <3>1, <4>1 DEF Behind, At, Known
      <4>4. "INTENTS" \in Known' => "intents" \in made'
        BY <3>1, <4>1, <4>2, Makers DEF MadeInv, Known
      <4>5. Known \subseteq Known'
        BY <3>1, <4>1 DEF Known
      <4> QED
        BY <1>3, <2>0, <3>1, <4>1, <4>3, <4>4, <4>5 DEF At
    <3> QED
      BY <2>0a, <2>0, <2>3, <3>1 DEF Migrate
  <2>4. CASE AddStream(p)
    <3>1. CASE made' = made \cup {Stream[Kind[p]]} /\ lost' = lost \ {Stream[Kind[p]]} /\ Advance(p)
      <4>1. At(p, "stream")
        BY <2>4 DEF AddStream
      <4>2. Kind[p] \in {"intentService", "scheduler", "validator"}
        BY <4>1, MainSteps DEF At, Service
      <4>3. Known' = Known \cup {Stream[Kind[p]]}
        BY <3>1 DEF Known
      <4>4. Behind(Known', p, Main(p)[pc[p]])
        BY <4>1, <4>3 DEF Behind, At
      (* The intent service has its table before it gets here. *)
      <4>5. Kind[p] = "intentService" => "intents" \in made
        BY <4>1, MainSteps, MadeSoFar DEF At
      <4>6. "INTENTS" \in Known' => "intents" \in made'
        BY <3>1, <4>2, <4>3, <4>5, Makers DEF MadeInv
      <4> QED
        BY <1>3, <2>0, <3>1, <4>1, <4>3, <4>4, <4>6 DEF At
    <3> QED
      BY <2>0a, <2>0, <2>4, <3>1 DEF AddStream
  <2>5. CASE QueueSubscribe(p)
    BY <2>0a, <1>4, <2>0, <2>5 DEF QueueSubscribe
  <2>6. CASE LocalStep(p)
    BY <2>0a, <1>4, <2>0, <2>6 DEF LocalStep
  <2> QED
    BY <1>5, <2>1, <2>2, <2>3, <2>4, <2>5, <2>6 DEF MainStep
<1>6. ASSUME NEW p \in Proc, Sigterm(p)
      PROVE  MadeInv'
  <2>1. CASE Running(p)
    BY <1>1, <1>6, <2>1 DEF Sigterm
  <2>2. CASE ~Running(p)
    <3>1. Exit(p) /\ UNCHANGED things /\ \A i \in Intent : Begun(i)' => Begun(i)
      BY <1>6, <2>2 DEF Sigterm, work, Begun
    <3> QED
      BY <1>2, <3>1
  <2> QED
    BY <2>1, <2>2
<1>7. ASSUME NEW p \in Proc, Terminate(p)
      PROVE  MadeInv'
  <2>1. \A i \in Intent : Begun(i)' => Begun(i)
    BY <1>7 DEF Terminate, Begun
  <2> QED
    BY <1>2, <1>7, <2>1 DEF Terminate
<1>8. ASSUME NEW b \in Backend, Outage(b) \/ Recover(b)
      PROVE  MadeInv'
  BY <1>1, <1>8 DEF Outage, Recover
(* The streams are not made any more, but still known. *)
<1>9. CASE NatsRestart
  <2>1. /\ Known' = Known /\ lost' \subseteq StreamNames
        /\ "intents" \in made => "intents" \in made'
        /\ UNCHANGED pc
    BY <1>9 DEF NatsRestart, Known, MadeInv, StreamNames
  <2>2. \A i \in Intent : Begun(i)' => Begun(i)
    BY <1>9 DEF NatsRestart, Begun
  <2>3. \A q \in Proc : pc'[q] <= pc[q]
    BY <2>1 DEF MadeInv
  <2> QED
    BY <2>1, <2>2, <2>3, MovesOn DEF MadeInv
<1>10. ASSUME NEW i \in Intent, Submit(i)
       PROVE  MadeInv'
  <2>1. "intents" \in made
    <3>1. PICK p \in Proc : Kind[p] = "intentService" /\ Running(p)
      BY <1>10 DEF Submit, Served, Serving
    <3>2. pc[p] > 2
      BY <3>1, MainSteps DEF Running, MadeInv
    <3> QED
      BY <3>1, <3>2, MadeSoFar
  <2>2. UNCHANGED <<pc, things>>
    BY <1>10 DEF Submit, Pass, Move
  <2> QED
    BY <2>1, <2>2 DEF MadeInv, Known, Behind
(* An intent that is worked on has been submitted. *)
<1>11. ASSUME NEW i \in Intent, Work(i)
       PROVE  MadeInv'
  <2>1. PICK from \in {"row", "event", "task", "claimed", "final", "result"} :
          \E to : Move(i, from, to)
    BY <1>11 DEF Work, Execute, PublishIntent, Schedule, Claim, Finish, Announce, Record, Pass
  <2>2. "intents" \in made /\ UNCHANGED <<pc, things>>
    BY <2>1 DEF Move, MadeInv, Begun
  <2> QED
    BY <2>2 DEF MadeInv, Known, Behind
<1> QED
  BY <1>1, <1>5, <1>6, <1>7, <1>8, <1>9, <1>10, <1>11 DEF LCNext, vars

(* ServingMeansProvisioned: also the tables and streams another service    *)
(* creates are there when a service runs.  The scheduler runs no migration *)
(* and finds table intents because the stream it subscribes to is created  *)
(* after it; the engine and the validator find it when they have something *)
(* to execute or to record.                                                *)
THEOREM Provisioned == LCSpec => []ServingMeansProvisioned
<1>1. LCInit => MadeInv
  BY MainSteps DEF LCInit, MadeInv, Service, Known, Begun
<1>2. MadeInv => ServingMeansProvisioned
  <2>1. SUFFICES ASSUME MadeInv, NEW p \in Proc, Running(p)
                 PROVE  Needs[Kind[p]] \subseteq Known
    BY DEF ServingMeansProvisioned, MadeInv, Known, Begun
  <2>2. \A n \in DOMAIN Main(p) : Behind(Known, p, Main(p)[n])
    BY <2>1, MainSteps DEF MadeInv, Running, Service
  <2>3. CASE Kind[p] = "intentService"
    <3>1. Behind(Known, p, "migrate") /\ Behind(Known, p, "stream")
      BY <2>2, <2>3, MainSteps
    <3> QED
      BY <2>3, <3>1, Makers DEF Behind, Needs, Service
  <2>4. CASE Kind[p] = "scheduler"
    <3>1. Behind(Known, p, "stream") /\ Behind(Known, p, "subscribe")
      BY <2>2, <2>4, MainSteps
    <3> QED
      BY <2>1, <2>4, <3>1, Makers DEF Behind, Needs, Service, MadeInv, Known
  <2>5. CASE Kind[p] = "executionEngine"
    <3>1. Behind(Known, p, "subscribe")
      BY <2>2, <2>5, MainSteps
    <3> QED
      BY <2>5, <3>1, Makers DEF Behind, Needs, Service
  <2>6. CASE Kind[p] = "validator"
    <3>1. Behind(Known, p, "stream")
      BY <2>2, <2>6, MainSteps
    <3> QED
      BY <2>6, <3>1, Makers DEF Behind, Needs, Service
  <2>7. CASE Kind[p] = "wallet"
    <3>1. Behind(Known, p, "migrate")
      BY <2>2, <2>7, MainSteps
    <3> QED
      BY <2>7, <3>1, Makers DEF Behind, Needs, Service
  <2>8. CASE Kind[p] = "gateway"
    BY <2>8 DEF Needs, Service
  <2> QED
    BY <2>3, <2>4, <2>5, <2>6, <2>7, <2>8, MainSteps DEF Service
<1> QED
  BY <1>1, <1>2, MadeIsInductive, PTL DEF LCSpec

=============================================================================
