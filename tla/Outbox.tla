------------------------------- MODULE Outbox -------------------------------
(***************************************************************************)
(* The transactional outbox of the Intent Service: CreateIntent stores an  *)
(* event with its intent, and the outbox workers of the replicas claim     *)
(* events in batches, publish them to INTENTS and delete them.             *)
(***************************************************************************)
EXTENDS Naturals, FiniteSets

CONSTANTS
  NumEvents,    \* how many events are stored, in a behaviour
  Worker,       \* outbox workers, one per replica
  BatchSize,    \* LIMIT of the claim
  MaxRetries,   \* maxRetries
  Faults,       \* classes of faults that may happen
  MaxFaults     \* bound: how many faults happen in a behaviour

(* Events are numbered by created_at, which is not the order in which      *)
(* their transactions commit.                                              *)
Event == 1 .. NumEvents

ASSUME OutboxAssumption ==
  /\ NumEvents \in Nat
  /\ BatchSize \in Nat \ {0}
  /\ MaxRetries \in Nat \ {0}
  /\ Faults \subseteq {"nats", "db", "crash", "slow"}
  /\ MaxFaults \in Nat

VARIABLES
  status,     \* outbox_events.status; "none" before, "deleted" after the row
  retry,      \* outbox_events.retry_count
  stuck,      \* rows PROCESSING whose updated_at is over a minute ago
  batch,      \* events a worker claimed and has not dealt with: id and RetryCount
  opc,        \* what the worker does next with the first of them
  published,  \* events that are in the stream INTENTS
  failures,   \* how many publishes of an event returned an error
  overtaken,  \* events whose claim was over a minute old while it was worked on
  faults      \* faults so far

vars == <<status, retry, stuck, batch, opc, published, failures, overtaken, faults>>

OInit ==
  /\ status = [e \in Event |-> "none"]
  /\ retry = [e \in Event |-> 0]
  /\ stuck = {}
  /\ batch = [w \in Worker |-> {}]
  /\ opc = [w \in Worker |-> "poll"]
  /\ published = {}
  /\ failures = [e \in Event |-> 0]
  /\ overtaken = {}
  /\ faults = 0

Fault(f) ==
  /\ f \in Faults
  /\ faults < MaxFaults
  /\ faults' = faults + 1

NoFault == UNCHANGED faults

Holds(w, e) == \E ev \in batch[w] : ev.id = e

(* The batch is worked on in the order of the SELECT. *)
First(w) == CHOOSE ev \in batch[w] : \A other \in batch[w] : ev.id <= other.id

-----------------------------------------------------------------------------
(* CreateIntent: the intent and its event are committed together. *)
CreateIntent(e) ==
  /\ status[e] = "none"
  /\ status' = [status EXCEPT ![e] = "PENDING"]
  /\ UNCHANGED <<retry, stuck, batch, opc, published, failures, overtaken, faults>>

(* Mutant: a claimed event can be claimed at once by another worker. *)
ClaimableAlways == {e \in Event : status[e] \in {"PENDING", "PROCESSING"}}

Claimable == {e \in Event : status[e] = "PENDING"} \cup stuck

(* ORDER BY created_at LIMIT batchSize *)
Oldest(S, n) == {e \in S : Cardinality({d \in S : d < e}) < n}

Claimed(S) ==
  /\ status' = [e \in Event |-> IF e \in S THEN "PROCESSING" ELSE status[e]]
  /\ stuck' = stuck \ S

(* The claim transaction: SELECT ... FOR UPDATE SKIP LOCKED, UPDATE and    *)
(* COMMIT.  Its row locks keep every other worker away until the commit,   *)
(* so it is one step.  When the commit fails, applied or not, the batch is *)
(* forgotten.                                                              *)
ClaimBatch(w) ==
  /\ opc[w] = "poll"
  /\ Claimable # {}
  /\ LET S == Oldest(Claimable, BatchSize)
     IN \/ /\ Claimed(S)
           /\ batch' = [batch EXCEPT ![w] =
                          {[id |-> e, retries |-> retry[e]] : e \in S}]
           /\ opc' = [opc EXCEPT ![w] = "publish"]
           /\ NoFault
        \/ /\ Claimed(S)
           /\ Fault("db")
           /\ UNCHANGED <<batch, opc>>
  /\ UNCHANGED <<retry, published, failures, overtaken>>

PublishEvent(w) ==
  /\ opc[w] = "publish"
  /\ LET e == First(w).id
     IN \/ /\ published' = published \cup {e}
           /\ opc' = [opc EXCEPT ![w] = "delete"]
           /\ UNCHANGED <<failures, faults>>
        \/ /\ published' \in {published, published \cup {e}}
           /\ opc' = [opc EXCEPT ![w] = "failed"]
           /\ failures' = [failures EXCEPT ![e] = @ + 1]
           /\ Fault("nats")
  /\ UNCHANGED <<status, retry, stuck, batch, overtaken>>

(* The worker turns to the next event of its batch, or polls again. *)
NextEvent(w) ==
  /\ batch' = [batch EXCEPT ![w] = @ \ {First(w)}]
  /\ opc' = [opc EXCEPT ![w] = IF batch[w] = {First(w)} THEN "poll" ELSE "publish"]

(* Mutant: the row is deleted whatever PublishMsg returned. *)
RecordFailureByDelete(w) ==
  /\ opc[w] = "failed"
  /\ status' = [status EXCEPT ![First(w).id] = "deleted"]
  /\ stuck' = stuck \ {First(w).id}
  /\ NextEvent(w)
  /\ UNCHANGED <<retry, published, failures, overtaken, faults>>

(* Mutant: the new count is compared instead of the one the claim read. *)
AfterFailureEarly(ev) == IF ev.retries + 1 >= MaxRetries THEN "FAILED" ELSE "PENDING"

AfterFailure(ev) == IF ev.retries >= MaxRetries THEN "FAILED" ELSE "PENDING"

(* updateEventStatus, which finds no row when another worker deleted it;   *)
(* an error is only logged and leaves the row PROCESSING.                  *)
RecordFailure(w) ==
  /\ opc[w] = "failed"
  /\ LET ev == First(w)
     IN \/ /\ status[ev.id] # "deleted"
           /\ status' = [status EXCEPT ![ev.id] = AfterFailure(ev)]
           /\ retry' = [retry EXCEPT ![ev.id] = ev.retries + 1]
           /\ stuck' = stuck \ {ev.id}
           /\ NoFault
        \/ /\ status[ev.id] = "deleted"
           /\ UNCHANGED <<status, retry, stuck, faults>>
        \/ /\ Fault("db")
           /\ UNCHANGED <<status, retry, stuck>>
  /\ NextEvent(w)
  /\ UNCHANGED <<published, failures, overtaken>>

(* deleteEvent; an error is only logged *)
DeleteEvent(w) ==
  /\ opc[w] = "delete"
  /\ LET e == First(w).id
     IN \/ /\ status' = [status EXCEPT ![e] = "deleted"]
           /\ stuck' = stuck \ {e}
           /\ NoFault
        \/ /\ Fault("db")
           /\ UNCHANGED <<status, stuck>>
  /\ NextEvent(w)
  /\ UNCHANGED <<retry, published, failures, overtaken>>

(* The replica is killed. *)
Crash(w) ==
  /\ opc[w] # "poll"
  /\ Fault("crash")
  /\ batch' = [batch EXCEPT ![w] = {}]
  /\ opc' = [opc EXCEPT ![w] = "poll"]
  /\ UNCHANGED <<status, retry, stuck, published, failures, overtaken>>

(* Mutant: events stuck in PROCESSING are never picked up again. *)
MinutePassesUnnoticed(e) ==
  /\ status[e] = "PROCESSING"
  /\ e \notin stuck
  /\ UNCHANGED vars

(* A minute passes over a claim whose worker is gone, or is still busy:    *)
(* its publishes share 20 s, but each of its up to 50 writes may take 5 s. *)
MinutePasses(e) ==
  /\ status[e] = "PROCESSING"
  /\ e \notin stuck
  /\ stuck' = stuck \cup {e}
  /\ \/ /\ \E w \in Worker : Holds(w, e)
        /\ Fault("slow")
        /\ overtaken' = overtaken \cup {e}
     \/ /\ \A w \in Worker : ~Holds(w, e)
        /\ NoFault
        /\ UNCHANGED overtaken
  /\ UNCHANGED <<status, retry, batch, opc, published, failures>>

Work(w) == ClaimBatch(w) \/ PublishEvent(w) \/ RecordFailure(w) \/ DeleteEvent(w)

ONext ==
  \/ \E e \in Event : CreateIntent(e) \/ MinutePasses(e)
  \/ \E w \in Worker : Work(w) \/ Crash(w)

OSpec == OInit /\ [][ONext]_vars

(* A worker loops until it is stopped, every call it makes has a timeout,  *)
(* and time passes.                                                        *)
FairOSpec ==
  /\ OSpec
  /\ \A w \in Worker : WF_vars(Work(w))
  /\ \A e \in Event : WF_vars(MinutePasses(e))

-----------------------------------------------------------------------------
(* Properties *)

(* No event is lost: a row only goes away when its event is in INTENTS,    *)
(* although a slow worker may delete the claim of another one.             *)
NoEventLost == \A e \in Event : status[e] = "deleted" => e \in published

(* FAILED is only given up after MaxRetries + 1 publishes returned an      *)
(* error, although workers write back the count they read at their claim.  *)
FailedMeansExhausted == \A e \in Event : status[e] = "FAILED" => failures[e] > MaxRetries

(* An event whose claims never took a minute is with one worker at a time, *)
(* and only while it is PROCESSING: the claim by SKIP LOCKED and its commit *)
(* exclude every other replica.                                            *)
ExclusiveClaim ==
  \A e \in Event \ overtaken : \A v, w \in Worker :
    Holds(v, e) => /\ Holds(w, e) => v = w
                   /\ status[e] = "PROCESSING"

(* Every stored event is published or, after its retries, FAILED. *)
EveryEventSettles ==
  \A e \in Event : status[e] = "PENDING" ~> e \in published \/ status[e] = "FAILED"

=============================================================================
