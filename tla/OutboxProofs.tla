---------------------------- MODULE OutboxProofs ----------------------------
(***************************************************************************)
(* The safety properties of Outbox, for any number of events, workers,     *)
(* batch size and retries, and any faults.                                 *)
(***************************************************************************)
EXTENDS Outbox, FiniteSetTheorems, WellFoundedInduction, TLAPS

LEMMA LeastElement ==
  ASSUME NEW T, T \subseteq Nat, T # {}
  PROVE  \E x \in T : \A y \in T : x <= y
<1>1. PICK x \in T : \A y \in T : ~(<<y, x>> \in OpToRel(<, Nat))
  BY NatLessThanWellFounded, WFMin, Zenon
<1>2. \A y \in T : ~(y < x)
  BY <1>1 DEF OpToRel
<1>. QED  BY <1>2


-----------------------------------------------------------------------------
(* Types *)

EventStatus == {"none", "PENDING", "PROCESSING", "FAILED", "deleted"}

OTypeOK ==
  /\ status \in [Event -> EventStatus]
  /\ retry \in [Event -> Nat]
  /\ stuck \subseteq Event
  /\ batch \in [Worker -> SUBSET [id : Event, retries : Nat]]
  /\ opc \in [Worker -> {"poll", "publish", "failed", "delete"}]
  /\ published \subseteq Event
  /\ failures \in [Event -> Nat]
  /\ \A w \in Worker : opc[w] # "poll" => batch[w] # {}

(* A batch that is not empty has a first event. *)
LEMMA FirstInBatch ==
  ASSUME OTypeOK, NEW w \in Worker, opc[w] # "poll"
  PROVE  First(w) \in batch[w] /\ First(w).id \in Event /\ First(w).retries \in Nat
<1>1. batch[w] \subseteq [id : Event, retries : Nat] /\ batch[w] # {}
  BY DEF OTypeOK
<1>. DEFINE T == {ev.id : ev \in batch[w]}
<1>2. T \subseteq Nat /\ T # {}
  BY <1>1, OutboxAssumption DEF Event
<1>3. PICK x \in T : \A y \in T : x <= y
  BY <1>2, LeastElement
<1>4. \E ev \in batch[w] : \A other \in batch[w] : ev.id <= other.id
  BY <1>3
<1>5. First(w) \in batch[w]
  BY <1>4 DEF First
<1>. QED  BY <1>1, <1>5

(* A claim takes at least one row when there is one. *)
LEMMA OldestExists ==
  ASSUME NEW S, S \subseteq Event, S # {}
  PROVE  Oldest(S, BatchSize) # {} /\ Oldest(S, BatchSize) \subseteq S
<1>1. S \subseteq Nat
  BY OutboxAssumption DEF Event
<1>2. PICK x \in S : \A y \in S : x <= y
  BY <1>1, LeastElement
<1>. DEFINE D == {d \in S : d < x}
<1>a. \A d \in S : ~(d < x)
  BY <1>1, <1>2
<1>3. D = {}
  BY <1>a, Zenon
<1>. HIDE DEF D
<1>4. Cardinality(D) = 0
  BY <1>3, FS_EmptySet
<1>5. Cardinality(D) < BatchSize
  BY <1>4, OutboxAssumption
<1>6. x \in Oldest(S, BatchSize)
  BY <1>2, <1>5, Zenon DEF D, Oldest
<1>7. Oldest(S, BatchSize) \subseteq S
  BY Zenon DEF Oldest
<1>. QED  BY <1>6, <1>7

LEMMA ClaimedRows ==
  ASSUME OTypeOK, Claimable # {}
  PROVE  /\ Oldest(Claimable, BatchSize) \subseteq Claimable
         /\ Oldest(Claimable, BatchSize) \subseteq Event
         /\ Oldest(Claimable, BatchSize) # {}
<1>1. Claimable \subseteq Event
  BY DEF Claimable, OTypeOK
<1>. QED  BY <1>1, OldestExists

(* What the end of the work on an event leaves of the batch *)
LEMMA NextEventFacts ==
  ASSUME OTypeOK, NEW w \in Worker, opc[w] # "poll", NextEvent(w)
  PROVE  /\ batch' \in [Worker -> SUBSET [id : Event, retries : Nat]]
         /\ batch'[w] = batch[w] \ {First(w)}
         /\ opc' \in [Worker -> {"poll", "publish", "failed", "delete"}]
         /\ opc'[w] \in {"poll", "publish"}
         /\ opc'[w] # "poll" => batch'[w] # {}
         /\ \A v \in Worker \ {w} : batch'[v] = batch[v] /\ opc'[v] = opc[v]
<1>1. First(w) \in batch[w]
  BY FirstInBatch
<1>. QED  BY <1>1 DEF NextEvent, OTypeOK

LEMMA OTypeInit == OInit => OTypeOK
  BY DEF OInit, OTypeOK, EventStatus

LEMMA OTypeStep == OTypeOK /\ [ONext]_vars => OTypeOK'
<1>1. ASSUME OTypeOK, UNCHANGED vars PROVE OTypeOK'
  BY <1>1 DEF OTypeOK, vars
<1>2. ASSUME OTypeOK, NEW e \in Event, CreateIntent(e) \/ MinutePasses(e) PROVE OTypeOK'
  BY <1>2 DEF OTypeOK, CreateIntent, MinutePasses, EventStatus
<1>3. ASSUME OTypeOK, NEW w \in Worker, ClaimBatch(w) PROVE OTypeOK'
  <2>. DEFINE S == Oldest(Claimable, BatchSize)
  <2>1. S \subseteq Event /\ S # {}
    BY <1>3, ClaimedRows DEF ClaimBatch
  <2>. DEFINE B == {[id |-> e, retries |-> retry[e]] : e \in S}
  <2>2. B \subseteq [id : Event, retries : Nat] /\ B # {}
    <3>. HIDE DEF S
    <3>1. \A e \in S : e \in Event /\ retry[e] \in Nat
      BY <1>3, <2>1 DEF OTypeOK
    <3>2. B # {}
      BY <2>1
    <3>3. ASSUME NEW ev \in B PROVE ev \in [id : Event, retries : Nat]
      <4>1. PICK e \in S : ev = [id |-> e, retries |-> retry[e]]
        BY Zenon
      <4>. QED  BY <3>1, <4>1
    <3>. QED  BY <3>2, <3>3
  <2>3. /\ status' = [e \in Event |-> IF e \in S THEN "PROCESSING" ELSE status[e]]
        /\ stuck' = stuck \ S
        /\ UNCHANGED <<retry, published, failures>>
    BY <1>3 DEF ClaimBatch, Claimed
  <2>4. \/ batch' = [batch EXCEPT ![w] = B] /\ opc' = [opc EXCEPT ![w] = "publish"]
        \/ UNCHANGED <<batch, opc>>
    BY <1>3 DEF ClaimBatch
  <2>. HIDE DEF S, B
  <2>. QED  BY <1>3, <2>1, <2>2, <2>3, <2>4 DEF OTypeOK, EventStatus
<1>4. ASSUME OTypeOK, NEW w \in Worker, PublishEvent(w) PROVE OTypeOK'
  <2>1. First(w).id \in Event
    BY <1>4, FirstInBatch DEF PublishEvent
  <2>. QED  BY <1>4, <2>1 DEF OTypeOK, PublishEvent
<1>5. ASSUME OTypeOK, NEW w \in Worker, RecordFailure(w) \/ DeleteEvent(w) PROVE OTypeOK'
  <2>1. First(w).id \in Event /\ First(w).retries \in Nat
    BY <1>5, FirstInBatch DEF RecordFailure, DeleteEvent
  <2>2. /\ batch' \in [Worker -> SUBSET [id : Event, retries : Nat]]
        /\ opc' \in [Worker -> {"poll", "publish", "failed", "delete"}]
        /\ opc'[w] # "poll" => batch'[w] # {}
        /\ \A v \in Worker \ {w} : batch'[v] = batch[v] /\ opc'[v] = opc[v]
    BY <1>5, NextEventFacts DEF RecordFailure, DeleteEvent
  <2>3. \A v \in Worker : opc'[v] # "poll" => batch'[v] # {}
    BY <1>5, <2>2 DEF OTypeOK
  <2>4. /\ status' \in [Event -> EventStatus] /\ retry' \in [Event -> Nat] /\ stuck' \subseteq Event
        /\ UNCHANGED <<published, failures>>
    BY <1>5, <2>1 DEF OTypeOK, EventStatus, RecordFailure, DeleteEvent, AfterFailure
  <2>. QED  BY <1>5, <2>2, <2>3, <2>4 DEF OTypeOK
<1>6. ASSUME OTypeOK, NEW w \in Worker, Crash(w) PROVE OTypeOK'
  BY <1>6 DEF OTypeOK, Crash
<1>. QED  BY <1>1, <1>2, <1>3, <1>4, <1>5, <1>6 DEF ONext, Work

-----------------------------------------------------------------------------
(* No event is lost *)

(* Who is about to delete an event has published it. *)
DeletesPublished == \A w \in Worker : opc[w] = "delete" => First(w).id \in published

LostInv == OTypeOK /\ DeletesPublished /\ NoEventLost

(* The first event of a worker whose batch stays is the same. *)
LEMMA FirstKept ==
  ASSUME NEW w \in Worker, batch'[w] = batch[w]
  PROVE  First(w)' = First(w)
  BY DEF First

LEMMA LostStep == LostInv /\ [ONext]_vars => LostInv'
<1>. SUFFICES ASSUME LostInv, [ONext]_vars PROVE LostInv'
  OBVIOUS
<1>1. OTypeOK /\ OTypeOK'
  BY OTypeStep DEF LostInv
<1>2. CASE UNCHANGED vars
  BY <1>1, <1>2, FirstKept DEF vars, LostInv, DeletesPublished, NoEventLost
<1>3. ASSUME NEW e \in Event, CreateIntent(e) \/ MinutePasses(e) PROVE LostInv'
  <2>1. UNCHANGED <<batch, opc, published>>
    BY <1>3 DEF CreateIntent, MinutePasses
  <2>2. NoEventLost'
    BY <1>1, <1>3 DEF CreateIntent, MinutePasses, NoEventLost, LostInv, OTypeOK
  <2>. QED  BY <1>1, <2>1, <2>2, FirstKept DEF LostInv, DeletesPublished
<1>4. ASSUME NEW w \in Worker, ClaimBatch(w) PROVE LostInv'
  <2>1. /\ \A v \in Worker \ {w} : batch'[v] = batch[v] /\ opc'[v] = opc[v]
        /\ opc'[w] # "delete" /\ published' = published
    BY <1>1, <1>4 DEF ClaimBatch, OTypeOK
  <2>2. \A e \in Event : status'[e] \in {status[e], "PROCESSING"}
    BY <1>4 DEF ClaimBatch, Claimed
  <2>3. DeletesPublished'
    BY <2>1, FirstKept DEF LostInv, DeletesPublished
  <2>4. NoEventLost'
    BY <2>1, <2>2 DEF LostInv, NoEventLost
  <2>. QED  BY <1>1, <2>3, <2>4 DEF LostInv
<1>5. ASSUME NEW w \in Worker, PublishEvent(w) PROVE LostInv'
  <2>1. /\ batch' = batch /\ status' = status /\ published \subseteq published'
        /\ \A v \in Worker \ {w} : opc'[v] = opc[v]
        /\ opc'[w] = "delete" => First(w).id \in published'
    BY <1>1, <1>5 DEF PublishEvent, OTypeOK
  <2>2. \A v \in Worker : First(v)' = First(v)
    BY <2>1, FirstKept
  <2>3. DeletesPublished'
    BY <2>1, <2>2 DEF LostInv, DeletesPublished
  <2>. QED  BY <1>1, <2>1, <2>3 DEF LostInv, NoEventLost
<1>6. ASSUME NEW w \in Worker, RecordFailure(w) \/ DeleteEvent(w) PROVE LostInv'
  <2>0. opc[w] # "poll" /\ NextEvent(w) /\ published' = published
    BY <1>6 DEF RecordFailure, DeleteEvent
  <2>1. /\ opc'[w] \in {"poll", "publish"}
        /\ \A v \in Worker \ {w} : batch'[v] = batch[v] /\ opc'[v] = opc[v]
    BY <1>1, <2>0, NextEventFacts
  <2>2. DeletesPublished'
    BY <2>0, <2>1, FirstKept DEF LostInv, DeletesPublished
  <2>3. First(w).id \in Event
    BY <1>1, <2>0, FirstInBatch
  <2>4. \A e \in Event : status'[e] = "deleted" => status[e] = "deleted" \/ e \in published
    BY <1>1, <1>6, <2>3 DEF RecordFailure, DeleteEvent, AfterFailure, LostInv, DeletesPublished, OTypeOK
  <2>5. NoEventLost'
    BY <2>0, <2>4 DEF LostInv, NoEventLost
  <2>. QED  BY <1>1, <2>2, <2>5 DEF LostInv
<1>7. ASSUME NEW w \in Worker, Crash(w) PROVE LostInv'
  <2>1. /\ \A v \in Worker \ {w} : batch'[v] = batch[v] /\ opc'[v] = opc[v]
        /\ opc'[w] = "poll" /\ published' = published /\ status' = status
    BY <1>1, <1>7 DEF Crash, OTypeOK
  <2>2. DeletesPublished'
    BY <2>1, FirstKept DEF LostInv, DeletesPublished
  <2>. QED  BY <1>1, <2>1, <2>2 DEF LostInv, NoEventLost
<1>. QED  BY <1>2, <1>3, <1>4, <1>5, <1>6, <1>7 DEF ONext, Work

(* No event is lost: a row only goes away when its event is in INTENTS,    *)
(* whatever fails and however many workers share the table.                *)
THEOREM EventsAreKept == OSpec => []NoEventLost
<1>1. OInit => LostInv
  BY OTypeInit DEF OInit, LostInv, DeletesPublished, NoEventLost
<1>2. LostInv => NoEventLost
  BY DEF LostInv
<1>. QED  BY <1>1, <1>2, LostStep, PTL DEF OSpec


-----------------------------------------------------------------------------
(* No event is given up early *)

(* Every retry count, in the table or in the hands of a worker, is at most *)
(* the number of failed publishes; after one it is less.                   *)
RetriesCounted ==
  /\ \A e \in Event : retry[e] <= failures[e]
  /\ \A w \in Worker : \A ev \in batch[w] : ev.retries <= failures[ev.id]
  /\ \A w \in Worker : opc[w] = "failed" => First(w).retries < failures[First(w).id]

FailInv == OTypeOK /\ RetriesCounted /\ FailedMeansExhausted

LEMMA FailStep == FailInv /\ [ONext]_vars => FailInv'
<1>. SUFFICES ASSUME FailInv, [ONext]_vars PROVE FailInv'
  OBVIOUS
<1>1. OTypeOK /\ OTypeOK' /\ RetriesCounted /\ FailedMeansExhausted
  BY OTypeStep DEF FailInv
<1>2. CASE UNCHANGED vars
  BY <1>1, <1>2, FirstKept DEF vars, FailInv, RetriesCounted, FailedMeansExhausted
<1>3. ASSUME NEW e \in Event, CreateIntent(e) \/ MinutePasses(e) PROVE FailInv'
  <2>1. UNCHANGED <<batch, opc, failures, retry>>
    BY <1>3 DEF CreateIntent, MinutePasses
  <2>2. FailedMeansExhausted'
    BY <1>1, <1>3 DEF CreateIntent, MinutePasses, FailedMeansExhausted, OTypeOK
  <2>. QED  BY <1>1, <2>1, <2>2, FirstKept DEF FailInv, RetriesCounted
<1>4. ASSUME NEW w \in Worker, ClaimBatch(w) PROVE FailInv'
  <2>1. /\ \A v \in Worker \ {w} : batch'[v] = batch[v] /\ opc'[v] = opc[v]
        /\ opc'[w] # "failed" /\ failures' = failures /\ retry' = retry
    BY <1>1, <1>4 DEF ClaimBatch, OTypeOK
  <2>2. \A e \in Event : status'[e] \in {status[e], "PROCESSING"}
    BY <1>4 DEF ClaimBatch, Claimed
  <2>3. ASSUME NEW ev \in batch'[w] PROVE ev.retries <= failures[ev.id]
    <3>1. CASE ev \in batch[w]
      BY <1>1, <3>1 DEF RetriesCounted
    <3>2. CASE ev \notin batch[w]
      <4>1. batch' = [batch EXCEPT ![w] = {[id |-> e, retries |-> retry[e]] : e \in Oldest(Claimable, BatchSize)}]
        BY <1>4, <2>3, <3>2 DEF ClaimBatch
      <4>2. PICK e \in Oldest(Claimable, BatchSize) : ev = [id |-> e, retries |-> retry[e]]
        BY <1>1, <2>3, <4>1 DEF OTypeOK
      <4>3. e \in Event
        BY <1>1, <1>4, ClaimedRows DEF ClaimBatch
      <4>. QED  BY <1>1, <4>2, <4>3 DEF RetriesCounted
    <3>. QED  BY <3>1, <3>2
  <2>4. RetriesCounted'
    BY <1>1, <2>1, <2>3, FirstKept DEF RetriesCounted
  <2>5. FailedMeansExhausted'
    BY <1>1, <2>1, <2>2 DEF FailedMeansExhausted
  <2>. QED  BY <1>1, <2>4, <2>5 DEF FailInv
<1>5. ASSUME NEW w \in Worker, PublishEvent(w) PROVE FailInv'
  <2>0. First(w) \in batch[w] /\ First(w).id \in Event /\ First(w).retries \in Nat
    BY <1>1, <1>5, FirstInBatch DEF PublishEvent
  <2>1. /\ batch' = batch /\ status' = status /\ retry' = retry
        /\ \A v \in Worker \ {w} : opc'[v] = opc[v]
        /\ \A e \in Event : failures[e] <= failures'[e]
        /\ opc'[w] = "failed" => failures'[First(w).id] = failures[First(w).id] + 1
    BY <1>1, <1>5, <2>0 DEF PublishEvent, OTypeOK
  <2>2. \A v \in Worker : First(v)' = First(v)
    BY <2>1, FirstKept
  <2>3. \A e \in Event : failures[e] \in Nat /\ failures'[e] \in Nat /\ retry[e] \in Nat
    BY <1>1 DEF OTypeOK
  <2>4. \A v \in Worker : \A ev \in batch[v] : ev.id \in Event /\ ev.retries \in Nat
    BY <1>1 DEF OTypeOK
  <2>5. \A e \in Event : retry'[e] <= failures'[e]
    BY <1>1, <2>1, <2>3 DEF RetriesCounted
  <2>6. \A v \in Worker : \A ev \in batch'[v] : ev.retries <= failures'[ev.id]
    BY <1>1, <2>1, <2>3, <2>4 DEF RetriesCounted
  <2>7. ASSUME NEW v \in Worker, opc'[v] = "failed" PROVE First(v).retries < failures'[First(v).id]
    <3>1. CASE v = w
      BY <1>1, <2>0, <2>1, <2>3, <2>7, <3>1 DEF RetriesCounted
    <3>2. CASE v # w
      <4>1. opc[v] = "failed" /\ First(v) \in batch[v]
        BY <1>1, <2>1, <2>7, <3>2, FirstInBatch
      <4>. QED  BY <1>1, <2>1, <2>3, <2>4, <4>1 DEF RetriesCounted
    <3>. QED  BY <3>1, <3>2
  <2>8. RetriesCounted'
    BY <2>2, <2>5, <2>6, <2>7 DEF RetriesCounted
  <2>9. FailedMeansExhausted'
    BY <1>1, <2>1, <2>3, OutboxAssumption DEF FailedMeansExhausted
  <2>. QED  BY <1>1, <2>8, <2>9 DEF FailInv
<1>6. ASSUME NEW w \in Worker, RecordFailure(w) \/ DeleteEvent(w) PROVE FailInv'
  <2>0. opc[w] # "poll" /\ NextEvent(w) /\ failures' = failures
    BY <1>6 DEF RecordFailure, DeleteEvent
  <2>1. /\ opc'[w] \in {"poll", "publish"} /\ batch'[w] \subseteq batch[w]
        /\ \A v \in Worker \ {w} : batch'[v] = batch[v] /\ opc'[v] = opc[v]
    BY <1>1, <2>0, NextEventFacts
  <2>2. First(w).id \in Event /\ First(w).retries \in Nat
    BY <1>1, <2>0, FirstInBatch
  <2>3. opc[w] = "failed" => First(w).retries < failures[First(w).id]
    BY <1>1 DEF RetriesCounted
  <2>4. \A e \in Event : failures[e] \in Nat /\ retry[e] \in Nat
    BY <1>1 DEF OTypeOK
  <2>5. \A e \in Event : retry'[e] <= failures'[e]
    BY <1>1, <1>6, <2>0, <2>2, <2>3, <2>4 DEF RecordFailure, DeleteEvent, RetriesCounted, OTypeOK
  <2>6. RetriesCounted'
    BY <1>1, <2>0, <2>1, <2>5, FirstKept DEF RetriesCounted
  <2>7. \A e \in Event : status'[e] = "FAILED" => status[e] = "FAILED" \/ failures[e] > MaxRetries
    BY <1>1, <1>6, <2>2, <2>3, <2>4, OutboxAssumption DEF RecordFailure, DeleteEvent, AfterFailure, OTypeOK
  <2>8. FailedMeansExhausted'
    BY <1>1, <2>0, <2>7 DEF FailedMeansExhausted
  <2>. QED  BY <1>1, <2>6, <2>8 DEF FailInv
<1>7. ASSUME NEW w \in Worker, Crash(w) PROVE FailInv'
  <2>1. /\ \A v \in Worker \ {w} : batch'[v] = batch[v] /\ opc'[v] = opc[v]
        /\ opc'[w] = "poll" /\ batch'[w] = {} /\ UNCHANGED <<failures, retry, status>>
    BY <1>1, <1>7 DEF Crash, OTypeOK
  <2>2. RetriesCounted'
    BY <1>1, <2>1, FirstKept DEF RetriesCounted
  <2>. QED  BY <1>1, <2>1, <2>2 DEF FailInv, FailedMeansExhausted
<1>. QED  BY <1>2, <1>3, <1>4, <1>5, <1>6, <1>7 DEF ONext, Work

(* FAILED means MaxRetries + 1 failed publishes, although every worker     *)
(* writes back a count it read at its claim.                               *)
THEOREM GivenUpLast == OSpec => []FailedMeansExhausted
<1>1. OInit => FailInv
  BY OTypeInit DEF OInit, FailInv, RetriesCounted, FailedMeansExhausted
<1>2. FailInv => FailedMeansExhausted
  BY DEF FailInv
<1>. QED  BY <1>1, <1>2, FailStep, PTL DEF OSpec

-----------------------------------------------------------------------------
(* A claim is exclusive *)

(* A batch holds an event once. *)
EventsOnce == \A w \in Worker : \A x, y \in batch[w] : x.id = y.id => x = y

(* A claim that is not a minute old is not claimable. *)
FreshClaim == \A e \in Event \ overtaken : \A w \in Worker : Holds(w, e) => e \notin stuck

ClaimInv == OTypeOK /\ EventsOnce /\ FreshClaim /\ ExclusiveClaim

(* Events leave a batch when a worker turns to the next one. *)
LEMMA NextEventHolds ==
  ASSUME OTypeOK, EventsOnce, NEW w \in Worker, opc[w] # "poll", NextEvent(w)
  PROVE  /\ EventsOnce'
         /\ \A v \in Worker : \A e \in Event : Holds(v, e)' => Holds(v, e)
         /\ \A ev \in batch'[w] : ev.id # First(w).id
         /\ Holds(w, First(w).id)
<1>1. /\ batch'[w] = batch[w] \ {First(w)}
      /\ \A v \in Worker \ {w} : batch'[v] = batch[v]
      /\ First(w) \in batch[w]
  BY NextEventFacts, FirstInBatch
<1>2. \A v \in Worker : batch'[v] \subseteq batch[v]
  BY <1>1
<1>. QED  BY <1>1, <1>2 DEF EventsOnce, Holds

LEMMA ClaimStep == ClaimInv /\ [ONext]_vars => ClaimInv'
<1>. SUFFICES ASSUME ClaimInv, [ONext]_vars PROVE ClaimInv'
  OBVIOUS
<1>1. OTypeOK /\ OTypeOK' /\ EventsOnce /\ FreshClaim /\ ExclusiveClaim
  BY OTypeStep DEF ClaimInv
<1>a. \A e \in Event \ overtaken : \A v, w \in Worker :
        Holds(v, e) => (Holds(w, e) => v = w) /\ status[e] = "PROCESSING" /\ e \notin stuck
  BY <1>1 DEF ExclusiveClaim, FreshClaim
<1>b. ASSUME EventsOnce',
             \A e \in Event \ overtaken' : \A v, w \in Worker :
               Holds(v, e)' => (Holds(w, e)' => v = w) /\ status'[e] = "PROCESSING" /\ e \notin stuck'
      PROVE  ClaimInv'
  <2>1. FreshClaim'
    BY <1>b DEF FreshClaim, Holds
  <2>2. ExclusiveClaim'
    BY <1>b DEF ExclusiveClaim, Holds
  <2>. QED  BY <1>1, <1>b, <2>1, <2>2 DEF ClaimInv
<1>2. CASE UNCHANGED vars
  BY <1>1, <1>2, <1>a, <1>b DEF vars, EventsOnce, Holds
<1>3. ASSUME NEW e \in Event, CreateIntent(e) PROVE ClaimInv'
  <2>1. /\ UNCHANGED <<batch, overtaken, stuck>> /\ status[e] = "none"
        /\ \A d \in Event \ {e} : status'[d] = status[d]
    BY <1>1, <1>3 DEF CreateIntent, OTypeOK
  <2>2. EventsOnce' /\ \A v \in Worker : \A d \in Event : Holds(v, d)' <=> Holds(v, d)
    BY <1>1, <2>1 DEF EventsOnce, Holds
  <2>. QED  BY <1>a, <1>b, <2>1, <2>2
<1>4. ASSUME NEW e \in Event, MinutePasses(e) PROVE ClaimInv'
  <2>1. /\ batch' = batch /\ status' = status /\ stuck' = stuck \cup {e} /\ overtaken \subseteq overtaken'
        /\ (e \in overtaken' \/ \A w \in Worker : ~Holds(w, e))
    BY <1>4 DEF MinutePasses
  <2>2. EventsOnce' /\ \A v \in Worker : \A d \in Event : Holds(v, d)' <=> Holds(v, d)
    BY <1>1, <2>1 DEF EventsOnce, Holds
  <2>. QED  BY <1>a, <1>b, <2>1, <2>2
<1>5. ASSUME NEW w \in Worker, ClaimBatch(w) PROVE ClaimInv'
  <2>. DEFINE S == Oldest(Claimable, BatchSize)
  <2>. DEFINE B == {[id |-> e, retries |-> retry[e]] : e \in S}
  <2>1. S \subseteq Claimable /\ S \subseteq Event
    BY <1>1, <1>5, ClaimedRows DEF ClaimBatch
  <2>2. /\ status' = [e \in Event |-> IF e \in S THEN "PROCESSING" ELSE status[e]]
        /\ stuck' = stuck \ S /\ overtaken' = overtaken
        /\ batch' = [batch EXCEPT ![w] = B] \/ batch' = batch
    BY <1>5 DEF ClaimBatch, Claimed
  <2>3. \A x, y \in B : x.id = y.id => x = y
    OBVIOUS
  <2>4. \A x \in B : x.id \in S
    OBVIOUS
  <2>. HIDE DEF B
  <2>5. EventsOnce'
    BY <1>1, <2>2, <2>3 DEF EventsOnce, OTypeOK
  <2>6. ASSUME NEW e \in Event \ overtaken, e \in S, NEW v \in Worker PROVE ~Holds(v, e)
    BY <1>a, <2>1, <2>6 DEF Claimable
  <2>7. ASSUME NEW e \in Event, NEW v \in Worker, Holds(v, e)' PROVE Holds(v, e) \/ (v = w /\ e \in S)
    BY <1>1, <2>2, <2>4, <2>7 DEF Holds, OTypeOK
  <2>. HIDE DEF S
  <2>8. ASSUME NEW e \in Event \ overtaken', NEW u \in Worker, NEW v \in Worker, Holds(u, e)'
        PROVE  (Holds(v, e)' => u = v) /\ status'[e] = "PROCESSING" /\ e \notin stuck'
    <3>1. CASE e \in S
      BY <2>2, <2>6, <2>7, <2>8, <3>1
    <3>2. CASE e \notin S
      <4>1. Holds(u, e) /\ (Holds(v, e)' => Holds(v, e))
        BY <2>7, <2>8, <3>2
      <4>. QED  BY <1>a, <2>2, <3>2, <4>1
    <3>. QED  BY <3>1, <3>2
  <2>. QED  BY <1>b, <2>5, <2>8
<1>6. ASSUME NEW w \in Worker, PublishEvent(w) PROVE ClaimInv'
  <2>1. UNCHANGED <<batch, overtaken, stuck, status>>
    BY <1>6 DEF PublishEvent
  <2>2. EventsOnce' /\ \A v \in Worker : \A d \in Event : Holds(v, d)' <=> Holds(v, d)
    BY <1>1, <2>1 DEF EventsOnce, Holds
  <2>. QED  BY <1>a, <1>b, <2>1, <2>2
<1>7. ASSUME NEW w \in Worker, RecordFailure(w) \/ DeleteEvent(w) PROVE ClaimInv'
  <2>1. opc[w] # "poll" /\ NextEvent(w) /\ overtaken' = overtaken /\ stuck' \subseteq stuck
    BY <1>7 DEF RecordFailure, DeleteEvent
  <2>2. /\ EventsOnce'
        /\ \A v \in Worker : \A e \in Event : Holds(v, e)' => Holds(v, e)
        /\ \A ev \in batch'[w] : ev.id # First(w).id
        /\ Holds(w, First(w).id)
    BY <1>1, <2>1, NextEventHolds
  <2>3. First(w).id \in Event
    BY <1>1, <2>1, FirstInBatch
  <2>4. \A e \in Event : e # First(w).id => status'[e] = status[e]
    BY <1>1, <1>7, <2>3 DEF RecordFailure, DeleteEvent, OTypeOK
  <2>5. ASSUME NEW e \in Event \ overtaken', NEW u \in Worker, NEW v \in Worker, Holds(u, e)'
        PROVE  (Holds(v, e)' => u = v) /\ status'[e] = "PROCESSING" /\ e \notin stuck'
    <3>1. e # First(w).id
      <4>1. Holds(w, e)' => e # First(w).id
        BY <2>2 DEF Holds
      <4>. QED  BY <1>a, <2>1, <2>2, <2>5, <4>1
    <3>. QED  BY <1>a, <2>1, <2>2, <2>4, <2>5, <3>1
  <2>. QED  BY <1>b, <2>2, <2>5
<1>8. ASSUME NEW w \in Worker, Crash(w) PROVE ClaimInv'
  <2>1. /\ UNCHANGED <<overtaken, stuck, status>>
        /\ \A v \in Worker : batch'[v] \subseteq batch[v]
    BY <1>1, <1>8 DEF Crash, OTypeOK
  <2>2. EventsOnce' /\ \A v \in Worker : \A d \in Event : Holds(v, d)' => Holds(v, d)
    BY <1>1, <2>1 DEF EventsOnce, Holds
  <2>. QED  BY <1>a, <1>b, <2>1, <2>2
<1>. QED  BY <1>2, <1>3, <1>4, <1>5, <1>6, <1>7, <1>8 DEF ONext, Work

(* The claim by SKIP LOCKED excludes every other replica, for any number   *)
(* of them, as long as no claim is a minute old while it is worked on.     *)
THEOREM ClaimsExclude == OSpec => []ExclusiveClaim
<1>1. OInit => ClaimInv
  BY OTypeInit DEF OInit, ClaimInv, EventsOnce, FreshClaim, ExclusiveClaim, Holds
<1>2. ClaimInv => ExclusiveClaim
  BY DEF ClaimInv
<1>. QED  BY <1>1, <1>2, ClaimStep, PTL DEF OSpec

=============================================================================
