------------------------------ MODULE Gateway -------------------------------
(***************************************************************************)
(* The API gateway: the login, the token every other request needs, POST   *)
(* /intents with the rate limiter and the idempotency cache, both in       *)
(* Redis, around the call of the Intent Service, and GET /intents/{id}.    *)
(* Handlers of concurrent requests interleave between the calls they make; *)
(* they may be in several gateway processes.                               *)
(***************************************************************************)
EXTENDS Naturals, Sequences, FiniteSets

CONSTANTS
  Handler,      \* requests served at the same time
  Client,       \* client addresses
  Signature,    \* signatures of requests
  Type,         \* the names in field "type" of requests
  TypeOf,       \* the one each signature signs
  None,         \* no request
  Limit,        \* requests of a client per minute
  MaxMinute,    \* bound: minutes of the clock
  MaxRequests,  \* bound: requests in a behaviour
  MaxDays,      \* bound: how often a cached response gets 24 hours old
  Faults,       \* classes of faults that may happen
  MaxFaults     \* bound: how many faults happen in a behaviour

ASSUME GatewayAssumption ==
  /\ IsFiniteSet(Handler)
  /\ TypeOf \in [Signature -> Type]
  /\ Limit \in Nat \ {0}
  /\ MaxMinute \in Nat /\ MaxRequests \in Nat /\ MaxDays \in Nat /\ MaxFaults \in Nat
  /\ Faults \subseteq {"redis",   \* a command fails, applied or not
                       "grpc",    \* a call fails, applied or not
                       "cancel"}  \* the client is gone, or the gateway

Minute == 0 .. MaxMinute
Key    == Client \X Minute

VARIABLES
  minute,    \* time.Now().Unix() / 60
  counter,   \* Redis: the keys "rate:<client>:<minute>"; 0 for no key
  expiring,  \* Redis: those of them with an expiry
  cache,     \* Redis: "idempotency:<signature>", the id in the response; 0 for none
  intents,   \* table intents: signature and type; the position is the id
  session,   \* the token each client holds: "valid" or, if too old or missing, "none"
  hpc,       \* next call of a handler
  hreq,      \* its request: minuteKey, Signature, Type and, once known, IntentId
  reply,     \* its last response, None if the connection was cut
  admitted,  \* history: requests the limiter let through, by minuteKey
  open,      \* history: how many of them because Redis failed
  requests,  \* requests so far
  days,      \* cached responses that expired so far
  faults     \* faults so far

redis    == <<counter, expiring, cache>>
handlers == <<hpc, hreq, reply>>
history  == <<admitted, open, requests, days>>
vars     == <<minute, redis, intents, session, handlers, history, faults>>

HandlerPC == {"idle", "incr", "expire", "lookup", "submit", "store"}

GInit ==
  /\ minute = 0
  /\ counter = [k \in Key |-> 0]
  /\ expiring = {}
  /\ cache = [s \in Signature |-> 0]
  /\ intents = <<>>
  /\ session = [c \in Client |-> "none"]
  /\ hpc = [h \in Handler |-> "idle"]
  /\ hreq = [h \in Handler |-> None]
  /\ reply = [h \in Handler |-> None]
  /\ admitted = [k \in Key |-> 0]
  /\ open = [k \in Key |-> 0]
  /\ requests = 0
  /\ days = 0
  /\ faults = 0

Fault(f) ==
  /\ f \in Faults
  /\ faults < MaxFaults
  /\ faults' = faults + 1

NoFault == UNCHANGED faults

Goto(h, l) == hpc' = [hpc EXCEPT ![h] = l] /\ UNCHANGED <<hreq, reply>>

(* The handler returns, with response r. *)
Done(h, r) ==
  /\ hpc' = [hpc EXCEPT ![h] = "idle"]
  /\ hreq' = [hreq EXCEPT ![h] = None]
  /\ reply' = [reply EXCEPT ![h] = r]

(* The response for intent id of signature s: to a POST, after the call of *)
(* the Intent Service ("post") or from the cache ("cache"), or to a GET.   *)
(* The type is the one posted, or told to a GET.                           *)
Told(via, s, id, type) ==
  [via |-> via, code |-> IF via = "post" THEN 201 ELSE 200, sig |-> s, id |-> id, type |-> type]

(* An error response, of which the class is kept: 400 or 500 *)
Error(code) == [code |-> 100 * (code \div 100)]

(* The HTTP status for the code of a gRPC error *)
HTTPCode ==
  [ InvalidArgument |-> 400, NotFound |-> 404, DeadlineExceeded |-> 504,
    Unavailable |-> 503, Unauthenticated |-> 401, PermissionDenied |-> 403,
    Internal |-> 500 ]

(* What a call may fail with, whatever the Intent Service made of it *)
CallError == {"DeadlineExceeded", "Unavailable", "Internal"}

-----------------------------------------------------------------------------
(* The type of an intent is a name in the request, a number in the call, a *)
(* longer name in the table and a number again in what is read back.       *)

ParseIntentType(name) ==
  CASE name = "TRANSFER"  -> 1
    [] name = "COMPUTE"   -> 2
    [] name = "QUERY"     -> 3
    [] name = "SCHEDULED" -> 4
    [] OTHER              -> 0

(* IntentType.String() *)
IntentTypeName ==
  <<"INTENT_TYPE_TRANSFER", "INTENT_TYPE_COMPUTE", "INTENT_TYPE_QUERY", "INTENT_TYPE_SCHEDULED">>

(* parseIntentType of the Postgres store *)
ParseStoredType(name) ==
  CASE name = "INTENT_TYPE_TRANSFER"  -> 1
    [] name = "INTENT_TYPE_COMPUTE"   -> 2
    [] name = "INTENT_TYPE_QUERY"     -> 3
    [] name = "INTENT_TYPE_SCHEDULED" -> 4
    [] OTHER                          -> 0

-----------------------------------------------------------------------------
(* The limiter takes the minute from the clock before it asks Redis. *)
MinuteKey(c) == <<c, minute>>

(* POST /api/login with the right password: a token for 24 hours *)
Login(c) ==
  /\ session' = [session EXCEPT ![c] = "valid"]
  /\ UNCHANGED <<minute, redis, intents, handlers, history, faults>>

TokenExpires(c) ==
  /\ session[c] = "valid"
  /\ session' = [session EXCEPT ![c] = "none"]
  /\ UNCHANGED <<minute, redis, intents, handlers, history, faults>>

(* A handler free for one more request *)
Accept(h) ==
  /\ hpc[h] = "idle"
  /\ requests < MaxRequests
  /\ requests' = requests + 1

(* No token, or one that is too old: 401, before anything else is done *)
Unauthorized(h, c) ==
  /\ Accept(h)
  /\ session[c] # "valid"
  /\ Done(h, Error(401))
  /\ UNCHANGED <<minute, redis, intents, session, admitted, open, days, faults>>

(* POST /intents, with a signature s and a type t, which need not go        *)
(* together.  The type stands for all the signature covers, payload and    *)
(* submitter included.                                                     *)
Arrive(h, c, s, t) ==
  /\ Accept(h)
  /\ session[c] = "valid"
  /\ hpc' = [hpc EXCEPT ![h] = "incr"]
  /\ hreq' = [hreq EXCEPT ![h] = [key |-> MinuteKey(c), sig |-> s, type |-> ParseIntentType(t), id |-> 0]]
  /\ reply' = [reply EXCEPT ![h] = None]
  /\ UNCHANGED <<minute, redis, intents, session, admitted, open, days, faults>>

(* GET /intents/{id}: one row, its type parsed.  The Intent Service says   *)
(* NotFound for every error of the store.                                  *)
GetIntent(h, c, id) ==
  /\ Accept(h)
  /\ session[c] = "valid"
  /\ id \in DOMAIN intents
  /\ \/ Done(h, Told("get", intents[id].sig, id, ParseStoredType(intents[id].type))) /\ NoFault
     \/ \E e \in CallError \cup {"NotFound"} : Done(h, Error(HTTPCode[e])) /\ Fault("grpc")
  /\ UNCHANGED <<minute, redis, intents, session, admitted, open, days>>

Admit(h) == admitted' = [admitted EXCEPT ![hreq[h].key] = @ + 1]

(* Mutant: the limit is compared with the count before the increment. *)
WithinLimitBefore(n) == n - 1 <= Limit

WithinLimit(n) == n <= Limit

(* INCR.  If it fails, the request is let through ("Fail open"). *)
Increment(h) ==
  /\ hpc[h] = "incr"
  /\ LET n == counter[hreq[h].key] + 1
         incremented == [counter EXCEPT ![hreq[h].key] = n]
     IN \/ /\ counter' = incremented
           /\ IF WithinLimit(n) THEN Admit(h) /\ Goto(h, IF n = 1 THEN "expire" ELSE "lookup")
                                ELSE UNCHANGED admitted /\ Done(h, Error(429))
           /\ UNCHANGED open
           /\ NoFault
        \/ /\ counter' \in {counter, incremented}
           /\ Admit(h)
           /\ open' = [open EXCEPT ![hreq[h].key] = @ + 1]
           /\ Goto(h, "lookup")
           /\ Fault("redis")
  /\ UNCHANGED <<minute, expiring, cache, intents, session, requests, days>>

(* Mutant: the expiry of a new key is never set. *)
SetExpiryNever(h) ==
  /\ hpc[h] = "expire"
  /\ Goto(h, "lookup")
  /\ UNCHANGED <<minute, redis, intents, session, history, faults>>

(* EXPIRE, whose result is not looked at *)
SetExpiry(h) ==
  /\ hpc[h] = "expire"
  /\ \/ /\ expiring' = expiring \cup {k \in {hreq[h].key} : counter[k] > 0}
        /\ NoFault
     \/ Fault("redis") /\ UNCHANGED expiring
  /\ Goto(h, "lookup")
  /\ UNCHANGED <<minute, counter, cache, intents, session, history>>

(* A type that is not known, or a body that does not parse: 400 *)
BadRequest(h) ==
  /\ hpc[h] = "lookup"
  /\ Done(h, Error(400))
  /\ UNCHANGED <<minute, redis, intents, session, history, faults>>

(* The idempotency filter, which goes by the signature alone, before it is *)
(* verified; an error of Redis counts as a miss.                           *)
LookUp(h) ==
  /\ hpc[h] = "lookup"
  /\ hreq[h].type # 0
  /\ \/ /\ cache[hreq[h].sig] # 0
        /\ Done(h, Told("cache", hreq[h].sig, cache[hreq[h].sig], 0))
        /\ NoFault
     \/ cache[hreq[h].sig] = 0 /\ Goto(h, "submit") /\ NoFault
     \/ Goto(h, "submit") /\ Fault("redis")
  /\ UNCHANGED <<minute, redis, intents, session, history>>

(* store.Create, with Type.String() *)
Stored(h) ==
  Append(intents, [sig |-> hreq[h].sig, type |-> IntentTypeName[hreq[h].type]])

(* Mutant: the signature is not verified. *)
VerifiedUnchecked(h) == TRUE

(* crypto.Verify of the type, the submitter and the payload *)
Verified(h) == hreq[h].type = ParseIntentType(TypeOf[hreq[h].sig])

(* SubmitIntent.  A call that fails, for instance on its timeout of 5 s,   *)
(* may have stored the intent.                                             *)
Submit(h) ==
  /\ hpc[h] = "submit"
  /\ \/ /\ Verified(h)
        /\ intents' = Stored(h)
        /\ hreq' = [hreq EXCEPT ![h].id = Len(intents) + 1]
        /\ hpc' = [hpc EXCEPT ![h] = "store"]
        /\ UNCHANGED reply
        /\ NoFault
     \/ /\ UNCHANGED intents \/ (Verified(h) /\ intents' = Stored(h))
        /\ \E e \in CallError : Done(h, Error(HTTPCode[e]))
        /\ Fault("grpc")
  /\ UNCHANGED <<minute, redis, session, history>>

(* The Intent Service refuses the request: a field is missing, or the      *)
(* signature is not that of the payload.                                   *)
Refused(h) ==
  /\ hpc[h] = "submit"
  /\ \E e \in {"InvalidArgument", "Unauthenticated"} : Done(h, Error(HTTPCode[e]))
  /\ UNCHANGED <<minute, redis, intents, session, history, faults>>

Created(h) == Done(h, Told("post", hreq[h].sig, hreq[h].id, hreq[h].type))

(* Mutant: the response is not cached. *)
StoreResponseNever(h) ==
  /\ hpc[h] = "store"
  /\ Created(h)
  /\ UNCHANGED <<minute, redis, intents, session, history, faults>>

(* SET, whose result is not looked at, and the response 201 *)
StoreResponse(h) ==
  /\ hpc[h] = "store"
  /\ \/ cache' = [cache EXCEPT ![hreq[h].sig] = hreq[h].id] /\ NoFault
     \/ Fault("redis") /\ UNCHANGED cache
  /\ Created(h)
  /\ UNCHANGED <<minute, counter, expiring, intents, session, history>>

(* The context of the request ends: the client is gone, or the gateway is  *)
(* killed.                                                                 *)
Abandon(h) ==
  /\ hpc[h] # "idle"
  /\ Fault("cancel")
  /\ Done(h, None)
  /\ UNCHANGED <<minute, redis, intents, session, history>>

MinutePasses ==
  /\ minute < MaxMinute
  /\ minute' = minute + 1
  /\ UNCHANGED <<redis, intents, session, handlers, history, faults>>

(* Sixty seconds after its first request a key of an earlier minute goes.  *)
KeyExpires(k) ==
  /\ k \in expiring
  /\ k[2] < minute
  /\ counter' = [counter EXCEPT ![k] = 0]
  /\ expiring' = expiring \ {k}
  /\ UNCHANGED <<minute, cache, intents, session, handlers, history, faults>>

ResponseExpires(s) ==
  /\ cache[s] # 0
  /\ days < MaxDays
  /\ days' = days + 1
  /\ cache' = [cache EXCEPT ![s] = 0]
  /\ UNCHANGED <<minute, counter, expiring, intents, session, handlers, admitted, open, requests, faults>>

(* The steps of a request that is well-formed and properly signed *)
Proceed(h) ==
  \/ Increment(h) \/ SetExpiry(h)
  \/ LookUp(h) \/ Submit(h) \/ StoreResponse(h)

Serve(h) == Proceed(h) \/ BadRequest(h) \/ Refused(h)

GNext ==
  \/ \E c \in Client : Login(c) \/ TokenExpires(c)
  \/ \E h \in Handler, c \in Client :
       \/ Unauthorized(h, c)
       \/ \E s \in Signature, t \in Type : Arrive(h, c, s, t)
       \/ \E id \in DOMAIN intents : GetIntent(h, c, id)
  \/ \E h \in Handler : Serve(h) \/ Abandon(h)
  \/ MinutePasses
  \/ \E k \in Key : KeyExpires(k)
  \/ \E s \in Signature : ResponseExpires(s)

GSpec == GInit /\ [][GNext]_vars

-----------------------------------------------------------------------------
(* Properties *)

(* "restricts clients to a maximum number of requests per minute": of the  *)
(* requests of a client in a minute the limiter lets through Limit, those  *)
(* for which Redis failed and, once the minute is over, those that were on *)
(* their way to Redis when the key expired, one per handler at most.       *)
RateLimited ==
  \A k \in Key :
    admitted[k] <= Limit + open[k] + (IF k[2] < minute THEN Cardinality(Handler) ELSE 0)

(* Rate keys without an expiry, which nobody is about to set *)
Leaked ==
  {k \in Key : /\ counter[k] > 0
               /\ k \notin expiring
               /\ \A h \in Handler : ~(hpc[h] = "expire" /\ hreq[h].key = k)}

(* INCR and EXPIRE are two calls: only a fault between them leaves a key   *)
(* in Redis for good.                                                      *)
NoLeakedKeys == Cardinality(Leaked) <= faults

Copies(s) == Cardinality({i \in DOMAIN intents : intents[i].sig = s})

(* The idempotency cache is read before and written after SubmitIntent:    *)
(* requests with one signature create an intent for each that is served at *)
(* the same time, once in 24 hours, and one more for each fault, but no    *)
(* more.                                                                   *)
DuplicatesBounded ==
  \A s \in Signature : Copies(s) <= Cardinality(Handler) * (1 + days) + faults

(* An id a client is told, by a fresh response, a cached one or a read, is *)
(* that of a stored intent with the signature of the request.  Unless the  *)
(* response was cached, the type, through all its spellings, is the one    *)
(* that was signed; a cached one answers whoever sends the signature.      *)
AnswersAreStored ==
  \A h \in Handler :
    reply[h] # None /\ reply[h].code \in {200, 201} =>
      /\ reply[h].id \in DOMAIN intents
      /\ intents[reply[h].id].sig = reply[h].sig
      /\ ParseStoredType(intents[reply[h].id].type) = ParseIntentType(TypeOf[reply[h].sig])
      /\ reply[h].via # "cache" => reply[h].type = ParseIntentType(TypeOf[reply[h].sig])

=============================================================================
