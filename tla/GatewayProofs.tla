--------------------------- MODULE GatewayProofs ----------------------------
(***************************************************************************)
(* Proofs about Gateway, for any number of handlers, clients and           *)
(* signatures, any limit and any faults: what a client is told is true,    *)
(* keys leak by faults alone, and the rate limiter and the idempotency     *)
(* cache admit and duplicate no more than their windows allow.             *)
(***************************************************************************)
EXTENDS Gateway, FiniteSetTheorems, TLAPS

Request == [key : Key, sig : Signature, type : 0 .. 4, id : Nat]
Row     == [sig : Signature, type : {IntentTypeName[n] : n \in 1 .. 4}]

(* The types: a handler with something to do has a request, and submits it *)
(* only if its type is known.                                              *)
GTypeOK ==
  /\ minute \in Minute
  /\ counter \in [Key -> Nat] /\ expiring \subseteq Key
  /\ cache \in [Signature -> Nat]
  /\ intents \in Seq(Row)
  /\ hpc \in [Handler -> HandlerPC]
  /\ hreq \in [Handler -> Request \cup {None}]
  /\ \A h \in Handler : hpc[h] # "idle" => hreq[h] \in Request
  /\ \A h \in Handler : hpc[h] \in {"submit", "store"} => hreq[h].type # 0
  /\ DOMAIN reply = Handler
  /\ admitted \in [Key -> Nat] /\ open \in [Key -> Nat]
  /\ days \in Nat /\ faults \in Nat

-----------------------------------------------------------------------------
(* The spellings of a type *)

LEMMA TypeNumbers ==
  ASSUME NEW name
  PROVE  ParseIntentType(name) \in 0 .. 4
BY DEF ParseIntentType

LEMMA TypesReadBack ==
  ASSUME NEW n \in 1 .. 4
  PROVE  ParseStoredType(IntentTypeName[n]) = n
<1>1. CASE n = 1
  <2>1. IntentTypeName[1] = "INTENT_TYPE_TRANSFER"
    BY DEF IntentTypeName
  <2>2. ParseStoredType(IntentTypeName[1]) = 1
    BY <2>1 DEF ParseStoredType
  <2> QED
    BY <1>1, <2>2
<1>2. CASE n = 2
  <2>1. IntentTypeName[2] = "INTENT_TYPE_COMPUTE"
    BY DEF IntentTypeName
  <2>2. ParseStoredType(IntentTypeName[2]) = 2
    BY <2>1 DEF ParseStoredType
  <2> QED
    BY <1>2, <2>2
<1>3. CASE n = 3
  <2>1. IntentTypeName[3] = "INTENT_TYPE_QUERY"
    BY DEF IntentTypeName
  <2>2. ParseStoredType(IntentTypeName[3]) = 3
    BY <2>1 DEF ParseStoredType
  <2> QED
    BY <1>3, <2>2
<1>4. CASE n = 4
  <2>1. IntentTypeName[4] = "INTENT_TYPE_SCHEDULED"
    BY DEF IntentTypeName
  <2>2. ParseStoredType(IntentTypeName[4]) = 4
    BY <2>1 DEF ParseStoredType
  <2> QED
    BY <1>4, <2>2
<1> QED
  BY <1>1, <1>2, <1>3, <1>4

(* The classes of the errors are no successes. *)
LEMMA ErrorIsNoAnswer ==
  ASSUME NEW c \in {400, 401, 403, 404, 429, 500, 503, 504}
  PROVE  Error(c).code \notin {200, 201}
<1>1. Error(c).code = 100 * (c \div 100)
  BY DEF Error
<1>2. c \div 100 \in {4, 5}
  OBVIOUS
<1> QED
  BY <1>1, <1>2

LEMMA CodesAreErrors ==
  ASSUME NEW e \in CallError \cup {"NotFound", "InvalidArgument", "Unauthenticated"}
  PROVE  HTTPCode[e] \in {400, 401, 403, 404, 429, 500, 503, 504}
BY DEF CallError, HTTPCode

-----------------------------------------------------------------------------
(* How the steps of a handler change what handlers do *)

LEMMA DoneKeepsTypes ==
  ASSUME GTypeOK, NEW h \in Handler, NEW r, Done(h, r)
  PROVE  /\ hpc' \in [Handler -> HandlerPC]
         /\ hreq' \in [Handler -> Request \cup {None}]
         /\ \A g \in Handler : hpc'[g] # "idle" => hreq'[g] \in Request
         /\ DOMAIN reply' = Handler
         /\ hpc'[h] = "idle" /\ reply'[h] = r
         /\ \A g \in Handler : g # h => hpc'[g] = hpc[g] /\ hreq'[g] = hreq[g] /\ reply'[g] = reply[g]
BY DEF GTypeOK, Done, HandlerPC

LEMMA GotoKeepsTypes ==
  ASSUME GTypeOK, NEW h \in Handler, NEW l \in HandlerPC, hpc[h] # "idle", Goto(h, l)
  PROVE  /\ hpc' \in [Handler -> HandlerPC]
         /\ hreq' \in [Handler -> Request \cup {None}]
         /\ \A g \in Handler : hpc'[g] # "idle" => hreq'[g] \in Request
         /\ DOMAIN reply' = Handler
         /\ hpc'[h] = l
         /\ \A g \in Handler : g # h => hpc'[g] = hpc[g]
         /\ UNCHANGED <<hreq, reply>>
BY DEF GTypeOK, Goto, HandlerPC

LEMMA StoredIsTyped ==
  ASSUME GTypeOK, NEW h \in Handler, hpc[h] = "submit"
  PROVE  Stored(h) \in Seq(Row)
<1>1. hreq[h].sig \in Signature
  BY DEF GTypeOK, Request
<1>2. hreq[h].type \in 1 .. 4
  <2>1. hreq[h] \in Request /\ hreq[h].type # 0
    BY DEF GTypeOK
  <2>2. hreq[h].type \in 0 .. 4
    BY <2>1 DEF Request
  <2> QED
    BY <2>1, <2>2
<1>3. [sig |-> hreq[h].sig, type |-> IntentTypeName[hreq[h].type]] \in Row
  BY <1>1, <1>2 DEF Row
<1> QED
  BY <1>3 DEF Stored, GTypeOK

-----------------------------------------------------------------------------
(* The types are kept. *)

LEMMA TypesAreKept ==
  ASSUME GTypeOK, [GNext]_vars
  PROVE  GTypeOK'
<1> USE DEF redis, handlers, history
(* The handlers, when one of them is done, and everything else *)
<1>1. ASSUME NEW h \in Handler, NEW r, Done(h, r)
      PROVE  /\ hpc' \in [Handler -> HandlerPC]
             /\ hreq' \in [Handler -> Request \cup {None}]
             /\ \A g \in Handler : hpc'[g] # "idle" => hreq'[g] \in Request
             /\ \A g \in Handler : hpc'[g] \in {"submit", "store"} => hreq'[g].type # 0
             /\ DOMAIN reply' = Handler
  <2>1. /\ hpc' \in [Handler -> HandlerPC]
        /\ hreq' \in [Handler -> Request \cup {None}]
        /\ \A g \in Handler : hpc'[g] # "idle" => hreq'[g] \in Request
        /\ DOMAIN reply' = Handler
    BY <1>1, DoneKeepsTypes
  <2>2. hpc'[h] = "idle" /\ \A g \in Handler : g # h => hpc'[g] = hpc[g] /\ hreq'[g] = hreq[g]
    BY <1>1, DoneKeepsTypes
  <2>3. ASSUME NEW g \in Handler, hpc'[g] \in {"submit", "store"} PROVE hreq'[g].type # 0
    <3>1. hpc[g] \in {"submit", "store"} /\ hreq'[g] = hreq[g]
      BY <2>2, <2>3
    <3>2. hreq[g].type # 0
      BY <3>1 DEF GTypeOK
    <3> QED
      BY <3>1, <3>2
  <2> QED
    BY <2>1, <2>3
<1>2. CASE UNCHANGED vars
  BY <1>2 DEF vars, GTypeOK
<1>3. ASSUME NEW c \in Client, Login(c) \/ TokenExpires(c)
      PROVE  GTypeOK'
  BY <1>3 DEF Login, TokenExpires, GTypeOK
<1>4. ASSUME NEW h \in Handler, NEW c \in Client, Unauthorized(h, c)
      PROVE  GTypeOK'
  BY <1>4, <1>1 DEF Unauthorized, GTypeOK
<1>5. ASSUME NEW h \in Handler, NEW c \in Client, NEW s \in Signature, NEW t, Arrive(h, c, s, t)
      PROVE  GTypeOK'
  <2>1. [key |-> MinuteKey(c), sig |-> s, type |-> ParseIntentType(t), id |-> 0] \in Request
    BY TypeNumbers DEF MinuteKey, Key, Request, GTypeOK
  <2>2. \A g \in Handler : hpc'[g] # "idle" => hreq'[g] \in Request
    BY <1>5, <2>1 DEF Arrive, GTypeOK, HandlerPC
  <2>3. \A g \in Handler : hpc'[g] \in {"submit", "store"} => hreq'[g].type # 0
    BY <1>5 DEF Arrive, GTypeOK
  <2>4. hpc' \in [Handler -> HandlerPC] /\ hreq' \in [Handler -> Request \cup {None}]
    BY <1>5, <2>1 DEF Arrive, GTypeOK, HandlerPC
  <2> QED
    BY <1>5, <2>2, <2>3, <2>4 DEF Arrive, GTypeOK
<1>6. ASSUME NEW h \in Handler, NEW c \in Client, NEW id \in DOMAIN intents, GetIntent(h, c, id)
      PROVE  GTypeOK'
  <2>1. \E r : Done(h, r)
    BY <1>6 DEF GetIntent
  <2>2. faults' \in Nat
    BY <1>6 DEF GetIntent, Fault, NoFault, GTypeOK
  <2> QED
    BY <1>6, <1>1, <2>1, <2>2 DEF GetIntent, GTypeOK
<1>7. ASSUME NEW h \in Handler, Increment(h)
      PROVE  GTypeOK'
  <2>1. hpc[h] = "incr" /\ hreq[h].key \in Key
    BY <1>7 DEF Increment, GTypeOK, Request
  <2>2. counter' \in [Key -> Nat]
    <3>1. [counter EXCEPT ![hreq[h].key] = counter[hreq[h].key] + 1] \in [Key -> Nat]
      BY <2>1 DEF GTypeOK
    <3> QED
      BY <1>7, <3>1 DEF Increment, GTypeOK
  <2>2a. admitted' \in [Key -> Nat]
    BY <1>7, <2>1 DEF Increment, Admit, GTypeOK
  <2>2b. open' \in [Key -> Nat]
    <3>1. [open EXCEPT ![hreq[h].key] = open[hreq[h].key] + 1] \in [Key -> Nat]
      BY <2>1 DEF GTypeOK
    <3> QED
      BY <1>7, <3>1 DEF Increment, GTypeOK
  <2>3. faults' \in Nat
    BY <1>7 DEF Increment, Fault, NoFault, GTypeOK
  <2>4. Done(h, Error(429)) \/ Goto(h, "expire") \/ Goto(h, "lookup")
    BY <1>7 DEF Increment
  <2>5. CASE Goto(h, "expire") \/ Goto(h, "lookup")
    <3>1. \A g \in Handler : hpc'[g] \in {"submit", "store"} => hreq'[g].type # 0
      BY <2>1, <2>5 DEF Goto, GTypeOK
    <3> QED
      BY <1>7, <2>1, <2>2, <2>2a, <2>2b, <2>3, <2>5, <3>1, GotoKeepsTypes DEF Increment, GTypeOK, HandlerPC
  <2>6. CASE Done(h, Error(429))
    <3>1. /\ hpc' \in [Handler -> HandlerPC]
          /\ hreq' \in [Handler -> Request \cup {None}]
          /\ \A g \in Handler : hpc'[g] # "idle" => hreq'[g] \in Request
          /\ \A g \in Handler : hpc'[g] \in {"submit", "store"} => hreq'[g].type # 0
          /\ DOMAIN reply' = Handler
      BY <1>1, <2>6
    <3> QED
      BY <1>7, <2>2, <2>2a, <2>2b, <2>3, <3>1 DEF Increment, GTypeOK
  <2> QED
    BY <2>4, <2>5, <2>6
<1>8. ASSUME NEW h \in Handler, SetExpiry(h)
      PROVE  GTypeOK'
  <2>1. hpc[h] = "expire" /\ hreq[h].key \in Key /\ Goto(h, "lookup")
    BY <1>8 DEF SetExpiry, GTypeOK, Request
  <2>2. expiring' \subseteq Key /\ faults' \in Nat
    BY <1>8, <2>1 DEF SetExpiry, Fault, NoFault, GTypeOK
  <2>3. \A g \in Handler : hpc'[g] \in {"submit", "store"} => hreq'[g].type # 0
    BY <2>1 DEF Goto, GTypeOK
  <2> QED
    BY <1>8, <2>1, <2>2, <2>3, GotoKeepsTypes DEF SetExpiry, GTypeOK, HandlerPC
<1>9. ASSUME NEW h \in Handler, BadRequest(h) \/ Refused(h)
      PROVE  GTypeOK'
  <2>1. \E r : Done(h, r)
    BY <1>9 DEF BadRequest, Refused
  <2> QED
    BY <1>9, <1>1, <2>1 DEF BadRequest, Refused, GTypeOK
<1>10. ASSUME NEW h \in Handler, LookUp(h)
       PROVE  GTypeOK'
  <2>1. faults' \in Nat
    BY <1>10 DEF LookUp, Fault, NoFault, GTypeOK
  <2>2. CASE Goto(h, "submit")
    <3>1. \A g \in Handler : hpc'[g] \in {"submit", "store"} => hreq'[g].type # 0
      BY <1>10, <2>2 DEF LookUp, Goto, GTypeOK
    <3> QED
      BY <1>10, <2>1, <2>2, <3>1, GotoKeepsTypes DEF LookUp, GTypeOK, HandlerPC
  <2> QED
    BY <1>10, <1>1, <2>1, <2>2 DEF LookUp, GTypeOK
<1>11. ASSUME NEW h \in Handler, Submit(h)
       PROVE  GTypeOK'
  <2>1. faults' \in Nat
    BY <1>11 DEF Submit, Fault, NoFault, GTypeOK
  <2>2. intents' \in Seq(Row) /\ hpc[h] = "submit" /\ hreq[h] \in Request /\ hreq[h].type # 0
    BY <1>11, StoredIsTyped DEF Submit, GTypeOK
  <2>3. CASE /\ hreq' = [hreq EXCEPT ![h].id = Len(intents) + 1]
             /\ hpc' = [hpc EXCEPT ![h] = "store"]
             /\ UNCHANGED reply
    <3>1. Len(intents) + 1 \in Nat
      BY DEF GTypeOK
    <3>2. hreq'[h] \in Request /\ hreq'[h].type = hreq[h].type
      BY <2>2, <2>3, <3>1 DEF Request, GTypeOK
    <3>3. hpc' \in [Handler -> HandlerPC] /\ hreq' \in [Handler -> Request \cup {None}]
      BY <2>3, <3>2 DEF GTypeOK, HandlerPC
    <3>4. \A g \in Handler : hpc'[g] # "idle" => hreq'[g] \in Request
      BY <2>3, <3>2 DEF GTypeOK
    <3>5. \A g \in Handler : hpc'[g] \in {"submit", "store"} => hreq'[g].type # 0
      BY <2>2, <2>3, <3>2 DEF GTypeOK
    <3> QED
      BY <1>11, <2>1, <2>2, <2>3, <3>3, <3>4, <3>5 DEF Submit, GTypeOK
  <2> QED
    BY <1>11, <1>1, <2>1, <2>2, <2>3 DEF Submit, GTypeOK
<1>12. ASSUME NEW h \in Handler, StoreResponse(h)
       PROVE  GTypeOK'
  <2>1. faults' \in Nat
    BY <1>12 DEF StoreResponse, Fault, NoFault, GTypeOK
  <2>2. cache' \in [Signature -> Nat]
    BY <1>12 DEF StoreResponse, GTypeOK, Request
  <2> QED
    BY <1>12, <1>1, <2>1, <2>2 DEF StoreResponse, Created, GTypeOK
<1>13. ASSUME NEW h \in Handler, Abandon(h)
       PROVE  GTypeOK'
  BY <1>13, <1>1 DEF Abandon, Fault, GTypeOK
<1>14. CASE MinutePasses
  BY <1>14, GatewayAssumption DEF MinutePasses, GTypeOK, Minute
<1>15. ASSUME NEW k \in Key, KeyExpires(k)
       PROVE  GTypeOK'
  BY <1>15 DEF KeyExpires, GTypeOK
<1>16. ASSUME NEW s \in Signature, ResponseExpires(s)
       PROVE  GTypeOK'
  BY <1>16 DEF ResponseExpires, GTypeOK
<1> QED
  BY <1>2, <1>3, <1>4, <1>5, <1>6, <1>7, <1>8, <1>9, <1>10, <1>11, <1>12, <1>13, <1>14, <1>15,
     <1>16 DEF GNext, Serve, Proceed

LEMMA TypesHold == GSpec => []GTypeOK
<1>1. GInit => GTypeOK
  BY GatewayAssumption DEF GInit, GTypeOK, Minute, Key, HandlerPC
<1> QED
  BY <1>1, TypesAreKept, PTL DEF GSpec

-----------------------------------------------------------------------------
(* What a client is told is true. *)

(* The table has an intent id, of signature s. *)
IsStored(table, id, s) == id \in DOMAIN table /\ table[id].sig = s

(* The type a signature signs *)
Signed(s) == ParseIntentType(TypeOf[s])

(* A row has the type its request was signed with. *)
Spelled(row) == Signed(row.sig) # 0 /\ row.type = IntentTypeName[Signed(row.sig)]

Truthful(table, r) ==
  r # None /\ r.code \in {200, 201} =>
    /\ IsStored(table, r.id, r.sig)
    /\ r.via # "cache" => r.type = Signed(r.sig)

(* Rows, cached responses, responses about to be cached and responses sent *)
AnswerInv ==
  /\ \A i \in DOMAIN intents : Spelled(intents[i])
  /\ \A s \in Signature : cache[s] # 0 => IsStored(intents, cache[s], s)
  /\ \A h \in Handler :
       hpc[h] = "store" => IsStored(intents, hreq[h].id, hreq[h].sig) /\ Verified(h)
  /\ \A h \in Handler : Truthful(intents, reply[h])

(* The table grows by one row, at the end. *)
LEMMA TableGrows ==
  ASSUME GTypeOK, AnswerInv, NEW h \in Handler, hpc[h] = "submit"
  PROVE  /\ Len(Stored(h)) = Len(intents) + 1
         /\ DOMAIN intents = 1 .. Len(intents)
         /\ DOMAIN Stored(h) = 1 .. (Len(intents) + 1)
         /\ \A i \in DOMAIN intents : i \in DOMAIN Stored(h) /\ Stored(h)[i] = intents[i]
         /\ Stored(h)[Len(intents) + 1].sig = hreq[h].sig
         /\ Verified(h) => \A i \in DOMAIN Stored(h) : Spelled(Stored(h)[i])
<1> DEFINE row == [sig |-> hreq[h].sig, type |-> IntentTypeName[hreq[h].type]]
<1>1. row.sig = hreq[h].sig /\ row.type = IntentTypeName[hreq[h].type] /\ hreq[h].type # 0
  BY DEF GTypeOK
<1>2. Verified(h) => hreq[h].type = Signed(hreq[h].sig)
  BY DEF Verified, Signed
<1>3. Verified(h) => Spelled(row)
  BY <1>1, <1>2 DEF Spelled
<1>4. Stored(h) = Append(intents, row) /\ intents \in Seq(Row)
  BY DEF Stored, GTypeOK
<1> HIDE DEF row
<1>5. /\ Len(Stored(h)) = Len(intents) + 1
      /\ DOMAIN intents = 1 .. Len(intents)
      /\ DOMAIN Stored(h) = 1 .. (Len(intents) + 1)
      /\ Len(intents) \in Nat
      /\ \A i \in DOMAIN intents : i \in DOMAIN Stored(h) /\ Stored(h)[i] = intents[i]
      /\ Stored(h)[Len(intents) + 1] = row
  BY <1>4
<1>6. ASSUME Verified(h), NEW i \in DOMAIN Stored(h)
      PROVE  Spelled(Stored(h)[i])
  <2>1. CASE i \in DOMAIN intents
    BY <1>5, <2>1 DEF AnswerInv
  <2>2. CASE i \notin DOMAIN intents
    <3>1. i = Len(intents) + 1
      BY <1>5, <2>2
    <3> QED
      BY <1>3, <1>5, <1>6, <3>1
  <2> QED
    BY <2>1, <2>2
<1> QED
  BY <1>1, <1>5, <1>6

LEMMA AnswersAreInductive ==
  ASSUME GTypeOK, AnswerInv, [GNext]_vars
  PROVE  AnswerInv'
<1> USE DEF redis, handlers, history
(* The end of a request *)
<1>1. ASSUME NEW h \in Handler, NEW r, Done(h, r), Truthful(intents', r),
             \A i \in DOMAIN intents' : Spelled(intents'[i]),
             \A i \in DOMAIN intents : i \in DOMAIN intents' /\ intents'[i] = intents[i],
             \A s \in Signature : cache'[s] # 0 => cache'[s] = cache[s] \/ IsStored(intents, cache'[s], s)
      PROVE  AnswerInv'
  <2>1. \A id, s : IsStored(intents, id, s) => IsStored(intents', id, s)
    BY <1>1 DEF IsStored
  <2>2. \A q : Truthful(intents, q) => Truthful(intents', q)
    BY <2>1 DEF Truthful
  <2>3. /\ hpc'[h] = "idle" /\ reply'[h] = r
        /\ \A g \in Handler : g # h => hpc'[g] = hpc[g] /\ hreq'[g] = hreq[g] /\ reply'[g] = reply[g]
    BY <1>1, DoneKeepsTypes
  <2>4. ASSUME NEW g \in Handler
        PROVE  /\ hpc'[g] = "store" => IsStored(intents', hreq'[g].id, hreq'[g].sig) /\ Verified(g)'
               /\ Truthful(intents', reply'[g])
    <3>1. CASE g = h
      BY <1>1, <2>3, <3>1
    <3>2. CASE g # h
      BY <2>1, <2>2, <2>3, <3>2 DEF AnswerInv, Verified
    <3> QED
      BY <3>1, <3>2
  <2>5. \A s \in Signature : cache'[s] # 0 => IsStored(intents', cache'[s], s)
    BY <1>1, <2>1 DEF AnswerInv
  <2> QED
    BY <1>1, <2>4, <2>5 DEF AnswerInv
(* A step in the middle of one *)
<1>2. ASSUME NEW h \in Handler, NEW l \in HandlerPC \ {"store"}, hpc[h] # "idle", Goto(h, l),
             UNCHANGED <<intents, cache>>
      PROVE  AnswerInv'
  <2>1. hpc'[h] = l /\ UNCHANGED <<hreq, reply>> /\ \A g \in Handler : g # h => hpc'[g] = hpc[g]
    BY <1>2, GotoKeepsTypes
  <2>2. \A g \in Handler : hpc'[g] = "store" => hpc[g] = "store"
    BY <1>2, <2>1
  <2> QED
    BY <1>2, <2>1, <2>2 DEF AnswerInv, Verified
<1>3. CASE UNCHANGED <<intents, cache, hpc, hreq, reply>>
  BY <1>3 DEF AnswerInv, Verified
(* A request that ends with an error, or without a response *)
<1>4. ASSUME NEW h \in Handler, NEW r, Done(h, r), r = None \/ r.code \notin {200, 201},
             UNCHANGED <<intents, cache>>
      PROVE  AnswerInv'
  <2>1. Truthful(intents', r)
    BY <1>4 DEF Truthful
  <2> QED
    BY <1>1, <1>4, <2>1 DEF AnswerInv
<1>5. \A e \in CallError \cup {"NotFound", "InvalidArgument", "Unauthenticated"} :
        Error(HTTPCode[e]).code \notin {200, 201}
  BY CodesAreErrors, ErrorIsNoAnswer
<1>6. ASSUME NEW c \in Client, Login(c) \/ TokenExpires(c)
      PROVE  AnswerInv'
  BY <1>3, <1>6 DEF Login, TokenExpires
<1>7. ASSUME NEW h \in Handler, NEW c \in Client, Unauthorized(h, c)
      PROVE  AnswerInv'
  BY <1>4, <1>7, ErrorIsNoAnswer DEF Unauthorized
<1>8. ASSUME NEW h \in Handler, NEW c \in Client, NEW s \in Signature, NEW t, Arrive(h, c, s, t)
      PROVE  AnswerInv'
  <2>1. /\ hpc'[h] = "incr" /\ reply'[h] = None
        /\ \A g \in Handler : g # h => hpc'[g] = hpc[g] /\ hreq'[g] = hreq[g] /\ reply'[g] = reply[g]
        /\ UNCHANGED <<intents, cache>>
    BY <1>8 DEF Arrive, GTypeOK
  <2>2. \A g \in Handler : Truthful(intents', reply'[g])
    BY <2>1 DEF AnswerInv, Truthful
  <2>3. \A g \in Handler :
          hpc'[g] = "store" => IsStored(intents', hreq'[g].id, hreq'[g].sig) /\ Verified(g)'
    BY <2>1 DEF AnswerInv, Verified
  <2> QED
    BY <2>1, <2>2, <2>3 DEF AnswerInv
<1>9. ASSUME NEW h \in Handler, NEW c \in Client, NEW id \in DOMAIN intents, GetIntent(h, c, id)
      PROVE  AnswerInv'
  <2> DEFINE r == Told("get", intents[id].sig, id, ParseStoredType(intents[id].type))
  <2>1. UNCHANGED <<intents, cache>>
    BY <1>9 DEF GetIntent
  <2>2. CASE Done(h, r)
    <3>1. /\ r.code = 200 /\ r.sig = intents[id].sig /\ r.id = id
          /\ r.type = ParseStoredType(intents[id].type)
      BY DEF Told
    <3> DEFINE n == Signed(intents[id].sig)
    <3>2. n \in 1 .. 4 /\ intents[id].type = IntentTypeName[n]
      BY TypeNumbers DEF AnswerInv, Spelled, Signed
    <3>3. ParseStoredType(intents[id].type) = n
      BY <3>2, TypesReadBack
    <3>4. Truthful(intents', r)
      BY <2>1, <3>1, <3>2, <3>3 DEF Truthful, IsStored
    <3> HIDE DEF r
    <3> QED
      BY <1>1, <2>1, <2>2, <3>4 DEF AnswerInv
  <2>3. CASE \E e \in CallError \cup {"NotFound"} : Done(h, Error(HTTPCode[e]))
    BY <1>4, <1>5, <2>1, <2>3
  <2> QED
    BY <1>9, <2>2, <2>3 DEF GetIntent
<1>10. ASSUME NEW h \in Handler, Increment(h)
       PROVE  AnswerInv'
  <2>1. /\ hpc[h] = "incr" /\ UNCHANGED <<intents, cache>>
        /\ Done(h, Error(429)) \/ Goto(h, "expire") \/ Goto(h, "lookup")
    BY <1>10 DEF Increment
  <2> QED
    BY <1>2, <1>4, <2>1, ErrorIsNoAnswer DEF HandlerPC
<1>11. ASSUME NEW h \in Handler, SetExpiry(h)
       PROVE  AnswerInv'
  BY <1>2, <1>11 DEF SetExpiry, HandlerPC
<1>12. ASSUME NEW h \in Handler, BadRequest(h)
       PROVE  AnswerInv'
  BY <1>4, <1>12, ErrorIsNoAnswer DEF BadRequest
<1>13. ASSUME NEW h \in Handler, Refused(h)
       PROVE  AnswerInv'
  BY <1>4, <1>5, <1>13 DEF Refused
<1>14. ASSUME NEW h \in Handler, LookUp(h)
       PROVE  AnswerInv'
  <2> DEFINE s == hreq[h].sig
             r == Told("cache", s, cache[s], 0)
  <2>1. hpc[h] = "lookup" /\ UNCHANGED <<intents, cache>>
    BY <1>14 DEF LookUp
  <2>2. CASE cache[s] # 0 /\ Done(h, r)
    <3>1. r.via = "cache" /\ r.sig = s /\ r.id = cache[s]
      BY DEF Told
    <3>2. s \in Signature
      BY <2>1 DEF GTypeOK, Request
    <3>3. IsStored(intents, cache[s], s)
      BY <2>2, <3>2 DEF AnswerInv
    <3>4. Truthful(intents', r)
      BY <2>1, <3>1, <3>3 DEF Truthful
    <3> HIDE DEF r
    <3> QED
      BY <1>1, <2>1, <2>2, <3>4 DEF AnswerInv
  <2>3. CASE Goto(h, "submit")
    BY <1>2, <2>1, <2>3 DEF HandlerPC
  <2> QED
    BY <1>14, <2>2, <2>3 DEF LookUp
<1>15. ASSUME NEW h \in Handler, Submit(h)
       PROVE  AnswerInv'
  <2>1. hpc[h] = "submit" /\ UNCHANGED cache /\ hreq[h] \in Request
    BY <1>15 DEF Submit, GTypeOK
  <2>2. /\ \A i \in DOMAIN intents' : Spelled(intents'[i])
        /\ \A i \in DOMAIN intents : i \in DOMAIN intents' /\ intents'[i] = intents[i]
    BY <1>15, <2>1, TableGrows DEF Submit, AnswerInv
  <2>3. CASE /\ Verified(h)
             /\ intents' = Stored(h)
             /\ hreq' = [hreq EXCEPT ![h].id = Len(intents) + 1]
             /\ hpc' = [hpc EXCEPT ![h] = "store"]
             /\ UNCHANGED reply
    <3>1. \A id, s : IsStored(intents, id, s) => IsStored(intents', id, s)
      BY <2>2 DEF IsStored
    <3>2. \A q : Truthful(intents, q) => Truthful(intents', q)
      BY <3>1 DEF Truthful
    <3>3. hreq'[h].id = Len(intents) + 1 /\ hreq'[h].sig = hreq[h].sig /\ hreq'[h].type = hreq[h].type
      BY <2>1, <2>3 DEF GTypeOK, Request
    <3>4. Len(intents) + 1 \in DOMAIN intents' /\ intents'[Len(intents) + 1].sig = hreq[h].sig
      BY <2>1, <2>3, TableGrows DEF GTypeOK
    <3>5. IsStored(intents', hreq'[h].id, hreq'[h].sig) /\ Verified(h)'
      BY <2>3, <3>3, <3>4 DEF IsStored, Verified
    <3>6. \A g \in Handler : g # h => hpc'[g] = hpc[g] /\ hreq'[g] = hreq[g]
      BY <2>3 DEF GTypeOK
    <3>7. \A g \in Handler :
            hpc'[g] = "store" => IsStored(intents', hreq'[g].id, hreq'[g].sig) /\ Verified(g)'
      BY <3>1, <3>5, <3>6 DEF AnswerInv, Verified
    <3>8. \A g \in Handler : Truthful(intents', reply'[g])
      BY <2>3, <3>2 DEF AnswerInv
    <3>9. \A s \in Signature : cache'[s] # 0 => IsStored(intents', cache'[s], s)
      BY <2>1, <3>1 DEF AnswerInv
    <3> QED
      BY <2>2, <3>7, <3>8, <3>9 DEF AnswerInv
  <2>4. CASE \E e \in CallError : Done(h, Error(HTTPCode[e]))
    <3>1. PICK e \in CallError : Done(h, Error(HTTPCode[e]))
      BY <2>4
    <3>2. Truthful(intents', Error(HTTPCode[e]))
      BY <1>5 DEF Truthful
    <3> QED
      BY <1>1, <2>1, <2>2, <3>1, <3>2
  <2> QED
    BY <1>15, <2>3, <2>4 DEF Submit
<1>16. ASSUME NEW h \in Handler, StoreResponse(h)
       PROVE  AnswerInv'
  <2> DEFINE r == Told("post", hreq[h].sig, hreq[h].id, hreq[h].type)
  <2>1. hpc[h] = "store" /\ UNCHANGED intents /\ Done(h, r) /\ hreq[h].sig \in Signature
    BY <1>16 DEF StoreResponse, Created, GTypeOK, Request
  <2>2. IsStored(intents, hreq[h].id, hreq[h].sig) /\ hreq[h].type = Signed(hreq[h].sig)
    BY <2>1 DEF AnswerInv, Verified, Signed
  <2>3. r.sig = hreq[h].sig /\ r.id = hreq[h].id /\ r.type = hreq[h].type
    BY DEF Told
  <2>4. Truthful(intents', r)
    BY <2>1, <2>2, <2>3 DEF Truthful
  <2>5. \A s \in Signature : cache'[s] # 0 => cache'[s] = cache[s] \/ IsStored(intents, cache'[s], s)
    BY <1>16, <2>1, <2>2 DEF StoreResponse, GTypeOK
  <2> HIDE DEF r
  <2> QED
    BY <1>1, <2>1, <2>4, <2>5 DEF AnswerInv
<1>17. ASSUME NEW h \in Handler, Abandon(h)
       PROVE  AnswerInv'
  BY <1>4, <1>17 DEF Abandon
<1>18. CASE MinutePasses \/ \E k \in Key : KeyExpires(k)
  BY <1>3, <1>18 DEF MinutePasses, KeyExpires
<1>19. ASSUME NEW s \in Signature, ResponseExpires(s)
       PROVE  AnswerInv'
  <2>1. /\ UNCHANGED <<intents, hpc, hreq, reply>>
        /\ \A q \in Signature : cache'[q] # 0 => cache'[q] = cache[q]
    BY <1>19 DEF ResponseExpires, GTypeOK
  <2>2. \A g \in Handler : Verified(g)' <=> Verified(g)
    BY <2>1 DEF Verified
  <2> QED
    BY <2>1, <2>2 DEF AnswerInv
<1> QED
  BY <1>3, <1>6, <1>7, <1>8, <1>9, <1>10, <1>11, <1>12, <1>13, <1>14, <1>15, <1>16, <1>17, <1>18,
     <1>19 DEF GNext, Serve, Proceed, vars

(* AnswersAreStored: whatever handlers interleave, requests reuse a        *)
(* signature, calls fail and cached responses expire, an id that is told   *)
(* is that of a stored intent of the same signature and the type it        *)
(* signed, and that is the type posted or read, but for what is answered   *)
(* from the cache.                                                         *)
THEOREM AnswersAreTrue == GSpec => []AnswersAreStored
<1>1. GInit => AnswerInv
  BY DEF GInit, AnswerInv, Truthful
<1>2. AnswerInv => AnswersAreStored
  <2>1. SUFFICES ASSUME AnswerInv, NEW h \in Handler, reply[h] # None, reply[h].code \in {200, 201}
                 PROVE  /\ reply[h].id \in DOMAIN intents
                        /\ intents[reply[h].id].sig = reply[h].sig
                        /\ ParseStoredType(intents[reply[h].id].type) = Signed(reply[h].sig)
                        /\ reply[h].via # "cache" => reply[h].type = Signed(reply[h].sig)
    BY DEF AnswersAreStored, Signed
  <2>2. /\ reply[h].id \in DOMAIN intents /\ intents[reply[h].id].sig = reply[h].sig
        /\ reply[h].via # "cache" => reply[h].type = Signed(reply[h].sig)
    BY <2>1 DEF AnswerInv, Truthful, IsStored
  <2>3. /\ Signed(reply[h].sig) \in 1 .. 4
        /\ intents[reply[h].id].type = IntentTypeName[Signed(reply[h].sig)]
    BY <2>1, <2>2, TypeNumbers DEF AnswerInv, Spelled, Signed
  <2> QED
    BY <2>2, <2>3, TypesReadBack
<1> QED
  BY <1>1, <1>2, TypesHold, AnswersAreInductive, PTL DEF GSpec

-----------------------------------------------------------------------------
(* Keys leak by faults alone. *)

LEMMA AtMostOneMore ==
  ASSUME NEW S, NEW T, NEW x, NEW n \in Nat, IsFiniteSet(S), Cardinality(S) <= n, T \subseteq S \cup {x}
  PROVE  IsFiniteSet(T) /\ Cardinality(T) <= n + 1
<1>1. IsFiniteSet(S \cup {x}) /\ Cardinality(S \cup {x}) <= Cardinality(S) + 1
  <2>1. Cardinality(S) \in Nat
    BY FS_CardinalityType
  <2>2. /\ IsFiniteSet(S \cup {x})
        /\ Cardinality(S \cup {x}) = IF x \in S THEN Cardinality(S) ELSE Cardinality(S) + 1
    BY FS_AddElement
  <2> QED
    BY <2>1, <2>2
<1>2. IsFiniteSet(T) /\ Cardinality(T) <= Cardinality(S \cup {x})
  BY <1>1, FS_Subset
<1>3. Cardinality(S) \in Nat /\ Cardinality(S \cup {x}) \in Nat /\ Cardinality(T) \in Nat
  BY <1>1, <1>2, FS_CardinalityType
<1> QED
  BY <1>1, <1>2, <1>3

LEMMA NoMore ==
  ASSUME NEW S, NEW T, NEW n \in Nat, IsFiniteSet(S), Cardinality(S) <= n, T \subseteq S
  PROVE  IsFiniteSet(T) /\ Cardinality(T) <= n
<1>1. IsFiniteSet(T) /\ Cardinality(T) <= Cardinality(S)
  BY FS_Subset
<1>2. Cardinality(S) \in Nat /\ Cardinality(T) \in Nat
  BY <1>1, FS_CardinalityType
<1> QED
  BY <1>1, <1>2

LeakInv == IsFiniteSet(Leaked) /\ Cardinality(Leaked) <= faults

(* A key is new to Redis only when its handler goes on to set its expiry,  *)
(* and a handler leaves that position only with the expiry set, if no      *)
(* fault happens.                                                          *)
LEMMA LeaksAreInductive ==
  ASSUME GTypeOK, LeakInv, [GNext]_vars
  PROVE  LeakInv'
<1> USE DEF redis, handlers, history
<1>1. CASE Leaked' \subseteq Leaked /\ faults' \in Nat /\ faults' >= faults
  <2>1. IsFiniteSet(Leaked') /\ Cardinality(Leaked') <= faults
    BY <1>1, NoMore DEF LeakInv, GTypeOK
  <2>2. Cardinality(Leaked') \in Nat /\ Cardinality(Leaked)' = Cardinality(Leaked')
    BY <2>1, FS_CardinalityType
  <2>3. Cardinality(Leaked') <= faults'
    BY <1>1, <2>1, <2>2 DEF GTypeOK
  <2> QED
    BY <2>1, <2>3 DEF LeakInv
<1>2. ASSUME NEW k, Leaked' \subseteq Leaked \cup {k}, faults' = faults + 1
      PROVE  LeakInv'
  <2>1. IsFiniteSet(Leaked') /\ Cardinality(Leaked') <= faults + 1
    BY <1>2, AtMostOneMore DEF LeakInv, GTypeOK
  <2> QED
    BY <1>2, <2>1 DEF LeakInv
(* A step of handler h that leaves the keys of Redis alone *)
<1>3. ASSUME NEW h \in Handler, hpc[h] # "expire",
             \A g \in Handler : g # h => hpc'[g] = hpc[g] /\ hreq'[g] = hreq[g],
             UNCHANGED <<counter, expiring>>, faults' \in {faults, faults + 1}
      PROVE  LeakInv'
  <2>1. Leaked' \subseteq Leaked
    BY <1>3 DEF Leaked
  <2> QED
    BY <1>1, <1>3, <2>1 DEF GTypeOK
<1>4. CASE UNCHANGED <<counter, expiring, hpc, hreq, faults>>
  <2>1. Leaked' = Leaked
    BY <1>4 DEF Leaked
  <2> QED
    BY <1>4, <2>1 DEF LeakInv
<1>5. ASSUME NEW c \in Client, Login(c) \/ TokenExpires(c)
      PROVE  LeakInv'
  BY <1>4, <1>5 DEF Login, TokenExpires
<1>6. ASSUME NEW h \in Handler, NEW r, Done(h, r), hpc[h] # "expire", UNCHANGED <<counter, expiring>>,
             faults' \in {faults, faults + 1}
      PROVE  LeakInv'
  BY <1>3, <1>6, DoneKeepsTypes
<1>7. ASSUME NEW h \in Handler, NEW c \in Client, Unauthorized(h, c)
      PROVE  LeakInv'
  BY <1>6, <1>7 DEF Unauthorized, Accept
<1>8. ASSUME NEW h \in Handler, NEW c \in Client, NEW s \in Signature, NEW t, Arrive(h, c, s, t)
      PROVE  LeakInv'
  <2>1. /\ hpc[h] # "expire" /\ UNCHANGED <<counter, expiring, faults>>
        /\ \A g \in Handler : g # h => hpc'[g] = hpc[g] /\ hreq'[g] = hreq[g]
    BY <1>8 DEF Arrive, Accept, GTypeOK
  <2> QED
    BY <1>3, <2>1
<1>9. ASSUME NEW h \in Handler, NEW c \in Client, NEW id \in DOMAIN intents, GetIntent(h, c, id)
      PROVE  LeakInv'
  BY <1>6, <1>9 DEF GetIntent, Accept, Fault, NoFault
<1>10. ASSUME NEW h \in Handler, Increment(h)
       PROVE  LeakInv'
  <2> DEFINE k == hreq[h].key
             n == counter[k] + 1
             incremented == [counter EXCEPT ![k] = n]
  <2>1. hpc[h] = "incr" /\ k \in Key /\ UNCHANGED expiring /\ counter[k] \in Nat
    BY <1>10 DEF Increment, GTypeOK, Request
  <2>2. CASE n <= Limit /\ counter' = incremented /\ NoFault
             /\ Goto(h, IF n = 1 THEN "expire" ELSE "lookup")
    <3>1. Leaked' \subseteq Leaked
      BY <2>1, <2>2 DEF Leaked, Goto, GTypeOK
    <3> QED
      BY <1>1, <2>2, <3>1 DEF NoFault, GTypeOK
  <2>3. CASE ~(n <= Limit) /\ counter' = incremented /\ NoFault /\ Done(h, Error(429))
    <3>1. counter[k] > 0
      BY <2>1, <2>3, GatewayAssumption
    <3>2. \A g \in Handler : hpc'[g] = "expire" <=> hpc[g] = "expire"
      BY <2>1, <2>3, DoneKeepsTypes
    <3>3. \A g \in Handler : hpc[g] = "expire" => hreq'[g] = hreq[g]
      BY <2>1, <2>3, DoneKeepsTypes
    <3>4. \A j \in Key : counter'[j] > 0 => counter[j] > 0
      BY <2>3, <3>1 DEF GTypeOK
    <3>5. Leaked' \subseteq Leaked
      BY <2>1, <3>2, <3>3, <3>4 DEF Leaked
    <3> QED
      BY <1>1, <2>3, <3>5 DEF NoFault, GTypeOK
  <2>4. CASE counter' \in {counter, incremented} /\ Goto(h, "lookup") /\ Fault("redis")
    <3>1. Leaked' \subseteq Leaked \cup {k}
      BY <2>1, <2>4 DEF Leaked, Goto, GTypeOK
    <3> QED
      BY <1>2, <2>4, <3>1 DEF Fault
  <2> QED
    BY <1>10, <2>2, <2>3, <2>4 DEF Increment, WithinLimit
<1>11. ASSUME NEW h \in Handler, SetExpiry(h)
       PROVE  LeakInv'
  <2> DEFINE k == hreq[h].key
  <2>1. hpc[h] = "expire" /\ k \in Key /\ UNCHANGED counter /\ Goto(h, "lookup")
    BY <1>11 DEF SetExpiry, GTypeOK, Request
  <2>2. CASE expiring' = expiring \cup {j \in {k} : counter[j] > 0} /\ NoFault
    <3>1. Leaked' \subseteq Leaked
      BY <2>1, <2>2 DEF Leaked, Goto, GTypeOK
    <3> QED
      BY <1>1, <2>2, <3>1 DEF NoFault, GTypeOK
  <2>3. CASE Fault("redis") /\ UNCHANGED expiring
    <3>1. Leaked' \subseteq Leaked \cup {k}
      BY <2>1, <2>3 DEF Leaked, Goto, GTypeOK
    <3> QED
      BY <1>2, <2>3, <3>1 DEF Fault
  <2> QED
    BY <1>11, <2>2, <2>3 DEF SetExpiry
<1>12. ASSUME NEW h \in Handler, BadRequest(h) \/ Refused(h)
       PROVE  LeakInv'
  BY <1>6, <1>12 DEF BadRequest, Refused
<1>13. ASSUME NEW h \in Handler, LookUp(h)
       PROVE  LeakInv'
  <2>1. /\ hpc[h] = "lookup" /\ UNCHANGED <<counter, expiring>> /\ faults' \in {faults, faults + 1}
        /\ Goto(h, "submit") \/ \E r : Done(h, r)
    BY <1>13 DEF LookUp, Fault, NoFault
  <2>2. CASE Goto(h, "submit")
    BY <1>3, <2>1, <2>2 DEF Goto, GTypeOK
  <2> QED
    BY <1>6, <2>1, <2>2
<1>14. ASSUME NEW h \in Handler, Submit(h)
       PROVE  LeakInv'
  <2>1. hpc[h] = "submit" /\ UNCHANGED <<counter, expiring>> /\ faults' \in {faults, faults + 1}
    BY <1>14 DEF Submit, Fault, NoFault
  <2>2. CASE hreq' = [hreq EXCEPT ![h].id = Len(intents) + 1] /\ hpc' = [hpc EXCEPT ![h] = "store"]
    BY <1>3, <2>1, <2>2 DEF GTypeOK
  <2> QED
    BY <1>6, <1>14, <2>1, <2>2 DEF Submit
<1>15. ASSUME NEW h \in Handler, StoreResponse(h)
       PROVE  LeakInv'
  BY <1>6, <1>15 DEF StoreResponse, Created, Fault, NoFault
<1>16. ASSUME NEW h \in Handler, Abandon(h)
       PROVE  LeakInv'
  <2>1. Leaked' \subseteq Leaked \cup {hreq[h].key}
    <3>1. \A g \in Handler : g # h => hpc'[g] = hpc[g] /\ hreq'[g] = hreq[g]
      BY <1>16, DoneKeepsTypes DEF Abandon
    <3> QED
      BY <1>16, <3>1 DEF Abandon, Leaked
  <2> QED
    BY <1>2, <1>16, <2>1 DEF Abandon, Fault
<1>17. CASE MinutePasses \/ \E s \in Signature : ResponseExpires(s)
  BY <1>4, <1>17 DEF MinutePasses, ResponseExpires
<1>18. ASSUME NEW k \in Key, KeyExpires(k)
       PROVE  LeakInv'
  <2>1. Leaked' \subseteq Leaked
    BY <1>18 DEF KeyExpires, Leaked, GTypeOK
  <2> QED
    BY <1>1, <1>18, <2>1 DEF KeyExpires, GTypeOK
<1> QED
  BY <1>4, <1>5, <1>7, <1>8, <1>9, <1>10, <1>11, <1>12, <1>13, <1>14, <1>15, <1>16, <1>17,
     <1>18 DEF GNext, Serve, Proceed, vars

(* NoLeakedKeys: INCR and EXPIRE are two calls, and other handlers may be  *)
(* between them too; still at most one key per fault is left without an    *)
(* expiry.                                                                 *)
THEOREM KeysLeakByFaults == GSpec => []NoLeakedKeys
<1>1. GInit => LeakInv
  <2>1. SUFFICES ASSUME GInit PROVE LeakInv
    OBVIOUS
  <2>2. Leaked = {}
    BY <2>1 DEF GInit, Leaked
  <2> QED
    BY <2>1, <2>2, FS_EmptySet DEF LeakInv, GInit
<1>2. LeakInv => NoLeakedKeys
  BY DEF LeakInv, NoLeakedKeys
<1> QED
  BY <1>1, <1>2, TypesHold, LeaksAreInductive, PTL DEF GSpec

-----------------------------------------------------------------------------
(* The limiter *)

(* Requests on their way to the counter of key k *)
Pending(k) == {h \in Handler : hpc[h] = "incr" /\ hreq[h].key = k}

(* While a minute lasts its counter stays in Redis, and counts whom it     *)
(* admits.  When it is over only the requests that are already on their    *)
(* way can be admitted too many, as no new one gets a key of the past.     *)
RateInv ==
  \A k \in Key :
    IF k[2] < minute
    THEN admitted[k] + Cardinality(Pending(k)) <= Limit + open[k] + Cardinality(Handler)
    ELSE admitted[k] <= counter[k] + open[k] /\ admitted[k] <= Limit + open[k]

LEMMA PendingIsFinite ==
  ASSUME NEW k
  PROVE  /\ IsFiniteSet(Handler) /\ Cardinality(Handler) \in Nat
         /\ IsFiniteSet(Pending(k)) /\ Cardinality(Pending(k)) \in Nat
         /\ Cardinality(Pending(k)) <= Cardinality(Handler)
<1>1. Pending(k) \in SUBSET Handler
  BY DEF Pending
<1> HIDE DEF Pending
<1> QED
  BY <1>1, GatewayAssumption, FS_Subset, FS_CardinalityType

LEMMA RateIsInductive ==
  ASSUME GTypeOK, RateInv, [GNext]_vars
  PROVE  RateInv' 
<1> USE DEF redis, handlers, history
<1>0. minute \in Nat /\ Limit \in Nat /\ \A k \in Key : k[2] \in Nat
  BY GatewayAssumption DEF GTypeOK, Minute, Key
(* Steps without an effect on the limiter; new requests are of the minute. *)
<1>1. ASSUME UNCHANGED <<minute, counter, admitted, open>>,
             \A k \in Key : k[2] < minute => Pending(k)' \subseteq Pending(k)
      PROVE  RateInv'
  <2>1. SUFFICES ASSUME NEW k \in Key, k[2] < minute
                 PROVE  admitted[k] + Cardinality(Pending(k)')
                          <= Limit + open[k] + Cardinality(Handler)
    BY <1>1 DEF RateInv
  <2>2. Cardinality(Pending(k)') \in Nat /\ Cardinality(Pending(k)') <= Cardinality(Pending(k))
    <3>1. IsFiniteSet(Pending(k))
      BY PendingIsFinite
    <3>2. Pending(k)' \in SUBSET Pending(k)
      BY <1>1, <2>1
    <3> HIDE DEF Pending
    <3> QED
      BY <3>1, <3>2, FS_Subset, FS_CardinalityType
  <2>3. admitted[k] + Cardinality(Pending(k)) <= Limit + open[k] + Cardinality(Handler)
    BY <2>1 DEF RateInv
  <2> QED
    BY <1>0, <2>2, <2>3, PendingIsFinite DEF GTypeOK
<1>2. ASSUME NEW h \in Handler, NEW r, Done(h, r), UNCHANGED <<minute, counter, admitted, open>>
      PROVE  RateInv'
  <2>1. \A k \in Key : Pending(k)' \subseteq Pending(k)
    BY <1>2, DoneKeepsTypes DEF Pending
  <2> QED
    BY <1>1, <1>2, <2>1
<1>3. ASSUME NEW h \in Handler, NEW l \in HandlerPC \ {"incr"}, hpc[h] # "idle", Goto(h, l),
             UNCHANGED <<minute, counter, admitted, open>>
      PROVE  RateInv'
  <2>1. \A k \in Key : Pending(k)' \subseteq Pending(k)
    BY <1>3, GotoKeepsTypes DEF Pending
  <2> QED
    BY <1>1, <1>3, <2>1
<1>4. CASE UNCHANGED <<minute, counter, admitted, open, hpc, hreq>>
  BY <1>1, <1>4 DEF Pending
<1>5. ASSUME NEW c \in Client, Login(c) \/ TokenExpires(c)
      PROVE  RateInv'
  BY <1>4, <1>5 DEF Login, TokenExpires
<1>6. ASSUME NEW h \in Handler, NEW c \in Client, Unauthorized(h, c)
      PROVE  RateInv'
  BY <1>2, <1>6 DEF Unauthorized
<1>7. ASSUME NEW h \in Handler, NEW c \in Client, NEW s \in Signature, NEW t, Arrive(h, c, s, t)
      PROVE  RateInv'
  <2>1. \A g \in Handler : g # h => hpc'[g] = hpc[g] /\ hreq'[g] = hreq[g]
    BY <1>7 DEF Arrive, GTypeOK
  <2>2. hreq'[h].key = <<c, minute>>
    BY <1>7 DEF Arrive, GTypeOK, MinuteKey
  <2>3. ASSUME NEW k \in Key, k[2] < minute
        PROVE  Pending(k)' \subseteq Pending(k)
    <3>1. hreq'[h].key # k
      BY <1>0, <2>2, <2>3
    <3> QED
      BY <2>1, <3>1 DEF Pending
  <2> QED
    BY <1>1, <1>7, <2>3 DEF Arrive
<1>8. ASSUME NEW h \in Handler, NEW c \in Client, NEW id \in DOMAIN intents, GetIntent(h, c, id)
      PROVE  RateInv'
  BY <1>2, <1>8 DEF GetIntent
<1>9. ASSUME NEW h \in Handler, Increment(h)
      PROVE  RateInv'
  <2> DEFINE key == hreq[h].key
             n == counter[key] + 1
             incremented == [counter EXCEPT ![key] = n]
  <2>1. hpc[h] = "incr" /\ key \in Key /\ minute' = minute
    BY <1>9 DEF Increment, GTypeOK, Request
  <2>2. /\ counter' \in {counter, incremented}
        /\ \/ counter' = incremented /\ n <= Limit /\ Admit(h) /\ open' = open
           \/ counter' = incremented /\ admitted' = admitted /\ open' = open
           \/ Admit(h) /\ open' = [open EXCEPT ![key] = @ + 1]
    BY <1>9 DEF Increment, WithinLimit
  <2>3. hpc'[h] # "incr" /\ \A g \in Handler : g # h => hpc'[g] = hpc[g] /\ hreq'[g] = hreq[g]
    BY <1>9 DEF Increment, Goto, Done, GTypeOK
  (* The other keys *)
  <2>4. ASSUME NEW k \in Key, k # key
        PROVE  /\ Pending(k)' = Pending(k) 
               /\ counter'[k] = counter[k] /\ admitted'[k] = admitted[k] /\ open'[k] = open[k]
    <3>1. Pending(k)' = Pending(k)
      BY <2>1, <2>3, <2>4 DEF Pending
    <3> QED
      BY <2>1, <2>2, <2>4, <3>1 DEF Admit, GTypeOK
  <2>5. ASSUME NEW k \in Key, k = key
        PROVE  Pending(k)' = Pending(k) \ {h} /\ h \in Pending(k)
    BY <2>1, <2>3, <2>5 DEF Pending
  <2>6. ASSUME NEW k \in Key, k = key
        PROVE  Cardinality(Pending(k)') + 1 = Cardinality(Pending(k)) /\ Cardinality(Pending(k)') \in Nat
    <3> HIDE DEF Pending
    <3>1. Cardinality(Pending(k) \ {h}) = Cardinality(Pending(k)) - 1 /\ IsFiniteSet(Pending(k) \ {h})
      BY <2>5, <2>6, PendingIsFinite, FS_RemoveElement
    <3>2. Cardinality(Pending(k) \ {h}) \in Nat
      BY <3>1, FS_CardinalityType
    <3>3. Pending(k)' = Pending(k) \ {h}
      BY <2>5, <2>6
    <3>4. Cardinality(Pending(k)) \in Nat
      BY PendingIsFinite
    <3> QED
      BY <3>1, <3>2, <3>3, <3>4
  <2>7. ASSUME NEW k \in Key, k = key
        PROVE  /\ counter'[k] \in {counter[k], counter[k] + 1}
               /\ \/ /\ counter'[k] = counter[k] + 1 /\ counter[k] + 1 <= Limit
                     /\ admitted'[k] = admitted[k] + 1 /\ open'[k] = open[k]
                  \/ /\ counter'[k] = counter[k] + 1
                     /\ admitted'[k] = admitted[k] /\ open'[k] = open[k]
                  \/ admitted'[k] = admitted[k] + 1 /\ open'[k] = open[k] + 1
    BY <2>1, <2>2, <2>7 DEF Admit, GTypeOK
  <2>8. ASSUME NEW k \in Key
         PROVE  IF k[2] < minute
                THEN admitted'[k] + Cardinality(Pending(k)') <= Limit + open'[k] + Cardinality(Handler)
                ELSE admitted'[k] <= counter'[k] + open'[k] /\ admitted'[k] <= Limit + open'[k]
    <3>1. counter[k] \in Nat /\ admitted[k] \in Nat /\ open[k] \in Nat
      BY DEF GTypeOK
    <3>2. IF k[2] < minute
          THEN admitted[k] + Cardinality(Pending(k)) <= Limit + open[k] + Cardinality(Handler)
          ELSE admitted[k] <= counter[k] + open[k] /\ admitted[k] <= Limit + open[k]
      BY DEF RateInv
    <3>3. CASE k # key
      BY <2>4, <3>2, <3>3
    <3>4. CASE k = key
      <4> DEFINE before == Cardinality(Pending(k))
                 after == Cardinality(Pending(k)')
                 all == Cardinality(Handler)
      <4>1. before \in Nat /\ after \in Nat /\ all \in Nat /\ after + 1 = before /\ before <= all
        BY <2>6, <3>4, PendingIsFinite
      <4>2. \/ /\ counter'[k] = counter[k] + 1 /\ counter[k] + 1 <= Limit
               /\ admitted'[k] = admitted[k] + 1 /\ open'[k] = open[k]
            \/ /\ counter'[k] = counter[k] + 1
               /\ admitted'[k] = admitted[k] /\ open'[k] = open[k]
            \/ /\ counter'[k] \in {counter[k], counter[k] + 1}
               /\ admitted'[k] = admitted[k] + 1 /\ open'[k] = open[k] + 1
        BY <2>7, <3>4
      <4> HIDE DEF before, after, all
      <4>3. IF k[2] < minute
            THEN admitted[k] + before <= Limit + open[k] + all
            ELSE admitted[k] <= counter[k] + open[k] /\ admitted[k] <= Limit + open[k]
        BY <3>2 DEF before, all
      <4>4. IF k[2] < minute
            THEN admitted'[k] + after <= Limit + open'[k] + all
            ELSE admitted'[k] <= counter'[k] + open'[k] /\ admitted'[k] <= Limit + open'[k]
        BY <1>0, <3>1, <4>1, <4>2, <4>3
      <4> QED
        BY <4>4 DEF after, all
    <3> QED
      BY <3>3, <3>4
  <2> QED
    BY <2>1, <2>8 DEF RateInv
<1>10. ASSUME NEW h \in Handler, SetExpiry(h)
       PROVE  RateInv'
  BY <1>3, <1>10 DEF SetExpiry, HandlerPC
<1>11. ASSUME NEW h \in Handler, BadRequest(h) \/ Refused(h)
       PROVE  RateInv'
  BY <1>2, <1>11 DEF BadRequest, Refused
<1>12. ASSUME NEW h \in Handler, LookUp(h)
       PROVE  RateInv'
  BY <1>2, <1>3, <1>12 DEF LookUp, HandlerPC
<1>13. ASSUME NEW h \in Handler, Submit(h)
       PROVE  RateInv'
  <2>1. CASE hreq' = [hreq EXCEPT ![h].id = Len(intents) + 1] /\ hpc' = [hpc EXCEPT ![h] = "store"]
    <3>1. \A g \in Handler : hpc'[g] = "incr" => hpc[g] = "incr" /\ hreq'[g] = hreq[g]
      BY <2>1 DEF GTypeOK
    <3>2. \A k \in Key : Pending(k)' \subseteq Pending(k)
      BY <3>1 DEF Pending
    <3> QED
      BY <1>1, <1>13, <3>2 DEF Submit
  <2> QED
    BY <1>2, <1>13, <2>1 DEF Submit
<1>14. ASSUME NEW h \in Handler, StoreResponse(h) \/ Abandon(h)
       PROVE  RateInv'
  BY <1>2, <1>14 DEF StoreResponse, Created, Abandon
<1>15. CASE MinutePasses
  <2>1. SUFFICES ASSUME NEW k \in Key
                 PROVE  IF k[2] < minute'
                        THEN admitted[k] + Cardinality(Pending(k))
                               <= Limit + open[k] + Cardinality(Handler)
                        ELSE admitted[k] <= counter[k] + open[k] /\ admitted[k] <= Limit + open[k]
    BY <1>15 DEF MinutePasses, RateInv, Pending
  <2>2. counter[k] \in Nat /\ admitted[k] \in Nat /\ open[k] \in Nat /\ minute' = minute + 1
    BY <1>15 DEF GTypeOK, MinutePasses
  <2>3. IF k[2] < minute
        THEN admitted[k] + Cardinality(Pending(k)) <= Limit + open[k] + Cardinality(Handler)
        ELSE admitted[k] <= counter[k] + open[k] /\ admitted[k] <= Limit + open[k]
    BY DEF RateInv
  <2> QED
    BY <1>0, <2>2, <2>3, PendingIsFinite
<1>16. ASSUME NEW j \in Key, KeyExpires(j)
       PROVE  RateInv'
  <2>1. /\ UNCHANGED <<minute, admitted, open, hpc, hreq>> /\ j[2] < minute
        /\ \A k \in Key : k # j => counter'[k] = counter[k]
    BY <1>16 DEF KeyExpires, GTypeOK
  <2>2. \A k \in Key : Pending(k)' = Pending(k)
    BY <2>1 DEF Pending
  <2> QED
    BY <2>1, <2>2 DEF RateInv
<1>17. CASE \E s \in Signature : ResponseExpires(s)
  BY <1>4, <1>17 DEF ResponseExpires
<1> QED
  BY <1>4, <1>5, <1>6, <1>7, <1>8, <1>9, <1>10, <1>11, <1>12, <1>13, <1>14, <1>15, <1>16,
     <1>17 DEF GNext, Serve, Proceed, vars

(* RateLimited: for any limit and any number of handlers, a client gets    *)
(* through Limit requests of a minute, those Redis failed for and, after   *)
(* the minute, at most one more per handler.                               *)
THEOREM LimitHolds == GSpec => []RateLimited
<1>1. GInit => RateInv
  <2>1. SUFFICES ASSUME GInit, NEW k \in Key
                 PROVE  ~(k[2] < minute) /\ admitted[k] <= counter[k] + open[k]
                        /\ admitted[k] <= Limit + open[k]
    BY DEF RateInv
  <2> QED
    BY <2>1, GatewayAssumption DEF GInit, Key, Minute
<1>2. GTypeOK /\ RateInv => RateLimited
  <2>1. SUFFICES ASSUME GTypeOK, RateInv, NEW k \in Key
                 PROVE  admitted[k] <= Limit + open[k]
                                         + (IF k[2] < minute THEN Cardinality(Handler) ELSE 0)
    BY DEF RateLimited
  <2>2. admitted[k] \in Nat /\ open[k] \in Nat
    BY <2>1 DEF GTypeOK
  <2>3. IF k[2] < minute
        THEN admitted[k] + Cardinality(Pending(k)) <= Limit + open[k] + Cardinality(Handler)
        ELSE admitted[k] <= Limit + open[k]
    BY <2>1 DEF RateInv
  <2> QED
    BY <2>2, <2>3, PendingIsFinite, GatewayAssumption
<1> QED
  BY <1>1, <1>2, TypesHold, RateIsInductive, PTL DEF GSpec

-----------------------------------------------------------------------------
(* Duplicates *)

(* Handlers of requests with signature s that are about to submit or store *)
Busy(l, s) == {h \in Handler : hpc[h] = l /\ hreq[h].sig = s}

CopyIds(table, s) == {i \in DOMAIN table : table[i].sig = s}

(* One round of duplicates for each time a response expired *)
PastRounds == Cardinality(Handler) * days

(* Without a cached response every copy of the current round belongs to a  *)
(* handler that has yet to cache it; with one, no more follow than are     *)
(* about to be submitted.                                                  *)
DupBound(s) ==
  IF cache[s] = 0
  THEN Copies(s) <= PastRounds + faults + Cardinality(Busy("store", s))
  ELSE Copies(s) + Cardinality(Busy("submit", s)) <= PastRounds + Cardinality(Handler) + faults

DupInv == \A s \in Signature : DupBound(s)

LEMMA BusyIsFinite ==
  ASSUME NEW l, NEW s
  PROVE  /\ IsFiniteSet(Busy(l, s)) /\ Cardinality(Busy(l, s)) \in Nat
         /\ IsFiniteSet(Handler) /\ Cardinality(Handler) \in Nat
         /\ Cardinality(Busy(l, s)) <= Cardinality(Handler)
<1>1. Busy(l, s) \in SUBSET Handler
  BY DEF Busy
<1> QED
  BY <1>1, GatewayAssumption, FS_Subset, FS_CardinalityType

(* A handler does one thing at a time. *)
LEMMA BusyOnce ==
  ASSUME NEW s
  PROVE  Cardinality(Busy("submit", s)) + Cardinality(Busy("store", s)) <= Cardinality(Handler)
<1> DEFINE A == Busy("submit", s)
           B == Busy("store", s)
<1>1. A \cap B = {} /\ A \cup B \in SUBSET Handler
  BY DEF Busy
<1>2. /\ IsFiniteSet(A) /\ Cardinality(A) \in Nat /\ IsFiniteSet(B) /\ Cardinality(B) \in Nat
      /\ Cardinality(Handler) \in Nat
  BY BusyIsFinite
<1> HIDE DEF A, B
<1>3. IsFiniteSet(A \cup B) /\ Cardinality(A \cup B) = Cardinality(A) + Cardinality(B) - Cardinality(A \cap B)
  BY <1>2, FS_Union
<1>4. Cardinality(A \cap B) = 0
  BY <1>1, FS_EmptySet
<1>5. Cardinality(A \cup B) <= Cardinality(Handler)
  BY <1>1, FS_Subset, GatewayAssumption
<1>6. Cardinality(A) + Cardinality(B) <= Cardinality(Handler)
  BY <1>2, <1>3, <1>4, <1>5
<1> QED
  BY <1>6 DEF A, B

LEMMA CopyIdsAreFinite ==
  ASSUME NEW table \in Seq(Row), NEW s
  PROVE  IsFiniteSet(CopyIds(table, s)) /\ Cardinality(CopyIds(table, s)) \in Nat
<1>1. DOMAIN table = 1 .. Len(table) /\ Len(table) \in Nat
  OBVIOUS
<1>2. IsFiniteSet(DOMAIN table)
  BY <1>1, FS_Interval
<1>3. CopyIds(table, s) \in SUBSET DOMAIN table
  BY DEF CopyIds
<1> QED
  BY <1>2, <1>3, FS_Subset, FS_CardinalityType

LEMMA CopiesAreFinite ==
  ASSUME GTypeOK, NEW s
  PROVE  /\ Copies(s) = Cardinality(CopyIds(intents, s))
         /\ IsFiniteSet(CopyIds(intents, s)) /\ Copies(s) \in Nat
BY CopyIdsAreFinite DEF Copies, CopyIds, GTypeOK

(* A new row is a copy for its own signature. *)
LEMMA OneCopyMore ==
  ASSUME GTypeOK, AnswerInv, NEW h \in Handler, hpc[h] = "submit", NEW s
  PROVE  /\ hreq[h].sig = s => Cardinality(CopyIds(Stored(h), s)) = Copies(s) + 1
         /\ hreq[h].sig # s => Cardinality(CopyIds(Stored(h), s)) = Copies(s)
<1> DEFINE new == Len(intents) + 1
<1>1. /\ DOMAIN intents = 1 .. Len(intents) /\ Len(intents) \in Nat
      /\ DOMAIN Stored(h) = 1 .. new
      /\ \A i \in DOMAIN intents : Stored(h)[i] = intents[i]
      /\ Stored(h)[new].sig = hreq[h].sig
  BY TableGrows DEF GTypeOK
<1>2. DOMAIN Stored(h) = DOMAIN intents \cup {new} /\ new \notin DOMAIN intents
  BY <1>1
<1>3. hreq[h].sig # s => CopyIds(Stored(h), s) = CopyIds(intents, s)
  BY <1>1, <1>2 DEF CopyIds
<1>4. hreq[h].sig = s => CopyIds(Stored(h), s) = CopyIds(intents, s) \cup {new}
  BY <1>1, <1>2 DEF CopyIds
<1>5. new \notin CopyIds(intents, s)
  BY <1>2 DEF CopyIds
<1>6. Cardinality(CopyIds(intents, s) \cup {new}) = Cardinality(CopyIds(intents, s)) + 1
  BY <1>5, CopiesAreFinite, FS_AddElement
<1> QED
  BY <1>3, <1>4, <1>6, CopiesAreFinite

LEMMA Balance ==
  ASSUME NEW c0 \in Nat, NEW c1 \in Nat, NEW f0 \in Nat, NEW f1 \in Nat, NEW m0 \in Nat, NEW m1 \in Nat,
         NEW r \in Nat
  PROVE  /\ c0 <= r + f0 + m0 /\ c1 + f0 + m0 <= c0 + f1 + m1 => c1 <= r + f1 + m1
         /\ c0 + m0 <= r + f0 /\ c1 + f0 + m1 <= c0 + f1 + m0 => c1 + m1 <= r + f1
OBVIOUS

(* A step that does not touch the cached response may make a copy for a    *)
(* fault, or for a handler that then has it to cache.                      *)
LEMMA BoundIsKept ==
  ASSUME GTypeOK, GTypeOK', NEW s \in Signature, DupBound(s),
         cache'[s] = 0 <=> cache[s] = 0,
         days' = days,
         cache[s] = 0 =>
           Copies(s)' + faults + Cardinality(Busy("store", s))
             <= Copies(s) + faults' + Cardinality(Busy("store", s)'),
         cache[s] # 0 =>
           Copies(s)' + faults + Cardinality(Busy("submit", s)')
             <= Copies(s) + faults' + Cardinality(Busy("submit", s))
  PROVE  DupBound(s)'
<1>1. Copies(s) \in Nat /\ Copies(s)' \in Nat
  <2>1. Copies(s)' = Cardinality(CopyIds(intents', s)) /\ intents' \in Seq(Row)
    BY DEF Copies, CopyIds, GTypeOK
  <2> QED
    BY <2>1, CopiesAreFinite, CopyIdsAreFinite
<1>2. /\ Cardinality(Busy("store", s)) \in Nat /\ Cardinality(Busy("submit", s)) \in Nat
      /\ Cardinality(Handler) \in Nat
  BY BusyIsFinite
<1>3. Cardinality(Busy("store", s)') \in Nat /\ Cardinality(Busy("submit", s)') \in Nat
  <2>1. Busy("store", s)' \in SUBSET Handler /\ Busy("submit", s)' \in SUBSET Handler
    BY DEF Busy
  <2> QED
    BY <2>1, GatewayAssumption, FS_Subset, FS_CardinalityType
<1>4. faults \in Nat /\ faults' \in Nat
  BY DEF GTypeOK
<1>5. PastRounds \in Nat /\ PastRounds' = PastRounds /\ PastRounds + Cardinality(Handler) \in Nat
  BY <1>2 DEF PastRounds, GTypeOK
<1>6. CASE cache[s] = 0
  <2>1. Copies(s) <= PastRounds + faults + Cardinality(Busy("store", s))
    BY <1>6 DEF DupBound
  <2>2. Copies(s)' <= PastRounds + faults' + Cardinality(Busy("store", s)')
    BY <1>1, <1>2, <1>3, <1>4, <1>5, <1>6, <2>1, Balance
  <2> QED
    BY <1>5, <1>6, <2>2 DEF DupBound
<1>7. CASE cache[s] # 0
  <2>1. Copies(s) + Cardinality(Busy("submit", s)) <= PastRounds + Cardinality(Handler) + faults
    BY <1>7 DEF DupBound
  <2>2. Copies(s)' + Cardinality(Busy("submit", s)') <= PastRounds + Cardinality(Handler) + faults'
    BY <1>1, <1>2, <1>3, <1>4, <1>5, <1>7, <2>1, Balance
  <2> QED
    BY <1>5, <1>7, <2>2 DEF DupBound
<1> QED
  BY <1>6, <1>7

LEMMA DupIsInductive ==
  ASSUME GTypeOK, GTypeOK', AnswerInv, DupInv, [GNext]_vars
  PROVE  DupInv'
<1> USE DEF redis, handlers, history
<1>0. SUFFICES ASSUME NEW s \in Signature, DupBound(s)
               PROVE  DupBound(s)'
  BY DEF DupInv
<1>1. /\ faults \in Nat /\ faults' \in Nat /\ days \in Nat
      /\ Copies(s) \in Nat /\ IsFiniteSet(CopyIds(intents, s))
      /\ Copies(s)' = Cardinality(CopyIds(intents', s))
      /\ Cardinality(Busy("store", s)) \in Nat /\ IsFiniteSet(Busy("store", s))
      /\ Cardinality(Busy("submit", s)) \in Nat /\ IsFiniteSet(Busy("submit", s))
      /\ Cardinality(Handler) \in Nat
  <2>1. Copies(s)' = Cardinality(CopyIds(intents', s))
    BY DEF Copies, CopyIds
  <2> QED
    BY <2>1, CopiesAreFinite, BusyIsFinite DEF GTypeOK
<1>2. IsFiniteSet(Busy("store", s)') /\ Cardinality(Busy("store", s)') \in Nat
  <2>1. Busy("store", s)' \in SUBSET Handler
    BY DEF Busy
  <2> QED
    BY <2>1, GatewayAssumption, FS_Subset, FS_CardinalityType
(* Steps in which no handler gets to submit or store *)
<1>3. ASSUME UNCHANGED <<cache, days>>, Copies(s)' = Copies(s), faults' \in {faults, faults + 1},
             Busy("store", s)' = Busy("store", s), Busy("submit", s)' \subseteq Busy("submit", s)
      PROVE  DupBound(s)'
  <2>1. Cardinality(Busy("submit", s)') <= Cardinality(Busy("submit", s))
        /\ Cardinality(Busy("submit", s)') \in Nat
    <3>1. Cardinality(Busy("submit", s)) <= Cardinality(Busy("submit", s))
      BY <1>1
    <3>2. IsFiniteSet(Busy("submit", s)') /\ Cardinality(Busy("submit", s)') <= Cardinality(Busy("submit", s))
      BY <1>1, <1>3, <3>1, NoMore
    <3> QED
      BY <3>2, FS_CardinalityType
  <2>2. Copies(s)' + faults + Cardinality(Busy("store", s))
          <= Copies(s) + faults' + Cardinality(Busy("store", s)')
    BY <1>1, <1>3
  <2>3. Copies(s)' + faults + Cardinality(Busy("submit", s)')
          <= Copies(s) + faults' + Cardinality(Busy("submit", s))
    BY <1>1, <1>3, <2>1
  <2> QED
    BY <1>0, <1>3, <2>2, <2>3, BoundIsKept
<1>4. UNCHANGED intents => Copies(s)' = Copies(s)
  BY DEF Copies
<1>5. ASSUME NEW h \in Handler, NEW r, Done(h, r), hpc[h] # "store"
      PROVE  Busy("store", s)' = Busy("store", s) /\ Busy("submit", s)' \subseteq Busy("submit", s)
  BY <1>5, DoneKeepsTypes DEF Busy
<1>6. ASSUME NEW h \in Handler, NEW r, Done(h, r), hpc[h] # "store", UNCHANGED <<intents, cache, days>>,
             faults' \in {faults, faults + 1}
      PROVE  DupBound(s)'
  BY <1>3, <1>4, <1>5, <1>6
<1>7. CASE UNCHANGED <<intents, cache, days, hpc, hreq, faults>>
  BY <1>3, <1>4, <1>7 DEF Busy
<1>8. ASSUME NEW h \in Handler, NEW l \in {"expire", "lookup"}, hpc[h] \in {"incr", "expire"}, Goto(h, l),
             UNCHANGED <<intents, cache, days>>, faults' \in {faults, faults + 1}
      PROVE  DupBound(s)'
  <2>1. Busy("store", s)' = Busy("store", s) /\ Busy("submit", s)' = Busy("submit", s)
    BY <1>8 DEF Goto, Busy, GTypeOK
  <2> QED
    BY <1>3, <1>4, <1>8, <2>1
(* A handler that had a response to cache gives up: a fault *)
<1>9. ASSUME NEW h \in Handler, NEW r, Done(h, r), hpc[h] = "store", UNCHANGED <<intents, cache, days>>,
             faults' = faults + 1
      PROVE  DupBound(s)'
  <2>1. Busy("submit", s)' = Busy("submit", s) /\ Busy("store", s) \subseteq Busy("store", s)' \cup {h}
    BY <1>9, DoneKeepsTypes DEF Busy
  <2>2. Cardinality(Busy("store", s)) <= Cardinality(Busy("store", s)') + 1
    <3>1. Cardinality(Busy("store", s)') <= Cardinality(Busy("store", s)')
      BY <1>2
    <3> QED
      BY <1>2, <2>1, <3>1, AtMostOneMore
  <2>3. Copies(s)' + faults + Cardinality(Busy("store", s))
          <= Copies(s) + faults' + Cardinality(Busy("store", s)')
    BY <1>1, <1>2, <1>4, <1>9, <2>2
  <2>4. Copies(s)' + faults + Cardinality(Busy("submit", s)')
          <= Copies(s) + faults' + Cardinality(Busy("submit", s))
    BY <1>1, <1>4, <1>9, <2>1
  <2> QED
    BY <1>0, <1>9, <2>3, <2>4, BoundIsKept
<1>10. ASSUME NEW c \in Client, Login(c) \/ TokenExpires(c)
       PROVE  DupBound(s)'
  BY <1>7, <1>10 DEF Login, TokenExpires
<1>11. ASSUME NEW h \in Handler, NEW c \in Client, Unauthorized(h, c)
       PROVE  DupBound(s)'
  BY <1>6, <1>11 DEF Unauthorized, Accept
<1>12. ASSUME NEW h \in Handler, NEW c \in Client, NEW t \in Signature, NEW n, Arrive(h, c, t, n)
       PROVE  DupBound(s)'
  <2>1. Busy("store", s)' = Busy("store", s) /\ Busy("submit", s)' = Busy("submit", s)
    BY <1>12 DEF Arrive, Accept, Busy, GTypeOK
  <2> QED
    BY <1>3, <1>4, <1>12, <2>1 DEF Arrive
<1>13. ASSUME NEW h \in Handler, NEW c \in Client, NEW id \in DOMAIN intents, GetIntent(h, c, id)
       PROVE  DupBound(s)'
  BY <1>6, <1>13 DEF GetIntent, Accept, Fault, NoFault
<1>14. ASSUME NEW h \in Handler, Increment(h)
       PROVE  DupBound(s)'
  <2>1. /\ hpc[h] = "incr" /\ UNCHANGED <<intents, cache, days>> /\ faults' \in {faults, faults + 1}
        /\ Done(h, Error(429)) \/ Goto(h, "expire") \/ Goto(h, "lookup")
    BY <1>14 DEF Increment, Fault, NoFault
  <2> QED
    BY <1>6, <1>8, <2>1
<1>15. ASSUME NEW h \in Handler, SetExpiry(h)
       PROVE  DupBound(s)'
  BY <1>8, <1>15 DEF SetExpiry, Fault, NoFault
<1>16. ASSUME NEW h \in Handler, BadRequest(h) \/ Refused(h)
       PROVE  DupBound(s)'
  BY <1>6, <1>16 DEF BadRequest, Refused
(* A miss, which is a fault when there is a cached response *)
<1>17. ASSUME NEW h \in Handler, LookUp(h)
       PROVE  DupBound(s)'
  <2>1. hpc[h] = "lookup" /\ UNCHANGED <<intents, cache, days>> /\ faults' \in {faults, faults + 1}
    BY <1>17 DEF LookUp, Fault, NoFault
  <2>2. CASE Goto(h, "submit") /\ (cache[hreq[h].sig] = 0 \/ faults' = faults + 1)
    <3>1. Busy("store", s)' = Busy("store", s) /\ Busy("submit", s)' \subseteq Busy("submit", s) \cup {h}
      BY <2>1, <2>2 DEF Goto, Busy, GTypeOK
    <3>2. hreq[h].sig # s => Busy("submit", s)' = Busy("submit", s)
      BY <2>1, <2>2 DEF Goto, Busy, GTypeOK
    <3>3. CASE hreq[h].sig # s
      BY <1>3, <1>4, <2>1, <3>1, <3>2, <3>3
    <3>4. CASE hreq[h].sig = s
      <4>1. Cardinality(Busy("submit", s)') <= Cardinality(Busy("submit", s)) + 1
            /\ Cardinality(Busy("submit", s)') \in Nat
        <5>1. Cardinality(Busy("submit", s)) <= Cardinality(Busy("submit", s))
          BY <1>1
        <5>2. IsFiniteSet(Busy("submit", s)')
              /\ Cardinality(Busy("submit", s)') <= Cardinality(Busy("submit", s)) + 1
          BY <1>1, <3>1, <5>1, AtMostOneMore
        <5> QED
          BY <5>2, FS_CardinalityType
      <4>2. Copies(s)' + faults + Cardinality(Busy("store", s))
              <= Copies(s) + faults' + Cardinality(Busy("store", s)')
        BY <1>1, <1>4, <2>1, <3>1
      <4>3. cache[s] # 0 =>
              Copies(s)' + faults + Cardinality(Busy("submit", s)')
                <= Copies(s) + faults' + Cardinality(Busy("submit", s))
        <5>1. cache[s] # 0 => faults' = faults + 1
          BY <2>2, <3>4
        <5> QED
          BY <1>1, <1>4, <2>1, <4>1, <5>1
      <4> QED
        BY <1>0, <2>1, <4>2, <4>3, BoundIsKept
    <3> QED
      BY <3>3, <3>4
  <2> QED
    BY <1>6, <1>17, <2>1, <2>2 DEF LookUp, Fault
<1>18. ASSUME NEW h \in Handler, Submit(h)
       PROVE  DupBound(s)'
  <2>1. hpc[h] = "submit" /\ UNCHANGED <<cache, days>> /\ hreq[h] \in Request
    BY <1>18 DEF Submit, GTypeOK
  <2>2. /\ hreq[h].sig = s => Cardinality(CopyIds(Stored(h), s)) = Copies(s) + 1
        /\ hreq[h].sig # s => Cardinality(CopyIds(Stored(h), s)) = Copies(s)
    BY <2>1, OneCopyMore
  (* Stored, and the handler knows *)
  <2>3. CASE /\ intents' = Stored(h) /\ NoFault
             /\ hreq' = [hreq EXCEPT ![h].id = Len(intents) + 1]
             /\ hpc' = [hpc EXCEPT ![h] = "store"]
    <3>1. hpc'[h] = "store" /\ hreq'[h].sig = hreq[h].sig
          /\ \A g \in Handler : g # h => hpc'[g] = hpc[g] /\ hreq'[g] = hreq[g]
      BY <2>1, <2>3 DEF GTypeOK, Request
    <3>2. CASE hreq[h].sig # s
      <4>1. Busy("store", s)' = Busy("store", s) /\ Busy("submit", s)' = Busy("submit", s)
        BY <3>1, <3>2 DEF Busy
      <4>2. Copies(s)' = Copies(s)
        BY <1>1, <2>2, <2>3, <3>2
      <4> QED
        BY <1>3, <2>1, <2>3, <4>1, <4>2 DEF NoFault
    <3>3. CASE hreq[h].sig = s
      <4>1. /\ Busy("store", s)' = Busy("store", s) \cup {h} /\ h \notin Busy("store", s)
            /\ Busy("submit", s)' = Busy("submit", s) \ {h} /\ h \in Busy("submit", s)
        BY <2>1, <3>1, <3>3 DEF Busy
      <4>2. Cardinality(Busy("store", s)') = Cardinality(Busy("store", s)) + 1
        BY <1>1, <4>1, FS_AddElement
      <4>3. Cardinality(Busy("submit", s)') = Cardinality(Busy("submit", s)) - 1
        BY <1>1, <4>1, FS_RemoveElement
      <4>4. Copies(s)' = Copies(s) + 1 /\ faults' = faults
        BY <1>1, <2>2, <2>3, <3>3 DEF NoFault
      <4>5. Copies(s)' + faults + Cardinality(Busy("store", s))
              <= Copies(s) + faults' + Cardinality(Busy("store", s)')
        BY <1>1, <4>2, <4>4
      <4>6. Copies(s)' + faults + Cardinality(Busy("submit", s)')
              <= Copies(s) + faults' + Cardinality(Busy("submit", s))
        BY <1>1, <4>3, <4>4
      <4> QED
        BY <1>0, <2>1, <4>5, <4>6, BoundIsKept
    <3> QED
      BY <3>2, <3>3
  (* The call fails, and may have stored the intent. *)
  <2>4. CASE /\ intents' \in {intents, Stored(h)} /\ Fault("grpc")
             /\ \E e \in CallError : Done(h, Error(HTTPCode[e]))
    <3>1. Busy("store", s)' = Busy("store", s) /\ Busy("submit", s)' \subseteq Busy("submit", s)
      BY <1>5, <2>1, <2>4
    <3>2. Copies(s)' \in {Copies(s), Copies(s) + 1} /\ faults' = faults + 1
      BY <1>1, <1>4, <2>2, <2>4 DEF Fault
    <3>3. Cardinality(Busy("submit", s)') <= Cardinality(Busy("submit", s))
          /\ Cardinality(Busy("submit", s)') \in Nat
      <4>1. IsFiniteSet(Busy("submit", s)')
            /\ Cardinality(Busy("submit", s)') <= Cardinality(Busy("submit", s))
        BY <1>1, <3>1, NoMore
      <4> QED
        BY <4>1, FS_CardinalityType
    <3>4. Copies(s)' + faults + Cardinality(Busy("store", s))
            <= Copies(s) + faults' + Cardinality(Busy("store", s)')
      BY <1>1, <3>1, <3>2
    <3>5. Copies(s)' + faults + Cardinality(Busy("submit", s)')
            <= Copies(s) + faults' + Cardinality(Busy("submit", s))
      BY <1>1, <3>2, <3>3
    <3> QED
      BY <1>0, <2>1, <3>4, <3>5, BoundIsKept
  <2> QED
    BY <1>18, <2>3, <2>4 DEF Submit
<1>19. ASSUME NEW h \in Handler, StoreResponse(h)
       PROVE  DupBound(s)'
  <2>1. /\ hpc[h] = "store" /\ UNCHANGED <<intents, days>> /\ \E r : Done(h, r)
        /\ IsStored(intents, hreq[h].id, hreq[h].sig)
    BY <1>19 DEF StoreResponse, Created, AnswerInv
  <2>2. hreq[h].id # 0
    BY <2>1 DEF IsStored, GTypeOK
  <2>3. /\ Busy("submit", s)' = Busy("submit", s)
        /\ hreq[h].sig # s => Busy("store", s)' = Busy("store", s)
    BY <2>1, DoneKeepsTypes DEF Busy
  <2>4. CASE cache' = [cache EXCEPT ![hreq[h].sig] = hreq[h].id] /\ NoFault
    <3>1. CASE hreq[h].sig # s
      <4>1. cache'[s] = cache[s]
        BY <2>4, <3>1 DEF GTypeOK
      <4>2. Copies(s)' + faults + Cardinality(Busy("store", s))
              <= Copies(s) + faults' + Cardinality(Busy("store", s)')
        BY <1>1, <1>4, <2>1, <2>3, <2>4, <3>1 DEF NoFault
      <4>3. Copies(s)' + faults + Cardinality(Busy("submit", s)')
              <= Copies(s) + faults' + Cardinality(Busy("submit", s))
        BY <1>1, <1>4, <2>1, <2>3, <2>4 DEF NoFault
      <4> QED
        BY <1>0, <2>1, <4>1, <4>2, <4>3, BoundIsKept
    (* The round is over: those about to submit are not about to store. *)
    <3>2. CASE hreq[h].sig = s
      <4>1. cache'[s] # 0
        BY <2>2, <2>4, <3>2 DEF GTypeOK
      <4>2. PastRounds \in Nat /\ PastRounds' = PastRounds
        BY <1>1, <2>1 DEF PastRounds
      <4>3. Cardinality(Busy("submit", s)) + Cardinality(Busy("store", s)) <= Cardinality(Handler)
        BY BusyOnce
      <4>4. Copies(s) + Cardinality(Busy("submit", s)) <= PastRounds + Cardinality(Handler) + faults
        <5>1. CASE cache[s] # 0
          BY <1>0, <5>1 DEF DupBound
        <5>2. CASE cache[s] = 0
          <6>1. Copies(s) <= PastRounds + faults + Cardinality(Busy("store", s))
            BY <1>0, <5>2 DEF DupBound
          <6> QED
            BY <1>1, <4>2, <4>3, <6>1
        <5> QED
          BY <5>1, <5>2
      <4>5. Copies(s)' + Cardinality(Busy("submit", s)') <= PastRounds' + Cardinality(Handler) + faults'
        BY <1>4, <2>1, <2>3, <2>4, <4>2, <4>4 DEF NoFault
      <4> QED
        BY <4>1, <4>5 DEF DupBound
    <3> QED
      BY <3>1, <3>2
  <2>5. CASE Fault("redis") /\ UNCHANGED cache
    BY <1>9, <2>1, <2>5 DEF Fault
  <2> QED
    BY <1>19, <2>4, <2>5 DEF StoreResponse
<1>20. ASSUME NEW h \in Handler, Abandon(h)
       PROVE  DupBound(s)'
  BY <1>6, <1>9, <1>20 DEF Abandon, Fault
<1>21. CASE MinutePasses \/ \E k \in Key : KeyExpires(k)
  BY <1>7, <1>21 DEF MinutePasses, KeyExpires
(* A new round begins. *)
<1>22. ASSUME NEW t \in Signature, ResponseExpires(t)
       PROVE  DupBound(s)'
  <2>1. /\ UNCHANGED <<intents, hpc, hreq, faults>> /\ days' = days + 1
        /\ IF s = t THEN cache[s] # 0 /\ cache'[s] = 0 ELSE cache'[s] = cache[s]
    BY <1>22 DEF ResponseExpires, GTypeOK
  <2>2. PastRounds \in Nat /\ PastRounds' = PastRounds + Cardinality(Handler)
    BY <1>1, <2>1 DEF PastRounds
  <2>3. /\ Busy("store", s)' = Busy("store", s) /\ Busy("submit", s)' = Busy("submit", s)
        /\ Copies(s)' = Copies(s)
    BY <1>4, <2>1 DEF Busy
  <2>4. IF cache[s] = 0
        THEN Copies(s) <= PastRounds + faults + Cardinality(Busy("store", s))
        ELSE Copies(s) + Cardinality(Busy("submit", s)) <= PastRounds + Cardinality(Handler) + faults
    BY <1>0 DEF DupBound
  <2>5. IF cache'[s] = 0
        THEN Copies(s) <= PastRounds + Cardinality(Handler) + faults + Cardinality(Busy("store", s))
        ELSE Copies(s) + Cardinality(Busy("submit", s))
               <= PastRounds + Cardinality(Handler) + Cardinality(Handler) + faults
    BY <1>1, <2>1, <2>2, <2>4
  <2> QED
    BY <2>1, <2>2, <2>3, <2>5 DEF DupBound
<1> QED
  BY <1>7, <1>10, <1>11, <1>12, <1>13, <1>14, <1>15, <1>16, <1>17, <1>18, <1>19, <1>20, <1>21,
     <1>22 DEF GNext, Serve, Proceed, vars

(* DuplicatesBounded: the idempotency cache is read before and written     *)
(* after SubmitIntent, so requests with one signature may each create an   *)
(* intent; for any number of handlers there are at most as many copies as  *)
(* handlers, once for each time the response expired, and one per fault.   *)
THEOREM DuplicatesAreBounded == GSpec => []DuplicatesBounded
<1>1. GInit => AnswerInv
  BY DEF GInit, AnswerInv, Truthful
<1>2. GInit => DupInv
  <2>1. SUFFICES ASSUME GInit, NEW s \in Signature
                 PROVE  DupBound(s)
    BY DEF DupInv
  <2>2. CopyIds(intents, s) = {} /\ Copies(s) = Cardinality(CopyIds(intents, s))
    BY <2>1 DEF GInit, CopyIds, Copies
  <2>3. Copies(s) = 0
    BY <2>2, FS_EmptySet
  <2>4. PastRounds = 0 /\ Cardinality(Busy("store", s)) \in Nat
    BY <2>1, BusyIsFinite DEF PastRounds, GInit
  <2> QED
    BY <2>1, <2>3, <2>4 DEF DupBound, GInit
<1>3. GTypeOK /\ DupInv => DuplicatesBounded
  <2>1. SUFFICES ASSUME GTypeOK, DupInv, NEW s \in Signature
                 PROVE  Copies(s) <= Cardinality(Handler) * (1 + days) + faults
    BY DEF DuplicatesBounded
  <2>2. /\ Copies(s) \in Nat /\ faults \in Nat /\ days \in Nat /\ Cardinality(Handler) \in Nat
        /\ Cardinality(Busy("store", s)) \in Nat /\ Cardinality(Busy("submit", s)) \in Nat
        /\ Cardinality(Busy("store", s)) <= Cardinality(Handler)
    BY <2>1, CopiesAreFinite, BusyIsFinite DEF GTypeOK
  <2>3. PastRounds \in Nat /\ Cardinality(Handler) * (1 + days) = PastRounds + Cardinality(Handler)
    BY <2>2 DEF PastRounds
  <2>4. IF cache[s] = 0
        THEN Copies(s) <= PastRounds + faults + Cardinality(Busy("store", s))
        ELSE Copies(s) + Cardinality(Busy("submit", s)) <= PastRounds + Cardinality(Handler) + faults
    BY <2>1 DEF DupInv, DupBound
  <2>5. Copies(s) <= PastRounds + Cardinality(Handler) + faults
    BY <2>2, <2>3, <2>4
  <2> QED
    BY <2>3, <2>5
<1> QED
  BY <1>1, <1>2, <1>3, TypesHold, AnswersAreInductive, DupIsInductive, PTL DEF GSpec

=============================================================================
