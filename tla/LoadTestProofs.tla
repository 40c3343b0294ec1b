--------------------------- MODULE LoadTestProofs ---------------------------
(***************************************************************************)
(* Proofs about LoadTest, for any file, any number of goroutines, runs and *)
(* faults, and any limiter: the answers to a run are about intents that    *)
(* are there, and the report of a run agrees with the table.               *)
(***************************************************************************)
EXTENDS LoadTest, GatewayProofs, WellFoundedInduction, TLAPS

(* main before it sends *)
Preparing == {"login", "read", "truncate", "truncateAccounts", "seed", "keys"}

(* The transfers of a run *)
Transfers == {Rows[n].tx : n \in Transactions}

(* Where main is, and the key it has *)
MainInv ==
  /\ run \in 0 .. MaxRuns
  /\ lpc \in Preparing \cup {"off", "send", "done", "exit"}
  /\ lpc # "off" => run # 0
  /\ key \in {0, run}
  /\ lpc \in Preparing => key = 0
  /\ lpc \in {"send", "done"} => key = run
  /\ jobs \subseteq Transactions
  /\ DOMAIN job = Handler

(* Requests, and their answers, are of this run. *)
RequestInv ==
  \A h \in Handler :
    /\ lpc # "send" => job[h] = None
    /\ job[h] = None => hpc[h] = "idle"
    /\ hpc[h] # "idle" => hreq[h].sig[1] = run /\ hreq[h].sig[2] \in Transfers
    /\ job[h] # None /\ reply[h] # None /\ reply[h].code \in {200, 201} => reply[h].sig[1] = run

(* Nothing in the table is of a later run, and nothing of this one before  *)
(* it sends: what -clean removes is of earlier runs.                       *)
TableInv ==
  /\ \A i \in DOMAIN intents :
       /\ intents[i].sig[1] <= run
       /\ intents[i].sig[1] = run => lpc \in {"send", "done"} /\ intents[i].sig[2] \in Transfers
  /\ gone \in 0 .. Len(intents)
  /\ \A i \in 1 .. gone : intents[i].sig[1] < run

RunInv == MainInv /\ RequestInv /\ TableInv

(* A goroutine whose intent is in the table, and will be reported *)
Owed(h) == hpc[h] = "store" \/ (hpc[h] = "idle" /\ StatusCreated(h))
Live    == {h \in Handler : job[h] # None /\ Owed(h)}

Out == {h \in Handler : job[h] # None}

(* Every transfer is in the channel, with a goroutine or counted. *)
Tally == success + fail + Cardinality(Out) + Cardinality(jobs) = Cardinality(Transactions)

(* What is in the table is counted or owed, but for faults. *)
Match ==
  /\ success + Cardinality(Live) <= Cardinality(Ingested)
  /\ Cardinality(Ingested) <= success + Cardinality(Live) + faults

CountInv ==
  /\ success \in Nat /\ fail \in Nat
  /\ lpc \in Preparing => success = 0 /\ fail = 0
  /\ lpc \in {"send", "done"} => Tally /\ Match
  /\ lpc = "done" => Out = {} /\ jobs = {}
  /\ lpc \in {"keys", "send", "done"} => UniqueAccounts(Transactions) \subseteq accounts

-----------------------------------------------------------------------------
(* The transfers *)

LEMMA LeastNat ==
  ASSUME NEW T, T \subseteq Nat, T # {}
  PROVE  \E x \in T : \A y \in T : x <= y
<1>1. PICK x \in T : \A y \in T : ~(<<y, x>> \in OpToRel(<, Nat))
  BY NatLessThanWellFounded, WFMin, Zenon
<1>2. \A y \in T : ~(y < x)
  BY <1>1 DEF OpToRel
<1> QED
  BY <1>2

LEMMA TransactionsAreRows ==
  /\ Transactions \subseteq DOMAIN Rows /\ Transactions \subseteq Nat
  /\ IsFiniteSet(Transactions) /\ Cardinality(Transactions) \in Nat
  /\ \A n \in Transactions : Rows[n].tx \in Transfer
<1>1. Transactions \subseteq DOMAIN Rows
  BY DEF Transactions
<1>2. Rows \in Seq([type : STRING, tx : Transfer])
  BY LoadTestAssumption
<1>3. DOMAIN Rows = 1 .. Len(Rows) /\ Len(Rows) \in Nat /\ \A n \in DOMAIN Rows : Rows[n].tx \in Transfer
  <2> DEFINE R == [type : STRING, tx : Transfer]
  <2>1. \A r \in R : r.tx \in Transfer
    OBVIOUS
  <2>2. Rows \in Seq(R)
    BY <1>2
  <2> HIDE DEF R
  <2>3. DOMAIN Rows = 1 .. Len(Rows) /\ Len(Rows) \in Nat /\ \A n \in DOMAIN Rows : Rows[n] \in R
    BY <2>2
  <2> QED
    BY <2>1, <2>3
<1>4. IsFiniteSet(DOMAIN Rows)
  BY <1>3, FS_Interval
<1>5. IsFiniteSet(Transactions) /\ Cardinality(Transactions) \in Nat
  BY <1>1, <1>4, FS_Subset, FS_CardinalityType
<1> QED
  BY <1>1, <1>3, <1>5

LEMMA ReceivedIsAJob ==
  ASSUME jobs \subseteq Transactions, jobs # {}
  PROVE  Received \in jobs
<1>1. \E n \in jobs : \A m \in jobs : n <= m
  BY TransactionsAreRows, LeastNat
<1> QED
  BY <1>1 DEF Received

LEMMA SignedIsSignature ==
  ASSUME NEW n \in Transactions, key \in 1 .. MaxRuns
  PROVE  /\ Sign(Rows[n].tx) \in Signature
         /\ Sign(Rows[n].tx)[1] = key /\ Sign(Rows[n].tx)[2] \in Transfers
BY TransactionsAreRows, LoadTestAssumption DEF Sign, Transfers

LEMMA SignatureParts ==
  ASSUME NEW s \in Signature
  PROVE  s[1] \in 1 .. MaxRuns
BY LoadTestAssumption

-----------------------------------------------------------------------------
(* The gateway under the load test behaves as the gateway. *)

LEMMA IsGatewayStep ==
  ASSUME RunInv, [LTNext]_ltvars
  PROVE  [GNext]_vars
<1>1. CASE UNCHANGED vars
  BY <1>1
<1>2. CASE UNCHANGED ltvars
  BY <1>1, <1>2 DEF ltvars
<1>3. CASE StartTest \/ ReadCSV \/ TruncateIntents \/ TruncateAccounts \/ PreseedBalances
           \/ GenerateKeyPair \/ Report
  BY <1>1, <1>3 DEF StartTest, ReadCSV, TruncateIntents, TruncateAccounts, PreseedBalances,
                    GenerateKeyPair, Report
<1>4. CASE LoginToGateway
  BY <1>1, <1>4, LoadTestAssumption DEF LoginToGateway, GNext
<1>5. ASSUME NEW h \in Handler, SendNext(h)
      PROVE  [GNext]_vars
  <2>1. Received \in Transactions
    BY <1>5, ReceivedIsAJob DEF SendNext, RunInv, MainInv
  <2>2. key \in 1 .. MaxRuns
    BY <1>5, LoadTestAssumption DEF SendNext, RunInv, MainInv
  <2>3. Sign(Rows[Received].tx) \in Signature
    BY <2>1, <2>2, SignedIsSignature
  <2>4. Tester \in Client /\ "TRANSFER" \in Type
    BY LoadTestAssumption
  <2>5. Arrive(h, Tester, Sign(Rows[Received].tx), "TRANSFER") \/ Unauthorized(h, Tester)
    BY <1>5 DEF SendNext
  <2> QED
    BY <2>3, <2>4, <2>5 DEF GNext
<1>6. ASSUME NEW h \in Handler, Count(h)
      PROVE  [GNext]_vars
  BY <1>1, <1>6 DEF Count, DoReturns
<1>7. ASSUME NEW h \in Handler, Proceed(h) \/ Abandon(h)
      PROVE  [GNext]_vars
  BY <1>7 DEF GNext, Serve
<1>8. CASE TokenExpires(Tester) \/ \E s \in Signature : ResponseExpires(s)
  BY <1>8, LoadTestAssumption DEF GNext
<1> QED
  BY <1>2, <1>3, <1>4, <1>5, <1>6, <1>7, <1>8 DEF LTNext, Main

(* A step of a request: nobody else's request moves, its signature stays,  *)
(* and an answer has it.  The table and the faults change as Owed does.    *)
LEMMA HandlerStep ==
  ASSUME GTypeOK, NEW h \in Handler, Proceed(h) \/ Abandon(h)
  PROVE  /\ hpc[h] # "idle"
         /\ \A g \in Handler : g # h => hpc'[g] = hpc[g] /\ hreq'[g] = hreq[g] /\ reply'[g] = reply[g]
         /\ hpc'[h] # "idle" => hreq'[h].sig = hreq[h].sig /\ reply'[h] = reply[h]
         /\ hpc'[h] = "idle" /\ reply'[h] # None /\ reply'[h].code \in {200, 201}
              => reply'[h].sig = hreq[h].sig
         /\ intents' = intents \/ (intents' = Stored(h) /\ hpc[h] = "submit")
         /\ \/ intents' = intents /\ (Owed(h)' <=> Owed(h)) /\ faults' \in {faults, faults + 1}
            \/ hpc[h] = "submit" /\ intents' = Stored(h) /\ ~Owed(h) /\ Owed(h)' /\ faults' = faults
            \/ ~Owed(h) /\ ~Owed(h)' /\ faults' = faults + 1
            \/ intents' = intents /\ Owed(h) /\ ~Owed(h)' /\ faults' = faults + 1
<1> USE DEF redis, handlers, history
(* Requests that end with an error, or without a response *)
<1>1. ASSUME NEW r, Done(h, r), r = None \/ r.code \notin {200, 201}, hpc[h] # "idle"
      PROVE  /\ \A g \in Handler : g # h => hpc'[g] = hpc[g] /\ hreq'[g] = hreq[g] /\ reply'[g] = reply[g]
             /\ hpc'[h] = "idle" /\ ~(reply'[h] # None /\ reply'[h].code \in {200, 201})
             /\ ~Owed(h)'
  <2>1. /\ hpc'[h] = "idle" /\ reply'[h] = r
        /\ \A g \in Handler : g # h => hpc'[g] = hpc[g] /\ hreq'[g] = hreq[g] /\ reply'[g] = reply[g]
    BY <1>1, DoneKeepsTypes
  <2> QED
    BY <1>1, <2>1 DEF Owed, StatusCreated
<1>2. ASSUME NEW l \in HandlerPC \ {"idle", "store"}, Goto(h, l), hpc[h] \notin {"idle", "store"}
      PROVE  /\ \A g \in Handler : g # h => hpc'[g] = hpc[g] /\ hreq'[g] = hreq[g] /\ reply'[g] = reply[g]
             /\ hpc'[h] # "idle" /\ hreq'[h] = hreq[h] /\ reply'[h] = reply[h]
             /\ ~Owed(h) /\ ~Owed(h)'
  BY <1>2, GotoKeepsTypes DEF Owed
<1>3. CASE Increment(h)
  <2>1. /\ hpc[h] = "incr" /\ UNCHANGED intents /\ faults' \in {faults, faults + 1} /\ ~Owed(h)
        /\ Done(h, Error(429)) \/ Goto(h, "expire") \/ Goto(h, "lookup")
    BY <1>3 DEF Increment, Fault, NoFault, Owed
  <2>2. CASE Done(h, Error(429))
    BY <1>1, <2>1, <2>2, ErrorIsNoAnswer
  <2>3. CASE Goto(h, "expire") \/ Goto(h, "lookup")
    BY <1>2, <2>1, <2>3 DEF HandlerPC
  <2> QED
    BY <2>1, <2>2, <2>3
<1>4. CASE SetExpiry(h)
  <2>1. hpc[h] = "expire" /\ UNCHANGED intents /\ faults' \in {faults, faults + 1} /\ Goto(h, "lookup")
    BY <1>4 DEF SetExpiry, Fault, NoFault
  <2> QED
    BY <1>2, <2>1 DEF HandlerPC
<1>5. CASE LookUp(h)
  <2> DEFINE r == Told("cache", hreq[h].sig, cache[hreq[h].sig], 0)
  <2>1. /\ hpc[h] = "lookup" /\ UNCHANGED intents /\ faults' \in {faults, faults + 1} /\ ~Owed(h)
        /\ Done(h, r) \/ Goto(h, "submit")
    BY <1>5 DEF LookUp, Fault, NoFault, Owed
  <2>2. r.code = 200 /\ r.sig = hreq[h].sig
    BY DEF Told
  <2> HIDE DEF r
  <2>3. CASE Done(h, r)
    <3>1. /\ hpc'[h] = "idle" /\ reply'[h] = r
          /\ \A g \in Handler : g # h => hpc'[g] = hpc[g] /\ hreq'[g] = hreq[g] /\ reply'[g] = reply[g]
      BY <2>3, DoneKeepsTypes
    <3>2. ~Owed(h)'
      BY <2>2, <3>1 DEF Owed, StatusCreated
    <3> QED
      BY <2>1, <2>2, <3>1, <3>2
  <2>4. CASE Goto(h, "submit")
    BY <1>2, <2>1, <2>4 DEF HandlerPC
  <2> QED
    BY <2>1, <2>3, <2>4
<1>6. CASE Submit(h)
  <2>1. hpc[h] = "submit" /\ ~Owed(h) /\ hreq[h] \in Request /\ intents' \in {intents, Stored(h)}
    BY <1>6 DEF Submit, Owed, GTypeOK
  <2>2. CASE /\ intents' = Stored(h) /\ NoFault
             /\ hreq' = [hreq EXCEPT ![h].id = Len(intents) + 1]
             /\ hpc' = [hpc EXCEPT ![h] = "store"]
             /\ UNCHANGED reply
    <3>1. hpc'[h] = "store" /\ hreq'[h].sig = hreq[h].sig
          /\ \A g \in Handler : g # h => hpc'[g] = hpc[g] /\ hreq'[g] = hreq[g] /\ reply'[g] = reply[g]
      BY <2>1, <2>2 DEF GTypeOK, Request
    <3>2. Owed(h)'
      BY <3>1 DEF Owed
    <3> QED
      BY <2>1, <2>2, <3>1, <3>2 DEF NoFault
  <2>3. CASE Fault("grpc") /\ \E e \in CallError : Done(h, Error(HTTPCode[e]))
    <3>1. PICK e \in CallError : Done(h, Error(HTTPCode[e]))
      BY <2>3
    <3>2. Error(HTTPCode[e]).code \notin {200, 201}
      BY CodesAreErrors, ErrorIsNoAnswer
    <3>3. faults' = faults + 1
      BY <2>3 DEF Fault
    <3> QED
      BY <1>1, <2>1, <3>1, <3>2, <3>3
  <2> QED
    BY <1>6, <2>2, <2>3 DEF Submit
<1>7. CASE StoreResponse(h)
  <2> DEFINE r == Told("post", hreq[h].sig, hreq[h].id, hreq[h].type)
  <2>1. hpc[h] = "store" /\ UNCHANGED intents /\ faults' \in {faults, faults + 1} /\ Done(h, r)
    BY <1>7 DEF StoreResponse, Created, Fault, NoFault
  <2>2. r.code = 201 /\ r.sig = hreq[h].sig
    BY DEF Told
  <2>3. r # None
    <3>1. hreq[h].sig \in Signature /\ hreq[h].id \in Nat /\ hreq[h].type \in 0 .. 4
      BY <2>1 DEF GTypeOK, Request
    <3>2. r \in [via : {"post"}, code : {201}, sig : Signature, id : Nat, type : 0 .. 4]
      BY <3>1 DEF Told
    <3> QED
      BY <3>2, LoadTestAssumption
  <2> HIDE DEF r
  <2>4. /\ hpc'[h] = "idle" /\ reply'[h] = r
        /\ \A g \in Handler : g # h => hpc'[g] = hpc[g] /\ hreq'[g] = hreq[g] /\ reply'[g] = reply[g]
    BY <2>1, DoneKeepsTypes
  <2>5. Owed(h) /\ Owed(h)'
    BY <2>1, <2>2, <2>3, <2>4 DEF Owed, StatusCreated
  <2> QED
    BY <2>1, <2>2, <2>4, <2>5
<1>8. CASE Abandon(h)
  <2>1. hpc[h] # "idle" /\ UNCHANGED intents /\ faults' = faults + 1 /\ Done(h, None)
    BY <1>8 DEF Abandon, Fault
  <2> QED
    BY <1>1, <2>1
<1> QED
  BY <1>3, <1>4, <1>5, <1>6, <1>7, <1>8 DEF Proceed

-----------------------------------------------------------------------------
(* Runs do not mix. *)

LEMMA RowsAreNumbered ==
  ASSUME GTypeOK
  PROVE  /\ Len(intents) \in Nat /\ DOMAIN intents = 1 .. Len(intents)
         /\ \A i \in DOMAIN intents : intents[i].sig \in Signature /\ intents[i].sig[1] \in 1 .. MaxRuns
<1>1. \A row \in Row : row.sig \in Signature
  BY DEF Row
<1>2. intents \in Seq(Row)
  BY DEF GTypeOK
<1>3. Len(intents) \in Nat /\ DOMAIN intents = 1 .. Len(intents) /\ \A i \in DOMAIN intents : intents[i] \in Row
  BY <1>2
<1> QED
  BY <1>1, <1>3, SignatureParts

LEMMA RunsDoNotMix ==
  ASSUME GTypeOK, AnswerInv, RunInv, [LTNext]_ltvars
  PROVE  RunInv'
<1> USE DEF redis, handlers, history, vars, test, RunInv
<1>0. run \in Nat /\ MaxRuns \in Nat
  BY LoadTestAssumption DEF MainInv
(* Steps that leave the requests alone *)
<1>1. ASSUME MainInv', UNCHANGED <<hpc, hreq, reply, intents, job, run>>,
             \/ UNCHANGED <<lpc, gone>>
             \/ lpc \in Preparing /\ gone' \in {gone, Len(intents)}
             \/ lpc = "send" /\ lpc' = "done" /\ gone' = gone /\ \A h \in Handler : job[h] = None
      PROVE  RunInv'
  <2>1. RequestInv'
    BY <1>1 DEF RequestInv, Preparing
  <2>2. \A i \in DOMAIN intents :
          intents[i].sig[1] = run => lpc' \in {"send", "done"} /\ intents[i].sig[2] \in Transfers
    BY <1>1 DEF TableInv, Preparing
  <2>3. gone' \in 0 .. Len(intents) /\ \A i \in 1 .. gone' : intents[i].sig[1] < run
    BY <1>0, <1>1, RowsAreNumbered DEF TableInv, Preparing
  <2>4. TableInv'
    BY <1>1, <2>2, <2>3 DEF TableInv
  <2> QED
    BY <1>1, <2>1, <2>4
<1>2. CASE UNCHANGED <<hpc, hreq, reply, intents, test>>
  BY <1>1, <1>2 DEF MainInv
<1>3. CASE StartTest
  <2>1. MainInv'
    BY <1>0, <1>3 DEF StartTest, MainInv, Preparing
  <2>2. \A h \in Handler : job[h] = None /\ hpc[h] = "idle"
    BY <1>3 DEF StartTest, RequestInv
  <2>3. RequestInv'
    BY <1>3, <2>2 DEF StartTest, RequestInv
  <2>4. TableInv'
    <3>1. run' = run + 1 /\ intents' = intents /\ gone' = gone
      BY <1>3 DEF StartTest
    <3>2. \A i \in DOMAIN intents : intents[i].sig[1] \in Nat
      BY RowsAreNumbered
    <3>3. \A i \in DOMAIN intents : intents[i].sig[1] <= run' /\ intents[i].sig[1] # run'
      BY <1>0, <3>1, <3>2 DEF TableInv
    <3>4. 1 .. gone \subseteq DOMAIN intents /\ gone \in 0 .. Len(intents)
      BY RowsAreNumbered DEF TableInv
    <3>5. \A i \in 1 .. gone : intents[i].sig[1] < run'
      BY <1>0, <3>1, <3>2, <3>3, <3>4
    <3> QED
      BY <3>1, <3>3, <3>4, <3>5 DEF TableInv
  <2> QED
    BY <2>1, <2>3, <2>4
<1>4. CASE LoginToGateway \/ ReadCSV \/ TruncateIntents \/ TruncateAccounts \/ PreseedBalances
           \/ GenerateKeyPair
  <2>1. MainInv'
    BY <1>4 DEF LoginToGateway, ReadCSV, TruncateIntents, TruncateAccounts, PreseedBalances,
                GenerateKeyPair, Step, MainInv, Preparing
  <2>2. /\ UNCHANGED <<hpc, hreq, reply, intents, job, run>>
        /\ lpc \in Preparing /\ gone' \in {gone, Len(intents)}
    BY <1>4 DEF LoginToGateway, ReadCSV, TruncateIntents, TruncateAccounts, PreseedBalances,
                GenerateKeyPair, Step, Login, Preparing
  <2> QED
    BY <1>1, <2>1, <2>2
<1>5. CASE Report
  BY <1>1, <1>5 DEF Report, MainInv, Preparing
<1>6. ASSUME NEW h \in Handler, Count(h)
      PROVE  RunInv'
  <2>1. MainInv'
    BY <1>6 DEF Count, DoReturns, MainInv
  <2>2. RequestInv'
    BY <1>6 DEF Count, DoReturns, RequestInv, MainInv
  <2>3. TableInv'
    BY <1>6 DEF Count, DoReturns, TableInv
  <2> QED
    BY <2>1, <2>2, <2>3
<1>7. ASSUME NEW h \in Handler, SendNext(h)
      PROVE  RunInv'
  <2> DEFINE tx == Rows[Received].tx
  <2>1. Received \in jobs /\ Received \in Transactions
    BY <1>7, ReceivedIsAJob DEF SendNext, MainInv
  <2>2. lpc = "send" /\ key = run /\ key \in 1 .. MaxRuns /\ tx # None
    BY <1>7, <2>1, TransactionsAreRows, LoadTestAssumption DEF SendNext, MainInv
  <2>3. Sign(tx)[1] = run /\ Sign(tx)[2] \in Transfers
    BY <2>1, <2>2, SignedIsSignature
  <2> HIDE DEF tx
  <2>4. /\ job'[h] = tx /\ \A g \in Handler : g # h => job'[g] = job[g]
        /\ jobs' \subseteq jobs /\ UNCHANGED <<run, lpc, key, gone, intents>> /\ DOMAIN job' = Handler
    BY <1>7 DEF SendNext, MainInv, Arrive, Unauthorized, tx
  <2>5. MainInv'
    BY <2>4 DEF MainInv
  <2>6. TableInv'
    BY <2>4 DEF TableInv
  <2>7. /\ \A g \in Handler : g # h => hpc'[g] = hpc[g] /\ hreq'[g] = hreq[g] /\ reply'[g] = reply[g]
        /\ hpc'[h] # "idle" => hreq'[h].sig = Sign(tx)
        /\ reply'[h] = None \/ reply'[h].code \notin {200, 201}
    <3>1. CASE Arrive(h, Tester, Sign(tx), "TRANSFER")
      BY <3>1 DEF Arrive, GTypeOK
    <3>2. CASE Unauthorized(h, Tester)
      <4>1. Done(h, Error(401)) /\ Error(401).code \notin {200, 201}
        BY <3>2, ErrorIsNoAnswer DEF Unauthorized
      <4> QED
        BY <4>1, DoneKeepsTypes
    <3> QED
      BY <1>7, <3>1, <3>2 DEF SendNext, tx
  <2>8. RequestInv'
    <3>1. SUFFICES ASSUME NEW g \in Handler
                   PROVE  /\ lpc # "send" => job'[g] = None
                          /\ job'[g] = None => hpc'[g] = "idle"
                          /\ hpc'[g] # "idle" => hreq'[g].sig[1] = run /\ hreq'[g].sig[2] \in Transfers
                          /\ job'[g] # None /\ reply'[g] # None /\ reply'[g].code \in {200, 201}
                               => reply'[g].sig[1] = run
      BY <2>4 DEF RequestInv
    <3>2. CASE g = h
      BY <2>2, <2>3, <2>4, <2>7, <3>2
    <3>3. CASE g # h
      BY <2>4, <2>7, <3>3 DEF RequestInv
    <3> QED
      BY <3>2, <3>3
  <2> QED
    BY <2>5, <2>6, <2>8
<1>8. ASSUME NEW h \in Handler, Proceed(h) \/ Abandon(h), UNCHANGED test
      PROVE  RunInv'
  <2>1. MainInv'
    BY <1>8 DEF MainInv
  <2>2. /\ hpc[h] # "idle"
        /\ \A g \in Handler : g # h => hpc'[g] = hpc[g] /\ hreq'[g] = hreq[g] /\ reply'[g] = reply[g]
        /\ hpc'[h] # "idle" => hreq'[h].sig = hreq[h].sig /\ reply'[h] = reply[h]
        /\ hpc'[h] = "idle" /\ reply'[h] # None /\ reply'[h].code \in {200, 201}
             => reply'[h].sig = hreq[h].sig
        /\ intents' = intents \/ (intents' = Stored(h) /\ hpc[h] = "submit")
    BY <1>8, HandlerStep
  <2>3. lpc = "send" /\ job[h] # None /\ hreq[h].sig[1] = run /\ hreq[h].sig[2] \in Transfers
    BY <2>2 DEF RequestInv
  <2>4. RequestInv'
    <3>1. SUFFICES ASSUME NEW g \in Handler
                   PROVE  /\ lpc # "send" => job[g] = None
                          /\ job[g] = None => hpc'[g] = "idle"
                          /\ hpc'[g] # "idle" => hreq'[g].sig[1] = run /\ hreq'[g].sig[2] \in Transfers
                          /\ job[g] # None /\ reply'[g] # None /\ reply'[g].code \in {200, 201}
                               => reply'[g].sig[1] = run
      BY <1>8 DEF RequestInv
    <3>2. CASE g = h
      <4>1. hpc'[h] # "idle" => hreq'[h].sig[1] = run /\ hreq'[h].sig[2] \in Transfers
        BY <2>2, <2>3
      <4>2. reply'[h] # None /\ reply'[h].code \in {200, 201} => reply'[h].sig[1] = run
        BY <2>2, <2>3 DEF RequestInv
      <4> QED
        BY <2>3, <3>2, <4>1, <4>2
    <3>3. CASE g # h
      BY <2>2, <3>3 DEF RequestInv
    <3> QED
      BY <3>2, <3>3
  <2>5. TableInv'
    <3>1. CASE intents' = intents
      BY <1>8, <3>1 DEF TableInv
    <3>2. CASE intents' = Stored(h) /\ hpc[h] = "submit"
      <4>1. /\ Len(intents') = Len(intents) + 1 /\ Len(intents) \in Nat
            /\ DOMAIN intents = 1 .. Len(intents) /\ DOMAIN intents' = 1 .. (Len(intents) + 1)
            /\ \A i \in DOMAIN intents : intents'[i] = intents[i]
            /\ intents'[Len(intents) + 1].sig = hreq[h].sig
        BY <3>2, TableGrows, RowsAreNumbered
      <4>2. ASSUME NEW i \in DOMAIN intents'
            PROVE  /\ intents'[i].sig[1] <= run
                   /\ intents'[i].sig[1] = run => lpc \in {"send", "done"} /\ intents'[i].sig[2] \in Transfers
        <5>1. CASE i \in DOMAIN intents
          BY <4>1, <5>1 DEF TableInv
        <5>2. CASE i \notin DOMAIN intents
          <6>1. i = Len(intents) + 1
            BY <4>1, <5>2
          <6> QED
            BY <1>0, <2>3, <4>1, <6>1
        <5> QED
          BY <5>1, <5>2
      <4>3. gone \in 0 .. Len(intents') /\ \A i \in 1 .. gone : intents'[i].sig[1] < run
        BY <4>1 DEF TableInv
      <4> QED
        BY <1>8, <4>2, <4>3 DEF TableInv
    <3> QED
      BY <2>2, <3>1, <3>2
  <2> QED
    BY <2>1, <2>4, <2>5
<1>9. CASE (TokenExpires(Tester) \/ \E s \in Signature : ResponseExpires(s)) /\ UNCHANGED test
  BY <1>2, <1>9 DEF TokenExpires, ResponseExpires
<1> QED
  BY <1>2, <1>3, <1>4, <1>5, <1>6, <1>7, <1>8, <1>9 DEF LTNext, Main, ltvars

(* AnswersAreLive: -clean leaves the cached responses of earlier runs in   *)
(* Redis, with ids of intents that are gone; since every run has its own   *)
(* key pair its signatures find none of them.                              *)
THEOREM LoadTestAnswersLive == LTSpec => []AnswersAreLive
<1>1. LTInit => GTypeOK /\ AnswerInv /\ RunInv
  <2>1. LTInit => GTypeOK
    BY GatewayAssumption DEF LTInit, GInit, GTypeOK, Minute, Key, HandlerPC
  <2>2. LTInit => AnswerInv
    BY DEF LTInit, GInit, AnswerInv, Truthful
  <2>3. LTInit => RunInv
    BY LoadTestAssumption DEF LTInit, GInit, RunInv, MainInv, RequestInv, TableInv, Preparing
  <2> QED
    BY <2>1, <2>2, <2>3
<1>2. GTypeOK /\ AnswerInv /\ RunInv /\ [LTNext]_ltvars => GTypeOK' /\ AnswerInv' /\ RunInv'
  BY IsGatewayStep, TypesAreKept, AnswersAreInductive, RunsDoNotMix
<1>3. GTypeOK /\ AnswerInv /\ RunInv => AnswersAreLive
  <2>1. SUFFICES ASSUME GTypeOK, AnswerInv, RunInv, NEW h \in Handler, job[h] # None,
                        reply[h] # None, reply[h].code \in {200, 201}
                 PROVE  reply[h].id > gone
    BY DEF AnswersAreLive
  <2>2. reply[h].id \in DOMAIN intents /\ intents[reply[h].id].sig = reply[h].sig
    BY <2>1 DEF AnswerInv, Truthful, IsStored
  <2>3. intents[reply[h].id].sig[1] = run
    BY <2>1, <2>2 DEF RunInv, RequestInv
  <2>4. run \in Nat /\ gone \in Nat /\ \A i \in 1 .. gone : intents[i].sig[1] < run
    BY <2>1, LoadTestAssumption, RowsAreNumbered DEF RunInv, MainInv, TableInv
  <2> QED
    BY <2>1, <2>2, <2>3, <2>4, RowsAreNumbered
<1> QED
  BY <1>1, <1>2, <1>3, PTL DEF LTSpec

-----------------------------------------------------------------------------
(* The report *)

LEMMA SetsAreFinite ==
  ASSUME GTypeOK, RunInv
  PROVE  /\ IsFiniteSet(Out) /\ Cardinality(Out) \in Nat
         /\ IsFiniteSet(Live) /\ Cardinality(Live) \in Nat
         /\ IsFiniteSet(jobs) /\ Cardinality(jobs) \in Nat
         /\ IsFiniteSet(Ingested) /\ Cardinality(Ingested) \in Nat
<1>1. Out \in SUBSET Handler /\ Live \in SUBSET Handler
  BY DEF Out, Live
<1>2. jobs \in SUBSET Transactions
  BY DEF RunInv, MainInv
<1>3. Ingested \in SUBSET (gone + 1 .. Len(intents))
  BY DEF Ingested
<1>4. IsFiniteSet(gone + 1 .. Len(intents))
  BY RowsAreNumbered, FS_Interval DEF RunInv, TableInv
<1>5. IsFiniteSet(Out) /\ IsFiniteSet(Live)
  BY <1>1, GatewayAssumption, FS_Subset
<1>6. IsFiniteSet(jobs) /\ IsFiniteSet(Ingested)
  BY <1>2, <1>3, <1>4, TransactionsAreRows, FS_Subset
<1> QED
  BY <1>5, <1>6, FS_CardinalityType

(* A new row of this run is ingested. *)
LEMMA OneMoreIngested ==
  ASSUME GTypeOK, AnswerInv, RunInv, NEW h \in Handler, hpc[h] = "submit", intents' = Stored(h),
         UNCHANGED <<key, gone>>
  PROVE  Cardinality(Ingested') = Cardinality(Ingested) + 1
<1> DEFINE new == Len(intents) + 1
<1>1. /\ DOMAIN intents = 1 .. Len(intents) /\ Len(intents) \in Nat /\ Len(intents') = new
      /\ \A i \in DOMAIN intents : intents'[i] = intents[i]
      /\ intents'[new].sig = hreq[h].sig
  BY TableGrows, RowsAreNumbered
<1>2. lpc = "send" /\ hreq[h].sig[1] = key /\ gone \in 0 .. Len(intents)
  BY DEF RunInv, RequestInv, MainInv, TableInv
<1>3. /\ gone + 1 .. new = (gone + 1 .. Len(intents)) \cup {new} /\ new \notin gone + 1 .. Len(intents)
      /\ gone + 1 .. Len(intents) \subseteq DOMAIN intents
  BY <1>1, <1>2
<1>4. Ingested' = {i \in gone + 1 .. new : intents'[i].sig[1] = key}
  BY <1>1 DEF Ingested
<1>5. Ingested' = Ingested \cup {new} /\ new \notin Ingested
  <2>1. new \notin Ingested
    BY <1>3 DEF Ingested
  <2>2. ASSUME NEW i
        PROVE  i \in Ingested' <=> i \in Ingested \cup {new}
    <3>1. CASE i = new
      BY <1>1, <1>2, <1>3, <1>4, <3>1
    <3>2. CASE i # new
      BY <1>1, <1>3, <1>4, <3>2 DEF Ingested
    <3> QED
      BY <3>1, <3>2
  <2> QED
    BY <2>1, <2>2
<1>6. IsFiniteSet(Ingested)
  BY SetsAreFinite
<1> HIDE DEF new
<1> QED
  BY <1>5, <1>6, FS_AddElement

LEMMA CountIsInductive ==
  ASSUME GTypeOK, AnswerInv, RunInv, RunInv', CountInv, Handler # {}, [LTNext]_ltvars
  PROVE  CountInv'
<1> USE DEF redis, handlers, history, vars, test
<1>0. /\ Cardinality(Out) \in Nat /\ IsFiniteSet(Out) /\ Cardinality(Live) \in Nat /\ IsFiniteSet(Live)
      /\ Cardinality(jobs) \in Nat /\ IsFiniteSet(jobs) /\ Cardinality(Ingested) \in Nat
      /\ Cardinality(Transactions) \in Nat /\ success \in Nat /\ fail \in Nat /\ faults \in Nat
  BY SetsAreFinite, TransactionsAreRows DEF CountInv, GTypeOK
<1>1. CASE UNCHANGED <<hpc, reply, intents, faults, test>>
  <2>1. Out' = Out /\ Live' = Live /\ Ingested' = Ingested /\ UNCHANGED <<success, fail, jobs, lpc, accounts>>
    BY <1>1 DEF Out, Live, Owed, StatusCreated, Ingested
  <2>2. Tally' <=> Tally
    BY <2>1 DEF Tally
  <2>3. Match' <=> Match
    BY <1>1, <2>1 DEF Match
  <2> QED
    BY <2>1, <2>2, <2>3 DEF CountInv
<1>2. CASE StartTest
  BY <1>2 DEF StartTest, CountInv, Preparing
<1>3. CASE LoginToGateway \/ ReadCSV \/ TruncateIntents \/ TruncateAccounts
  BY <1>3 DEF LoginToGateway, ReadCSV, TruncateIntents, TruncateAccounts, Step, CountInv, Preparing
<1>4. CASE PreseedBalances
  BY <1>4 DEF PreseedBalances, Step, CountInv, Preparing
(* The goroutines start, with the whole file before them. *)
<1>5. CASE GenerateKeyPair
  <2>1. /\ lpc = "keys" /\ lpc' \in {"send", "exit"} /\ success = 0 /\ fail = 0
        /\ UNCHANGED <<success, fail, job, intents, gone, accounts, faults, hpc, reply, run>>
        /\ key' = run
    BY <1>5 DEF GenerateKeyPair, Step, CountInv, Preparing
  <2>2. CASE lpc' = "exit"
    BY <2>1, <2>2 DEF CountInv, Preparing
  <2>3. CASE lpc' = "send"
    <3>1. jobs' = Transactions
      BY <1>5, <2>3 DEF GenerateKeyPair
    <3>2. \A h \in Handler : job[h] = None
      BY <2>1 DEF RunInv, RequestInv
    <3>3. Out' = {} /\ Live' = {}
      BY <2>1, <3>2 DEF Out, Live
    <3>4. \A i \in DOMAIN intents : intents[i].sig[1] # run
      BY <2>1 DEF RunInv, TableInv
    <3>5. \A i \in gone + 1 .. Len(intents) : i \in DOMAIN intents
      BY RowsAreNumbered DEF RunInv, TableInv
    <3>6. Ingested' = {}
      <4>1. \A i : i \notin Ingested'
        BY <2>1, <3>4, <3>5 DEF Ingested
      <4> QED
        BY <4>1, Zenon
    <3>7. Cardinality(Out') = 0 /\ Cardinality(Live') = 0 /\ Cardinality(Ingested') = 0
      BY <3>3, <3>6, FS_EmptySet
    <3>8. Tally'
      BY <1>0, <2>1, <3>1, <3>7 DEF Tally
    <3>9. Match'
      BY <1>0, <2>1, <3>7 DEF Match
    <3> QED
      BY <1>0, <2>1, <2>3, <3>8, <3>9 DEF CountInv, Preparing
  <2> QED
    BY <2>1, <2>2, <2>3
<1>6. CASE Report
  <2>1. /\ lpc = "send" /\ lpc' = "done" /\ jobs = {} /\ \A h \in Handler : job[h] = None
        /\ UNCHANGED <<success, fail, job, jobs, key, intents, gone, accounts, faults, hpc, reply>>
    BY <1>6 DEF Report
  <2>2. Out' = Out /\ Live' = Live /\ Ingested' = Ingested
    BY <2>1 DEF Out, Live, Owed, StatusCreated, Ingested
  <2>3. Out = {}
    BY <2>1 DEF Out
  <2>4. Tally'
    BY <2>1, <2>2 DEF Tally, CountInv
  <2>5. Match'
    BY <2>1, <2>2 DEF Match, CountInv
  <2> QED
    BY <2>1, <2>2, <2>3, <2>4, <2>5 DEF CountInv, Preparing
<1>7. ASSUME NEW h \in Handler, SendNext(h)
      PROVE  CountInv'
  <2> DEFINE tx == Rows[Received].tx
  <2>1. lpc = "send" /\ job[h] = None /\ UNCHANGED <<lpc, success, fail, key, gone, accounts>>
    BY <1>7 DEF SendNext
  <2>2. Received \in jobs /\ jobs' = jobs \ {Received}
    BY <1>7, ReceivedIsAJob DEF SendNext, RunInv, MainInv
  <2>3. tx # None
    BY <2>2, TransactionsAreRows, LoadTestAssumption DEF RunInv, MainInv
  <2>4. job'[h] = tx /\ \A g \in Handler : g # h => job'[g] = job[g]
    BY <1>7 DEF SendNext, RunInv, MainInv
  <2> HIDE DEF tx
  <2>5. /\ UNCHANGED <<intents, faults>> /\ ~Owed(h)'
        /\ \A g \in Handler : g # h => hpc'[g] = hpc[g] /\ reply'[g] = reply[g]
    <3>1. CASE Arrive(h, Tester, Sign(Rows[Received].tx), "TRANSFER")
      BY <3>1 DEF Arrive, GTypeOK, Owed
    <3>2. CASE Unauthorized(h, Tester)
      <4>1. Done(h, Error(401)) /\ Error(401).code \notin {200, 201} /\ UNCHANGED <<intents, faults>>
        BY <3>2, ErrorIsNoAnswer DEF Unauthorized
      <4>2. hpc'[h] = "idle" /\ reply'[h] = Error(401)
            /\ \A g \in Handler : g # h => hpc'[g] = hpc[g] /\ reply'[g] = reply[g]
        BY <4>1, DoneKeepsTypes
      <4> QED
        BY <4>1, <4>2 DEF Owed, StatusCreated
    <3> QED
      BY <1>7, <3>1, <3>2 DEF SendNext
  <2>6. Out' = Out \cup {h} /\ h \notin Out
    BY <2>1, <2>3, <2>4 DEF Out
  <2>7. Live' = Live
    <3>1. h \notin Live /\ h \notin Live'
      BY <2>1, <2>5 DEF Live
    <3>2. ASSUME NEW g \in Handler, g # h
          PROVE  g \in Live' <=> g \in Live
      <4>1. Owed(g)' <=> Owed(g)
        BY <2>5, <3>2 DEF Owed, StatusCreated
      <4> QED
        BY <2>4, <3>2, <4>1 DEF Live
    <3>3. Live \subseteq Handler /\ Live' \subseteq Handler
      BY DEF Live
    <3> QED
      BY <3>1, <3>2, <3>3
  <2>8. Ingested' = Ingested
    BY <2>1, <2>5 DEF Ingested
  <2>9. Cardinality(Out') = Cardinality(Out) + 1 /\ Cardinality(jobs') = Cardinality(jobs) - 1
    BY <1>0, <2>2, <2>6, FS_AddElement, FS_RemoveElement
  <2>10. Tally'
    BY <1>0, <2>1, <2>9 DEF Tally, CountInv
  <2>11. Match'
    BY <2>1, <2>5, <2>7, <2>8 DEF Match, CountInv
  <2> QED
    BY <2>1, <2>10, <2>11 DEF CountInv, Preparing
<1>8. ASSUME NEW h \in Handler, Count(h)
      PROVE  CountInv'
  <2>1. /\ job[h] # None /\ hpc[h] = "idle" /\ lpc = "send"
        /\ UNCHANGED <<hpc, reply, intents, faults, lpc, key, jobs, gone, accounts>>
        /\ job'[h] = None /\ \A g \in Handler : g # h => job'[g] = job[g]
    BY <1>8 DEF Count, DoReturns, RunInv, MainInv, RequestInv
  <2>2. Out' = Out \ {h} /\ h \in Out
    BY <2>1 DEF Out
  <2>3. \A g \in Handler : Owed(g)' <=> Owed(g)
    BY <2>1 DEF Owed, StatusCreated
  <2>4. Live' = Live \ {h} /\ (h \in Live <=> StatusCreated(h))
    BY <2>1, <2>3 DEF Live, Owed
  <2>5. Ingested' = Ingested
    BY <2>1 DEF Ingested
  <2>6. Cardinality(Out') = Cardinality(Out) - 1
    BY <1>0, <2>2, FS_RemoveElement
  <2>7. Cardinality(Live') = IF StatusCreated(h) THEN Cardinality(Live) - 1 ELSE Cardinality(Live)
    BY <1>0, <2>4, FS_RemoveElement
  <2>8. /\ success' = IF StatusCreated(h) THEN success + 1 ELSE success
        /\ fail' = IF StatusCreated(h) THEN fail ELSE fail + 1
    BY <1>8 DEF Count
  <2>9. Tally'
    BY <1>0, <2>1, <2>6, <2>8 DEF Tally, CountInv
  <2>10. Match'
    BY <1>0, <2>1, <2>5, <2>7, <2>8 DEF Match, CountInv
  <2>11. success' \in Nat /\ fail' \in Nat
    BY <1>0, <2>8
  <2> QED
    BY <2>1, <2>9, <2>10, <2>11 DEF CountInv, Preparing
<1>9. ASSUME NEW h \in Handler, Proceed(h) \/ Abandon(h), UNCHANGED test
      PROVE  CountInv'
  <2>1. /\ hpc[h] # "idle"
        /\ \A g \in Handler : g # h => hpc'[g] = hpc[g] /\ hreq'[g] = hreq[g] /\ reply'[g] = reply[g]
        /\ intents' = intents \/ (intents' = Stored(h) /\ hpc[h] = "submit")
        /\ \/ intents' = intents /\ (Owed(h)' <=> Owed(h)) /\ faults' \in {faults, faults + 1}
           \/ hpc[h] = "submit" /\ intents' = Stored(h) /\ ~Owed(h) /\ Owed(h)' /\ faults' = faults
           \/ ~Owed(h) /\ ~Owed(h)' /\ faults' = faults + 1
           \/ intents' = intents /\ Owed(h) /\ ~Owed(h)' /\ faults' = faults + 1
    BY <1>9, HandlerStep
  <2>2. job[h] # None /\ lpc = "send"
    BY <2>1 DEF RunInv, RequestInv
  <2>3. \A g \in Handler : g # h => (Owed(g)' <=> Owed(g))
    BY <2>1 DEF Owed, StatusCreated
  <2>4. /\ Owed(h) /\ Owed(h)' => Live' = Live
        /\ ~Owed(h) /\ ~Owed(h)' => Live' = Live
        /\ ~Owed(h) /\ Owed(h)' => Live' = Live \cup {h} /\ h \notin Live
        /\ Owed(h) /\ ~Owed(h)' => Live' = Live \ {h} /\ h \in Live
    BY <1>9, <2>2, <2>3 DEF Live
  <2>5. /\ Cardinality(Live \cup {h}) = IF h \in Live THEN Cardinality(Live) ELSE Cardinality(Live) + 1
        /\ Cardinality(Live \ {h}) = IF h \in Live THEN Cardinality(Live) - 1 ELSE Cardinality(Live)
    BY <1>0, FS_AddElement, FS_RemoveElement
  <2>6. /\ (Owed(h)' <=> Owed(h)) => Cardinality(Live') = Cardinality(Live)
        /\ ~Owed(h) /\ Owed(h)' => Cardinality(Live') = Cardinality(Live) + 1
        /\ Owed(h) /\ ~Owed(h)' => Cardinality(Live') = Cardinality(Live) - 1
    BY <2>4, <2>5
  <2>7. /\ intents' = intents => Cardinality(Ingested') = Cardinality(Ingested)
        /\ intents' # intents => Cardinality(Ingested') = Cardinality(Ingested) + 1
    <3>1. CASE intents' = intents
      <4>1. Ingested' = Ingested
        BY <1>9, <3>1 DEF Ingested
      <4> QED
        BY <3>1, <4>1
    <3>2. CASE intents' # intents
      BY <1>9, <2>1, <3>2, OneMoreIngested
    <3> QED
      BY <3>1, <3>2
  <2>8. Match'
    <3>1. Match
      BY <2>2 DEF CountInv
    <3>2. CASE intents' = intents /\ (Owed(h)' <=> Owed(h)) /\ faults' \in {faults, faults + 1}
      BY <1>0, <1>9, <2>6, <2>7, <3>1, <3>2 DEF Match
    <3>3. CASE hpc[h] = "submit" /\ intents' = Stored(h) /\ ~Owed(h) /\ Owed(h)' /\ faults' = faults
      <4>1. intents' # intents
        BY <3>3, TableGrows, RowsAreNumbered
      <4> QED
        BY <1>0, <1>9, <2>6, <2>7, <3>1, <3>3, <4>1 DEF Match
    <3>4. CASE ~Owed(h) /\ ~Owed(h)' /\ faults' = faults + 1
      BY <1>0, <1>9, <2>6, <2>7, <3>1, <3>4 DEF Match
    <3>5. CASE intents' = intents /\ Owed(h) /\ ~Owed(h)' /\ faults' = faults + 1
      BY <1>0, <1>9, <2>6, <2>7, <3>1, <3>5 DEF Match
    <3> QED
      BY <2>1, <3>2, <3>3, <3>4, <3>5
  <2>9. Out' = Out /\ (Tally' <=> Tally)
    BY <1>9 DEF Out, Tally
  <2> QED
    BY <1>9, <2>2, <2>8, <2>9 DEF CountInv, Preparing
<1>10. CASE (TokenExpires(Tester) \/ \E s \in Signature : ResponseExpires(s)) /\ UNCHANGED test
  BY <1>1, <1>10 DEF TokenExpires, ResponseExpires
<1> QED
  BY <1>1, <1>2, <1>3, <1>4, <1>5, <1>6, <1>7, <1>8, <1>9, <1>10 DEF LTNext, Main, ltvars

(* ReportIsTrue: if there is a goroutine at all (-concurrency is not 0),   *)
(* every transfer of the file is counted once, what is reported as         *)
(* ingested is in the table, with its accounts in the wallet, and the      *)
(* table has more only by faults.                                          *)
THEOREM ReportAgrees == Handler # {} => (LTSpec => []ReportIsTrue)
<1>0. SUFFICES ASSUME Handler # {}
               PROVE  LTSpec => []ReportIsTrue
  OBVIOUS
<1> DEFINE Inv == GTypeOK /\ AnswerInv /\ RunInv /\ CountInv
<1>1. LTInit => Inv
  <2>1. LTInit => GTypeOK
    BY GatewayAssumption DEF LTInit, GInit, GTypeOK, Minute, Key, HandlerPC
  <2>2. LTInit => AnswerInv
    BY DEF LTInit, GInit, AnswerInv, Truthful
  <2>3. LTInit => RunInv
    BY LoadTestAssumption DEF LTInit, GInit, RunInv, MainInv, RequestInv, TableInv, Preparing
  <2>4. LTInit => CountInv
    BY DEF LTInit, CountInv, Preparing
  <2> QED
    BY <2>1, <2>2, <2>3, <2>4
<1>2. Inv /\ [LTNext]_ltvars => Inv'
  <2>1. SUFFICES ASSUME Inv, [LTNext]_ltvars PROVE Inv'
    OBVIOUS
  <2>2. GTypeOK' /\ AnswerInv' /\ RunInv'
    BY <2>1, IsGatewayStep, TypesAreKept, AnswersAreInductive, RunsDoNotMix
  <2>3. CountInv'
    BY <1>0, <2>1, <2>2, CountIsInductive
  <2> QED
    BY <2>2, <2>3
<1>3. Inv => ReportIsTrue
  <2>1. SUFFICES ASSUME Inv, lpc = "done"
                 PROVE  /\ success + fail = Cardinality(Transactions)
                        /\ success <= Cardinality(Ingested)
                        /\ Cardinality(Ingested) <= success + faults
                        /\ \A i \in Ingested : Parties(intents[i].sig[2]) \subseteq accounts
    BY DEF ReportIsTrue
  <2>2. Out = {} /\ jobs = {} /\ Live = {}
    BY <2>1 DEF CountInv, Live, Out
  <2>3. Cardinality(Out) = 0 /\ Cardinality(jobs) = 0 /\ Cardinality(Live) = 0
    BY <2>2, FS_EmptySet
  <2>4. /\ success \in Nat /\ fail \in Nat /\ faults \in Nat /\ Cardinality(Ingested) \in Nat
        /\ Tally /\ Match
    BY <2>1, SetsAreFinite DEF CountInv, GTypeOK
  <2>5. ASSUME NEW i \in Ingested
        PROVE  Parties(intents[i].sig[2]) \subseteq accounts
    <3>1. i \in DOMAIN intents /\ intents[i].sig[1] = run
      BY <2>1, RowsAreNumbered DEF Ingested, RunInv, MainInv, TableInv
    <3>2. intents[i].sig[2] \in Transfers
      BY <2>1, <3>1 DEF RunInv, TableInv
    <3>3. PICK n \in Transactions : intents[i].sig[2] = Rows[n].tx
      BY <3>2 DEF Transfers
    <3>4. Parties(Rows[n].tx) \subseteq UniqueAccounts(Transactions)
      BY DEF UniqueAccounts
    <3>5. UniqueAccounts(Transactions) \subseteq accounts
      BY <2>1 DEF CountInv
    <3> QED
      BY <3>3, <3>4, <3>5
  <2> QED
    BY <2>3, <2>4, <2>5 DEF Tally, Match
<1> QED
  BY <1>1, <1>2, <1>3, PTL DEF LTSpec

=============================================================================
