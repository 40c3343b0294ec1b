------------------------------ MODULE LoadTest ------------------------------
(***************************************************************************)
(* scripts/load_test_csv.go against the gateway: a process that logs in,   *)
(* reads the transfers of a CSV file, may empty the tables, creates the    *)
(* accounts, and lets its goroutines submit one signed intent per transfer *)
(* and count the answers.  A goroutine has one request at a time, so       *)
(* Handler stands for the goroutines too.                                  *)
(***************************************************************************)
EXTENDS Gateway

CONSTANTS
  Tester,    \* the address of the process, in Client
  Rows,      \* the rows of the file
  RowLimit,  \* -limit
  MaxRuns    \* bound: how often the program is run

Transfer == [from : STRING, to : STRING, amount : Nat]

ASSUME LoadTestAssumption ==
  /\ Tester \in Client
  /\ Rows \in Seq([type : STRING, tx : Transfer])
  /\ "TRANSFER" \in Type
  /\ None \notin Transfer
  /\ None \notin [via : {"post"}, code : {201}, sig : Signature, id : Nat, type : 0 .. 4]
  /\ RowLimit \in Nat /\ MaxRuns \in Nat
  /\ Signature = (1 .. MaxRuns) \X {Rows[n].tx : n \in DOMAIN Rows}

VARIABLES
  run,       \* runs so far
  lpc,       \* where main is
  clean,     \* -clean
  key,       \* the key pair; 0 for none
  jobs,      \* the rows in channel jobs, filled and closed before the first goroutine
  job,       \* the transfer each goroutine is busy with
  success,   \* successCount
  fail,      \* failCount
  gone,      \* table intents was truncated up to this id
  accounts   \* table wallet_accounts

test   == <<run, lpc, clean, key, jobs, job, success, fail, gone, accounts>>
ltvars == <<vars, test>>

LTInit ==
  /\ GInit
  /\ run = 0
  /\ lpc = "off"
  /\ clean = FALSE
  /\ key = 0
  /\ jobs = {}
  /\ job = [h \in Handler |-> None]
  /\ success = 0
  /\ fail = 0
  /\ gone = 0
  /\ accounts = {}

StartTest ==
  /\ lpc \in {"off", "done", "exit"}
  /\ run < MaxRuns
  /\ run' = run + 1
  /\ lpc' = "login"
  /\ clean' \in BOOLEAN
  /\ key' = 0
  /\ success' = 0
  /\ fail' = 0
  /\ UNCHANGED <<vars, jobs, job, gone, accounts>>

(* Any step up to the first request may fail, and ends the program. *)
Step(from, to) == lpc = from /\ lpc' \in {to, "exit"}

LoginToGateway ==
  /\ Step("login", "read")
  /\ IF lpc' = "exit" THEN UNCHANGED vars ELSE Login(Tester)
  /\ UNCHANGED <<run, clean, key, jobs, job, success, fail, gone, accounts>>

ReadCSV ==
  /\ Step("read", IF clean THEN "truncate" ELSE "seed")
  /\ UNCHANGED <<vars, run, clean, key, jobs, job, success, fail, gone, accounts>>

(* TRUNCATE intents, outbox_events, wallet_transactions *)
TruncateIntents ==
  /\ Step("truncate", "truncateAccounts")
  /\ gone' \in (IF lpc' = "exit" THEN {gone, Len(intents)} ELSE {Len(intents)})
  /\ UNCHANGED <<vars, run, clean, key, jobs, job, success, fail, accounts>>

TruncateAccounts ==
  /\ Step("truncateAccounts", "seed")
  /\ accounts' \in (IF lpc' = "exit" THEN {accounts, {}} ELSE {{}})
  /\ UNCHANGED <<vars, run, clean, key, jobs, job, success, fail, gone>>

(* The TRANSFER rows, up to the limit: it is compared after a row has been *)
(* taken, so a limit of 0 takes one.                                       *)
Transactions ==
  LET transfers == {n \in DOMAIN Rows : Rows[n].type = "TRANSFER"}
      before(n) == Cardinality({m \in transfers : m < n})
  IN {n \in transfers : before(n) = 0 \/ before(n) < RowLimit}

Parties(t) == {t.from, t.to}

UniqueAccounts(rows) == UNION {Parties(Rows[n].tx) : n \in rows}

(* One transaction; accounts that are there are left as they are. *)
PreseedBalances ==
  /\ Step("seed", "keys")
  /\ LET seeded == accounts \cup UniqueAccounts(Transactions)
     IN accounts' \in (IF lpc' = "exit" THEN {accounts, seeded} ELSE {seeded})
  /\ UNCHANGED <<vars, run, clean, key, jobs, job, success, fail, gone>>

(* Mutant: every run has the same key pair. *)
GenerateKeyPairFixed ==
  /\ Step("keys", "send")
  /\ key' = 1
  /\ jobs' = IF lpc' = "exit" THEN {} ELSE Transactions
  /\ UNCHANGED <<vars, run, clean, job, success, fail, gone, accounts>>

(* A key pair nobody had before; then jobs is filled. *)
GenerateKeyPair ==
  /\ Step("keys", "send")
  /\ key' = run
  /\ jobs' = IF lpc' = "exit" THEN {} ELSE Transactions
  /\ UNCHANGED <<vars, run, clean, job, success, fail, gone, accounts>>

(* Ed25519 is deterministic: the same transfer, the same signature. *)
Sign(t) == <<key, t>>

(* The channel keeps the order of the file. *)
Received == CHOOSE n \in jobs : \A m \in jobs : n <= m

(* A goroutine takes the next transfer, signs and sends it. *)
SendNext(h) ==
  /\ lpc = "send"
  /\ job[h] = None
  /\ jobs # {}
  /\ job' = [job EXCEPT ![h] = Rows[Received].tx]
  /\ jobs' = jobs \ {Received}
  /\ Arrive(h, Tester, Sign(Rows[Received].tx), "TRANSFER") \/ Unauthorized(h, Tester)
  /\ UNCHANGED <<run, lpc, clean, key, success, fail, gone, accounts>>

(* sharedClient.Do returns: the handler is done, or the connection cut. *)
DoReturns(h) ==
  /\ job[h] # None
  /\ hpc[h] = "idle"
  /\ job' = [job EXCEPT ![h] = None]
  /\ UNCHANGED <<vars, run, lpc, clean, key, jobs, gone, accounts>>

StatusCreated(h) == reply[h] # None /\ reply[h].code = 201

(* Mutant: a request without a response is not counted. *)
CountAnswered(h) ==
  /\ DoReturns(h)
  /\ success' = IF StatusCreated(h) THEN success + 1 ELSE success
  /\ fail' = IF reply[h] # None /\ ~StatusCreated(h) THEN fail + 1 ELSE fail

(* Mutant: the client has no timeout. *)
CountWithoutTimeout(h) ==
  /\ reply[h] # None
  /\ DoReturns(h)
  /\ success' = IF StatusCreated(h) THEN success + 1 ELSE success
  /\ fail' = IF StatusCreated(h) THEN fail ELSE fail + 1

(* 201 is a success; any other code, the 200 of a cached response          *)
(* included, and no response at all, is a failure.                         *)
Count(h) ==
  /\ DoReturns(h)
  /\ success' = IF StatusCreated(h) THEN success + 1 ELSE success
  /\ fail' = IF StatusCreated(h) THEN fail ELSE fail + 1

(* wg.Wait() returns. *)
Report ==
  /\ lpc = "send"
  /\ \A h \in Handler : job[h] = None /\ jobs = {}
  /\ lpc' = "done"
  /\ UNCHANGED <<vars, run, clean, key, jobs, job, success, fail, gone, accounts>>

Main ==
  \/ LoginToGateway \/ ReadCSV \/ TruncateIntents \/ TruncateAccounts
  \/ PreseedBalances \/ GenerateKeyPair \/ Report

LTNext ==
  \/ StartTest \/ Main
  \/ \E h \in Handler : SendNext(h) \/ Count(h)
  \/ /\ \/ \E h \in Handler : Proceed(h) \/ Abandon(h)
        \/ TokenExpires(Tester)
        \/ \E s \in Signature : ResponseExpires(s)
     /\ UNCHANGED test

(* The steps of the program follow each other, and the gateway answers:    *)
(* its calls have timeouts, and so has the client of the program (30 s).   *)
LTSpec ==
  /\ LTInit /\ [][LTNext]_ltvars
  /\ WF_ltvars(Main)
  /\ \A h \in Handler :
       WF_ltvars(SendNext(h) \/ Count(h) \/ (Proceed(h) /\ UNCHANGED test))

-----------------------------------------------------------------------------
(* Properties *)

(* The intents this run has stored *)
Ingested == {i \in gone + 1 .. Len(intents) : intents[i].sig[1] = key}

(* "Requests Sent", "Successfully Ingested", "Failed": when the program    *)
(* reports, every transfer was counted once, each one reported as ingested *)
(* is an intent in the table, and the table has no more of them than that, *)
(* but for those whose answer a fault took away; and every one of them has *)
(* both its accounts in the wallet ("Gather all unique accounts").         *)
ReportIsTrue ==
  lpc = "done" =>
    /\ success + fail = Cardinality(Transactions)
    /\ success <= Cardinality(Ingested)
    /\ Cardinality(Ingested) <= success + faults
    /\ \A i \in Ingested : Parties(intents[i].sig[2]) \subseteq accounts

(* -clean empties the table and not the idempotency cache in Redis, where  *)
(* the responses of earlier runs stay for 24 hours: no answer to this run  *)
(* is the id of an intent that is gone.                                    *)
AnswersAreLive ==
  \A h \in Handler :
    job[h] # None /\ reply[h] # None /\ reply[h].code \in {200, 201} => reply[h].id > gone

(* Every run of the program comes to an end. *)
EveryTestEnds == lpc = "login" ~> lpc \in {"done", "exit"}

=============================================================================
