------------------------------- MODULE Wallet -------------------------------
(***************************************************************************)
(* The Wallet Service at the granularity of its SQL statements.  Every     *)
(* gRPC call runs in a session of its own, in one READ COMMITTED           *)
(* transaction; sessions interleave between statements, wait for each      *)
(* other's row locks and uncommitted index entries, and may be rolled back *)
(* at any point (context cancelled, connection or process lost).           *)
(*                                                                         *)
(* Postgres is external: what a statement does, and when it waits, is      *)
(* modelled from the way the code uses it.                                 *)
(*   INSERT ... ON CONFLICT DO NOTHING waits for an uncommitted insert or  *)
(*     update of the same key and never locks an existing row;             *)
(*   SELECT ... FOR UPDATE sees committed rows and the session's own,      *)
(*     waits for the holder of the row and reads its latest balance;       *)
(*   INSERT into the unique index on reference_id waits for an uncommitted *)
(*     entry and fails on a committed one.                                 *)
(***************************************************************************)
EXTENDS AtomicWallet

CONSTANT Session   \* calls in progress at the same time

VARIABLES
  pc,       \* next statement of the session's transaction
  req,      \* request the session is serving
  created,  \* account rows inserted by the session and not committed
  held,     \* account rows the session has locked FOR UPDATE
  read,     \* balances the session read under these locks (Go map "locks")
  dirty     \* account rows updated by the session and not committed

session == <<pc, req, created, held, read, dirty>>
vars == <<rows, balance, log, pc, req, created, held, read, dirty>>

NoRequest == [op |-> "None", from |-> None, to |-> None, amount |-> 0, ref |-> None]

PC == {"idle", "exists", "insert", "lock", "update", "log", "commit"}

WInit ==
  /\ Init
  /\ pc = [s \in Session |-> "idle"]
  /\ req = [s \in Session |-> NoRequest]
  /\ created = [s \in Session |-> {}]
  /\ held = [s \in Session |-> {}]
  /\ read = [s \in Session |-> [a \in Account |-> 0]]
  /\ dirty = [s \in Session |-> {}]

Goto(s, l) == pc' = [pc EXCEPT ![s] = l]

(* The transaction ends: locks and uncommitted rows are gone, the call is  *)
(* answered, and the goroutine is free for the next one.                   *)
EndTx(s) ==
  /\ Goto(s, "idle")
  /\ req' = [req EXCEPT ![s] = NoRequest]
  /\ created' = [created EXCEPT ![s] = {}]
  /\ held' = [held EXCEPT ![s] = {}]
  /\ read' = [read EXCEPT ![s] = [a \in Account |-> 0]]
  /\ dirty' = [dirty EXCEPT ![s] = {}]

(* Mutant: an early return without the deferred Rollback. *)
RollbackForgotten(s) ==
  /\ Goto(s, "idle")
  /\ req' = [req EXCEPT ![s] = NoRequest]
  /\ UNCHANGED <<tables, created, held, read, dirty>>

Rollback(s) == EndTx(s) /\ UNCHANGED tables

-----------------------------------------------------------------------------
(* A call arrives.  One that fails the handler's checks, or that transfers *)
(* to its own source, is answered at once and leaves no trace.             *)
Call(s, r) ==
  /\ pc[s] = "idle"
  /\ Valid(r)
  /\ Goto(s, "exists")
  /\ req' = [req EXCEPT ![s] = r]
  /\ UNCHANGED <<tables, created, held, read, dirty>>

(* SELECT EXISTS(... reference_id ...): reads committed rows, locks nothing *)
CheckReference(s) ==
  /\ pc[s] = "exists"
  /\ ~Logged(req[s].ref)
  /\ Goto(s, IF req[s].to = None THEN "lock" ELSE "insert")
  /\ UNCHANGED <<tables, req, created, held, read, dirty>>

AlreadyProcessed(s) ==
  /\ pc[s] = "exists"
  /\ Logged(req[s].ref)
  /\ Rollback(s)

(* INSERT INTO wallet_accounts ... ON CONFLICT (id) DO NOTHING *)
KeyBusy(s, t) == t # s /\ req[s].to \in created[t] \cup dirty[t]

InsertAccount(s) ==
  /\ pc[s] = "insert"
  /\ \A t \in Session : ~KeyBusy(s, t)
  /\ created' = [created EXCEPT ![s] = {req[s].to} \ rows]
  /\ Goto(s, "lock")
  /\ UNCHANGED <<tables, req, held, read, dirty>>

(* SELECT balance ... FOR UPDATE, on the parties in alphabetical order *)
(* Mutant: the source is locked first, whatever its name. *)
LockTurnSourceFirst(s, a) ==
  /\ a \in Parties(req[s]) \ held[s]
  /\ req[s].from \in held[s] \cup {a, None}

LockTurn(s, a) ==
  /\ a \in Parties(req[s]) \ held[s]
  /\ \A b \in Parties(req[s]) \ held[s] : a <= b

Visible(s, a) == a \in rows \cup created[s]

(* Mutant: a plain SELECT, without FOR UPDATE. *)
LockRowUnlocked(s) ==
  /\ pc[s] = "lock"
  /\ \E a \in Account :
       /\ LockTurn(s, a)
       /\ Visible(s, a)
       /\ held' = [held EXCEPT ![s] = @ \cup {a}]
       /\ read' = [read EXCEPT ![s][a] = balance[a]]
  /\ Goto(s, IF held'[s] = Parties(req[s]) THEN "update" ELSE "lock")
  /\ UNCHANGED <<tables, req, created, dirty>>

LockRow(s) ==
  /\ pc[s] = "lock"
  /\ \E a \in Account :
       /\ LockTurn(s, a)
       /\ Visible(s, a)
       /\ \A t \in Session \ {s} : a \notin held[t]
       /\ held' = [held EXCEPT ![s] = @ \cup {a}]
       /\ read' = [read EXCEPT ![s][a] = balance[a]]
  /\ Goto(s, IF held'[s] = Parties(req[s]) THEN "update" ELSE "lock")
  /\ UNCHANGED <<tables, req, created, dirty>>

AccountNotFound(s) ==
  /\ pc[s] = "lock"
  /\ \E a \in Account : LockTurn(s, a) /\ ~Visible(s, a)
  /\ Rollback(s)

(* UPDATE wallet_accounts SET balance: the source first *)
UpdateTurn(s, a) ==
  /\ a \in Parties(req[s]) \ dirty[s]
  /\ req[s].from \in dirty[s] \cup {a, None}

InsufficientFunds(s) ==
  /\ pc[s] = "update"
  /\ ~Sufficient(req[s], read[s])
  /\ Rollback(s)

(* Mutant: the destination is never updated. *)
UpdateRowOnce(s) ==
  /\ pc[s] = "update"
  /\ Sufficient(req[s], read[s])
  /\ \E a \in Account :
       /\ UpdateTurn(s, a)
       /\ NewBalance(req[s], a, read[s][a]) < Capacity
       /\ dirty' = [dirty EXCEPT ![s] = @ \cup {a}]
  /\ Goto(s, "log")
  /\ UNCHANGED <<tables, req, created, held, read>>

UpdateRow(s) ==
  /\ pc[s] = "update"
  /\ Sufficient(req[s], read[s])
  /\ \E a \in Account :
       /\ UpdateTurn(s, a)
       /\ NewBalance(req[s], a, read[s][a]) < Capacity
       /\ dirty' = [dirty EXCEPT ![s] = @ \cup {a}]
  /\ Goto(s, IF dirty'[s] = Parties(req[s]) THEN "log" ELSE "update")
  /\ UNCHANGED <<tables, req, created, held, read>>

NumericOverflow(s) ==
  /\ pc[s] = "update"
  /\ Sufficient(req[s], read[s])
  /\ \E a \in Account : UpdateTurn(s, a) /\ NewBalance(req[s], a, read[s][a]) >= Capacity
  /\ Rollback(s)

(* INSERT INTO wallet_transactions, under the unique index *)
ReferenceBusy(s, t) == t # s /\ pc[t] = "commit" /\ req[t].ref = req[s].ref

(* Mutant: the index on reference_id is not UNIQUE. *)
LogTransactionNotUnique(s) ==
  /\ pc[s] = "log"
  /\ Goto(s, "commit")
  /\ UNCHANGED <<tables, req, created, held, read, dirty>>

LogTransaction(s) ==
  /\ pc[s] = "log"
  /\ ~Logged(req[s].ref)
  /\ \A t \in Session : ~ReferenceBusy(s, t)
  /\ Goto(s, "commit")
  /\ UNCHANGED <<tables, req, created, held, read, dirty>>

DuplicateReference(s) ==
  /\ pc[s] = "log"
  /\ Logged(req[s].ref)
  /\ Rollback(s)

(* Mutant: the audit row is not part of the transaction. *)
CommitUnlogged(s) ==
  /\ pc[s] = "commit"
  /\ rows' = rows \cup created[s]
  /\ balance' = [a \in Account |-> IF a \in dirty[s]
                                     THEN NewBalance(req[s], a, read[s][a])
                                     ELSE balance[a]]
  /\ EndTx(s)
  /\ UNCHANGED log

(* COMMIT makes the session's inserts and updates visible. *)
Commit(s) ==
  /\ pc[s] = "commit"
  /\ rows' = rows \cup created[s]
  /\ balance' = [a \in Account |-> IF a \in dirty[s]
                                     THEN NewBalance(req[s], a, read[s][a])
                                     ELSE balance[a]]
  /\ log' = Append(log, LogRow(req[s]))
  /\ EndTx(s)

(* The context is cancelled, or the connection or the service is lost, at  *)
(* any point of the transaction.                                           *)
Abort(s) ==
  /\ pc[s] # "idle"
  /\ Rollback(s)

Step(s) ==
  \/ CheckReference(s) \/ AlreadyProcessed(s)
  \/ InsertAccount(s)
  \/ LockRow(s) \/ AccountNotFound(s)
  \/ InsufficientFunds(s) \/ UpdateRow(s) \/ NumericOverflow(s)
  \/ LogTransaction(s) \/ DuplicateReference(s)
  \/ Commit(s)

WNext ==
  \E s \in Session :
    \/ \E r \in Request : Call(s, r)
    \/ Step(s)
    \/ Abort(s)

WSpec == WInit /\ [][WNext]_vars

(* Postgres queues the waiters of a lock, so a session that can take its   *)
(* next step again and again takes it.  Nothing is assumed of aborts or of *)
(* new calls.                                                              *)
FairWSpec == WSpec /\ \A s \in Session : SF_vars(Step(s))

-----------------------------------------------------------------------------
(* Properties *)

(* Every variable has its type (wallet/store/schema.sql and the locals of  *)
(* Credit, Debit and Transfer).                                            *)
TypeOK ==
  /\ rows \subseteq Account
  /\ balance \in [Account -> Int]
  /\ log \in Seq([from : Party, to : Party, amount : Int, ref : Ref])
  /\ pc \in [Session -> PC]
  /\ req \in [Session -> Request \cup {NoRequest}]
  /\ created \in [Session -> SUBSET Account]
  /\ held \in [Session -> SUBSET Account]
  /\ read \in [Session -> [Account -> Int]]
  /\ dirty \in [Session -> SUBSET Account]

(* No interleaving of calls drives an account below zero, although the     *)
(* balance is checked in Go and written back several statements later.     *)
NoOverdraft == \A a \in Account : balance[a] >= 0

(* A reference_id is applied at most once, whatever sessions race past the *)
(* SELECT EXISTS check with it.                                            *)
AppliedOnce ==
  \A i, j \in 1 .. Len(log) : log[i].ref = log[j].ref => i = j

(* What a session read under its row locks is still the committed balance  *)
(* when it computes and writes the new one: no update is lost.             *)
NoLostUpdate ==
  \A s \in Session : \A a \in held[s] : read[s][a] = balance[a]

(* What a row of wallet_transactions says happened to account a *)
Effect(row, a) ==
  (IF row.to = a THEN row.amount ELSE 0) - (IF row.from = a THEN row.amount ELSE 0)

Opening == [a \in Account |-> IF a \in DOMAIN Seed THEN Seed[a] ELSE 0]

(* The balances after each row of wallet_transactions *)
History ==
  LET after[n \in 0 .. Len(log)] ==
        IF n = 0 THEN Opening
                 ELSE [a \in Account |-> after[n - 1][a] + Effect(log[n], a)]
  IN  after

(* A number that float64 keeps exactly enough for the column to restore it *)
Precise(x) == x + Fine < Exact

(* Replaying wallet_transactions over the opening balances gives           *)
(* wallet_accounts: Credit, Debit and Transfer never change a balance      *)
(* without its audit row, nor write a row without the change.  The code    *)
(* computes balances in float64, so this is said of every account that the *)
(* trail never shows with a balance beyond float64's precision.            *)
AuditTrail ==
  \A a \in Account :
    (\A n \in 0 .. Len(log) : Precise(History[n][a])) => balance[a] = History[Len(log)][a]

(* "Transfer atomically transfers funds from one account to another": what *)
(* arrives is what left, but for the roundings.  Both balances are float64 *)
(* sums rounded to the column's decimals, apart from each other, so one    *)
(* unit of the last decimal may appear or disappear; with a balance beyond *)
(* float64's precision also what two roundings on the coarse grid make.    *)
ConservesUpToRounding ==
  [][ \A s \in Session : Commit(s) /\ req[s].op = "Transfer"
        => LET source   == req[s].from
               target   == req[s].to
               sent     == balance[source] - balance'[source]
               received == balance'[target] - balance[target]
               slack    == IF \A a \in {source, target} : Precise(balance[a] + req[s].amount)
                             THEN Scale
                             ELSE Scale + 2 * Coarse
           IN received - sent \in (0 - slack) .. slack ]_vars

(* Every execution of the statements is an execution in which each call    *)
(* takes effect at once (Credit, Debit and Transfer are atomic).           *)
ImplementsAtomicWallet == Spec

(* Session s waits for session t *)
Waits(s, t) ==
  \/ pc[s] = "insert" /\ KeyBusy(s, t)
  \/ /\ pc[s] = "lock"
     /\ t # s
     /\ \E a \in held[t] : LockTurn(s, a) /\ Visible(s, a)
  \/ pc[s] = "log" /\ ~Logged(req[s].ref) /\ ReferenceBusy(s, t)

(* The lock order of Transfer prevents deadlock: in every set of sessions  *)
(* there is one that waits for nobody in the set.                          *)
NoDeadlock ==
  \A D \in SUBSET Session : D # {} => \E s \in D : \A t \in D : ~Waits(s, t)

(* Every call that starts its transaction is answered, under row-lock      *)
(* contention and with no timeout to break a wait.                         *)
EveryCallAnswered == \A s \in Session : pc[s] # "idle" ~> pc[s] = "idle"

=============================================================================
