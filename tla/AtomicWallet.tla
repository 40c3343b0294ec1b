---------------------------- MODULE AtomicWallet ----------------------------
(***************************************************************************)
(* What the Wallet Service promises: every Credit, Debit and Transfer      *)
(* takes effect in one indivisible step on the tables wallet_accounts and  *)
(* wallet_transactions, or not at all.  The operators that describe a      *)
(* request and its effect on the tables are shared with module Wallet,     *)
(* which executes the same requests statement by statement and is shown    *)
(* to implement this specification.                                        *)
(***************************************************************************)
EXTENDS Integers, Sequences

CONSTANTS
  NumAccounts,  \* how many account ids there are
  Ref,          \* values of reference_id
  None,         \* SQL NULL, and a request field left empty
  Seed,         \* rows the schema pre-seeds: a function from account to balance
  Ops,          \* which of "Credit", "Debit", "Transfer" clients call
  Amount,       \* amounts clients ask for, in units of 1/Scale of the last digit
  Scale,        \* how many of these units NUMERIC(20, 8) keeps as one digit
  Capacity,     \* first value NUMERIC(20, 8) cannot hold
  Exact,        \* first value float64 no longer tells from its neighbours in NUMERIC
  Fine,         \* distance between two float64 values below Exact
  Coarse        \* distance between two float64 values from Exact on

(***************************************************************************)
(* Account ids are numbered in their alphabetical order, the order in      *)
(* which Transfer compares them.                                           *)
(***************************************************************************)
Account == 1 .. NumAccounts

ASSUME WalletAssumption ==
  /\ NumAccounts \in Nat \ {0}
  /\ None \notin Account \cup Ref
  /\ DOMAIN Seed \subseteq Account
  /\ \A a \in DOMAIN Seed : Seed[a] \in Nat /\ Seed[a] % Scale = 0
  /\ Ops \subseteq {"Credit", "Debit", "Transfer"}
  /\ Amount \subseteq Int
  /\ Scale \in Nat \ {0}
  /\ Capacity \in Nat
  /\ Fine \in Nat \ {0} /\ 3 * Fine < Scale
  /\ Coarse \in Nat \ {0} /\ Fine <= Coarse
  /\ Exact \in Nat /\ Exact % Coarse = 0 /\ Exact % Scale = 0

VARIABLES
  rows,      \* accounts that have a committed row in wallet_accounts
  balance,   \* their committed balance; 0 for an account without a row
  log        \* committed rows of wallet_transactions, in commit order

tables == <<rows, balance, log>>

-----------------------------------------------------------------------------
(* Requests *)

Party     == Account \cup {None}
Reference == Ref \cup {None}

Request ==
  { r \in [op : {"Credit"},   from : {None}, to : Party,  amount : Amount, ref : Reference]
     \cup [op : {"Debit"},    from : Party,  to : {None}, amount : Amount, ref : Reference]
     \cup [op : {"Transfer"}, from : Party,  to : Party,  amount : Amount, ref : Reference] :
    r.op \in Ops }

(* Accounts whose rows the request reads and updates *)
Parties(r) == {r.from, r.to} \ {None}

(* Mutant: a call without reference_id is accepted. *)
ValidUnreferenced(r) ==
  /\ r.op \in {"Debit", "Transfer"}  => r.from # None
  /\ r.op \in {"Credit", "Transfer"} => r.to # None
  /\ r.amount > 0
  /\ r.from # r.to

(* The checks made before the SQL transaction starts *)
Valid(r) ==
  /\ r.op \in {"Debit", "Transfer"}  => r.from # None
  /\ r.op \in {"Credit", "Transfer"} => r.to # None
  /\ r.amount > 0
  /\ r.ref # None
  /\ r.from # r.to

-----------------------------------------------------------------------------
(* Effect of a request on the tables *)

(***************************************************************************)
(* The columns are decimal, the Go code computes in float64: a balance is  *)
(* scanned into a float64, the sum is a float64, and the column rounds it  *)
(* again.  float64 values lie on a grid that does not fit the decimals and *)
(* gets coarser as they grow; of its many steps the model keeps the one    *)
(* that matters, from which on it is too coarse for the column's decimals. *)
(***************************************************************************)

(* The multiple of u nearest to x, the upper one from the middle *)
Nearest(x, u) == u * ((x + u \div 2) \div u)

Ulp(x) == IF x < Exact THEN Fine ELSE Coarse

(* Mutant: balances are computed in float32, as coarse for every value. *)
Float32(x) == Nearest(x, Coarse)

(* The float64 a number becomes: an amount read from JSON, a balance read  *)
(* from the table, a sum                                                   *)
Float64(x) == Nearest(x, Ulp(x))

(* Storing a value in a NUMERIC(20, 8) column rounds it half up. *)
Numeric(x) == Nearest(x, Scale)

(* The balance the request writes for account a when it read b *)
NewBalance(r, a, b) ==
  Numeric(Float64(IF a = r.from THEN Float64(b) - Float64(r.amount)
                                ELSE Float64(b) + Float64(r.amount)))

(* Mutant: the account must exist, its balance is not compared. *)
SufficientUnchecked(r, read) == r.from # None => read[r.from] >= 0

(* The request passes the balance check against what it read *)
Sufficient(r, read) == r.from # None => Float64(read[r.from]) >= Float64(r.amount)

(* The audit row, with the amount as the float64 of the call *)
LogRow(r) ==
  [from |-> r.from, to |-> r.to, amount |-> Numeric(Float64(r.amount)), ref |-> r.ref]

Logged(ref) == \E i \in 1 .. Len(log) : log[i].ref = ref

-----------------------------------------------------------------------------
Init ==
  /\ rows = DOMAIN Seed
  /\ balance = [a \in Account |-> IF a \in DOMAIN Seed THEN Seed[a] ELSE 0]
  /\ log = <<>>

Apply(r) ==
  /\ Valid(r)
  /\ ~Logged(r.ref)
  /\ r.from \in rows \cup {None}
  /\ Sufficient(r, balance)
  /\ rows' = rows \cup ({r.to} \ {None})
  /\ balance' = [a \in Account |-> IF a \in Parties(r) THEN NewBalance(r, a, balance[a])
                                                       ELSE balance[a]]
  /\ log' = Append(log, LogRow(r))

Next == \E r \in Request : Apply(r)

Spec == Init /\ [][Next]_tables

=============================================================================
