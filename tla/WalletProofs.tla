---------------------------- MODULE WalletProofs ----------------------------
(***************************************************************************)
(* The safety properties of Wallet, and its refinement of AtomicWallet,    *)
(* for every set of sessions, accounts, references and amounts.            *)
(***************************************************************************)
EXTENDS Wallet, TLAPS, WellFoundedInduction

(* What session s owns: only the recipient can be created, only parties    *)
(* with a visible row are locked, and only locked rows are updated.        *)
Own(s) ==
  /\ created[s] \subseteq {req[s].to} \ rows
  /\ held[s] \subseteq Parties(req[s]) \cap (rows \cup created[s])
  /\ dirty[s] \subseteq held[s]

(* Where session s is in its transaction. *)
Phase(s) ==
  /\ pc[s] # "idle" => req[s] \in Request /\ Valid(req[s])
  /\ pc[s] \in {"idle", "exists", "insert"} => created[s] = {} /\ held[s] = {}
  /\ pc[s] = "insert" => req[s].to # None
  /\ pc[s] = "lock" => /\ dirty[s] = {}
                       /\ held[s] # Parties(req[s])
                       /\ \A a \in held[s] : \A b \in Parties(req[s]) \ held[s] : a < b
  /\ pc[s] \in {"update", "log", "commit"} => held[s] = Parties(req[s])
  /\ pc[s] \in {"log", "commit"} => /\ dirty[s] = Parties(req[s])
                                    /\ Sufficient(req[s], read[s])
  /\ pc[s] = "commit" => ~Logged(req[s].ref)

(* Locks, uncommitted rows and uncommitted index entries are exclusive. *)
Exclusive(s, t) ==
  /\ created[s] \cap created[t] = {}
  /\ held[s] \cap held[t] = {}
  /\ pc[s] = "commit" /\ pc[t] = "commit" => req[s].ref # req[t].ref

IInv ==
  /\ TypeOK
  /\ \A s \in Session : Own(s) /\ Phase(s)
  /\ \A s, t \in Session : s # t => Exclusive(s, t)
  /\ NoLostUpdate
  /\ NoOverdraft
  /\ AppliedOnce

-----------------------------------------------------------------------------
(* Requests and rounding *)

(* The fields of a request have their types. *)
LEMMA RequestFields ==
  ASSUME NEW r \in Request
  PROVE  /\ r.op \in {"Credit", "Debit", "Transfer"}
         /\ r.from \in Party /\ r.to \in Party
         /\ r.amount \in Int
         /\ r.ref \in Reference
  BY WalletAssumption DEF Request, Party

(* A request that passes the checks names at least one account, and asks   *)
(* for a positive amount under a reference.                                *)
LEMMA ValidRequest ==
  ASSUME NEW r \in Request, Valid(r)
  PROVE  /\ Parties(r) \subseteq Account
         /\ Parties(r) # {}
         /\ r.from # None => r.from \in Parties(r)
         /\ r.to # None => r.to \in Parties(r)
         /\ r.amount \in Nat
         /\ r.ref \in Ref
  BY RequestFields DEF Valid, Parties, Party, Reference

(* Integer division, for a divisor that is not known. *)
LEMMA Division ==
  ASSUME NEW x \in Int, NEW d \in Nat \ {0}
  PROVE  /\ x \div d \in Int
         /\ d * (x \div d) <= x /\ x < d * (x \div d) + d
         /\ x % d = 0 => x = d * (x \div d)
  OBVIOUS

(* Rounding to a grid moves a number by half a step at most, to a multiple *)
(* of the step, and never below zero.                                      *)
LEMMA NearestNear ==
  ASSUME NEW x \in Int, NEW u \in Nat \ {0}
  PROVE  /\ Nearest(x, u) \in Int
         /\ \E k \in Int : Nearest(x, u) = u * k
         /\ 2 * (Nearest(x, u) - x) <= u /\ 2 * (x - Nearest(x, u)) <= u
         /\ x >= 0 => Nearest(x, u) >= 0
<1>. DEFINE h == u \div 2
            q == (x + h) \div u
<1>1. h \in Nat /\ 2 * h <= u /\ u <= 2 * h + 1
  OBVIOUS
<1>. HIDE DEF h
<1>2. q \in Int /\ u * q <= x + h /\ x + h < u * q + u
  BY <1>1, Division
<1>3. x >= 0 => q >= 0
  BY <1>1
<1>4. Nearest(x, u) = u * q
  BY DEF Nearest, h
<1>. HIDE DEF q
<1>5. u * q \in Int /\ (x >= 0 => u * q >= 0)
  BY <1>2, <1>3
<1>6. 2 * (u * q - x) <= u /\ 2 * (x - u * q) <= u
  BY <1>1, <1>2, <1>5
<1>. QED  BY <1>2, <1>4, <1>5, <1>6

(* The float64 of a number is at most half a step of the grid away. *)
LEMMA Float64Near ==
  ASSUME NEW x \in Int
  PROVE  /\ Float64(x) \in Int
         /\ x >= 0 => Float64(x) >= 0
         /\ 2 * (Float64(x) - x) <= Coarse /\ 2 * (x - Float64(x)) <= Coarse
         /\ x < Exact => 2 * (Float64(x) - x) <= Fine /\ 2 * (x - Float64(x)) <= Fine
<1>1. /\ Fine \in Nat \ {0} /\ Coarse \in Nat \ {0} /\ Fine <= Coarse
      /\ Ulp(x) \in {Fine, Coarse} /\ (x < Exact => Ulp(x) = Fine)
  BY WalletAssumption DEF Ulp
<1>. DEFINE u == Ulp(x)
            f == Nearest(x, u)
<1>2. u \in Nat \ {0} /\ u <= Coarse /\ (x < Exact => u = Fine)
  BY <1>1
<1>. HIDE DEF u
<1>3. f \in Int /\ 2 * (f - x) <= u /\ 2 * (x - f) <= u /\ (x >= 0 => f >= 0)
  BY <1>2, NearestNear
<1>4. Float64(x) = f
  BY DEF Float64, u
<1>. HIDE DEF f
<1>. QED  BY <1>1, <1>2, <1>3, <1>4

(* The column's decimals form such a grid, too. *)
LEMMA NumericNear ==
  ASSUME NEW x \in Int
  PROVE  /\ Numeric(x) \in Int
         /\ \E k \in Int : Numeric(x) = Scale * k
         /\ 2 * (Numeric(x) - x) <= Scale /\ 2 * (x - Numeric(x)) <= Scale
         /\ x >= 0 => Numeric(x) >= 0
  BY NearestNear, WalletAssumption DEF Numeric

(* The sum that is stored, and the balance written for a party, are        *)
(* numbers.                                                                *)
NewSum(r, a, b) == IF a = r.from THEN Float64(b) - Float64(r.amount)
                                 ELSE Float64(b) + Float64(r.amount)

LEMMA NewBalanceInt ==
  ASSUME NEW r \in Request, NEW a, NEW b \in Int
  PROVE  /\ NewSum(r, a, b) \in Int
         /\ Float64(NewSum(r, a, b)) \in Int
         /\ NewBalance(r, a, b) = Numeric(Float64(NewSum(r, a, b)))
         /\ NewBalance(r, a, b) \in Int
<1>1. r.amount \in Int
  BY RequestFields
<1>2. Float64(b) \in Int /\ Float64(r.amount) \in Int
  BY <1>1, Float64Near
<1>3. NewSum(r, a, b) \in Int
  BY <1>2 DEF NewSum
<1>4. Float64(NewSum(r, a, b)) \in Int
  BY <1>3, Float64Near
<1>5. NewBalance(r, a, b) = Numeric(Float64(NewSum(r, a, b)))
  BY DEF NewBalance, NewSum
<1>. QED  BY <1>3, <1>4, <1>5, NumericNear

-----------------------------------------------------------------------------
(* The inductive invariant *)

LEMMA InitInv == WInit => IInv
<1>. SUFFICES ASSUME WInit PROVE IInv
  OBVIOUS
<1>1. TypeOK
  BY WalletAssumption DEF WInit, Init, TypeOK, PC
<1>2. \A s \in Session : Own(s) /\ Phase(s)
  BY DEF WInit, Own, Phase
<1>3. \A s, t \in Session : s # t => Exclusive(s, t)
  BY DEF WInit, Exclusive
<1>4. NoLostUpdate /\ NoOverdraft /\ AppliedOnce
  BY WalletAssumption DEF WInit, Init, NoLostUpdate, NoOverdraft, AppliedOnce
<1>. QED  BY <1>1, <1>2, <1>3, <1>4 DEF IInv

LEMMA CallInv ==
  ASSUME IInv, NEW s \in Session, NEW r \in Request, Call(s, r)
  PROVE  IInv'
<1>1. TypeOK'
  BY DEF IInv, TypeOK, Call, Goto, tables, PC
<1>2. \A t \in Session : Own(t)' /\ Phase(t)'
  BY DEF IInv, TypeOK, Own, Phase, Call, Goto, tables, Logged, Parties, Sufficient
<1>3. \A t, u \in Session : t # u => Exclusive(t, u)'
  BY DEF IInv, TypeOK, Exclusive, Call, Goto
<1>4. (NoLostUpdate /\ NoOverdraft /\ AppliedOnce)'
  BY DEF IInv, Call, tables, NoLostUpdate, NoOverdraft, AppliedOnce
<1>. QED  BY <1>1, <1>2, <1>3, <1>4 DEF IInv

LEMMA RollbackInv ==
  ASSUME IInv, NEW s \in Session, Rollback(s)
  PROVE  IInv'
<1>. USE DEF Rollback, EndTx, Goto
<1>1. TypeOK'
  BY DEF IInv, TypeOK, tables, PC
<1>2. \A t \in Session : Own(t)' /\ Phase(t)'
  BY DEF IInv, TypeOK, Own, Phase, tables, Logged, Parties, Sufficient
<1>3. \A t, u \in Session : t # u => Exclusive(t, u)'
  BY DEF IInv, TypeOK, Exclusive
<1>4. (NoLostUpdate /\ NoOverdraft /\ AppliedOnce)'
  BY DEF IInv, TypeOK, tables, NoLostUpdate, NoOverdraft, AppliedOnce
<1>. QED  BY <1>1, <1>2, <1>3, <1>4 DEF IInv

LEMMA CheckReferenceInv ==
  ASSUME IInv, NEW s \in Session, CheckReference(s)
  PROVE  IInv'
<1>. USE DEF CheckReference, Goto
<1>1. TypeOK'
  BY DEF IInv, TypeOK, tables, PC
<1>2. \A t \in Session : Own(t)'
  BY DEF IInv, TypeOK, Own, tables, Parties
<1>3. \A t \in Session : Phase(t)'
  BY ValidRequest DEF IInv, TypeOK, Own, Phase, tables, Logged, Sufficient
<1>4. \A t, u \in Session : t # u => Exclusive(t, u)'
  BY DEF IInv, TypeOK, Exclusive
<1>5. (NoLostUpdate /\ NoOverdraft /\ AppliedOnce)'
  BY DEF IInv, TypeOK, tables, NoLostUpdate, NoOverdraft, AppliedOnce
<1>. QED  BY <1>1, <1>2, <1>3, <1>4, <1>5 DEF IInv

LEMMA InsertAccountInv ==
  ASSUME IInv, NEW s \in Session, InsertAccount(s)
  PROVE  IInv'
<1>. USE DEF InsertAccount, Goto
<1>0. req[s] \in Request /\ Valid(req[s]) /\ req[s].to # None
  BY DEF IInv, Phase
<1>1. TypeOK'
  BY <1>0, ValidRequest DEF IInv, TypeOK, tables, PC
<1>2. \A t \in Session : Own(t)'
  BY <1>0 DEF IInv, TypeOK, Own, Phase, tables, Parties
<1>3. \A t \in Session : Phase(t)'
  BY <1>0, ValidRequest DEF IInv, TypeOK, Own, Phase, tables, Logged, Sufficient
<1>4. \A t, u \in Session : t # u => Exclusive(t, u)'
  BY <1>0 DEF IInv, TypeOK, Exclusive, Phase, KeyBusy
<1>5. (NoLostUpdate /\ NoOverdraft /\ AppliedOnce)'
  BY DEF IInv, TypeOK, tables, NoLostUpdate, NoOverdraft, AppliedOnce
<1>. QED  BY <1>1, <1>2, <1>3, <1>4, <1>5 DEF IInv

LEMMA LockRowInv ==
  ASSUME IInv, NEW s \in Session, LockRow(s)
  PROVE  IInv'
<1>. USE DEF LockRow, Goto
<1>0. req[s] \in Request /\ Valid(req[s])
  BY DEF IInv, Phase
<1>1. TypeOK'
  BY DEF IInv, TypeOK, tables, PC
<1>a. PICK a \in Account :
        /\ LockTurn(s, a)
        /\ Visible(s, a)
        /\ \A t \in Session \ {s} : a \notin held[t]
        /\ held' = [held EXCEPT ![s] = @ \cup {a}]
        /\ read' = [read EXCEPT ![s][a] = balance[a]]
  OBVIOUS
<1>b. Parties(req[s]) \subseteq Account
  BY <1>0, ValidRequest
<1>2. \A t \in Session : Own(t)'
  BY <1>a DEF IInv, TypeOK, Own, Phase, tables, Parties, LockTurn, Visible
<1>3. \A t \in Session : Phase(t)'
  <2>1. Phase(s)'
    <3>1. /\ held'[s] = held[s] \cup {a}
          /\ pc'[s] = IF held'[s] = Parties(req[s]) THEN "update" ELSE "lock"
          /\ req'[s] = req[s] /\ dirty'[s] = {}
      BY <1>a DEF IInv, TypeOK, Phase
    <3>2. \A x \in held'[s] : \A y \in Parties(req[s]) \ held'[s] : x < y
      BY <3>1, <1>a, <1>b DEF IInv, Phase, LockTurn, Account
    <3>. QED  BY <1>0, <3>1, <3>2 DEF Phase, Parties
  <2>2. \A t \in Session \ {s} : Phase(t)'
    BY <1>a DEF IInv, TypeOK, Phase, tables, Logged, Sufficient, Parties
  <2>. QED  BY <2>1, <2>2
<1>4. \A t, u \in Session : t # u => Exclusive(t, u)'
  BY <1>a DEF IInv, TypeOK, Exclusive
<1>5. (NoLostUpdate /\ NoOverdraft /\ AppliedOnce)'
  BY <1>a DEF IInv, TypeOK, tables, NoLostUpdate, NoOverdraft, AppliedOnce
<1>. QED  BY <1>1, <1>2, <1>3, <1>4, <1>5 DEF IInv

LEMMA UpdateRowInv ==
  ASSUME IInv, NEW s \in Session, UpdateRow(s)
  PROVE  IInv'
<1>. USE DEF UpdateRow, Goto
<1>1. TypeOK'
  BY DEF IInv, TypeOK, tables, PC
<1>2. \A t \in Session : Own(t)'
  BY DEF IInv, TypeOK, Own, Phase, tables, Parties, UpdateTurn
<1>3. \A t \in Session : Phase(t)'
  <2>1. Phase(s)'
    <3>1. /\ pc'[s] = IF dirty'[s] = Parties(req[s]) THEN "log" ELSE "update"
          /\ req' = req /\ held' = held /\ read' = read
      BY DEF IInv, TypeOK
    <3>. QED  BY <3>1 DEF IInv, Phase, Parties, Sufficient
  <2>2. \A t \in Session \ {s} : Phase(t)'
    BY DEF IInv, TypeOK, Phase, tables, Logged, Sufficient, Parties
  <2>. QED  BY <2>1, <2>2
<1>4. \A t, u \in Session : t # u => Exclusive(t, u)'
  BY DEF IInv, TypeOK, Exclusive
<1>5. (NoLostUpdate /\ NoOverdraft /\ AppliedOnce)'
  BY DEF IInv, TypeOK, tables, NoLostUpdate, NoOverdraft, AppliedOnce
<1>. QED  BY <1>1, <1>2, <1>3, <1>4, <1>5 DEF IInv

LEMMA LogTransactionInv ==
  ASSUME IInv, NEW s \in Session, LogTransaction(s)
  PROVE  IInv'
<1>. USE DEF LogTransaction, Goto
<1>1. TypeOK'
  BY DEF IInv, TypeOK, tables, PC
<1>2. \A t \in Session : Own(t)'
  BY DEF IInv, TypeOK, Own, tables, Parties
<1>3. \A t \in Session : Phase(t)'
  BY DEF IInv, TypeOK, Phase, tables, Logged, Sufficient, Parties
<1>4. \A t, u \in Session : t # u => Exclusive(t, u)'
  BY DEF IInv, TypeOK, Exclusive, ReferenceBusy
<1>5. (NoLostUpdate /\ NoOverdraft /\ AppliedOnce)'
  BY DEF IInv, TypeOK, tables, NoLostUpdate, NoOverdraft, AppliedOnce
<1>. QED  BY <1>1, <1>2, <1>3, <1>4, <1>5 DEF IInv

(* What a committing session knows: its locks cover the parties, the       *)
(* balances it read are the committed ones, and they suffice.              *)
LEMMA CommitFacts ==
  ASSUME IInv, NEW s \in Session, pc[s] = "commit"
  PROVE  /\ req[s] \in Request /\ Valid(req[s])
         /\ dirty[s] = Parties(req[s]) /\ held[s] = Parties(req[s])
         /\ Parties(req[s]) \subseteq Account
         /\ \A a \in Parties(req[s]) : read[s][a] = balance[a] /\ balance[a] \in Nat
         /\ Sufficient(req[s], balance)
         /\ ~Logged(req[s].ref)
         /\ rows \cup created[s] = rows \cup ({req[s].to} \ {None})
         /\ req[s].from \in rows \cup {None}
<1>1. /\ req[s] \in Request /\ Valid(req[s])
      /\ dirty[s] = Parties(req[s]) /\ held[s] = Parties(req[s])
      /\ Sufficient(req[s], read[s])
      /\ ~Logged(req[s].ref)
  BY DEF IInv, Phase
<1>2. Parties(req[s]) \subseteq Account
  BY <1>1, ValidRequest
<1>3. \A a \in Parties(req[s]) : read[s][a] = balance[a] /\ balance[a] \in Nat
  BY <1>1, <1>2 DEF IInv, TypeOK, NoLostUpdate, NoOverdraft
<1>4. Sufficient(req[s], balance)
  BY <1>1, <1>3, ValidRequest DEF Sufficient
<1>5. req[s].from # req[s].to
  BY <1>1 DEF Valid
<1>6. rows \cup created[s] = rows \cup ({req[s].to} \ {None})
  BY <1>1, <1>2, WalletAssumption DEF IInv, TypeOK, Own, Parties
<1>7. req[s].from \in rows \cup {None}
  BY <1>1, <1>5 DEF IInv, Own, Parties
<1>. QED  BY <1>1, <1>2, <1>3, <1>4, <1>6, <1>7

(* A committed balance is not negative: the source had at least the        *)
(* amount, as float64 numbers, the destination only gains.                 *)
LEMMA NewBalanceNat ==
  ASSUME NEW r \in Request, Valid(r), NEW a \in Parties(r), NEW b \in Nat,
         a = r.from => Float64(b) >= Float64(r.amount)
  PROVE  NewBalance(r, a, b) >= 0
<1>1. r.amount \in Nat
  BY ValidRequest
<1>2. Float64(b) \in Int /\ Float64(b) >= 0 /\ Float64(r.amount) \in Int /\ Float64(r.amount) >= 0
  BY <1>1, Float64Near
<1>3. NewSum(r, a, b) \in Int /\ NewSum(r, a, b) >= 0
  BY <1>2 DEF NewSum
<1>4. Float64(NewSum(r, a, b)) \in Int /\ Float64(NewSum(r, a, b)) >= 0
  BY <1>3, Float64Near
<1>5. NewBalance(r, a, b) = Numeric(Float64(NewSum(r, a, b)))
  BY NewBalanceInt
<1>. QED  BY <1>4, <1>5, NumericNear

LEMMA CommitInv ==
  ASSUME IInv, NEW s \in Session, Commit(s)
  PROVE  IInv'
<1>. USE DEF Commit
<1>1. /\ req[s] \in Request /\ Valid(req[s])
      /\ dirty[s] = Parties(req[s]) /\ held[s] = Parties(req[s])
      /\ Parties(req[s]) \subseteq Account
      /\ \A a \in Parties(req[s]) : read[s][a] = balance[a] /\ balance[a] \in Nat
      /\ Sufficient(req[s], balance)
      /\ ~Logged(req[s].ref)
  BY CommitFacts
<1>2. TypeOK
  BY DEF IInv
<1>3. LogRow(req[s]) \in [from : Party, to : Party, amount : Int, ref : Ref]
  BY <1>1, ValidRequest, RequestFields, Float64Near, NumericNear DEF LogRow
<1>4. /\ Len(log') = Len(log) + 1
      /\ \A i \in 1 .. Len(log) : log'[i] = log[i]
      /\ log'[Len(log) + 1] = LogRow(req[s])
      /\ LogRow(req[s]).ref = req[s].ref
  BY <1>2, <1>3 DEF TypeOK, LogRow
<1>5. \A x : Logged(x)' => Logged(x) \/ x = req[s].ref
  BY <1>2, <1>4 DEF Logged, TypeOK
<1>6. TypeOK'
  <2>1. balance' \in [Account -> Int]
    BY <1>1, <1>2, NewBalanceInt DEF TypeOK
  <2>2. log' \in Seq([from : Party, to : Party, amount : Int, ref : Ref])
    BY <1>2, <1>3 DEF TypeOK
  <2>. QED  BY <1>2, <2>1, <2>2 DEF TypeOK, EndTx, Goto, PC
<1>7. \A t \in Session : Own(t)'
  BY <1>2 DEF IInv, TypeOK, Own, Exclusive, EndTx, Parties
<1>8. \A t \in Session : Phase(t)'
  <2>1. Phase(s)'
    BY <1>2 DEF TypeOK, Phase, EndTx, Goto
  <2>2. ASSUME NEW t \in Session \ {s} PROVE Phase(t)'
    <3>1. /\ pc'[t] = pc[t] /\ req'[t] = req[t] /\ created'[t] = created[t]
          /\ held'[t] = held[t] /\ read'[t] = read[t] /\ dirty'[t] = dirty[t]
      BY <1>2 DEF TypeOK, EndTx, Goto
    <3>2. Phase(t) /\ Exclusive(s, t)
      BY DEF IInv
    <3>3. pc[t] = "commit" => ~Logged(req[t].ref)'
      BY <1>5, <3>1, <3>2 DEF Phase, Exclusive
    <3>4. pc'[t] = "commit" => ~Logged(req[t].ref)'
      BY <3>1, <3>3
    <3>. QED  BY <3>1, <3>2, <3>4 DEF Phase, Parties, Sufficient, Logged
  <2>. QED  BY <2>1, <2>2
<1>9. \A t, u \in Session : t # u => Exclusive(t, u)'
  BY <1>2 DEF IInv, TypeOK, Exclusive, EndTx, Goto
<1>10. NoLostUpdate'
  BY <1>1, <1>2 DEF IInv, TypeOK, NoLostUpdate, Exclusive, EndTx
<1>11. NoOverdraft'
  <2>. SUFFICES ASSUME NEW a \in Account PROVE balance'[a] >= 0
    BY DEF NoOverdraft
  <2>1. CASE a \in Parties(req[s])
    <3>1. a = req[s].from => Float64(balance[a]) >= Float64(req[s].amount)
      BY <1>1, <2>1, WalletAssumption DEF Sufficient, Account
    <3>2. NewBalance(req[s], a, balance[a]) >= 0
      BY <1>1, <2>1, <3>1, NewBalanceNat
    <3>. QED  BY <1>1, <2>1, <3>2
  <2>2. CASE a \notin Parties(req[s])
    BY <1>1, <2>2 DEF IInv, NoOverdraft
  <2>. QED  BY <2>1, <2>2
<1>12. AppliedOnce'
  <2>1. \A i \in 1 .. Len(log) : log'[i].ref # req[s].ref
    BY <1>1, <1>4 DEF Logged
  <2>2. log'[Len(log) + 1].ref = req[s].ref
    BY <1>4
  <2>3. Len(log) \in Nat
    BY <1>2 DEF TypeOK
  <2>4. \A i, j \in 1 .. Len(log) : log'[i].ref = log'[j].ref => i = j
    BY <1>4 DEF IInv, AppliedOnce
  <2>5. \A i \in 1 .. Len(log') : i \in 1 .. Len(log) \/ i = Len(log) + 1
    BY <1>4, <2>3
  <2>. QED  BY <2>1, <2>2, <2>4, <2>5 DEF AppliedOnce
<1>. QED  BY <1>6, <1>7, <1>8, <1>9, <1>10, <1>11, <1>12 DEF IInv

LEMMA StutterInv == IInv /\ UNCHANGED vars => IInv'
<1>. SUFFICES ASSUME IInv, UNCHANGED vars PROVE IInv'
  OBVIOUS
<1>. USE DEF vars
<1>1. TypeOK' /\ NoLostUpdate' /\ NoOverdraft' /\ AppliedOnce'
  BY DEF IInv, TypeOK, NoLostUpdate, NoOverdraft, AppliedOnce
<1>2. \A s \in Session : Own(s)' /\ Phase(s)'
  BY DEF IInv, Own, Phase, Parties, Logged, Sufficient
<1>3. \A s, t \in Session : s # t => Exclusive(s, t)'
  BY DEF IInv, Exclusive
<1>. QED  BY <1>1, <1>2, <1>3 DEF IInv

LEMMA NextInv == IInv /\ [WNext]_vars => IInv'
<1>. SUFFICES ASSUME IInv, [WNext]_vars PROVE IInv'
  OBVIOUS
<1>1. ASSUME NEW s \in Session, NEW r \in Request, Call(s, r) PROVE IInv'
  BY <1>1, CallInv
<1>2. ASSUME NEW s \in Session, Step(s) PROVE IInv'
  <2>1. CASE CheckReference(s)      BY <2>1, CheckReferenceInv
  <2>2. CASE AlreadyProcessed(s)    BY <2>2, RollbackInv DEF AlreadyProcessed
  <2>3. CASE InsertAccount(s)       BY <2>3, InsertAccountInv
  <2>4. CASE LockRow(s)             BY <2>4, LockRowInv
  <2>5. CASE AccountNotFound(s)     BY <2>5, RollbackInv DEF AccountNotFound
  <2>6. CASE InsufficientFunds(s)   BY <2>6, RollbackInv DEF InsufficientFunds
  <2>7. CASE UpdateRow(s)           BY <2>7, UpdateRowInv
  <2>8. CASE NumericOverflow(s)     BY <2>8, RollbackInv DEF NumericOverflow
  <2>9. CASE LogTransaction(s)      BY <2>9, LogTransactionInv
  <2>10. CASE DuplicateReference(s) BY <2>10, RollbackInv DEF DuplicateReference
  <2>11. CASE Commit(s)             BY <2>11, CommitInv
  <2>. QED  BY <1>2, <2>1, <2>2, <2>3, <2>4, <2>5, <2>6, <2>7, <2>8, <2>9, <2>10, <2>11 DEF Step
<1>3. ASSUME NEW s \in Session, Abort(s) PROVE IInv'
  BY <1>3, RollbackInv DEF Abort
<1>4. CASE UNCHANGED vars
  BY <1>4, StutterInv
<1>. QED  BY <1>1, <1>2, <1>3, <1>4 DEF WNext

(* The inductive invariant holds in every state of every execution of      *)
(* Credit, Debit and Transfer.                                             *)
THEOREM Invariance == WSpec => []IInv
  BY InitInv, NextInv, PTL DEF WSpec

(* Every table and every local of Credit, Debit and Transfer keeps its     *)
(* type.                                                                   *)
THEOREM TypeCorrect == WSpec => []TypeOK
<1>1. IInv => TypeOK
  BY DEF IInv
<1>. QED  BY <1>1, Invariance, PTL

(* No interleaving of calls overdraws an account.                          *)
THEOREM NeverOverdrawn == WSpec => []NoOverdraft
<1>1. IInv => NoOverdraft
  BY DEF IInv
<1>. QED  BY <1>1, Invariance, PTL

(* No reference_id is applied twice, by racing calls or by retries.        *)
THEOREM Idempotent == WSpec => []AppliedOnce
<1>1. IInv => AppliedOnce
  BY DEF IInv
<1>. QED  BY <1>1, Invariance, PTL

(* The balances read under SELECT ... FOR UPDATE are current until the     *)
(* transaction ends.                                                       *)
THEOREM UpdatesKept == WSpec => []NoLostUpdate
<1>1. IInv => NoLostUpdate
  BY DEF IInv
<1>. QED  BY <1>1, Invariance, PTL

-----------------------------------------------------------------------------
(* Deadlock freedom.  A session only waits for sessions of a higher rank:  *)
(* the account it asks for next, or a step after its last lock.            *)

Rank(s) ==
  CASE pc[s] = "lock" -> (CHOOSE a \in Account : LockTurn(s, a))
    [] pc[s] \in {"update", "log"} -> NumAccounts + 1
    [] pc[s] = "commit" -> NumAccounts + 2
    [] OTHER -> 0

(* A set of at most two accounts has a least element. *)
LEMMA NextTurn ==
  ASSUME IInv, NEW s \in Session, pc[s] = "lock"
  PROVE  \E a \in Account : LockTurn(s, a)
<1>1. /\ req[s] \in Request /\ Valid(req[s])
      /\ held[s] \subseteq Parties(req[s]) /\ held[s] # Parties(req[s])
  BY DEF IInv, Phase, Own
<1>2. Parties(req[s]) \subseteq Account
  BY <1>1, ValidRequest
<1>3. \A x, y \in Account : x <= y \/ y <= x
  BY DEF Account
<1>4. \A x \in Account : x <= x
  BY DEF Account
<1>5. PICK a \in Parties(req[s]) : a \notin held[s]
  BY <1>1
<1>6. \A x \in Parties(req[s]) : x = req[s].from \/ x = req[s].to
  BY DEF Parties
<1>. QED  BY <1>2, <1>3, <1>4, <1>5, <1>6 DEF LockTurn

LEMMA RankType ==
  ASSUME IInv, NEW s \in Session
  PROVE  /\ Rank(s) \in 0 .. NumAccounts + 2
         /\ pc[s] = "lock" => Rank(s) \in Account /\ LockTurn(s, Rank(s))
         /\ pc[s] \in {"update", "log"} => Rank(s) = NumAccounts + 1
         /\ pc[s] = "commit" => Rank(s) = NumAccounts + 2
         /\ pc[s] = "insert" => Rank(s) = 0
<1>1. pc[s] \in PC
  BY DEF IInv, TypeOK
<1>2. CASE pc[s] = "lock"
  <2>1. Rank(s) = CHOOSE a \in Account : LockTurn(s, a)
    BY <1>2 DEF Rank
  <2>2. Rank(s) \in Account /\ LockTurn(s, Rank(s))
    BY <1>2, <2>1, NextTurn
  <2>. QED  BY <1>2, <2>2, WalletAssumption DEF Account
<1>3. CASE pc[s] # "lock"
  BY <1>1, <1>3, WalletAssumption DEF Rank, PC
<1>. QED  BY <1>2, <1>3

LEMMA WaitsClimb ==
  ASSUME IInv, NEW s \in Session, NEW t \in Session, Waits(s, t)
  PROVE  Rank(s) < Rank(t)
<1>. USE WalletAssumption
<1>1. pc[t] \in PC /\ Phase(t) /\ Own(t)
  BY DEF IInv, TypeOK
<1>2. CASE pc[s] = "insert" /\ KeyBusy(s, t)
  <2>1. pc[t] \in {"lock", "update", "log", "commit"}
    BY <1>1, <1>2 DEF Phase, Own, KeyBusy, PC
  <2>. QED  BY <1>2, <2>1, RankType DEF Account
<1>3. CASE pc[s] = "lock" /\ \E a \in held[t] : LockTurn(s, a) /\ Visible(s, a)
  <2>1. PICK a \in held[t] : LockTurn(s, a)
    BY <1>3
  <2>2. a \in Account /\ Rank(s) \in Account /\ LockTurn(s, Rank(s))
    BY <1>3, RankType DEF IInv, TypeOK
  <2>3. a = Rank(s)
    BY <2>1, <2>2 DEF LockTurn, Account
  <2>4. pc[t] \in {"lock", "update", "log", "commit"}
    BY <1>1, <2>1 DEF Phase, PC
  <2>5. CASE pc[t] = "lock"
    <3>1. Rank(t) \in Parties(req[t]) \ held[t]
      BY <2>5, RankType DEF LockTurn
    <3>. QED  BY <1>1, <2>1, <2>3, <2>5, <3>1 DEF Phase
  <2>6. CASE pc[t] # "lock"
    BY <2>2, <2>4, <2>6, RankType DEF Account
  <2>. QED  BY <2>5, <2>6
<1>4. CASE pc[s] = "log" /\ ReferenceBusy(s, t)
  BY <1>4, RankType DEF ReferenceBusy
<1>. QED  BY <1>2, <1>3, <1>4 DEF Waits

LEMMA InvNoDeadlock == IInv => NoDeadlock
<1>. SUFFICES ASSUME IInv, NEW D \in SUBSET Session, D # {}
              PROVE  \E s \in D : \A t \in D : ~Waits(s, t)
  BY DEF NoDeadlock
<1>. DEFINE Distance(s) == NumAccounts + 2 - Rank(s)
            T == {Distance(s) : s \in D}
<1>1. \A s \in D : Rank(s) \in Int /\ Distance(s) \in Nat
  BY RankType, WalletAssumption
<1>2. T \subseteq Nat /\ T # {}
  BY <1>1
<1>3. PICK x \in T : \A y \in T : ~(<<y, x>> \in OpToRel(<, Nat))
  BY <1>2, NatLessThanWellFounded, WFMin, Zenon
<1>4. \A y \in T : ~(y < x)
  BY <1>2, <1>3 DEF OpToRel
<1>5. PICK s \in D : x = Distance(s)
  BY <1>3
<1>6. ASSUME NEW t \in D PROVE ~(Rank(s) < Rank(t))
  <2>1. ~(Distance(t) < Distance(s))
    BY <1>4, <1>5
  <2>2. Rank(s) \in Int /\ Rank(t) \in Int /\ NumAccounts \in Int
    BY <1>1, WalletAssumption
  <2>. QED  BY <2>1, <2>2
<1>. QED  BY <1>6, WaitsClimb

(* Locking the rows in alphabetical order excludes every cyclic wait,      *)
(* between any number of sessions and accounts, although Credit and        *)
(* Transfer insert the recipient before they lock anything.                *)
THEOREM DeadlockFree == WSpec => []NoDeadlock
  BY InvNoDeadlock, Invariance, PTL

-----------------------------------------------------------------------------
(* Refinement.  The tables are the abstract variables: Commit is Apply,    *)
(* every other step leaves the tables alone.                               *)

(* A step that is not a commit leaves the tables alone. *)
LEMMA OnlyCommitWrites ==
  ASSUME [WNext]_vars
  PROVE  (\E s \in Session : Commit(s)) \/ UNCHANGED tables
<1>1. ASSUME NEW s \in Session, Step(s), ~Commit(s) PROVE UNCHANGED tables
  BY <1>1 DEF Step, CheckReference, AlreadyProcessed, InsertAccount, LockRow,
     AccountNotFound, InsufficientFunds, UpdateRow, NumericOverflow, LogTransaction,
     DuplicateReference, Rollback
<1>2. ASSUME NEW s \in Session, Abort(s) PROVE UNCHANGED tables
  BY <1>2 DEF Abort, Rollback
<1>3. ASSUME NEW s \in Session, NEW r \in Request, Call(s, r) PROVE UNCHANGED tables
  BY <1>3 DEF Call
<1>4. CASE UNCHANGED vars
  BY <1>4 DEF vars, tables
<1>. QED  BY <1>1, <1>2, <1>3, <1>4 DEF WNext

LEMMA StepRefines == IInv /\ [WNext]_vars => [Next]_tables
<1>. SUFFICES ASSUME IInv, [WNext]_vars PROVE [Next]_tables
  OBVIOUS
<1>1. ASSUME NEW s \in Session, Commit(s) PROVE Next
  <2>1. pc[s] = "commit"
    BY <1>1 DEF Commit
  <2>2. /\ req[s] \in Request /\ Valid(req[s])
        /\ dirty[s] = Parties(req[s])
        /\ \A a \in Parties(req[s]) : read[s][a] = balance[a]
        /\ Sufficient(req[s], balance)
        /\ ~Logged(req[s].ref)
        /\ rows \cup created[s] = rows \cup ({req[s].to} \ {None})
        /\ req[s].from \in rows \cup {None}
    BY <2>1, CommitFacts
  <2>3. balance' = [a \in Account |-> IF a \in Parties(req[s])
                                        THEN NewBalance(req[s], a, balance[a])
                                        ELSE balance[a]]
    BY <1>1, <2>2 DEF Commit
  <2>4. Apply(req[s])
    BY <1>1, <2>2, <2>3 DEF Apply, Commit
  <2>. QED  BY <2>2, <2>4 DEF Next
<1>. QED  BY <1>1, OnlyCommitWrites

(* The statement-level service implements the atomic one: whatever         *)
(* interleaving, lock wait or abort occurs, the tables change as if every  *)
(* committed Credit, Debit and Transfer had run alone.                     *)
THEOREM Refinement == WSpec => ImplementsAtomicWallet
<1>1. WInit => Init
  BY DEF WInit
<1>. QED  BY <1>1, StepRefines, Invariance, PTL DEF WSpec, ImplementsAtomicWallet, Spec

-----------------------------------------------------------------------------
(* Rounding.  Stored balances are multiples of Scale, the last decimal.    *)

StoredInv == \A a \in Account : \E k \in Int : balance[a] = Scale * k

(* A multiple of d between -2d and 2d, both excluded, is -d, 0 or d. *)
LEMMA MultipleInUnit ==
  ASSUME NEW d \in Nat \ {0}, NEW j \in Int, d * j > 0 - 2 * d, d * j < 2 * d
  PROVE  d * j \in (0 - d) .. d
<1>1. ASSUME j <= -2 PROVE FALSE
  <2>1. d * j <= d * (-2)
    BY <1>1
  <2>. QED  BY <2>1
<1>2. ASSUME j >= 2 PROVE FALSE
  <2>1. d * j >= d * 2
    BY <1>2
  <2>. QED  BY <2>1
<1>3. j \in {-1, 0, 1}
  BY <1>1, <1>2
<1>. QED  BY <1>3

(* A multiple of d above -d is not negative. *)
LEMMA MultipleAbove ==
  ASSUME NEW d \in Nat \ {0}, NEW j \in Int, d * j > 0 - d
  PROVE  d * j >= 0
<1>1. ASSUME j <= -1 PROVE FALSE
  <2>1. d * j <= d * (-1)
    BY <1>1
  <2>. QED  BY <2>1
<1>2. j >= 0
  BY <1>1
<1>. QED  BY <1>2

(* The only multiple of d between -d and d, both excluded, is 0. *)
LEMMA MultipleInside ==
  ASSUME NEW d \in Nat \ {0}, NEW j \in Int, d * j > 0 - d, d * j < d
  PROVE  j = 0
<1>1. ASSUME j <= -1 PROVE FALSE
  <2>1. d * j <= d * (-1)
    BY <1>1
  <2>. QED  BY <2>1
<1>2. ASSUME j >= 1 PROVE FALSE
  <2>1. d * j >= d * 1
    BY <1>2
  <2>. QED  BY <2>1
<1>. QED  BY <1>1, <1>2

(* The two sides of a transfer, rounded apart: y and z are the sums that   *)
(* are stored, e is what float64 made of their total.                      *)
LEMMA RoundedApart ==
  ASSUME NEW k \in Int, NEW m \in Int, NEW y \in Int, NEW z \in Int, NEW e \in Nat,
         y + z - (Scale * k + Scale * m) <= e, (Scale * k + Scale * m) - (y + z) <= e
  PROVE  LET D == Numeric(y) + Numeric(z) - (Scale * k + Scale * m)
         IN  /\ D \in (0 - (Scale + e)) .. (Scale + e)
             /\ e < Scale => D \in (0 - Scale) .. Scale
<1>1. Scale \in Nat \ {0} /\ Scale * k \in Int /\ Scale * m \in Int
  BY WalletAssumption
<1>2. PICK p \in Int : Numeric(y) = Scale * p
  BY NumericNear
<1>3. PICK q \in Int : Numeric(z) = Scale * q
  BY NumericNear
<1>4. /\ Numeric(y) \in Int /\ 2 * (Numeric(y) - y) <= Scale /\ 2 * (y - Numeric(y)) <= Scale
      /\ Numeric(z) \in Int /\ 2 * (Numeric(z) - z) <= Scale /\ 2 * (z - Numeric(z)) <= Scale
  BY NumericNear
<1>. DEFINE j == p + q - k - m
            D == Numeric(y) + Numeric(z) - (Scale * k + Scale * m)
<1>5. D = Scale * j /\ j \in Int
  BY <1>1, <1>2, <1>3
<1>6. D \in Int /\ D <= Scale + e /\ 0 - D <= Scale + e
  BY <1>1, <1>4
<1>. HIDE DEF j, D
<1>7. ASSUME e < Scale PROVE D \in (0 - Scale) .. Scale
  <2>1. Scale * j > 0 - 2 * Scale /\ Scale * j < 2 * Scale
    BY <1>1, <1>5, <1>6, <1>7
  <2>. QED  BY <1>1, <1>5, <2>1, MultipleInUnit
<1>8. D \in (0 - (Scale + e)) .. (Scale + e)
  BY <1>1, <1>6
<1>. QED  BY <1>7, <1>8 DEF D

(* What is less than half a decimal away from a stored value is stored as  *)
(* that value.                                                             *)
LEMMA NumericRestores ==
  ASSUME NEW k \in Int, NEW y \in Int,
         2 * (y - Scale * k) < Scale, 2 * (Scale * k - y) < Scale
  PROVE  Numeric(y) = Scale * k
<1>1. Scale \in Nat \ {0} /\ Scale * k \in Int
  BY WalletAssumption
<1>2. PICK q \in Int : Numeric(y) = Scale * q
  BY NumericNear
<1>3. Numeric(y) \in Int /\ 2 * (Numeric(y) - y) <= Scale /\ 2 * (y - Numeric(y)) <= Scale
  BY NumericNear
<1>4. Scale * (q - k) = Scale * q - Scale * k /\ q - k \in Int /\ Scale * q \in Int
  BY <1>1, <1>2
<1>5. Scale * (q - k) > 0 - Scale /\ Scale * (q - k) < Scale
  BY <1>1, <1>2, <1>3, <1>4
<1>6. q - k = 0
  BY <1>1, <1>4, <1>5, MultipleInside
<1>7. q = k
  BY <1>2, <1>6
<1>. QED  BY <1>2, <1>7

(* Rounding to a grid never goes below a point of the grid. *)
LEMMA NearestKeeps ==
  ASSUME NEW u \in Nat \ {0}, NEW x \in Int, NEW y \in Int, y % u = 0, x >= y
  PROVE  Nearest(x, u) >= y
<1>. DEFINE e == y \div u
            h == u \div 2
            q == (x + h) \div u
<1>1. y = u * e /\ e \in Int
  BY Division
<1>2. h \in Nat
  OBVIOUS
<1>. HIDE DEF e, h
<1>3. q \in Int /\ x + h < u * q + u
  BY <1>2, Division
<1>4. Nearest(x, u) = u * q
  BY DEF Nearest, h
<1>. HIDE DEF q
<1>5. u * (q - e) = u * q - u * e /\ u * q \in Int /\ q - e \in Int
  BY <1>1, <1>3
<1>6. u * (q - e) > 0 - u
  BY <1>1, <1>2, <1>3, <1>5
<1>7. u * (q - e) >= 0
  BY <1>5, <1>6, MultipleAbove
<1>. QED  BY <1>1, <1>4, <1>5, <1>7

(* No number beyond float64's precision becomes a float64 below it, or is  *)
(* then stored as one.                                                     *)
LEMMA Float64Exact ==
  ASSUME NEW x \in Int, x >= Exact
  PROVE  Float64(x) >= Exact /\ Numeric(Float64(x)) >= Exact
<1>1. /\ Coarse \in Nat \ {0} /\ Scale \in Nat \ {0} /\ Exact \in Int
      /\ Exact % Coarse = 0 /\ Exact % Scale = 0
  BY WalletAssumption
<1>2. Float64(x) = Nearest(x, Coarse)
  BY <1>1 DEF Float64, Ulp
<1>3. Float64(x) >= Exact
  BY <1>1, <1>2, NearestKeeps
<1>4. Float64(x) \in Int
  BY Float64Near
<1>5. Numeric(Float64(x)) >= Exact
  BY <1>1, <1>3, <1>4, NearestKeeps DEF Numeric
<1>. QED  BY <1>3, <1>5

(* The step of a commit on the balances: every party gets its new balance, *)
(* computed from the committed one.                                        *)
LEMMA CommitBalances ==
  ASSUME IInv, NEW s \in Session, Commit(s)
  PROVE  /\ req[s] \in Request /\ Valid(req[s])
         /\ \A a \in Account : balance'[a] = IF a \in Parties(req[s])
                                               THEN NewBalance(req[s], a, balance[a])
                                               ELSE balance[a]
         /\ log' = Append(log, LogRow(req[s]))
<1>1. /\ req[s] \in Request /\ Valid(req[s])
      /\ dirty[s] = Parties(req[s])
      /\ \A a \in Parties(req[s]) : read[s][a] = balance[a]
  BY CommitFacts DEF Commit
<1>. QED  BY <1>1 DEF Commit

(* Every balance is stored with the precision of its column. *)
LEMMA StoredInductive ==
  /\ WInit => StoredInv
  /\ IInv /\ StoredInv /\ [WNext]_vars => StoredInv'
<1>1. ASSUME WInit PROVE StoredInv
  <2>. SUFFICES ASSUME NEW a \in Account PROVE \E k \in Int : balance[a] = Scale * k
    BY DEF StoredInv
  <2>1. CASE a \in DOMAIN Seed
    <3>0. Scale \in Nat \ {0} /\ Seed[a] \in Int /\ Seed[a] % Scale = 0
      BY <2>1, WalletAssumption
    <3>1. Seed[a] = Scale * (Seed[a] \div Scale) /\ Seed[a] \div Scale \in Int
      BY <3>0, Division
    <3>2. balance[a] = Seed[a]
      BY <1>1, <2>1 DEF WInit, Init
    <3>. QED  BY <3>1, <3>2
  <2>2. CASE a \notin DOMAIN Seed
    <3>1. balance[a] = Scale * 0
      BY <1>1, <2>2, WalletAssumption DEF WInit, Init
    <3>. QED  BY <3>1
  <2>. QED  BY <2>1, <2>2
<1>2. ASSUME IInv, StoredInv, NEW s \in Session, Commit(s) PROVE StoredInv'
  <2>. SUFFICES ASSUME NEW a \in Account PROVE \E k \in Int : balance'[a] = Scale * k
    BY DEF StoredInv
  <2>1. CASE a \in Parties(req[s])
    <3>1. req[s] \in Request /\ balance[a] \in Int
      BY <1>2, CommitBalances DEF IInv, TypeOK
    <3>2. balance'[a] = NewBalance(req[s], a, balance[a])
      BY <1>2, <2>1, CommitBalances
    <3>. QED  BY <3>1, <3>2, NewBalanceInt, NumericNear
  <2>2. CASE a \notin Parties(req[s])
    BY <1>2, <2>2, CommitBalances DEF StoredInv
  <2>. QED  BY <2>1, <2>2
<1>3. ASSUME StoredInv, UNCHANGED tables PROVE StoredInv'
  BY <1>3 DEF StoredInv, tables
<1>. QED  BY <1>1, <1>2, <1>3, OnlyCommitWrites

(* The two sums of a transfer of x between balances f and t add up to what *)
(* there was, but for four roundings; the rounding of x cancels out.       *)
LEMMA SumsApart ==
  ASSUME NEW f \in Nat, NEW t \in Nat, NEW x \in Nat, Float64(f) >= Float64(x)
  PROVE  LET y == Float64(Float64(f) - Float64(x))
             z == Float64(Float64(t) + Float64(x))
         IN  /\ y \in Int /\ z \in Int
             /\ y + z - (f + t) <= 2 * Coarse /\ (f + t) - (y + z) <= 2 * Coarse
             /\ Precise(f + x) /\ Precise(t + x)
                  => y + z - (f + t) <= 2 * Fine /\ (f + t) - (y + z) <= 2 * Fine
<1>. DEFINE F == Float64(f)
            T == Float64(t)
            X == Float64(x)
            y == Float64(F - X)
            z == Float64(T + X)
<1>1. Coarse \in Nat /\ Fine \in Nat \ {0} /\ Exact \in Nat
  BY WalletAssumption
<1>2. /\ F \in Int /\ T \in Int /\ X \in Int /\ X >= 0
      /\ 2 * (F - f) <= Coarse /\ 2 * (f - F) <= Coarse
      /\ 2 * (T - t) <= Coarse /\ 2 * (t - T) <= Coarse
      /\ f < Exact => 2 * (F - f) <= Fine /\ 2 * (f - F) <= Fine
      /\ t < Exact => 2 * (T - t) <= Fine /\ 2 * (t - T) <= Fine
      /\ x < Exact => 2 * (X - x) <= Fine
  BY Float64Near
<1>. HIDE DEF F, T, X
<1>3. F - X \in Int /\ T + X \in Int
  BY <1>2
<1>4. /\ y \in Int /\ 2 * (y - (F - X)) <= Coarse /\ 2 * ((F - X) - y) <= Coarse
      /\ F - X < Exact => 2 * (y - (F - X)) <= Fine /\ 2 * ((F - X) - y) <= Fine
  BY <1>3, Float64Near
<1>5. /\ z \in Int /\ 2 * (z - (T + X)) <= Coarse /\ 2 * ((T + X) - z) <= Coarse
      /\ T + X < Exact => 2 * (z - (T + X)) <= Fine /\ 2 * ((T + X) - z) <= Fine
  BY <1>3, Float64Near
<1>. HIDE DEF y, z
<1>6. y + z - (f + t) <= 2 * Coarse /\ (f + t) - (y + z) <= 2 * Coarse
  BY <1>1, <1>2, <1>4, <1>5
<1>7. ASSUME Precise(f + x), Precise(t + x)
      PROVE  y + z - (f + t) <= 2 * Fine /\ (f + t) - (y + z) <= 2 * Fine
  <2>1. f + x + Fine < Exact /\ t + x + Fine < Exact
    BY <1>7 DEF Precise
  <2>2. f < Exact /\ t < Exact /\ x < Exact
    BY <1>1, <2>1
  <2>3. F - X < Exact /\ T + X < Exact
    BY <1>1, <1>2, <2>1, <2>2
  <2>. QED  BY <1>1, <1>2, <1>4, <1>5, <2>2, <2>3
<1>. QED  BY <1>4, <1>5, <1>6, <1>7 DEF y, z, F, T, X

(* ConservesUpToRounding: a committed Transfer credits what it debits, up  *)
(* to one unit of the last decimal of NUMERIC(20, 8) as long as float64    *)
(* tells the balances apart, and up to two steps of its grid more beyond.  *)
THEOREM TransfersConserve == WSpec => ConservesUpToRounding
<1>1. ASSUME IInv, StoredInv, NEW s \in Session, Commit(s), req[s].op = "Transfer"
      PROVE  LET source   == req[s].from
                 target   == req[s].to
                 sent     == balance[source] - balance'[source]
                 received == balance'[target] - balance[target]
                 slack    == IF \A a \in {source, target} : Precise(balance[a] + req[s].amount)
                               THEN Scale
                               ELSE Scale + 2 * Coarse
             IN received - sent \in (0 - slack) .. slack
  <2>. DEFINE r == req[s]
              f == balance[r.from]
              t == balance[r.to]
              x == r.amount
              y == Float64(Float64(f) - Float64(x))
              z == Float64(Float64(t) + Float64(x))
  <2>0. r \in Request /\ Valid(r)
    BY <1>1, CommitBalances
  <2>1. /\ r.from \in Account /\ r.to \in Account /\ r.from # r.to
        /\ r.from \in Parties(r) /\ r.to \in Parties(r)
    BY <1>1, <2>0, RequestFields DEF Valid, Party, Parties
  <2>2. x \in Nat /\ f \in Nat /\ t \in Nat
    BY <1>1, <2>0, <2>1, ValidRequest DEF IInv, TypeOK, NoOverdraft
  <2>3. Float64(f) >= Float64(x)
    BY <1>1, <2>1, CommitFacts, WalletAssumption DEF Commit, Sufficient
  <2>4. PICK k \in Int : f = Scale * k
    BY <1>1, <2>1 DEF StoredInv
  <2>5. PICK m \in Int : t = Scale * m
    BY <1>1, <2>1 DEF StoredInv
  <2>6. balance'[r.from] = Numeric(y) /\ balance'[r.to] = Numeric(z)
    BY <1>1, <2>1, CommitBalances DEF NewBalance
  <2>7. /\ y \in Int /\ z \in Int
        /\ y + z - (f + t) <= 2 * Coarse /\ (f + t) - (y + z) <= 2 * Coarse
        /\ Precise(f + x) /\ Precise(t + x)
             => y + z - (f + t) <= 2 * Fine /\ (f + t) - (y + z) <= 2 * Fine
    BY <2>2, <2>3, SumsApart
  <2>. HIDE DEF y, z
  <2>8. Numeric(y) \in Int /\ Numeric(z) \in Int
    BY <2>7, NumericNear
  <2>. DEFINE D == Numeric(y) + Numeric(z) - (f + t)
  <2>9. D \in (0 - (Scale + 2 * Coarse)) .. (Scale + 2 * Coarse)
    <3>1. 2 * Coarse \in Nat
      BY WalletAssumption
    <3>. HIDE DEF f, t
    <3>. QED  BY <2>4, <2>5, <2>7, <3>1, RoundedApart
  <2>10. ASSUME Precise(f + x), Precise(t + x) PROVE D \in (0 - Scale) .. Scale
    <3>1. 2 * Fine \in Nat /\ 2 * Fine < Scale
      BY WalletAssumption
    <3>2. y + z - (f + t) <= 2 * Fine /\ (f + t) - (y + z) <= 2 * Fine
      BY <2>7, <2>10
    <3>. HIDE DEF f, t
    <3>. QED  BY <2>4, <2>5, <2>7, <3>1, <3>2, RoundedApart
  <2>11. (balance'[r.to] - balance[r.to]) - (balance[r.from] - balance'[r.from]) = D
    BY <2>2, <2>6, <2>8
  <2>12. (\A a \in {r.from, r.to} : Precise(balance[a] + r.amount)) <=> Precise(f + x) /\ Precise(t + x)
    OBVIOUS
  <2>. HIDE DEF D
  <2>. QED  BY <2>9, <2>10, <2>11, <2>12
<1>2. IInv /\ StoredInv /\ [WNext]_vars
        => [ \A s \in Session : Commit(s) /\ req[s].op = "Transfer"
               => LET source   == req[s].from
                      target   == req[s].to
                      sent     == balance[source] - balance'[source]
                      received == balance'[target] - balance[target]
                      slack    == IF \A a \in {source, target} : Precise(balance[a] + req[s].amount)
                                    THEN Scale
                                    ELSE Scale + 2 * Coarse
                  IN received - sent \in (0 - slack) .. slack ]_vars
  BY <1>1
<1>3. WInit => StoredInv
  BY StoredInductive
<1>4. IInv /\ StoredInv /\ [WNext]_vars => StoredInv'
  BY StoredInductive
<1>. QED  BY <1>2, <1>3, <1>4, Invariance, PTL DEF WSpec, ConservesUpToRounding

-----------------------------------------------------------------------------
(* The audit trail.  A history gives the balances after each row of        *)
(* wallet_transactions; the invariant keeps one that ends in the balances  *)
(* of wallet_accounts wherever it stays within float64's precision, and    *)
(* History is no other.                                                    *)

(* Clients ask for no more decimals than NUMERIC(20, 8) keeps. *)
WholeAmounts == \A x \in Amount : x % Scale = 0

Follows(h) ==
  \A n \in 0 .. Len(log) :
    h[n] = IF n = 0 THEN Opening
                    ELSE [a \in Account |-> h[n - 1][a] + Effect(log[n], a)]

EndsInBalance(h, a) ==
  (\A n \in 0 .. Len(log) : Precise(h[n][a])) => balance[a] = h[Len(log)][a]

ReplayInv ==
  \E h \in [0 .. Len(log) -> [Account -> Int]] :
    Follows(h) /\ \A a \in Account : EndsInBalance(h, a)

(* The function that History defines by recursion *)
After ==
  CHOOSE f : f = [n \in 0 .. Len(log) |->
                    IF n = 0 THEN Opening
                             ELSE [a \in Account |-> f[n - 1][a] + Effect(log[n], a)]]

(* The least element of a set of numbers *)
LEMMA LeastElement ==
  ASSUME NEW T, T \subseteq Nat, T # {}
  PROVE  \E x \in T : \A y \in T : x <= y
<1>1. PICK x \in T : \A y \in T : ~(<<y, x>> \in OpToRel(<, Nat))
  BY NatLessThanWellFounded, WFMin, Zenon
<1>2. \A y \in T : ~(y < x)
  BY <1>1 DEF OpToRel
<1>. QED  BY <1>2

(* There is one history at most: two would differ first after some row.    *)
LEMMA OneHistory ==
  ASSUME Len(log) \in Nat, NEW g, Follows(g), NEW h, Follows(h)
  PROVE  \A n \in 0 .. Len(log) : g[n] = h[n]
<1>. DEFINE T == { n \in 0 .. Len(log) : g[n] # h[n] }
<1>1. ASSUME T # {} PROVE FALSE
  <2>1. PICK n \in T : \A m \in T : n <= m
    <3>1. T \subseteq Nat
      OBVIOUS
    <3>. HIDE DEF T
    <3>. QED  BY <1>1, <3>1, LeastElement
  <2>2. n \in 0 .. Len(log) /\ g[n] # h[n]
    BY <2>1
  <2>3. n # 0
    BY <2>2 DEF Follows
  <2>4. n - 1 \in 0 .. Len(log) /\ n - 1 \notin T
    BY <2>1, <2>2, <2>3
  <2>5. g[n - 1] = h[n - 1]
    BY <2>4
  <2>6. /\ g[n] = [a \in Account |-> g[n - 1][a] + Effect(log[n], a)]
        /\ h[n] = [a \in Account |-> h[n - 1][a] + Effect(log[n], a)]
    BY <2>2, <2>3 DEF Follows
  <2>. QED  BY <2>2, <2>5, <2>6
<1>. QED  BY <1>1

(* A history that ends in the balances makes the trail complete. *)
LEMMA ReplayMeansTrail == TypeOK /\ ReplayInv => AuditTrail
<1>. SUFFICES ASSUME TypeOK, ReplayInv PROVE AuditTrail
  OBVIOUS
<1>1. Len(log) \in Nat
  BY DEF TypeOK
<1>2. PICK h \in [0 .. Len(log) -> [Account -> Int]] :
        Follows(h) /\ \A a \in Account : EndsInBalance(h, a)
  BY DEF ReplayInv
<1>3. h = [n \in 0 .. Len(log) |->
             IF n = 0 THEN Opening
                      ELSE [a \in Account |-> h[n - 1][a] + Effect(log[n], a)]]
  BY <1>2 DEF Follows
<1>4. After = [n \in 0 .. Len(log) |->
                 IF n = 0 THEN Opening
                          ELSE [a \in Account |-> After[n - 1][a] + Effect(log[n], a)]]
  BY <1>3 DEF After
<1>5. Follows(After)
  BY <1>4 DEF Follows
<1>6. \A n \in 0 .. Len(log) : After[n] = h[n]
  BY <1>1, <1>2, <1>5, OneHistory
<1>7. History = After
  BY DEF History, After
<1>8. \A n \in 0 .. Len(log) : History[n] = h[n]
  BY <1>6, <1>7
<1>9. Len(log) \in 0 .. Len(log)
  BY <1>1
<1>. QED  BY <1>2, <1>8, <1>9 DEF AuditTrail, EndsInBalance

(* Within float64's precision a debit and a credit of whole decimals are   *)
(* exact, as is the amount in the audit row: the three roundings are less  *)
(* than half a decimal together.                                           *)
LEMMA ExactSums ==
  ASSUME NEW b \in Nat, NEW x \in Nat, NEW k \in Int, NEW j \in Int,
         b = Scale * k, x = Scale * j, Precise(b)
  PROVE  /\ Numeric(Float64(x)) \in Int
         /\ Float64(b) >= Float64(x)
              => Numeric(Float64(Float64(b) - Float64(x))) = b - Numeric(Float64(x))
         /\ Precise(b + Numeric(Float64(x)))
              => Numeric(Float64(Float64(b) + Float64(x))) = b + Numeric(Float64(x))
<1>. DEFINE B == Float64(b)
            X == Float64(x)
            y == Float64(B - X)
            z == Float64(B + X)
            L == Numeric(X)
<1>1. Scale \in Nat \ {0} /\ Fine \in Nat \ {0} /\ 3 * Fine < Scale /\ Exact \in Nat
  BY WalletAssumption
<1>2. b + Fine < Exact
  BY DEF Precise
<1>3. /\ B \in Int /\ X \in Int /\ X >= 0
      /\ 2 * (B - b) <= Fine /\ 2 * (b - B) <= Fine
      /\ x < Exact => 2 * (X - x) <= Fine /\ 2 * (x - X) <= Fine
      /\ x >= Exact => X >= Exact /\ L >= Exact
      /\ L \in Int
  <2>1. /\ B \in Int /\ X \in Int /\ X >= 0
        /\ 2 * (B - b) <= Fine /\ 2 * (b - B) <= Fine
        /\ x < Exact => 2 * (X - x) <= Fine /\ 2 * (x - X) <= Fine
    BY <1>1, <1>2, Float64Near
  <2>2. x >= Exact => X >= Exact /\ L >= Exact
    BY <1>1, Float64Exact
  <2>3. L \in Int
    BY <2>1, NumericNear
  <2>. QED  BY <2>1, <2>2, <2>3
<1>4. b - x = Scale * (k - j) /\ b + x = Scale * (k + j) /\ k - j \in Int /\ k + j \in Int
  BY <1>1
<1>. HIDE DEF L
<1>4a. ASSUME x < Exact PROVE L = x
  <2>1. 2 * (X - Scale * j) < Scale /\ 2 * (Scale * j - X) < Scale
    BY <1>1, <1>3, <1>4a
  <2>. QED  BY <1>3, <2>1, NumericRestores DEF L
<1>. HIDE DEF B, X
<1>5. B - X \in Int /\ B + X \in Int
  BY <1>3
<1>6. /\ y \in Int
      /\ B - X < Exact => 2 * (y - (B - X)) <= Fine /\ 2 * ((B - X) - y) <= Fine
      /\ z \in Int
      /\ B + X < Exact => 2 * (z - (B + X)) <= Fine /\ 2 * ((B + X) - z) <= Fine
  BY <1>5, Float64Near
<1>. HIDE DEF y, z
<1>7. ASSUME B >= X PROVE Numeric(y) = b - L
  <2>1. x < Exact
    BY <1>1, <1>2, <1>3, <1>7
  <2>2. B - X < Exact
    BY <1>1, <1>2, <1>3
  <2>3. 2 * (y - (b - x)) < Scale /\ 2 * ((b - x) - y) < Scale
    BY <1>1, <1>3, <1>6, <2>1, <2>2
  <2>4. 2 * (y - Scale * (k - j)) < Scale /\ 2 * (Scale * (k - j) - y) < Scale
    BY <1>4, <2>3
  <2>5. Numeric(y) = b - x
    BY <1>4, <1>6, <2>4, NumericRestores
  <2>. QED  BY <1>4a, <2>1, <2>5
<1>8. ASSUME Precise(b + L) PROVE Numeric(z) = b + L
  <2>1. x < Exact /\ b + x + Fine < Exact
    BY <1>1, <1>3, <1>4a, <1>8 DEF Precise
  <2>2. B + X < Exact
    BY <1>1, <1>3, <2>1
  <2>3. 2 * (z - (b + x)) < Scale /\ 2 * ((b + x) - z) < Scale
    BY <1>1, <1>3, <1>6, <2>1, <2>2
  <2>4. 2 * (z - Scale * (k + j)) < Scale /\ 2 * (Scale * (k + j) - z) < Scale
    BY <1>4, <2>3
  <2>5. Numeric(z) = b + x
    BY <1>4, <1>6, <2>4, NumericRestores
  <2>. QED  BY <1>4a, <2>1, <2>5
<1>. QED  BY <1>3, <1>7, <1>8 DEF y, z, B, X, L

(* A commit changes every balance within float64's precision by what its   *)
(* audit row says.                                                         *)
LEMMA CommitIsLogged ==
  ASSUME WholeAmounts, IInv, StoredInv, NEW s \in Session, Commit(s), NEW a \in Account,
         Precise(balance[a]), Precise(balance[a] + Effect(LogRow(req[s]), a))
  PROVE  balance'[a] = balance[a] + Effect(LogRow(req[s]), a)
<1>. DEFINE r == req[s]
<1>1. r \in Request /\ Valid(r) /\ r.amount \in Amount /\ r.from # r.to
  BY CommitBalances DEF Request, Valid
<1>2. r.amount \in Nat /\ r.amount % Scale = 0 /\ balance[a] \in Nat
  BY <1>1, ValidRequest DEF WholeAmounts, IInv, TypeOK, NoOverdraft
<1>. DEFINE j == r.amount \div Scale
<1>3. r.amount = Scale * j /\ j \in Int
  <2>1. Scale \in Nat \ {0} /\ r.amount \in Int
    BY <1>2, WalletAssumption
  <2>. HIDE DEF r
  <2>. QED  BY <1>2, <2>1, Division
<1>4. PICK k \in Int : balance[a] = Scale * k
  BY DEF StoredInv
<1>. HIDE DEF j
<1>. DEFINE L == Numeric(Float64(r.amount))
<1>5. /\ L \in Int
      /\ Float64(balance[a]) >= Float64(r.amount)
           => Numeric(Float64(Float64(balance[a]) - Float64(r.amount))) = balance[a] - L
      /\ Precise(balance[a] + L)
           => Numeric(Float64(Float64(balance[a]) + Float64(r.amount))) = balance[a] + L
  BY <1>2, <1>3, <1>4, ExactSums
<1>6. LogRow(r).from = r.from /\ LogRow(r).to = r.to /\ LogRow(r).amount = L
  BY DEF LogRow
<1>. HIDE DEF L
<1>7. a # None
  BY WalletAssumption
<1>8. balance'[a] = IF a \in Parties(r) THEN NewBalance(r, a, balance[a]) ELSE balance[a]
  BY CommitBalances
<1>9. r.from = a => Float64(balance[a]) >= Float64(r.amount)
  BY <1>7, CommitFacts DEF Commit, Sufficient
<1>10. Effect(LogRow(r), a) = IF a = r.from THEN 0 - L ELSE IF a = r.to THEN L ELSE 0
  BY <1>1, <1>5, <1>6 DEF Effect
<1>11. CASE a = r.from
  <2>1. balance'[a] = Numeric(Float64(Float64(balance[a]) - Float64(r.amount)))
    BY <1>7, <1>8, <1>11 DEF Parties, NewBalance
  <2>. QED  BY <1>2, <1>5, <1>9, <1>10, <1>11, <2>1
<1>12. CASE a # r.from /\ a = r.to
  <2>1. balance'[a] = Numeric(Float64(Float64(balance[a]) + Float64(r.amount)))
    BY <1>7, <1>8, <1>12 DEF Parties, NewBalance
  <2>2. Effect(LogRow(r), a) = L
    BY <1>10, <1>12
  <2>3. Precise(balance[a] + L)
    BY <2>2
  <2>. QED  BY <1>5, <2>1, <2>2, <2>3
<1>13. CASE a # r.from /\ a # r.to
  BY <1>2, <1>8, <1>10, <1>13 DEF Parties
<1>. QED  BY <1>11, <1>12, <1>13

LEMMA ReplayInductive ==
  ASSUME WholeAmounts
  PROVE  /\ WInit => ReplayInv
         /\ IInv /\ IInv' /\ StoredInv /\ ReplayInv /\ [WNext]_vars => ReplayInv'
<1>1. ASSUME WInit PROVE ReplayInv
  <2>. DEFINE h == [n \in 0 .. Len(log) |-> Opening]
  <2>1. Len(log) = 0 /\ balance = Opening /\ Opening \in [Account -> Int]
    BY <1>1, WalletAssumption DEF WInit, Init, Opening
  <2>2. h \in [0 .. Len(log) -> [Account -> Int]] /\ Follows(h) /\ h[Len(log)] = balance
    BY <2>1 DEF Follows
  <2>. QED  BY <2>2 DEF ReplayInv, EndsInBalance
<1>2. ASSUME IInv, IInv', StoredInv, ReplayInv, NEW s \in Session, Commit(s) PROVE ReplayInv'
  <2>1. PICK h \in [0 .. Len(log) -> [Account -> Int]] :
          Follows(h) /\ \A a \in Account : EndsInBalance(h, a)
    BY <1>2 DEF ReplayInv
  <2>2. /\ Len(log) \in Nat
        /\ log \in Seq([from : Party, to : Party, amount : Int, ref : Ref])
        /\ balance \in [Account -> Int]
    BY <1>2 DEF IInv, TypeOK
  <2>3. LogRow(req[s]) \in [from : Party, to : Party, amount : Int, ref : Ref]
    BY <1>2, CommitBalances, ValidRequest, RequestFields, Float64Near, NumericNear DEF LogRow
  <2>4. /\ Len(log') = Len(log) + 1
        /\ \A n \in 1 .. Len(log) : log'[n] = log[n]
        /\ log'[Len(log) + 1] = LogRow(req[s])
    BY <1>2, <2>2, <2>3, CommitBalances
  <2>. DEFINE last == [a \in Account |-> h[Len(log)][a] + Effect(LogRow(req[s]), a)]
              g == [n \in 0 .. Len(log) + 1 |-> IF n = Len(log) + 1 THEN last ELSE h[n]]
  <2>a. \A a \in Account : Effect(LogRow(req[s]), a) \in Int
    BY <2>3 DEF Effect
  <2>b. last \in [Account -> Int]
    <3>1. h[Len(log)] \in [Account -> Int]
      BY <2>1, <2>2
    <3>2. \A a \in Account : h[Len(log)][a] + Effect(LogRow(req[s]), a) \in Int
      BY <2>a, <3>1
    <3>. QED  BY <3>2
  <2>. HIDE DEF last
  <2>5. g \in [0 .. Len(log') -> [Account -> Int]]
    BY <2>1, <2>2, <2>4, <2>b
  <2>6. /\ g[Len(log) + 1] = last
        /\ \A n \in 0 .. Len(log) : g[n] = h[n]
    BY <2>2
  <2>. HIDE DEF g
  <2>7. ASSUME NEW n \in 0 .. Len(log')
        PROVE  g[n] = IF n = 0 THEN Opening
                               ELSE [a \in Account |-> g[n - 1][a] + Effect(log'[n], a)]
    <3>1. CASE n = Len(log) + 1
      <4>1. g[n] = last /\ g[n - 1] = h[Len(log)] /\ log'[n] = LogRow(req[s]) /\ n # 0
        BY <2>2, <2>4, <2>6, <3>1
      <4>. QED  BY <4>1 DEF last
    <3>2. CASE n \in 1 .. Len(log)
      <4>1. /\ g[n] = h[n] /\ g[n - 1] = h[n - 1] /\ log'[n] = log[n] /\ n # 0
            /\ n \in 0 .. Len(log)
        BY <2>2, <2>4, <2>6, <3>2
      <4>2. h[n] = [a \in Account |-> h[n - 1][a] + Effect(log[n], a)]
        BY <2>1, <4>1 DEF Follows
      <4>. QED  BY <4>1, <4>2
    <3>3. CASE n = 0
      <4>1. g[n] = h[0] /\ 0 \in 0 .. Len(log)
        BY <2>2, <2>6, <3>3
      <4>. QED  BY <2>1, <3>3, <4>1 DEF Follows
    <3>. QED  BY <2>2, <2>4, <3>1, <3>2, <3>3
  <2>8. ASSUME NEW a \in Account, \A n \in 0 .. Len(log') : Precise(g[n][a])
        PROVE  balance'[a] = g[Len(log')][a]
    <3>1. \A n \in 0 .. Len(log) : n \in 0 .. Len(log') /\ g[n] = h[n]
      BY <2>2, <2>4, <2>6
    <3>2. \A n \in 0 .. Len(log) : Precise(h[n][a])
      BY <2>8, <3>1
    <3>3. balance[a] = h[Len(log)][a]
      BY <2>1, <3>2 DEF EndsInBalance
    <3>4. Precise(balance[a])
      BY <2>2, <3>2, <3>3
    <3>5. g[Len(log')][a] = balance[a] + Effect(LogRow(req[s]), a)
      BY <2>4, <2>6, <3>3 DEF last
    <3>6. Precise(g[Len(log')][a])
      BY <2>2, <2>4, <2>8
    <3>7. Precise(balance[a] + Effect(LogRow(req[s]), a))
      BY <3>5, <3>6
    <3>. QED  BY <1>2, <3>4, <3>5, <3>7, CommitIsLogged
  <2>9. \E f \in [0 .. Len(log') -> [Account -> Int]] :
          /\ \A n \in 0 .. Len(log') :
               f[n] = IF n = 0 THEN Opening
                               ELSE [a \in Account |-> f[n - 1][a] + Effect(log'[n], a)]
          /\ \A a \in Account :
               (\A n \in 0 .. Len(log') : Precise(f[n][a])) => balance'[a] = f[Len(log')][a]
    BY <2>5, <2>7, <2>8
  <2>. QED  BY <2>9 DEF ReplayInv, Follows, EndsInBalance, Effect, Opening, Precise
<1>3. ASSUME ReplayInv, UNCHANGED tables PROVE ReplayInv'
  <2>1. log' = log /\ balance' = balance
    BY <1>3 DEF tables
  <2>2. PICK h \in [0 .. Len(log) -> [Account -> Int]] :
          Follows(h) /\ \A a \in Account : EndsInBalance(h, a)
    BY <1>3 DEF ReplayInv
  <2>3. h \in [0 .. Len(log') -> [Account -> Int]]
    BY <2>1, <2>2
  <2>4. \A n \in 0 .. Len(log') :
          h[n] = IF n = 0 THEN Opening
                          ELSE [a \in Account |-> h[n - 1][a] + Effect(log'[n], a)]
    BY <2>1, <2>2 DEF Follows
  <2>5. \A a \in Account :
          (\A n \in 0 .. Len(log') : Precise(h[n][a])) => balance'[a] = h[Len(log')][a]
    BY <2>1, <2>2 DEF EndsInBalance
  <2>. QED  BY <2>3, <2>4, <2>5 DEF ReplayInv, Follows, EndsInBalance, Effect, Opening, Precise
<1>. QED  BY <1>1, <1>2, <1>3, OnlyCommitWrites

(* AuditTrail: if no amount has more decimals than the column keeps, the   *)
(* committed balance of every account that the trail shows within          *)
(* float64's precision is what replaying wallet_transactions gives.        *)
THEOREM TrailIsComplete == WholeAmounts => (WSpec => []AuditTrail)
<1>. SUFFICES ASSUME WholeAmounts PROVE WSpec => []AuditTrail
  OBVIOUS
<1>1. WInit => StoredInv /\ ReplayInv
  BY StoredInductive, ReplayInductive
<1>2. IInv /\ IInv' /\ StoredInv /\ ReplayInv /\ [WNext]_vars => (StoredInv /\ ReplayInv)'
  BY StoredInductive, ReplayInductive
<1>3. IInv /\ ReplayInv => AuditTrail
  BY ReplayMeansTrail DEF IInv
<1>. QED  BY <1>1, <1>2, <1>3, Invariance, PTL DEF WSpec

=============================================================================
