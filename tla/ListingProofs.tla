---------------------------- MODULE ListingProofs ---------------------------
(***************************************************************************)
(* Theorems about Listing: for every table, every created_at and every     *)
(* size of the pages, a walk lists nothing twice, goes back in time, and   *)
(* skips nothing but intents that share their created_at with one listed.  *)
(***************************************************************************)
EXTENDS Listing, TLAPS, FiniteSetTheorems, WellFoundedInduction

(* Everything listed is at or after the token; before the first page       *)
(* nothing is listed.                                                      *)
Behind ==
  walking => /\ token = 0 => listed = {}
             /\ token # 0 => \A i \in listed : At[i] >= token

(* Intent i is listed, or has the created_at of one that is *)
Covered(i) == i \in listed \/ \E j \in listed : At[j] = At[i]

(* What matches all the time is covered from now back to the token. *)
CoveredSoFar ==
  walking /\ token # 0 => \A i \in steady : At[i] >= token => Covered(i)

LInv == LTypeOK /\ Behind /\ CoveredSoFar /\ ListedOnce /\ NothingSkipped

-----------------------------------------------------------------------------
(* Min of a set of natural numbers is its least element. *)
LEMMA MinNat ==
  ASSUME NEW S, S \subseteq Nat, S # {}
  PROVE  Min(S) \in S /\ \A y \in S : Min(S) <= y
<1>1. PICK x \in S : \A y \in S : ~(<<y, x>> \in OpToRel(<, Nat))
  BY NatLessThanWellFounded, WFMin, Zenon
<1>2. \A y \in S : ~(y < x)
  BY <1>1 DEF OpToRel
<1>3. \A y \in S : x <= y
  BY <1>2
<1>. QED  BY <1>3 DEF Min

(* A page holds at least one row. *)
LEMMA SizeType == Size \in Nat \ {0}
  BY ListingAssumption DEF Size

(* A full page is not empty, and its token is the created_at of one of its *)
(* rows and at or before those of all.                                     *)
LEMMA FullPage ==
  ASSUME NEW page \in SUBSET Intent, Full(page)
  PROVE  /\ \E i \in page : NextToken(page) = At[i]
         /\ \A i \in page : NextToken(page) <= At[i]
<1>1. IsFiniteSet(page)
  BY FS_Subset, ListingAssumption
<1>2. page # {}
  BY <1>1, FS_EmptySet, SizeType DEF Full
<1>. DEFINE T == {At[i] : i \in page}
<1>3. T \subseteq Nat /\ T # {}
  BY <1>2, ListingAssumption
<1>4. Min(T) \in T /\ \A y \in T : Min(T) <= y
  BY <1>3, MinNat
<1>5. NextToken(page) = Min(T)
  BY DEF NextToken
<1>. QED  BY <1>4, <1>5

(* A page that is not full holds all there is. *)
LEMMA LastPage ==
  ASSUME NEW S \in SUBSET Intent, NEW page, FirstOf(page, S), ~Full(page)
  PROVE  page = S
<1>1. IsFiniteSet(S) /\ page \in SUBSET S
  BY FS_Subset, ListingAssumption DEF FirstOf
<1>2. Cardinality(S) \in Nat
  BY <1>1, FS_CardinalityType
<1>3. Min({Size, Cardinality(S)}) \in {Size, Cardinality(S)}
  <2>1. {Size, Cardinality(S)} \subseteq Nat /\ {Size, Cardinality(S)} # {}
    BY <1>2, SizeType
  <2>. QED  BY <2>1, MinNat
<1>4. Cardinality(page) = Cardinality(S)
  BY <1>3 DEF FirstOf, Full
<1>. QED  BY <1>1, <1>4, FS_Subset

-----------------------------------------------------------------------------
LEMMA ListingInit == LInit => LInv
  BY ListingAssumption DEF LInit, LInv, LTypeOK, Behind, CoveredSoFar, ListedOnce, NothingSkipped

LEMMA CreateInv ==
  ASSUME LInv, NEW i \in Intent, Create(i)
  PROVE  LInv'
<1>1. LTypeOK'
  BY ListingAssumption DEF LInv, LTypeOK, Create
<1>. QED  BY <1>1 DEF LInv, Create, Behind, CoveredSoFar, Covered, ListedOnce, NothingSkipped

LEMMA ChangeStatusInv ==
  ASSUME LInv, NEW i \in Intent, ChangeStatus(i)
  PROVE  LInv'
<1>1. LTypeOK'
  BY ListingAssumption DEF LInv, LTypeOK, ChangeStatus
<1>. QED  BY <1>1 DEF LInv, ChangeStatus, Behind, CoveredSoFar, Covered, ListedOnce, NothingSkipped

(* What a page adds is older than all that was listed before. *)
LEMMA PageIsOlder ==
  ASSUME LInv, walking, NEW page, FirstOf(page, Older)
  PROVE  /\ page \in SUBSET matches /\ page \in SUBSET Intent
         /\ \A i \in listed, j \in page : At[i] > At[j]
<1>1. page \subseteq Older /\ matches \subseteq Intent /\ listed \subseteq Intent
  BY DEF LInv, LTypeOK, FirstOf
<1>2. page \in SUBSET matches /\ page \in SUBSET Intent
  BY <1>1 DEF Older
<1>3. ASSUME NEW i \in listed, NEW j \in page PROVE At[i] > At[j]
  <2>1. token # 0 /\ At[i] >= token
    BY DEF LInv, Behind
  <2>2. At[j] < token
    BY <1>1, <2>1 DEF Older
  <2>3. token \in Nat /\ At[i] \in Nat /\ At[j] \in Nat
    BY <1>1, <1>2, ListingAssumption DEF LInv, LTypeOK
  <2>. QED  BY <2>1, <2>2, <2>3
<1>. QED  BY <1>2, <1>3

LEMMA FetchPageInv ==
  ASSUME LInv, FetchPage
  PROVE  LInv'
<1>1. PICK page \in SUBSET matches :
        /\ FirstOf(page, Older)
        /\ listed' = listed \cup page
        /\ repeated' = repeated \cup (listed \cap page)
        /\ walking' = Full(page)
        /\ token' = NextToken(page)
  BY DEF FetchPage
<1>2. walking /\ UNCHANGED <<rows, matches, steady, changes>>
  BY DEF FetchPage
<1>3. page \in SUBSET Intent /\ \A i \in listed, j \in page : At[i] > At[j]
  BY <1>1, <1>2, PageIsOlder
<1>4. /\ token \in Nat
      /\ listed \subseteq Intent /\ steady \subseteq matches /\ matches \subseteq Intent
      /\ \A i \in Intent : At[i] \in Nat \ {0}
  BY ListingAssumption DEF LInv, LTypeOK
<1>5. listed \cap page = {}
  BY <1>3, <1>4
<1>6. CASE Full(page)
  <2>1. /\ \E i \in page : token' = At[i]
        /\ \A i \in page : token' <= At[i]
    BY <1>1, <1>3, <1>6, FullPage
  <2>2. token' \in Nat \ {0}
    BY <2>1, <1>3, <1>4
  <2>3. LTypeOK'
    BY <1>1, <1>2, <1>3, <1>5, <1>6, <2>1 DEF LInv, LTypeOK
  <2>4. Behind'
    <3>1. \A i \in listed : At[i] >= token'
      BY <2>1, <1>3, <1>4
    <3>. QED  BY <1>1, <2>1, <2>2, <3>1, <1>3, <1>4 DEF Behind
  <2>5. CoveredSoFar'
    <3>1. ASSUME NEW i \in steady, At[i] >= token'
          PROVE  i \in listed \cup page \/ \E j \in listed \cup page : At[j] = At[i]
      <4>1. CASE token # 0 /\ At[i] >= token
        BY <4>1, <1>2 DEF LInv, CoveredSoFar, Covered
      <4>2. CASE ~(token # 0 /\ At[i] >= token)
        <5>1. i \in Older
          BY <4>2, <1>4 DEF Older
        <5>2. CASE i \in page
          BY <5>2
        <5>3. CASE i \notin page
          <6>1. \A j \in page : At[j] >= At[i]
            BY <5>1, <5>3, <1>1 DEF FirstOf
          <6>. QED  BY <6>1, <2>1, <3>1, <1>3, <1>4
        <5>. QED  BY <5>2, <5>3
      <4>. QED  BY <4>1, <4>2
    <3>. QED  BY <3>1, <1>1, <1>2 DEF CoveredSoFar, Covered
  <2>6. ListedOnce'
    BY <1>1, <1>5 DEF LInv, ListedOnce
  <2>7. NothingSkipped'
    BY <1>1, <1>6 DEF NothingSkipped
  <2>. QED  BY <2>3, <2>4, <2>5, <2>6, <2>7 DEF LInv
<1>7. CASE ~Full(page)
  <2>1. Older \in SUBSET Intent
    BY <1>4 DEF Older
  <2>2. page = Older
    BY <1>1, <1>7, <2>1, LastPage
  <2>3. token' = 0 /\ walking' = FALSE
    BY <1>1, <1>7 DEF NextToken
  <2>4. LTypeOK'
    BY <1>1, <1>2, <1>3, <1>5, <2>3 DEF LInv, LTypeOK
  <2>5. Behind' /\ CoveredSoFar'
    BY <2>3 DEF Behind, CoveredSoFar
  <2>6. ListedOnce'
    BY <1>1, <1>5 DEF LInv, ListedOnce
  <2>7. NothingSkipped'
    <3>1. ASSUME NEW i \in steady
          PROVE  i \in listed \cup page \/ \E j \in listed \cup page : At[j] = At[i]
      <4>1. CASE token # 0 /\ At[i] >= token
        BY <4>1, <1>2 DEF LInv, CoveredSoFar, Covered
      <4>2. CASE ~(token # 0 /\ At[i] >= token)
        BY <4>2, <2>2, <1>4 DEF Older
      <4>. QED  BY <4>1, <4>2
    <3>. QED  BY <3>1, <1>1, <1>2 DEF NothingSkipped
  <2>. QED  BY <2>4, <2>5, <2>6, <2>7 DEF LInv
<1>. QED  BY <1>6, <1>7

LEMMA ListingStutter == LInv /\ UNCHANGED vars => LInv'
  BY DEF LInv, LTypeOK, Behind, CoveredSoFar, Covered, ListedOnce, NothingSkipped, vars

LEMMA ListingStep == LInv /\ [LNext]_vars => LInv'
  BY CreateInv, ChangeStatusInv, FetchPageInv, ListingStutter DEF LNext

-----------------------------------------------------------------------------
(* The inductive invariant of a walk over the pages of List. *)
THEOREM ListingInvariance == LSpec => []LInv
  BY ListingInit, ListingStep, PTL DEF LSpec

(* The locals of List and of the client keep their types. *)
THEOREM ListingTypeCorrect == LSpec => []LTypeOK
<1>1. LInv => LTypeOK
  BY DEF LInv
<1>. QED  BY <1>1, ListingInvariance, PTL

(* List never returns an intent on two pages of a walk, whatever is        *)
(* created or changes its status in between.                               *)
THEOREM NeverListedTwice == LSpec => []ListedOnce
<1>1. LInv => ListedOnce
  BY DEF LInv
<1>. QED  BY <1>1, ListingInvariance, PTL

(* When a walk is over, what matched all the time was returned by List, or *)
(* an intent with the same created_at was.                                 *)
THEOREM WalkIsComplete == LSpec => []NothingSkipped
<1>1. LInv => NothingSkipped
  BY DEF LInv
<1>. QED  BY <1>1, ListingInvariance, PTL

(* Every page of List is older than the pages before it. *)
THEOREM PagesGoBack == LSpec => NewestFirst
<1>1. LInv /\ [LNext]_vars => [ \A i \in listed, j \in listed' \ listed : At[i] > At[j] ]_vars
  <2>. SUFFICES ASSUME LInv, LNext
                PROVE  \A i \in listed, j \in listed' \ listed : At[i] > At[j]
    OBVIOUS
  <2>1. CASE \E i \in Intent : Create(i) \/ ChangeStatus(i)
    BY <2>1 DEF Create, ChangeStatus
  <2>2. CASE FetchPage
    BY <2>2, PageIsOlder DEF FetchPage
  <2>. QED  BY <2>1, <2>2 DEF LNext
<1>. QED  BY <1>1, ListingInvariance, PTL DEF LSpec, NewestFirst

=============================================================================
