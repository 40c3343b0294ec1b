------------------------------ MODULE Listing -------------------------------
(***************************************************************************)
(* ListIntents over the Postgres store: a client walks through the pages   *)
(* of a listing, each fetched by a call of its own with the token of the   *)
(* one before, while intents are created and change their status.          *)
(***************************************************************************)
EXTENDS Integers, FiniteSets, FiniteSetsExt

CONSTANTS
  Intent,           \* intent ids
  At,               \* created_at of each, in microseconds
  PageSize,         \* page_size of the request; the gateway sends none, 0
  DefaultPageSize,  \* the size of a page when none is asked for
  MaxChanges        \* bound: changes of status in a behaviour

ASSUME ListingAssumption ==
  /\ IsFiniteSet(Intent)
  /\ At \in [Intent -> Nat \ {0}]
  /\ PageSize \in Int
  /\ DefaultPageSize \in Nat \ {0}
  /\ MaxChanges \in Nat

VARIABLES
  rows,     \* committed intents
  matches,  \* those that have the status and submitter asked for
  token,    \* page_token: a created_at; 0 for the first page
  walking,  \* there are more pages, as far as the client knows
  listed,   \* intents the client got
  repeated, \* history: intents the client got again
  steady,   \* history: intents that match since before the walk
  changes   \* changes of status so far

vars == <<rows, matches, token, walking, listed, repeated, steady, changes>>

LInit ==
  /\ rows \in SUBSET Intent
  /\ matches \in SUBSET rows
  /\ token = 0
  /\ walking = TRUE
  /\ listed = {}
  /\ repeated = {}
  /\ steady = matches
  /\ changes = 0

(* An intent is committed.  Its created_at was taken before, from the      *)
(* clock of its replica: commits need not be in the order of created_at.   *)
Create(i) ==
  /\ i \notin rows
  /\ rows' = rows \cup {i}
  /\ matches' \in {matches, matches \cup {i}}
  /\ UNCHANGED <<token, walking, listed, repeated, steady, changes>>

(* The status of an intent changes to the one asked for, or from it. *)
ChangeStatus(i) ==
  /\ i \in rows
  /\ changes < MaxChanges
  /\ changes' = changes + 1
  /\ matches' = IF i \in matches THEN matches \ {i} ELSE matches \cup {i}
  /\ steady' = steady \ {i}
  /\ UNCHANGED <<rows, token, walking, listed, repeated>>

Size == IF PageSize <= 0 THEN DefaultPageSize ELSE PageSize

(* Mutant: created_at <= token. *)
OlderOrEqual == {i \in matches : token # 0 => At[i] <= token}

(* Mutant: the token is ignored. *)
OlderUnchecked == matches

(* created_at < token, unless there is no token *)
Older == {i \in matches : token # 0 => At[i] < token}

(* Mutant: ORDER BY created_at, oldest first. *)
FirstOfOldest(page, S) ==
  /\ page \subseteq S
  /\ Cardinality(page) = Min({Size, Cardinality(S)})
  /\ \A i \in page, j \in S \ page : At[i] <= At[j]

(* ORDER BY created_at DESC LIMIT pageSize; Postgres breaks ties as it     *)
(* pleases.                                                                *)
FirstOf(page, S) ==
  /\ page \subseteq S
  /\ Cardinality(page) = Min({Size, Cardinality(S)})
  /\ \A i \in page, j \in S \ page : At[i] >= At[j]

Full(page) == Cardinality(page) = Size

(* The token of a full page is the created_at of its last row, in          *)
(* RFC3339Nano, which keeps the microseconds; other pages have none.       *)
NextToken(page) == IF Full(page) THEN Min({At[i] : i \in page}) ELSE 0

FetchPage ==
  /\ walking
  /\ \E page \in SUBSET matches :
       /\ FirstOf(page, Older)
       /\ listed' = listed \cup page
       /\ repeated' = repeated \cup (listed \cap page)
       /\ walking' = Full(page)
       /\ token' = NextToken(page)
  /\ UNCHANGED <<rows, matches, steady, changes>>

LNext ==
  \/ \E i \in Intent : Create(i) \/ ChangeStatus(i)
  \/ FetchPage

LSpec == LInit /\ [][LNext]_vars

(* The client goes on to the last page. *)
FairLSpec == LSpec /\ WF_vars(FetchPage)

-----------------------------------------------------------------------------
(* Properties *)

(* Every variable has its type (PostgresStore.List). *)
LTypeOK ==
  /\ rows \subseteq Intent
  /\ matches \subseteq rows
  /\ steady \subseteq matches
  /\ token \in {At[i] : i \in Intent} \cup {0}
  /\ walking \in BOOLEAN
  /\ listed \subseteq Intent
  /\ repeated \subseteq listed
  /\ changes \in 0 .. MaxChanges

(* No intent is on two pages, whatever is created or changes between them. *)
ListedOnce == repeated = {}

(* Pages go back in time: what a page adds is older than all before it.    *)
NewestFirst ==
  [][ \A i \in listed, j \in listed' \ listed : At[i] > At[j] ]_vars

(* An intent that matches from the start to the end of the walk is listed, *)
(* unless it shares its created_at with one that is: the token cannot tell *)
(* the two apart.                                                          *)
NothingSkipped ==
  ~walking => \A i \in steady :
    i \in listed \/ \E j \in listed : At[j] = At[i]

(* Every walk comes to an end, although intents are created meanwhile. *)
WalkEnds == <>~walking

=============================================================================
