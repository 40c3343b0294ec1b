------------------------------- MODULE Ledger -------------------------------
(***************************************************************************)
(* The hash-linked JSON Lines file of the validator, and what Append,      *)
(* Verify and readLastBlock compute from it.  A line is a block or, when a *)
(* write was cut short or went on after one that was, something that does  *)
(* not parse.  The hash of a block is the tuple of the fields it covers:   *)
(* SHA-256 is taken to have no collisions, and the timestamp is left out.  *)
(***************************************************************************)
EXTENDS Naturals, Sequences

Genesis == <<>>

Garbage == [index |-> 0, intent |-> "garbage", status |-> "garbage", prev |-> Genesis, hash |-> Genesis]

Parses(line) == line # Garbage

CalculateHash(b) == <<b.index, b.intent, b.status, b.prev>>

(* readLastBlock: the last line that parses; lines that do not are skipped *)
Blocks(lines) == {k \in DOMAIN lines : Parses(lines[k])}

LastBlock(lines) == CHOOSE k \in Blocks(lines) : \A j \in Blocks(lines) : j <= k

(* The block Append builds for an intent, without its hash *)
Draft(lines, i, st) ==
  IF Blocks(lines) = {}
    THEN [index |-> 0, intent |-> i, status |-> st, prev |-> Genesis]
    ELSE LET last == lines[LastBlock(lines)]
         IN [index |-> last.index + 1, intent |-> i, status |-> st, prev |-> last.hash]

(* Mutant: the index continues, the link does not. *)
NewBlockUnlinked(lines, i, st) ==
  LET d == [Draft(lines, i, st) EXCEPT !.prev = Genesis]
  IN [index |-> d.index, intent |-> i, status |-> st, prev |-> d.prev, hash |-> CalculateHash(d)]

NewBlock(lines, i, st) ==
  LET d == Draft(lines, i, st)
  IN [index |-> d.index, intent |-> i, status |-> st, prev |-> d.prev, hash |-> CalculateHash(d)]

(* The file after b was written in append mode.  eol: the last line ends   *)
(* with a newline; if it does not, what is written is glued to it.         *)
WriteLine(lines, eol, b) ==
  IF eol THEN Append(lines, b) ELSE [lines EXCEPT ![Len(lines)] = Garbage]

(* What a write that was cut short leaves: nothing, a part of the block,   *)
(* or all of it but the newline.  The last two leave eol FALSE.            *)
CutShort(lines, eol, b) == {WriteLine(lines, eol, Garbage), WriteLine(lines, eol, b)}

(* Verify: every line parses, the indexes count from 0, every block links  *)
(* to the one before and has the hash of its fields.                       *)
Verify(lines) ==
  \A k \in DOMAIN lines :
    /\ Parses(lines[k])
    /\ lines[k].index = k - 1
    /\ lines[k].prev = IF k = 1 THEN Genesis ELSE lines[k - 1].hash
    /\ lines[k].hash = CalculateHash(lines[k])

(* handleAPILedger: GET /api/ledger shows all lines, newest first; one     *)
(* that is not JSON spoils the response.                                   *)
PageShown(lines) == \A k \in DOMAIN lines : Parses(lines[k])

(* Intent i has a block in the file *)
Recorded(lines, i) == \E k \in Blocks(lines) : lines[k].intent = i

(* The status in its first and in its last block *)
FirstStatus(lines, i) ==
  lines[CHOOSE k \in Blocks(lines) :
          lines[k].intent = i /\ \A j \in Blocks(lines) : lines[j].intent = i => k <= j].status

LastStatus(lines, i) ==
  lines[CHOOSE k \in Blocks(lines) :
          lines[k].intent = i /\ \A j \in Blocks(lines) : lines[j].intent = i => j <= k].status

=============================================================================
