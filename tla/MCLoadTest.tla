---------------------------- MODULE MCLoadTest -----------------------------
(* Instances of LoadTest for TLC *)
EXTENDS LoadTest

CONSTANTS h1, h2, c1

TwoHandlers == {h1, h2}
OneClient == {c1}

Tx(from, to) == [from |-> from, to |-> to, amount |-> 1]

(* Two of the transfers are equal, one row is no transfer, the last is beyond the limit. *)
File ==
  << [type |-> "TRANSFER", tx |-> Tx("a", "b")], [type |-> "PAYMENT", tx |-> Tx("b", "c")],
     [type |-> "TRANSFER", tx |-> Tx("a", "b")], [type |-> "TRANSFER", tx |-> Tx("b", "c")],
     [type |-> "TRANSFER", tx |-> Tx("c", "a")] >>

Signatures == (1 .. MaxRuns) \X {File[n].tx : n \in DOMAIN File}
Types == [s \in Signatures |-> "TRANSFER"]

=============================================================================
