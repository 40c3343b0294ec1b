----------------------------- MODULE MCGateway ------------------------------
(* Instances of Gateway for TLC *)
EXTENDS Gateway, TLC

CONSTANTS h1, h2, s1, s2, c1

TwoHandlers == {h1, h2}
TwoSignatures == {s1, s2}
OneClient == {c1}
TwoTypes == {"SCHEDULED", "QUERY"}
Types == [s \in TwoSignatures |-> "SCHEDULED"]
HandlerAndSignatureSymmetry == Permutations(TwoHandlers) \cup Permutations(TwoSignatures)

=============================================================================
