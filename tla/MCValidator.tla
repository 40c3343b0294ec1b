---------------------------- MODULE MCValidator -----------------------------
(* Instances of Validator for TLC *)
EXTENDS Validator

CONSTANTS i1, i2

TwoIntents == {i1, i2}

=============================================================================
