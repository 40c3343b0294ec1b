----------------------------- MODULE MCPipeline -----------------------------
(* Instances of Pipeline for TLC *)
EXTENDS Pipeline, TLC

CONSTANTS p1, p2, w1, w2, i1, i2

OneProcess == {p1}
TwoProcesses == {p1, p2}
OneWorker == {w1}
TwoWorkers == {w1, w2}
OneIntent == {i1}
SecondIntent == {i2}
TwoIntents == {i1, i2}
WorkerSymmetry == Permutations({w1, w2})

=============================================================================
