---------------------------- MODULE MCLifecycle -----------------------------
(* Instances of Lifecycle for TLC *)
EXTENDS Lifecycle, TLC

CONSTANTS is, sc, en, va, wa, gw, i1

OneOfEach == {is, sc, en, va, wa, gw}
Kinds == is :> "intentService" @@ sc :> "scheduler" @@ en :> "executionEngine"
         @@ va :> "validator" @@ wa :> "wallet" @@ gw :> "gateway"
(* The services around the streams, and those that serve requests *)
Parts == {{is, sc, en, va, "postgres", "nats"}, {is, wa, gw, "postgres", "nats", "redis"}}
OneIntent == {i1}

=============================================================================
