\* One process of each service, started in any order, over one fault.
SPECIFICATION LCSpec
CONSTANTS
  is = is  sc = sc  en = en  va = va  wa = wa  gw = gw  i1 = i1
  Proc <- OneOfEach
  Kind <- Kinds
  Deployments <- Parts
  Intent <- OneIntent
  MaxAttempts = 2
  Faults = {"postgres", "nats", "redis", "natsRestart", "local", "stop"}
  MaxFaults = 1
CHECK_DEADLOCK FALSE
INVARIANTS ServingMeansProvisioned
PROPERTIES EveryServiceComesUp 
