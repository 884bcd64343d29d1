SPECIFICATION FairSpec

CONSTANTS
  w1 = w1
  w2 = w2
  g1 = g1
  d1 = d1
  d2 = d2
  NoDelivery = NoDelivery
  Workers <- OneWorker
  Digests <- OneDigest
  Deliveries <- TwoDeliveries
  Jobs <- Scripts
  Runs <- ScriptRuns
  JobOf <- ScriptOf
  MaxDeliveryAttempts = 2
  MaxRequeues = 0

INVARIANTS
  DigestedWasComposed

PROPERTIES
  FailuresAreDigested

CHECK_DEADLOCK FALSE
