SPECIFICATION FairSpec

CONSTANTS
  w1 = w1
  w2 = w2
  g1 = g1
  d1 = d1
  d2 = d2
  NoDelivery = NoDelivery
  Workers <- TwoWorkers
  Digests <- NoDigests
  Deliveries <- OneDelivery
  Jobs <- Scripts
  Runs <- ScriptRuns
  JobOf <- ScriptOf
  MaxDeliveryAttempts = 2
  MaxRequeues = 1

INVARIANTS
  TypeOK
  SettledForAReason

PROPERTIES
  DeliveredIsFinal
  HiddenOnlyByFailure
  DeliveriesAreSettled

CHECK_DEADLOCK FALSE
