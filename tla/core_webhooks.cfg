SPECIFICATION Spec

CONSTANTS
  r1 = r1
  r2 = r2
  s1 = s1
  h1 = h1
  h2 = h2
  MaxAttempts = 2
  Requests <- TwoRequests
  Sweepers <- NoHandlers
  Hooks <- TwoHooks
  MayCrash <- CrashAnywhere
  WebhookEvents <- EarlyEvent

SYMMETRY HandlerSymmetry

INVARIANTS
  TypeOK
  WriteAhead
  CheckoutIsBacked
  NoGapInAttempts
  NoEventDiscarded
  EventHandledOnce

PROPERTIES
  PaidNeverReopens
  ImplementsLedger

CHECK_DEADLOCK FALSE
