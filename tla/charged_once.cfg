SPECIFICATION Spec

CONSTANTS
  r1 = r1
  r2 = r2
  s1 = s1
  h1 = h1
  h2 = h2
  MaxAttempts = 2
  Requests <- TwoRequests
  Sweepers <- NoHandlers
  Hooks <- NoHandlers
  MayCrash <- CrashAnywhere
  WebhookEvents <- NoEvents

SYMMETRY RequestSymmetry

INVARIANTS
  ChargedAtMostOnce

CHECK_DEADLOCK FALSE
