SPECIFICATION Spec

CONSTANTS
  r1 = r1
  r2 = r2
  s1 = s1
  h1 = h1
  h2 = h2
  MaxAttempts = 1
  Requests <- OneRequest
  Sweepers <- NoHandlers
  Hooks <- TwoHooks
  MayCrash <- CrashAnywhere
  WebhookEvents <- BothEvents

PROPERTIES
  PaidIsFinal

CHECK_DEADLOCK FALSE
