SPECIFICATION FairSpec

CONSTANTS
  r1 = r1
  r2 = r2
  s1 = s1
  h1 = h1
  h2 = h2
  MaxAttempts = 1
  Requests <- OneRequest
  Sweepers <- OneSweeper
  Hooks <- OneHook
  MayCrash <- CrashBeforeSettling
  WebhookEvents <- EarlyEvent

PROPERTIES
  StuckCallsAreResolved
  LostWebhookIsNoticed
  PaidIsReported

CHECK_DEADLOCK FALSE
