SPECIFICATION Spec

CONSTANTS
  r1 = r1
  r2 = r2
  s1 = s1
  h1 = h1
  h2 = h2
  MaxAttempts = 2
  Requests <- OneRequest
  Sweepers <- OneSweeper
  Hooks <- OneHook
  MayCrash <- CrashBetweenWrites
  WebhookEvents <- PaidEvent

INVARIANTS
  SuccessIsBacked
  OfferedIsNotInFlight

PROPERTIES
  LostOnlyByFailure
  PaidOnceWithoutOverlap

CHECK_DEADLOCK FALSE
