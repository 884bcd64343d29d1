SPECIFICATION FairSpec

CONSTANTS
  w1 = w1
  run1 = run1
  c1 = c1
  c2 = c2
  c3 = c3
  Workers <- OneWorker
  Runs <- OneRun
  Callers <- ThreeCallers
  ProcessOf <- TwoInTheWorker

INVARIANTS
  TypeOK
  OneUnexpiredProbe

PROPERTIES
  ImplementsProbeLease
  SelfHeals
  OutageOpens

CHECK_DEADLOCK FALSE
