SPECIFICATION Spec
CONSTANTS
  Sessions = {s1, s2}
  NoSession = NoSession
  Transfers = {2}
  MaxHead = 4
  Confirmations = 1
  PerTick = 1
  BackfillPerTick = 2
  MaxCatchup = 2
  GapCap = 1
  SeedBlock = 2
  MaxBatch = 1
  MaxPushes = 2
  MaxFaults = 1
INVARIANTS
  TypeOK
  CursorsAreBacked
  GapsHealUnlessCut
PROPERTIES
  LanesNeverRegress
  LiveReachesTheTip
  SkippedIsBackfilled
