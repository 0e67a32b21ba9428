SPECIFICATION Spec
CONSTANTS
  Paths = {"in", "out"}
  Metrics <- MCMetrics
  DefaultBudgets <- MCDefaultBudgets
  Classification = "internal"
  Escape = 1
  Envelope = 1
  ControlReserve = 2
  EmergencyReserve = 1
  EntryBytes = 1
  ListBytes = 2
  MaxList = 2
  StatusBytes = 1
  SampleBytes = 1
  MaxOutput = 3
  Organization <- MCOrganization
  Repository <- MCRepository
  Grant <- MCGrant
  Mode = "edit"
  Calls <- MCCalls
  Requests <- MCRequests
  NoticeBytes = 1
  MaxTurns = 3
  MaxCrashes = 2
INVARIANTS
  RanWithConsent
  UseWithinConsent
  PausesBounded
PROPERTIES
  EachRunEnds
(* a session that has ended stops *)
CHECK_DEADLOCK FALSE
