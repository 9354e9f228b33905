SPECIFICATION Spec
CONSTANTS
  RootFlow = flowRoot
  NoHash = none
  NoIntent = none
  NoVerdict = none
  NoPending = none
  NoVar = none
  NoOutput = none
  NoSession = none
  MetaHash = irHash
  s1 = s1
  s2 = s2
  s3 = s3
  Flow <- PayThenRead
  FlowHandlers <- NoHandlers
  Supervise = "mutating"
  Outcomes = {"succeeded", "actionCancelled"}
  Judgments = {"pass", "fail"}
  Answers = {"adopt", "redo", "proceed", "suspend", "abort"}
  LogMayVanish = TRUE
  Disruptions = 2
CHECK_DEADLOCK FALSE
INVARIANTS
  LedgerNeverRefuses
  TypeOK
  NoBlindReplay
  NoLostOutcome
  SupervisedDispatch
  AttemptsAscend
  ConcludedNeverRedispatches
  FinishedIsComplete
