SPECIFICATION FairSpec
CONSTANTS
  RootFlow = flowRoot
  NoHash = none
  NoIntent = none
  NoVerdict = none
  NoPending = none
  NoVar = none
  NoOutput = none
  NoSession = none
  MetaHash = irHash
  s1 = s1
  s2 = s2
  s3 = s3
  Flow <- Escalating
  FlowHandlers <- NoHandlers
  Supervise = "all"
  Outcomes = {"succeeded", "actionFailedRetryable"}
  Judgments = {"pass", "unknown"}
  Answers = {"pass", "fail", "done", "cannotRepair", "proceed", "abort", "suspend", "redo"}
  LogMayVanish = FALSE
  Disruptions = 1
CHECK_DEADLOCK FALSE
INVARIANTS
  ReentriesAreLicensed
PROPERTIES
  EventuallyFinished
