SPECIFICATION Spec
CONSTANTS
  RootFlow = flowRoot
  NoHash = none
  NoIntent = none
  NoVerdict = none
  NoPending = none
  NoVar = none
  NoOutput = none
  NoSession = none
  MetaHash = irHash
  s1 = s1
  s2 = s2
  s3 = s3
  Flow <- Ladder
  FlowHandlers <- ReleaseErrors
  Supervise = "none"
  Outcomes = {"succeeded", "actionFailedFinal"}
  Judgments = {"pass", "fail", "unknown"}
  Answers = {"pass", "fail", "adopt", "redo"}
  LogMayVanish = FALSE
  Disruptions = 1
CHECK_DEADLOCK FALSE
INVARIANTS
  OnlyDeathOvertakes
  OnlyDeathLosesHalt
  TriggersWithinBudget
  ReentriesAreLicensed
  JudgementStands
PROPERTIES
  FinishMatchesRecords
