SPECIFICATION Spec
CONSTANTS
  RootFlow = flowRoot
  NoHash = none
  NoIntent = none
  NoVerdict = none
  NoPending = none
  NoVar = none
  NoOutput = none
  NoSession = none
  MetaHash = irHash
  s1 = s1
  s2 = s2
  s3 = s3
  Flow <- TwoPlain
  FlowHandlers <- NoHandlers
  Supervise = "none"
  Outcomes = {"succeeded"}
  Judgments = {"pass", "fail"}
  Answers = {}
  LogMayVanish = FALSE
  Disruptions = 1
CHECK_DEADLOCK FALSE
INVARIANTS
  HaltHolds
