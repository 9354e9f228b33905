SPECIFICATION Spec
CONSTANTS
  RootFlow = flowRoot
  NoHash = none
  NoIntent = none
  NoVerdict = none
  NoPending = none
  NoVar = none
  NoOutput = none
  NoSession = none
  NoProbe = none
  NoStep = none
  NoInputs = noInputs
  NoFlow = none
  NoKey = none
  BadInputs = badInputs
  NotSent = notSent
  s1 = s1
  s2 = s2
  s3 = s3
  f = f
  g = g
  m = m
  w = w
  MaxCallDepth = 8
  Flows <- Callees
  Histories <- AllHistories
  Fates <- FatesOf
  Judgments = {"pass", "fail"}
  Forceable = {}
  Segments = 1
CHECK_DEADLOCK FALSE
PROPERTIES
  NoRecordedEffectRepeats
