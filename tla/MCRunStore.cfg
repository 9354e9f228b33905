SPECIFICATION Spec
CONSTANTS
  RootFlow = flowRoot
  NoHash = none
  NoIntent = none
  NoVerdict = none
  NoPending = none
  NoVar = none
  NoOutput = none
  NoSession = none
  NoCheckpoint = none
  NoCache = none
  MetaHash = hashOld
  MetaSession = session1
  h1 = h1
  h2 = h2
  flowRoot = flowRoot
  flowCallee = flowCallee
  hashOld = hashOld
  hashNew = hashNew
  none = none
  unfoldable = unfoldable
  session1 = session1
  session2 = session2
  stepA = stepA
  stepC = stepC
  call1 = call1
  call2 = call2
  shot = shot
  Handle = {h1, h2}
  Event <- Events
  MaxLog = 5
SYMMETRY HandleSymmetry
INVARIANTS
  CheckpointIsRefold
  CacheCoherent
PROPERTIES
  VerdictTouchesOneInstance
  AttemptsNameTheirIntents
  ImplementsLedger
