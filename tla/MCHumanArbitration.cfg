SPECIFICATION Spec
CONSTANTS
  RootFlow = flowRoot
  NoHash = none
  NoIntent = none
  NoVerdict = none
  NoPending = none
  NoVar = none
  NoOutput = none
  NoSession = none
  HumanStep = human
  t1 = t1
  t2 = t2
  hashOld = hashOld
  hashNew = hashNew
  FirstHash = hashOld
  Hashes = {hashOld, hashNew}
  Terminal = {t1, t2}
  Answers = {"pass", "fail"}
  Timeout = 1
  MaxClock = 3
  Segments = 3
  Crashes = 1
SYMMETRY TerminalSymmetry
CHECK_DEADLOCK FALSE
INVARIANTS
  TypeOK
  OneFinalAnswer
  SettledMeansClosed
  JudgementHasAnAuthor
  AskedAndSettledOnce
