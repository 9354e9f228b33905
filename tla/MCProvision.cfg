SPECIFICATION Spec
CONSTANTS
  None = none
  NoStep = none
  NoFile = noFile
  NoPin = noPin
  MaxMacroDepth = 2
  MaxLinkDepth = 3
  MaxCallDepth = 3
  File <- Files
  DocOf <- Docs
  Normal <- NormalForms
  Sites <- LinksOf
  TextOf <- Written
  FlowOf <- DeclaredFlow
  Needs <- PhasesNeed
  Accepts <- PhasesAccept
  CheckAccepts <- Checked
  LoaderAccepts <- Loadable
  Sound <- SoundFiles
  Projects <- AllProjects
  Locks <- AllLocks
  Call = {k1, k2}
  Worlds <- AllWorlds
  MaxSessions = 2
  PageSize = 2
SYMMETRY CallSymmetry
CHECK_DEADLOCK FALSE
INVARIANTS
  SealedFlowsLoad
  ClosureIsSound
  SealedReadsResolve
  NoDriftOnceOpen
PROPERTIES
  AnswersAreTruthful
