--------------------------- MODULE CheckpointFold ---------------------------
(***************************************************************************)
(* The pure fold of a run's ledger into its checkpoint view                *)
(* (crates/pointlock-store/src/fold.rs, `FoldState`).                      *)
(*                                                                         *)
(* A ledger entry is a record [type, path, ...] whose remaining fields     *)
(* depend on the type.  A run path is a sequence of frames [k, id, h]:     *)
(* k is the kind of the frame ("flow", "step", "call", "iter" or "hook"),  *)
(* id the site it names (for an iteration, its index and key), h the       *)
(* flow or callee hash (NoHash where the frame carries none).              *)
(*                                                                         *)
(* Abstracted: outputs, observations, assertion outcomes and evidence are  *)
(* payloads the fold only carries along; an evidence entry is its          *)
(* deduplication key.  Run identity and timestamps are constant per run.   *)
(***************************************************************************)
EXTENDS Integers, Sequences, SequencesExt

CONSTANTS
  RootFlow,     \* flow id of RunMeta
  NoHash,       \* "this frame or record carries no hash"
  NoIntent,     \* frontier.pendingIntent = None
  NoVerdict,    \* step.verdict = None
  NoPending,    \* view.humanPending = None
  NoVar,        \* the stepEntered snapshot names no `as` variable
  NoOutput,     \* no output projected
  NoSession     \* a resume that carries no event cursor

(* The fold refused an entry: no state has this shape.                     *)
Unfoldable == [refused |-> TRUE]

(* The closed set of ledger entries.                                       *)
EventTypes ==
  { "runStarted", "stepEntered", "preflightProbed", "actionIntent", "actionSettled",
    "observationRecorded", "assertionEvaluated", "verdictRecorded", "stepExited",
    "callFramePushed", "callFramePopped", "handlerTriggered", "humanRequested",
    "humanResponded", "runSuspended", "runResumed", "runFinished" }

FlowFrame(flow, hash) == [k |-> "flow", id |-> flow, h |-> hash]
RootPath(hash) == << FlowFrame(RootFlow, hash) >>

(* Site identity is blind to the hashes of flow and call frames.           *)
SameSite(a, b) == a.k = b.k /\ a.id = b.id

SitePrefix(p, q) ==
  /\ Len(p) <= Len(q)
  /\ \A i \in 1 .. Len(p) : SameSite(p[i], q[i])

SameInstance(p, q) == Len(p) = Len(q) /\ SitePrefix(p, q)

DirectBodyChild(prefix, path) ==
  /\ Len(path) = Len(prefix) + 1
  /\ SitePrefix(prefix, path)
  /\ Last(path).k \in {"step", "call"}

Frontier(path, state, intent) ==
  [path |-> path, state |-> state, intent |-> intent]

(* An attempt keeps the terminal kind and the chain position its intent    *)
(* announced; the carrier `dispatch` maps call ids to those positions.     *)
AttemptRecord(call, outcome, chain) ==
  [call |-> call, outcome |-> outcome, chain |-> chain]

(* merge_evidence: deduplicated, first occurrence wins.                    *)
MergeEvidence(evidence, localized) ==
  LET Add(acc, e) == IF Contains(acc, e) THEN acc ELSE Append(acc, e)
  IN  FoldLeft(Add, evidence, localized)

-----------------------------------------------------------------------------
(* FoldState::seed; the lineage starts at the session the run was begun on.*)
Seed(hash, session) ==
  [ started    |-> FALSE,
    status     |-> "running",
    irHash     |-> hash,
    frames     |-> << >>,
    framePaths |-> << >>,
    frontier   |-> Frontier(RootPath(hash), "pending", NoIntent),
    inFlight   |-> << >>,
    dispatch   |-> { },
    completed  |-> << >>,
    pending    |-> NoPending,
    lineage    |-> << session >> ]

(* A supervision answer of `suspend` leaves its request open.              *)
RetainsRequest(ev) ==
  ev.type = "humanResponded" /\ ev.purpose = "supervision"
                             /\ ev.decision = "suspend"

CallDepth(path) == Len(SelectSeq(path, LAMBDA f : f.k = "call"))

InFlightAt(st, path) ==
  { i \in DOMAIN st.inFlight : SameInstance(st.inFlight[i].path, path) }
CompletedAt(st, path) ==
  { i \in DOMAIN st.completed : SameInstance(st.completed[i].path, path) }

Latest(S) == CHOOSE i \in S : \A j \in S : j <= i

(* The structural violations `apply` reports; "none" when it succeeds.     *)
ApplyError(st, ev) ==
  CASE ~st.started /\ ev.type # "runStarted"            -> "eventBeforeRunStarted"
    [] st.started /\ ev.type = "runStarted"             -> "duplicateRunStarted"
    [] /\ st.started /\ st.inFlight = << >>
       /\ ev.type \in {"actionSettled", "observationRecorded",
                       "assertionEvaluated"}            -> "eventOutsideStep"
    [] /\ st.started /\ ev.type = "stepExited"
       /\ st.inFlight = << >>                           -> "stepExitedWithoutEntry"
    [] /\ st.started /\ ev.type = "verdictRecorded"
       /\ InFlightAt(st, ev.path) = { }
       /\ CompletedAt(st, ev.path) = { }                -> "verdictWithoutTarget"
    [] /\ st.started /\ ev.type = "callFramePushed" /\ ev.rebase
       /\ CallDepth(ev.path) + 1 > Len(st.frames)       -> "rebaseWithoutFrame"
    [] /\ st.started /\ ev.type = "callFramePopped"
       /\ Len(st.frames) <= 1                           -> "poppedRootFrame"
    [] /\ st.started /\ ev.type = "humanResponded"
       /\ \/ st.pending = NoPending
          \/ st.pending # NoPending /\ st.pending.req # ev.req
                                                        -> "unpairedHumanResponse"
    [] OTHER                                            -> "none"

-----------------------------------------------------------------------------
(* One operator per arm of `apply`; each assumes ApplyError is "none".     *)

RunStartedArm(st, ev) ==
  [st EXCEPT
     !.started    = TRUE,
     !.irHash     = ev.hash,
     !.frames     = Append(@, [flow |-> RootFlow, hash |-> ev.hash, next |-> 0]),
     !.framePaths = Append(@, RootPath(ev.hash)),
     !.frontier   = Frontier(RootPath(ev.hash), "pending", NoIntent),
     !.status     = "running"]

StepEnteredArm(st, ev) ==
  [st EXCEPT
     !.inFlight = Append(@, [ path     |-> ev.path,     attempts |-> << >>,
                              asVar    |-> ev.asVar,    resolved |-> ev.resolved,
                              output   |-> NoOutput,
                              evidence |-> << >>,       verdict  |-> NoVerdict ]),
     !.frontier = Frontier(ev.path, "ready", NoIntent)]

(* An empty outcome list is the `unprobed` note and moves nothing.         *)
PreflightProbedArm(st, ev) ==
  IF ev.outcomes = { } THEN st
  ELSE [st EXCEPT !.frontier.state =
                    IF ev.outcomes = {"pass"} THEN "probing" ELSE "drifted"]

ActionIntentArm(st, ev) ==
  [st EXCEPT
     !.dispatch = { d \in @ : d.call # ev.call }
                    \union { [call |-> ev.call, chain |-> ev.chain] },
     !.frontier = Frontier(@.path, "acting", ev.call)]

(* Mutant of ActionSettledArm: the newest intent is taken for the settled. *)
ActionSettledNewest(st, ev) ==
  [st EXCEPT
     !.inFlight[Len(st.inFlight)].attempts =
         Append(@, AttemptRecord(ev.call, ev.outcome,
                                 IF st.dispatch = { } THEN 0
                                 ELSE (CHOOSE d \in st.dispatch : TRUE).chain)),
     !.frontier = Frontier(@.path, "settling", NoIntent)]

ActionSettledArm(st, ev) ==
  LET mine  == { d \in st.dispatch : d.call = ev.call }
      chain == IF mine = { } THEN 0 ELSE (CHOOSE d \in mine : TRUE).chain
  IN  [st EXCEPT
         !.inFlight[Len(st.inFlight)].attempts =
             Append(@, AttemptRecord(ev.call, ev.outcome, chain)),
         !.dispatch = @ \ mine,
         !.frontier = Frontier(@.path, "settling",
                               IF @.intent = ev.call THEN NoIntent ELSE @.intent)]

ObservationRecordedArm(st, ev) ==
  [st EXCEPT !.inFlight[Len(st.inFlight)].evidence = @ \o ev.evidence,
             !.frontier.state = "observing"]

AssertionEvaluatedArm(st, ev) == [st EXCEPT !.frontier.state = "asserting"]

(* Mutant of VerdictRecordedArm: the target is the innermost open span.    *)
VerdictRecordedInnermost(st, ev) ==
  IF st.inFlight # << >>
  THEN [st EXCEPT !.inFlight[Len(st.inFlight)].verdict = ev.verdict]
  ELSE LET i == Latest(CompletedAt(st, ev.path))
       IN  [st EXCEPT !.completed[i].verdict = ev.verdict]

(* The target is chosen by the path of the event: the innermost open span  *)
(* at that instance, else the latest completed record there.               *)
VerdictRecordedArm(st, ev) ==
  IF InFlightAt(st, ev.path) # { }
  THEN LET i == Latest(InFlightAt(st, ev.path))
       IN  [st EXCEPT !.inFlight[i].verdict  = ev.verdict,
                      !.inFlight[i].evidence = MergeEvidence(@, ev.evidence),
                      !.frontier.state       = "judged"]
  ELSE LET i == Latest(CompletedAt(st, ev.path))
       IN  [st EXCEPT !.completed[i].verdict  = ev.verdict,
                      !.completed[i].evidence = MergeEvidence(@, ev.evidence)]

(* Mutant of SettlesRequest: an exit leaves the wait open.                 *)
SettlesNothing(pending, path) == FALSE

(* An exit settles the request asked at its path, hashes included.         *)
SettlesRequest(pending, path) == pending # NoPending /\ pending.path = path

(* The record takes the path its span was opened at.                       *)
StepExitedArm(st, ev) ==
  LET step == Last(st.inFlight)
      top  == Len(st.frames)
  IN  [st EXCEPT
         !.inFlight  = Front(@),
         !.pending   = IF SettlesRequest(@, ev.path) THEN NoPending ELSE @,
         !.completed = Append(@,
            [step EXCEPT !.evidence = MergeEvidence(@, ev.evidence),
                         !.output   = IF ev.output # NoOutput THEN ev.output ELSE @]),
         !.frames[top].next =
            IF DirectBodyChild(st.framePaths[top], ev.path) THEN @ + 1 ELSE @,
         !.frontier  = Frontier(ev.path, ev.state, NoIntent)]

CallFramePushedArm(st, ev) ==
  IF ev.rebase
  THEN [st EXCEPT !.frames[CallDepth(ev.path) + 1].hash = ev.hash]
  ELSE [st EXCEPT !.frames = Append(@, [flow |-> ev.flow, hash |-> ev.hash,
                                        next |-> 0]),
                  !.framePaths = Append(@, ev.path)]

CallFramePoppedArm(st, ev) ==
  [st EXCEPT
     !.frames     = Front(@),
     !.framePaths = Front(@),
     !.inFlight   = IF @ = << >> THEN @
                    ELSE [@ EXCEPT ![Len(@)].output = ev.output]]

HumanRequestedArm(st, ev) ==
  [st EXCEPT !.pending = [ path |-> ev.path, req |-> ev.req,
                           purpose |-> ev.purpose, deadline |-> ev.deadline ],
             !.frontier.state = "awaitingHuman",
             !.status = "awaitingHuman"]

(* Mutant of HumanRespondedArm: an answered request stays pending.         *)
HumanRespondedStays(st, ev) == [st EXCEPT !.status = "running"]

HumanRespondedArm(st, ev) ==
  IF RetainsRequest(ev)
  THEN [st EXCEPT !.status = "awaitingHuman"]
  ELSE [st EXCEPT !.pending = NoPending, !.status = "running"]

RunSuspendedArm(st, ev) ==
  [st EXCEPT !.status = IF st.pending # NoPending THEN "awaitingHuman"
                                                  ELSE "suspended"]

(* The cursor a resume records extends the session lineage.                *)
RunResumedArm(st, ev) ==
  [st EXCEPT !.status = "running",
             !.lineage = IF ev.session = NoSession \/ IsSuffix(<< ev.session >>, @)
                         THEN @ ELSE Append(@, ev.session)]

RunFinishedArm(st, ev) == [st EXCEPT !.status = "finished"]

Apply(st, ev) ==
  CASE ev.type = "runStarted"          -> RunStartedArm(st, ev)
    [] ev.type = "stepEntered"         -> StepEnteredArm(st, ev)
    [] ev.type = "preflightProbed"     -> PreflightProbedArm(st, ev)
    [] ev.type = "actionIntent"        -> ActionIntentArm(st, ev)
    [] ev.type = "actionSettled"       -> ActionSettledArm(st, ev)
    [] ev.type = "observationRecorded" -> ObservationRecordedArm(st, ev)
    [] ev.type = "assertionEvaluated"  -> AssertionEvaluatedArm(st, ev)
    [] ev.type = "verdictRecorded"     -> VerdictRecordedArm(st, ev)
    [] ev.type = "stepExited"          -> StepExitedArm(st, ev)
    [] ev.type = "callFramePushed"     -> CallFramePushedArm(st, ev)
    [] ev.type = "callFramePopped"     -> CallFramePoppedArm(st, ev)
    [] ev.type = "handlerTriggered"    -> st
    [] ev.type = "humanRequested"      -> HumanRequestedArm(st, ev)
    [] ev.type = "humanResponded"      -> HumanRespondedArm(st, ev)
    [] ev.type = "runSuspended"        -> RunSuspendedArm(st, ev)
    [] ev.type = "runResumed"          -> RunResumedArm(st, ev)
    [] ev.type = "runFinished"         -> RunFinishedArm(st, ev)

(* One entry folded, or refused.                                           *)
FoldStep(st, ev) ==
  IF st = Unfoldable THEN Unfoldable
  ELSE IF ApplyError(st, ev) = "none" THEN Apply(st, ev)
  ELSE Unfoldable

-----------------------------------------------------------------------------
(* `finish`: a foreach round is live when an open span extends the         *)
(* container below it by an iteration frame; it belongs to the innermost   *)
(* call frame whose prefix covers the container.                           *)
LiveRounds(st) ==
  { i \in 1 .. Len(st.inFlight) - 1 :
      LET parent == st.inFlight[i].path
          child  == st.inFlight[i + 1].path
      IN  /\ Len(child) > Len(parent)
          /\ SitePrefix(parent, child)
          /\ child[Len(parent) + 1].k = "iter"
          /\ st.inFlight[i].asVar # NoVar }

RoundOwner(st, i) ==
  Latest({ j \in DOMAIN st.framePaths :
             SitePrefix(st.framePaths[j], st.inFlight[i].path) })

(* The iteration stack of call frame j, outermost round first.             *)
IterStack(st, j) ==
  LET mine == { i \in LiveRounds(st) :
                  /\ \E f \in DOMAIN st.framePaths :
                       SitePrefix(st.framePaths[f], st.inFlight[i].path)
                  /\ RoundOwner(st, i) = j }
      inner(i) == st.inFlight[i + 1].path[Len(st.inFlight[i].path) + 1].id
      step(acc, i) == IF i \in mine
                      THEN Append(acc, [var |-> st.inFlight[i].asVar, at |-> inner(i)])
                      ELSE acc
  IN  FoldLeftDomain(step, << >>, st.inFlight)

(* What is materialized: the state without its in-memory carriers.         *)
FinishView(st) ==
  [ irHash    |-> st.irHash,
    frames    |-> st.frames,
    iters     |-> [j \in DOMAIN st.frames |-> IterStack(st, j)],
    frontier  |-> st.frontier,
    completed |-> st.completed,
    pending   |-> st.pending,
    lineage   |-> st.lineage ]
=============================================================================
