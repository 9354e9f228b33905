----------------------------- MODULE RunEngine -----------------------------
(***************************************************************************)
(* The execution engine over one flow of action steps                      *)
(* (crates/pointlock-runner/src/engine.rs and the same-IR resume of        *)
(* runner.rs): write-ahead intents, settlement, verdicts, the handler      *)
(* ladder, the supervision gate, suspension, crash at any append, and the  *)
(* reconciliation of a pending intent on resume.                           *)
(*                                                                         *)
(* `log` is the run's ledger and `ck` its fold, appended atomically (the   *)
(* store keeps them together).  `proc` is the volatile state of the runner *)
(* process; a resumed segment decides from the facts harvested from the    *)
(* ledger as it stood when the segment began (log[1..proc.base]).  `dev`   *)
(* is the device side of every call, `late` the requests whose deadline    *)
(* passed.  `budget` bounds disruptions: crashes, transport errors, stops, *)
(* `suspend` answers and resumes that have nothing new to act on.          *)
(*                                                                         *)
(* Left out: observations and assertion entries (payload that no resume    *)
(* fact is read from), preflight probes, repair flows, containers and      *)
(* calls, backoff, evidence, degraded verdicts, session bookkeeping.       *)
(***************************************************************************)
EXTENDS CheckpointFold, FiniteSetsExt

CONSTANTS
  Flow,          \* the body: a sequence of step records
  FlowHandlers,  \* flow-level handler bindings, consulted after a step's own
  MetaHash,      \* irHash of the run
  Supervise,     \* "none", "mutating" or "all"
  Outcomes,      \* terminals the device may reach
  Judgments,     \* statuses a step's assertions may fold to
  Answers,       \* decisions a human may take
  LogMayVanish,  \* BOOLEAN: reconcile may answer logUnavailable
  Disruptions    \* bound: initial value of budget

(* A handler binding: its hook and error filter, its disposition, its      *)
(* maxTriggers, max_attempts of a retry, the mode of an escalation.        *)
HandlerBindings ==
  [ hook : {"onError", "onFail", "onUnknown"}, classes : SUBSET STRING,
    action : {"retry", "continue", "abort", "escalate"},
    triggers : Nat, tries : Nat, mode : {"judge", "repairWorld"} ]

(* A step: id, mutating, idempotent, asserts, badArgs, chain (bound        *)
(* attempts), retryMax and retryOn (in-attempt retry policy), handlers.    *)
(* Sealed flows repeat no step id (the compiler's RF3001).                 *)
ASSUME FlowShape ==
  /\ FlowHandlers \in Seq(HandlerBindings)
  /\ \A i \in DOMAIN Flow : Flow[i].handlers \in Seq(HandlerBindings)
  /\ Len(Flow) \in Nat \ {0} /\ DOMAIN Flow = 1 .. Len(Flow)
  /\ \A i \in DOMAIN Flow : Flow[i].chain \in Nat \ {0} /\ Flow[i].retryMax \in Nat
  /\ \A i, j \in DOMAIN Flow : Flow[i].id = Flow[j].id => i = j
  /\ Disruptions \in Nat

(* A retry has at least one attempt (the compiler's NORM_BAD_RETRY_SHAPE). *)
ASSUME RetryCounts ==
  \A i \in DOMAIN Flow : \A b \in Range(Flow[i].handlers \o FlowHandlers) :
    b.action = "retry" => b.tries > 0

(* Statuses of verdicts and decisions of humans; the marks for "none" are  *)
(* not among them.                                                         *)
Statuses == {"pass", "fail", "unknown"}
Decisions == Statuses \union {"proceed", "abort", "suspend", "adopt", "redo",
                              "done", "cannotRepair"}
ASSUME Marks ==
  /\ Judgments \subseteq Statuses
  /\ NoVerdict \notin Statuses /\ NoPending \notin Decisions
  /\ NoIntent \notin Nat

VARIABLES log, ck, dev, late, proc, budget
vars == << log, ck, dev, late, proc, budget >>

StepPath(i) ==
  Append(RootPath(MetaHash), [k |-> "step", id |-> Flow[i].id, h |-> NoHash])

(* hook_child_path: the leaf below a handler frame of the host step.       *)
HookPath(i, hook, trigger, leaf) ==
  StepPath(i) \o << [k |-> "hook", id |-> << hook, trigger >>, h |-> NoHash],
                    [k |-> "step", id |-> leaf, h |-> NoHash] >>

Entries(history, type, path) ==
  { n \in DOMAIN history : history[n].type = type
                           /\ SameInstance(history[n].path, path) }

StepAt(path) == CHOOSE i \in DOMAIN Flow : SameInstance(StepPath(i), path)

(* gated_mutating and replay_permitted.                                    *)
Gated(i) == Flow[i].mutating /\ ~Flow[i].idempotent
ReplayPermitted(i) == ~Flow[i].mutating \/ Flow[i].idempotent

-----------------------------------------------------------------------------
(* Facts harvested from the ledger prefix of a segment.                    *)

Prefix == SubSeq(log, 1, proc.base)

RulingOn(history, i) ==
  LET V == Entries(history, "verdictRecorded", StepPath(i))
  IN  IF V = { } THEN NoVerdict ELSE history[Latest(V)].verdict

SettledOn(history, i) == Entries(history, "actionSettled", StepPath(i)) # { }

(* The request governing an instance is the last one asked there; a        *)
(* supervision `suspend` is not a final answer.                            *)
RequestsAt(history, path) == Entries(history, "humanRequested", path)
Governing(history, path) == history[Latest(RequestsAt(history, path))]

AnswerTo(history, req) ==
  LET A == { n \in DOMAIN history : /\ history[n].type = "humanResponded"
                                    /\ history[n].req = req
                                    /\ ~RetainsRequest(history[n]) }
  IN  IF A = { } THEN NoPending ELSE history[Max(A)].decision

(* Mutant of Triggers: the count of earlier segments is not harvested.     *)
TriggersOfSegment(i, hook) ==
  Cardinality({ n \in Entries(log, "handlerTriggered", StepPath(i)) :
                  log[n].hook = hook /\ n > proc.base })
Triggers(i, hook) ==
  Cardinality({ n \in Entries(log, "handlerTriggered", StepPath(i)) :
                  log[n].hook = hook })

(* Mutant of AttemptBase: numbering restarts with the segment.             *)
AttemptBaseZero(i) == 0

(* Attempt numbers continue across segments: the base is harvested, the    *)
(* segment adds its own.                                                   *)
AttemptBase(i) ==
  LET N == Entries(Prefix, "actionIntent", StepPath(i))
  IN  IF N = { } THEN 0 ELSE Max({ log[n].attempt : n \in N })
NextAttempt(i) ==
  AttemptBase(i) + 1
    + Cardinality({ n \in Entries(log, "actionIntent", StepPath(i)) : n > proc.base })

Calls == DOMAIN dev
NextCall == Len(dev) + 1
NextRequest ==
  1 + Cardinality({ n \in DOMAIN log : log[n].type = "humanRequested" })

(* Mutant of IsHistory: attempts do not count, so what ran unverified in   *)
(* the span of an interrupted blocked pair is not history.                 *)
IsHistoryIfResolved(r) == r.verdict # NoVerdict \/ r.resolved
(* A record is history unless it is a blocked or skipped accounting pair.  *)
IsHistory(r) == r.attempts # << >> \/ r.verdict # NoVerdict \/ r.resolved
Recorded(i) == CompletedAt(ck, StepPath(i)) # { }
RecordOf(i) == ck.completed[Latest(CompletedAt(ck, StepPath(i)))]
Adoptable(i) == Recorded(i) /\ IsHistory(RecordOf(i))
(* Mutant of OpenSpan: exits are not harvested.                            *)
EverOpened(i) == Entries(log, "stepEntered", StepPath(i)) # { }
OpenSpan(i) == InFlightAt(ck, StepPath(i)) # { }

-----------------------------------------------------------------------------
Down ==
  [ at |-> "down", i |-> 1, base |-> 0, work |-> "none", site |-> 0, call |-> 0,
    pos |-> 1, tries |-> 0, status |-> NoVerdict, class |-> "none", inForce |-> 0,
    seeded |-> FALSE, plain |-> FALSE, fold |-> << >>, consumed |-> { },
    exitAs |-> "judged", ctl |-> "continue" ]

Walking(base, work) == [Down EXCEPT !.at = "walk", !.base = base, !.work = work]

Init ==
  /\ log = << >> /\ ck = Seed(MetaHash, NoSession)
  /\ dev = << >> /\ late = { }
  /\ proc = Down
  /\ budget = Disruptions

Write(ev) == log' = Append(log, ev) /\ ck' = FoldStep(ck, ev)
Here == StepPath(proc.i)
This == Flow[proc.i]

(* A request names what the human may decide; an adjudication names the    *)
(* call it is about.                                                       *)
Request(path, purpose, call, deadline, decisions) ==
  [type |-> "humanRequested", path |-> path, req |-> NextRequest,
   purpose |-> purpose, call |-> call, deadline |-> deadline,
   decisions |-> decisions]

(* Where a process goes on to: the next act, an exit, the chain head.      *)
Goto(p, at) == [p EXCEPT !.at = at]
Leave(p, state, ctl) == [p EXCEPT !.at = "exit", !.exitAs = state, !.ctl = ctl]
ChainHead(p) == [p EXCEPT !.at = "act", !.pos = 1, !.tries = 0]
Negative(p, status, class) ==
  [p EXCEPT !.at = "record", !.status = status, !.class = class]

(* Mutant of Seeded: a superseded verdict stays in the fold.               *)
SeededAgain(p, v) == [p EXCEPT !.fold = Append(@, v), !.seeded = TRUE]
(* seed_verdict, then reseed_last for every later round of the step.       *)
Seeded(p, v) ==
  [p EXCEPT !.fold = Append(IF p.seeded THEN Front(@) ELSE @, v), !.seeded = TRUE]

(* How a judged round goes on: a pass leaves, a negative is consulted.     *)
Ruled(p, v) ==
  LET q == [Seeded(p, v) EXCEPT !.status = v]
  IN  IF v = "pass" THEN Leave(q, "judged", "continue")
      ELSE IF p.plain THEN Leave(q, "judged", "halt")
      ELSE Goto(q, "consult")

RetryAllowed(step, class, tries) ==
  /\ tries < step.retryMax
  /\ class \in step.retryOn
  /\ \/ class \in {"actionFailedRetryable", "targetStale"}
     \/ class = "actionTimedOut" /\ step.idempotent

(* Mutant of Disposed: a success of a later round is taken unjudged.       *)
DisposedUnjudged(p, step, outcome) ==
  IF outcome = "succeeded"
    THEN IF step.asserts /\ p.status = NoVerdict THEN Goto(p, "judge")
         ELSE Leave(p, "judged", "continue")
  ELSE Negative(p, "fail", outcome)

(* The tail of the act chain: what a settled outcome leads to.             *)
Disposed(p, step, outcome) ==
  IF outcome = "succeeded"
    THEN IF step.asserts THEN Goto(p, "judge") ELSE Leave(p, "judged", "continue")
  ELSE IF outcome = "actionCancelled" THEN Leave(p, "aborted", "abort")
  ELSE IF RetryAllowed(step, outcome, p.tries) THEN Goto(p, "act")
  ELSE IF outcome = "actionFailedFinal" /\ p.pos < step.chain
    THEN [p EXCEPT !.at = "act", !.pos = @ + 1, !.tries = 0]
  ELSE IF outcome = "actionTimedOut"
    THEN IF step.asserts THEN Goto(p, "confirm") ELSE Negative(p, "unknown", "none")
  ELSE Negative(p, IF outcome = "sessionDegraded" THEN "unknown" ELSE "fail", outcome)

-----------------------------------------------------------------------------
(* The walk.                                                               *)

StartRun ==
  /\ proc.at = "down" /\ log = << >>
  /\ Write([type |-> "runStarted", path |-> RootPath(MetaHash), hash |-> MetaHash])
  /\ proc' = Walking(0, "none")
  /\ UNCHANGED << dev, late, budget >>

(* exec_body honours the stop token before every step.                     *)
StopRequested ==
  /\ proc.at = "walk" /\ proc.i <= Len(Flow)
  /\ budget > 0 /\ budget' = budget - 1
  /\ proc' = Goto(proc, "suspend")
  /\ UNCHANGED << log, ck, dev, late >>

(* Mutant of Adopted: unverified records are seeded too.                   *)
AdoptedAlways(fold, v) == Append(fold, v)

(* An adopted record seeds its verdict, when it has one.                   *)
Adopted(fold, v) == IF v = NoVerdict THEN fold ELSE Append(fold, v)

(* A concluded instance enters as its record and never re-executes.        *)
AdoptStep ==
  /\ proc.at = "walk" /\ proc.i <= Len(Flow)
  /\ Adoptable(proc.i)
  /\ LET v == RecordOf(proc.i).verdict
     IN  proc' = [proc EXCEPT !.i = @ + 1,
                              !.fold = Adopted(@, v)]
  /\ UNCHANGED << log, ck, dev, late, budget >>

(* Frontier work is keyed to the step the frontier names: that step takes  *)
(* it, no other does.                                                      *)
WorkHere == IF proc.site = proc.i THEN proc.work ELSE "none"

(* Mutant of ResumesAtRuling: a wait inside a handler is not re-entered.   *)
NeverAtRuling == FALSE

(* A span an earlier segment opened, already settled and ruled, is         *)
(* re-entered at its ruling; frontier work takes precedence.               *)
ResumesAtRuling ==
  /\ WorkHere = "none" /\ OpenSpan(proc.i)
  /\ SettledOn(Prefix, proc.i)
  /\ RulingOn(Prefix, proc.i) # NoVerdict

AfterEntry(p) ==
  CASE WorkHere = "adopt"      -> Goto(p, "adoptSettle")
    [] WorkHere = "replay"     -> Goto(p, "act")
    [] WorkHere = "confirm"    -> Goto(p, "confirm")
    [] WorkHere = "abortRuled" -> Leave(p, "aborted", "abort")
    [] OTHER -> IF ResumesAtRuling
                THEN Ruled([p EXCEPT !.class = "none"], RulingOn(Prefix, p.i))
                ELSE Goto(p, "gate")

(* Arguments are resolved before the span opens; when they cannot be, the  *)
(* step fails without a consultation.                                      *)
EnterStep ==
  /\ proc.at = "walk" /\ proc.i <= Len(Flow)
  /\ ~Adoptable(proc.i)
  /\ LET unresolved == This.badArgs /\ WorkHere = "none"
         taken == [proc EXCEPT !.work = IF proc.site = proc.i THEN "none" ELSE @]
     IN  /\ proc' = IF unresolved
                    THEN [Negative(taken, "fail", "none") EXCEPT !.plain = TRUE]
                    ELSE AfterEntry(taken)
         /\ IF OpenSpan(proc.i) THEN UNCHANGED << log, ck >>
            ELSE Write([type |-> "stepEntered", path |-> Here, asVar |-> NoVar,
                        resolved |-> ~unresolved])
  /\ UNCHANGED << dev, late, budget >>

(* Mutant of GateRuled: anything but an abort clears the gate.             *)
GateUnlessAborted(p, answer) ==
  IF answer = "abort" THEN Leave(p, "aborted", "abort") ELSE ChainHead(p)

(* Unanswered, or answered by the non-final `suspend`, the gate re-awaits. *)
GateRuled(p, answer) ==
  CASE answer = "proceed" -> ChainHead(p)
    [] answer = "abort"   -> Leave(p, "aborted", "abort")
    [] OTHER              -> Goto(p, "suspend")

(* gate_supervision: a gate request of an earlier segment governs whatever *)
(* this segment's policy; a fresh one is asked before the intent.          *)
GateSupervision ==
  LET asked == RequestsAt(Prefix, Here)
  IN  /\ proc.at = "gate"
      /\ \/ /\ asked # { }
            /\ proc' = GateRuled(proc, AnswerTo(Prefix, Governing(Prefix, Here).req))
            /\ UNCHANGED << log, ck >>
         \/ /\ asked = { }
            /\ Supervise = "all" \/ (Supervise = "mutating" /\ This.mutating)
            /\ Write(Request(Here, "supervision", 0, FALSE,
                             {"proceed", "abort", "suspend"}))
            /\ proc' = Goto(proc, "suspend")
         \/ /\ asked = { }
            /\ Supervise = "none" \/ (Supervise = "mutating" /\ ~This.mutating)
            /\ proc' = ChainHead(proc)
            /\ UNCHANGED << log, ck >>
      /\ UNCHANGED << dev, late, budget >>

-----------------------------------------------------------------------------
(* The act phase.                                                          *)

(* The intent is durable before the call may leave.                        *)
WriteIntent ==
  /\ proc.at = "act"
  /\ Write([type |-> "actionIntent", path |-> Here, call |-> NextCall,
            chain |-> proc.pos, attempt |-> NextAttempt(proc.i)])
  /\ dev' = Append(dev, [step |-> proc.i, fate |-> "unsent", outcome |-> "none"])
  /\ proc' = [proc EXCEPT !.at = "dispatch", !.call = NextCall, !.tries = @ + 1]
  /\ UNCHANGED << late, budget >>

Dispatch ==
  /\ proc.at = "dispatch"
  /\ dev' = [dev EXCEPT ![proc.call].fate = "started"]
  /\ proc' = Goto(proc, "wait")
  /\ UNCHANGED << log, ck, late, budget >>

(* The device reaches a terminal, whoever still waits for it.              *)
DeviceFinishes(c, outcome) ==
  /\ dev[c].fate = "started"
  /\ dev' = [dev EXCEPT ![c].fate = "done", ![c].outcome = outcome]
  /\ UNCHANGED << log, ck, late, proc, budget >>

Settle ==
  /\ proc.at = "wait" /\ dev[proc.call].fate = "done"
  /\ Write([type |-> "actionSettled", path |-> Here, call |-> proc.call,
            outcome |-> dev[proc.call].outcome])
  /\ proc' = Disposed(proc, This, dev[proc.call].outcome)
  /\ UNCHANGED << dev, late, budget >>

(* execute returned an error: no terminal, the intent stays pending.       *)
NoTerminal ==
  /\ proc.at \in {"dispatch", "wait"}
  /\ budget > 0 /\ budget' = budget - 1
  /\ proc' = Goto(proc, "suspend")
  /\ UNCHANGED << log, ck, dev, late >>

(* A reconciled terminal is settled and disposed of like a live one.       *)
AdoptTerminal ==
  /\ proc.at = "adoptSettle"
  /\ Write([type |-> "actionSettled", path |-> Here, call |-> proc.call,
            outcome |-> dev[proc.call].outcome])
  /\ proc' = Disposed([proc EXCEPT !.tries = 1], This, dev[proc.call].outcome)
  /\ UNCHANGED << dev, late, budget >>

-----------------------------------------------------------------------------
(* Judgment and the handler ladder.                                        *)

RecordVerdict(v) ==
  Write([type |-> "verdictRecorded", path |-> Here, verdict |-> v,
         evidence |-> << >>])

(* A success is judged by its assertions, an unconfirmed effect by the     *)
(* same assertions over a fresh observation; with no assertions the fold   *)
(* of the latter is a pass.                                                *)
Judge(v) ==
  /\ proc.at \in {"judge", "confirm"}
  /\ This.asserts \/ v = "pass"
  /\ RecordVerdict(v)
  /\ proc' = Ruled([proc EXCEPT !.class = "none"], v)
  /\ UNCHANGED << dev, late, budget >>

RecordNegative ==
  /\ proc.at = "record"
  /\ RecordVerdict(proc.status)
  /\ proc' = Ruled(proc, proc.status)
  /\ UNCHANGED << dev, late, budget >>

Hook(p) == IF p.class # "none" THEN "onError"
           ELSE IF p.status = "fail" THEN "onFail" ELSE "onUnknown"

(* resolve_binding: the step's bindings, then the flow's, first match.     *)
AllBindings(i) == Flow[i].handlers \o FlowHandlers
Matching(p) ==
  { k \in DOMAIN AllBindings(p.i) :
      /\ AllBindings(p.i)[k].hook = Hook(p)
      /\ Hook(p) = "onError" => p.class \in AllBindings(p.i)[k].classes }
BindingFor(p) == AllBindings(p.i)[Min(Matching(p))]

(* Mutant of HalfOpen: an unhandled fail releases the rest of the body.    *)
HalfOpenNever(p) == "continue"

(* What an unhandled negative does to the rest of the body.                *)
HalfOpen(p) == IF p.status = "fail" THEN "halt" ELSE "continue"
NotHandled(p) == Leave(p, "judged", HalfOpen(p))

(* Mutant of Asked: an answer is used as often as the ladder comes to it.  *)
AskedAgain(p) ==
  LET Q == RequestsAt(Prefix, HookPath(p.i, Hook(p), Triggers(p.i, Hook(p)), "human"))
  IN  { n \in Q : n = Latest(Q) }

(* The request of the escalate human of the current trigger, unless this   *)
(* process has used its answer already: at most one.                       *)
Asked(p) ==
  LET Q == RequestsAt(Prefix, HookPath(p.i, Hook(p), Triggers(p.i, Hook(p)), "human"))
  IN  { n \in Q : n = Latest(Q) /\ log[n].req \notin p.consumed }

(* In-force retries of one consultation re-enter at the chain head.        *)
RetryInForce ==
  /\ proc.at = "consult" /\ proc.inForce > 0
  /\ proc' = [ChainHead(proc) EXCEPT !.inForce = @ - 1]
  /\ UNCHANGED << log, ck, dev, late, budget >>

(* The escalate human of the current trigger still governs: its answer,    *)
(* its timeout, or a further wait.                                         *)
ContinueEscalation ==
  /\ proc.at = "consult" /\ proc.inForce = 0
  /\ Matching(proc) # { } /\ BindingFor(proc).action = "escalate"
  /\ \E n \in Asked(proc) : \E answer \in {AnswerTo(Prefix, log[n].req)} :
       LET spent == [proc EXCEPT !.consumed = @ \union {log[n].req}]
       IN  proc' = CASE answer = "done"         -> ChainHead(spent)
                     [] answer = "cannotRepair" -> Leave(spent, "aborted", "abort")
                     [] answer \in {"pass", "fail", "unknown"} ->
                          [spent EXCEPT !.at = "supersede", !.status = answer]
                     [] answer = NoPending /\ log[n].req \in late ->
                          [spent EXCEPT !.at = "supersede", !.status = "unknown"]
                     [] answer = NoPending /\ log[n].req \notin late ->
                          Goto(proc, "suspend")
  /\ UNCHANGED << log, ck, dev, late, budget >>

(* Mutant of InForce: the first re-entry is not counted.                   *)
InForceOneMore(b) == b.tries

(* One trigger of a retry grants max_attempts re-entries, this one among   *)
(* them.                                                                   *)
InForce(b) == b.tries - 1

(* consult_hook: no binding or an exhausted budget leaves the verdict      *)
(* standing; otherwise the trigger is recorded before its disposition.     *)
ConsultHook ==
  LET b == BindingFor(proc)
      t == Triggers(proc.i, Hook(proc))
      continues == b.action = "escalate" /\ Asked(proc) # { }
  IN  /\ proc.at = "consult" /\ proc.inForce = 0
      /\ \/ /\ Matching(proc) = { }
            /\ proc' = NotHandled(proc)
            /\ UNCHANGED << log, ck >>
         \/ /\ Matching(proc) # { } /\ ~continues /\ t >= b.triggers
            /\ proc' = NotHandled(proc)
            /\ UNCHANGED << log, ck >>
         \/ /\ Matching(proc) # { } /\ ~continues /\ t < b.triggers
            /\ Write([type |-> "handlerTriggered", path |-> Here, hook |-> b.hook,
                      trigger |-> t + 1, disposition |-> b.action])
            /\ proc' = CASE b.action = "retry" ->
                              [ChainHead(proc) EXCEPT !.inForce = InForce(b)]
                         [] b.action = "continue" -> Leave(proc, "judged", "continue")
                         [] b.action = "abort"    -> Leave(proc, "aborted", "abort")
                         [] b.action = "escalate" -> Goto(proc, "ask")
      /\ UNCHANGED << dev, late, budget >>

AskEscalation ==
  /\ proc.at = "ask"
  /\ Write(Request(HookPath(proc.i, Hook(proc), Triggers(proc.i, Hook(proc)), "human"),
                   "step", 0, TRUE,
                   IF BindingFor(proc).mode = "judge" THEN {"pass", "fail", "unknown"}
                   ELSE {"done", "cannotRepair"}))
  /\ proc' = Goto(proc, "suspend")
  /\ UNCHANGED << dev, late, budget >>

(* The ruling of a human supersedes the host verdict and ends the step.    *)
Supersede ==
  /\ proc.at = "supersede"
  /\ RecordVerdict(proc.status)
  /\ proc' = Leave(Seeded(proc, proc.status), "judged", HalfOpen(proc))
  /\ UNCHANGED << dev, late, budget >>

-----------------------------------------------------------------------------
(* Leaving a step, a body, a segment.                                      *)

Exited(path, state) ==
  Write([type |-> "stepExited", path |-> path, state |-> state,
         output |-> NoOutput, evidence |-> << >>])

NextStep(p) ==
  [Walking(p.base, p.work) EXCEPT !.i = p.i + 1, !.site = p.site, !.fold = p.fold,
                                  !.consumed = p.consumed]

(* Mutant of Halted: the rest of the body is dropped.                      *)
HaltedUnrecorded(p) == Goto(NextStep(p), "finish")

(* Halt-on-fail: the remaining steps are recorded, not dropped.            *)
Halted(p) == Goto(NextStep(p), "pairs")

ExitStep ==
  /\ proc.at = "exit"
  /\ Exited(Here, proc.exitAs)
  /\ proc' = CASE proc.ctl = "continue" -> NextStep(proc)
               [] proc.ctl = "halt"     -> Halted(proc)
               [] proc.ctl = "abort"    -> [proc EXCEPT !.at = "finish", !.fold = << >>]
  /\ UNCHANGED << dev, late, budget >>

(* record_pairs: the rest of the body is recorded blocked, an instance     *)
(* already on the ledger is kept, an open span is only closed.             *)
RecordBlocked ==
  /\ proc.at = "pairs" /\ proc.i <= Len(Flow)
  /\ \/ /\ Recorded(proc.i)
        /\ proc' = [proc EXCEPT !.i = @ + 1]
        /\ UNCHANGED << log, ck >>
     \/ /\ ~Recorded(proc.i) /\ OpenSpan(proc.i)
        /\ Exited(Here, "blocked")
        /\ proc' = [proc EXCEPT !.i = @ + 1]
     \/ /\ ~Recorded(proc.i) /\ ~OpenSpan(proc.i)
        /\ Write([type |-> "stepEntered", path |-> Here, asVar |-> NoVar,
                  resolved |-> FALSE])
        /\ UNCHANGED proc
  /\ UNCHANGED << dev, late, budget >>

WorstOf(fold) ==
  CASE fold = << >>                -> NoVerdict
    [] Contains(fold, "fail")      -> "fail"
    [] fold # << >> /\ ~Contains(fold, "fail") ->
         IF Contains(fold, "unknown") THEN "unknown" ELSE "pass"

FinishRun ==
  /\ \/ proc.at = "finish"
     \/ proc.at \in {"walk", "pairs"} /\ proc.i > Len(Flow)
  /\ Write([type |-> "runFinished", path |-> RootPath(MetaHash),
            verdict |-> WorstOf(proc.fold)])
  /\ proc' = Down
  /\ UNCHANGED << dev, late, budget >>

SuspendRun ==
  /\ proc.at = "suspend"
  /\ Write([type |-> "runSuspended", path |-> RootPath(MetaHash)])
  /\ proc' = Down
  /\ UNCHANGED << dev, late, budget >>

Crash ==
  /\ proc.at # "down"
  /\ budget > 0 /\ budget' = budget - 1
  /\ proc' = Down
  /\ UNCHANGED << log, ck, dev, late >>

-----------------------------------------------------------------------------
(* Resume under the same IR: reconcile the pending intent first.           *)

AdjudicatePath == HookPath(StepAt(ck.frontier.path), "onResumeDrift", 1, "adjudicate")

(* What the device side answers about a call.                              *)
Reconciled(c) ==
  { CASE dev[c].fate = "unsent"  -> "neverDispatched"
      [] dev[c].fate = "started" -> "startedNoTerminal"
      [] dev[c].fate = "done"    -> "completed" }
  \union (IF LogMayVanish THEN {"logUnavailable"} ELSE { })

(* Mutant of UncertainWork: any answer on the frontier step is taken.      *)
UncertainWorkAnyCall(c) ==
  LET answer == AnswerTo(log, Governing(log, AdjudicatePath).req)
  IN  IF ReplayPermitted(StepAt(ck.frontier.path)) THEN "replay"
      ELSE IF RequestsAt(log, AdjudicatePath) = { } THEN "ask"
      ELSE CASE answer = NoPending -> "reawait"
             [] answer = "adopt"   -> "confirm"
             [] answer = "redo"    -> "replay"
             [] answer = "abort"   -> "abortRuled"

(* uncertain_branch: replay only by declaration, else by the answer of the *)
(* adjudication asked about this very call.                                *)
UncertainWork(c) ==
  LET q == Governing(log, AdjudicatePath)
      answer == AnswerTo(log, q.req)
  IN  IF ReplayPermitted(StepAt(ck.frontier.path)) THEN "replay"
      ELSE IF RequestsAt(log, AdjudicatePath) = { } THEN "ask"
      ELSE IF q.call # c THEN "ask"
      ELSE CASE answer = NoPending -> "reawait"
             [] answer = "adopt"   -> "confirm"
             [] answer = "redo"    -> "replay"
             [] answer = "abort"   -> "abortRuled"

(* Mutant of FrontierWork: an unfinished call is left where it is.         *)
FrontierWorkForgetful(c, fate) ==
  CASE fate = "completed"       -> "adopt"
    [] fate = "neverDispatched" -> "replay"
    [] fate \in {"startedNoTerminal", "logUnavailable"} -> "none"

FrontierWork(c, fate) ==
  CASE fate = "completed"       -> "adopt"
    [] fate = "neverDispatched" -> "replay"
    [] fate \in {"startedNoTerminal", "logUnavailable"} -> UncertainWork(c)

(* Mutant of NothingNew: a passed deadline is not something to act on.     *)
NothingNewUntilAnswered == ck.status = "finished" \/ ck.pending # NoPending

(* Nothing happened that a new segment could act on.                       *)
NothingNew ==
  \/ ck.status = "finished"
  \/ ck.pending # NoPending /\ ck.pending.req \notin late

ResumeWith(work) ==
  LET c == ck.frontier.intent
  IN  /\ Write([type |-> "runResumed", path |-> RootPath(MetaHash),
                session |-> NoSession])
      /\ proc' = CASE work = "ask"     -> Goto(Down, "adjudicate")
                   [] work = "reawait" -> Goto(Down, "suspend")
                   [] work = "none"    -> Walking(Len(log), "none")
                   [] OTHER -> [Walking(Len(log), work) EXCEPT
                                  !.site = StepAt(ck.frontier.path), !.call = c,
                                  !.pos = log[Max({ n \in DOMAIN log :
                                                     /\ log[n].type = "actionIntent"
                                                     /\ log[n].call = c })].chain]

Resume ==
  /\ proc.at = "down" /\ log # << >>
  /\ IF NothingNew THEN budget > 0 /\ budget' = budget - 1 ELSE UNCHANGED budget
  /\ \/ ck.frontier.intent = NoIntent /\ ResumeWith("none")
     \/ /\ ck.frontier.intent # NoIntent
        /\ \E fate \in Reconciled(ck.frontier.intent) :
             ResumeWith(FrontierWork(ck.frontier.intent, fate))
  /\ UNCHANGED << dev, late >>

AskAdjudication ==
  /\ proc.at = "adjudicate"
  /\ Write(Request(AdjudicatePath, "step", ck.frontier.intent, FALSE,
                   {"adopt", "redo", "abort"}))
  /\ proc' = Goto(proc, "suspend")
  /\ UNCHANGED << dev, late, budget >>

-----------------------------------------------------------------------------
(* The humans, through the store's arbitration.                            *)

(* submit_human_response: only the pending request, before its deadline,   *)
(* with a decision it declares.                                            *)
Respond(decision) ==
  /\ ck.pending # NoPending
  /\ ck.pending.req \notin late
  /\ \E n \in DOMAIN log : /\ log[n].type = "humanRequested"
                            /\ log[n].req = ck.pending.req
                            /\ decision \in log[n].decisions
  /\ IF decision = "suspend" THEN budget > 0 /\ budget' = budget - 1
                             ELSE UNCHANGED budget
  /\ Write([type |-> "humanResponded", path |-> ck.pending.path,
            req |-> ck.pending.req, purpose |-> ck.pending.purpose,
            decision |-> decision])
  /\ UNCHANGED << dev, late, proc >>

DeadlinePasses ==
  /\ ck.pending # NoPending /\ ck.pending.deadline
  /\ ck.pending.req \notin late
  /\ late' = late \union {ck.pending.req}
  /\ UNCHANGED << log, ck, dev, proc, budget >>

Engine ==
  \/ StartRun \/ AdoptStep \/ EnterStep \/ GateSupervision
  \/ WriteIntent \/ Dispatch \/ Settle \/ AdoptTerminal
  \/ \E v \in Judgments : Judge(v)
  \/ RecordNegative \/ RetryInForce \/ ContinueEscalation \/ ConsultHook
  \/ AskEscalation \/ Supersede \/ ExitStep \/ RecordBlocked
  \/ FinishRun \/ SuspendRun \/ AskAdjudication

Environment ==
  \/ \E c \in Calls, o \in Outcomes : DeviceFinishes(c, o)
  \/ \E d \in Answers : Respond(d)
  \/ DeadlinePasses

Disruption == StopRequested \/ NoTerminal \/ Crash

Next == Engine \/ Resume \/ Environment \/ Disruption

Spec == Init /\ [][Next]_vars

(* The runner runs, the device reaches terminals, the operator resumes a   *)
(* stopped run, and a human answers or lets a deadline pass.               *)
FairSpec ==
  /\ Spec
  /\ WF_vars(Engine) /\ WF_vars(Resume)
  /\ WF_vars(\E c \in Calls, o \in Outcomes : DeviceFinishes(c, o))
  /\ WF_vars((\E d \in Answers : Respond(d)) \/ DeadlinePasses)
=============================================================================
