------------------------------- MODULE FlowWalk -------------------------------
(***************************************************************************)
(* The engine's walk over nested flows (crates/pointlock-runner/src/       *)
(* engine.rs): if, foreach, call, let and assert steps, repair flows under *)
(* a handler frame, preflight probes, and the unwinding of a halt, an      *)
(* abort or a suspension; and the resume of a run under the same or a      *)
(* repaired flow (runner.rs), with Alignment as its decision.              *)
(*                                                                         *)
(* The Rust recursion is a stack of activations, each one body being       *)
(* walked.  `proc.todo` holds the entries the step just taken appends, in  *)
(* their order; they are written one at a time, so that a crash can fall   *)
(* between any two.  `dev` is the device: what became of every call.       *)
(*                                                                         *)
(* An action step here has one bound attempt, no in-place retry, no        *)
(* supervision and no human: that ladder is RunEngine's, and so is a call  *)
(* whose fate reconcile cannot tell.                                       *)
(***************************************************************************)
EXTENDS Alignment

CONSTANTS
  Histories,   \* each a flow and then the edits of it, a sequence of flows
  Fates(_),    \* terminals the device may reach for a step
  Judgments,   \* statuses a step's assertions may fold to
  Forceable,   \* step ids an operator may name in --force-reexecute
  BadInputs,   \* a value the inbound gate or the type check refuses
  NotSent,     \* the device never saw the call
  Segments     \* bound: interrupted segments and resumes

VARIABLES log, ck, dev, proc, budget, versions
vars == << log, ck, dev, proc, budget, versions >>

ASSUME WalkShape ==
  (\A h \in Histories : Len(h) > 0) /\ Segments \in Nat

Without(f, k) == [x \in DOMAIN f \ {k} |-> f[x]]

NoCursor == [step |-> NoStep, path |-> << >>, inputs |-> NoInputs, phase |-> "act",
             class |-> "none", status |-> NoVerdict, seeded |-> FALSE, halted |-> FALSE]
Down == [at |-> "down"]

(* One body being walked: path is the prefix of its steps, host the cursor *)
(* of the step it belongs to, fold the verdicts seeded in a flow's frame.  *)
Activation(kind, path, body, flow, host) ==
  [ kind |-> kind, path |-> path, body |-> body, i |-> 1, flow |-> flow,
    host |-> host, fold |-> << >>, round |-> 0, rounds |-> 0 ]

Top(p) == Last(p.stack)
SetTop(p, a) == [p EXCEPT !.stack = Append(Front(@), a)]
Push(p, a) == [p EXCEPT !.stack = Append(@, a), !.at = "body"]

(* The innermost flow frame: `if` and `foreach` share their flow's.        *)
FrameIndex(p) ==
  Max({ n \in DOMAIN p.stack : p.stack[n].kind \in {"flow", "call", "repair"} })
FrameFlow(p) == p.stack[FrameIndex(p)].flow

Here(p) == Key(p.cur.path)

(* seed_verdict, then reseed_last for a later round of the same step.      *)
Seed1(p, v) ==
  [p EXCEPT !.stack[FrameIndex(p)].fold =
              Append(IF p.cur.seeded THEN Front(@) ELSE @, v),
            !.cur.seeded = TRUE, !.cur.status = v]

(* fold_flow_verdict; degraded verdicts are left out.                      *)
FlowVerdict(fold) ==
  IF fold = << >> THEN NoVerdict
  ELSE IF Contains(fold, "fail") THEN "fail"
  ELSE IF Contains(fold, "unknown") THEN "unknown" ELSE "pass"

-----------------------------------------------------------------------------
(* Ledger entries.                                                         *)

Entered(path, step, inputs) ==
  [ type |-> "stepEntered", path |-> path,
    asVar |-> IF step.kind = "foreach" THEN step.id ELSE NoVar,
    resolved |-> [inputs |-> inputs, eff |-> EffectHash(step), jdg |-> JudgeHash(step)] ]
Exited(path, state, output) ==
  [type |-> "stepExited", path |-> path, state |-> state, output |-> output,
   evidence |-> << >>]
Verdict(path, v) ==
  [type |-> "verdictRecorded", path |-> path, verdict |-> v, evidence |-> << >>]
Settled(path, call, outcome) ==
  [type |-> "actionSettled", path |-> path, call |-> call, outcome |-> outcome]
Pushed(path, flow, rebase) ==
  [type |-> "callFramePushed", path |-> path, flow |-> flow.flow, hash |-> flow.hash,
   rebase |-> rebase]
Popped(path, output) ==
  [type |-> "callFramePopped", path |-> path, output |-> output]

Emit(p, entries) == [p EXCEPT !.todo = @ \o entries]

(* record_pairs: what will not run is accounted for, children before their *)
(* container, unless an earlier segment already did.                       *)
RECURSIVE RecordPairs(_, _, _, _)
RecordPairs(p, prefix, steps, state) ==
  LET One(q, s) ==
        LET path  == Under(prefix, s)
            below == CASE s.kind = "if" ->
                            RecordPairs(RecordPairs(q, path, s.then, state),
                                        path, s.else, state)
                       [] s.kind = "foreach" -> RecordPairs(q, path, s.body, state)
                       [] OTHER -> q
        IN  IF Key(path) \in DOMAIN below.adopt
              THEN [below EXCEPT !.adopt = Without(@, Key(path))]
            ELSE IF Key(path) \in DOMAIN below.spans
              THEN Emit([below EXCEPT !.spans = Without(@, Key(path))],
                        << Exited(path, state, NoOutput) >>)
            ELSE Emit(below, << Entered(path, s, NoInputs), Exited(path, state, NoOutput) >>)
  IN  FoldLeft(One, p, steps)

(* adopt_step and adopt_children: records seed their verdicts; a container *)
(* consumes its children's.                                                *)
RECURSIVE AdoptChildren(_, _, _)
AdoptRecordOf(p, step, path) ==
  LET record == p.adopt[Key(path)]
      q == [p EXCEPT !.adopt = Without(@, Key(path)),
                     !.stack[FrameIndex(p)].fold =
                        IF record.verdict = NoVerdict THEN @ ELSE Append(@, record.verdict)]
  IN  CASE step.kind = "if" ->
             AdoptChildren(AdoptChildren(q, path, step.then), path, step.else)
        [] step.kind = "foreach" /\ record.resolved.inputs \in Nat ->
             FoldLeft(LAMBDA x, r : AdoptChildren(x, Round(path, r), step.body),
                      q, [r \in 1 .. record.resolved.inputs |-> r])
        [] OTHER -> q
AdoptChildren(p, prefix, steps) ==
  FoldLeft(LAMBDA x, s : IF Key(Under(prefix, s)) \in DOMAIN x.adopt
                         THEN AdoptRecordOf(x, s, Under(prefix, s)) ELSE x,
           p, steps)

(* How the current step ends: the body goes on, the rest of it is blocked, *)
(* or the level is left as it stands.                                      *)
Returned(p, ctl) ==
  LET a == Top(p)
  IN  IF ctl = "continue" THEN [SetTop(p, [a EXCEPT !.i = @ + 1]) EXCEPT !.at = "body"]
      ELSE IF ctl = "halt"
        THEN [RecordPairs(p, a.path, SubSeq(a.body, a.i + 1, Len(a.body)), "blocked")
                EXCEPT !.at = "close", !.ctl = "halt"]
      ELSE [p EXCEPT !.at = "close", !.ctl = ctl]

(* The step exits with a state, and returns.                               *)
Leave(p, state, output, ctl) ==
  Returned(Emit(p, << Exited(p.cur.path, state, output) >>), ctl)

HaltIfFail(v) == IF v = "fail" THEN "halt" ELSE "continue"

(* settle_error: verdict, exit, no consultation.                           *)
SettleError(p, v) ==
  Leave(Seed1(Emit(p, << Verdict(p.cur.path, v) >>), v), "judged", NoOutput, HaltIfFail(v))

-----------------------------------------------------------------------------
(* Beginning and ending a segment.                                         *)

Segment(flow, base, todo) ==
  [ at |-> "body", todo |-> todo, ctl |-> "continue", cur |-> NoCursor,
    stack |-> << Activation("flow", << FlowFrame(flow.flow, flow.hash) >>,
                            flow.body, flow, NoCursor) >>,
    adopt |-> << >>, spans |-> << >>, live |-> << >>, work |-> "none", workKey |-> NoKey,
    workCall |-> 0, settled |-> << >>, ruled |-> << >>, triggers |-> << >>,
    authorized |-> { }, resumed |-> FALSE, noted |-> FALSE, torn |-> NoKey,
    base |-> base, leaked |-> FALSE, acted |-> FALSE ]

Init ==
  /\ versions \in Histories
  /\ log = << >> /\ ck = Seed(Head(versions).hash, NoSession)
  /\ dev = << >> /\ proc = Down
  /\ budget = Segments

Running == proc.at # "down"
Ready(at) == Running /\ proc.at = at /\ proc.todo = << >>

(* Runner::run                                                             *)
StartRun ==
  /\ ~Running /\ log = << >> /\ Loads(Head(versions))
  /\ proc' = Segment(Head(versions), 0,
       << [type |-> "runStarted", path |-> RootPath(Head(versions).hash),
           hash |-> Head(versions).hash] >>)
  /\ UNCHANGED << log, ck, dev, budget, versions >>

(* Every append commits before the next; the last one ends the segment.    *)
WriteNext ==
  /\ Running /\ proc.todo # << >>
  /\ log' = Append(log, Head(proc.todo))
  /\ ck' = FoldStep(ck, Head(proc.todo))
  /\ proc' = IF proc.at = "ended" /\ Len(proc.todo) = 1 THEN Down
             ELSE [proc EXCEPT !.todo = Tail(@)]
  /\ UNCHANGED << dev, budget, versions >>

Crash ==
  /\ Running /\ budget > 0
  /\ proc' = Down
  /\ UNCHANGED << log, ck, dev, budget, versions >>

-----------------------------------------------------------------------------
(* Resume.                                                                 *)

Intent == ck.frontier.intent
FrontierKey == Key(ck.frontier.path)

(* reconcile_frontier, for a fate the device can tell: adopt the terminal  *)
(* or replay at the resume point, close the intent off it, or refuse.      *)
Reconciled(flow, facts, atResume) ==
  LET step  == ResolveAction(flow, ck.frontier.path)
      dirty == \/ step = NoStep \/ FrontierKey \notin DOMAIN facts.enteredEff
               \/ step # NoStep /\ facts.enteredEff[FrontierKey] # EffectHash(step)
      fate  == dev[Intent]
  IN  CASE Intent = NoIntent -> "nothing"
        [] fate = NotSent    -> IF ~dirty /\ atResume THEN "replay" ELSE "nothing"
        [] ~dirty /\ atResume -> "adopt"
        [] /\ fate \in {"succeeded", "timedOut"}
           /\ step = NoStep \/ GatedAction(step) -> "refused"
        [] OTHER -> "deferredSettle"

(* The pending intent is closed where it was written.                      *)
DeferredSettle(facts, decision) ==
  IF decision = "deferredSettle"
  THEN << Settled(facts.intentPath[Intent], Intent, dev[Intent]) >>
  ELSE << >>

WithFacts(p, facts, adopt, decision) ==
  [p EXCEPT !.adopt = adopt, !.live = LivePins(facts), !.resumed = TRUE,
            !.spans = [k \in { Key(x) : x \in Range(facts.openSpans) } |->
                         facts.enteredIn[k]],
            !.settled = facts.settled, !.ruled = facts.ruled,
            !.triggers = facts.triggers,
            !.work = IF decision \in {"adopt", "replay"} THEN decision ELSE "none",
            !.workKey = FrontierKey,
            !.workCall = IF Intent = NoIntent THEN 0 ELSE Intent]

Resumed(flow) ==
  [type |-> "runResumed", path |-> RootPath(flow.hash), session |-> NoSession]

(* What any resume asks of the run: it is not over, and no repair flow was *)
(* cut off inside a handler.                                               *)
Resumable ==
  /\ ~Running /\ log # << >> /\ ck.status # "finished"
  /\ budget > 0
  /\ LiveHookFrames(Harvest(log)) = { }

(* resume_same_ir: every last record is offered, history or not; the walk  *)
(* decides.                                                                *)
ResumeSame ==
  LET flow  == Head(versions)
      facts == Harvest(log)
      last(k) == Max({ i \in DOMAIN ck.completed : Key(ck.completed[i].path) = k })
      keys  == { Key(r.path) : r \in Range(ck.completed) }
      decision == Reconciled(flow, facts, TRUE)
  IN  /\ Resumable /\ flow.hash = ck.irHash
      /\ decision # "refused"
      /\ proc' = WithFacts(Segment(flow, Len(log), << Resumed(flow) >>
                                      \o DeferredSettle(facts, decision)),
                           facts, [k \in keys |-> ck.completed[last(k)]], decision)
      /\ budget' = budget - 1
      /\ UNCHANGED << log, ck, dev, versions >>

Torn(key, teardown) == key = teardown \/ (teardown # NoKey /\ Inside(teardown, key))

(* Mutant of Teardown: the frame is popped once, whatever is open below.   *)
TeardownShallow(facts, teardown) ==
  LET spans == SelectSeq(facts.openSpans, LAMBDA s : Key(s) = teardown)
  IN  FlattenSeq([i \in DOMAIN spans |->
        << Popped(spans[i], NoOutput), Exited(spans[i], "aborted", NoOutput) >>])
(* The stale frame is dismantled innermost first, each call's frame popped *)
(* just before its own span closes.                                        *)
Teardown(facts, teardown) ==
  LET spans == SelectSeq(Reverse(facts.openSpans), LAMBDA s : Torn(Key(s), teardown))
      live  == { Key(f) : f \in Range(facts.liveFrames) }
  IN  FlattenSeq([i \in DOMAIN spans |->
        (IF Key(spans[i]) \in live THEN << Popped(spans[i], NoOutput) >> ELSE << >>)
        \o << Exited(spans[i], "aborted", NoOutput) >>])

(* resume_cross_ir: align, reconcile, then the header, the re-judgements,  *)
(* the closed intent and the teardown, in this order.                      *)
CrossWalk(flow, facts, al, decision, authorized) ==
  LET p == WithFacts(Segment(flow, Len(log),
             << Resumed(flow) >>
             \o [i \in DOMAIN al.rejudged |->
                   Verdict(al.rejudged[i].path, al.rejudged[i].verdict)]
             \o DeferredSettle(facts, decision)
             \o Teardown(facts, al.teardown)), facts, al.adopt, decision)
  IN  [p EXCEPT
         !.spans = [k \in { x \in DOMAIN @ : ~Torn(x, al.teardown) } |-> @[k]],
         !.live  = [k \in { x \in DOMAIN @ : ~Torn(x, al.teardown) } |-> @[k]],
         !.torn  = al.teardown,
         !.authorized = authorized]

(* The operator authorises what the refused attempt names, which changes   *)
(* nothing else of the report, or does not resume; versions are tried in   *)
(* their order, the edited one again and again.                            *)
ResumeCross(to, opts) ==
  LET flow == versions[to]
  IN  /\ Resumable /\ flow.hash # ck.irHash /\ Loads(flow)
      /\ ~UnderHook(ck.frontier.path)
      /\ \E facts \in {Harvest(log)} :
         \E al \in {Align(flow, ck, facts, opts)} :
           LET decision == Reconciled(flow, facts, al.resume = FrontierKey)
           IN  /\ al.refused # "stranded" /\ decision # "refused"
               /\ proc' = CrossWalk(flow, facts, al, decision, al.gated)
      /\ versions' = SubSeq(versions, to, Len(versions))
      /\ budget' = budget - 1
      /\ UNCHANGED << log, ck, dev >>

-----------------------------------------------------------------------------
(* exec_body and exec_step.                                                *)

NextStep == Top(proc).body[Top(proc).i]
NextPath == Under(Top(proc).path, NextStep)
NextKey == Key(NextPath)
AtStep == Ready("body") /\ Top(proc).i <= Len(Top(proc).body)

StopRequested ==
  /\ AtStep /\ budget > 0
  /\ proc' = [proc EXCEPT !.at = "close", !.ctl = "suspend"]
  /\ UNCHANGED << log, ck, dev, budget, versions >>

CanAdopt == NextKey \in DOMAIN proc.adopt /\ IsHistory(proc.adopt[NextKey])

AdoptStep ==
  /\ AtStep /\ CanAdopt
  /\ proc' = Returned(AdoptRecordOf(proc, NextStep, NextPath), "continue")
  /\ UNCHANGED << log, ck, dev, budget, versions >>

WorkHere == proc.work # "none" /\ proc.workKey = NextKey

(* Mutant of Snapshot: control values are evaluated again on a resume.     *)
SnapshotAnew == NextStep.vals
(* The frozen snapshot of an open span is never evaluated again; an action *)
(* without frontier work and a `let` that had failed resolve anew.         *)
Snapshot ==
  IF /\ NextKey \in DOMAIN proc.spans
     /\ NextStep.kind = "action" => WorkHere
     /\ NextStep.kind = "let" => proc.spans[NextKey] # NoInputs
  THEN {proc.spans[NextKey]} ELSE NextStep.vals

(* A ready phase that cannot be acted upon; the inbound gate of a call is  *)
(* not applied to an archived snapshot.                                    *)
Unready(step, v, archived) ==
  CASE step.kind = "if"      -> v \notin BOOLEAN
    [] step.kind = "foreach" -> v \notin Nat
    [] step.kind = "call"    -> v = NoInputs \/ (v = BadInputs /\ ~archived)
    [] step.kind = "assert"  -> FALSE
    [] OTHER                 -> v = NoInputs

(* enter_step: a span an earlier segment opened is not opened again.       *)
Open(p, v) ==
  LET q == [p EXCEPT !.spans = Without(@, Here(p))]
  IN  IF Here(p) \in DOMAIN p.spans THEN q
      ELSE Emit(q, << Entered(p.cur.path, p.cur.step, v) >>)

(* A span whose act settled and was judged in an earlier segment is        *)
(* re-entered at its ruling.                                               *)
AtRuling ==
  /\ NextStep.kind = "action" /\ ~WorkHere /\ NextKey \in DOMAIN proc.spans
  /\ NextKey \in DOMAIN proc.settled /\ NextKey \in DOMAIN proc.ruled

(* The output an exit carries: an action's projection, once it succeeded.  *)
Output(p) == IF p.cur.step.kind = "action" /\ p.cur.class = "succeeded"
             THEN p.cur.step.id ELSE NoOutput

(* A judged round: a pass leaves, a negative is consulted.                 *)
Ruled(p, v) ==
  LET q == Seed1(p, v)
  IN  IF v = "pass" THEN Leave(q, "judged", Output(q), "continue")
      ELSE [q EXCEPT !.at = "consult"]

EnterStep ==
  /\ AtStep /\ ~CanAdopt
  /\ NextStep.kind = "call" => Cardinality({ n \in DOMAIN proc.stack :
       proc.stack[n].kind \in {"flow", "call", "repair"} }) < MaxCallDepth
  /\ \E v \in Snapshot :
       LET p == [proc EXCEPT !.cur = [NoCursor EXCEPT !.step = NextStep,
                                        !.path = NextPath, !.inputs = v]]
           q == Open(p, IF NextStep.kind = "assert" THEN NoInputs ELSE v)
       IN  proc' =
             IF Unready(NextStep, v, NextKey \in DOMAIN proc.spans)
               THEN SettleError(q, "fail")
             ELSE IF AtRuling
               THEN Ruled([q EXCEPT !.cur.class = IF proc.settled[NextKey] = "succeeded"
                                                  THEN "succeeded" ELSE "none"],
                          proc.ruled[NextKey])
             ELSE IF WorkHere /\ proc.work = "adopt" THEN [q EXCEPT !.at = "adopted"]
             ELSE [q EXCEPT !.at = "probe"]
  /\ UNCHANGED << log, ck, dev, budget, versions >>

-----------------------------------------------------------------------------
(* Probing.                                                                *)

Probed(p, outcomes) ==
  Emit(p, << [type |-> "preflightProbed", path |-> p.cur.path, outcomes |-> outcomes] >>)

(* An undeclared preflight is noted where a resume first executes, and at  *)
(* every step the operator authorised.                                     *)
OwesNote ==
  (proc.resumed /\ ~proc.noted) \/ proc.cur.step.id \in proc.authorized

Probe ==
  /\ Ready("probe")
  /\ LET p == [proc EXCEPT !.noted = TRUE]
     IN  IF proc.cur.step.pf = NoProbe
         THEN proc' = [(IF OwesNote THEN Probed(p, { }) ELSE p) EXCEPT !.at = "go"]
         ELSE \/ proc' = [Probed(p, {"pass"}) EXCEPT !.at = "go"]
              \/ proc' = [Probed(p, {"fail"}) EXCEPT !.at = "consult",
                                                     !.cur.phase = "drift"]
  /\ UNCHANGED << log, ck, dev, budget, versions >>

-----------------------------------------------------------------------------
(* Action steps.                                                           *)

Act ==
  /\ Ready("go") /\ proc.cur.step.kind = "action"
  /\ dev' = Append(dev, NotSent)
  /\ proc' = [Emit(proc, << [type |-> "actionIntent", path |-> proc.cur.path,
                             call |-> Len(dev) + 1, chain |-> 1] >>)
                EXCEPT !.at = "dispatch", !.work = "none", !.acted = TRUE,
                       !.cur.phase = "act"]
  /\ UNCHANGED << log, ck, budget, versions >>

(* What a settled terminal leads to; a timeout is confirmed by observing.  *)
Disposed(p, outcome, v) ==
  LET q == [p EXCEPT !.cur.class = outcome]
  IN  CASE outcome = "cancelled" -> Leave(q, "aborted", NoOutput, "abort")
        [] outcome = "succeeded" /\ ~p.cur.step.asserts ->
             Leave(q, "judged", Output(q), "continue")
        [] outcome = "failed" -> Ruled(Emit(q, << Verdict(p.cur.path, "fail") >>), "fail")
        [] outcome = "timedOut" /\ ~p.cur.step.asserts ->
             Ruled(Emit(q, << Verdict(p.cur.path, "unknown") >>), "unknown")
        [] OTHER -> Ruled(Emit(q, << Verdict(p.cur.path, v) >>), v)

Judged(p, call, outcome, v) ==
  Disposed(Emit(p, << Settled(p.cur.path, call, outcome) >>), outcome, v)

(* The device takes the call and reaches a terminal.                       *)
Dispatch ==
  /\ Ready("dispatch")
  /\ \E outcome \in Fates(proc.cur.step), v \in Judgments :
       /\ dev' = [dev EXCEPT ![Len(dev)] = outcome]
       /\ proc' = Judged(proc, Len(dev), outcome, v)
  /\ UNCHANGED << log, ck, budget, versions >>

(* The terminal a crash swallowed is disposed like a live one.             *)
AdoptTerminal ==
  /\ Ready("adopted")
  /\ \E v \in Judgments :
       proc' = [Judged(proc, proc.workCall, dev[proc.workCall], v)
                  EXCEPT !.work = "none", !.acted = TRUE]
  /\ UNCHANGED << log, ck, dev, budget, versions >>

-----------------------------------------------------------------------------
(* Containers and the other kinds.                                         *)

BeginIf ==
  /\ Ready("go") /\ proc.cur.step.kind = "if"
  /\ LET s == proc.cur.step
         taken   == IF proc.cur.inputs THEN s.then ELSE s.else
         untaken == IF proc.cur.inputs THEN s.else ELSE s.then
         p == RecordPairs(proc, proc.cur.path, untaken, "skipped")
     IN  proc' = Push(p, Activation("if", proc.cur.path, taken, FrameFlow(proc), proc.cur))
  /\ UNCHANGED << log, ck, dev, budget, versions >>

BeginForeach ==
  /\ Ready("go") /\ proc.cur.step.kind = "foreach"
  /\ LET a == [Activation("foreach", proc.cur.path, << >>, FrameFlow(proc), proc.cur)
                 EXCEPT !.rounds = proc.cur.inputs]
     IN  proc' = Push(proc, a)
  /\ UNCHANGED << log, ck, dev, budget, versions >>

(* Mutant of BeginCall: a live frame is re-entered without a rebase.       *)
BeginCallSilently ==
  /\ Ready("go") /\ proc.cur.step.kind = "call"
  /\ LET callee == TryCallee(proc.cur.step.ref)
         p == [proc EXCEPT !.live = Without(@, Here(proc))]
     IN  proc' = Push(IF Here(proc) \in DOMAIN proc.live THEN p
                      ELSE Emit(p, << Pushed(proc.cur.path, callee, FALSE) >>),
                      Activation("call", proc.cur.path, callee.body, callee, proc.cur))
  /\ UNCHANGED << log, ck, dev, budget, versions >>

(* A frame an earlier segment pushed is re-entered; when its pin moved the *)
(* re-entry is announced as a rebase.                                      *)
BeginCall ==
  /\ Ready("go") /\ proc.cur.step.kind = "call"
  /\ LET callee == TryCallee(proc.cur.step.ref)
         open   == Here(proc) \in DOMAIN proc.live
         rebase == open /\ proc.live[Here(proc)] # callee.hash
         p == [proc EXCEPT !.live = Without(@, Here(proc))]
     IN  proc' = Push(IF open /\ ~rebase THEN p
                      ELSE Emit(p, << Pushed(proc.cur.path, callee, rebase) >>),
                      Activation("call", proc.cur.path, callee.body, callee, proc.cur))
  /\ UNCHANGED << log, ck, dev, budget, versions >>

BindLet ==
  /\ Ready("go") /\ proc.cur.step.kind = "let"
  /\ proc' = [Leave(proc, "judged", NoOutput, "continue") EXCEPT !.acted = TRUE]
  /\ UNCHANGED << log, ck, dev, budget, versions >>

EvaluateAssert ==
  /\ Ready("go") /\ proc.cur.step.kind = "assert"
  /\ \E v \in Judgments :
       proc' = Ruled([Emit(proc, << Verdict(proc.cur.path, v) >>)
                        EXCEPT !.acted = TRUE, !.cur.phase = "act"], v)
  /\ UNCHANGED << log, ck, dev, budget, versions >>

-----------------------------------------------------------------------------
(* Handlers.                                                               *)

HookOf(p) ==
  CASE p.cur.phase = "drift"  -> "onResumeDrift"
    [] p.cur.class = "failed" -> "onError"
    [] p.cur.status = "fail"  -> "onFail"
    [] OTHER                  -> "onUnknown"

(* resolve_binding: the step's own list first, then its flow's.            *)
NoBinding == [hook |-> "none", action |-> "none", triggers |-> 0, ref |-> NoStep]
BindingFor(p) ==
  LET mine(b) == b.hook = HookOf(p)
      all == SelectSeq(p.cur.step.handlers, mine) \o SelectSeq(FrameFlow(p).handlers, mine)
  IN  IF all = << >> THEN NoBinding ELSE all[1]

TriggersUsed(p) ==
  LET k == << Here(p), HookOf(p) >>
  IN  IF k \in DOMAIN p.triggers THEN p.triggers[k] ELSE 0

(* What a disposition means for the host: a drifted step, a judged step, a *)
(* call about its callee's verdict.  Aborting at a probe leaves the span.  *)
Consulted(p, result) ==
  IF p.cur.phase = "drift"
  THEN CASE result = "continue"   -> [p EXCEPT !.at = "go"]
         [] result = "abort"      -> Returned([p EXCEPT !.leaked = TRUE], "abort")
         [] result = "repairDone" -> [p EXCEPT !.at = "probe"]
         [] OTHER                 -> Returned(p, "blocked")
  ELSE CASE result = "continue"   -> Leave(p, "judged", Output(p), "continue")
         [] result = "abort"      -> Leave(p, "aborted", NoOutput, "abort")
         [] result = "repairDone" -> IF p.cur.step.kind = "call" THEN Down
                                     ELSE [p EXCEPT !.at = "go"]
         [] OTHER -> Leave(p, "judged", Output(p),
                           IF p.cur.halted THEN "halt" ELSE HaltIfFail(p.cur.status))

(* run_repair: the repair flow runs under the hook frame of its trigger.   *)
RepairPath(p, trigger, ref) ==
  p.cur.path \o << FrameOf("hook", << HookOf(p), trigger >>, NoHash),
                   FrameOf("call", NoStep, ref.hash) >>

Consult ==
  /\ Ready("consult")
  /\ LET b == BindingFor(proc)
         n == TriggersUsed(proc) + 1
         triggered == Emit([proc EXCEPT !.triggers =
                              (<< Here(proc), HookOf(proc) >> :> n) @@ @],
                           << [type |-> "handlerTriggered", path |-> proc.cur.path,
                               hook |-> HookOf(proc), n |-> n] >>)
     IN  proc' =
           IF n > b.triggers THEN Consulted(proc, "none")
           ELSE IF b.action # "repair" THEN Consulted(triggered, b.action)
           ELSE LET callee == TryCallee(b.ref)
                    path   == RepairPath(proc, n, b.ref)
                IN  Push(Emit(triggered, << Pushed(path, callee, FALSE) >>),
                         Activation("repair", path, callee.body, callee, proc.cur))
  /\ UNCHANGED << log, ck, dev, budget, versions >>

-----------------------------------------------------------------------------
(* Leaving a body.                                                         *)

(* A walked-out body closes; a foreach goes on to its next round.          *)
EndBody ==
  /\ Ready("body") /\ Top(proc).i > Len(Top(proc).body)
  /\ LET a == Top(proc)
     IN  IF a.kind = "foreach" /\ a.round < a.rounds
         THEN proc' = SetTop(proc, [a EXCEPT !.round = @ + 1, !.i = 1,
                               !.body = a.host.step.body,
                               !.path = Round(a.host.path, a.round + 1)])
         ELSE proc' = [proc EXCEPT !.at = "close", !.ctl = "continue"]
  /\ UNCHANGED << log, ck, dev, budget, versions >>

Closing(kinds) == Ready("close") /\ Top(proc).kind \in kinds
Pop(p) == [p EXCEPT !.stack = Front(@), !.cur = Top(p).host]

(* A halt of the root still finishes the run; an abort claims nothing.     *)
CloseFlow ==
  /\ Closing({"flow"})
  /\ LET path == RootPath(Top(proc).flow.hash)
         entry == IF proc.ctl \in {"suspend", "blocked"}
                  THEN [type |-> "runSuspended", path |-> path]
                  ELSE [type |-> "runFinished", path |-> path, verdict |->
                          IF proc.ctl = "abort" THEN NoVerdict ELSE FlowVerdict(Top(proc).fold)]
     IN  proc' = [Emit(proc, << entry >>) EXCEPT !.at = "ended"]
  /\ UNCHANGED << log, ck, dev, budget, versions >>

(* Mutant of CloseContainer: a halt unwinds past the container's exit.     *)
CloseContainerUnlessHalted ==
  /\ Closing({"if", "foreach"})
  /\ LET p == Pop(proc)
     IN  proc' = CASE proc.ctl = "continue" -> Leave(p, "judged", NoOutput, "continue")
                   [] proc.ctl = "abort" -> Leave(p, "aborted", NoOutput, "abort")
                   [] OTHER -> Returned(p, proc.ctl)
  /\ UNCHANGED << log, ck, dev, budget, versions >>

CloseContainer ==
  /\ Closing({"if", "foreach"})
  /\ LET p == Pop(proc)
     IN  proc' = CASE proc.ctl \in {"continue", "halt"} ->
                        Leave(p, "judged", NoOutput, proc.ctl)
                   [] proc.ctl = "abort" -> Leave(p, "aborted", NoOutput, "abort")
                   [] OTHER -> Returned(p, proc.ctl)
  /\ UNCHANGED << log, ck, dev, budget, versions >>

(* The call step's verdict is its callee's; a negative is consulted.       *)
CalleeVerdict(p, v, halted) ==
  LET q == [p EXCEPT !.cur.halted = halted, !.cur.phase = "act"]
  IN  IF v = NoVerdict
      THEN Leave(q, "judged", NoOutput, IF halted THEN "halt" ELSE "continue")
      ELSE LET r == Seed1(Emit(q, << Verdict(p.cur.path, v) >>), v)
           IN  IF v = "pass"
               THEN Leave(r, "judged", NoOutput, IF halted THEN "halt" ELSE "continue")
               ELSE [r EXCEPT !.at = "consult"]

CloseCall ==
  /\ Closing({"call"})
  /\ LET p == Pop(proc)
         popped == Emit(p, << Popped(p.cur.path, NoOutput) >>)
     IN  \/ /\ proc.ctl \in {"continue", "halt"}
            /\ proc' = CalleeVerdict(popped, FlowVerdict(Top(proc).fold), proc.ctl = "halt")
         \/ /\ proc.ctl = "continue" /\ BadInputs \in p.cur.step.vals
            /\ proc' = SettleError(popped, "fail")
         \/ /\ proc.ctl = "abort"
            /\ proc' = Leave(popped, "aborted", NoOutput, "abort")
         \/ /\ proc.ctl \in {"suspend", "blocked"}
            /\ proc' = Returned(p, proc.ctl)
  /\ UNCHANGED << log, ck, dev, budget, versions >>

(* A control outcome inside a repair is the host's; its frame stays.       *)
CloseRepair ==
  /\ Closing({"repair"})
  /\ LET a == Top(proc)
         p == Pop(proc)
         popped == Emit(p, << Popped(a.path, NoOutput) >>)
     IN  proc' = CASE proc.ctl \in {"suspend", "blocked"} -> Returned(p, proc.ctl)
                   [] proc.ctl = "abort" -> Returned([p EXCEPT !.leaked = TRUE], "abort")
                   [] \/ proc.ctl = "halt"
                      \/ FlowVerdict(a.fold) \notin {NoVerdict, "pass"} ->
                        Consulted(popped, "repairFailed")
                   [] OTHER -> Consulted(popped, "repairDone")
  /\ UNCHANGED << log, ck, dev, budget, versions >>

Options == [authorized : {{ }}, forced : {{ }} \union { {s} : s \in Forceable },
            old : {NoFlow, Head(versions)}, rejudge : Judgments]

Next ==
  \/ StartRun \/ WriteNext \/ Crash
  \/ ResumeSame
  \/ \E to \in DOMAIN versions, opts \in Options : ResumeCross(to, opts)
  \/ StopRequested \/ AdoptStep \/ EnterStep \/ Probe
  \/ Act \/ Dispatch \/ AdoptTerminal
  \/ BeginIf \/ BeginForeach \/ BeginCall \/ BindLet \/ EvaluateAssert
  \/ Consult \/ EndBody
  \/ CloseFlow \/ CloseContainer \/ CloseCall \/ CloseRepair

Spec == Init /\ [][Next]_vars
=============================================================================
