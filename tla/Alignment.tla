------------------------------ MODULE Alignment ------------------------------
(***************************************************************************)
(* Cross-IR alignment (crates/pointlock-runner/src/align.rs): which records*)
(* of a run an edited flow may adopt, where execution resumes, and which   *)
(* re-executions need the operator's authorisation by name.                *)
(*                                                                         *)
(* Everything here is a pure function of the new flow, the ledger and its  *)
(* fold, so that FlowWalk can use it as the guard and effect of a resume.  *)
(* A stepEntered entry carries in `resolved` the record                    *)
(* [inputs, eff, jdg]: the ready-phase snapshot (NoInputs for null) and    *)
(* the two hashes the step was executed under.                             *)
(*                                                                         *)
(* Left out: output projection and observation ids (payload).  What the    *)
(* new assertions say of the archived material is the parameter            *)
(* `opts.rejudge`.                                                         *)
(***************************************************************************)
EXTENDS FlowIR, FiniteSetsExt

CONSTANTS
  NoInputs,     \* resolvedInputs = null
  NoFlow,       \* the operator supplied no old FlowIR
  NoKey         \* no instance

(* is_history: blocked and skipped pairs concluded nothing.                *)
IsHistory(r) ==
  \/ r.attempts # << >>
  \/ r.verdict # NoVerdict
  \/ r.output # NoOutput
  \/ r.resolved.inputs # NoInputs

(* prior_effect_possible: the terminal of an attempt, never the verdict.   *)
HasEffect(r) ==
  \E i \in DOMAIN r.attempts : r.attempts[i].outcome \in {"succeeded", "timedOut"}

(* completed_by_instance: the last record of an instance that is history.  *)
RecordsByInstance(view) ==
  LET past == { i \in DOMAIN view.completed : IsHistory(view.completed[i]) }
      key(i) == Key(view.completed[i].path)
  IN  [k \in { key(i) : i \in past } |->
         view.completed[Max({ i \in past : key(i) = k })]]

-----------------------------------------------------------------------------
(* harvest                                                                 *)

NoFacts ==
  [ openSpans |-> << >>, liveFrames |-> << >>, enteredEff |-> << >>,
    enteredIn |-> << >>, enteredSeq |-> << >>, intentPath |-> << >>,
    settled |-> << >>, raw |-> { }, ruled |-> << >>, triggers |-> << >> ]

(* Facts are keyed by instance: the last entry wins, except for the place  *)
(* of a step in the order of execution, which its first entry fixes.       *)
HarvestOne(x, ev, seq) ==
  LET key == Key(ev.path)
  IN CASE ev.type = "stepEntered" ->
            [x EXCEPT !.openSpans  = Append(@, ev.path),
                      !.enteredEff = (key :> ev.resolved.eff) @@ @,
                      !.enteredIn  = (key :> ev.resolved.inputs) @@ @,
                      !.enteredSeq = @ @@ (key :> seq)]
       [] ev.type = "stepExited" ->
            [x EXCEPT !.openSpans = IF @ = << >> THEN @ ELSE Front(@)]
       [] ev.type = "callFramePushed" /\ ~ev.rebase ->
            [x EXCEPT !.liveFrames = Append(@, ev.path)]
       [] ev.type = "callFramePopped" ->
            [x EXCEPT !.liveFrames = IF @ = << >> THEN @ ELSE Front(@)]
       [] ev.type = "actionIntent" ->
            [x EXCEPT !.intentPath = (ev.call :> ev.path) @@ @]
       [] ev.type = "actionSettled" ->
            [x EXCEPT !.settled = (key :> ev.outcome) @@ @,
                      !.raw = IF ev.outcome = "succeeded" THEN @ \union {key} ELSE @]
       [] ev.type = "verdictRecorded" ->
            [x EXCEPT !.ruled = (key :> ev.verdict) @@ @]
       [] ev.type = "handlerTriggered" ->
            [x EXCEPT !.triggers = (<< key, ev.hook >> :> ev.n) @@ @]
       [] OTHER -> x

Harvest(history) ==
  FoldLeftDomain(LAMBDA x, n : HarvestOne(x, history[n], n), NoFacts, history)

(* The open frames of handler-launched calls, and those of call steps.     *)
LiveHookFrames(facts) == { p \in Range(facts.liveFrames) : UnderHook(p) }
LivePins(facts) ==
  LET calls == { p \in Range(facts.liveFrames) : Last(p).k = "call" }
  IN  [k \in { Key(p) : p \in calls } |->
         Last(CHOOSE p \in calls : Key(p) = k).h]

-----------------------------------------------------------------------------
(* The walk of the new flow, containers before what is inside them.        *)

(* call_head_unchanged: with the archived pin put back, the digest agrees. *)
HeadUnchanged(call, pin, eff) ==
  EffectHash([call EXCEPT !.ref.hash = pin]) = eff

(* drillable: the frame is still open and its head unchanged.              *)
Drillable(call, key, facts) ==
  /\ key \in DOMAIN LivePins(facts)
  /\ key \in DOMAIN facts.enteredEff
  /\ HeadUnchanged(call, LivePins(facts)[key], facts.enteredEff[key])
  /\ TryCallee(call.ref) # NoStep

(* Whether the archive vouches for the decision of a container.            *)
Vouched(step, path, facts, done) ==
  LET key == Key(path)
  IN  CASE step.kind = "call" -> Drillable(step, key, facts)
        [] step.kind \in {"if", "foreach"} ->
             /\ key \in DOMAIN done
             /\ done[key].resolved.eff = EffectHash(step)
             /\ done[key].resolved.inputs \in
                  IF step.kind = "if" THEN BOOLEAN ELSE Nat
        [] OTHER -> FALSE

(* The bodies below a vouched container: the branch that was taken, one    *)
(* body per archived round, the callee.                                    *)
BodiesBelow(step, path, done) ==
  CASE step.kind = "call" -> << << path, TryCallee(step.ref).body >> >>
    [] step.kind = "if"   ->
         << << path, IF done[Key(path)].resolved.inputs THEN step.then ELSE step.else >> >>
    [] step.kind = "foreach" ->
         [r \in 1 .. done[Key(path)].resolved.inputs |->
            << Round(path, r), step.body >>]

RECURSIVE Flatten(_, _, _, _)
Flatten(prefix, body, facts, done) ==
  LET NodeAndBelow(step) ==
        LET path  == Under(prefix, step)
            into  == Vouched(step, path, facts, done)
            below == IF into THEN BodiesBelow(step, path, done) ELSE << >>
        IN  << [path |-> path, key |-> Key(path), step |-> step, into |-> into] >>
            \o FlattenSeq([r \in DOMAIN below |->
                             Flatten(below[r][1], below[r][2], facts, done)])
  IN  FlattenSeq([i \in DOMAIN body |-> NodeAndBelow(body[i])])

(* order_inversion: the first recorded node entered no later than one      *)
(* before it; past the end when the old order is the new one.              *)
Inversion(nodes, facts, done) ==
  LET seen == { i \in DOMAIN nodes : nodes[i].key \in DOMAIN done \intersect
                                                      DOMAIN facts.enteredSeq }
      seq(i) == facts.enteredSeq[nodes[i].key]
      bad  == { i \in seen : \E j \in seen : j < i /\ seq(i) <= seq(j) }
  IN  IF bad = { } THEN Len(nodes) + 1 ELSE Min(bad)

-----------------------------------------------------------------------------
(* Classification.                                                         *)

(* preflight_only_change: the old flow proves that the judge domain moved  *)
(* in its preflight alone.                                                 *)
PreflightOnly(old, record, step) ==
  /\ old # NoFlow
  /\ LET was == Resolve(old, record.path, FALSE)
     IN  /\ was # NoStep
         /\ was.kind = step.kind
         /\ JudgeHash(was) = record.resolved.jdg
         /\ JudgeSansPreflight(was) = JudgeSansPreflight(step)

InRound(path) == \E i \in DOMAIN path : path[i].k = "iter"

ClassOf(step, record, beyond, forced) ==
  IF beyond \/ step.id \in forced \/ record.resolved.eff # EffectHash(step)
    THEN "effectDirty"
  ELSE IF record.resolved.jdg # JudgeHash(step) THEN "judgeDirty"
  ELSE "reusable"

(* rejudge: without archived output or without assertions, unknown.        *)
Rejudged(step, key, facts, opts) ==
  IF key \notin facts.raw \/ ~step.asserts THEN "unknown" ELSE opts.rejudge

(* What one node does: adopt its record, re-judge it, or be dirty.         *)
Disposition(node, record, class, opts) ==
  CASE class = "reusable"    -> "adopt"
    [] class = "effectDirty" -> "dirty"
    [] PreflightOnly(opts.old, record, node.step) -> "adopt"
    [] InRound(node.path) \/ node.step.kind = "assert" -> "dirty"
    [] node.step.kind = "action" -> "rejudge"
    [] OTHER -> "adopt"

(* adopt: a re-judged verdict replaces the one the record has, if any.     *)
AdoptRecord(a, key, record, verdict) ==
  [a EXCEPT !.adopt = (key :> [record EXCEPT !.verdict =
                         IF verdict = NoVerdict \/ @ = NoVerdict THEN @ ELSE verdict])
                      @@ @]
Dirty(a, i) == [a EXCEPT !.dirty = IF @ = 0 THEN i ELSE @]
Classed(a, key, class) == [a EXCEPT !.classes = (key :> class) @@ @]

(* Mutant of AlignNode: records behind the resume point are adopted too.   *)
AlignNodeAnyPlace(a, i, nodes, facts, done, from, opts) ==
  LET node   == nodes[i]
      record == done[node.key]
  IN  IF node.key \notin DOMAIN done THEN Dirty(Classed(a, node.key, "new"), i)
      ELSE IF ClassOf(node.step, record, i >= from, opts.forced) = "reusable"
      THEN AdoptRecord(Classed(a, node.key, "reusable"), node.key, record, NoVerdict)
      ELSE Dirty(Classed(a, node.key, "effectDirty"), i)

AlignNode(a, i, nodes, facts, done, from, opts) ==
  LET node    == nodes[i]
      key     == node.key
      record  == done[key]
      class   == ClassOf(node.step, record, i >= from, opts.forced)
      verdict == Rejudged(node.step, key, facts, opts)
      again   == [Classed(a, key, class) EXCEPT
                    !.rejudged = Append(@, [path |-> record.path, verdict |-> verdict])]
      how     == Disposition(node, record, class, opts)
  IN  CASE node.step.kind = "call" /\ key \in DOMAIN LivePins(facts) ->
             IF node.into THEN Classed(a, key, "effectDirty")
             ELSE [Dirty(Classed(a, key, "effectDirty"), i) EXCEPT !.teardown = key]
        [] key \notin DOMAIN done -> Dirty(Classed(a, key, "new"), i)
        [] class # "effectDirty" /\ a.dirty # 0 -> Classed(a, key, class)
        [] how = "adopt" -> AdoptRecord(Classed(a, key, class), key, record, NoVerdict)
        [] how = "dirty" -> Dirty(Classed(a, key, "effectDirty"), i)
        [] verdict = "fail" -> Dirty(again, i)
        [] OTHER -> AdoptRecord(again, key, record, verdict)

Classify(nodes, facts, done, opts) ==
  LET from == Inversion(nodes, facts, done)
  IN  FoldLeftDomain(
        LAMBDA a, i : AlignNode(a, i, nodes, facts, done, from, opts),
        [ adopt |-> << >>, classes |-> << >>, rejudged |-> << >>,
          dirty |-> 0, teardown |-> NoKey ],
        nodes)

(* Mutant of WholeSubtrees: an adopted container stays adopted.            *)
WholeSubtreesUnchecked(adopt, nodes) == adopt
(* A container is adopted only with everything inside it; an un-adopted    *)
(* inner container un-adopts the outer one.                                *)
WholeSubtrees(adopt, nodes) ==
  LET intact(k) == \A n \in Range(nodes) : Inside(k, n.key) => n.key \in DOMAIN adopt
      container(k) == \E n \in Range(nodes) : n.key = k /\ n.step.kind \in {"if", "foreach"}
  IN  [k \in { x \in DOMAIN adopt : container(x) => intact(x) } |-> adopt[k]]

(* Records the new flow no longer reaches.  Inside a call that was not     *)
(* entered, and under a handler, a record is archived without a word.      *)
Orphans(nodes, done) ==
  LET keys == { n.key : n \in Range(nodes) }
      into == { n.key : n \in { m \in Range(nodes) : m.into } }
      silent(path) ==
        \/ UnderHook(path)
        \/ \E i \in 1 .. Len(path) - 1 :
             path[i].k = "call" /\ Key(SubSeq(path, 1, i)) \notin into
  IN  { k \in DOMAIN done \ keys : ~silent(done[k].path) }

(* The resume point: the first dirty node, else the root cursor.           *)
ResumeIndex(a, nodes, view) ==
  LET roots  == SelectSeq([i \in DOMAIN nodes |-> i],
                          LAMBDA i : Len(nodes[i].path) = 2)
      cursor == view.frames[1].next + 1
  IN  IF a.dirty # 0 THEN a.dirty
      ELSE IF cursor \in DOMAIN roots THEN roots[cursor] ELSE Len(nodes) + 1

-----------------------------------------------------------------------------
(* The confirmation gate.                                                  *)

GatedAction(step) == step.kind = "action" /\ step.mutating

RECURSIVE BodyMutates(_)
BodyMutates(body) ==
  \E i \in DOMAIN body :
    LET s == body[i]
    IN  \/ GatedAction(s)
        \/ \E b \in ChildBodies(s) : BodyMutates(b)
        \/ s.kind = "call" /\ TryCallee(s.ref) = NoStep
        \/ s.kind = "call" /\ BodyMutates(TryCallee(s.ref).body)

(* Mutant of GatedEffect: a container never answers for its body.          *)
GatedEffectOwn(step, into) == GatedAction(step)
(* gated_effect: a container answers for its body when the walk stopped    *)
(* at it.                                                                  *)
GatedEffect(step, into) ==
  \/ GatedAction(step)
  \/ step.kind \in {"if", "foreach", "call"} /\ ~into /\ BodyMutates(<< step >>)

EffectBelow(key, done) ==
  \E k \in DOMAIN done :
    Inside(key, k) /\ ~UnderHook(done[k].path) /\ HasEffect(done[k])

Gated(node, done, teardown) ==
  IF node.key = teardown
  THEN GatedEffect(node.step, FALSE) /\ EffectBelow(node.key, done)
  ELSE /\ node.key \in DOMAIN done
       /\ GatedEffect(node.step, node.into)
       /\ \/ HasEffect(done[node.key])
          \/ /\ node.step.kind \in {"if", "foreach", "call"}
             /\ EffectBelow(node.key, done)

(* A live frame neither entered nor torn down is refused.                  *)
Stranded(nodes, facts, teardown) ==
  \E p \in Range(facts.liveFrames) :
    /\ ~UnderHook(p)
    /\ Key(p) # teardown
    /\ ~ \E n \in Range(nodes) : n.key = Key(p) /\ n.into

(* align: the report, the adoption set, the re-judgements, the frame to    *)
(* tear down, or a refusal.                                                *)
Report(nodes, done, a, resume, facts, opts) ==
  LET gated == { nodes[i].step.id : i \in { j \in resume .. Len(nodes) :
                   /\ Gated(nodes[j], done, a.teardown)
                   /\ nodes[j].step.id \notin opts.authorized } }
  IN  [ refused  |-> IF Stranded(nodes, facts, a.teardown) THEN "stranded"
                     ELSE IF gated # { } THEN "requiresConfirmation" ELSE "no",
        gated    |-> gated,
        resume   |-> IF resume <= Len(nodes) THEN nodes[resume].key ELSE NoKey,
        classes  |-> a.classes,
        orphans  |-> Orphans(nodes, done),
        adopt    |-> WholeSubtrees(a.adopt, nodes),
        rejudged |-> a.rejudged,
        teardown |-> a.teardown ]

Align(flow, view, facts, opts) ==
  LET Over(done) ==
        LET nodes == Flatten(<< FlowFrame(flow.flow, flow.hash) >>, flow.body, facts, done)
            Reported(a) == Report(nodes, done, a, ResumeIndex(a, nodes, view), facts, opts)
        IN  Reported(Classify(nodes, facts, done, opts))
  IN  Over(RecordsByInstance(view))
=============================================================================
