--------------------------------- MODULE Check ---------------------------------
(***************************************************************************)
(* The check phase (crates/pointlock-compiler/src/check.rs): ids are       *)
(* unique, every reference looks at something declared and topologically   *)
(* earlier, calls keep their callee's contract.                            *)
(*                                                                         *)
(* Checking a step list threads [ok, earlier, vars]; iteration names, the  *)
(* declared params, all ids and the invokes without a schema are fixed     *)
(* around it (cx).  A pin is what the linker returned for a link.          *)
(*                                                                         *)
(* Abstracted: expression syntax, arities and types, literals against the  *)
(* schemas they are passed to, and warnings.                               *)
(***************************************************************************)
EXTENDS Normalize

Each(f(_), s) == [i \in DOMAIN s |-> f(s[i])]

(* The synthesized id of an escalation: one per host and hook.             *)
EscalateIds(host, handlers) ==
  LET es == SelectSeq(handlers, LAMBDA h : h.action = "escalate")
  IN  Each(LAMBDA h : host \o << h.hook, "escalate" >>, es)

RECURSIVE StepIds(_)
StepIds(steps) ==
  FoldLeft(LAMBDA acc, s : acc \o << s.id >> \o EscalateIds(s.id, s.handlers)
                               \o StepIds(s.then) \o StepIds(s.else) \o StepIds(s.body),
           << >>, steps)

AllIds(flow) == EscalateIds(<< "flow" >>, flow.handlers) \o StepIds(flow.steps)
IdsGood(flow) ==
  /\ IsInjective(AllIds(flow))
  /\ \A s \in AllSteps(flow.steps) : Len(s.id) > 1 => s.synth

UnnarrowedInvokes(flow) ==
  { s.id : s \in { t \in AllSteps(flow.steps) : t.head = "invoke" /\ ~t.narrowed } }

-----------------------------------------------------------------------------
(* References.                                                             *)

(* A deferred position (handlers, flow outputs) runs later, on whatever    *)
(* then exists; elsewhere only an assertion sees its own step, and only    *)
(* its output.                                                             *)
StepRefGood(id, field, position, self, earlier, cx) ==
  /\ id \in cx.unnarrowed => field # "field"
  /\ CASE position = "deferred" -> id \in cx.all
       [] position # "deferred" /\ id = self -> position = "assertion" /\ field # "verdict"
       [] OTHER -> id \in earlier

RefGood(r, position, self, earlier, vars, cx) ==
  CASE r[1] = "steps"  -> StepRefGood(<< r[2] >>, r[3], position, self, earlier, cx)
    [] r[1] = "params" -> r[2] \in cx.params
    [] r[1] = "vars"   -> r[2] \in vars
    [] r[1] = "iter"   -> r[2] \in cx.iters
    [] OTHER           -> FALSE

(* Assert ids are unique among the assertions of a step; an omitted one is *)
(* derived from the predicate.                                             *)
AssertKey(a) ==
  IF a.id = None THEN << "derived", a.kind, a.refs, a.sel, a.prompt >> ELSE << "given", a.id >>
AssertIdsGood(assertions) == IsInjective(Each(AssertKey, assertions))
RefsOf(assertions) == UNION { assertions[i].refs : i \in DOMAIN assertions }

CallGood(step, callee) ==
  LET given == { step.named[i].name : i \in DOMAIN step.named }
  IN  /\ \A p \in callee.params : p.required /\ ~p.default => p.name \in given
      /\ given \subseteq { p.name : p \in callee.params }

(* What a step may read where it stands, the steps inside it left aside.   *)
StepHereGood(s, at, cx, pins) ==
  LET Reads(refs, position, earlier) ==
        \A r \in refs : RefGood(r, position, s.id, earlier, at.vars, cx)
      humans == UNION { s.handlers[i].human.refs :
                        i \in { j \in DOMAIN s.handlers : s.handlers[j].action = "escalate" } }
      args == s.refs \union UNION { s.named[i].refs : i \in DOMAIN s.named }
                     \union (IF s.kind = "human" THEN s.human.refs ELSE { })
  IN  /\ Reads(humans, "deferred", { })
      /\ Reads(RefsOf(s.pre), "preflight", at.earlier)
      /\ s.kind = "let" \/ Reads(args, "args", at.earlier)
      /\ Reads(RefsOf(s.expect), "assertion", at.earlier)
      /\ AssertIdsGood(s.pre) /\ AssertIdsGood(s.expect)
      /\ s.kind = "call" => CallGood(s, pins[s.link])

(* Bindings are checked in document order, each one visible to the next;   *)
(* a name is bound once.                                                   *)
CheckLet(s, at, cx) ==
  LET Bind(acc, b) ==
        [ok   |-> /\ acc.ok /\ b.name \notin acc.vars
                  /\ \A r \in b.refs : RefGood(r, "args", s.id, at.earlier, acc.vars, cx),
         vars |-> acc.vars \union {b.name}]
  IN  FoldLeft(Bind, [ok |-> at.ok, vars |-> at.vars], s.named)

RECURSIVE CheckSteps(_, _, _, _)

(* Mutant of CheckBranches: the else branch starts where then ended.       *)
CheckBranchesThrough(s, at, cx, pins) ==
  CheckSteps(s.else, CheckSteps(s.then, at, cx, pins), cx, pins)

(* The branches of an if do not see each other; what follows sees both.    *)
CheckBranches(s, at, cx, pins) ==
  LET then == CheckSteps(s.then, at, cx, pins)
      else == CheckSteps(s.else, at, cx, pins)
  IN  [ ok      |-> then.ok /\ else.ok,
        earlier |-> then.earlier \union else.earlier,
        vars    |-> then.vars \union else.vars ]

CheckStep(s, at, cx, pins) ==
  LET here == [at EXCEPT !.ok = @ /\ StepHereGood(s, at, cx, pins)]
      inside ==
        CASE s.kind = "if" -> CheckBranches(s, here, cx, pins)
          [] s.kind = "foreach" ->
               CheckSteps(s.body, [here EXCEPT !.ok = @ /\ s.as \notin cx.iters],
                          [cx EXCEPT !.iters = @ \union {s.as}], pins)
          [] s.kind = "let" ->
               LET bound == CheckLet(s, here, cx)
               IN  [here EXCEPT !.ok = bound.ok, !.vars = bound.vars]
          [] OTHER -> here
  IN  [inside EXCEPT !.earlier = @ \union {s.id}]

CheckSteps(steps, at, cx, pins) ==
  FoldLeft(LAMBDA acc, s : CheckStep(s, acc, cx, pins), at, steps)

CheckGood(flow, pins) ==
  LET cx == [ all        |-> Range(AllIds(flow)),
              params     |-> { p.name : p \in flow.params },
              iters      |-> { },
              unnarrowed |-> UnnarrowedInvokes(flow) ]
      start == [ok |-> TRUE, earlier |-> { }, vars |-> { }]
      end == CheckSteps(flow.steps, start, cx, pins)
      escalations == SelectSeq(flow.handlers, LAMBDA h : h.action = "escalate")
  IN  /\ IdsGood(flow)
      /\ \A i \in DOMAIN escalations : \A r \in escalations[i].human.refs :
           RefGood(r, "deferred", None, { }, { }, cx)
      /\ end.ok
      /\ \A r \in flow.outputs : RefGood(r, "deferred", None, end.earlier, end.vars, cx)
=============================================================================
