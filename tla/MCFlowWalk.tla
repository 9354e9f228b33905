------------------------------ MODULE MCFlowWalk ------------------------------
(***************************************************************************)
(* Small flows and edits of them for FlowWalk, one history per question.   *)
(***************************************************************************)
EXTENDS FlowWalkProps

CONSTANTS s1, s2, s3, f, g, m, w    \* step ids

Step(id, kind) ==
  [ id |-> id, kind |-> kind, eff |-> 1, jdg |-> 1, pf |-> NoProbe, vals |-> {1},
    mutating |-> FALSE, asserts |-> TRUE, handlers |-> << >>,
    then |-> << >>, else |-> << >>, body |-> << >>, ref |-> NoStep ]
Pay(id) == [Step(id, "action") EXCEPT !.mutating = TRUE]
Read(id) == [Step(id, "action") EXCEPT !.asserts = FALSE]
Blind(id) == [Pay(id) EXCEPT !.asserts = FALSE]
Let(id) == Step(id, "let")
Check(id) == Step(id, "assert")
IfStep(id, then, else) ==
  [Step(id, "if") EXCEPT !.vals = BOOLEAN, !.then = then, !.else = else]
Foreach(id, body) == [Step(id, "foreach") EXCEPT !.vals = {2}, !.body = body]
Call(id, callee) ==
  [Step(id, "call") EXCEPT !.ref = [flow |-> callee.flow, hash |-> callee.hash]]

Rejudge(step) == [step EXCEPT !.jdg = 2]
Change(step) == [step EXCEPT !.eff = 2]
Handled(step, hook, action, ref) ==
  [step EXCEPT !.handlers = << [hook |-> hook, action |-> action,
                                triggers |-> 1, ref |-> ref] >>]

Flow(hash, body) ==
  [flow |-> RootFlow, hash |-> hash, body |-> body, handlers |-> << >>,
   subflows |-> { [flow |-> "callee", hash |-> h] : h \in {"c1", "c2", "c3", "r1"} }]
Callee(hash, body) ==
  [flow |-> "callee", hash |-> hash, body |-> body, handlers |-> << >>, subflows |-> { }]
Ref(callee) == [flow |-> callee.flow, hash |-> callee.hash]

(* A payment that is judged differently, and one that changes places with  *)
(* a read.                                                                 *)
Judging == << Flow("e1", << Pay(s1) >>), Flow("e2", << Rejudge(Pay(s1)) >>) >>
Moving == << Flow("f1", << Blind(s1), Read(s2) >>), Flow("f2", << Read(s2), Blind(s1) >>) >>

(* A payment on one side of a branch; the check after it changes.          *)
Branching == << Flow("i1", << IfStep(f, << Pay(s1) >>, << Let(s2) >>), Check(s3) >>),
                Flow("i2", << IfStep(f, << Pay(s1) >>, << Let(s2) >>), Rejudge(Check(s3)) >>) >>

(* Two payments in a loop, both change.                                    *)
Looping == << Flow("l1", << Foreach(g, << Blind(s1) >>) >>),
              Flow("l2", << Foreach(g, << Change(Blind(s1)) >>) >>) >>

(* A call that may meet a gate: the callee's payment is judged differently,*)
(* or the arguments change as well; a failed payment may abort the run.    *)
Sub1 == Callee("c1", << Pay(s1) >>)
Sub2 == Callee("c2", << Rejudge(Pay(s1)) >>)
Sub3 == Callee("c3", << Handled(Pay(s1), "onFail", "abort", NoStep) >>)
Gate(call) == [call EXCEPT !.vals = {1, BadInputs}]
Calling == << Flow("m1", << Gate(Call(m, Sub1)) >>),
              Flow("m2", << Gate(Call(m, Sub2)) >>) >>
Rearguing == << Flow("m3", << Call(m, Sub3) >>),
                Flow("m4", << Change(Call(m, Sub2)) >>) >>

(* A call in each round of a loop.                                         *)
Recalling == << Flow("o1", << Foreach(g, << Call(m, Sub1) >>) >>),
                Flow("o2", << Foreach(g, << Call(m, Sub2) >>) >>) >>

(* A failed payment is repaired by a flow of its own; a drifted step too.  *)
Fix == Callee("r1", << Pay(w) >>)
Repairing == << Flow("h1", << Handled(Pay(s1), "onFail", "repair", Ref(Fix)) >>),
                Flow("h2", << Pay(s1) >>) >>
Drifting(action) ==
  << Flow("d1", << IfStep(f, << Handled([Pay(s1) EXCEPT !.pf = 1], "onResumeDrift",
                                        action, Ref(Fix)) >>, << >>) >>),
     Flow("d2", << IfStep(f, << >>, << >>) >>) >>

(* What the device does: a repair may be cancelled, a payment without      *)
(* assertions that could fail may fail.                                    *)
FatesOf(step) ==
  CASE step.id = w -> {"succeeded", "cancelled"}
    [] step = Blind(s1) -> {"succeeded", "failed"}
    [] OTHER -> {"succeeded"}

AllHistories ==
  {Judging, Moving, Branching, Looping, Calling, Rearguing, Recalling,
   Repairing}
  \union { Drifting(action) : action \in {"repair", "abort"} }
Callees == {Sub1, Sub2, Sub3, Fix}
=============================================================================
