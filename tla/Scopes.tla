-------------------------------- MODULE Scopes --------------------------------
(***************************************************************************)
(* What the expressions of an accepted flow find when it runs: the scope   *)
(* of a frame (runner/engine.rs, `FrameState::scope`) along one walk of    *)
(* its steps, all of them succeeding (exec_body and the exec_* of every    *)
(* kind), with lookups as in crates/pointlock-expr/src/scope.rs.           *)
(*                                                                         *)
(* A walk is a choice per container: for an if 0 (else), 1 (then) or 2     *)
(* (alternately, round by round); for a foreach its number of rounds.      *)
(* A frame is [outputs, verdicts, vars, iters, round, reads]; a read says  *)
(* who read what, and whether it was there.                                *)
(***************************************************************************)
EXTENDS Check

EmptyFrame(params) ==
  [ outputs |-> { }, verdicts |-> { }, params |-> params, vars |-> { }, iters |-> { },
    round |-> 1, reads |-> { }, rebinds |-> { } ]

(* Scope::resolve, with the step's own output in view or not.              *)
Resolves(r, frame, self) ==
  CASE r[1] = "steps"  -> IF r[3] = "verdict" THEN << r[2] >> \in frame.verdicts
                                              ELSE << r[2] >> \in frame.outputs \union self
    [] r[1] = "vars"   -> r[2] \in frame.vars
    [] r[1] = "iter"   -> r[2] \in frame.iters
    [] r[1] = "params" -> r[2] \in frame.params
    [] OTHER           -> FALSE

Read(frame, s, refs, self) ==
  [frame EXCEPT !.reads =
     @ \union { [by |-> s.id, ref |-> r, ok |-> Resolves(r, frame, self)] : r \in refs }]

(* The kinds that leave an output or a verdict in their frame.             *)
GivesOutput(s) == s.kind \in {"action", "call", "human"}
GivesVerdict(s) ==
  \/ s.kind \in {"call", "human", "assert"}
  \/ s.kind = "action" /\ s.expect # << >>
Publish(frame, s) ==
  [frame EXCEPT !.outputs = IF GivesOutput(s) THEN @ \union {s.id} ELSE @,
                !.verdicts = IF GivesVerdict(s) THEN @ \union {s.id} ELSE @]

ArgsOf(s) ==
  s.refs \union UNION { s.named[i].refs : i \in DOMAIN s.named }
         \union (IF s.kind = "human" THEN s.human.refs ELSE { })

(* The bindings of a let are evaluated in the scope it found, then bound;  *)
(* binding a name again fails the step.                                    *)
WalkLet(frame, s) ==
  LET names == { s.named[i].name : i \in DOMAIN s.named }
  IN  [frame EXCEPT !.vars = @ \union names, !.rebinds = @ \union (names \intersect frame.vars)]

RECURSIVE Walk(_, _, _), Rounds(_, _, _, _)
WalkStep(frame, s, choice) ==
  LET probed == Read(frame, s, RefsOf(s.pre), { })
      ready == Read(probed, s, ArgsOf(s), { })
      judged == Read(ready, s, RefsOf(s.expect), IF s.kind = "action" THEN {s.id} ELSE { })
      Taken == choice[s.id] = 1 \/ (choice[s.id] = 2 /\ frame.round = 1)
      Branch == IF Taken THEN s.then ELSE s.else
  IN  CASE s.kind = "if"      -> Walk(ready, Branch, choice)
        [] s.kind = "foreach" ->
             LET done == Rounds([ready EXCEPT !.iters = @ \union {s.as}], s, 1, choice)
             IN  [done EXCEPT !.iters = frame.iters, !.round = frame.round]
        [] s.kind = "let"     -> WalkLet(ready, s)
        [] OTHER              -> Publish(judged, s)

Walk(frame, steps, choice) ==
  FoldLeft(LAMBDA acc, s : WalkStep(acc, s, choice), frame, steps)

Rounds(frame, s, i, choice) ==
  IF i > choice[s.id] THEN frame
  ELSE Rounds(Walk([frame EXCEPT !.round = i], s.body, choice), s, i + 1, choice)

Containers(flow) == { s.id : s \in { t \in AllSteps(flow.steps) : t.kind \in {"if", "foreach"} } }
Walks(flow) ==
  { Walk(EmptyFrame({ p.name : p \in flow.params }), flow.steps, c)
    : c \in [Containers(flow) -> 0 .. 2] }

-----------------------------------------------------------------------------
(* Where a step stands: the lists from the flow's own down to its own.     *)
RECURSIVE Lists(_)
Lists(steps) ==
  {steps} \union UNION { LET s == steps[i]
                         IN  Lists(s.then) \union Lists(s.else) \union Lists(s.body)
                       : i \in DOMAIN steps }
Encloses(s, id) ==
  \E t \in {s} \union AllSteps(s.then) \union AllSteps(s.else) \union AllSteps(s.body) : t.id = id

(* The producer is passed on every way to the reader: it stands before the *)
(* reader, or before something around the reader, in the same list.        *)
Dominates(flow, id, reader) ==
  \E list \in Lists(flow.steps) : \E i, j \in DOMAIN list :
    i < j /\ list[i].id = id /\ Encloses(list[j], reader)

StepOf(flow, id) == CHOOSE s \in AllSteps(flow.steps) : s.id = id
Binders(flow, name) ==
  { s \in AllSteps(flow.steps) :
      s.kind = "let" /\ \E i \in DOMAIN s.named : s.named[i].name = name }

(* References that no walk satisfies although check accepts them: to what  *)
(* the kind of the step never produces, to a binding of the same let, and  *)
(* an assert step reading itself.                                          *)
NeverProduced(flow, read) ==
  \/ /\ read.ref[1] = "steps"
     /\ LET s == StepOf(flow, << read.ref[2] >>)
        IN  \/ read.ref[3] = "verdict" /\ ~GivesVerdict(s)
            \/ read.ref[3] # "verdict" /\ ~GivesOutput(s)
  \/ read.ref[1] = "vars" /\ \E s \in Binders(flow, read.ref[2]) : s.id = read.by
=============================================================================
