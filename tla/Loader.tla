-------------------------------- MODULE Loader --------------------------------
(***************************************************************************)
(* The load checks of the runner (crates/pointlock-runner/src/load.rs).    *)
(*                                                                         *)
(* A sealed flow is [flow, hash, subflows, handlers, body]; a reference to *)
(* one is [flow, hash]; a registry is the set of flows it may resolve to.  *)
(* A step has its kind, handlers, ref (of a call), human (of a human step) *)
(* and the bodies of the containers.  A hash is its content, so the checks *)
(* that compare stored hashes with recomputed ones pass and are left out.  *)
(***************************************************************************)
EXTENDS Integers, Sequences, FiniteSets

CONSTANTS
  NoStep,       \* what a reference or a path that resolves to nothing yields
  MaxCallDepth  \* MAX_CALL_DEPTH: flows on a static call chain, the root included

(* LoadedFlow::try_callee: by content alone.                               *)
CalleeIn(registry, ref) ==
  IF \E f \in registry : f.hash = ref.hash
  THEN CHOOSE f \in registry : f.hash = ref.hash
  ELSE NoStep

(* child_bodies                                                            *)
ChildBodies(step) ==
  CASE step.kind = "if"      -> {step.then, step.else}
    [] step.kind = "foreach" -> {step.body}
    [] OTHER                 -> { }

HumanLoads(human) ==
  CASE human.mode = "confirm" -> human.decisions # NoStep /\ Len(human.decisions) = 2
    [] human.mode = "judge"   -> human.decisions # NoStep =>
                                   \A i \in DOMAIN human.decisions :
                                     human.decisions[i] \in {"pass", "fail", "unknown"}
    [] OTHER                  -> TRUE

(* Nothing invokes a call or a person a second time.                       *)
Reinvokes(step) ==
  /\ step.kind \in {"call", "human"}
  /\ \E i \in DOMAIN step.handlers :
       /\ step.handlers[i].action \in {"retry", "repair"}
       /\ step.handlers[i].hook # "onResumeDrift"

(* check_handlers: a person on a hook judges, a repair target is pinned    *)
(* and present; what is inside it is not looked at.                        *)
HandlersLoad(registry, flow, bindings) ==
  \A i \in DOMAIN bindings :
    /\ bindings[i].action = "repair" =>
         bindings[i].ref \in flow.subflows /\ CalleeIn(registry, bindings[i].ref) # NoStep
    /\ bindings[i].action = "escalate" =>
         bindings[i].human.mode # "provideInput" /\ HumanLoads(bindings[i].human)

RECURSIVE BodyLoads(_, _, _, _)
FlowLoads(registry, flow, depth) ==
  /\ depth <= MaxCallDepth
  /\ HandlersLoad(registry, flow, flow.handlers)
  /\ BodyLoads(registry, flow, flow.body, depth)

BodyLoads(registry, flow, body, depth) ==
  \A i \in DOMAIN body :
    LET s == body[i]
    IN  /\ HandlersLoad(registry, flow, s.handlers)
        /\ ~Reinvokes(s)
        /\ s.kind = "human" => HumanLoads(s.human)
        /\ \A b \in ChildBodies(s) : BodyLoads(registry, flow, b, depth)
        /\ s.kind = "call" =>
             LET callee == CalleeIn(registry, s.ref)
             IN  /\ s.ref \in flow.subflows
                 /\ callee # NoStep
                 /\ callee.flow = s.ref.flow
                 /\ FlowLoads(registry, callee, depth + 1)

LoadsFrom(registry, flow) == FlowLoads(registry, flow, 1)
=============================================================================
