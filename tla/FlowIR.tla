-------------------------------- MODULE FlowIR --------------------------------
(***************************************************************************)
(* The shape of a sealed flow as the runner reads it: steps, bodies, the   *)
(* two content hashes of a step (crates/pointlock-ir/src/hash.rs), the     *)
(* instance key that identifies a step across versions of a flow           *)
(* (runner/engine.rs).                                                     *)
(*                                                                         *)
(* A flow is as in Loader; a step                                          *)
(*   [id, kind, eff, jdg, pf, vals, mutating, asserts, handlers,           *)
(*    then, else, body, ref]                                               *)
(* eff stands for the fields of the effect domain the kind has besides     *)
(* those named in EffectHash, jdg for the judge domain without preflight,  *)
(* pf for the declared preflight (NoProbe when there is none), vals for    *)
(* the values its ready-phase evaluation may yield.  A hash is its domain: *)
(* SHA-256 over the canonical form is taken to be injective, so stored and *)
(* recomputed hashes agree and the load checks that compare them pass.     *)
(***************************************************************************)
EXTENDS CheckpointFold, Loader

CONSTANTS
  Flows,        \* the registry: the flows a call may pin
  NoProbe       \* the step declares no preflight

(* LoadedFlow::callee                                                      *)
TryCallee(ref) == CalleeIn(Flows, ref)

-----------------------------------------------------------------------------
(* Content hashes.                                                         *)

(* Containers hash without their subtrees; a call's domain holds the pin.  *)
EffectHash(step) ==
  CASE step.kind = "assert" -> << "assert" >>
    [] step.kind = "call"   -> << "call", step.ref, step.eff >>
    [] OTHER                -> << step.kind, step.eff >>

JudgeSansPreflight(step) ==
  IF step.kind \in {"action", "assert"} THEN << step.kind, step.jdg >>
                                        ELSE << step.kind >>
JudgeHash(step) == Append(JudgeSansPreflight(step), step.pf)

-----------------------------------------------------------------------------
(* Paths and instances.                                                    *)

FrameOf(kind, id, hash) == [k |-> kind, id |-> id, h |-> hash]

(* The frame a step contributes below its parent prefix.                   *)
ChildFrame(step) ==
  IF step.kind = "call" THEN FrameOf("call", step.id, step.ref.hash)
                        ELSE FrameOf("step", step.id, NoHash)
Under(prefix, step) == Append(prefix, ChildFrame(step))
Round(path, r) == Append(path, FrameOf("iter", r, NoHash))

(* instance_key: flow frames and hashes are dropped, a step and a call of  *)
(* the same id render alike, so do the calls handlers launch.              *)
KeySegment(f) ==
  CASE f.k \in {"step", "call"} -> << "at", f.id >>
    [] OTHER                    -> << f.k, f.id >>
Key(path) ==
  LET inner == SelectSeq(path, LAMBDA f : f.k # "flow")
  IN  [i \in DOMAIN inner |-> KeySegment(inner[i])]

(* is_instance_descendant                                                  *)
Inside(outer, inner) == IsStrictPrefix(outer, inner)

UnderHook(path) == \E i \in DOMAIN path : path[i].k = "hook"

StepIn(bodies, id) ==
  LET found == { s \in UNION { Range(b) : b \in bodies } : s.id = id }
  IN  IF found = { } THEN NoStep ELSE CHOOSE s \in found : TRUE

(* resolve_step, and old_step_at, which does not enter callees.            *)
Resolve(flow, path, intoCalls) ==
  LET Enter(at, f) ==
        IF ~at.ok \/ f.k \in {"flow", "iter"} THEN at
        ELSE LET s == StepIn(at.bodies, f.id)
             IN  IF \/ f.k = "hook" \/ s = NoStep
                    \/ f.k = "call" /\ ~(intoCalls /\ s.kind = "call")
                 THEN [ok |-> FALSE, bodies |-> { }, step |-> NoStep]
                 ELSE [ ok     |-> TRUE,
                        bodies |-> IF f.k = "call" THEN {TryCallee(s.ref).body}
                                                   ELSE ChildBodies(s),
                        step   |-> s ]
  IN  FoldLeft(Enter, [ok |-> TRUE, bodies |-> {flow.body}, step |-> NoStep],
               path).step

ResolveAction(flow, path) ==
  LET s == Resolve(flow, path, TRUE)
  IN  IF s # NoStep /\ s.kind = "action" THEN s ELSE NoStep

Loads(flow) == LoadsFrom(Flows, flow)
=============================================================================
