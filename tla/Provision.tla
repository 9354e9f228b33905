------------------------------- MODULE Provision -------------------------------
(***************************************************************************)
(* The compiler's phases and the runner's loader in their places: the      *)
(* files of Capabilities hold documents (Normalize, Check), and what the   *)
(* linker has compiled is sealed (Seal), loaded (Loader) and read by an    *)
(* engine that runs it (Scopes).                                           *)
(***************************************************************************)
EXTENDS Capabilities, Check, Seal, Scopes, Loader

CONSTANT DocOf   \* File -> the document in it; its links are files

-----------------------------------------------------------------------------
(* What the phases make of a file, as the linker wants it.                 *)
Normalization == LET docs == DocOf IN [f \in DOMAIN docs |-> Normalized(docs[f])]
NormalForms == LET normal == Normalization IN normal
SoundFiles == LET normal == Normal IN { f \in DOMAIN normal : normal[f].ok }
LinksOf ==
  LET normal == Normal
  IN  [f \in DOMAIN normal |->
        Each(LAMBDA l : IF l \in DOMAIN normal THEN l ELSE NoFile, normal[f].links)]
DeclaredFlow ==
  LET normal == Normal
  IN  [f \in DOMAIN normal |-> IF normal[f].ok THEN normal[f].flow ELSE None]

(* A call sees the params its callee declares.                             *)
PinsByLink(f, pins) ==
  LET links == Normal[f].links
  IN  [l \in Range(links) |->
        LET pin == pins[CHOOSE i \in DOMAIN links : links[i] = l]
        IN  [ flow |-> pin.flow, hash |-> pin.hash, needs |-> pin.needs,
              params |-> Normal[pin.file].params ]]
Checked(f, pins) ==
  LET flow == Normal[f] IN CheckGood(flow, PinsByLink(f, pins))

(* The sealed flows of a compilation, and whether they load.               *)
IROf(c, lk) == SealFlow(Normal[c.file], PinsByLink(c.file, c.pins), c.hash, DigestOf(lk))
Loadable(flows, root, lk) == LoadsFrom({ IROf(c, lk) : c \in flows }, IROf(root, lk))

-----------------------------------------------------------------------------
(* What the compiler accepts although the runner refuses it: a call chain  *)
(* longer than the runner's bound, handlers that would invoke a call or a  *)
(* person again, requests to a person in a shape the runner has no verdict *)
(* for.                                                                    *)
CalleesOf(c) ==
  { d \in compiled :
      \E s \in AllSteps(Normal[c.file].steps) :
        s.kind = "call" /\ PinsByLink(c.file, c.pins)[s.link].hash = d.hash }
RECURSIVE ChainLength(_)
ChainLength(c) == 1 + Max({0} \union { ChainLength(d) : d \in CalleesOf(c) })

Unrunnable(human) == human.mode = "provideInput" \/ ~HumanLoads(human)
RunnersOwnRule(c) ==
  \/ \E h \in Range(Normal[c.file].handlers) : h.action = "escalate" /\ Unrunnable(h.human)
  \/ \E s \in AllSteps(Normal[c.file].steps) :
       \/ s.kind = "human" /\ ~HumanLoads(s.human)
       \/ \E h \in Range(s.handlers) :
            \/ h.action = "escalate" /\ Unrunnable(h.human)
            \/ /\ s.kind \in {"call", "human"} /\ h.action \in {"retry", "repair"}
               /\ h.hook # "on_resume_drift"
KnownGap == ChainLength(result.flow) > MaxCallDepth \/ \E c \in Closure : RunnersOwnRule(c)

(* A sealed flow loads with the closure compiled with it: every call and   *)
(* every repair finds, in its flow's table and in the registry, the flow   *)
(* it pins (seal.rs, load.rs); the gaps above are the only refusals.       *)
SealedFlowsLoad ==
  result.status = "sealed" => Loadable(compiled, result.flow, lock) \/ KnownGap

(* The reads of a flow that check accepted: one whose step stands before   *)
(* the reader on every way resolves on every walk, any other on some walk; *)
(* a name is bound twice only by a let inside a foreach.                   *)
ReadsResolve(flow) ==
  LET walks == Walks(flow)
      reads == UNION { w.reads : w \in walks }
      rebound == UNION { w.rebinds : w \in walks }
      loops == { s \in AllSteps(flow.steps) : s.kind = "foreach" }
  IN  /\ \A r \in reads : r.ok \/ NeverProduced(flow, r)
           \/ /\ [r EXCEPT !.ok = TRUE] \in reads
              /\ r.ref[1] = "steps" => ~Dominates(flow, << r.ref[2] >>, r.by)
      /\ \A v \in rebound : \E b \in Binders(flow, v) : \E s \in loops : Encloses(s, b.id)

(* What check.rs accepts as topologically earlier is there when the engine *)
(* evaluates it.                                                           *)
SealedReadsResolve ==
  result.status = "sealed" => \A c \in Closure : ReadsResolve(Normal[c.file])
=============================================================================
