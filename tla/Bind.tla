--------------------------------- MODULE Bind ---------------------------------
(***************************************************************************)
(* Binding a checked flow to a capability set (crates/pointlock-compiler/  *)
(* src/bind.rs) against DeviceRail's manifest (provider-devicerail/src/    *)
(* manifest.rs): which actions and channels carry each step, and which     *)
(* features that needs.                                                    *)
(*                                                                         *)
(* `lock` is a lockfile, or None when compiling against the manifest       *)
(* alone.  Every feature collected is also checked to be available, so     *)
(* the needs of an accepted flow are within Available.                     *)
(*                                                                         *)
(* Abstracted: argument schemas beyond the names they require and accept,  *)
(* secret fields of a provided input, reports.                             *)
(***************************************************************************)
EXTENDS NormalForm, Lockfile

Protocol == 5   \* the minor of the manifest's window, 1.5 to 1.5

SemanticAction ==
  [ tap |-> "tapElement", set_value |-> "setElementValue", clear |-> "clearElement",
    wait_for |-> "waitForElement", find |-> "findElement" ]
SemanticActions == Range(SemanticAction)
SyntheticActions == ObserveHeads

ActRole == {"uiTree", "dom", "coordinate"}
VerifyRole == {"uiTree", "dom", "vision"}
ActOrder == << "dom", "uiTree", "coordinate" >>
VerifyOrder == << "dom", "uiTree", "vision" >>

ChannelNeeds(channel) ==
  CASE channel = "uiTree" -> {UiSnapshot}
    [] channel = "dom"    -> {Semantic}
    [] OTHER              -> { }
ActionNeeds(action) == IF action \in SemanticActions THEN {Semantic} ELSE { }

(* The argument names an action's schema requires; driver actions outside  *)
(* the manifest take anything.                                             *)
RequiredArgs(action) ==
  CASE action \in {"tapElement", "clearElement"}     -> {"target"}
    [] action = "setElementValue"                    -> {"target", "value"}
    [] action \in {"waitForElement", "findElement"}  -> {"selector"}
    [] action = "observe"                            -> {"wants"}
    [] OTHER                                         -> { }
ArgsFit(action, args) ==
  /\ RequiredArgs(action) \subseteq args
  /\ action \in SemanticActions \union SyntheticActions =>
       args \subseteq RequiredArgs(action)
                        \union (IF action = "waitForElement" THEN {"condition"} ELSE { })

-----------------------------------------------------------------------------
Available(lock) == IF lock = None THEN { } ELSE lock.features
Actions(lock) == SyntheticActions \union (IF lock = None THEN SemanticActions ELSE lock.actions)
Protected(lock) == IF lock = None THEN { } ELSE lock.protected

DefaultChannel(lock) == IF lock # None /\ lock.platform = "web" THEN "dom" ELSE "uiTree"
ChainOr(via, lock) == IF via = None THEN << DefaultChannel(lock) >> ELSE via

(* A chain names channels of its order, each at most once and in order.    *)
ChainOrdered(chain, order) ==
  /\ Range(chain) \subseteq Range(order)
  /\ \A i, j \in DOMAIN chain :
       i < j => \E m, n \in DOMAIN order : m < n /\ order[m] = chain[i] /\ order[n] = chain[j]

Supports(sel, channel) ==
  CASE channel = "dom"    -> "css" \in sel
    [] channel = "uiTree" -> sel \intersect {"role", "name", "identifier", "text"} # { }
    [] OTHER              -> TRUE

AttemptGood(action, args, lock) ==
  action \in Actions(lock) \ Protected(lock) /\ ArgsFit(action, args)

-----------------------------------------------------------------------------
(* Actions.                                                                *)
GivenArgs(s) ==
  CASE s.action = "observe" /\ s.head = "observe" -> {"wants"}
    [] OTHER -> { s.named[i].name : i \in DOMAIN s.named }
InvokeGood(s, lock) == AttemptGood(s.action, GivenArgs(s), lock)
InvokeNeeds(s, lock) == ChannelNeeds(DefaultChannel(lock)) \union ActionNeeds(s.action)

(* Only tap has a coordinate form, and it is the driver's own action.      *)
VerbAttemptGood(s, channel, lock) ==
  IF channel = "coordinate"
  THEN s.action = "tap" /\ AttemptGood("tap", {"x", "y"}, lock)
  ELSE LET action == SemanticAction[s.action]
       IN  Supports(s.sel, channel) /\ AttemptGood(action, RequiredArgs(action), lock)
VerbGood(s, lock) ==
  LET chain == ChainOr(s.via, lock)
  IN  /\ ChainOrdered(chain, ActOrder)
      /\ s.coordinate <=> "coordinate" \in Range(chain)
      /\ \A channel \in Range(chain) : VerbAttemptGood(s, channel, lock)
VerbNeeds(s, lock) ==
  UNION { ChannelNeeds(channel)
            \union (IF channel = "coordinate" THEN { } ELSE ActionNeeds(SemanticAction[s.action]))
          : channel \in Range(ChainOr(s.via, lock)) }

(* A verb knows its effect, an invoke must say it.                         *)
ActionGood(s, lock) ==
  s.effect # None /\ (IF s.head = "verb" THEN VerbGood(s, lock) ELSE InvokeGood(s, lock))

-----------------------------------------------------------------------------
(* Assertions.                                                             *)
VerifyChain(a, lock) ==
  CASE a.kind = "expr"   -> << >>
    [] a.kind = "visual" -> << "vision" >>
    [] OTHER             -> ChainOr(a.via, lock)
AssertionGood(a, lock) ==
  CASE a.kind = "expr"   -> TRUE
    [] a.kind = "visual" -> a.via \in {None, << "vision" >>}
    [] OTHER ->
         LET chain == VerifyChain(a, lock)
         IN  /\ ChainOrdered(chain, VerifyOrder)
             /\ a.prompt <=> "vision" \in Range(chain)
             /\ \A channel \in Range(chain) : Supports(a.sel, channel)
AssertionsNeed(as, lock) ==
  UNION { ChannelNeeds(channel) : channel \in UNION { Range(VerifyChain(a, lock)) : a \in as } }

(* Vision alone does not judge, unless a person judges after it.           *)
VisualAlone(s) ==
  /\ s.expect # << >>
  /\ \A a \in Range(s.expect) : a.kind = "visual"
  /\ \A h \in Range(s.handlers) : ~ (h.action = "escalate" /\ h.human.mode = "judge")

-----------------------------------------------------------------------------
StepBinds(s, lock) ==
  /\ \A a \in Range(s.pre) \union Range(s.expect) : AssertionGood(a, lock)
  /\ ~VisualAlone(s)
  /\ s.kind = "action" => ActionGood(s, lock)
StepNeeds(s, lock) ==
  AssertionsNeed(Range(s.pre) \union Range(s.expect), lock)
    \union (CASE s.kind # "action" -> { }
              [] s.head = "verb"   -> VerbNeeds(s, lock)
              [] OTHER             -> InvokeNeeds(s, lock))

(* The daemon offers semantic actions only together with ui snapshots.     *)
Bundled(needs) == needs \union (IF Semantic \in needs THEN {UiSnapshot} ELSE { })

(* Mutant of BindNeeds: recording the verdict is not counted.              *)
BindNeedsStepsOnly(flow, lock) ==
  Bundled(UNION { StepNeeds(s, lock) : s \in AllSteps(flow.steps) })

(* Every flow records its verdict.                                         *)
BindNeeds(flow, lock) ==
  Bundled({VerdictRecord} \union UNION { StepNeeds(s, lock) : s \in AllSteps(flow.steps) })

LockGood(lock) ==
  lock # None => /\ lock.provider = ProviderName
                 /\ DigestConsistent(lock)
                 /\ lock.protocol = Protocol

BindGood(flow, lock) ==
  /\ LockGood(lock)
  /\ \A s \in AllSteps(flow.steps) : StepBinds(s, lock)
  /\ BindNeeds(flow, lock) \subseteq Available(lock)
=============================================================================
