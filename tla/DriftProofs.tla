------------------------------ MODULE DriftProofs ------------------------------
(***************************************************************************)
(* A flow whose session opened finds in it every capability it asks for:   *)
(* through binding, which counts what each step will ask; linking, where a *)
(* caller takes over what its callees need; loading, after which only the  *)
(* digest and the needs are kept; and the handshake, which compares the    *)
(* digest with what the daemon attests by then.                            *)
(***************************************************************************)
EXTENDS CapabilityProofs

(* The linker is given the phases of this module.  It has them as          *)
(* parameters, which the configurations give these values.                 *)
PhasesAsGiven ==
  \A f \in File : \A pins, lk :
    /\ Accepts(f, pins, lk) = PhasesAccept(f, pins, lk)
    /\ Needs(f, pins, lk) = PhasesNeed(f, pins, lk)

-----------------------------------------------------------------------------
(* Binding counts, step by step, what the engine will ask.                 *)
LEMMA VerbIsBound ==
  ASSUME NEW s, NEW lk, s.kind = "action", s.head = "verb", VerbGood(s, lk)
  PROVE  \A a \in ActionsAsked(s, lk) : a \in Actions(lk) /\ ActionNeeds(a) \subseteq VerbNeeds(s, lk)
PROOF
<1> DEFINE chain == Range(ChainOr(s.via, lk))
<1> DEFINE Act(channel) == IF channel = "coordinate" THEN "tap" ELSE SemanticAction[s.action]
<1>1. ActionsAsked(s, lk) = { Act(channel) : channel \in chain }
  BY DEF ActionsAsked
<1> SUFFICES ASSUME NEW channel \in chain
             PROVE  /\ Act(channel) \in Actions(lk)
                    /\ ActionNeeds(Act(channel)) \subseteq VerbNeeds(s, lk)
  BY <1>1
<1>2. VerbAttemptGood(s, channel, lk)
  BY DEF VerbGood
<1>3. Act(channel) \in Actions(lk)
  BY <1>2 DEF VerbAttemptGood, AttemptGood
<1>4. CASE channel = "coordinate"
  <2>1. "tap" \notin SemanticActions
    BY DEF SemanticActions, SemanticAction, Range
  <2> QED BY <1>3, <1>4, <2>1 DEF ActionNeeds
<1>5. CASE channel # "coordinate"
  BY <1>3, <1>5 DEF VerbNeeds
<1> QED BY <1>4, <1>5

(* A step of any kind: its attempts and its assertions.                    *)
LEMMA StepIsBound ==
  ASSUME NEW s, NEW lk, StepBinds(s, lk)
  PROVE  /\ \A a \in ActionsAsked(s, lk) :
              a \in Actions(lk) /\ ActionNeeds(a) \subseteq StepNeeds(s, lk)
         /\ TreesAsked(s, lk) => UiSnapshot \in StepNeeds(s, lk)
PROOF
<1>1. TreesAsked(s, lk) => UiSnapshot \in StepNeeds(s, lk)
  <2> DEFINE items == Range(s.pre) \union Range(s.expect)
  <2>1. AssertionsNeed(items, lk) \subseteq StepNeeds(s, lk)
    BY DEF StepNeeds
  <2>2. ChannelNeeds("uiTree") = {UiSnapshot}
    BY DEF ChannelNeeds
  <2> QED BY <2>1, <2>2 DEF TreesAsked, AssertionsNeed
<1>2. CASE s.kind # "action"
  <2>1. ActionsAsked(s, lk) = { }
    BY <1>2 DEF ActionsAsked
  <2> QED BY <1>1, <2>1
<1>3. CASE s.kind = "action" /\ s.head = "verb"
  <2>1. VerbNeeds(s, lk) \subseteq StepNeeds(s, lk)
    BY <1>3 DEF StepNeeds
  <2>2. VerbGood(s, lk)
    BY <1>3 DEF StepBinds, ActionGood
  <2> QED BY <1>1, <1>3, <2>1, <2>2, VerbIsBound
<1>4. CASE s.kind = "action" /\ s.head # "verb"
  <2>1. ActionsAsked(s, lk) = {s.action} /\ ActionNeeds(s.action) \subseteq StepNeeds(s, lk)
    BY <1>4 DEF ActionsAsked, StepNeeds, InvokeNeeds
  <2>2. s.action \in Actions(lk)
    BY <1>4 DEF StepBinds, ActionGood, InvokeGood, AttemptGood
  <2> QED BY <1>1, <2>1, <2>2
<1> QED BY <1>2, <1>3, <1>4

(* Of flows that are bound, and whose needs are within `needs`: what the   *)
(* engine asks of its session is there.                                    *)
LEMMA AsksAreBound ==
  ASSUME NEW flows, flows # { }, NEW lk, NEW needs,
         \A c \in flows : BindGood(Normal[c.file], lk) /\ BindNeeds(Normal[c.file], lk) \subseteq needs
  PROVE  /\ Asks(flows, lk).actions \subseteq Actions(lk)
         /\ Asks(flows, lk).features \subseteq needs
PROOF
<1> DEFINE steps == UNION { AllSteps(Normal[c.file].steps) : c \in flows }
<1> DEFINE actions == UNION { ActionsAsked(s, lk) : s \in steps }
<1>1. ASSUME NEW s \in steps
      PROVE  StepBinds(s, lk) /\ StepNeeds(s, lk) \subseteq needs
  <2>1. PICK c \in flows : s \in AllSteps(Normal[c.file].steps)
    OBVIOUS
  <2>2. BindGood(Normal[c.file], lk) /\ BindNeeds(Normal[c.file], lk) \subseteq needs
    BY <2>1
  <2>3. StepNeeds(s, lk) \subseteq BindNeeds(Normal[c.file], lk)
    BY <2>1 DEF BindNeeds, Bundled
  <2> QED BY <2>1, <2>2, <2>3 DEF BindGood
<1>2. VerdictRecord \in needs
  <2>1. \E c \in flows : VerdictRecord \in BindNeeds(Normal[c.file], lk)
    BY DEF BindNeeds, Bundled
  <2> QED BY <2>1
<1> HIDE DEF steps
<1>3. \A a \in actions : a \in Actions(lk) /\ ActionNeeds(a) \subseteq needs
  BY <1>1, StepIsBound
<1>4. \A s \in steps : TreesAsked(s, lk) => UiSnapshot \in needs
  BY <1>1, StepIsBound
<1> DEFINE semantics == UNION { ActionNeeds(a) : a \in actions }
<1> DEFINE trees == IF \E s \in steps : TreesAsked(s, lk) THEN {UiSnapshot} ELSE { }
<1>5. semantics \subseteq needs /\ trees \subseteq needs
  BY <1>3, <1>4
<1> HIDE DEF actions, semantics, trees
<1>6. Asks(flows, lk) = [actions |-> actions, features |-> {VerdictRecord} \union semantics \union trees]
  BY DEF Asks, actions, steps, semantics, trees
<1>7. Asks(flows, lk).features \subseteq needs
  BY <1>2, <1>5, <1>6
<1>8. Asks(flows, lk).actions \subseteq Actions(lk)
  BY <1>3, <1>6
<1> QED BY <1>7, <1>8

-----------------------------------------------------------------------------
(* What is compiled is needed by the flow in whose compilation it was, as  *)
(* long as no link failed; a link that failed fails the root.              *)
Doomed == \E i \in DOMAIN stack : \E j \in DOMAIN stack[i].pins : stack[i].pins[j] = NoPin
Kept(needs) ==
  \E i \in DOMAIN stack : \E j \in DOMAIN stack[i].pins : needs \subseteq stack[i].pins[j].needs

Bound(c) ==
  /\ c.file \in File
  /\ Accepts(c.file, c.pins, lock)
  /\ Needs(c.file, c.pins, lock) \subseteq c.needs

CoverInv ==
  /\ \A c \in compiled \union SealedRoot : Bound(c)
  /\ result.status = "linking" => Doomed \/ \A c \in compiled : Kept(c.needs)
  /\ result.status = "sealed" => \A c \in compiled : c.needs \subseteq result.flow.needs

(* Return keeps the pins that were there and adds one to the last frame.   *)
LEMMA ReturnPins ==
  ASSUME NEW frames, IsSequence(frames), frames # << >>, NEW pin,
         \A i \in DOMAIN frames : IsFrame(frames[i])
  PROVE  LET r == Return(frames, pin)
         IN  /\ \A i \in DOMAIN frames : \A j \in DOMAIN frames[i].pins :
                  i \in DOMAIN r /\ j \in DOMAIN r[i].pins /\ r[i].pins[j] = frames[i].pins[j]
             /\ \E i \in DOMAIN r : \E j \in DOMAIN r[i].pins : r[i].pins[j] = pin
PROOF
<1> DEFINE n == Len(frames)
<1> DEFINE r == Return(frames, pin)
<1>1. /\ n \in Nat \ {0} /\ DOMAIN frames = 1 .. n /\ IsFrame(frames[n])
  BY DEF IsSequence
<1>2. [frames[n] EXCEPT !.pins = Append(frames[n].pins, pin)]
        = [file |-> frames[n].file, pins |-> Append(frames[n].pins, pin)]
  BY <1>1, RepinIs
<1>3. r = [frames EXCEPT ![n] = [frames[n] EXCEPT !.pins = Append(frames[n].pins, pin)]]
  BY DEF Return
<1> HIDE DEF r
<1>4. DOMAIN r = DOMAIN frames /\ r[n].pins = Append(frames[n].pins, pin)
  BY <1>1, <1>2, <1>3
<1>5. \A i \in DOMAIN frames : i # n => r[i] = frames[i]
  BY <1>1, <1>3
<1>6. LET t == Append(frames[n].pins, pin)
      IN  /\ \A j \in DOMAIN frames[n].pins : j \in DOMAIN t /\ t[j] = frames[n].pins[j]
          /\ Len(t) \in DOMAIN t /\ t[Len(t)] = pin
  <2> DEFINE t == Append(frames[n].pins, pin)
  <2>1. /\ Len(frames[n].pins) \in Nat /\ Len(t) = Len(frames[n].pins) + 1
        /\ DOMAIN frames[n].pins = 1 .. Len(frames[n].pins) /\ DOMAIN t = 1 .. Len(t)
        /\ \A i \in DOMAIN frames[n].pins : t[i] = frames[n].pins[i]
        /\ t[Len(t)] = pin
    BY <1>1, AppendIs DEF IsFrame
  <2> HIDE DEF t
  <2>2. /\ \A j \in DOMAIN frames[n].pins : j \in DOMAIN t /\ t[j] = frames[n].pins[j]
        /\ Len(t) \in DOMAIN t /\ t[Len(t)] = pin
    BY <2>1
  <2> QED BY <2>2 DEF t
<1> HIDE DEF n
<1>7. /\ \A i \in DOMAIN frames : \A j \in DOMAIN frames[i].pins :
            i \in DOMAIN r /\ j \in DOMAIN r[i].pins /\ r[i].pins[j] = frames[i].pins[j]
      /\ \E i \in DOMAIN r : \E j \in DOMAIN r[i].pins : r[i].pins[j] = pin
  <2>1. ASSUME NEW i \in DOMAIN frames, NEW j \in DOMAIN frames[i].pins
        PROVE  i \in DOMAIN r /\ j \in DOMAIN r[i].pins /\ r[i].pins[j] = frames[i].pins[j]
    <3>1. CASE i = n
      BY <1>4, <1>6, <3>1
    <3>2. CASE i # n
      BY <1>4, <1>5, <3>2
    <3> QED BY <3>1, <3>2
  <2>2. n \in DOMAIN r /\ \E j \in DOMAIN r[n].pins : r[n].pins[j] = pin
    BY <1>1, <1>4, <1>6
  <2> QED BY <2>1, <2>2
<1> QED BY <1>7 DEF r

(* Of a chain of frames and the pin it returns: what was kept in it still  *)
(* is, what failed in it still has, and the pin is there.                  *)
LEMMA ReturnCovers ==
  ASSUME NEW frames, IsSequence(frames), frames # << >>, NEW pin,
         \A i \in DOMAIN frames : IsFrame(frames[i]),
         stack' = Return(frames, pin)
  PROVE  /\ \A needs : needs \subseteq pin.needs => Kept(needs)'
         /\ \A needs :
              (\E i \in DOMAIN frames : \E j \in DOMAIN frames[i].pins :
                 needs \subseteq frames[i].pins[j].needs) => Kept(needs)'
         /\ pin = NoPin => Doomed'
         /\ (\E i \in DOMAIN frames : \E j \in DOMAIN frames[i].pins : frames[i].pins[j] = NoPin)
              => Doomed'
PROOF
<1>1. /\ \A i \in DOMAIN frames : \A j \in DOMAIN frames[i].pins :
            i \in DOMAIN stack' /\ j \in DOMAIN stack'[i].pins
              /\ stack'[i].pins[j] = frames[i].pins[j]
      /\ \E i \in DOMAIN stack' : \E j \in DOMAIN stack'[i].pins : stack'[i].pins[j] = pin
  BY ReturnPins
<1> QED BY <1>1 DEF Kept, Doomed

(* The lockfile of a compilation does not change.                          *)
LEMMA BoundStays ==
  ASSUME NEW c, Bound(c), UNCHANGED lock
  PROVE  Bound(c)'
PROOF
  BY DEF Bound

(* A compilation that succeeds was accepted, and needs what it needs itself.*)
LEMMA SealedIsBound ==
  ASSUME ClosureInv, AtEnd, Succeeds(Top)
  PROVE  Bound(Sealed(Top))
PROOF
<1>1. Top.file \in File
  BY TopIs DEF ClosureInv, AtEnd, IsFrame
<1>2. /\ Sealed(Top).file = Top.file /\ Sealed(Top).pins = Top.pins
      /\ Sealed(Top).needs = NeedsOf(Top)
  BY DEF Sealed
<1> QED BY <1>1, <1>2 DEF Bound, Succeeds, NeedsOf

(* Through each step of the linker.                                        *)
LEMMA CoverStep == ClosureInv /\ CoverInv /\ [Link]_linkVars => CoverInv'
PROOF
<1> SUFFICES ASSUME ClosureInv, CoverInv, [Link]_linkVars PROVE CoverInv'
  OBVIOUS
<1>1. IsSequence(stack) /\ \A i \in DOMAIN stack : IsFrame(stack[i])
  BY DEF ClosureInv, StackInv
<1>2. ASSUME UNCHANGED << lock, compiled, result >>
      PROVE  /\ \A c \in (compiled \union SealedRoot)' : Bound(c)'
             /\ (result.status = "sealed" => \A c \in compiled : c.needs \subseteq result.flow.needs)'
  BY <1>2, BoundStays DEF CoverInv, SealedRoot
<1>3. CASE LinkFails \/ LinkCached \/ LinkTooDeep
  <2>1. /\ \E pin : stack' = Return(stack, pin)
        /\ UNCHANGED << lock, compiled, result >>
    BY <1>3 DEF LinkFails, LinkCached, LinkTooDeep
  <2>2. stack # << >> /\ result.status = "linking"
    BY <1>3 DEF LinkFails, LinkCached, LinkTooDeep, AtSite, ClosureInv, StackInv
  <2>3. (Doomed => Doomed') /\ \A needs : Kept(needs) => Kept(needs)'
    BY <1>1, <2>1, <2>2, ReturnCovers DEF Doomed, Kept
  <2> QED BY <1>2, <2>1, <2>2, <2>3 DEF CoverInv
<1>4. CASE LinkEnter
  <2>1. stack' = Append(stack, Frame(Site)) /\ UNCHANGED << lock, compiled, result >>
    BY <1>4 DEF LinkEnter
  <2>2. \A i \in DOMAIN stack : i \in DOMAIN stack' /\ stack'[i] = stack[i]
    <3>1. /\ DOMAIN stack = 1 .. Len(stack) /\ DOMAIN stack' = 1 .. Len(stack')
          /\ Len(stack') = Len(stack) + 1 /\ Len(stack) \in Nat
          /\ \A i \in DOMAIN stack : stack'[i] = stack[i]
      BY <1>1, <2>1, AppendIs
    <3> QED BY <3>1
  <2>3. (Doomed => Doomed') /\ \A needs : Kept(needs) => Kept(needs)'
    BY <2>2 DEF Doomed, Kept
  <2> QED BY <1>2, <2>1, <2>3 DEF CoverInv
<1>5. CASE CalleeDone
  <2> DEFINE below == Front(stack)
  <2> DEFINE n == Len(stack)
  <2>1. /\ AtEnd /\ n > 1 /\ n \in DOMAIN stack /\ Top = stack[n] /\ DOMAIN stack = 1 .. n
        /\ n \in Nat /\ UNCHANGED << lock, result >> /\ result.status = "linking"
    BY <1>5, TopIs DEF CalleeDone, AtEnd, ClosureInv
  <2>2. /\ IsSequence(below) /\ below # << >> /\ DOMAIN below = 1 .. n - 1
        /\ \A i \in DOMAIN below : i \in DOMAIN stack /\ below[i] = stack[i] /\ IsFrame(below[i])
    <3>0. stack # << >>
      BY <2>1 DEF ClosureInv, StackInv
    <3>1. /\ IsSequence(below) /\ Len(below) = n - 1 /\ DOMAIN below = 1 .. n - 1
          /\ \A i \in DOMAIN below : below[i] = stack[i]
      BY <1>1, <3>0, FrontIs
    <3> HIDE DEF below
    <3>2. below # << >> /\ \A i \in DOMAIN below : i \in DOMAIN stack
      BY <2>1, <3>1
    <3> QED BY <1>1, <3>1, <3>2
  <2>3. \A i \in DOMAIN stack : i \in DOMAIN below \/ i = n
    BY <2>1, <2>2
  <2>4. CASE Succeeds(Top) /\ ~Conflicts(Sealed(Top))
    <3>0. PICK flow : flow = Sealed(Top)
      OBVIOUS
    <3>1. stack' = Return(below, PinOf(flow)) /\ compiled' = compiled \union {flow}
      BY <1>5, <2>4, <3>0 DEF CalleeDone
    <3> HIDE DEF below, n
    <3>2. Bound(flow)
      BY <2>1, <2>4, <3>0, SealedIsBound
    <3>3. SealedRoot' = { }
      BY <2>1 DEF SealedRoot
    <3>4. \A c \in (compiled \union SealedRoot)' : Bound(c)'
      BY <2>1, <3>1, <3>2, <3>3, BoundStays DEF CoverInv
    <3>5. PinOf(flow).needs = flow.needs /\ flow.needs = NeedsOf(Top)
      BY <3>0 DEF PinOf, Sealed
    <3>6. ASSUME NEW needs, Kept(needs) PROVE Kept(needs)'
      <4>1. PICK i \in DOMAIN stack : \E j \in DOMAIN stack[i].pins :
                     needs \subseteq stack[i].pins[j].needs
        BY <3>6 DEF Kept
      <4>2. CASE i = n
        <5>1. needs \subseteq NeedsOf(Top)
          BY <2>1, <4>1, <4>2 DEF NeedsOf
        <5>2. needs \subseteq PinOf(flow).needs
          BY <3>5, <5>1
        <5> QED BY <2>2, <3>1, <5>2, ReturnCovers
      <4>3. CASE i \in DOMAIN below
        <5>1. \E k \in DOMAIN below : \E m \in DOMAIN below[k].pins :
                needs \subseteq below[k].pins[m].needs
          BY <2>2, <4>1, <4>3
        <5> QED BY <2>2, <3>1, <5>1, ReturnCovers
      <4> QED BY <2>3, <4>2, <4>3
    <3>7. Kept(flow.needs)'
      BY <2>2, <3>1, <3>5, ReturnCovers
    <3>8. ASSUME Doomed PROVE Doomed'
      <4>1. PICK i \in DOMAIN stack : \E j \in DOMAIN stack[i].pins :
                     stack[i].pins[j] = NoPin
        BY <3>8 DEF Doomed
      <4>2. i # n
        BY <2>1, <2>4, <4>1 DEF Succeeds
      <4>3. \E k \in DOMAIN below : \E m \in DOMAIN below[k].pins : below[k].pins[m] = NoPin
        BY <2>2, <2>3, <4>1, <4>2
      <4> QED BY <2>2, <3>1, <4>3, ReturnCovers
    <3>9. Doomed' \/ \A c \in compiled' : Kept(c.needs)'
      BY <2>1, <3>1, <3>6, <3>7, <3>8 DEF CoverInv
    <3> QED BY <2>1, <3>4, <3>9 DEF CoverInv
  <2>5. CASE ~(Succeeds(Top) /\ ~Conflicts(Sealed(Top)))
    <3>1. stack' = Return(below, NoPin) /\ UNCHANGED compiled
      BY <1>5, <2>5 DEF CalleeDone
    <3> HIDE DEF below
    <3>2. Doomed'
      BY <2>2, <3>1, ReturnCovers
    <3> QED BY <1>2, <2>1, <3>1, <3>2 DEF CoverInv
  <2> QED BY <2>4, <2>5
<1>6. CASE RootDone
  <2>1. /\ AtEnd /\ stack' = << >> /\ UNCHANGED << lock, compiled >> /\ result.status = "linking"
        /\ DOMAIN stack = {1} /\ Top = stack[1]
        /\ result' = IF Succeeds(Top) THEN [status |-> "sealed", flow |-> Sealed(Top)]
                                      ELSE [status |-> "refused"]
    BY <1>6, TopIs DEF RootDone, AtEnd, ClosureInv
  <2>2. \A c \in compiled : Bound(c)'
    BY <2>1, BoundStays DEF CoverInv
  <2>3. CASE Succeeds(Top)
    <3>0. PICK flow : flow = Sealed(Top)
      OBVIOUS
    <3>1. /\ result'.status = "sealed" /\ result'.flow = flow /\ flow.needs = NeedsOf(Top)
          /\ SealedRoot' = {flow}
      BY <2>1, <2>3, <3>0 DEF Sealed, SealedRoot
    <3>2. Bound(flow)'
      BY <2>1, <2>3, <3>0, SealedIsBound, BoundStays
    <3>3. ~Doomed
      BY <2>1, <2>3 DEF Doomed, Succeeds
    <3>4. ASSUME NEW needs, Kept(needs) PROVE needs \subseteq NeedsOf(Top)
      BY <2>1, <3>4 DEF Kept, NeedsOf
    <3> QED BY <2>1, <2>2, <3>1, <3>2, <3>3, <3>4 DEF CoverInv
  <2>4. CASE ~Succeeds(Top)
    <3>1. result'.status = "refused" /\ SealedRoot' = { }
      BY <2>1, <2>4 DEF SealedRoot
    <3> QED BY <2>1, <2>2, <3>1 DEF CoverInv
  <2> QED BY <2>3, <2>4
<1>7. CASE UNCHANGED linkVars
  BY <1>7 DEF linkVars, CoverInv, SealedRoot, Bound, Doomed, Kept
<1> QED BY <1>3, <1>4, <1>5, <1>6, <1>7 DEF Link

-----------------------------------------------------------------------------
(* The linker and the session in their places: each keeps its own.         *)
LEMMA ComponentsStart == Init => ClosureInv /\ SessionInv
PROOF
  BY ClosureStarts, SessionStarts, RootsAreFiles DEF Init

(* Through each step of the composition.                                   *)
LEMMA ComponentsStep ==
  ASSUME ClosureInv, SessionInv, [Next]_vars
  PROVE  ClosureInv' /\ SessionInv' /\ (answer' # answer => Truthful(answer'))
PROOF
<1>1. CASE Compile
  BY <1>1, ClosureStep, SessionStep DEF Compile
<1>2. CASE LoadFlow
  <2>1. /\ SealedRoot' = { } /\ stack' = << >> /\ cache' = << >> /\ compiled' = { }
        /\ registry' = << >> /\ result'.status = "loaded" /\ UNCHANGED sessionVars
    BY <1>2 DEF LoadFlow, SealedRoot
  <2>2. ClosureInv'
    BY <2>1 DEF ClosureInv, StackInv, IsSequence, PinsReturned, CachePins, Registered
  <2> QED BY <2>1, <2>2, SessionStep
<1>3. CASE \E lk \in Locks : OpenSession(lk)
  BY <1>3, ClosureStep, SessionStep DEF OpenSession
<1>4. CASE UseSession
  BY <1>4, ClosureStep, SessionStep DEF UseSession
<1>5. CASE UNCHANGED vars
  BY <1>5, ClosureStep, SessionStep DEF vars
<1> QED BY <1>1, <1>2, <1>3, <1>4, <1>5 DEF Next

(* What ClosureIsAlwaysSound and ReconcileIsTruthful say of each, with the *)
(* other at its side: the closure that is loaded is the one linked, and    *)
(* sessions are opened only for what was loaded (runner.rs:165-187).       *)
THEOREM TogetherTheyKeep == Spec => []ClosureIsSound /\ AnswersAreTruthful
PROOF
<1>1. ClosureInv => ClosureIsSound
  BY DEF ClosureInv, Registered, SealedWell, ClosureIsSound, OneContentPerFlow
<1>2. ClosureInv /\ SessionInv /\ [Next]_vars
        => ClosureInv' /\ SessionInv' /\ [answer' # answer => Truthful(answer')]_answer
  BY ComponentsStep
<1> QED BY <1>1, <1>2, ComponentsStart, PTL DEF Spec, AnswersAreTruthful

-----------------------------------------------------------------------------
(* What is held of a loaded flow: its needs cover what it asks, and its    *)
(* digest is of a sound lockfile that has the actions it asks.             *)
Sufficient(h) ==
  /\ h.asks.features \subseteq h.needs
  /\ \E lk : LockGood(lk) /\ h.digest = DigestOf(lk) /\ h.asks.actions \subseteq Actions(lk)
HeldInv == held # Unloaded => result.status = "loaded" /\ Sufficient(held)

(* The session is of the flow that is held.                                *)
Fits ==
  /\ held.needs \subseteq session.features
  /\ held.asks.actions \subseteq session.actions \union SyntheticActions
FitInv == Active => held # Unloaded /\ Fits

CapabilityInv == ClosureInv /\ SessionInv /\ CoverInv /\ HeldInv /\ FitInv

(* Nothing is compiled, held or open.                                      *)
LEMMA CapabilityStarts == Init => CapabilityInv
PROOF
<1> SUFFICES ASSUME Init PROVE CapabilityInv
  OBVIOUS
<1>1. CoverInv
  BY DEF Init, LinkInit, CoverInv, SealedRoot
<1>2. HeldInv /\ FitInv
  BY DEF Init, SessionInit, Active, HeldInv, FitInv
<1> QED BY <1>1, <1>2, ComponentsStart DEF CapabilityInv

(* While a compilation goes on nothing is held and no session is open.     *)
LEMMA CompileKeeps ==
  ASSUME CapabilityInv, Compile
  PROVE  CoverInv' /\ HeldInv' /\ FitInv'
PROOF
<1> USE DEF CapabilityInv
<1>1. Link /\ UNCHANGED << sessionVars, held >>
  BY DEF Compile
<1>2. result.status = "linking"
  BY <1>1 DEF Link, LinkFails, LinkCached, LinkTooDeep, LinkEnter, CalleeDone, RootDone, AtSite, AtEnd
<1>3. CoverInv'
  BY <1>1, CoverStep
<1>4. held = Unloaded
  BY <1>2 DEF HeldInv
<1>5. HeldInv'
  BY <1>1, <1>4 DEF HeldInv, Unloaded
<1>6. FitInv'
  BY <1>1 DEF FitInv, Fits, Active, sessionVars, Unloaded
<1> QED BY <1>3, <1>5, <1>6

(* What is loaded was bound, and the root needs all of it.                 *)
LEMMA LoadKeeps ==
  ASSUME PhasesAsGiven, CapabilityInv, LoadFlow
  PROVE  CoverInv' /\ HeldInv' /\ FitInv'
PROOF
<1> USE DEF CapabilityInv
<1>1. /\ result.status = "sealed" /\ SealedRoot = {result.flow}
      /\ result' = [status |-> "loaded"] /\ compiled' = { } /\ UNCHANGED sessionVars
  BY DEF LoadFlow, SealedRoot
<1>2. CoverInv'
  BY <1>1 DEF CoverInv, SealedRoot
<1>3. ~Active /\ ~Active'
  BY <1>1 DEF FitInv, HeldInv, Active, sessionVars
<1>4. Sufficient(held')
  <2>1. \A c \in Closure : Bound(c) /\ c.needs \subseteq result.flow.needs
    BY <1>1 DEF CoverInv, Closure
  <2>2. ASSUME NEW c \in Closure
        PROVE  /\ BindGood(Normal[c.file], lock)
               /\ BindNeeds(Normal[c.file], lock) \subseteq result.flow.needs
    <3>1. PhasesAccept(c.file, c.pins, lock) /\ PhasesNeed(c.file, c.pins, lock) \subseteq c.needs
      BY <2>1 DEF Bound, PhasesAsGiven
    <3> QED BY <2>1, <3>1 DEF PhasesAccept, PhasesNeed
  <2>3. Closure # { }
    BY DEF Closure
  <2>4. /\ Asks(Closure, lock).actions \subseteq Actions(lock)
        /\ Asks(Closure, lock).features \subseteq result.flow.needs
    BY <2>2, <2>3, AsksAreBound
  <2>5. LockGood(lock)
    BY <2>2, <2>3 DEF BindGood
  <2>6. /\ held'.digest = DigestOf(lock) /\ held'.needs = result.flow.needs
        /\ held'.asks = Asks(Closure, lock)
    BY DEF LoadFlow
  <2> QED BY <2>4, <2>5, <2>6 DEF Sufficient
<1>5. HeldInv' /\ FitInv'
  BY <1>1, <1>3, <1>4 DEF HeldInv, FitInv, Sufficient
<1> QED BY <1>2, <1>5

(* The digest the flow was sealed with is the one attested now, and equal  *)
(* digests cover equal actions.                                            *)
LEMMA OpenFits ==
  ASSUME CapabilityInv, NEW lk \in Locks, OpenSession(lk)
  PROVE  CoverInv' /\ HeldInv' /\ FitInv'
PROOF
<1> USE DEF CapabilityInv
<1> DEFINE live == MakeLockfile(world, held.needs)
<1>1. /\ held # Unloaded /\ Open(lk, held.digest, held.needs) /\ UNCHANGED << linkVars, held >>
  BY DEF OpenSession
<1>2. CoverInv'
  BY <1>1, CoverStep
<1>3. HeldInv' /\ held' # Unloaded
  BY <1>1 DEF HeldInv, linkVars, Unloaded
<1>4. /\ lk.digest = held.digest /\ live.digest = held.digest
      /\ session'.features = live.features /\ session'.actions = live.actions
  BY <1>1 DEF Open
<1>5. held.needs \subseteq live.features
  BY DEF MakeLockfile, Enabled
<1>6. PICK old : LockGood(old) /\ held.digest = DigestOf(old) /\ held.asks.actions \subseteq Actions(old)
  BY <1>1 DEF HeldInv, Sufficient
<1>7. old # None /\ held.digest = old.digest
  BY <1>4, <1>6, NoDigestIsNone DEF DigestOf
<1>8. old.digest = Content(old)
  BY <1>6, <1>7 DEF LockGood, DigestConsistent
<1>9. live.digest = << ProviderName, world.protocol, Enabled(world, held.needs), world.platform,
                       world.actions, world.protected >>
      /\ live.actions = world.actions
  BY DEF MakeLockfile, Content
<1>10. old.actions = live.actions
  BY <1>4, <1>7, <1>8, <1>9 DEF Content
<1>11. Fits'
  BY <1>1, <1>4, <1>5, <1>6, <1>7, <1>10 DEF Fits, Actions
<1> QED BY <1>2, <1>3, <1>11 DEF FitInv

(* A session in use keeps what it was opened with.                         *)
LEMMA UseKeeps ==
  ASSUME CapabilityInv, UseSession
  PROVE  CoverInv' /\ HeldInv' /\ FitInv'
PROOF
<1> USE DEF CapabilityInv
<1>1. SessionNext /\ UNCHANGED << linkVars, held >>
  BY DEF UseSession
<1>2. CoverInv'
  BY <1>1, CoverStep
<1>3. HeldInv'
  BY <1>1 DEF HeldInv, linkVars, Unloaded, Sufficient
<1>4. IsSession(session)
  BY DEF SessionInv, Typed
<1>5. Active' => Active /\ session'.features = session.features /\ session'.actions = session.actions
  <2>1. CASE UNCHANGED session
    BY <2>1 DEF Active
  <2>2. CASE End \/ RunnerDies
    BY <1>4, <2>2 DEF End, RunnerDies, Active, IsSession
  <2>3. CASE \E call \in Call : Execute(call)
    BY <1>4, <2>3 DEF Execute, Active, IsSession
  <2> QED BY <1>1, <2>1, <2>2, <2>3
          DEF SessionNext, WorldChanges, TakeCursor, DaemonStarts, DaemonCompletes,
              ReconcileUnavailable, ReconcileScans, ScanPage, ScanFails, Answer
<1>6. FitInv'
  BY <1>1, <1>5 DEF FitInv, Fits, Unloaded
<1> QED BY <1>2, <1>3, <1>6

(* Whatever files link each other, whatever check and the loader accept    *)
(* and whatever becomes of daemon and device in between: once a session    *)
(* is open, every action and every feature the engine will ask of it, in   *)
(* the root, a callee or a repair, is there (bind.rs:196-435,              *)
(* subflow.rs:107-256, provider.rs:69-156, lock.rs:39-130).                *)
THEOREM NothingDriftsOnceOpen ==
  ASSUME PhasesAsGiven
  PROVE  Spec => []NoDriftOnceOpen
PROOF
<1>1. CapabilityInv /\ [Next]_vars => CapabilityInv'
  <2> SUFFICES ASSUME CapabilityInv, [Next]_vars PROVE CapabilityInv'
    OBVIOUS
  <2>1. ClosureInv' /\ SessionInv'
    BY ComponentsStep DEF CapabilityInv
  <2>2. CASE Compile
    BY <2>1, <2>2, CompileKeeps DEF CapabilityInv
  <2>3. CASE LoadFlow
    BY <2>1, <2>3, LoadKeeps DEF CapabilityInv
  <2>4. CASE \E lk \in Locks : OpenSession(lk)
    BY <2>1, <2>4, OpenFits DEF CapabilityInv
  <2>5. CASE UseSession
    BY <2>1, <2>5, UseKeeps DEF CapabilityInv
  <2>6. CASE UNCHANGED vars
    <3>1. UNCHANGED << linkVars, sessionVars, held >>
      BY <2>6 DEF vars
    <3>2. CoverInv'
      BY <3>1, CoverStep DEF CapabilityInv
    <3>3. HeldInv' /\ FitInv'
      BY <3>1 DEF CapabilityInv, HeldInv, FitInv, Fits, Active, linkVars, sessionVars,
                  Sufficient, Unloaded
    <3> QED BY <2>1, <3>2, <3>3 DEF CapabilityInv
  <2> QED BY <2>2, <2>3, <2>4, <2>5, <2>6 DEF Next
<1>2. CapabilityInv => NoDriftOnceOpen
  BY DEF CapabilityInv, HeldInv, Sufficient, FitInv, Fits, NoDriftOnceOpen
<1> QED BY <1>1, <1>2, CapabilityStarts, PTL DEF Spec
=============================================================================
