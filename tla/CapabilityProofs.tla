--------------------------- MODULE CapabilityProofs ---------------------------
(***************************************************************************)
(* The closure a compile produces is sound whatever the graph of links;    *)
(* what a session answers of a call is true whatever is written meanwhile; *)
(* and a flow whose session opened finds in it every capability it asks    *)
(* for.  Files, texts, flow ids and what check and loader decide are       *)
(* opaque, and so are calls and worlds.                                    *)
(***************************************************************************)
EXTENDS Capabilities, SequenceTheorems, TLAPS

-----------------------------------------------------------------------------
(* The linker.  What is compiled is sound, and the walk over the graph of  *)
(* links is bounded and meets no file twice on one chain.                  *)
IsSequence(s) == s \in Seq(Range(s))
IsFrame(f) ==
  f = [file |-> f.file, pins |-> f.pins] /\ f.file \in File /\ IsSequence(f.pins)

StackInv ==
  /\ IsSequence(stack)
  /\ \A i \in DOMAIN stack : IsFrame(stack[i])
  /\ result.status = "linking" => stack # << >>

(* A link returned nothing, or what was compiled.                          *)
IsPin(p) == \E d \in compiled : PinOf(d) = p
PinsReturned == \A i \in DOMAIN stack : \A j \in DOMAIN stack[i].pins :
                  stack[i].pins[j] = NoPin \/ IsPin(stack[i].pins[j])
CachePins == \A f \in DOMAIN cache : IsPin(cache[f])

(* Every compiled content is the one registered for its flow id.           *)
Registered ==
  \A c \in compiled : c.flow \in DOMAIN registry /\ registry[c.flow] = c.hash

SealedWell(c) == PinsAreCompiled(c) /\ NeedsAreCovered(c)

ClosureInv ==
  /\ StackInv
  /\ PinsReturned
  /\ CachePins
  /\ Registered
  /\ \A c \in compiled \union SealedRoot : SealedWell(c)

-----------------------------------------------------------------------------
(* Sequences of any values: what Append and Front make of them.            *)
LEMMA AppendIs ==
  ASSUME NEW s, IsSequence(s), NEW x
  PROVE  LET t == Append(s, x)
         IN  /\ IsSequence(t) /\ t # << >>
             /\ Len(s) \in Nat /\ Len(t) = Len(s) + 1
             /\ DOMAIN s = 1 .. Len(s) /\ DOMAIN t = 1 .. Len(t)
             /\ \A i \in DOMAIN s : t[i] = s[i]
             /\ t[Len(t)] = x
PROOF
<1> DEFINE S == Range(s) \union {x}
<1> DEFINE t == Append(s, x)
<1>1. s \in Seq(S)
  BY SeqMonotonic DEF IsSequence
<1>2. /\ t \in Seq(S) /\ Len(t) = Len(s) + 1 /\ Len(s) \in Nat
      /\ \A i \in 1 .. Len(s) : t[i] = s[i]
      /\ t[Len(t)] = x /\ DOMAIN s = 1 .. Len(s) /\ DOMAIN t = 1 .. Len(t)
  BY <1>1
<1>3. t \in Seq(Range(t))
  BY <1>2, SeqOfRange DEF Range
<1> QED BY <1>2, <1>3 DEF IsSequence

LEMMA FrontIs ==
  ASSUME NEW s, IsSequence(s), s # << >>
  PROVE  /\ IsSequence(Front(s))
         /\ Len(s) \in Nat \ {0} /\ Len(Front(s)) = Len(s) - 1
         /\ DOMAIN s = 1 .. Len(s) /\ DOMAIN Front(s) = 1 .. Len(s) - 1
         /\ \A i \in DOMAIN Front(s) : Front(s)[i] = s[i]
PROOF
<1> DEFINE t == Front(s)
<1>1. /\ s \in Seq(Range(s)) /\ Len(s) \in Nat \ {0} /\ DOMAIN s = 1 .. Len(s)
  BY DEF IsSequence
<1>2. /\ t \in Seq(Range(s)) /\ Len(t) = Len(s) - 1 /\ DOMAIN t = 1 .. Len(s) - 1
      /\ \A i \in 1 .. Len(s) - 1 : t[i] = s[i]
  BY <1>1 DEF Front
<1>3. t \in Seq(Range(t))
  BY <1>2, SeqOfRange DEF Range
<1> QED BY <1>1, <1>2, <1>3 DEF IsSequence

LEMMA RepinIs ==
  ASSUME NEW f, IsFrame(f), NEW x
  PROVE  [f EXCEPT !.pins = x] = [file |-> f.file, pins |-> x]
PROOF
<1>1. PICK a, b : f = [file |-> a, pins |-> b]
  BY DEF IsFrame
<1> QED BY <1>1

(* Return adds a pin to the last frame and leaves the others alone.        *)
LEMMA ReturnIs ==
  ASSUME NEW frames, IsSequence(frames), frames # << >>, NEW pin,
         \A i \in DOMAIN frames : IsFrame(frames[i])
  PROVE  LET r == Return(frames, pin)
             n == Len(frames)
         IN  /\ IsSequence(r) /\ r # << >>
             /\ DOMAIN r = DOMAIN frames /\ DOMAIN frames = 1 .. n /\ n \in Nat \ {0}
             /\ Len(r) = n
             /\ \A i \in DOMAIN r : IsFrame(r[i]) /\ r[i].file = frames[i].file
             /\ \A i \in DOMAIN r : \A j \in DOMAIN r[i].pins :
                  \/ j \in DOMAIN frames[i].pins /\ r[i].pins[j] = frames[i].pins[j]
                  \/ r[i].pins[j] = pin
PROOF
<1> DEFINE r == Return(frames, pin)
<1> DEFINE n == Len(frames)
<1> DEFINE top == [file |-> frames[n].file, pins |-> Append(frames[n].pins, pin)]
<1>1. /\ n \in Nat \ {0} /\ DOMAIN frames = 1 .. n /\ frames \in Seq(Range(frames))
  BY DEF IsSequence
<1>2. IsFrame(frames[n])
  BY <1>1
<1>3. r = [i \in 1 .. n |-> IF i = n THEN top ELSE frames[i]]
  <2>1. [frames[n] EXCEPT !.pins = Append(frames[n].pins, pin)] = top
    BY <1>2, RepinIs
  <2>2. r = [frames EXCEPT ![n] = [frames[n] EXCEPT !.pins = Append(frames[n].pins, pin)]]
    BY DEF Return
  <2>3. r = [frames EXCEPT ![n] = top]
    BY <2>1, <2>2
  <2> HIDE DEF r, top
  <2> QED BY <1>1, <2>3
<1>4. IsFrame(top)
  BY <1>2, AppendIs DEF IsFrame
<1>5. /\ IsSequence(r) /\ r # << >> /\ Len(r) = n /\ DOMAIN r = 1 .. n
  <2> DEFINE S == Range(frames) \union {top}
  <2> HIDE DEF r, top
  <2>0. \A i \in 1 .. n : frames[i] \in S
    BY <1>1 DEF Range
  <2>1. r \in Seq(S) /\ Len(r) = n /\ DOMAIN r = 1 .. n
    <3> HIDE DEF S
    <3>1. top \in S
      BY DEF S
    <3>2. r \in [1 .. n -> S]
      BY <1>3, <2>0, <3>1
    <3> QED BY <1>1, <3>2
  <2>2. r \in Seq(Range(r))
    BY <2>1, SeqOfRange DEF Range
  <2> QED BY <1>1, <2>1, <2>2 DEF IsSequence
<1>6. \A i \in 1 .. n : IsFrame(r[i]) /\ r[i].file = frames[i].file
  <2> HIDE DEF r
  <2>1. top.file = frames[n].file
    OBVIOUS
  <2> HIDE DEF top
  <2> QED BY <1>1, <1>3, <1>4, <2>1
<1>7. ASSUME NEW i \in 1 .. n, NEW j \in DOMAIN r[i].pins
      PROVE  \/ j \in DOMAIN frames[i].pins /\ r[i].pins[j] = frames[i].pins[j]
             \/ r[i].pins[j] = pin
  <2>1. CASE i # n
    BY <1>3, <2>1
  <2>2. CASE i = n
    <3>1. r[i].pins = Append(frames[n].pins, pin)
      <4>1. top.pins = Append(frames[n].pins, pin)
        OBVIOUS
      <4> HIDE DEF r, top
      <4> QED BY <1>1, <1>3, <2>2, <4>1
    <3>2. IsSequence(frames[n].pins)
      BY <1>2 DEF IsFrame
    <3> QED BY <2>2, <3>1, <3>2, AppendIs
  <2> QED BY <2>1, <2>2
<1> QED BY <1>1, <1>5, <1>6, <1>7

-----------------------------------------------------------------------------
(* Where the topmost compilation stands.                                   *)
LEMMA TopIs ==
  ASSUME StackInv, result.status = "linking"
  PROVE  /\ Len(stack) \in Nat \ {0} /\ DOMAIN stack = 1 .. Len(stack)
         /\ Top = stack[Len(stack)] /\ IsFrame(Top)
PROOF
  BY DEF StackInv, IsSequence, Top, Last

LEMMA SiteIs ==
  ASSUME StackInv, AtSite, Site # NoFile
  PROVE  Site \in File
PROOF
<1>1. IsFrame(Top)
  BY TopIs DEF AtSite
<1>2. Sites[Top.file] \in Seq(File \union {NoFile})
  BY <1>1, SitesAreFiles DEF IsFrame
<1>3. Len(Top.pins) \in Nat
  BY <1>1, AppendIs DEF IsFrame
<1> QED BY <1>2, <1>3 DEF AtSite, Site

LEMMA NewFrame ==
  ASSUME NEW f \in File
  PROVE  IsFrame(Frame(f)) /\ Frame(f).pins = << >> /\ Frame(f).file = f
PROOF
  BY DEF Frame, IsFrame, IsSequence, Range

LEMMA OneFrame ==
  ASSUME NEW f \in File
  PROVE  /\ IsSequence(<< Frame(f) >>) /\ << Frame(f) >> # << >>
         /\ DOMAIN << Frame(f) >> = {1} /\ << Frame(f) >>[1] = Frame(f)
PROOF
  BY DEF IsSequence, Range

(* A step that only returns a pin, of what is compiled or none.            *)
LEMMA ReturnKeeps ==
  ASSUME ClosureInv, NEW pin, pin = NoPin \/ IsPin(pin),
         stack # << >>, stack' = Return(stack, pin),
         UNCHANGED << lock, cache, registry, compiled, result >>
  PROVE  ClosureInv'
PROOF
<1> USE DEF ClosureInv
<1>1. /\ IsSequence(stack) /\ \A i \in DOMAIN stack : IsFrame(stack[i])
  BY DEF StackInv
<1>2. StackInv'
  BY <1>1, ReturnIs DEF StackInv
<1>3. \A p : IsPin(p)' <=> IsPin(p)
  BY DEF IsPin, PinOf
<1>4. PinsReturned'
  <2> SUFFICES ASSUME NEW i \in DOMAIN stack', NEW j \in DOMAIN stack'[i].pins
               PROVE  stack'[i].pins[j] = NoPin \/ IsPin(stack'[i].pins[j])
    BY <1>3 DEF PinsReturned
  <2>1. i \in DOMAIN stack
    BY <1>1, ReturnIs
  <2>2. \/ j \in DOMAIN stack[i].pins /\ stack'[i].pins[j] = stack[i].pins[j]
        \/ stack'[i].pins[j] = pin
    BY <1>1, <2>1, ReturnIs
  <2> QED BY <2>1, <2>2 DEF PinsReturned
<1>5. CachePins' /\ Registered'
  BY <1>3 DEF CachePins, Registered
<1>6. \A c \in (compiled \union SealedRoot)' : SealedWell(c)'
  BY DEF SealedRoot, SealedWell, PinsAreCompiled, NeedsAreCovered, PinOf
<1> QED BY <1>2, <1>4, <1>5, <1>6

LEMMA EnterKeeps == ClosureInv /\ LinkEnter => ClosureInv'
PROOF
<1> SUFFICES ASSUME ClosureInv, LinkEnter PROVE ClosureInv'
  OBVIOUS
<1> USE DEF ClosureInv
<1> DEFINE frame == Frame(Site)
<1>0. /\ stack' = Append(stack, frame)
      /\ UNCHANGED << lock, cache, registry, compiled, result >>
  BY DEF LinkEnter
<1>1. IsSequence(stack) /\ \A i \in DOMAIN stack : IsFrame(stack[i])
  BY DEF StackInv
<1>2. IsFrame(frame) /\ frame.pins = << >>
  BY SiteIs, NewFrame DEF LinkEnter
<1> HIDE DEF frame
<1>3. /\ IsSequence(stack') /\ stack' # << >>
      /\ \A i \in DOMAIN stack' : \/ stack'[i] = frame
                                  \/ i \in DOMAIN stack /\ stack'[i] = stack[i]
  BY <1>0, <1>1, AppendIs
<1>4. StackInv'
  BY <1>1, <1>2, <1>3 DEF StackInv
<1>5. \A p : IsPin(p)' <=> IsPin(p)
  BY <1>0 DEF IsPin, PinOf
<1>6. PinsReturned'
  <2>1. DOMAIN frame.pins = { }
    BY <1>2
  <2> QED BY <1>3, <1>5, <2>1 DEF PinsReturned
<1>7. CachePins' /\ Registered'
  BY <1>0, <1>5 DEF CachePins, Registered
<1>8. \A c \in (compiled \union SealedRoot)' : SealedWell(c)'
  BY <1>0 DEF SealedRoot, SealedWell, PinsAreCompiled, NeedsAreCovered, PinOf
<1> QED BY <1>4, <1>6, <1>7, <1>8

(* What a compilation that succeeds seals.                                 *)
LEMMA SealedIsWell ==
  ASSUME ClosureInv, AtEnd, Succeeds(Top)
  PROVE  SealedWell(Sealed(Top))
PROOF
<1> DEFINE c == Sealed(Top)
<1>1. c.pins = Top.pins /\ c.needs = NeedsOf(Top)
  BY DEF Sealed
<1>2. Top = stack[Len(stack)] /\ Len(stack) \in DOMAIN stack
  BY TopIs DEF ClosureInv, AtEnd
<1>3. \A i \in DOMAIN Top.pins : IsPin(Top.pins[i])
  BY <1>2 DEF ClosureInv, PinsReturned, Succeeds
<1>4. PinsAreCompiled(c)
  BY <1>1, <1>3 DEF PinsAreCompiled, IsPin
<1>5. NeedsAreCovered(c)
  BY <1>1 DEF NeedsAreCovered, NeedsOf
<1> QED BY <1>4, <1>5 DEF SealedWell

LEMMA CalleeKeeps == ClosureInv /\ CalleeDone => ClosureInv'
PROOF
<1> SUFFICES ASSUME ClosureInv, CalleeDone PROVE ClosureInv'
  OBVIOUS
<1> USE DEF ClosureInv
<1> DEFINE sealed == Sealed(Top)
<1> DEFINE below == Front(stack)
<1>1. /\ IsSequence(stack) /\ stack # << >> /\ \A i \in DOMAIN stack : IsFrame(stack[i])
      /\ AtEnd /\ Len(stack) > 1 /\ UNCHANGED << lock, result >>
  BY DEF StackInv, CalleeDone, AtEnd
<1>2. /\ IsSequence(below) /\ below # << >> /\ DOMAIN below \subseteq DOMAIN stack
      /\ \A i \in DOMAIN below : below[i] = stack[i] /\ IsFrame(below[i])
  BY <1>1, FrontIs
<1> HIDE DEF below
<1>3. ASSUME NEW pin, stack' = Return(below, pin)
      PROVE  /\ StackInv'
             /\ \A i \in DOMAIN stack' : \A j \in DOMAIN stack'[i].pins :
                  \/ stack'[i].pins[j] = pin
                  \/ stack'[i].pins[j] = NoPin
                  \/ IsPin(stack'[i].pins[j])
  <2>1. StackInv'
    BY <1>2, <1>3, ReturnIs DEF StackInv
  <2>2. ASSUME NEW i \in DOMAIN stack', NEW j \in DOMAIN stack'[i].pins
        PROVE  \/ stack'[i].pins[j] = pin
               \/ stack'[i].pins[j] = NoPin
               \/ IsPin(stack'[i].pins[j])
    <3>1. i \in DOMAIN below
      BY <1>2, <1>3, ReturnIs
    <3>2. \/ j \in DOMAIN below[i].pins /\ stack'[i].pins[j] = below[i].pins[j]
          \/ stack'[i].pins[j] = pin
      BY <1>2, <1>3, <3>1, ReturnIs
    <3> QED BY <1>2, <3>1, <3>2 DEF PinsReturned
  <2> QED BY <2>1, <2>2
<1>4. SealedRoot' = SealedRoot /\ SealedRoot = { }
  BY <1>1 DEF SealedRoot, AtEnd
<1>5. CASE Succeeds(Top) /\ ~Conflicts(sealed)
  <2>0. PICK flow : flow = sealed
    OBVIOUS
  <2>9. ~Conflicts(flow)
    BY <1>5, <2>0
  <2>1. /\ stack' = Return(below, PinOf(flow))
        /\ compiled' = compiled \union {flow}
        /\ cache' = [f \in DOMAIN cache \union {Top.file} |->
                       IF f = Top.file THEN PinOf(flow) ELSE cache[f]]
        /\ registry' = [i \in DOMAIN registry \union {flow.flow} |->
                          IF i = flow.flow THEN flow.hash ELSE registry[i]]
    BY <1>5, <2>0 DEF CalleeDone, below
  <2>2. SealedWell(flow)
    BY <1>1, <1>5, <2>0, SealedIsWell
  <2>3. IsPin(PinOf(flow))' /\ \A p : IsPin(p) => IsPin(p)'
    BY <2>1 DEF IsPin, PinOf
  <2>4. PinsReturned'
    BY <1>3, <2>1, <2>3 DEF PinsReturned
  <2>5. CachePins'
    BY <2>1, <2>3 DEF CachePins, PinOf
  <2>6. Registered'
    BY <2>1, <2>9 DEF Registered, Conflicts
  <2>7. \A c : SealedWell(c) => SealedWell(c)'
    BY <2>1 DEF SealedWell, PinsAreCompiled, NeedsAreCovered, PinOf
  <2>8. \A c \in (compiled \union SealedRoot)' : SealedWell(c)'
    BY <1>4, <2>1, <2>2, <2>7
  <2> QED BY <1>3, <2>1, <2>4, <2>5, <2>6, <2>8
<1>6. CASE ~(Succeeds(Top) /\ ~Conflicts(sealed))
  <2>1. stack' = Return(below, NoPin) /\ UNCHANGED << cache, registry, compiled >>
    BY <1>6 DEF CalleeDone, below
  <2>2. \A p : IsPin(p)' <=> IsPin(p)
    BY <2>1 DEF IsPin, PinOf
  <2>3. PinsReturned'
    BY <1>3, <2>1, <2>2 DEF PinsReturned
  <2>4. CachePins' /\ Registered'
    BY <2>1, <2>2 DEF CachePins, Registered
  <2>5. \A c \in (compiled \union SealedRoot)' : SealedWell(c)'
    BY <1>4, <2>1 DEF SealedWell, PinsAreCompiled, NeedsAreCovered, PinOf
  <2> QED BY <1>3, <2>1, <2>3, <2>4, <2>5
<1> QED BY <1>5, <1>6

LEMMA RootKeeps == ClosureInv /\ RootDone => ClosureInv'
PROOF
<1> SUFFICES ASSUME ClosureInv, RootDone PROVE ClosureInv'
  OBVIOUS
<1> USE DEF ClosureInv
<1>1. /\ AtEnd /\ stack' = << >> /\ UNCHANGED << lock, cache, registry, compiled >>
      /\ result' = IF Succeeds(Top) THEN [status |-> "sealed", flow |-> Sealed(Top)]
                                    ELSE [status |-> "refused"]
  BY DEF RootDone
<1>2. StackInv' /\ PinsReturned'
  <2>1. IsSequence(<< >>)
    BY DEF IsSequence
  <2> QED BY <1>1, <2>1 DEF StackInv, PinsReturned
<1>3. \A p : IsPin(p)' <=> IsPin(p)
  BY <1>1 DEF IsPin, PinOf
<1>4. CachePins' /\ Registered'
  BY <1>1, <1>3 DEF CachePins, Registered
<1>5. SealedRoot' = IF Succeeds(Top) THEN {Sealed(Top)} ELSE { }
  BY <1>1 DEF SealedRoot
<1>6. \A c : SealedWell(c)' <=> SealedWell(c)
  BY <1>1 DEF SealedWell, PinsAreCompiled, NeedsAreCovered, PinOf
<1>7. \A c \in (compiled \union SealedRoot)' : SealedWell(c)'
  BY <1>1, <1>5, <1>6, SealedIsWell
<1> QED BY <1>2, <1>4, <1>7

LEMMA ClosureStep == ClosureInv /\ [Link]_linkVars => ClosureInv'
PROOF
<1> SUFFICES ASSUME ClosureInv, [Link]_linkVars PROVE ClosureInv'
  OBVIOUS
<1>1. ASSUME AtSite PROVE stack # << >>
  BY <1>1 DEF AtSite, ClosureInv, StackInv
<1>2. CASE LinkFails
  BY <1>1, <1>2, ReturnKeeps DEF LinkFails
<1>3. CASE LinkCached
  <2>1. IsPin(cache[Site])
    BY <1>3 DEF LinkCached, ClosureInv, CachePins
  <2> QED BY <1>1, <1>3, <2>1, ReturnKeeps DEF LinkCached
<1>4. CASE LinkTooDeep
  BY <1>1, <1>4, ReturnKeeps DEF LinkTooDeep
<1>5. CASE LinkEnter
  BY <1>5, EnterKeeps
<1>6. CASE CalleeDone
  BY <1>6, CalleeKeeps
<1>7. CASE RootDone
  BY <1>7, RootKeeps
<1>8. CASE UNCHANGED linkVars
  BY <1>8 DEF linkVars, ClosureInv, StackInv, PinsReturned, CachePins, Registered,
              SealedRoot, SealedWell, PinsAreCompiled, NeedsAreCovered, IsPin, PinOf
<1> QED BY <1>2, <1>3, <1>4, <1>5, <1>6, <1>7, <1>8 DEF Link

LEMMA ClosureStarts ==
  ASSUME NEW root \in File, LinkInit(root)
  PROVE  ClosureInv
PROOF
<1>1. IsFrame(Frame(root)) /\ Frame(root).pins = << >>
  BY NewFrame
<1>2. StackInv /\ PinsReturned
  BY <1>1, OneFrame DEF LinkInit, StackInv, PinsReturned
<1>3. CachePins /\ Registered /\ SealedRoot = { } /\ compiled = { }
  BY DEF LinkInit, CachePins, Registered, SealedRoot
<1> QED BY <1>2, <1>3 DEF ClosureInv

(* Of one flow id one content is compiled, every flow pins what was        *)
(* compiled and requires what its callees require, for every graph of      *)
(* links and whatever the phases decide (subflow.rs:107-256).              *)
THEOREM ClosureIsAlwaysSound == LinkSpec => []ClosureIsSound
PROOF
<1>1. ASSUME NEW root \in File PROVE LinkInit(root) => ClosureInv
  BY ClosureStarts
<1>2. ClosureInv => ClosureIsSound
  BY DEF ClosureInv, Registered, SealedWell, ClosureIsSound, OneContentPerFlow
<1>3. (\E root \in File : LinkInit(root)) => ClosureInv
  BY <1>1
<1> QED BY <1>2, <1>3, ClosureStep, PTL DEF LinkSpec

-----------------------------------------------------------------------------
(* The compilations in progress form a chain of different files that is    *)
(* never longer than the bound.                                            *)
ChainInv ==
  /\ Len(stack) <= MaxLinkDepth + 1
  /\ \A i, j \in DOMAIN stack : stack[i].file = stack[j].file => i = j

LEMMA ChainReturns ==
  ASSUME ClosureInv, ChainInv, NEW frames, IsSequence(frames), frames # << >>, NEW pin,
         DOMAIN frames \subseteq DOMAIN stack, Len(frames) <= Len(stack), Len(stack) \in Nat,
         \A i \in DOMAIN frames : frames[i] = stack[i],
         stack' = Return(frames, pin)
  PROVE  ChainInv'
PROOF
<1>1. \A i \in DOMAIN frames : IsFrame(frames[i])
  BY DEF ClosureInv, StackInv
<1>2. /\ Len(stack') = Len(frames) /\ DOMAIN stack' = DOMAIN frames /\ Len(frames) \in Nat
      /\ \A i \in DOMAIN stack' : stack'[i].file = frames[i].file
  BY <1>1, ReturnIs
<1> QED BY <1>2, DepthIsNatural DEF ChainInv

LEMMA ChainStep == ClosureInv /\ ChainInv /\ [Link]_linkVars => ChainInv'
PROOF
<1> SUFFICES ASSUME ClosureInv, ChainInv, [Link]_linkVars PROVE ChainInv'
  OBVIOUS
<1>1. IsSequence(stack) /\ \A i \in DOMAIN stack : IsFrame(stack[i])
  BY DEF ClosureInv, StackInv
<1>2. Len(stack) \in Nat /\ DOMAIN stack = 1 .. Len(stack)
  BY <1>1 DEF IsSequence
<1>3. ASSUME AtSite PROVE stack # << >>
  BY <1>3 DEF AtSite, ClosureInv, StackInv
<1>4. CASE LinkFails \/ LinkCached \/ LinkTooDeep
  <2>1. (\E pin : stack' = Return(stack, pin)) /\ stack # << >>
    BY <1>3, <1>4 DEF LinkFails, LinkCached, LinkTooDeep
  <2> QED BY <1>1, <1>2, <2>1, ChainReturns
<1>5. CASE LinkEnter
  <2>1. /\ stack' = Append(stack, Frame(Site)) /\ Frame(Site).file = Site
        /\ ~OnStack(Site) /\ ~TooDeep
    BY <1>5 DEF LinkEnter, Frame
  <2>2. /\ Len(stack') = Len(stack) + 1 /\ DOMAIN stack' = 1 .. Len(stack) + 1
        /\ stack'[Len(stack) + 1] = Frame(Site)
        /\ \A i \in DOMAIN stack : stack'[i] = stack[i]
    BY <1>1, <2>1, AppendIs
  <2>3. \A i \in DOMAIN stack : stack[i].file # Site
    BY <2>1 DEF OnStack
  <2>4. Len(stack) <= MaxLinkDepth
    BY <1>2, <2>1, DepthIsNatural DEF TooDeep
  <2> QED BY <1>2, <2>1, <2>2, <2>3, <2>4, DepthIsNatural DEF ChainInv
<1>6. CASE CalleeDone
  <2> DEFINE below == Front(stack)
  <2>1. Len(stack) > 1 /\ \E pin : stack' = Return(below, pin)
    BY <1>6 DEF CalleeDone
  <2>2. stack # << >>
    BY <1>6 DEF CalleeDone, AtEnd, ClosureInv, StackInv
  <2>3. /\ IsSequence(below) /\ DOMAIN below \subseteq DOMAIN stack
        /\ Len(below) = Len(stack) - 1 /\ below # << >>
        /\ \A i \in DOMAIN below : below[i] = stack[i]
    <3>1. /\ IsSequence(below) /\ Len(stack) \in Nat \ {0} /\ Len(below) = Len(stack) - 1
          /\ DOMAIN below = 1 .. Len(stack) - 1
          /\ \A i \in DOMAIN below : below[i] = stack[i]
      BY <1>1, <2>2, FrontIs
    <3> HIDE DEF below
    <3>2. Len(below) # 0 /\ DOMAIN below \subseteq DOMAIN stack
      BY <1>2, <2>1, <3>1
    <3> QED BY <3>1, <3>2
  <2> HIDE DEF below
  <2> QED BY <1>2, <2>1, <2>3, ChainReturns
<1>7. CASE RootDone
  <2>1. stack' = << >>
    BY <1>7 DEF RootDone
  <2> QED BY <2>1, DepthIsNatural DEF ChainInv
<1>8. CASE UNCHANGED linkVars
  BY <1>8 DEF linkVars, ChainInv
<1> QED BY <1>4, <1>5, <1>6, <1>7, <1>8 DEF Link

(* However files link each other, in cycles too, the linker never compiles *)
(* a file inside itself and never goes deeper than MaxLinkDepth call edges *)
(* (subflow.rs:135-166): the recursion over the files ends.                *)
THEOREM ChainsAreBounded == LinkSpec => []ChainInv
PROOF
<1>1. ASSUME NEW root \in File PROVE LinkInit(root) => ClosureInv /\ ChainInv
  <2>1. LinkInit(root) => ChainInv
    BY DepthIsNatural DEF LinkInit, ChainInv
  <2> QED BY <2>1, ClosureStarts
<1>2. (\E root \in File : LinkInit(root)) => ClosureInv /\ ChainInv
  BY <1>1
<1> QED BY <1>2, ClosureStep, ChainStep, PTL DEF LinkSpec

-----------------------------------------------------------------------------
(* The session.  What reconcile answers is true although the daemon goes   *)
(* on writing the log while it is read page by page, and runners die and   *)
(* open sessions in between.                                               *)
Event == [ev : {"started", "completed"}, call : Call]
Cursor == [session : 0 .. MaxSessions, floor : Nat]
IsSession(s) ==
  s = [ id |-> s.id, status |-> s.status, features |-> s.features,
        actions |-> s.actions, dispatched |-> s.dispatched ]

Typed ==
  /\ IsSession(session) /\ session.id \in 0 .. MaxSessions
  /\ session.status # "none" => session.id # 0
  /\ events \in [1 .. MaxSessions -> Seq(Event)]
  /\ cursor \in Cursor
  /\ \A c \in DOMAIN issued : issued[c] \in Cursor
  /\ \A c \in DOMAIN wire :
       c \in Call /\ wire[c] \in [session : 1 .. MaxSessions, at : {"queued", "running"}]
  /\ scan \in [call : Call \union {"none"}, after : Nat, started : BOOLEAN]

(* A cursor points into the log of its session, of which there is one.     *)
CursorPoints ==
  /\ cursor.session \in {0, session.id}
  /\ cursor.session # 0 => cursor.floor <= Len(events[cursor.session])
  /\ \A c \in DOMAIN issued :
       issued[c].session # 0 => issued[c].floor <= Len(events[issued[c].session])

(* What the daemon holds or has logged of a call was dispatched in its     *)
(* session, after the cursor it was issued under, if there was one.        *)
WireIsIssued ==
  \A c \in DOMAIN wire : c \in DOMAIN issued /\ issued[c].session \in {0, wire[c].session}
EventFollowsCursor(s, i) ==
  LET c == events[s][i].call
  IN  /\ c \in DOMAIN issued
      /\ issued[c].session \in {0, s}
      /\ issued[c].session = s => i > issued[c].floor
LogFollowsCursor ==
  \A s \in 1 .. MaxSessions : \A i \in 1 .. Len(events[s]) : EventFollowsCursor(s, i)

(* A reconciliation in progress knows its log up to where it has read.     *)
Is(ev, call) == [ev |-> ev, call |-> call]
ReadSoFar(log, sc) ==
  /\ sc.after <= Len(log)
  /\ \A i \in 1 .. sc.after : log[i] # Is("completed", sc.call)
  /\ sc.started <=> \E i \in 1 .. sc.after : log[i] = Is("started", sc.call)
ScanIsExact ==
  scan # Idle =>
    /\ Active
    /\ scan.call \in DOMAIN issued /\ issued[scan.call].session = session.id
    /\ ReadSoFar(events[session.id], scan)

SessionInv == Typed /\ CursorPoints /\ WireIsIssued /\ LogFollowsCursor /\ ScanIsExact

-----------------------------------------------------------------------------
(* Steps that move nothing but the cursor, the session or the world.       *)
LEMMA LogsStay ==
  ASSUME SessionInv, UNCHANGED << wire, events, issued >>
  PROVE  WireIsIssued' /\ LogFollowsCursor'
PROOF
  BY DEF SessionInv, WireIsIssued, LogFollowsCursor, EventFollowsCursor

LEMMA OpenKeeps ==
  ASSUME SessionInv, NEW lk, NEW expected, NEW required, Open(lk, expected, required)
  PROVE  SessionInv'
PROOF
<1>1. /\ UNCHANGED << wire, events, issued >> /\ cursor' = NoCursor /\ scan' = Idle
      /\ session.id < MaxSessions
      /\ session'.id = session.id + 1 /\ IsSession(session') /\ session'.status = "open"
  BY DEF Open, IsSession
<1>2. Typed'
  BY <1>1, SessionsAreBounded DEF SessionInv, Typed, NoCursor, Idle, Cursor
<1>3. CursorPoints' /\ ScanIsExact'
  BY <1>1 DEF SessionInv, CursorPoints, ScanIsExact, NoCursor
<1> QED BY <1>1, <1>2, <1>3, LogsStay DEF SessionInv

LEMMA QuietKeeps ==
  ASSUME SessionInv, WorldChanges \/ TakeCursor \/ End \/ RunnerDies
  PROVE  SessionInv'
PROOF
<1>0. WireIsIssued' /\ LogFollowsCursor'
  BY LogsStay DEF WorldChanges, TakeCursor, End, RunnerDies
<1>1. CASE WorldChanges
  BY <1>0, <1>1 DEF WorldChanges, SessionInv, Typed, CursorPoints, ScanIsExact, Active
<1>2. CASE TakeCursor
  <2>1. /\ session.id \in 1 .. MaxSessions
        /\ cursor' = [session |-> session.id, floor |-> Len(events[session.id])]
        /\ UNCHANGED << session, wire, events, issued, scan >>
    BY <1>2, SessionsAreBounded DEF TakeCursor, Active, SessionInv, Typed
  <2>2. Typed'
    BY <2>1 DEF SessionInv, Typed, Cursor
  <2>3. CursorPoints' /\ ScanIsExact'
    BY <2>1 DEF SessionInv, Typed, CursorPoints, ScanIsExact, Active
  <2> QED BY <1>0, <2>2, <2>3 DEF SessionInv
<1>3. CASE End
  <2>1. /\ IsSession(session') /\ session'.id = session.id /\ session.status = "open"
        /\ UNCHANGED << wire, events, cursor, issued, scan >> /\ scan = Idle
    <3>1. PICK a, b, c, d, e : session = [ id |-> a, status |-> b, features |-> c,
                                           actions |-> d, dispatched |-> e ]
      BY DEF SessionInv, Typed, IsSession
    <3>2. session' = [ id |-> a, status |-> "ended", features |-> c,
                       actions |-> d, dispatched |-> e ]
      BY <1>3, <3>1 DEF End
    <3> QED BY <1>3, <3>1, <3>2 DEF End, Active, IsSession
  <2>2. Typed'
    BY <2>1 DEF SessionInv, Typed
  <2>3. CursorPoints' /\ ScanIsExact'
    BY <2>1 DEF SessionInv, CursorPoints, ScanIsExact
  <2> QED BY <1>0, <2>2, <2>3 DEF SessionInv
<1>4. CASE RunnerDies
  <2>1. /\ IsSession(session') /\ session'.id = session.id /\ session.status # "none"
        /\ UNCHANGED << wire, events, issued >> /\ scan' = Idle /\ cursor' = NoCursor
    <3>1. PICK a, b, c, d, e : session = [ id |-> a, status |-> b, features |-> c,
                                           actions |-> d, dispatched |-> e ]
      BY DEF SessionInv, Typed, IsSession
    <3>2. session' = [ id |-> a, status |-> "gone", features |-> c,
                       actions |-> d, dispatched |-> { } ]
      BY <1>4, <3>1 DEF RunnerDies
    <3> QED BY <1>4, <3>1, <3>2 DEF RunnerDies, IsSession
  <2>2. Typed'
    BY <2>1, SessionsAreBounded DEF SessionInv, Typed, Idle, NoCursor, Cursor
  <2>3. CursorPoints' /\ ScanIsExact'
    BY <2>1 DEF SessionInv, CursorPoints, ScanIsExact, NoCursor
  <2> QED BY <1>0, <2>2, <2>3 DEF SessionInv
<1> QED BY <1>1, <1>2, <1>3, <1>4

(* A new call: nothing of it is in any log yet.                            *)
LEMMA ExecuteKeeps ==
  ASSUME SessionInv, NEW call \in Call, Execute(call)
  PROVE  SessionInv'
PROOF
<1>1. /\ Active /\ scan = Idle /\ call \notin DOMAIN issued
      /\ DOMAIN issued' = DOMAIN issued \union {call}
      /\ \A c \in DOMAIN issued : issued'[c] = issued[c]
      /\ issued'[call] = cursor
      /\ UNCHANGED << events, cursor, scan >>
      /\ \A c \in DOMAIN wire' : \/ c \in DOMAIN wire /\ wire'[c] = wire[c]
                                 \/ c = call /\ wire'[c] = [session |-> session.id, at |-> "queued"]
  BY DEF Execute, SetAt
<1>2. IsSession(session') /\ session'.id = session.id /\ session'.status = session.status
  <2>1. PICK a, b, c, d, e : session = [ id |-> a, status |-> b, features |-> c,
                                         actions |-> d, dispatched |-> e ]
    BY DEF SessionInv, Typed, IsSession
  <2>2. session' = [ id |-> a, status |-> b, features |-> c,
                     actions |-> d, dispatched |-> e \union {call} ]
    BY <2>1 DEF Execute
  <2> QED BY <2>1, <2>2 DEF IsSession
<1>3. session.id \in 1 .. MaxSessions
  BY <1>1, SessionsAreBounded DEF Active, SessionInv, Typed
<1>4. Typed'
  BY <1>1, <1>2, <1>3 DEF SessionInv, Typed
<1>5. CursorPoints'
  BY <1>1, <1>2 DEF SessionInv, CursorPoints
<1>6. WireIsIssued'
  BY <1>1, <1>3 DEF SessionInv, WireIsIssued, CursorPoints
<1>7. LogFollowsCursor'
  BY <1>1 DEF SessionInv, LogFollowsCursor, EventFollowsCursor
<1>8. ScanIsExact'
  BY <1>1 DEF ScanIsExact
<1> QED BY <1>4, <1>5, <1>6, <1>7, <1>8 DEF SessionInv

(* The log of the session that holds a call grows.                         *)
LEMMA LogGrows ==
  ASSUME SessionInv, NEW call \in DOMAIN wire, NEW ev \in {"started", "completed"},
         Log(call, ev), UNCHANGED << session, cursor, issued, scan >>
  PROVE  /\ events' \in [1 .. MaxSessions -> Seq(Event)]
         /\ CursorPoints' /\ LogFollowsCursor' /\ ScanIsExact'
PROOF
<1> DEFINE home == wire[call].session
<1>1. /\ call \in Call /\ home \in 1 .. MaxSessions /\ events \in [1 .. MaxSessions -> Seq(Event)]
  BY DEF SessionInv, Typed
<1>2. Is(ev, call) \in Event /\ Is(ev, call).call = call
  BY <1>1 DEF Is, Event
<1>3. events' = [events EXCEPT ![home] = Append(events[home], Is(ev, call))]
  BY DEF Log, Is
<1>4. events' \in [1 .. MaxSessions -> Seq(Event)]
  BY <1>1, <1>2, <1>3
<1>5. \A s \in 1 .. MaxSessions :
        /\ Len(events[s]) \in Nat
        /\ Len(events'[s]) = IF s = home THEN Len(events[s]) + 1 ELSE Len(events[s])
        /\ \A i \in 1 .. Len(events[s]) : events'[s][i] = events[s][i]
        /\ s = home => events'[s][Len(events[s]) + 1] = Is(ev, call)
  BY <1>1, <1>2, <1>3
<1> HIDE DEF home
<1>6. CursorPoints'
  <2>1. \A k \in Cursor : k.session # 0 => k.session \in 1 .. MaxSessions
    BY SessionsAreBounded DEF Cursor
  <2>2. ASSUME NEW k \in Cursor, k.session # 0 => k.floor <= Len(events[k.session])
        PROVE  k.session # 0 => k.floor <= Len(events'[k.session])
    BY <1>5, <2>1, <2>2 DEF Cursor
  <2> QED BY <2>2 DEF SessionInv, Typed, CursorPoints
<1>7. LogFollowsCursor'
  <2> SUFFICES ASSUME NEW s \in 1 .. MaxSessions, NEW i \in 1 .. Len(events'[s])
               PROVE  EventFollowsCursor(s, i)'
    BY DEF LogFollowsCursor
  <2>1. CASE i \in 1 .. Len(events[s])
    <3>1. EventFollowsCursor(s, i)
      BY <2>1 DEF SessionInv, LogFollowsCursor
    <3>2. events'[s][i] = events[s][i]
      BY <1>5, <2>1
    <3> QED BY <3>1, <3>2 DEF EventFollowsCursor
  <2>2. CASE i \notin 1 .. Len(events[s])
    <3>1. s = home /\ i = Len(events[s]) + 1 /\ events'[s][i] = Is(ev, call)
      BY <1>5, <2>2
    <3>2. call \in DOMAIN issued /\ issued[call].session \in {0, home}
      BY DEF SessionInv, WireIsIssued, home
    <3>3. issued[call].session = home => i > issued[call].floor
      BY <1>1, <1>5, <3>1, <3>2, SMTT(60) DEF SessionInv, CursorPoints, Typed, Cursor
    <3> QED BY <1>2, <3>1, <3>2, <3>3 DEF EventFollowsCursor
  <2> QED BY <2>1, <2>2
<1>8. ScanIsExact'
  <2> SUFFICES ASSUME scan # Idle
               PROVE  /\ Active /\ scan.call \in DOMAIN issued
                      /\ issued[scan.call].session = session.id
                      /\ ReadSoFar(events'[session.id], scan)
    BY DEF ScanIsExact, Active
  <2>1. /\ Active /\ scan.call \in DOMAIN issued /\ issued[scan.call].session = session.id
        /\ ReadSoFar(events[session.id], scan)
    BY DEF SessionInv, ScanIsExact
  <2>2. session.id \in 1 .. MaxSessions /\ scan.after \in Nat
    BY <2>1, SessionsAreBounded DEF Active, SessionInv, Typed
  <2>3. /\ scan.after <= Len(events'[session.id])
        /\ \A i \in 1 .. scan.after : events'[session.id][i] = events[session.id][i]
    <3> DEFINE log == events[session.id]
    <3>1. /\ Len(log) \in Nat /\ Len(events'[session.id]) >= Len(log)
          /\ \A i \in 1 .. Len(log) : events'[session.id][i] = log[i]
      BY <1>5, <2>2, SMTT(60)
    <3>2. scan.after <= Len(log)
      BY <2>1 DEF ReadSoFar
    <3>3. Len(events'[session.id]) \in Nat
      BY <1>4, <2>2
    <3> HIDE DEF log
    <3>4. /\ scan.after <= Len(events'[session.id])
          /\ \A i \in 1 .. scan.after : events'[session.id][i] = log[i]
      BY <2>2, <3>1, <3>2, <3>3
    <3> QED BY <3>4 DEF log
  <2> QED BY <2>1, <2>3 DEF ReadSoFar
<1> QED BY <1>4, <1>6, <1>7, <1>8

LEMMA DaemonKeeps ==
  ASSUME SessionInv, NEW call \in Call, DaemonStarts(call) \/ DaemonCompletes(call)
  PROVE  SessionInv'
PROOF
<1>1. /\ call \in DOMAIN wire /\ UNCHANGED << session, cursor, issued, scan >>
      /\ DOMAIN wire' \subseteq DOMAIN wire
      /\ \A c \in DOMAIN wire' : wire'[c].session = wire[c].session
      /\ \A c \in DOMAIN wire' :
           wire'[c] \in [session : 1 .. MaxSessions, at : {"queued", "running"}]
  <2>1. /\ call \in DOMAIN wire /\ UNCHANGED << session, cursor, issued, scan >>
        /\ wire' = [wire EXCEPT ![call].at = "running"] \/ wire' = Without(wire, call)
    BY DEF DaemonStarts, DaemonCompletes
  <2>2. \A c \in DOMAIN wire : wire[c] \in [session : 1 .. MaxSessions, at : {"queued", "running"}]
    BY DEF SessionInv, Typed
  <2>3. CASE wire' = Without(wire, call)
    BY <2>1, <2>2, <2>3 DEF Without
  <2>4. CASE wire' = [wire EXCEPT ![call].at = "running"]
    <3>1. DOMAIN wire' = DOMAIN wire
      BY <2>4
    <3>2. \A c \in DOMAIN wire : c # call => wire'[c] = wire[c]
      BY <2>4
    <3>3. wire'[call] = [wire[call] EXCEPT !.at = "running"]
      BY <2>1, <2>4
    <3>4. /\ wire'[call].session = wire[call].session
          /\ wire'[call] \in [session : 1 .. MaxSessions, at : {"queued", "running"}]
      BY <2>1, <2>2, <3>3
    <3> QED BY <2>1, <2>2, <3>1, <3>2, <3>4
  <2> QED BY <2>1, <2>3, <2>4
<1>2. WireIsIssued'
  BY <1>1 DEF SessionInv, WireIsIssued
<1>3. CASE \E ev \in {"started", "completed"} : Log(call, ev)
  <2>1. events' \in [1 .. MaxSessions -> Seq(Event)] /\ CursorPoints' /\ LogFollowsCursor' /\ ScanIsExact'
    BY <1>1, <1>3, LogGrows
  <2>2. Typed'
    BY <1>1, <2>1 DEF SessionInv, Typed
  <2> QED BY <1>2, <2>1, <2>2 DEF SessionInv
<1>4. CASE UNCHANGED events
  <2>1. Typed' /\ CursorPoints' /\ LogFollowsCursor' /\ ScanIsExact'
    BY <1>1, <1>4 DEF SessionInv, Typed, CursorPoints, LogFollowsCursor, EventFollowsCursor,
                      ScanIsExact, Active
  <2> QED BY <1>2, <2>1 DEF SessionInv
<1> QED BY <1>3, <1>4 DEF DaemonStarts, DaemonCompletes

-----------------------------------------------------------------------------
LEMMA AnswerKeeps ==
  ASSUME SessionInv, NEW call, NEW fate, Answer(call, fate)
  PROVE  SessionInv' /\ answer' = [call |-> call, fate |-> fate] /\ UNCHANGED events
PROOF
<1>1. /\ UNCHANGED << session, wire, events, cursor, issued >> /\ scan' = Idle
      /\ answer' = [call |-> call, fate |-> fate]
  BY DEF Answer
<1>2. Typed' /\ CursorPoints' /\ ScanIsExact'
  BY <1>1 DEF SessionInv, Typed, Idle, CursorPoints, ScanIsExact
<1> QED BY <1>1, <1>2, LogsStay DEF SessionInv

(* At the floor of the cursor nothing of the call is in the log.           *)
LEMMA ScanStarts ==
  ASSUME SessionInv, NEW call \in Call, ReconcileScans(call)
  PROVE  SessionInv'
PROOF
<1>1. /\ Active /\ call \in DOMAIN issued /\ issued[call].session = session.id
      /\ scan' = [call |-> call, after |-> issued[call].floor, started |-> FALSE]
      /\ UNCHANGED << session, wire, events, cursor, issued >>
  BY DEF ReconcileScans, Asked, Foreign
<1>2. /\ session.id \in 1 .. MaxSessions /\ issued[call].floor \in Nat
      /\ issued[call].floor <= Len(events[session.id])
  BY <1>1, SessionsAreBounded DEF Active, SessionInv, Typed, Cursor, CursorPoints
<1>3. ASSUME NEW i \in 1 .. issued[call].floor
      PROVE  events[session.id][i].call # call
  <2>1. i \in 1 .. Len(events[session.id])
    BY <1>2, SessionsAreBounded DEF SessionInv, Typed
  <2> QED BY <1>1, <1>2, <2>1 DEF SessionInv, LogFollowsCursor, EventFollowsCursor
<1>4. ScanIsExact'
  <2>1. \A i \in 1 .. issued[call].floor, ev \in {"started", "completed"} :
          events[session.id][i] # Is(ev, call)
    BY <1>3 DEF Is
  <2>2. ReadSoFar(events[session.id], scan')
    BY <1>1, <1>2, <2>1 DEF ReadSoFar
  <2> QED BY <1>1, <2>2 DEF ScanIsExact, Active
<1>5. Typed' /\ CursorPoints'
  BY <1>1, <1>2 DEF SessionInv, Typed, CursorPoints
<1> QED BY <1>1, <1>4, <1>5, LogsStay DEF SessionInv

(* A page is what stands in the log between two positions.                 *)
LEMMA PageIs ==
  ASSUME NEW log \in Seq(Event), NEW after \in Nat, after <= Len(log),
         NEW to \in Nat, after <= to, to <= Len(log)
  PROVE  LET page == SubSeq(log, after + 1, to)
         IN  /\ Len(page) = to - after
             /\ \A e : Contains(page, e) <=> \E i \in after + 1 .. to : log[i] = e
PROOF
<1> DEFINE page == SubSeq(log, after + 1, to)
<1>1. /\ Len(page) = to - after /\ Len(page) \in Nat
      /\ \A k \in 1 .. Len(page) : page[k] = log[after + k]
  BY SubSeqProperties
<1> HIDE DEF page
<1>2. ASSUME NEW e, Contains(page, e) PROVE \E i \in after + 1 .. to : log[i] = e
  <2>1. PICK k \in 1 .. Len(page) : page[k] = e
    BY <1>2 DEF Contains
  <2>2. after + k \in after + 1 .. to /\ log[after + k] = e
    BY <1>1, <2>1
  <2> QED BY <2>2
<1>3. ASSUME NEW e, NEW i \in after + 1 .. to, log[i] = e PROVE Contains(page, e)
  <2>1. i - after \in 1 .. Len(page) /\ page[i - after] = e
    BY <1>1, <1>3
  <2> QED BY <2>1 DEF Contains
<1> QED BY <1>1, <1>2, <1>3 DEF page

(* The one step that has something to say.                                 *)
LEMMA PageKeeps ==
  ASSUME SessionInv, ScanPage
  PROVE  SessionInv' /\ (answer' # answer => Truthful(answer'))
PROOF
<1> DEFINE log == events[session.id]
<1> DEFINE call == scan.call
<1> DEFINE to == IF scan.after + PageSize < Len(log) THEN scan.after + PageSize ELSE Len(log)
<1> DEFINE page == SubSeq(log, scan.after + 1, to)
<1> DEFINE Seen(ev) == Contains(page, Is(ev, call))
<1> DEFINE started == scan.started \/ Seen("started")
<1>1. /\ Active /\ scan # Idle /\ call \in DOMAIN issued /\ issued[call].session = session.id
      /\ ReadSoFar(log, scan) /\ scan.after \in Nat /\ scan.started \in BOOLEAN
      /\ scan \in [call : Call \union {"none"}, after : Nat, started : BOOLEAN]
  BY DEF ScanPage, SessionInv, ScanIsExact, Typed
<1>2. session.id \in 1 .. MaxSessions /\ log \in Seq(Event) /\ Len(log) \in Nat
  <2>1. session.id \in 1 .. MaxSessions
    BY <1>1, SessionsAreBounded DEF Active, SessionInv, Typed
  <2>2. log \in Seq(Event)
    BY <2>1 DEF SessionInv, Typed
  <2> HIDE DEF log
  <2> QED BY <2>1, <2>2
<1>3. \/ Seen("completed") /\ Answer(call, "completed")
      \/ /\ Len(page) < PageSize /\ ~Seen("completed")
         /\ Answer(call, IF started THEN "startedNoTerminal" ELSE "neverDispatched")
      \/ /\ Len(page) >= PageSize \/ ~(Len(page) < PageSize) 
         /\ ~Seen("completed")
         /\ scan' = [scan EXCEPT !.after = @ + Len(page), !.started = started]
         /\ UNCHANGED << world, session, wire, events, cursor, issued, answer >>
  BY DEF ScanPage, Is
<1>4. to \in Nat /\ scan.after <= to /\ to <= Len(log)
  <2> HIDE DEF log
  <2> QED BY <1>1, <1>2, PagesHoldEvents DEF ReadSoFar
<1> HIDE DEF log, to
<1>5. /\ Len(page) = to - scan.after
      /\ \A ev : Seen(ev) <=> \E i \in scan.after + 1 .. to : log[i] = Is(ev, call)
  <2>1. /\ Len(page) = to - scan.after
        /\ \A e : Contains(page, e) <=> \E i \in scan.after + 1 .. to : log[i] = e
    <3>1. log \in Seq(Event) /\ scan.after \in Nat /\ scan.after <= Len(log)
      BY <1>1, <1>2, <1>4
    <3> QED BY <1>4, <3>1, PageIs, SMTT(60)
  <2> HIDE DEF page
  <2> QED BY <2>1
<1> HIDE DEF page
<1>6. /\ ~Seen("completed") => \A i \in 1 .. to : log[i] # Is("completed", call)
      /\ started <=> \E i \in 1 .. to : log[i] = Is("started", call)
  <2>1. \A i \in 1 .. to : i \in 1 .. scan.after \/ i \in scan.after + 1 .. to
    BY <1>1, <1>4
  <2>2. /\ \A i \in 1 .. scan.after : i \in 1 .. to
        /\ \A i \in scan.after + 1 .. to : i \in 1 .. to
    BY <1>1, <1>4
  <2> HIDE DEF Seen
  <2> QED BY <1>1, <1>5, <2>1, <2>2 DEF ReadSoFar
<1>7. \A ev : Logged(ev, call) <=> \E i \in 1 .. Len(log) : log[i] = Is(ev, call)
  <2>1. ASSUME NEW ev, Logged(ev, call)
        PROVE  \E i \in 1 .. Len(log) : log[i] = Is(ev, call)
    <3>0. PICK s \in 1 .. MaxSessions : Contains(events[s], Is(ev, call))
      BY <2>1 DEF Logged, Is, SessionInv, Typed
    <3>1. PICK i \in 1 .. Len(events[s]) : events[s][i] = Is(ev, call)
      BY <3>0 DEF Contains
    <3>2. EventFollowsCursor(s, i) /\ events[s][i].call = call
      BY <3>1 DEF SessionInv, LogFollowsCursor, Is
    <3>3. s = session.id
      BY <1>1, <1>2, <3>2 DEF EventFollowsCursor
    <3> QED BY <3>1, <3>3 DEF log
  <2>2. ASSUME NEW ev, NEW i \in 1 .. Len(log), log[i] = Is(ev, call)
        PROVE  Logged(ev, call)
    <3>1. session.id \in DOMAIN events
      BY <1>2 DEF SessionInv, Typed
    <3> QED BY <2>2, <3>1 DEF Logged, Contains, Is, log
  <2> QED BY <2>1, <2>2
<1>8. CASE Seen("completed") /\ Answer(call, "completed")
  <2>1. SessionInv' /\ answer' = [call |-> call, fate |-> "completed"]
    BY <1>8, AnswerKeeps
  <2>2. Logged("completed", call)
    <3>1. \A i \in scan.after + 1 .. to : i \in 1 .. Len(log)
      BY <1>1, <1>2, <1>4
    <3> QED BY <1>5, <1>7, <1>8, <3>1
  <2> QED BY <2>1, <2>2 DEF Truthful
<1>9. CASE /\ Len(page) < PageSize /\ ~Seen("completed")
           /\ Answer(call, IF started THEN "startedNoTerminal" ELSE "neverDispatched")
  <2>1. to = Len(log)
    BY <1>1, <1>2, <1>4, <1>5, <1>9, PagesHoldEvents DEF to
  <2>2. ~Logged("completed", call) /\ (started <=> Logged("started", call))
    BY <1>6, <1>7, <1>9, <2>1
  <2> DEFINE fate == IF started THEN "startedNoTerminal" ELSE "neverDispatched"
  <2>3. SessionInv' /\ answer' = [call |-> call, fate |-> fate]
    BY <1>9, AnswerKeeps
  <2>4. Truthful([call |-> call, fate |-> fate])
    BY <2>2 DEF Truthful
  <2> QED BY <2>3, <2>4
<1>10. CASE /\ ~Seen("completed")
            /\ scan' = [scan EXCEPT !.after = @ + Len(page), !.started = started]
            /\ UNCHANGED << world, session, wire, events, cursor, issued, answer >>
  <2>4. started \in BOOLEAN
    BY <1>6
  <2> HIDE DEF Seen, started
  <2>1. scan' = [call |-> call, after |-> to, started |-> started]
    <3>1. scan.after + Len(page) = to
      BY <1>1, <1>4, <1>5
    <3>2. scan' = [scan EXCEPT !.after = to, !.started = started]
      BY <1>10, <3>1
    <3> QED BY <1>1, <3>2
  <2>2. scan'.call = call /\ scan'.after = to /\ scan'.started = started
    BY <2>1
  <2>3. ScanIsExact'
    <3>1. ReadSoFar(log, scan')
      BY <1>4, <1>6, <1>10, <2>2 DEF ReadSoFar
    <3>2. log = events'[session'.id]
      BY <1>10 DEF log
    <3> HIDE DEF call
    <3>3. call = scan.call
      BY DEF call
    <3> QED BY <1>1, <1>10, <2>2, <3>1, <3>2, <3>3 DEF ScanIsExact, Active
  <2>6. scan' \in [call : Call \union {"none"}, after : Nat, started : BOOLEAN]
    BY <1>1, <1>4, <2>1, <2>4
  <2>5. Typed' /\ CursorPoints'
    BY <1>10, <2>6 DEF SessionInv, Typed, CursorPoints
  <2> QED BY <1>10, <2>3, <2>5, LogsStay DEF SessionInv
<1> QED BY <1>3, <1>8, <1>9, <1>10

-----------------------------------------------------------------------------
LEMMA SessionStep ==
  ASSUME SessionInv,
         [SessionNext \/ \E lk, expected, required : Open(lk, expected, required)]_sessionVars
  PROVE  SessionInv' /\ (answer' # answer => Truthful(answer'))
PROOF
<1>1. CASE \E lk, expected, required : Open(lk, expected, required)
  BY <1>1, OpenKeeps DEF Open
<1>2. CASE WorldChanges \/ TakeCursor \/ End \/ RunnerDies
  BY <1>2, QuietKeeps DEF WorldChanges, TakeCursor, End, RunnerDies
<1>3. CASE \E call \in Call : Execute(call)
  BY <1>3, ExecuteKeeps DEF Execute
<1>4. CASE \E call \in Call : DaemonStarts(call) \/ DaemonCompletes(call)
  BY <1>4, DaemonKeeps DEF DaemonStarts, DaemonCompletes
<1>5. ASSUME NEW call, Answer(call, "logUnavailable")
      PROVE  SessionInv' /\ Truthful(answer')
  <2>1. SessionInv' /\ answer' = [call |-> call, fate |-> "logUnavailable"]
    BY <1>5, AnswerKeeps
  <2> QED BY <2>1 DEF Truthful
<1>6. CASE ScanFails \/ \E call \in Call : ReconcileUnavailable(call)
  BY <1>5, <1>6 DEF ScanFails, ReconcileUnavailable
<1>7. CASE \E call \in Call : ReconcileScans(call)
  BY <1>7, ScanStarts DEF ReconcileScans
<1>8. CASE ScanPage
  BY <1>8, PageKeeps
<1>9. CASE UNCHANGED sessionVars
  BY <1>9 DEF sessionVars, SessionInv, Typed, CursorPoints, WireIsIssued, LogFollowsCursor,
              EventFollowsCursor, ScanIsExact, Active
<1> QED BY <1>1, <1>2, <1>3, <1>4, <1>6, <1>7, <1>8, <1>9 DEF SessionNext

LEMMA SessionStarts == SessionInit => SessionInv
PROOF
<1> SUFFICES ASSUME SessionInit PROVE SessionInv
  OBVIOUS
<1>1. /\ session.id = 0 /\ session.status = "none" /\ IsSession(session)
      /\ wire = << >> /\ issued = << >> /\ scan = Idle /\ cursor = NoCursor
      /\ events = [i \in 1 .. MaxSessions |-> << >>]
  BY DEF SessionInit, IsSession
<1>2. events \in [1 .. MaxSessions -> Seq(Event)] /\ \A s \in 1 .. MaxSessions : Len(events[s]) = 0
  BY <1>1
<1>3. Typed
  BY <1>1, <1>2, SessionsAreBounded DEF Typed, NoCursor, Cursor, Idle
<1> QED BY <1>1, <1>2, <1>3
        DEF SessionInv, CursorPoints, NoCursor, WireIsIssued, LogFollowsCursor, ScanIsExact

(* For any calls, sessions and page size: neverDispatched is answered only *)
(* of a call no session ever started, a terminal only when one is logged,  *)
(* startedNoTerminal only while there is none (session.rs:440-560,         *)
(* scan.rs), though the log grows under the scan and runners come and go.  *)
THEOREM ReconcileIsTruthful == SessionSpec => AnswersAreTruthful
PROOF
<1>1. SessionInv /\ [SessionNext \/ \E lk, expected, required :
                       Open(lk, expected, required)]_sessionVars
        => SessionInv' /\ [answer' # answer => Truthful(answer')]_answer
  BY SessionStep
<1> QED BY <1>1, SessionStarts, PTL DEF SessionSpec, AnswersAreTruthful
=============================================================================
