-------------------------------- MODULE Linker --------------------------------
(***************************************************************************)
(* The subflow linker of one compile (crates/pointlock-compiler/src/       *)
(* subflow.rs, lib.rs): a depth-first compilation of the files a root      *)
(* links, with a stack of the files being compiled, a cache of the ones    *)
(* that are, and a registry of one content per flow id.                    *)
(*                                                                         *)
(* What the other phases make of a file is given: Sites, the links its     *)
(* normalization meets, in order; Accepts, whether check, binding and      *)
(* sealing accept it with the pins its links returned; Needs, the features *)
(* it needs of itself.  A content hash is the content: the text and what   *)
(* it pins.  A callee that fails leaves NoPin at its site and fails its    *)
(* caller in the end; the rest of the caller is linked all the same.       *)
(***************************************************************************)
EXTENDS Integers, Sequences, FiniteSets, SequencesExt

CONSTANTS
  File,            \* source files
  Sites,           \* Sites[f]: the files f links, in order; NoFile if unresolvable
  TextOf,          \* TextOf[f]: what is written in f
  FlowOf,          \* FlowOf[f]: the flow id it declares
  Needs(_, _, _),  \* Needs(f, pins, lock): features f needs of itself
  Accepts(_, _, _),\* Accepts(f, pins, lock): the phases after normalization succeed
  Sound,           \* files whose own normalization succeeds
  NoFile, NoPin,
  MaxLinkDepth     \* MAX_CALL_DEPTH: call edges on a chain

ASSUME SitesAreFiles == Sites \in [File -> Seq(File \union {NoFile})]
ASSUME DepthIsNatural == MaxLinkDepth \in Nat
ASSUME NoFileIsNone == NoFile \notin File

VARIABLES
  lock,       \* the lockfile, shared closure-wide
  stack,      \* frames [file, pins]: the compilations in progress, root first
  cache,      \* file -> pin, of the files compiled so far
  registry,   \* flow id -> content
  compiled,   \* every compiled callee: [flow, hash, needs, pins, file]
  result      \* [status]: linking, refused, or sealed, then with the root's flow

linkVars == << lock, stack, cache, registry, compiled, result >>

Frame(f) == [file |-> f, pins |-> << >>]
Top == Last(stack)
OnStack(f) == \E i \in DOMAIN stack : stack[i].file = f

LinkInit(root) ==
  /\ stack = << Frame(root) >>
  /\ cache = << >>
  /\ registry = << >>
  /\ compiled = { }
  /\ result = [status |-> "linking"]

(* The site the topmost compilation stands at.                             *)
AtSite == result.status = "linking" /\ Len(Top.pins) < Len(Sites[Top.file])
Site == Sites[Top.file][Len(Top.pins) + 1]
AtEnd == result.status = "linking" /\ Len(Top.pins) = Len(Sites[Top.file])

Return(frames, pin) == [frames EXCEPT ![Len(frames)].pins = Append(@, pin)]

-----------------------------------------------------------------------------
(* The path does not resolve, or the file is being compiled further up.    *)
LinkFails ==
  /\ AtSite
  /\ Site = NoFile \/ OnStack(Site)
  /\ stack' = Return(stack, NoPin)
  /\ UNCHANGED << lock, cache, registry, compiled, result >>

(* A file compiled before is not compiled again, however deep the chain    *)
(* that reaches it now.                                                    *)
LinkCached ==
  /\ AtSite
  /\ Site # NoFile /\ ~OnStack(Site)
  /\ Site \in DOMAIN cache
  /\ stack' = Return(stack, cache[Site])
  /\ UNCHANGED << lock, cache, registry, compiled, result >>

(* The root occupies the first place of the stack.                         *)
TooDeep == Len(stack) > MaxLinkDepth

LinkTooDeep ==
  /\ AtSite
  /\ Site # NoFile /\ ~OnStack(Site) /\ Site \notin DOMAIN cache
  /\ TooDeep
  /\ stack' = Return(stack, NoPin)
  /\ UNCHANGED << lock, cache, registry, compiled, result >>

LinkEnter ==
  /\ AtSite
  /\ Site # NoFile /\ ~OnStack(Site) /\ Site \notin DOMAIN cache
  /\ ~TooDeep
  /\ stack' = Append(stack, Frame(Site))
  /\ UNCHANGED << lock, cache, registry, compiled, result >>

-----------------------------------------------------------------------------
(* The rest of a compilation, once all its links have returned.            *)
Succeeds(frame) ==
  /\ frame.file \in Sound
  /\ \A i \in DOMAIN frame.pins : frame.pins[i] # NoPin
  /\ Accepts(frame.file, frame.pins, lock)

(* Mutant of NeedsOf: a caller does not take over what its callees need.   *)
NeedsOwn(frame) == Needs(frame.file, frame.pins, lock)

NeedsOf(frame) ==
  Needs(frame.file, frame.pins, lock)
    \union UNION { frame.pins[i].needs : i \in DOMAIN frame.pins }

Sealed(frame) ==
  [ flow  |-> FlowOf[frame.file],
    hash  |-> << TextOf[frame.file], [i \in DOMAIN frame.pins |-> frame.pins[i].hash] >>,
    needs |-> NeedsOf(frame),
    file  |-> frame.file,
    pins  |-> frame.pins ]

(* Mutant of Conflicts: two versions of one flow id pass.                  *)
ConflictsNever(sealed) == FALSE

Conflicts(sealed) == sealed.flow \in DOMAIN registry /\ registry[sealed.flow] # sealed.hash

PinOf(sealed) ==
  [flow |-> sealed.flow, hash |-> sealed.hash, needs |-> sealed.needs, file |-> sealed.file]

CalleeDone ==
  LET sealed == Sealed(Top)
      below == Front(stack)
  IN  /\ AtEnd
      /\ Len(stack) > 1
      /\ IF Succeeds(Top) /\ ~Conflicts(sealed)
         THEN /\ stack' = Return(below, PinOf(sealed))
              /\ cache' = [f \in DOMAIN cache \union {Top.file} |->
                             IF f = Top.file THEN PinOf(sealed) ELSE cache[f]]
              /\ registry' = [i \in DOMAIN registry \union {sealed.flow} |->
                                IF i = sealed.flow THEN sealed.hash ELSE registry[i]]
              /\ compiled' = compiled \union {sealed}
         ELSE /\ stack' = Return(below, NoPin)
              /\ UNCHANGED << cache, registry, compiled >>
      /\ UNCHANGED << lock, result >>

RootDone ==
  /\ AtEnd
  /\ Len(stack) = 1
  /\ result' = IF Succeeds(Top) THEN [status |-> "sealed", flow |-> Sealed(Top)]
                                ELSE [status |-> "refused"]
  /\ stack' = << >>
  /\ UNCHANGED << lock, cache, registry, compiled >>

Link == LinkFails \/ LinkCached \/ LinkTooDeep \/ LinkEnter \/ CalleeDone \/ RootDone

LinkSpec == (\E root \in File : LinkInit(root)) /\ [][Link]_linkVars

-----------------------------------------------------------------------------
OneContentPerFlow == \A c, d \in compiled : c.flow = d.flow => c.hash = d.hash
PinsAreCompiled(c) == \A i \in DOMAIN c.pins : \E d \in compiled : PinOf(d) = c.pins[i]
NeedsAreCovered(c) == \A i \in DOMAIN c.pins : c.pins[i].needs \subseteq c.needs
SealedRoot == IF result.status = "sealed" THEN {result.flow} ELSE { }

(* Whatever the graph of links, in the order the linker meets it: of one   *)
(* flow id one content is compiled, every flow pins what was compiled, and *)
(* it requires what its callees and repairs require (subflow.rs:107-256).  *)
ClosureIsSound ==
  OneContentPerFlow /\ \A c \in compiled \union SealedRoot : PinsAreCompiled(c) /\ NeedsAreCovered(c)
=============================================================================
