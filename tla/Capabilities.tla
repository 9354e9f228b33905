----------------------------- MODULE Capabilities -----------------------------
(***************************************************************************)
(* From source files to an open session: a root is compiled with all it    *)
(* links (Linker, each file bound to the lockfile by Bind), loaded by the  *)
(* runner and given a session of a world that may have changed since       *)
(* (Session).  What the run then asks of its session is read off the       *)
(* flows, as the engine walks them, and not taken from the compiler.       *)
(*                                                                         *)
(* Once loaded, what the session needs of the flow is kept in `held`, and  *)
(* the compiler is gone.  What check and the loader accept is given here   *)
(* and defined in Provision.                                               *)
(***************************************************************************)
EXTENDS Linker, Bind, Session

CONSTANTS
  Normal,             \* what normalization makes of each file
  CheckAccepts(_, _), \* CheckAccepts(f, pins): check accepts file f with these pins
  LoaderAccepts(_, _, _),
                      \* LoaderAccepts(flows, root, lock): the sealed closure loads
  Projects,           \* what is compiled: [root, lock]
  Locks               \* the lockfiles a runner may hold

ASSUME RootsAreFiles == \A p \in Projects : p.root \in File
ASSUME NoDigestIsNone == \A lk \in Locks : lk.digest # None   \* a digest is a hash

VARIABLE held   \* [digest, pinned, needs, asks] of the loaded flow, or Unloaded

vars == << linkVars, sessionVars, held >>

Unloaded == [ digest |-> None, pinned |-> { }, needs |-> { },
              asks |-> [features |-> { }, actions |-> { }] ]

(* What the linker is told of the other phases.                            *)
PhasesAccept(f, pins, lk) ==
  LET flow == Normal[f] IN CheckAccepts(f, pins) /\ BindGood(flow, lk)
PhasesNeed(f, pins, lk) ==
  LET flow == Normal[f] IN BindNeeds(flow, lk)

(* The digest a flow is sealed with.  Without a lockfile the code seals a  *)
(* digest of the provider's manifest, which no lockfile has: None here.    *)
DigestOf(lk) == IF lk = None THEN None ELSE lk.digest
Closure == compiled \union {result.flow}

(* check_attestation: every flow at hand was compiled against what the     *)
(* session attests.                                                        *)
AttestationAgrees(digests, attested) == \A d \in digests : d = attested

-----------------------------------------------------------------------------
(* What a run asks of its session, read off the flow as the engine walks   *)
(* it: actions to execute, snapshots of the tree to verify with, and the   *)
(* record of its verdict (runner/engine.rs).                               *)
ActionsAsked(s, lk) ==
  CASE s.kind # "action" -> { }
    [] s.kind = "action" /\ s.head = "verb" ->
         { IF channel = "coordinate" THEN "tap" ELSE SemanticAction[s.action]
           : channel \in Range(ChainOr(s.via, lk)) }
    [] s.kind = "action" /\ s.head # "verb" -> {s.action}
TreesAsked(s, lk) ==
  \E a \in Range(s.pre) \union Range(s.expect) : "uiTree" \in Range(VerifyChain(a, lk))

(* The daemon executes a semantic action only where that was negotiated.   *)
Asks(flows, lk) ==
  LET steps == UNION { AllSteps(Normal[c.file].steps) : c \in flows }
      actions == UNION { ActionsAsked(s, lk) : s \in steps }
  IN  [ actions  |-> actions,
        features |-> {VerdictRecord}
                       \union (UNION { ActionNeeds(a) : a \in actions })
                       \union (IF \E s \in steps : TreesAsked(s, lk) THEN {UiSnapshot} ELSE { }) ]

-----------------------------------------------------------------------------
Init ==
  /\ \E p \in Projects : LinkInit(p.root) /\ lock = p.lock
  /\ SessionInit
  /\ held = Unloaded

Compile == Link /\ UNCHANGED << sessionVars, held >>

(* run_flow loads before it opens a session; a flow that does not load is  *)
(* never held.                                                             *)
LoadFlow ==
  /\ result.status = "sealed"
  /\ LoaderAccepts(compiled, result.flow, lock)
  /\ held' = [ digest |-> DigestOf(lock), pinned |-> { DigestOf(lock) : c \in compiled },
               needs |-> result.flow.needs, asks |-> Asks(Closure, lock) ]
  /\ result' = [status |-> "loaded"]
  /\ lock' = None /\ stack' = << >> /\ cache' = << >> /\ registry' = << >> /\ compiled' = { }
  /\ UNCHANGED sessionVars

OpenSession(lk) ==
  /\ held # Unloaded
  /\ Open(lk, held.digest, held.needs)
  /\ AttestationAgrees(held.pinned, held.digest)
  /\ UNCHANGED << linkVars, held >>

(* A session is used only once the flow has one.                           *)
UseSession ==
  /\ held # Unloaded
  /\ SessionNext
  /\ UNCHANGED << linkVars, held >>

Next == Compile \/ LoadFlow \/ (\E lk \in Locks : OpenSession(lk)) \/ UseSession

Spec == Init /\ [][Next]_vars

-----------------------------------------------------------------------------
(* A flow whose session opened never meets a capability that is not there: *)
(* not at a step, in a callee or in a repair, nor when the verdict is      *)
(* recorded, whatever became of the world since it was compiled.           *)
NoDriftOnceOpen ==
  Active /\ held # Unloaded =>
    /\ held.asks.features \subseteq session.features
    /\ held.asks.actions \subseteq session.actions \union SyntheticActions
=============================================================================
