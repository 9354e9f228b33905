------------------------------- MODULE Lockfile -------------------------------
(***************************************************************************)
(* Capability lockfiles and the handshake they attest                      *)
(* (crates/pointlock-provider-kit/src/lockfile.rs, provider-devicerail's   *)
(* lock.rs and manifest.rs).                                               *)
(*                                                                         *)
(* A world is what a daemon and its device would answer today:             *)
(* [protocol, support, platform, actions, protected].  A lockfile is what  *)
(* they answered once, with a digest over it; a digest is the content it   *)
(* covers.  The attestation time is no part of it and is left out.         *)
(***************************************************************************)
EXTENDS Integers, Sequences, FiniteSets

ProviderName == "devicerail"

Semantic == "device.semanticActions.v1"
UiSnapshot == "observation.uiSnapshot.v1"
VerdictRecord == "verdict.record.v1"
InfraRequired == {"device.routing.v1", "events.snapshot.v1", "request.control.v1"}
OfferedOptional == {Semantic, UiSnapshot, VerdictRecord}

(* Hello fails unless every required feature is there; it enables those,   *)
(* and of the offered ones those the daemon has.                           *)
Negotiates(world, required) == InfraRequired \union required \subseteq world.support
Enabled(world, required) ==
  InfraRequired \union required \union (OfferedOptional \intersect world.support)

Content(lock) ==
  << lock.provider, lock.protocol, lock.features, lock.platform, lock.actions, lock.protected >>
DigestConsistent(lock) == lock.digest = Content(lock)

MakeLockfile(world, required) ==
  LET open == [ provider |-> ProviderName, protocol |-> world.protocol,
                features |-> Enabled(world, required), platform |-> world.platform,
                actions |-> world.actions, protected |-> world.protected ]
  IN  [ provider |-> open.provider, protocol |-> open.protocol, features |-> open.features,
        platform |-> open.platform, actions |-> open.actions, protected |-> open.protected,
        digest |-> Content(open) ]
=============================================================================
