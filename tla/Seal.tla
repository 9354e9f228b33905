--------------------------------- MODULE Seal ---------------------------------
(***************************************************************************)
(* Sealing a bound flow (crates/pointlock-compiler/src/seal.rs): the tree  *)
(* the runner loads, with the table of the flows it pins.                  *)
(*                                                                         *)
(* pins[link] is what the linker returned for a link.  Attempts, source    *)
(* map and hashes are left out: the hash of a flow is the linker's.        *)
(***************************************************************************)
EXTENDS Check

PinRef(pin) == [flow |-> pin.flow, hash |-> pin.hash]

HookName ==
  [ on_fail |-> "onFail", on_unknown |-> "onUnknown", on_error |-> "onError",
    on_resume_drift |-> "onResumeDrift" ]

SealHandlers(handlers, pins) ==
  Each(LAMBDA h : [ hook   |-> HookName[h.hook],
                    action |-> h.action,
                    human  |-> h.human,
                    ref    |-> IF h.action = "repair" THEN PinRef(pins[h.link]) ELSE None ],
       handlers)

(* One entry per flow id; of two pins of one id the later one stays.       *)
Subflows(links, pins) ==
  FoldLeft(LAMBDA table, link : { r \in table : r.flow # pins[link].flow } \union {PinRef(pins[link])},
           { }, links)

RECURSIVE SealSteps(_, _)
SealStep(s, pins) ==
  [ id       |-> s.id,
    kind     |-> s.kind,
    handlers |-> SealHandlers(s.handlers, pins),
    human    |-> s.human,
    ref      |-> IF s.kind = "call" THEN PinRef(pins[s.link]) ELSE None,
    then     |-> SealSteps(s.then, pins),
    else     |-> SealSteps(s.else, pins),
    body     |-> SealSteps(s.body, pins) ]
SealSteps(steps, pins) == Each(LAMBDA s : SealStep(s, pins), steps)

SealFlow(flow, pins, hash, digest) ==
  [ flow     |-> flow.flow,
    hash     |-> hash,
    digest   |-> digest,
    subflows |-> Subflows(flow.links, pins),
    handlers |-> SealHandlers(flow.handlers, pins),
    body     |-> SealSteps(flow.steps, pins) ]
=============================================================================
