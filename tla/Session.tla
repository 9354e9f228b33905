-------------------------------- MODULE Session --------------------------------
(***************************************************************************)
(* A DeviceRail provider session (crates/pointlock-provider-devicerail/    *)
(* src/provider.rs, session.rs, scan.rs), the daemon behind it and the     *)
(* event log of each session, which only the daemon writes.                *)
(*                                                                         *)
(* The runner opens a session, takes a cursor into its log, dispatches     *)
(* calls under it, and may die at any time; the daemon goes on with what   *)
(* it received.  A later session, or this one, is asked what became of a   *)
(* call: reconcile reads the log page by page.                             *)
(*                                                                         *)
(* Abstracted: what the daemon answers a call itself, observations,        *)
(* evidence, budgets; a refused opening or request changes nothing here.   *)
(***************************************************************************)
EXTENDS Lockfile, SequencesExt

CONSTANTS
  Call,         \* call ids the runner generates, each used once
  Worlds,       \* what daemon and device may answer
  MaxSessions,  \* bound of the sessions opened
  PageSize      \* SCAN_PAGE_LIMIT

ASSUME PagesHoldEvents == PageSize \in Nat \ {0}
ASSUME SessionsAreBounded == MaxSessions \in Nat

VARIABLES
  world,    \* what a daemon spawned now would answer
  session,  \* [id, status, features, actions, dispatched]
  wire,     \* call -> queued or running, of the calls the daemon holds
  events,   \* session id -> its log, a sequence of [ev, call]
  cursor,   \* the runner's cursor, [session, floor]
  issued,   \* call -> the cursor in force when it was dispatched
  scan,     \* a reconciliation in progress, [call, after, started]
  answer    \* the last answer of reconcile, [call, fate]

sessionVars == << world, session, wire, events, cursor, issued, scan, answer >>

NoCursor == [session |-> 0, floor |-> 0]
Idle == [call |-> "none", after |-> 0, started |-> FALSE]

SessionInit ==
  /\ world = CHOOSE w \in Worlds : TRUE   \* it may change before anything opens
  /\ session = [id |-> 0, status |-> "none", features |-> { }, actions |-> { }, dispatched |-> { }]
  /\ wire = << >>
  /\ events = [i \in 1 .. MaxSessions |-> << >>]
  /\ cursor = NoCursor
  /\ issued = << >>
  /\ scan = Idle
  /\ answer = [call |-> "none", fate |-> "none"]

Active == session.status = "open"
SetAt(f, x, v) == [y \in DOMAIN f \union {x} |-> IF y = x THEN v ELSE f[y]]
Without(f, x) == [y \in DOMAIN f \ {x} |-> f[y]]

-----------------------------------------------------------------------------
(* Opening.                                                                *)

(* A running daemon answers as it did when it was spawned.                 *)
WorldChanges ==
  /\ ~Active
  /\ world' \in Worlds \ {world}
  /\ UNCHANGED << session, wire, events, cursor, issued, scan, answer >>

(* DeviceRailProvider::new, open_session, open_inner: the lockfile at hand *)
(* is sound and the one the flow was compiled against, the daemon agrees   *)
(* to the required features, and what it attests now has the same digest.  *)
Open(held, expected, required) ==
  LET live == MakeLockfile(world, required)
  IN  /\ ~Active
      /\ session.id < MaxSessions
      /\ held.provider = ProviderName
      /\ DigestConsistent(held)
      /\ held.digest = expected
      /\ Negotiates(world, required)
      /\ live.digest = expected
      /\ session' = [ id |-> session.id + 1, status |-> "open", features |-> live.features,
                      actions |-> live.actions, dispatched |-> { } ]
      /\ cursor' = NoCursor
      /\ scan' = Idle
      /\ UNCHANGED << world, wire, events, issued, answer >>

(* current_cursor: the end of the log as it is.                            *)
TakeCursor ==
  /\ Active
  /\ cursor' = [session |-> session.id, floor |-> Len(events[session.id])]
  /\ UNCHANGED << world, session, wire, events, issued, scan, answer >>

End ==
  /\ Active /\ scan = Idle
  /\ session' = [session EXCEPT !.status = "ended"]
  /\ UNCHANGED << world, wire, events, cursor, issued, scan, answer >>

RunnerDies ==
  /\ session.status \in {"open", "ended"}
  /\ session' = [session EXCEPT !.status = "gone", !.dispatched = { }]
  /\ scan' = Idle
  /\ cursor' = NoCursor
  /\ UNCHANGED << world, wire, events, issued, answer >>

-----------------------------------------------------------------------------
(* Execution: an id passes once; the request may fail to be written after  *)
(* the id was taken.                                                       *)
Execute(call) ==
  /\ Active /\ scan = Idle
  /\ call \notin session.dispatched /\ call \notin DOMAIN issued
  /\ session' = [session EXCEPT !.dispatched = @ \union {call}]
  /\ issued' = SetAt(issued, call, cursor)
  /\ wire' \in {wire, SetAt(wire, call, [session |-> session.id, at |-> "queued"])}
  /\ UNCHANGED << world, events, cursor, scan, answer >>

Log(call, ev) ==
  events' = [events EXCEPT ![wire[call].session] = Append(@, [ev |-> ev, call |-> call])]

(* The daemon, which may also refuse a request without a trace.            *)
DaemonStarts(call) ==
  /\ call \in DOMAIN wire /\ wire[call].at = "queued"
  /\ \/ Log(call, "started") /\ wire' = [wire EXCEPT ![call].at = "running"]
     \/ wire' = Without(wire, call) /\ UNCHANGED events
  /\ UNCHANGED << world, session, cursor, issued, scan, answer >>

DaemonCompletes(call) ==
  /\ call \in DOMAIN wire /\ wire[call].at = "running"
  /\ Log(call, "completed")
  /\ wire' = Without(wire, call)
  /\ UNCHANGED << world, session, cursor, issued, scan, answer >>

-----------------------------------------------------------------------------
(* Reconciliation.                                                         *)
Asked(call) == session.status \in {"open", "ended"} /\ scan = Idle /\ call \in DOMAIN issued

Answer(call, fate) ==
  /\ answer' = [call |-> call, fate |-> fate]
  /\ scan' = Idle
  /\ UNCHANGED << world, session, wire, events, cursor, issued >>

(* Mutant of Foreign: whatever session issued the call, this one is read.  *)
ForeignNever(call) == FALSE

(* The call was issued by another session, or under no cursor at all.      *)
Foreign(call) == issued[call].session # session.id

(* The session is over, or the daemon's index does not list it.            *)
ReconcileUnavailable(call) == Asked(call) /\ Answer(call, "logUnavailable")

ReconcileScans(call) ==
  /\ Asked(call) /\ Active
  /\ ~Foreign(call)
  /\ scan' = [call |-> call, after |-> issued[call].floor, started |-> FALSE]
  /\ UNCHANGED << world, session, wire, events, cursor, issued, answer >>

(* scan_for_call: one page; a short page is the end of the log.            *)
ScanPage ==
  LET log == events[session.id]
      page == SubSeq(log, scan.after + 1, IF scan.after + PageSize < Len(log)
                                          THEN scan.after + PageSize ELSE Len(log))
      Seen(ev) == Contains(page, [ev |-> ev, call |-> scan.call])
      started == scan.started \/ Seen("started")
  IN  /\ Active /\ scan # Idle
      /\ CASE Seen("completed") -> Answer(scan.call, "completed")
           [] Len(page) < PageSize /\ ~Seen("completed") ->
                Answer(scan.call, IF started THEN "startedNoTerminal" ELSE "neverDispatched")
           [] OTHER ->
                /\ scan' = [scan EXCEPT !.after = @ + Len(page), !.started = started]
                /\ UNCHANGED << world, session, wire, events, cursor, issued, answer >>

ScanFails == Active /\ scan # Idle /\ Answer(scan.call, "logUnavailable")

SessionNext ==
  \/ WorldChanges \/ TakeCursor \/ End \/ RunnerDies
  \/ \E call \in Call :
       \/ Execute(call) \/ DaemonStarts(call) \/ DaemonCompletes(call)
       \/ ReconcileUnavailable(call) \/ ReconcileScans(call)
  \/ ScanPage \/ ScanFails

(* A session by itself: whatever lockfile and requirements it is opened    *)
(* with, and when (Provision says which).                                  *)
SessionSpec ==
  /\ SessionInit
  /\ [][SessionNext \/ \E lk, expected, required : Open(lk, expected, required)]_sessionVars

-----------------------------------------------------------------------------
(* What reconcile answers is true of the daemon's logs when it answers:    *)
(* neverDispatched only when no session ever started the call, a terminal  *)
(* only when it is there, and startedNoTerminal only while there is none.  *)
Logged(ev, call) ==
  \E i \in DOMAIN events : Contains(events[i], [ev |-> ev, call |-> call])
Truthful(a) ==
  CASE a.fate = "neverDispatched"   -> ~Logged("started", a.call)
    [] a.fate = "startedNoTerminal" -> Logged("started", a.call) /\ ~Logged("completed", a.call)
    [] a.fate = "completed"         -> Logged("completed", a.call)
    [] OTHER                        -> TRUE
AnswersAreTruthful == [][answer' # answer => Truthful(answer')]_answer
=============================================================================
