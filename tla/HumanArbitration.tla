-------------------------- MODULE HumanArbitration --------------------------
(***************************************************************************)
(* The durable wait of one human step: the runner segments that ask,       *)
(* re-await and settle it (engine.rs `exec_human`), the store's            *)
(* arbitration of answers (store.rs `submit_human_response`) and the       *)
(* terminals that collect them (pointlock-human-cli `collect`).            *)
(*                                                                         *)
(* Terminals and the runner are processes of their own that share only the *)
(* store.  A terminal stamps the receipt time before it prompts; its       *)
(* arbitration reads the ledger, then appends.  A resumed runner reads the *)
(* ledger once, opens its segment, and decides from what it read.          *)
(* The step is `judge` mode without handlers; evidence is left out.        *)
(***************************************************************************)
EXTENDS CheckpointFold, FiniteSets

CONSTANTS
  HumanStep,   \* step id
  FirstHash,   \* irHash of the run's first segment
  Hashes,      \* irHashes a later segment may run under
  Terminal,    \* collecting processes
  Answers,     \* judgements a human may give
  Timeout,     \* timeoutMs, in ticks
  MaxClock,    \* bound on the clock
  Segments,    \* bound on runner segments
  Crashes      \* bound on runner crashes

ASSUME WaitShape == /\ Timeout \in Nat /\ MaxClock \in Nat
                    /\ Segments \in Nat /\ Crashes \in Nat
                    /\ FirstHash \in Hashes

VARIABLES log, ck, clock, run, term, crashes
vars == << log, ck, clock, run, term, crashes >>

StepPath(hash) ==
  Append(RootPath(hash), [k |-> "step", id |-> HumanStep, h |-> NoHash])

Down == [at |-> "down", hash |-> FirstHash, base |-> 0, verdict |-> NoVerdict]
Away == [at |-> "away", req |-> 0, stamp |-> 0, decision |-> NoVerdict]

Init ==
  /\ log = << >> /\ ck = Seed(FirstHash, NoSession)
  /\ clock = 0 /\ run = Down
  /\ term = [t \in Terminal |-> Away]
  /\ crashes = 0

(* Mutant of Folds: an entry is appended before it is folded.              *)
FoldsLater(ev) == TRUE

(* append_event refuses an entry the fold refuses.                         *)
Folds(ev) == FoldStep(ck, ev) # Unfoldable
Write(ev) == log' = Append(log, ev) /\ ck' = FoldStep(ck, ev)

Of(type, history) == { n \in DOMAIN history : history[n].type = type }
Here == StepPath(run.hash)

(* What the segment read: its request, and the answer to it.               *)
Prefix == SubSeq(log, 1, run.base)

(* Mutant of Asked: the key of the request keeps the hash of the segment   *)
(* that asked.                                                             *)
AskedUnderHash ==
  { n \in Of("humanRequested", Prefix) : log[n].path = Here }

Asked ==
  { n \in Of("humanRequested", Prefix) : SameInstance(log[n].path, Here) }
Answered ==
  { n \in Of("humanResponded", Prefix) :
      \E q \in Asked : log[n].req = log[q].req }

-----------------------------------------------------------------------------
(* The runner.                                                             *)

StartRun ==
  /\ run.at = "down" /\ log = << >>
  /\ Write([type |-> "runStarted", path |-> RootPath(FirstHash), hash |-> FirstHash])
  /\ run' = [run EXCEPT !.at = "walk"]
  /\ UNCHANGED << clock, term, crashes >>

(* resume: fold and ledger are read, under the IR the operator brings; the *)
(* segment header follows once a session is open.                          *)
ReadLedger(hash) ==
  /\ run.at = "down" /\ log # << >> /\ ck.status # "finished"
  /\ Cardinality(Of("runResumed", log)) < Segments
  /\ run' = [Down EXCEPT !.at = "open", !.hash = hash, !.base = Len(log)]
  /\ UNCHANGED << log, ck, clock, term, crashes >>

OpenSegment ==
  /\ run.at = "open"
  /\ Write([type |-> "runResumed", path |-> RootPath(run.hash),
            session |-> NoSession])
  /\ run' = [run EXCEPT !.at = "walk"]
  /\ UNCHANGED << clock, term, crashes >>

(* A settled step is adopted.                                              *)
AdoptStep ==
  /\ run.at = "walk"
  /\ CompletedAt(ck, Here) # { }
  /\ run' = [run EXCEPT !.at = "finish"]
  /\ UNCHANGED << log, ck, clock, term, crashes >>

(* exec_human without a request: the span opens, then the request is       *)
(* durable before anyone is notified.                                      *)
EnterStep ==
  /\ run.at = "walk"
  /\ CompletedAt(ck, Here) = { } /\ Asked = { }
  /\ IF InFlightAt(ck, Here) # { } THEN UNCHANGED << log, ck >>
     ELSE Write([type |-> "stepEntered", path |-> Here, asVar |-> NoVar,
                 resolved |-> TRUE])
  /\ run' = [run EXCEPT !.at = "ask"]
  /\ UNCHANGED << clock, term, crashes >>

AskHuman ==
  /\ run.at = "ask"
  /\ Write([ type |-> "humanRequested", path |-> Here,
             req |-> Cardinality(Of("humanRequested", log)) + 1,
             purpose |-> "step", deadline |-> clock + Timeout ])
  /\ run' = [run EXCEPT !.at = "suspend"]
  /\ UNCHANGED << clock, term, crashes >>

(* Mutant of Expired: the deadline itself is late.                         *)
ExpiredAtDeadline(request) == clock >= request.deadline

Expired(request) == clock > request.deadline

(* exec_human with a request on record: its answer settles it, else its    *)
(* deadline, else the wait goes on.                                        *)
Settle ==
  /\ run.at = "walk"
  /\ CompletedAt(ck, Here) = { } /\ Asked # { }
  /\ LET req == log[Latest(Asked)]
     IN  run' = IF Answered # { }
                  THEN [run EXCEPT !.at = "rule",
                                   !.verdict = log[Latest(Answered)].decision]
                ELSE IF Expired(req)
                  THEN [run EXCEPT !.at = "rule", !.verdict = "unknown"]
                ELSE [run EXCEPT !.at = "suspend"]
  /\ UNCHANGED << log, ck, clock, term, crashes >>

RecordVerdict ==
  /\ run.at = "rule"
  /\ Write([type |-> "verdictRecorded", path |-> Here, verdict |-> run.verdict,
            evidence |-> << >>])
  /\ run' = [run EXCEPT !.at = "exit"]
  /\ UNCHANGED << clock, term, crashes >>

ExitStep ==
  /\ run.at = "exit"
  /\ Write([type |-> "stepExited", path |-> Here, state |-> "judged",
            output |-> NoOutput, evidence |-> << >>])
  /\ run' = [run EXCEPT !.at = "finish"]
  /\ UNCHANGED << clock, term, crashes >>

FinishRun ==
  /\ run.at = "finish"
  /\ Write([type |-> "runFinished", path |-> RootPath(run.hash)])
  /\ run' = Down
  /\ UNCHANGED << clock, term, crashes >>

SuspendRun ==
  /\ run.at = "suspend"
  /\ Write([type |-> "runSuspended", path |-> RootPath(run.hash)])
  /\ run' = Down
  /\ UNCHANGED << clock, term, crashes >>

Crash ==
  /\ run.at # "down" /\ crashes < Crashes
  /\ crashes' = crashes + 1
  /\ run' = Down
  /\ UNCHANGED << log, ck, clock, term >>

-----------------------------------------------------------------------------
(* The terminals.                                                          *)

FinallyAnswered(req) == \E n \in Of("humanResponded", log) : log[n].req = req

(* collect_interactive stamps the receipt time, collect finds the request  *)
(* unanswered and prompts.                                                 *)
Prompt(t, n) ==
  /\ term[t].at = "away"
  /\ log[n].type = "humanRequested" /\ ~FinallyAnswered(log[n].req)
  /\ term' = [term EXCEPT ![t] = [Away EXCEPT !.at = "reading", !.req = log[n].req,
                                              !.stamp = clock]]
  /\ UNCHANGED << log, ck, clock, run, crashes >>

(* submit_human_response: unanswered, received in time, still pending.     *)
Arbitrable(req, stamp) ==
  /\ ~FinallyAnswered(req)
  /\ \A n \in Of("humanRequested", log) : log[n].req = req => stamp <= log[n].deadline
  /\ ck.pending # NoPending
  /\ ck.pending.req = req

(* The human types an answer; the arbitration reads and judges.            *)
Arbitrate(t, decision) ==
  /\ term[t].at = "reading"
  /\ term' = [term EXCEPT ![t] =
                IF Arbitrable(@.req, @.stamp)
                THEN [@ EXCEPT !.at = "append", !.decision = decision]
                ELSE Away]
  /\ UNCHANGED << log, ck, clock, run, crashes >>

(* The answer is appended under its receipt time, unless the fold refuses  *)
(* it by now.                                                              *)
AppendAnswer(t) ==
  LET asked == { n \in Of("humanRequested", log) : log[n].req = term[t].req }
      ev == [ type |-> "humanResponded", path |-> log[Latest(asked)].path,
              req |-> term[t].req, purpose |-> "step",
              decision |-> term[t].decision, at |-> term[t].stamp ]
  IN  /\ term[t].at = "append"
      /\ IF Folds(ev) THEN Write(ev) ELSE UNCHANGED << log, ck >>
      /\ term' = [term EXCEPT ![t] = Away]
      /\ UNCHANGED << clock, run, crashes >>

Tick ==
  /\ clock < MaxClock
  /\ clock' = clock + 1
  /\ UNCHANGED << log, ck, run, term, crashes >>

Runner ==
  \/ StartRun \/ OpenSegment \/ AdoptStep \/ EnterStep \/ AskHuman \/ Settle
  \/ RecordVerdict \/ ExitStep \/ FinishRun \/ SuspendRun

Terminals(t) ==
  \/ \E n \in DOMAIN log : Prompt(t, n)
  \/ \E d \in Answers : Arbitrate(t, d)
  \/ AppendAnswer(t)

Next ==
  \/ Runner
  \/ \E hash \in Hashes : ReadLedger(hash)
  \/ \E t \in Terminal : Terminals(t)
  \/ Tick \/ Crash

Spec == Init /\ [][Next]_vars

-----------------------------------------------------------------------------
(* Properties.                                                             *)

(* The shape of the state; the store never folds a refused entry.          *)
TypeOK ==
  /\ ck # Unfoldable
  /\ clock \in 0 .. MaxClock /\ crashes \in 0 .. Crashes
  /\ run.at \in {"down", "open", "walk", "ask", "rule", "exit", "finish", "suspend"}
  /\ run.base \in 0 .. Len(log)
  /\ \A t \in Terminal : term[t].at \in {"away", "reading", "append"}

(* First response wins, however many terminals arbitrate at once.          *)
OneFinalAnswer ==
  \A n, m \in Of("humanResponded", log) : log[n].req = log[m].req => n = m

(* The step is asked once and settled once, across crashes, suspensions    *)
(* and repaired IRs: exec_human never asks again while a request stands.   *)
AskedAndSettledOnce ==
  /\ Cardinality(Of("humanRequested", log)) <= 1
  /\ Cardinality(Of("stepExited", log)) <= 1

(* A settled step accepts no answer, and leaves nobody waited for, where   *)
(* it left under the hash it asked under.                                  *)
AskedUnder(n) ==
  \E q \in Of("humanRequested", log) : q < n /\ log[q].path = log[n].path
SettledMeansClosed ==
  \A n \in Of("stepExited", log) : AskedUnder(n) =>
    /\ \A m \in Of("humanResponded", log) : m < n
    /\ ck.pending = NoPending

(* A judgement other than the timeout's is one a human gave.               *)
JudgementHasAnAuthor ==
  \A n \in Of("verdictRecorded", log) :
    \/ \E m \in Of("humanResponded", log) : m < n /\ log[m].decision = log[n].verdict
    \/ /\ log[n].verdict = "unknown"
       /\ \A q \in Of("humanRequested", log) : clock > log[q].deadline

(* An accepted answer is the verdict the step leaves with.                 *)
AcceptedAnswerRules ==
  \A n \in Of("stepExited", log) :
    \A m \in Of("humanResponded", log) : m < n =>
      \A v \in Of("verdictRecorded", log) :
        v < n => \/ log[v].verdict = log[m].decision
                 \/ \E w \in Of("verdictRecorded", log) : v < w /\ w < n
=============================================================================
