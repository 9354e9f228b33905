----------------------- MODULE HumanArbitrationProofs -----------------------
(***************************************************************************)
(* The wait for a human, for any number of terminals, answers, segments,   *)
(* crashes and hashes. First response wins: arbitration and append of an   *)
(* answer are two steps, and that no second answer slips in between is the *)
(* work of the fold, which refuses an answer to anything but the pending   *)
(* request.                                                                *)
(* Then the step around the wait: it asks once, leaves once, and its       *)
(* verdict has an author, since a segment has read every request there is  *)
(* before it asks or rules.                                                *)
(***************************************************************************)
EXTENDS HumanArbitration, FoldLemmas

Requests == Cardinality(Of("humanRequested", log))

LogIsSeq == log \in Seq(Range(log))

(* The fold keeps a pending field while it has not refused an entry.       *)
PendingKept == ck # Unfoldable => "pending" \in DOMAIN ck

(* Answers name requests that were asked.                                  *)
AnswersAsked ==
  \A m \in Of("humanResponded", log) : log[m].req \in 1 .. Requests

(* Whoever is waited for was asked and has not answered.                   *)
PendingUnanswered ==
  ck # Unfoldable /\ ck.pending # NoPending =>
    /\ ck.pending.req \in 1 .. Requests
    /\ \A m \in Of("humanResponded", log) : log[m].req # ck.pending.req

ArbitrationInv ==
  LogIsSeq /\ PendingKept /\ AnswersAsked /\ PendingUnanswered /\ OneFinalAnswer

-----------------------------------------------------------------------------
(* What one entry does to the pending request.                             *)

Bystanders == {"runStarted", "runResumed", "stepEntered", "verdictRecorded",
               "runSuspended", "runFinished"}

(* Marks of the run, spans opened and verdicts leave the pending request.  *)
LEMMA BystanderKeepsPending ==
  ASSUME NEW st, NEW ev, st # Unfoldable, "pending" \in DOMAIN st,
         ev.type \in Bystanders, FoldStep(st, ev) # Unfoldable
  PROVE  /\ "pending" \in DOMAIN FoldStep(st, ev)
         /\ FoldStep(st, ev).pending = st.pending
PROOF
<1>1. FoldStep(st, ev) = Apply(st, ev)
  BY DEF FoldStep
<1>2. CASE ev.type = "runStarted"
  BY <1>1, <1>2 DEF Apply, RunStartedArm
<1>3. CASE ev.type = "runResumed"
  BY <1>1, <1>3 DEF Apply, RunResumedArm
<1>4. CASE ev.type = "stepEntered"
  BY <1>1, <1>4 DEF Apply, StepEnteredArm
<1>5. CASE ev.type = "verdictRecorded"
  BY <1>1, <1>5 DEF Apply, VerdictRecordedArm
<1>6. CASE ev.type = "runSuspended"
  BY <1>1, <1>6 DEF Apply, RunSuspendedArm
<1>7. CASE ev.type = "runFinished"
  BY <1>1, <1>7 DEF Apply, RunFinishedArm
<1> QED BY <1>2, <1>3, <1>4, <1>5, <1>6, <1>7 DEF Bystanders

(* An exit leaves the pending request or closes it.                        *)
LEMMA ExitMayClear ==
  ASSUME NEW st, NEW ev, st # Unfoldable, "pending" \in DOMAIN st,
         ev.type = "stepExited", FoldStep(st, ev) # Unfoldable
  PROVE  /\ "pending" \in DOMAIN FoldStep(st, ev)
         /\ FoldStep(st, ev).pending \in {NoPending, st.pending}
PROOF
<1>1. FoldStep(st, ev) = StepExitedArm(st, ev)
  BY DEF FoldStep, Apply
<1> QED BY <1>1 DEF StepExitedArm

(* A request is the one waited for.                                        *)
LEMMA RequestIsPending ==
  ASSUME NEW st, NEW ev, st # Unfoldable, "pending" \in DOMAIN st,
         ev.type = "humanRequested", FoldStep(st, ev) # Unfoldable
  PROVE  /\ "pending" \in DOMAIN FoldStep(st, ev)
         /\ FoldStep(st, ev).pending.req = ev.req
PROOF
<1>1. FoldStep(st, ev) = HumanRequestedArm(st, ev)
  BY DEF FoldStep, Apply
<1> QED BY <1>1 DEF HumanRequestedArm

(* An answer closes the request it names, which must be the pending one.   *)
LEMMA AnswerClears ==
  ASSUME NEW st, NEW ev, st # Unfoldable, "pending" \in DOMAIN st,
         ev.type = "humanResponded", ev.purpose = "step",
         FoldStep(st, ev) # Unfoldable
  PROVE  /\ "pending" \in DOMAIN FoldStep(st, ev)
         /\ FoldStep(st, ev).pending = NoPending
         /\ st.pending # NoPending /\ st.pending.req = ev.req
PROOF
<1>1. /\ FoldStep(st, ev) = HumanRespondedArm(st, ev)
      /\ ApplyError(st, ev) = "none"
  BY DEF FoldStep, Apply
<1>2. ~RetainsRequest(ev)
  BY DEF RetainsRequest
<1>3. FoldStep(st, ev) = [st EXCEPT !.pending = NoPending, !.status = "running"]
  BY <1>1, <1>2 DEF HumanRespondedArm
<1>4. st.started
  BY <1>1 DEF ApplyError
<1>5. st.pending # NoPending /\ st.pending.req = ev.req
  BY <1>1, <1>4 DEF ApplyError
<1> QED BY <1>3, <1>5

-----------------------------------------------------------------------------
(* The ledger grows by one entry at its end.                               *)
LEMMA LogGrows ==
  ASSUME LogIsSeq, NEW ev, log' = Append(log, ev)
  PROVE  /\ LogIsSeq' /\ Len(log) \in Nat /\ DOMAIN log = 1 .. Len(log)
         /\ DOMAIN log' = 1 .. Len(log) + 1
         /\ log'[Len(log) + 1] = ev
         /\ \A n \in 1 .. Len(log) : log'[n] = log[n]
PROOF
<1> DEFINE S == Range(log) \union {ev}
<1>1. log \in Seq(S) /\ Len(log) \in Nat /\ DOMAIN log = 1 .. Len(log)
  BY SeqMonotonic DEF LogIsSeq
<1>2. /\ log' \in Seq(S) /\ Len(log') = Len(log) + 1
      /\ log'[Len(log) + 1] = ev
      /\ \A n \in 1 .. Len(log) : log'[n] = log[n]
  BY <1>1
<1>3. log' \in Seq(Range(log)')
  BY <1>2, SeqOfRange DEF Range
<1> QED BY <1>1, <1>2, <1>3 DEF LogIsSeq

(* The positions of a type grow by the entry appended, if it is of it.     *)
LEMMA OfGrows ==
  ASSUME LogIsSeq, NEW ev, log' = Append(log, ev), NEW type
  PROVE  Of(type, log)' = IF ev.type = type
                          THEN Of(type, log) \union {Len(log) + 1}
                          ELSE Of(type, log)
PROOF
BY LogGrows DEF Of

(* The number of requests grows with the requests.                         *)
LEMMA RequestsGrow ==
  ASSUME LogIsSeq, NEW ev, log' = Append(log, ev)
  PROVE  /\ Requests \in Nat
         /\ Requests' = IF ev.type = "humanRequested" THEN Requests + 1 ELSE Requests
PROOF
<1> DEFINE Q == Of("humanRequested", log)
<1>1. Len(log) \in Nat /\ Q \in SUBSET (1 .. Len(log))
  BY LogGrows DEF Of
<1>2. IsFiniteSet(1 .. Len(log))
  <2>1. 1 \in Int /\ Len(log) \in Int
    BY <1>1
  <2> QED BY <2>1, FS_Interval
<1>3. IsFiniteSet(Q) /\ Cardinality(Q) \in Nat
  <2>1. IsFiniteSet(Q)
    BY <1>1, <1>2, FS_Subset
  <2> QED BY <2>1, FS_CardinalityType
<1>5. Cardinality(Q \union {Len(log) + 1}) = Cardinality(Q) + 1
  <2>1. Len(log) + 1 \notin Q
    BY <1>1
  <2> HIDE DEF Q
  <2> QED BY <1>3, <2>1, FS_AddElement
<1>4. Q' = IF ev.type = "humanRequested" THEN Q \union {Len(log) + 1} ELSE Q
  BY OfGrows
<1> QED BY <1>3, <1>4, <1>5 DEF Requests

(* Entries that ask and answer nothing.                                    *)
LEMMA OtherEntriesKeep ==
  ASSUME ArbitrationInv, NEW ev, Write(ev), ev.type \in Bystanders \union {"stepExited"}
  PROVE  ArbitrationInv'
PROOF
<1>1. log' = Append(log, ev) /\ ck' = FoldStep(ck, ev) /\ LogIsSeq
  BY DEF Write, ArbitrationInv
<1>2. /\ LogIsSeq'
      /\ \A n \in Of("humanResponded", log) : log'[n] = log[n]
  BY <1>1, LogGrows DEF Of
<1>3. /\ Requests' = Requests
      /\ Of("humanResponded", log)' = Of("humanResponded", log)
  BY <1>1, RequestsGrow, OfGrows DEF Bystanders
<1>4. AnswersAsked' /\ OneFinalAnswer'
  BY <1>2, <1>3 DEF ArbitrationInv, AnswersAsked, OneFinalAnswer
<1>5. ck' # Unfoldable => /\ ck # Unfoldable /\ "pending" \in DOMAIN ck'
                          /\ ck'.pending \in {NoPending, ck.pending}
  <2> SUFFICES ASSUME ck' # Unfoldable
               PROVE  /\ ck # Unfoldable /\ "pending" \in DOMAIN ck'
                      /\ ck'.pending \in {NoPending, ck.pending}
    OBVIOUS
  <2>1. ck # Unfoldable /\ "pending" \in DOMAIN ck
    BY <1>1 DEF FoldStep, ArbitrationInv, PendingKept
  <2> QED BY <1>1, <2>1, BystanderKeepsPending, ExitMayClear
<1>6. PendingKept' /\ PendingUnanswered'
  BY <1>2, <1>3, <1>5 DEF ArbitrationInv, PendingKept, PendingUnanswered
<1> QED BY <1>2, <1>4, <1>6 DEF ArbitrationInv

(* A new request has a number no answer bears.                             *)
LEMMA RequestKeeps ==
  ASSUME ArbitrationInv, NEW ev, Write(ev), ev.type = "humanRequested",
         ev.req = Requests + 1
  PROVE  ArbitrationInv'
PROOF
<1>1. log' = Append(log, ev) /\ ck' = FoldStep(ck, ev) /\ LogIsSeq
  BY DEF Write, ArbitrationInv
<1>2. /\ LogIsSeq'
      /\ \A n \in Of("humanResponded", log) : log'[n] = log[n]
  BY <1>1, LogGrows DEF Of
<1>3. /\ Requests \in Nat /\ Requests' = Requests + 1
      /\ Of("humanResponded", log)' = Of("humanResponded", log)
  BY <1>1, RequestsGrow, OfGrows
<1>4. AnswersAsked' /\ OneFinalAnswer'
  BY <1>2, <1>3 DEF ArbitrationInv, AnswersAsked, OneFinalAnswer
<1>5. ck' # Unfoldable => /\ "pending" \in DOMAIN ck'
                          /\ ck'.pending.req = Requests + 1
  <2> SUFFICES ASSUME ck' # Unfoldable
               PROVE  "pending" \in DOMAIN ck' /\ ck'.pending.req = Requests + 1
    OBVIOUS
  <2>1. ck # Unfoldable /\ "pending" \in DOMAIN ck
    BY <1>1 DEF FoldStep, ArbitrationInv, PendingKept
  <2> QED BY <1>1, <2>1, RequestIsPending
<1>6. PendingKept' /\ PendingUnanswered'
  BY <1>2, <1>3, <1>5 DEF ArbitrationInv, AnswersAsked, PendingKept, PendingUnanswered
<1> QED BY <1>2, <1>4, <1>6 DEF ArbitrationInv

(* An answer the fold accepts is the first one to its request.             *)
LEMMA AnswerKeeps ==
  ASSUME ArbitrationInv, NEW ev, Write(ev), ev.type = "humanResponded",
         ev.purpose = "step", Folds(ev)
  PROVE  ArbitrationInv'
PROOF
<1>1. /\ log' = Append(log, ev) /\ ck' = FoldStep(ck, ev) /\ LogIsSeq
      /\ ck' # Unfoldable
  BY DEF Write, Folds, ArbitrationInv
<1>2. ck # Unfoldable /\ "pending" \in DOMAIN ck
  BY <1>1 DEF FoldStep, ArbitrationInv, PendingKept
<1>3. /\ "pending" \in DOMAIN ck' /\ ck'.pending = NoPending
      /\ ck.pending # NoPending /\ ck.pending.req = ev.req
  BY <1>1, <1>2, AnswerClears
<1>4. /\ LogIsSeq' /\ log'[Len(log) + 1] = ev
      /\ \A n \in Of("humanResponded", log) : log'[n] = log[n] /\ n # Len(log) + 1
  BY <1>1, LogGrows DEF Of
<1>5. /\ Requests' = Requests
      /\ Of("humanResponded", log)' = Of("humanResponded", log) \union {Len(log) + 1}
  BY <1>1, RequestsGrow, OfGrows
<1>6. /\ ev.req \in 1 .. Requests
      /\ \A m \in Of("humanResponded", log) : log[m].req # ev.req
  BY <1>2, <1>3 DEF ArbitrationInv, PendingUnanswered
<1>7. AnswersAsked'
  BY <1>4, <1>5, <1>6 DEF ArbitrationInv, AnswersAsked
<1>8. OneFinalAnswer'
  BY <1>4, <1>5, <1>6 DEF ArbitrationInv, OneFinalAnswer
<1>9. PendingKept' /\ PendingUnanswered'
  BY <1>3 DEF PendingKept, PendingUnanswered
<1> QED BY <1>4, <1>7, <1>8, <1>9 DEF ArbitrationInv

(* Who writes nothing disturbs nothing.                                    *)
LEMMA NoEntryKeeps ==
  ASSUME ArbitrationInv, UNCHANGED << log, ck >>
  PROVE  ArbitrationInv'
PROOF
BY DEF ArbitrationInv, LogIsSeq, PendingKept, AnswersAsked, PendingUnanswered,
       OneFinalAnswer, Requests, Of, Range

-----------------------------------------------------------------------------
(* No request was made yet.                                                *)
LEMMA ArbitrationInitially == Init => ArbitrationInv
PROOF
<1> SUFFICES ASSUME Init PROVE ArbitrationInv
  OBVIOUS
<1>1. log = << >> /\ Of("humanResponded", log) = { }
  BY DEF Init, Of
<1>2. LogIsSeq
  BY <1>1 DEF LogIsSeq
<1>3. ck.pending = NoPending /\ "pending" \in DOMAIN ck
  BY DEF Init, Seed
<1> QED BY <1>1, <1>2, <1>3 DEF ArbitrationInv, PendingKept, AnswersAsked,
                                PendingUnanswered, OneFinalAnswer

(* Every action appends at most one entry: one of the four kinds above.    *)
LEMMA ArbitrationInductive ==
  ASSUME ArbitrationInv, [Next]_vars
  PROVE  ArbitrationInv'
PROOF
<1>1. CASE Runner
  <2>1. CASE StartRun
    BY <2>1, OtherEntriesKeep DEF StartRun, Bystanders
  <2>2. CASE OpenSegment
    BY <2>2, OtherEntriesKeep DEF OpenSegment, Bystanders
  <2>3. CASE AdoptStep \/ Settle
    BY <2>3, NoEntryKeeps DEF AdoptStep, Settle
  <2>4. CASE EnterStep
    <3>1. CASE UNCHANGED << log, ck >>
      BY <3>1, NoEntryKeeps
    <3>2. CASE Write([type |-> "stepEntered", path |-> Here, asVar |-> NoVar,
                      resolved |-> TRUE])
      BY <3>2, OtherEntriesKeep DEF Bystanders
    <3> QED BY <2>4, <3>1, <3>2 DEF EnterStep
  <2>5. CASE AskHuman
    BY <2>5, RequestKeeps DEF AskHuman, Requests
  <2>6. CASE RecordVerdict
    BY <2>6, OtherEntriesKeep DEF RecordVerdict, Bystanders
  <2>7. CASE ExitStep
    BY <2>7, OtherEntriesKeep DEF ExitStep, Bystanders
  <2>8. CASE FinishRun
    BY <2>8, OtherEntriesKeep DEF FinishRun, Bystanders
  <2>9. CASE SuspendRun
    BY <2>9, OtherEntriesKeep DEF SuspendRun, Bystanders
  <2> QED BY <1>1, <2>1, <2>2, <2>3, <2>4, <2>5, <2>6, <2>7, <2>8, <2>9 DEF Runner
<1>2. ASSUME NEW hash \in Hashes, ReadLedger(hash)
      PROVE  ArbitrationInv'
  BY <1>2, NoEntryKeeps DEF ReadLedger
<1>3. ASSUME NEW t \in Terminal, Terminals(t)
      PROVE  ArbitrationInv'
  <2>1. ASSUME NEW n \in DOMAIN log, Prompt(t, n)
        PROVE  ArbitrationInv'
    BY <2>1, NoEntryKeeps DEF Prompt
  <2>2. ASSUME NEW d \in Answers, Arbitrate(t, d)
        PROVE  ArbitrationInv'
    BY <2>2, NoEntryKeeps DEF Arbitrate
  <2>3. CASE AppendAnswer(t)
    <3>1. PICK ev : /\ ev.type = "humanResponded" /\ ev.purpose = "step"
                    /\ IF Folds(ev) THEN Write(ev) ELSE UNCHANGED << log, ck >>
      BY <2>3 DEF AppendAnswer
    <3>2. CASE Folds(ev)
      BY <3>1, <3>2, AnswerKeeps
    <3>3. CASE ~Folds(ev)
      BY <3>1, <3>3, NoEntryKeeps
    <3> QED BY <3>2, <3>3
  <2> QED BY <1>3, <2>1, <2>2, <2>3 DEF Terminals
<1>4. CASE Tick \/ Crash
  BY <1>4, NoEntryKeeps DEF Tick, Crash
<1>5. CASE UNCHANGED vars
  BY <1>5, NoEntryKeeps DEF vars
<1> QED BY <1>1, <1>2, <1>3, <1>4, <1>5 DEF Next

(* ArbitrationInv holds of every behaviour of the wait.                    *)
THEOREM ArbitrationInvariant == Spec => []ArbitrationInv
PROOF
<1>1. ArbitrationInv /\ [Next]_vars => ArbitrationInv'
  BY ArbitrationInductive
<1> QED BY <1>1, ArbitrationInitially, PTL DEF Spec

(* A request has at most one answer on the ledger, whatever terminals      *)
(* prompt, arbitrate and append at the same time, and however often the    *)
(* runner dies, resumes under another hash, or settles a timeout meanwhile *)
(* (submit_human_response: the first response wins).                       *)
THEOREM FirstResponseWins == Spec => []OneFinalAnswer
PROOF
<1>1. ArbitrationInv => OneFinalAnswer
  BY DEF ArbitrationInv
<1> QED BY <1>1, ArbitrationInvariant, PTL

-----------------------------------------------------------------------------
(* The paths of the step under the hashes of its segments, and the entries *)
(* that ask and settle it.                                                 *)
StepPaths == { StepPath(hash) : hash \in Hashes }
Requested == Of("humanRequested", log)
Exits     == Of("stepExited", log)

FoldKept == IsFold(ck) /\ (ck.started <=> log # << >>)

(* One span at most, of the step: opened before anybody is asked, closed   *)
(* into a record by the exit.                                              *)
StepSpans ==
  /\ \A a \in DOMAIN ck.inFlight : a = 1 /\ ck.inFlight[a].path \in StepPaths
  /\ \A a \in DOMAIN ck.completed : ck.completed[a].path \in StepPaths
  /\ Exits = { } <=> ck.completed = << >>
  /\ Exits # { } => ck.inFlight = << >>
  /\ Requested # { } /\ Exits = { } => ck.inFlight # << >>

(* One request, which a verdict needs and a wait names.                    *)
AskedOnce ==
  /\ \A q \in Requested : log[q].path \in StepPaths /\ log[q].deadline \in Nat
  /\ \A q, r \in Requested : q = r
  /\ Of("verdictRecorded", log) # { } => Requested # { }
  /\ ck.pending # NoPending => \E q \in Requested : ck.pending.path = log[q].path

ExitedOnce == \A n, m \in Exits : n = m

WaitLedger ==
  /\ FoldKept
  /\ StepSpans
  /\ AskedOnce
  /\ ExitedOnce
  /\ JudgementHasAnAuthor
  /\ SettledMeansClosed

(* What the segment is about to record, a human or the clock has said.     *)
Authored(verdict) ==
  \/ \E m \in Of("humanResponded", log) : log[m].decision = verdict
  \/ verdict = "unknown" /\ \A q \in Requested : clock > log[q].deadline

(* What a segment knows: all requests there are when it walks, none when   *)
(* it asks, one when it rules; nothing has left while it asks or rules.    *)
SegmentKnows ==
  /\ run.at # "down" => log # << >>
  /\ run.at \in {"open", "walk"} => \A q \in Requested : q <= run.base
  /\ run.at = "ask" => Requested = { } /\ Exits = { } /\ ck.inFlight # << >>
  /\ run.at \in {"rule", "exit"} => Requested # { } /\ Exits = { }
  /\ run.at = "rule" => Authored(run.verdict)

Places == {"down", "open", "walk", "ask", "rule", "exit", "finish", "suspend"}
RunFields == {"at", "hash", "base", "verdict"}
TermFields == {"at", "req", "stamp", "decision"}
Shapes ==
  /\ clock \in 0 .. MaxClock /\ crashes \in 0 .. Crashes
  /\ DOMAIN run = RunFields
  /\ run.at \in Places /\ run.hash \in Hashes /\ run.base \in 0 .. Len(log)
  /\ DOMAIN term = Terminal
  /\ \A t \in Terminal : /\ DOMAIN term[t] = TermFields
                         /\ term[t].at \in {"away", "reading", "append"}

WaitInv == ArbitrationInv /\ WaitLedger /\ SegmentKnows /\ Shapes

-----------------------------------------------------------------------------
(* The step is one instance, whatever hash it runs under.                  *)
LEMMA OneInstance ==
  ASSUME NEW p \in StepPaths, NEW q \in StepPaths
  PROVE  SameInstance(p, q)
PROOF
<1>1. ASSUME NEW g
      PROVE  /\ Len(StepPath(g)) = 2
             /\ StepPath(g)[1].k = "flow" /\ StepPath(g)[1].id = RootFlow
             /\ StepPath(g)[2] = [k |-> "step", id |-> HumanStep, h |-> NoHash]
  <2> DEFINE x == FlowFrame(RootFlow, g)
  <2> DEFINE y == [k |-> "step", id |-> HumanStep, h |-> NoHash]
  <2>1. StepPath(g) = Append(<< x >>, y)
    BY DEF StepPath, RootPath
  <2>2. x.k = "flow" /\ x.id = RootFlow
    BY DEF FlowFrame
  <2> HIDE DEF x, y
  <2>3. StepPath(g) = << x, y >>
    BY <2>1, PairIs, Zenon
  <2>4. Len(StepPath(g)) = 2 /\ StepPath(g)[1] = x /\ StepPath(g)[2] = y
    BY <2>3
  <2> QED BY <2>2, <2>4 DEF y
<1>2. /\ Len(p) = 2 /\ Len(q) = 2
      /\ p[1].k = q[1].k /\ p[1].id = q[1].id /\ p[2] = q[2]
  BY <1>1 DEF StepPaths
<1>3. SameSite(p[1], q[1]) /\ SameSite(p[2], q[2])
  BY <1>2 DEF SameSite
<1>4. 1 .. 2 = {1, 2}
  OBVIOUS
<1> QED BY <1>2, <1>3, <1>4 DEF SameInstance, SitePrefix

(* The spans and records of the step are all there are.                    *)
LEMMA AllAreHere ==
  ASSUME FoldKept, StepSpans, run.hash \in Hashes
  PROVE  /\ Here \in StepPaths
         /\ InFlightAt(ck, Here) = DOMAIN ck.inFlight
         /\ CompletedAt(ck, Here) = DOMAIN ck.completed
         /\ ck.inFlight = << >> <=> DOMAIN ck.inFlight = { }
         /\ ck.completed = << >> <=> DOMAIN ck.completed = { }
         /\ ck.inFlight # << >> => Len(ck.inFlight) = 1 /\ DOMAIN ck.inFlight = {1}
PROOF
<1>1. Here \in StepPaths
  BY DEF Here, StepPaths
<1>2. /\ InFlightAt(ck, Here) = DOMAIN ck.inFlight
      /\ CompletedAt(ck, Here) = DOMAIN ck.completed
  BY <1>1, OneInstance DEF StepSpans, InFlightAt, CompletedAt
<1>3. /\ ck.inFlight = << >> <=> DOMAIN ck.inFlight = { }
      /\ ck.completed = << >> <=> DOMAIN ck.completed = { }
  BY SequenceIs, EmptyIs DEF FoldKept, IsFold
<1>4. ck.inFlight # << >> => Len(ck.inFlight) = 1 /\ DOMAIN ck.inFlight = {1}
  <2> HAVE ck.inFlight # << >>
  <2>1. /\ Len(ck.inFlight) \in Nat /\ DOMAIN ck.inFlight = 1 .. Len(ck.inFlight)
        /\ Len(ck.inFlight) \in DOMAIN ck.inFlight
    BY SequenceIs DEF FoldKept, IsFold
  <2>2. Len(ck.inFlight) = 1
    BY <2>1 DEF StepSpans
  <2> QED BY <2>1, <2>2
<1> QED BY <1>1, <1>2, <1>3, <1>4

(* A segment that walks finds every request there is, and, of the answers  *)
(* it read, one to it.                                                     *)
LEMMA SegmentReads ==
  ASSUME LogIsSeq, StepSpans, AskedOnce, SegmentKnows, OneFinalAnswer, Shapes,
         run.at = "walk"
  PROVE  /\ Asked = Requested
         /\ Asked # { } => Latest(Asked) \in Requested
         /\ Answered # { } => Latest(Answered) \in Of("humanResponded", log)
PROOF
<1>1. /\ IsSequence(log) /\ run.base \in 0 .. Len(log)
      /\ Len(log) \in Nat /\ DOMAIN log = 1 .. Len(log)
  BY SequenceIs DEF LogIsSeq, IsSequence, Shapes
<1>2. DOMAIN Prefix = 1 .. run.base /\ \A n \in 1 .. run.base : Prefix[n] = log[n]
  BY <1>1, PrefixIs DEF Prefix
<1>3. Here \in StepPaths
  BY DEF Here, StepPaths, Shapes
<1>4. \A n \in Requested : n \in 1 .. run.base
  BY <1>1 DEF SegmentKnows, Requested, Of
<1>5. \A type : Of(type, Prefix) = { n \in Of(type, log) : n \in 1 .. run.base }
  BY <1>1, <1>2 DEF Of
<1>6. Asked = Requested
  BY <1>3, <1>4, <1>5, OneInstance DEF Asked, AskedOnce, Requested
<1>7. Asked # { } => Latest(Asked) \in Requested
  <2> HAVE Asked # { }
  <2>0. PICK q \in Requested : TRUE
    BY <1>6
  <2>1. Requested = {q}
    BY <2>0 DEF AskedOnce
  <2>2. q \in Nat
    BY <1>1, <2>0 DEF Requested, Of
  <2>3. Latest({q}) = q
    BY <2>2 DEF Latest
  <2> QED BY <1>6, <2>1, <2>3
<1>8. Answered # { } => Latest(Answered) \in Of("humanResponded", log)
  <2> HAVE Answered # { }
  <2>1. PICK m : m \in Answered
    OBVIOUS
  <2>2. \A n \in Answered : n = m
    BY <1>5, <1>6, <2>1 DEF Answered, OneFinalAnswer, AskedOnce
  <2>5. m \in Of("humanResponded", log) /\ Answered = {m}
    BY <1>5, <2>1, <2>2 DEF Answered
  <2>3. Answered = {m} /\ m \in Nat /\ m \in Of("humanResponded", log)
    BY <1>1, <2>5 DEF Of
  <2>4. Latest({m}) = m
    BY <2>3 DEF Latest
  <2> QED BY <2>3, <2>4
<1> QED BY <1>6, <1>7, <1>8

(* An entry that asks, rules and settles nothing: the wait is what it was, *)
(* but that an answer may end it.                                          *)
LEMMA QuietEntry ==
  ASSUME ArbitrationInv, WaitLedger, NEW ev, Write(ev), clock' = clock,
         ev.type \notin {"humanRequested", "verdictRecorded", "stepExited"},
         IsFold(ck'), ck'.started, StepSpans',
         ck'.pending \in {ck.pending, NoPending},
         ev.type = "humanResponded" => ck.pending # NoPending
  PROVE  WaitLedger'
PROOF
<1>1. LogIsSeq /\ log' = Append(log, ev)
  BY DEF ArbitrationInv, Write
<1>2. /\ Len(log) \in Nat /\ DOMAIN log = 1 .. Len(log) /\ DOMAIN log' = 1 .. Len(log) + 1
      /\ log'[Len(log) + 1] = ev /\ log' # << >>
      /\ \A n \in DOMAIN log : log'[n] = log[n]
  <2>1. DOMAIN << >> = { }
    BY EmptyIs
  <2> QED BY <1>1, <2>1, LogGrows
<1>3. \A type : Of(type, log)' = IF ev.type = type
                                 THEN Of(type, log) \union {Len(log) + 1}
                                 ELSE Of(type, log)
  BY <1>1, OfGrows
<1>4. /\ Requested' = Requested /\ Exits' = Exits
      /\ Of("humanRequested", log)' = Of("humanRequested", log)
      /\ Of("stepExited", log)' = Of("stepExited", log)
      /\ Of("verdictRecorded", log)' = Of("verdictRecorded", log)
  BY <1>3 DEF Requested, Exits
<1>5. \A type : Of(type, log) \subseteq DOMAIN log
  BY DEF Of
<1>6. FoldKept'
  BY <1>2 DEF FoldKept
<1>7. AskedOnce'
  BY <1>2, <1>4, <1>5 DEF WaitLedger, AskedOnce, Requested
<1>8. ExitedOnce'
  BY <1>4 DEF WaitLedger, ExitedOnce
<1>9. JudgementHasAnAuthor'
  <2>1. Of("humanResponded", log) \subseteq Of("humanResponded", log)'
    BY <1>3
  <2> QED BY <1>2, <1>4, <1>5, <2>1 DEF WaitLedger, JudgementHasAnAuthor
<1>10. SettledMeansClosed'
  <2> SUFFICES ASSUME NEW n \in Of("stepExited", log), AskedUnder(n)'
               PROVE  /\ \A m \in Of("humanResponded", log)' : m < n
                      /\ ck'.pending = NoPending
    BY <1>4 DEF SettledMeansClosed
  <2>1. AskedUnder(n)
    BY <1>2, <1>4, <1>5 DEF AskedUnder
  <2>2. /\ \A m \in Of("humanResponded", log) : m < n
        /\ ck.pending = NoPending
    BY <2>1 DEF WaitLedger, SettledMeansClosed
  <2>3. Of("humanResponded", log)' = Of("humanResponded", log)
    BY <1>3, <2>2
  <2> QED BY <2>2, <2>3
<1> QED BY <1>6, <1>7, <1>8, <1>9, <1>10 DEF WaitLedger

(* The spans and records stay when the fold keeps them and nothing asks or *)
(* exits.                                                                  *)
LEMMA SpansStay ==
  ASSUME LogIsSeq, StepSpans, NEW ev, Write(ev),
         ev.type \notin {"humanRequested", "stepExited"},
         ck'.inFlight = ck.inFlight, ck'.completed = ck.completed
  PROVE  StepSpans'
PROOF
<1>1. log' = Append(log, ev)
  BY DEF Write
<1>2. Requested' = Requested /\ Exits' = Exits
  BY <1>1, OfGrows DEF Requested, Exits
<1> QED BY <1>2 DEF StepSpans

(* Marks of the run.                                                       *)
LEMMA MarkKeepsWait ==
  ASSUME ArbitrationInv, WaitLedger, log # << >>, NEW ev, Write(ev), clock' = clock,
         ev.type \in {"runSuspended", "runResumed", "runFinished"}
  PROVE  /\ WaitLedger' /\ ck'.inFlight = ck.inFlight
PROOF
<1>1. IsFold(ck) /\ ck.started /\ StepSpans /\ ck' = FoldStep(ck, ev) /\ LogIsSeq
  BY DEF WaitLedger, FoldKept, Write, ArbitrationInv
<1>2. /\ IsFold(ck') /\ ck'.started /\ ck'.inFlight = ck.inFlight
      /\ ck'.completed = ck.completed /\ ck'.pending = ck.pending
  BY <1>1, RunMarkIs DEF Still, Keeps
<1>3. StepSpans'
  BY <1>1, <1>2, SpansStay
<1> QED BY <1>2, <1>3, QuietEntry

(* The first entry.                                                        *)
LEMMA StartKeepsWait ==
  ASSUME ArbitrationInv, WaitLedger, log = << >>, NEW ev, Write(ev), clock' = clock,
         ev.type = "runStarted"
  PROVE  WaitLedger'
PROOF
<1>1. IsFold(ck) /\ ~ck.started /\ StepSpans /\ ck' = FoldStep(ck, ev) /\ LogIsSeq
  BY DEF WaitLedger, FoldKept, Write, ArbitrationInv
<1>2. /\ IsFold(ck') /\ ck'.started /\ ck'.inFlight = ck.inFlight
      /\ ck'.completed = ck.completed /\ ck'.pending = ck.pending
  BY <1>1, RunStartedIs DEF Keeps
<1>3. StepSpans'
  BY <1>1, <1>2, SpansStay
<1> QED BY <1>2, <1>3, QuietEntry

(* An answer the fold accepts.                                             *)
LEMMA AnswerKeepsWait ==
  ASSUME ArbitrationInv, WaitLedger, NEW ev, Write(ev), Folds(ev), clock' = clock,
         ev.type = "humanResponded", ev.purpose = "step"
  PROVE  /\ WaitLedger' /\ ck'.inFlight = ck.inFlight /\ log # << >>
PROOF
<1>1. /\ IsFold(ck) /\ StepSpans /\ ck' = FoldStep(ck, ev) /\ ck' # Unfoldable /\ LogIsSeq
      /\ (ck.started <=> log # << >>)
  BY DEF WaitLedger, FoldKept, Write, Folds, ArbitrationInv
<1>2. ck # Unfoldable /\ "pending" \in DOMAIN ck
  BY <1>1, FoldIsSome DEF IsFold, StateFields
<1>3. ck.pending # NoPending /\ ck.pending.req = ev.req
  BY <1>1, <1>2, AnswerClears
<1>4. ck.started
  BY <1>1, <1>2 DEF FoldStep, ApplyError
<1>5. /\ IsFold(ck') /\ ck'.started /\ ck'.inFlight = ck.inFlight
      /\ ck'.completed = ck.completed /\ ck'.pending \in {ck.pending, NoPending}
  BY <1>1, <1>3, <1>4, HumanRespondedIs DEF Still, Keeps
<1>6. StepSpans'
  BY <1>1, <1>5, SpansStay
<1> QED BY <1>1, <1>3, <1>4, <1>5, <1>6, QuietEntry

(* The span of the step is opened while none is open and none was closed.  *)
LEMMA EntryKeepsWait ==
  ASSUME ArbitrationInv, WaitLedger, log # << >>, run.hash \in Hashes,
         CompletedAt(ck, Here) = { }, InFlightAt(ck, Here) = { },
         NEW ev, Write(ev), clock' = clock,
         ev.type = "stepEntered", ev.path = Here
  PROVE  WaitLedger' /\ ck'.inFlight # << >>
PROOF
<1>1. IsFold(ck) /\ ck.started /\ FoldKept /\ StepSpans /\ ck' = FoldStep(ck, ev) /\ LogIsSeq
  BY DEF WaitLedger, FoldKept, Write, ArbitrationInv
<1>2. Here \in StepPaths /\ ck.inFlight = << >> /\ ck.completed = << >>
  BY <1>1, AllAreHere
<1>3. PICK span : /\ IsFold(ck') /\ ck'.started /\ ck'.completed = ck.completed
                  /\ ck'.inFlight = Append(ck.inFlight, span)
                  /\ span.path = ev.path /\ ck'.pending = ck.pending
  BY <1>1, StepEnteredIs
<1>4. ck'.inFlight # << >> /\ DOMAIN ck'.inFlight = {1} /\ ck'.inFlight[1] = span
  <2>1. Append(<< >>, span) = << span >>
    OBVIOUS
  <2> QED BY <1>2, <1>3, <2>1
<1>5. Requested' = Requested /\ Exits' = Exits
  BY <1>1, OfGrows DEF Requested, Exits, Write
<1>6. StepPaths' = StepPaths
  OBVIOUS
<1>7. StepSpans'
  BY <1>1, <1>2, <1>3, <1>4, <1>5, <1>6 DEF StepSpans
<1> QED BY <1>3, <1>4, <1>7, QuietEntry

(* Asking: the first and only request, while the span is open.             *)
LEMMA RequestKeepsWait ==
  ASSUME ArbitrationInv, WaitLedger, log # << >>, run.hash \in Hashes,
         Requested = { }, Exits = { }, ck.inFlight # << >>, clock \in Nat,
         NEW ev, Write(ev), clock' = clock, ev.type = "humanRequested",
         ev.path = Here, ev.deadline = clock + Timeout
  PROVE  WaitLedger' /\ \A q \in Requested' : q = Len(log)'
PROOF
<1>1. IsFold(ck) /\ ck.started /\ StepSpans /\ ck' = FoldStep(ck, ev) /\ LogIsSeq
      /\ log' = Append(log, ev)
  BY DEF WaitLedger, FoldKept, Write, ArbitrationInv
<1> PICK L \in Nat : L = Len(log) + 1
  BY <1>1, LogGrows
<1>2. /\ DOMAIN log' = 1 .. L /\ log'[L] = ev /\ log' # << >> /\ Len(log)' = L
      /\ \A n \in DOMAIN log : log'[n] = log[n] /\ n < L
  <2>1. DOMAIN << >> = { } /\ IsSequence(log)
    BY <1>1, EmptyIs DEF LogIsSeq, IsSequence
  <2> QED BY <1>1, <2>1, LogGrows, AppendIs
<1>3. \A type : Of(type, log)' = IF ev.type = type
                                 THEN Of(type, log) \union {L} ELSE Of(type, log)
  BY <1>1, OfGrows
<1>4. /\ Requested' = {L} /\ Exits' = { } /\ Of("stepExited", log)' = { }
      /\ Of("humanRequested", log)' = {L}
      /\ Of("verdictRecorded", log)' = Of("verdictRecorded", log)
  BY <1>3 DEF Requested, Exits
<1>5. Of("verdictRecorded", log) = { }
  BY DEF WaitLedger, AskedOnce
<1>6. /\ IsFold(ck') /\ ck'.started /\ ck'.inFlight = ck.inFlight
      /\ ck'.completed = ck.completed
      /\ ck'.pending.path = ev.path
  <2>1. /\ Still(ck', ck)
        /\ ck'.pending = [ path |-> ev.path, req |-> ev.req,
                           purpose |-> ev.purpose, deadline |-> ev.deadline ]
    BY <1>1, HumanRequestedIs
  <2> QED BY <2>1 DEF Still, Keeps
<1>7. FoldKept'
  BY <1>2, <1>6 DEF FoldKept
<1>8. StepSpans'
  <2>1. StepPaths' = StepPaths
    OBVIOUS
  <2> QED BY <1>1, <1>4, <1>6, <2>1 DEF StepSpans
<1>9. AskedOnce'
  <2>1. Here \in StepPaths /\ StepPaths' = StepPaths
    BY DEF Here, StepPaths
  <2>2. ev.deadline \in Nat
    BY WaitShape
  <2> QED BY <1>2, <1>4, <1>5, <1>6, <2>1, <2>2 DEF AskedOnce
<1>10. ExitedOnce'
  BY <1>4 DEF ExitedOnce
<1>11. JudgementHasAnAuthor' /\ SettledMeansClosed'
  BY <1>4, <1>5 DEF JudgementHasAnAuthor, SettledMeansClosed
<1> QED BY <1>2, <1>4, <1>7, <1>8, <1>9, <1>10, <1>11 DEF WaitLedger

(* A verdict is recorded with its author on record.                        *)
LEMMA VerdictKeepsWait ==
  ASSUME ArbitrationInv, WaitLedger, log # << >>, run.hash \in Hashes,
         Requested # { }, Exits = { },
         NEW ev, Write(ev), clock' = clock, ev.type = "verdictRecorded",
         ev.path = Here, Authored(ev.verdict)
  PROVE  WaitLedger'
PROOF
<1>1. /\ IsFold(ck) /\ ck.started /\ FoldKept /\ StepSpans
      /\ ck' = FoldStep(ck, ev) /\ LogIsSeq /\ log' = Append(log, ev)
  BY DEF WaitLedger, FoldKept, Write, ArbitrationInv
<1> PICK L \in Nat : L = Len(log) + 1
  BY <1>1, LogGrows
<1>2. /\ DOMAIN log' = 1 .. L /\ log'[L] = ev /\ log' # << >>
      /\ \A n \in DOMAIN log : log'[n] = log[n] /\ n < L
  <2>1. DOMAIN << >> = { } /\ IsSequence(log)
    BY <1>1, EmptyIs DEF LogIsSeq, IsSequence
  <2> QED BY <1>1, <2>1, LogGrows, AppendIs
<1>3. \A type : Of(type, log)' = IF ev.type = type
                                 THEN Of(type, log) \union {L} ELSE Of(type, log)
  BY <1>1, OfGrows
<1>4. /\ Requested' = Requested /\ Exits' = { } /\ Of("stepExited", log)' = { }
      /\ Of("humanRequested", log)' = Of("humanRequested", log)
      /\ Of("humanResponded", log)' = Of("humanResponded", log)
      /\ Of("verdictRecorded", log)' = Of("verdictRecorded", log) \union {L}
  BY <1>3 DEF Requested, Exits
<1>5. \A type : Of(type, log) \subseteq DOMAIN log
  BY DEF Of
<1>6. /\ ck.inFlight # << >> /\ InFlightAt(ck, Here) = {1}
      /\ DOMAIN ck.inFlight = {1} /\ ck.completed = << >>
  BY <1>1, AllAreHere DEF StepSpans
<1>7. 1 = Latest(InFlightAt(ck, ev.path)) /\ 1 \in InFlightAt(ck, ev.path)
  BY <1>6 DEF Latest
<1>8. PICK span : /\ IsFold(ck') /\ ck'.started /\ ck'.completed = ck.completed
                  /\ ck'.inFlight = Put(ck.inFlight, 1, span)
                  /\ span.path = ck.inFlight[1].path
                  /\ ck'.pending = ck.pending
  BY <1>1, <1>7, VerdictRecordedIs
<1>9. ck'.inFlight # << >> /\ DOMAIN ck'.inFlight = {1} /\ ck'.inFlight[1] = span
  BY <1>1, <1>6, <1>8, PutIs DEF Put, IsFold
<1>10. FoldKept'
  BY <1>2, <1>8 DEF FoldKept
<1>11. StepSpans'
  <2>1. StepPaths' = StepPaths
    OBVIOUS
  <2>2. \A a \in DOMAIN ck'.inFlight : a = 1 /\ ck'.inFlight[a].path \in StepPaths
    BY <1>1, <1>6, <1>8, <1>9 DEF StepSpans
  <2> QED BY <1>1, <1>4, <1>6, <1>8, <1>9, <2>1, <2>2 DEF StepSpans
<1>12. AskedOnce'
  BY <1>2, <1>4, <1>5, <1>8 DEF WaitLedger, AskedOnce, Requested
<1>13. ExitedOnce' /\ SettledMeansClosed'
  BY <1>4 DEF ExitedOnce, SettledMeansClosed
<1>14. JudgementHasAnAuthor'
  <2> SUFFICES ASSUME NEW n \in Of("verdictRecorded", log) \union {L}
               PROVE
    \/ \E m \in Of("humanResponded", log) :
          m < n /\ log'[m].decision = log'[n].verdict
    \/ /\ log'[n].verdict = "unknown"
       /\ \A q \in Of("humanRequested", log) : clock > log'[q].deadline
    BY <1>4 DEF JudgementHasAnAuthor
  <2>1. CASE n = L
    BY <1>2, <1>5, <2>1 DEF Authored, Requested
  <2>2. CASE n # L
    BY <1>2, <1>5, <2>2 DEF WaitLedger, JudgementHasAnAuthor
  <2> QED BY <2>1, <2>2
<1> QED BY <1>10, <1>11, <1>12, <1>13, <1>14 DEF WaitLedger

(* The exit closes the span, and the wait if it was asked at its path.     *)
LEMMA ExitKeepsWait ==
  ASSUME ArbitrationInv, WaitLedger, log # << >>, run.hash \in Hashes,
         Requested # { }, Exits = { },
         NEW ev, Write(ev), clock' = clock, ev.type = "stepExited", ev.path = Here
  PROVE  WaitLedger'
PROOF
<1>1. /\ IsFold(ck) /\ ck.started /\ FoldKept /\ StepSpans
      /\ ck' = FoldStep(ck, ev) /\ LogIsSeq /\ log' = Append(log, ev)
  BY DEF WaitLedger, FoldKept, Write, ArbitrationInv
<1> PICK L \in Nat : L = Len(log) + 1
  BY <1>1, LogGrows
<1>2. /\ DOMAIN log' = 1 .. L /\ log'[L] = ev /\ log' # << >>
      /\ \A n \in DOMAIN log : log'[n] = log[n] /\ n < L
  <2>1. DOMAIN << >> = { } /\ IsSequence(log)
    BY <1>1, EmptyIs DEF LogIsSeq, IsSequence
  <2> QED BY <1>1, <2>1, LogGrows, AppendIs
<1>3. \A type : Of(type, log)' = IF ev.type = type
                                 THEN Of(type, log) \union {L} ELSE Of(type, log)
  BY <1>1, OfGrows
<1>4. /\ Requested' = Requested /\ Exits' = {L} /\ Of("stepExited", log)' = {L}
      /\ Of("humanRequested", log)' = Of("humanRequested", log)
      /\ Of("humanResponded", log)' = Of("humanResponded", log)
      /\ Of("verdictRecorded", log)' = Of("verdictRecorded", log)
  BY <1>3 DEF Requested, Exits
<1>5. \A type : Of(type, log) \subseteq DOMAIN log
  BY DEF Of
<1>6. /\ ck.inFlight # << >> /\ Len(ck.inFlight) = 1 /\ DOMAIN ck.inFlight = {1}
      /\ ck.inFlight[1].path \in StepPaths /\ ck.completed = << >>
  BY <1>1, AllAreHere DEF StepSpans
<1>7. PICK record : /\ IsFold(ck') /\ ck'.started /\ ck'.inFlight = Front(ck.inFlight)
                    /\ ck'.completed = Append(ck.completed, record)
                    /\ record.path = ck.inFlight[1].path
                    /\ ck'.pending = IF SettlesRequest(ck.pending, ev.path)
                                     THEN NoPending ELSE ck.pending
  BY <1>1, <1>6, StepExitedIs
<1>8. /\ ck'.inFlight = << >> /\ DOMAIN ck'.inFlight = { }
      /\ ck'.completed # << >> /\ DOMAIN ck'.completed = {1}
      /\ ck'.completed[1].path \in StepPaths
  <2>1. Append(<< >>, record) = << record >>
    OBVIOUS
  <2> DEFINE spans == ck.inFlight
  <2>2. IsSequence(spans) /\ spans # << >> /\ Len(spans) = 1
    BY <1>1, <1>6 DEF IsFold
  <2> HIDE DEF spans
  <2>9. Len(Front(spans)) = Len(spans) - 1 /\ IsSequence(Front(spans))
    BY <2>2, FrontIs, Zenon
  <2>3. Len(Front(spans)) = 0 /\ IsSequence(Front(spans))
    BY <2>2, <2>9
  <2>4. Front(spans) = << >>
    BY <2>3, SequenceIs
  <2>5. ck'.inFlight = << >>
    BY <1>7, <2>4 DEF spans
  <2>6. ck'.completed = << record >>
    BY <1>6, <1>7, <2>1
  <2>7. ck'.completed # << >> /\ DOMAIN ck'.completed = {1} /\ ck'.completed[1] = record
    <3> HIDE DEF spans
    <3> QED BY <2>6
  <2>8. DOMAIN ck'.inFlight = { }
    BY <2>5, EmptyIs
  <2> QED BY <1>6, <1>7, <2>5, <2>7, <2>8
<1>9. FoldKept'
  BY <1>2, <1>7 DEF FoldKept
<1>10. StepSpans'
  <2>1. StepPaths' = StepPaths
    OBVIOUS
  <2> QED BY <1>4, <1>8, <2>1 DEF StepSpans
<1>11. ck'.pending # NoPending => ck'.pending = ck.pending
  BY <1>7
<1>12. AskedOnce'
  BY <1>2, <1>4, <1>5, <1>11 DEF WaitLedger, AskedOnce, Requested
<1>13. ExitedOnce'
  BY <1>4 DEF ExitedOnce
<1>14. JudgementHasAnAuthor'
  BY <1>2, <1>4, <1>5 DEF WaitLedger, JudgementHasAnAuthor
<1>15. SettledMeansClosed'
  <2> SUFFICES ASSUME AskedUnder(L)'
               PROVE  /\ \A m \in Of("humanResponded", log) : m < L
                      /\ ck'.pending = NoPending
    BY <1>4 DEF SettledMeansClosed
  <2>1. PICK q \in Requested : log[q].path = Here
    BY <1>2, <1>4, <1>5 DEF AskedUnder, Requested
  <2>2. ck.pending # NoPending => ck.pending.path = Here
    BY <2>1 DEF WaitLedger, AskedOnce
  <2>3. ck'.pending = NoPending
    BY <1>7, <2>2 DEF SettlesRequest
  <2> QED BY <1>2, <1>5, <2>3
<1> QED BY <1>9, <1>10, <1>12, <1>13, <1>14, <1>15 DEF WaitLedger

(* The ledger, the clock and the number of crashes of an action that only  *)
(* moves a process.                                                        *)
LEMMA StillLedgerKeepsWait ==
  ASSUME WaitLedger, UNCHANGED << log, ck >>, Shapes, clock' \in {clock, clock + 1}
  PROVE  /\ WaitLedger' /\ Requested' = Requested /\ Exits' = Exits
         /\ \A verdict : Authored(verdict) => Authored(verdict)'
PROOF
<1>1. /\ Requested' = Requested /\ Exits' = Exits /\ StepPaths' = StepPaths
      /\ \A type : Of(type, log)' = Of(type, log)
  BY DEF Requested, Exits, StepPaths
<1>2. FoldKept' /\ ExitedOnce'
  BY <1>1 DEF WaitLedger, FoldKept, ExitedOnce
<1>3. StepSpans'
  BY <1>1 DEF WaitLedger, StepSpans
<1>4. AskedOnce'
  BY <1>1 DEF WaitLedger, AskedOnce
<1>5. SettledMeansClosed'
  BY <1>1 DEF WaitLedger, SettledMeansClosed, AskedUnder
<1>6. clock \in Nat /\ clock' \in Nat /\ clock <= clock'
  BY WaitShape DEF Shapes
<1>7. \A q \in Requested : clock > log[q].deadline => clock' > log'[q].deadline
  <2>1. \A q \in Requested : log[q].deadline \in Nat
    BY DEF WaitLedger, AskedOnce
  <2> QED BY <1>6, <2>1
<1>8. JudgementHasAnAuthor'
  BY <1>1, <1>7 DEF WaitLedger, JudgementHasAnAuthor, Requested
<1>9. \A verdict : Authored(verdict) => Authored(verdict)'
  BY <1>1, <1>7 DEF Authored
<1> QED BY <1>1, <1>2, <1>3, <1>4, <1>5, <1>8, <1>9 DEF WaitLedger

(* What an appended entry adds to the requests and the exits.              *)
LEMMA EntryCounts ==
  ASSUME LogIsSeq, NEW ev, Write(ev)
  PROVE  /\ log' # << >> /\ Len(log) \in Nat /\ Len(log)' = Len(log) + 1
         /\ ev.type # "humanRequested" => Requested' = Requested
         /\ ev.type # "stepExited" => Exits' = Exits
         /\ \A q \in Requested : q <= Len(log)
PROOF
<1>1. log' = Append(log, ev) /\ IsSequence(log)
  BY DEF Write, LogIsSeq, IsSequence
<1>2. /\ log' # << >> /\ Len(log) \in Nat /\ Len(log)' = Len(log) + 1
      /\ DOMAIN log = 1 .. Len(log)
  BY <1>1, AppendIs
<1>3. /\ ev.type # "humanRequested" => Requested' = Requested
      /\ ev.type # "stepExited" => Exits' = Exits
  BY <1>1, OfGrows DEF Requested, Exits
<1> QED BY <1>2, <1>3 DEF Requested, Of

(* The runner's moves that write nothing.                                  *)
LEMMA SilentMoves ==
  ASSUME WaitInv, AdoptStep \/ Settle
  PROVE  WaitLedger' /\ SegmentKnows' /\ Shapes'
PROOF
<1>1. /\ log' = log /\ ck' = ck /\ clock' = clock /\ term' = term /\ crashes' = crashes
      /\ ArbitrationInv /\ WaitLedger /\ SegmentKnows /\ Shapes /\ run.at = "walk"
  BY DEF AdoptStep, Settle, WaitInv
<1>2. /\ WaitLedger' /\ Requested' = Requested /\ Exits' = Exits
      /\ \A verdict : Authored(verdict) => Authored(verdict)'
  BY <1>1, StillLedgerKeepsWait
<1>3. CASE AdoptStep
  <2>1. run' = [run EXCEPT !.at = "finish"]
    BY <1>3 DEF AdoptStep
  <2>2. Shapes'
    BY <1>1, <2>1 DEF Shapes, RunFields, Places
  <2>3. SegmentKnows'
    BY <1>1, <2>1 DEF SegmentKnows, Shapes, RunFields
  <2> QED BY <1>2, <2>2, <2>3
<1>4. CASE Settle
  <2>1. /\ Asked # { } /\ CompletedAt(ck, Here) = { }
        /\ \/ /\ Answered # { }
              /\ run' = [run EXCEPT !.at = "rule",
                                    !.verdict = log[Latest(Answered)].decision]
           \/ /\ Expired(log[Latest(Asked)])
              /\ run' = [run EXCEPT !.at = "rule", !.verdict = "unknown"]
           \/ run' = [run EXCEPT !.at = "suspend"]
    BY <1>4 DEF Settle
  <2>2. /\ Asked = Requested /\ Latest(Asked) \in Requested
        /\ Answered # { } => Latest(Answered) \in Of("humanResponded", log)
    BY <1>1, <2>1, SegmentReads DEF WaitLedger, ArbitrationInv
  <2>3. Exits = { }
    BY <1>1, <2>1, AllAreHere DEF WaitLedger, StepSpans, Shapes
  <2>4. Shapes' /\ run'.at \in {"rule", "suspend"}
    BY <1>1, <2>1 DEF Shapes, RunFields, Places
  <2>5. run'.at = "rule" => Authored(run'.verdict)
    <3>1. CASE /\ Answered # { }
               /\ run' = [run EXCEPT !.at = "rule",
                                     !.verdict = log[Latest(Answered)].decision]
      BY <1>1, <2>2, <3>1 DEF Authored, Shapes, RunFields
    <3>2. CASE /\ Expired(log[Latest(Asked)])
               /\ run' = [run EXCEPT !.at = "rule", !.verdict = "unknown"]
      <4>1. \A q \in Requested : clock > log[q].deadline
        BY <1>1, <2>2, <3>2 DEF Expired, WaitLedger, AskedOnce
      <4> QED BY <1>1, <3>2, <4>1 DEF Authored, Shapes, RunFields
    <3>3. CASE run' = [run EXCEPT !.at = "suspend"]
      BY <1>1, <3>3 DEF Shapes, RunFields
    <3> QED BY <2>1, <3>1, <3>2, <3>3
  <2>6. run'.at = "rule" => Authored(run.verdict)'
    BY <1>1, <1>2, <2>5 DEF Authored, Requested
  <2>7. log' # << >>
    BY <1>1 DEF SegmentKnows
  <2>8. SegmentKnows'
    BY <1>2, <2>1, <2>2, <2>3, <2>4, <2>6, <2>7 DEF SegmentKnows
  <2> QED BY <1>2, <2>4, <2>8
<1> QED BY <1>3, <1>4, <1>1

(* The runner's moves that write marks of the run.                         *)
LEMMA MarkMoves ==
  ASSUME WaitInv, StartRun \/ OpenSegment \/ FinishRun \/ SuspendRun
  PROVE  WaitLedger' /\ SegmentKnows' /\ Shapes'
PROOF
<1>1. /\ clock' = clock /\ term' = term /\ crashes' = crashes
      /\ ArbitrationInv /\ WaitLedger /\ SegmentKnows /\ Shapes /\ LogIsSeq
  BY DEF StartRun, OpenSegment, FinishRun, SuspendRun, WaitInv, ArbitrationInv
<1>2. PICK ev : /\ Write(ev)
                /\ \/ ev.type = "runStarted" /\ log = << >>
                      /\ run' = [run EXCEPT !.at = "walk"]
                   \/ ev.type = "runResumed" /\ run.at = "open"
                      /\ run' = [run EXCEPT !.at = "walk"]
                   \/ ev.type \in {"runFinished", "runSuspended"}
                      /\ run.at \in {"finish", "suspend"} /\ run' = Down
  BY DEF StartRun, OpenSegment, FinishRun, SuspendRun
<1>3. WaitLedger'
  BY <1>1, <1>2, StartKeepsWait, MarkKeepsWait DEF SegmentKnows
<1>4. /\ log' # << >> /\ Requested' = Requested /\ Exits' = Exits
      /\ Len(log)' = Len(log) + 1 /\ Len(log) \in Nat
  BY <1>1, <1>2, EntryCounts
<1>5. run' \in {Down, [run EXCEPT !.at = "walk"]}
  BY <1>2
<1>11. /\ DOMAIN Down = RunFields /\ Down.at = "down" /\ Down.base = 0
       /\ Down.hash \in Hashes
  BY WaitShape DEF Down, RunFields
<1>12. LET w == [run EXCEPT !.at = "walk"]
       IN  /\ DOMAIN w = RunFields /\ w.at = "walk" /\ w.base = run.base
           /\ w.hash = run.hash
  BY <1>1 DEF Shapes, RunFields
<1>6. Shapes'
  <2>1. /\ DOMAIN run' = RunFields /\ run'.at \in Places /\ run'.hash \in Hashes
        /\ run'.base \in 0 .. Len(log)'
    <3>1. \A n \in 0 .. Len(log) : n \in 0 .. Len(log)'
      BY <1>4
    <3>2. 0 \in 0 .. Len(log)'
      BY <1>4
    <3> QED BY <1>1, <1>5, <1>11, <1>12, <3>1, <3>2 DEF Shapes, Places
  <2> QED BY <1>1, <2>1 DEF Shapes
<1>7. ASSUME run' = Down
      PROVE  SegmentKnows'
  BY <1>7, <1>11 DEF SegmentKnows
<1>8. ASSUME run' = [run EXCEPT !.at = "walk"], run.at = "open"
      PROVE  SegmentKnows'
  BY <1>1, <1>4, <1>8, <1>12 DEF SegmentKnows
<1>9. ASSUME run' = [run EXCEPT !.at = "walk"], log = << >>
      PROVE  SegmentKnows'
  <2>1. Requested = { }
    BY <1>9, EmptyIs DEF Requested, Of
  <2> QED BY <1>1, <1>4, <1>9, <1>12, <2>1 DEF SegmentKnows
<1>10. SegmentKnows'
  BY <1>2, <1>7, <1>8, <1>9
<1> QED BY <1>3, <1>6, <1>10

(* Entering, asking, ruling, leaving.                                      *)
LEMMA StepMoves ==
  ASSUME WaitInv, EnterStep \/ AskHuman \/ RecordVerdict \/ ExitStep
  PROVE  WaitLedger' /\ SegmentKnows' /\ Shapes'
PROOF
<1>1. /\ clock' = clock /\ term' = term /\ crashes' = crashes
      /\ ArbitrationInv /\ WaitLedger /\ SegmentKnows /\ Shapes /\ LogIsSeq
      /\ log # << >> /\ run.hash \in Hashes /\ clock \in Nat
  BY WaitShape DEF EnterStep, AskHuman, RecordVerdict, ExitStep, WaitInv, ArbitrationInv,
                   SegmentKnows, Shapes
<1>2. CASE EnterStep
  <2>1. /\ run.at = "walk" /\ run' = [run EXCEPT !.at = "ask"]
        /\ CompletedAt(ck, Here) = { } /\ Asked = { }
    BY <1>2 DEF EnterStep
  <2>2. /\ Requested = { } /\ Exits = { }
        /\ ck.inFlight = << >> <=> InFlightAt(ck, Here) = { }
    BY <1>1, <2>1, SegmentReads, AllAreHere
    DEF WaitLedger, ArbitrationInv, StepSpans, Shapes
  <2>3. WaitLedger' /\ ck'.inFlight # << >> /\ Requested' = { } /\ Exits' = { }
        /\ log' # << >> /\ Len(log)' \in {Len(log), Len(log) + 1} /\ Len(log) \in Nat
    <3>1. CASE UNCHANGED << log, ck >> /\ InFlightAt(ck, Here) # { }
      BY <1>1, <2>2, <3>1, StillLedgerKeepsWait, LogGrows DEF ArbitrationInv
    <3>2. ASSUME InFlightAt(ck, Here) = { },
                 Write([type |-> "stepEntered", path |-> Here, asVar |-> NoVar,
                        resolved |-> TRUE])
          PROVE  WaitLedger' /\ ck'.inFlight # << >> /\ Requested' = { } /\ Exits' = { }
                 /\ log' # << >> /\ Len(log)' = Len(log) + 1 /\ Len(log) \in Nat
      BY <1>1, <2>1, <2>2, <3>2, EntryKeepsWait, EntryCounts
    <3> QED BY <1>2, <3>1, <3>2 DEF EnterStep
  <2>4. SegmentKnows'
    BY <1>1, <2>1, <2>3 DEF SegmentKnows, Shapes, RunFields
  <2>5. Shapes'
    BY <1>1, <2>1, <2>3 DEF Shapes, RunFields, Places
  <2> QED BY <2>3, <2>4, <2>5
<1>3. CASE AskHuman
  <2>1. PICK ev : /\ Write(ev) /\ ev.type = "humanRequested" /\ ev.path = Here
                  /\ ev.deadline = clock + Timeout
    BY <1>3 DEF AskHuman
  <2>2. run.at = "ask" /\ run' = [run EXCEPT !.at = "suspend"]
    BY <1>3 DEF AskHuman
  <2>3. WaitLedger'
    BY <1>1, <2>1, <2>2, RequestKeepsWait DEF SegmentKnows
  <2>4. log' # << >> /\ Len(log)' = Len(log) + 1 /\ Len(log) \in Nat
    BY <1>1, <2>1, EntryCounts
  <2>5. SegmentKnows'
    BY <1>1, <2>2, <2>4 DEF SegmentKnows, Shapes, RunFields
  <2>6. Shapes'
    BY <1>1, <2>2, <2>4 DEF Shapes, RunFields, Places
  <2> QED BY <2>3, <2>5, <2>6
<1>4. CASE RecordVerdict
  <2>1. PICK ev : /\ Write(ev) /\ ev.type = "verdictRecorded" /\ ev.path = Here
                  /\ ev.verdict = run.verdict
    BY <1>4 DEF RecordVerdict
  <2>2. run.at = "rule" /\ run' = [run EXCEPT !.at = "exit"]
    BY <1>4 DEF RecordVerdict
  <2>3. WaitLedger'
    BY <1>1, <2>1, <2>2, VerdictKeepsWait DEF SegmentKnows
  <2>4. /\ log' # << >> /\ Len(log)' = Len(log) + 1 /\ Len(log) \in Nat
        /\ Requested' = Requested /\ Exits' = Exits
    BY <1>1, <2>1, EntryCounts
  <2>5. SegmentKnows'
    BY <1>1, <2>2, <2>4 DEF SegmentKnows, Shapes, RunFields
  <2>6. Shapes'
    BY <1>1, <2>2, <2>4 DEF Shapes, RunFields, Places
  <2> QED BY <2>3, <2>5, <2>6
<1>5. CASE ExitStep
  <2>1. PICK ev : Write(ev) /\ ev.type = "stepExited" /\ ev.path = Here
    BY <1>5 DEF ExitStep
  <2>2. run.at = "exit" /\ run' = [run EXCEPT !.at = "finish"]
    BY <1>5 DEF ExitStep
  <2>3. WaitLedger'
    BY <1>1, <2>1, <2>2, ExitKeepsWait DEF SegmentKnows
  <2>4. log' # << >> /\ Len(log)' = Len(log) + 1 /\ Len(log) \in Nat
    BY <1>1, <2>1, EntryCounts
  <2>5. SegmentKnows'
    BY <1>1, <2>2, <2>4 DEF SegmentKnows, Shapes, RunFields
  <2>6. Shapes'
    BY <1>1, <2>2, <2>4 DEF Shapes, RunFields, Places
  <2> QED BY <2>3, <2>5, <2>6
<1> QED BY <1>2, <1>3, <1>4, <1>5

(* A new segment reads the whole ledger.                                   *)
LEMMA ReadKeepsWait ==
  ASSUME WaitInv, NEW hash \in Hashes, ReadLedger(hash)
  PROVE  WaitLedger' /\ SegmentKnows' /\ Shapes'
PROOF
<1>1. /\ log' = log /\ ck' = ck /\ clock' = clock /\ term' = term /\ crashes' = crashes
      /\ WaitLedger /\ SegmentKnows /\ Shapes /\ LogIsSeq /\ log # << >>
      /\ run' = [Down EXCEPT !.at = "open", !.hash = hash, !.base = Len(log)]
  BY DEF ReadLedger, WaitInv, ArbitrationInv
<1>2. WaitLedger' /\ Requested' = Requested
  BY <1>1, StillLedgerKeepsWait
<1>3. Len(log) \in Nat /\ \A q \in Requested : q <= Len(log)
  BY <1>1, LogGrows, SequenceIs DEF LogIsSeq, IsSequence, Requested, Of
<1>4. DOMAIN run' = RunFields /\ run'.at = "open" /\ run'.hash = hash /\ run'.base = Len(log)
  BY <1>1 DEF Down, RunFields
<1>5. SegmentKnows'
  BY <1>1, <1>2, <1>3, <1>4 DEF SegmentKnows
<1>6. Shapes'
  BY <1>1, <1>3, <1>4 DEF Shapes, Places
<1> QED BY <1>2, <1>5, <1>6

(* Time passes; a runner dies.                                             *)
LEMMA ClockAndCrashKeepWait ==
  ASSUME WaitInv, Tick \/ Crash
  PROVE  WaitLedger' /\ SegmentKnows' /\ Shapes'
PROOF
<1>1. /\ log' = log /\ ck' = ck /\ term' = term
      /\ clock' \in {clock, clock + 1}
      /\ WaitLedger /\ SegmentKnows /\ Shapes
  BY DEF Tick, Crash, WaitInv
<1>2. /\ WaitLedger' /\ Requested' = Requested /\ Exits' = Exits
      /\ \A verdict : Authored(verdict) => Authored(verdict)'
  BY <1>1, StillLedgerKeepsWait
<1>3. clock' \in 0 .. MaxClock /\ crashes' \in 0 .. Crashes
  BY <1>1, WaitShape DEF Tick, Crash, Shapes
<1>4. CASE Tick
  <2>1. run' = run
    BY <1>4 DEF Tick
  <2>2. run.at = "rule" => Authored(run.verdict)'
    BY <1>1, <1>2, <2>1 DEF SegmentKnows
  <2>3. SegmentKnows'
    BY <1>1, <1>2, <2>1, <2>2 DEF SegmentKnows
  <2>4. Shapes'
    BY <1>1, <1>3, <2>1 DEF Shapes
  <2> QED BY <1>2, <2>3, <2>4
<1>5. CASE Crash
  <2>1. run' = Down
    BY <1>5 DEF Crash
  <2>2. /\ DOMAIN Down = RunFields /\ Down.at = "down" /\ Down.base = 0
        /\ Down.hash \in Hashes
    BY WaitShape DEF Down, RunFields
  <2>3. SegmentKnows'
    BY <2>1, <2>2 DEF SegmentKnows
  <2>4. 0 \in 0 .. Len(log)'
    BY <1>1 DEF Shapes
  <2>5. Shapes'
    BY <1>1, <1>3, <2>1, <2>2, <2>4 DEF Shapes, Places
  <2> QED BY <1>2, <2>3, <2>5
<1> QED BY <1>4, <1>5

(* A terminal prompts, arbitrates, and appends an answer the fold accepts. *)
LEMMA TerminalKeepsWait ==
  ASSUME WaitInv, NEW t \in Terminal, Terminals(t)
  PROVE  WaitLedger' /\ SegmentKnows' /\ Shapes'
PROOF
<1>1. /\ run' = run /\ clock' = clock /\ crashes' = crashes
      /\ ArbitrationInv /\ WaitLedger /\ SegmentKnows /\ Shapes /\ LogIsSeq
  BY DEF Terminals, Prompt, Arbitrate, AppendAnswer, WaitInv, ArbitrationInv
<1>2. /\ DOMAIN term' = Terminal
      /\ \A u \in Terminal : /\ DOMAIN term'[u] = TermFields
                             /\ term'[u].at \in {"away", "reading", "append"}
  <2>1. DOMAIN term = Terminal /\ DOMAIN term[t] = TermFields
    BY <1>1 DEF Shapes
  <2>2. PICK w : term' = [term EXCEPT ![t] = w] /\ DOMAIN w = TermFields
                 /\ w.at \in {"away", "reading", "append"}
    <3>1. DOMAIN Away = TermFields /\ Away.at = "away"
      BY DEF Away, TermFields
    <3>2. ASSUME NEW n \in DOMAIN log, Prompt(t, n)
          PROVE  \E w : term' = [term EXCEPT ![t] = w] /\ DOMAIN w = TermFields
                        /\ w.at \in {"away", "reading", "append"}
      <4> DEFINE w == [Away EXCEPT !.at = "reading", !.req = log[n].req, !.stamp = clock]
      <4>1. DOMAIN w = TermFields /\ w.at = "reading"
        BY DEF Away, TermFields
      <4>2. term' = [term EXCEPT ![t] = w]
        BY <3>2 DEF Prompt
      <4> HIDE DEF w
      <4> QED BY <4>1, <4>2
    <3>3. ASSUME NEW d \in Answers, Arbitrate(t, d)
          PROVE  \E w : term' = [term EXCEPT ![t] = w] /\ DOMAIN w = TermFields
                        /\ w.at \in {"away", "reading", "append"}
      <4> DEFINE v == [term[t] EXCEPT !.at = "append", !.decision = d]
      <4> DEFINE w == IF Arbitrable(term[t].req, term[t].stamp) THEN v ELSE Away
      <4>1. DOMAIN v = TermFields /\ v.at = "append"
        BY <2>1 DEF TermFields
      <4> HIDE DEF v
      <4>2. DOMAIN w = TermFields /\ w.at \in {"away", "reading", "append"}
        BY <3>1, <4>1
      <4>3. term' = [term EXCEPT ![t] = w]
        BY <2>1, <3>3 DEF Arbitrate, v
      <4> HIDE DEF w
      <4> QED BY <4>2, <4>3
    <3>4. CASE AppendAnswer(t)
      <4>1. term' = [term EXCEPT ![t] = Away]
        BY <3>4 DEF AppendAnswer
      <4> QED BY <3>1, <4>1
    <3> QED BY <3>2, <3>3, <3>4 DEF Terminals
  <2> QED BY <1>1, <2>1, <2>2 DEF Shapes
<1>3. CASE UNCHANGED << log, ck >>
  <2>1. /\ WaitLedger' /\ Requested' = Requested /\ Exits' = Exits
        /\ \A verdict : Authored(verdict) => Authored(verdict)'
    BY <1>1, <1>3, StillLedgerKeepsWait
  <2>2. run.at = "rule" => Authored(run.verdict)'
    BY <1>1, <2>1 DEF SegmentKnows
  <2>3. SegmentKnows'
    BY <1>1, <1>3, <2>1, <2>2 DEF SegmentKnows
  <2>4. Shapes'
    BY <1>1, <1>2, <1>3 DEF Shapes
  <2> QED BY <2>1, <2>3, <2>4
<1>4. ASSUME NEW ev, ev.type = "humanResponded", ev.purpose = "step", Folds(ev), Write(ev)
      PROVE  WaitLedger' /\ SegmentKnows' /\ Shapes'
  <2>1. WaitLedger' /\ ck'.inFlight = ck.inFlight
    BY <1>1, <1>4, AnswerKeepsWait
  <2>2. /\ log' # << >> /\ Len(log) \in Nat /\ Len(log)' = Len(log) + 1
        /\ Requested' = Requested /\ Exits' = Exits
    BY <1>1, <1>4, EntryCounts
  <2>3. run.at = "rule" => Authored(run.verdict)'
    <3> HAVE run.at = "rule"
    <3>1. Authored(run.verdict)
      BY <1>1 DEF SegmentKnows
    <3>2. /\ Of("humanResponded", log) \subseteq Of("humanResponded", log)'
          /\ \A type, n : n \in Of(type, log) => log'[n] = log[n]
      <4>1. log' = Append(log, ev)
        BY <1>4 DEF Write
      <4> QED BY <1>1, <4>1, LogGrows, OfGrows DEF Of
    <3> QED BY <1>1, <2>2, <3>1, <3>2 DEF Authored, Requested
  <2>4. SegmentKnows'
    BY <1>1, <2>1, <2>2, <2>3 DEF SegmentKnows
  <2>5. Shapes'
    BY <1>1, <1>2, <2>2 DEF Shapes
  <2> QED BY <2>1, <2>4, <2>5
<1>5. CASE AppendAnswer(t)
  <2>1. PICK ev : /\ ev.type = "humanResponded" /\ ev.purpose = "step"
                  /\ IF Folds(ev) THEN Write(ev) ELSE UNCHANGED << log, ck >>
    BY <1>5 DEF AppendAnswer
  <2> QED BY <1>3, <1>4, <2>1
<1>6. CASE ~AppendAnswer(t)
  BY <1>3, <1>6 DEF Terminals, Prompt, Arbitrate
<1> QED BY <1>5, <1>6

-----------------------------------------------------------------------------
(* The wait begins with nothing on record and nobody running.              *)
LEMMA WaitInitially == Init => WaitInv
PROOF
<1> SUFFICES ASSUME Init PROVE WaitInv
  OBVIOUS
<1>1. /\ log = << >> /\ \A type : Of(type, log) = { }
      /\ Requested = { } /\ Exits = { }
  BY EmptyIs DEF Init, Of, Requested, Exits
<1>2. ck = Seed(FirstHash, NoSession)
  BY DEF Init
<1>3. /\ IsFold(ck) /\ ~ck.started /\ ck.inFlight = << >> /\ ck.completed = << >>
      /\ ck.pending = NoPending
  BY <1>2, SeedIs
<1>4. WaitLedger
  <2>1. FoldKept
    BY <1>1, <1>3 DEF FoldKept
  <2>2. StepSpans
    BY <1>1, <1>3, EmptyIs DEF StepSpans
  <2>3. AskedOnce /\ ExitedOnce /\ JudgementHasAnAuthor /\ SettledMeansClosed
    BY <1>1, <1>3 DEF AskedOnce, ExitedOnce, JudgementHasAnAuthor, SettledMeansClosed
  <2> QED BY <2>1, <2>2, <2>3 DEF WaitLedger
<1>5. run = Down /\ clock = 0 /\ crashes = 0 /\ term = [t \in Terminal |-> Away]
  BY DEF Init
<1>6. /\ DOMAIN Down = RunFields /\ Down.at = "down" /\ Down.base = 0
      /\ Down.hash \in Hashes /\ DOMAIN Away = TermFields /\ Away.at = "away"
  BY WaitShape DEF Down, RunFields, Away, TermFields
<1>7. SegmentKnows
  BY <1>5, <1>6 DEF SegmentKnows
<1>8. Shapes
  <2>1. 0 \in 0 .. MaxClock /\ 0 \in 0 .. Crashes /\ 0 \in 0 .. Len(log)
    BY <1>1, EmptyIs, WaitShape
  <2> QED BY <1>5, <1>6, <2>1 DEF Shapes, Places
<1> QED BY <1>4, <1>7, <1>8, ArbitrationInitially DEF WaitInv

(* Every move of the runner, the clock and the terminals keeps it.         *)
LEMMA WaitInductive ==
  ASSUME WaitInv, [Next]_vars
  PROVE  WaitInv'
PROOF
<1>1. ArbitrationInv'
  BY ArbitrationInductive DEF WaitInv
<1>2. CASE Runner
  BY <1>1, <1>2, SilentMoves, MarkMoves, StepMoves DEF Runner, WaitInv
<1>3. ASSUME NEW hash \in Hashes, ReadLedger(hash)
      PROVE  WaitInv'
  BY <1>1, <1>3, ReadKeepsWait DEF WaitInv
<1>4. ASSUME NEW t \in Terminal, Terminals(t)
      PROVE  WaitInv'
  BY <1>1, <1>4, TerminalKeepsWait DEF WaitInv
<1>5. CASE Tick \/ Crash
  BY <1>1, <1>5, ClockAndCrashKeepWait DEF WaitInv
<1>6. CASE UNCHANGED vars
  <2>1. /\ log' = log /\ ck' = ck /\ clock' = clock /\ run' = run /\ term' = term
        /\ crashes' = crashes /\ WaitLedger /\ SegmentKnows /\ Shapes
    BY <1>6 DEF vars, WaitInv
  <2>2. /\ WaitLedger' /\ Requested' = Requested /\ Exits' = Exits
        /\ \A verdict : Authored(verdict) => Authored(verdict)'
    BY <2>1, StillLedgerKeepsWait
  <2>3. run.at = "rule" => Authored(run.verdict)'
    BY <2>1, <2>2 DEF SegmentKnows
  <2>4. SegmentKnows' /\ Shapes'
    BY <2>1, <2>2, <2>3 DEF SegmentKnows, Shapes
  <2> QED BY <1>1, <2>2, <2>4 DEF WaitInv
<1> QED BY <1>2, <1>3, <1>4, <1>5, <1>6 DEF Next

(* WaitInv holds of every behaviour of the wait.                           *)
THEOREM WaitInvariant == Spec => []WaitInv
PROOF
<1>1. WaitInv /\ [Next]_vars => WaitInv'
  BY WaitInductive
<1> QED BY <1>1, WaitInitially, PTL DEF Spec

(* The store never folds a refused entry, whatever terminals, deadlines,   *)
(* crashes and changes of hash come together (append_event), and the       *)
(* processes are where their code can be.                                  *)
THEOREM WaitTypes == Spec => []TypeOK
PROOF
<1>1. WaitInv => TypeOK
  BY FoldIsSome DEF WaitInv, WaitLedger, FoldKept, Shapes, Places, TypeOK
<1> QED BY <1>1, WaitInvariant, PTL

(* A set with no two members has at most one.                              *)
LEMMA AtMostOne ==
  ASSUME NEW S, \A x, y \in S : x = y
  PROVE  Cardinality(S) <= 1
PROOF
<1>1. CASE S = { }
  <2>1. Cardinality(S) = 0
    BY <1>1, FS_EmptySet
  <2> QED BY <2>1
<1>2. CASE S # { }
  <2>1. PICK x \in S : TRUE
    BY <1>2
  <2>2. S = {x}
    BY <2>1
  <2>3. Cardinality(S) = 1
    BY <2>2, FS_Singleton
  <2> QED BY <2>3
<1> QED BY <1>1, <1>2

(* One human step puts one request on the ledger and leaves once, however  *)
(* often its run is resumed, under whatever hash, with whatever it had not *)
(* read (exec_human asks only when no request of the instance stands).     *)
THEOREM AskedOnceAndSettledOnce == Spec => []AskedAndSettledOnce
PROOF
<1>1. WaitInv => AskedAndSettledOnce
  BY AtMostOne DEF WaitInv, WaitLedger, AskedOnce, ExitedOnce, Requested, Exits,
                   AskedAndSettledOnce
<1> QED BY <1>1, WaitInvariant, PTL

(* Once the step left under the hash it asked under, its wait is closed:   *)
(* no request is pending and no answer was or will be accepted after it,   *)
(* also from a terminal whose arbitration came before the exit             *)
(* (fold.rs, the exit settles the request asked at its path).              *)
THEOREM SettledIsClosed == Spec => []SettledMeansClosed
PROOF
<1>1. WaitInv => SettledMeansClosed
  BY DEF WaitInv, WaitLedger
<1> QED BY <1>1, WaitInvariant, PTL

(* No verdict of a human step without an author: it is an answer that      *)
(* stood on the ledger before it, or the `unknown` of a deadline that has  *)
(* passed (exec_human decides from what it read when the segment opened).  *)
THEOREM JudgementsHaveAuthors == Spec => []JudgementHasAnAuthor
PROOF
<1>1. WaitInv => JudgementHasAnAuthor
  BY DEF WaitInv, WaitLedger
<1> QED BY <1>1, WaitInvariant, PTL
=============================================================================
