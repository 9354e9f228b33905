--------------------------- MODULE RunEngineProofs --------------------------
(***************************************************************************)
(* What RunEngine keeps, proved for every flow, policy and number of       *)
(* disruptions: the calls to the device across crashes and resumes - which *)
(* step and span the pending intent belongs to, what a human was asked     *)
(* before an act and ruled about it, what licenses a call to be repeated - *)
(* and what only a process that dies can lose: a halt, a verdict on the    *)
(* latest attempt.                                                         *)
(***************************************************************************)
EXTENDS RunEngineLedger

(* What one entry leaves of the spans and the frontier: the frontier names *)
(* the step last entered or left, and the intent no entry has settled.     *)
LEMMA SpansMove ==
  ASSUME Ledger, NEW ev, Writes(ev)
  PROVE  /\ ev.type \in {"stepEntered", "stepExited"} =>
              ck'.frontier.path = ev.path /\ ck'.frontier.intent = NoIntent
         /\ ev.type = "stepEntered" => TopIs(ck', proc.i)
         /\ ev.type \notin {"stepEntered", "stepExited"} =>
              /\ SameSpans(ck', ck)
              /\ ev.type # "runStarted" => ck'.frontier.path = ck.frontier.path
              /\ ck'.frontier.intent =
                   CASE ev.type = "actionIntent" -> ev.call
                     [] ev.type = "runStarted" -> NoIntent
                     [] ev.type = "actionSettled" /\ ck.frontier.intent = ev.call -> NoIntent
                     [] OTHER -> ck.frontier.intent
PROOF
<1>1. /\ IsFold(ck) /\ Stacked(ck) /\ ck' = FoldStep(ck, ev)
      /\ ev.type \in Apart \union {"humanRequested", "humanResponded"}
      /\ ev.type # "runStarted" => ck.started
  BY WriteIs, LedgerIs DEF Write
<1>2. CASE ev.type = "runStarted"
  <2>1. ~ck.started
    BY <1>1, <1>2, LedgerIs DEF Writes, Mark, Asks, Responds, InStep, Enters, Intends,
                                Settles, Rules, Triggered, Exits, Shape, ShapedLedger
  <2> QED BY <1>1, <1>2, <2>1, RunStartedIs, KeptEffect
<1>3. CASE ev.type \in {"runSuspended", "runResumed", "runFinished", "handlerTriggered"}
  BY <1>1, <1>3, RunMarkIs, KeptEffect DEF Still
<1>4. CASE ev.type = "humanRequested"
  BY <1>1, <1>4, HumanRequestedIs, KeptEffect DEF Still
<1>5. CASE ev.type = "humanResponded"
  <2>1. ck.pending # NoPending /\ ck.pending.req = ev.req
    BY <1>5 DEF Writes, Mark, Asks, Responds, InStep, Enters, Intends,
                Settles, Rules, Triggered, Exits
  <2> QED BY <1>1, <1>5, <2>1, HumanRespondedIs, KeptEffect DEF Still
<1>6. CASE ev.type = "actionIntent"
  BY <1>1, <1>6, ActionIntentIs, KeptEffect
<1>7. ASSUME ev.type \in {"stepEntered", "actionSettled", "verdictRecorded", "stepExited"}
      PROVE  /\ ev.path = StepPath(proc.i) /\ proc.i \in Steps
             /\ ev.type # "stepEntered" => TopIs(ck, proc.i)
             /\ ev.type = "verdictRecorded" => ev.verdict \in Statuses
             /\ ev.type = "stepEntered" =>
                  \A k \in Steps : OpenIn(ck, k) => proc.i < k
  <2>1. PICK i \in Steps : InStep(ev, i)
    BY <1>7, WriteIs
  <2>2. ev.path = StepPath(i) /\ i = proc.i
    BY <2>1 DEF InStep
  <2>3. /\ ev.type # "stepEntered" => TopIs(ck, i)
        /\ ev.type = "verdictRecorded" => ev.verdict \in Statuses
    BY <1>7, <2>1, <2>2, LedgerIs DEF InStep, Enters, Intends, Settles, Rules, Triggered,
                                       Exits, Inside
  <2>4. ASSUME ev.type = "stepEntered", NEW k \in Steps, OpenIn(ck, k)
        PROVE  i < k
    <3>1. ~OpenIn(ck, i) /\ proc.at \in {"walk", "pairs"}
      BY <2>1, <2>4 DEF InStep, Enters, Intends, Settles, Rules, Triggered, Exits
    <3>2. k # i /\ ~(k < i)
      <4>1. proc.at = "walk" => \A m \in Steps : m < i => AdoptableIn(ck, m)
        BY <2>2 DEF Ledger, WalkedProc
      <4>2. proc.at = "pairs" => i <= k
        BY <2>2, <2>4 DEF Ledger, WalkedProc
      <4>3. AdoptableIn(ck, k) => ~OpenIn(ck, k)
        BY DEF Ledger, WalkedLedger
      <4> QED BY <2>4, <3>1, <4>1, <4>2, <4>3, StepsAre
    <3> QED BY <3>2, StepsAre
  <2> QED BY <2>2, <2>3, <2>4
<1>8. CASE ev.type = "stepEntered"
  <2>1. TopIs(ck', proc.i)
    BY <1>1, <1>7, <1>8, EnteredEffect
  <2>2. ck'.frontier.path = ev.path /\ ck'.frontier.intent = NoIntent
    BY <1>1, <1>8, StepEnteredIs
  <2> QED BY <1>8, <2>1, <2>2
<1>9. CASE ev.type = "actionSettled"
  <2>1. ck.inFlight # << >>
    BY <1>7, <1>9 DEF TopIs
  <2>2. SameSpans(ck', ck)
    BY <1>1, <1>7, <1>9, SettledEffect
  <2> QED BY <1>1, <1>9, <2>1, <2>2, ActionSettledIs
<1>10. CASE ev.type = "verdictRecorded"
  <2>1. ev.verdict # NoVerdict
    BY <1>7, <1>10, Marks
  <2>2. SameSpans(ck', ck)
    BY <1>1, <1>7, <1>10, <2>1, VerdictEffect
  <2> DEFINE k == Latest(InFlightAt(ck, ev.path))
  <2>3. k \in InFlightAt(ck, ev.path)
    BY <1>1, <1>7, <1>10, TopIsOpen
  <2> QED BY <1>1, <1>10, <2>2, <2>3, VerdictRecordedIs
<1>11. CASE ev.type = "stepExited"
  <2>1. ck.inFlight # << >>
    BY <1>7, <1>11 DEF TopIs
  <2> QED BY <1>1, <1>11, <2>1, StepExitedIs
<1> QED BY <1>1, <1>2, <1>3, <1>4, <1>5, <1>6, <1>8, <1>9, <1>10, <1>11 DEF Apart

-----------------------------------------------------------------------------
(* What an action wrote is an entry of the catalogue.                      *)
LEMMA WroteWrites ==
  ASSUME Ledger, [Next]_vars, NEW type, NEW path, NEW ev, Wrote(type, path, ev)
  PROVE  Writes(ev)
PROOF
<1>1. IsSequence(log) /\ Write(ev)
  BY LedgerIs DEF Wrote
<1>2. log'[Len(log) + 1] = ev /\ Len(log') = Len(log) + 1 /\ Len(log) \in Nat
  BY <1>1, Grows
<1>3. ~UNCHANGED log
  BY <1>2
<1>4. PICK e : Writes(e)
  BY <1>3, StepWrites
<1>5. log'[Len(log) + 1] = e
  BY <1>1, <1>4, Grows, WriteIs
<1> QED BY <1>2, <1>4, <1>5

(* Only the intent of a call brings its dispatch about.                    *)
LEMMA DispatchComes ==
  ASSUME Ledger, [Next]_vars, proc'.at = "dispatch"
  PROVE  UNCHANGED proc \/ WriteIntent
PROOF
<1>1. Shape /\ IsProc(proc) /\ ShapedProc
  BY LedgerIs DEF Shape
<1>2. ~StartRun /\ ~AdoptStep /\ ~EnterStep
  BY <1>1, StartDoes, WalkingIs, AdoptDoes, EnterStepDoes
<1>3. ~GateSupervision
  BY <1>1, GateDoes DEF Leaves
<1>4. ~Dispatch
  BY <1>1, DispatchDoes
<1>5. ~Settle /\ ~AdoptTerminal
  BY <1>1, SettleDoes DEF Leaves
<1>6. ~RecordNegative /\ ~Supersede /\ ~ \E v \in Judgments : Judge(v)
  BY <1>1, VerdictDoes DEF Leaves
<1>7. ~RetryInForce
  BY <1>1, RetryDoes
<1>8. ~ContinueEscalation
  BY <1>1, ContinueDoes, AskedRulings, LedgerIs DEF Leaves
<1>9. ~ConsultHook
  BY <1>1, ConsultDoes, LedgerIs DEF Leaves, ConsultHook, Inside
<1>10. ~AskEscalation /\ ~AskAdjudication
  BY <1>1, AskDoes, AdjudicateDoes
<1>11. ~ExitStep
  BY <1>1, ExitDoes DEF ExitStep, ShapedProc, Leaving
<1>12. ~RecordBlocked \/ UNCHANGED proc
  BY <1>1, PairsDoes DEF IsProc, ProcFields
<1>13. ~FinishRun /\ ~SuspendRun /\ ~Crash
  BY FinishDoes, SuspendDoes, DownIs DEF Crash
<1>14. ~Resume
  BY ResumeDoes, WalkingIs
<1>15. ~StopRequested /\ ~NoTerminal
  BY <1>1, DisruptionDoes
<1>16. CASE Environment \/ UNCHANGED vars
  BY <1>16 DEF Environment, Respond, DeviceFinishes, DeadlinePasses, vars
<1> QED BY <1>2, <1>3, <1>4, <1>5, <1>6, <1>7, <1>8, <1>9, <1>10, <1>11, <1>12, <1>13,
           <1>14, <1>15, <1>16 DEF Next, Engine, Disruption

(* The device side of the calls: each was made by an intent of its step,   *)
(* later intents make later calls, and the call to be dispatched has not   *)
(* left.                                                                   *)
CallsOwned ==
  /\ \A c \in Calls :
       /\ DOMAIN dev[c] = {"step", "fate", "outcome"}
       /\ \E k \in Steps : /\ dev[c].step = k
                           /\ \E n \in At("actionIntent", k) : log[n].call = c
  /\ \A i \in Steps : \A n \in At("actionIntent", i) :
       log[n].call \in Calls /\ dev[log[n].call].step = i
  /\ \A i \in Steps : \A m, n \in At("actionIntent", i) :
       m < n => log[m].call < log[n].call
  /\ proc.at = "dispatch" => proc.call = Len(dev) /\ dev[proc.call].fate = "unsent"

(* A step of the system makes one call, moves one on, or leaves them.      *)
Made(d) ==
  /\ dev' = Append(dev, d) /\ DOMAIN d = {"step", "fate", "outcome"}
  /\ d.step = proc.i /\ d.fate = "unsent" /\ proc'.call = NextCall
  /\ proc.at = "act"
  /\ \E ev : Writes(ev) /\ ev.type = "actionIntent" /\ ev.call = NextCall
Moved(c, d) ==
  /\ UNCHANGED << log, ck >>
  /\ dev' = Put(dev, c, d) /\ DOMAIN d = DOMAIN dev[c] /\ d.step = dev[c].step
  /\ \/ /\ proc.at = "dispatch" /\ c = proc.call /\ d.fate = "started"
        /\ proc'.at = "wait"
     \/ dev[c].fate = "started" /\ d.fate = "done" /\ UNCHANGED proc

(* A record whose fate, and outcome, are replaced.                         *)
LEMMA MovedRecord ==
  ASSUME NEW r, DOMAIN r = {"step", "fate", "outcome"}, NEW fate, NEW outcome
  PROVE  /\ LET d == [r EXCEPT !.fate = fate]
            IN  DOMAIN d = DOMAIN r /\ d.step = r.step /\ d.fate = fate
         /\ LET d == [r EXCEPT !.fate = fate, !.outcome = outcome]
            IN  DOMAIN d = DOMAIN r /\ d.step = r.step /\ d.fate = fate
PROOF
OBVIOUS

(* What a step does to the calls: it makes one, or moves the fate of one.  *)
LEMMA CallsMove ==
  ASSUME Ledger, CallsOwned, [Next]_vars
  PROVE  \/ UNCHANGED dev
         \/ \E d : Made(d)
         \/ \E c \in Calls : \E d : Moved(c, d)
PROOF
<1>1. IsProc(proc) /\ (proc.at = "dispatch" => proc.call \in Calls)
  BY DEF Ledger, ShapedProc
<1>2. CASE WriteIntent
  <2> DEFINE d == [step |-> proc.i, fate |-> "unsent", outcome |-> "none"]
  <2>1. dev' = Append(dev, d) /\ proc.at = "act"
    BY <1>2 DEF WriteIntent
  <2>2. DOMAIN d = {"step", "fate", "outcome"} /\ d.step = proc.i /\ d.fate = "unsent"
    OBVIOUS
  <2>3. PICK ev : Wrote("actionIntent", Here, ev) /\ ev.call = NextCall
    BY <1>1, <1>2, WriteIntentDoes
  <2>4. Writes(ev) /\ ev.type = "actionIntent"
    BY <2>3, WroteWrites DEF Wrote
  <2>5. proc'.call = NextCall
    BY <1>1, <1>2, WriteIntentDoes
  <2> HIDE DEF d
  <2> QED BY <2>1, <2>2, <2>3, <2>4, <2>5 DEF Made
<1>3. CASE Dispatch
  <2>1. /\ proc.at = "dispatch" /\ proc'.at = "wait" /\ UNCHANGED << log, ck >>
        /\ dev' = [dev EXCEPT ![proc.call].fate = "started"]
    BY <1>1, <1>3, DispatchDoes
  <2> DEFINE d == [dev[proc.call] EXCEPT !.fate = "started"]
  <2>2. dev' = Put(dev, proc.call, d)
    BY <2>1 DEF Put
  <2>3. DOMAIN d = DOMAIN dev[proc.call] /\ d.step = dev[proc.call].step /\ d.fate = "started"
    BY <1>1, <2>1, MovedRecord DEF CallsOwned
  <2> HIDE DEF d
  <2> QED BY <1>1, <2>1, <2>2, <2>3 DEF Moved
<1>4. ASSUME NEW c \in Calls, NEW o \in Outcomes, DeviceFinishes(c, o)
      PROVE  \E d : Moved(c, d)
  <2> DEFINE d == [dev[c] EXCEPT !.fate = "done", !.outcome = o]
  <2>1. /\ dev[c].fate = "started" /\ UNCHANGED << log, ck, proc >>
        /\ dev' = [dev EXCEPT ![c].fate = "done", ![c].outcome = o]
    BY <1>4 DEF DeviceFinishes
  <2>2. dev' = Put(dev, c, d)
    <3>1. DOMAIN dev[c] = {"step", "fate", "outcome"} /\ c \in DOMAIN dev
      BY DEF CallsOwned, Calls
    <3> QED BY <2>1, <3>1 DEF Put
  <2>3. DOMAIN d = DOMAIN dev[c] /\ d.step = dev[c].step /\ d.fate = "done"
    BY MovedRecord DEF CallsOwned
  <2> HIDE DEF d
  <2> QED BY <2>1, <2>2, <2>3 DEF Moved
<1>5. CASE ~WriteIntent /\ ~Dispatch /\ ~(\E c \in Calls, o \in Outcomes : DeviceFinishes(c, o))
  BY <1>5 DEF Next, Engine, Environment, Disruption, vars,
       StartRun, AdoptStep, EnterStep, GateSupervision, Settle, AdoptTerminal, Judge,
       RecordNegative, RetryInForce, ContinueEscalation, ConsultHook, AskEscalation,
       Supersede, ExitStep, RecordBlocked, FinishRun, SuspendRun, AskAdjudication,
       Resume, Respond, DeadlinePasses, StopRequested, NoTerminal, Crash
<1> QED BY <1>2, <1>3, <1>4, <1>5

(* Calls keep their step, and one that has left has left for good.        *)
CallsKeep ==
  /\ Calls \subseteq Calls'
  /\ \A c \in Calls :
       /\ dev'[c].step = dev[c].step
       /\ dev'[c].fate = "unsent" => dev[c].fate = "unsent"
       /\ dev[c].fate = "unsent" /\ dev'[c].fate # "unsent" =>
            proc.at = "dispatch" /\ c = proc.call /\ proc'.at = "wait"
            /\ UNCHANGED << log, ck >>

(* Calls are kept, each with its step; only a dispatch sends one.          *)
LEMMA CallsKept ==
  ASSUME Ledger, CallsOwned, [Next]_vars
  PROVE  CallsKeep
PROOF
<1>1. IsSequence(dev)
  BY LedgerIs DEF ShapedLedger
<1>2. CASE UNCHANGED dev
  BY <1>2 DEF CallsKeep, Calls
<1>3. ASSUME NEW d, Made(d)
      PROVE  CallsKeep
  <2>1. dev' = Append(dev, d)
    BY <1>3 DEF Made
  <2>2. DOMAIN dev \subseteq DOMAIN dev' /\ \A c \in DOMAIN dev : dev'[c] = dev[c]
    BY <1>1, <2>1, AppendIs
  <2> QED BY <2>2 DEF CallsKeep, Calls
<1>4. ASSUME NEW c \in Calls, NEW d, Moved(c, d)
      PROVE  CallsKeep
  <2>1. /\ dev' = [dev EXCEPT ![c] = d] /\ d.step = dev[c].step
        /\ UNCHANGED << log, ck >>
        /\ \/ /\ proc.at = "dispatch" /\ c = proc.call /\ d.fate = "started"
              /\ proc'.at = "wait"
           \/ dev[c].fate = "started" /\ d.fate = "done"
    BY <1>4 DEF Moved, Put
  <2>2. DOMAIN dev' = DOMAIN dev /\ dev'[c] = d /\ \A x \in DOMAIN dev : x # c => dev'[x] = dev[x]
    BY <2>1 DEF Calls
  <2> QED BY <2>1, <2>2 DEF CallsKeep, Calls
<1> QED BY <1>2, <1>3, <1>4, CallsMove

(* Every step keeps each call with the intent that made it.                *)
LEMMA CallsOwnedNext ==
  ASSUME Ledger, CallsOwned, [Next]_vars
  PROVE  CallsOwned'
PROOF
<1>1. IsSequence(dev) /\ IsSequence(log) /\ Len(dev) \in Nat /\ Calls = 1 .. Len(dev)
  BY LedgerIs, SequenceIs DEF ShapedLedger, Calls
<1>2. ASSUME ~\E d : Made(d)
      PROVE  /\ \A i \in Steps : At("actionIntent", i)' = At("actionIntent", i)
             /\ \A n \in DOMAIN log : log'[n] = log[n]
             /\ DOMAIN dev' = DOMAIN dev
  <2>1. UNCHANGED dev \/ \E c \in Calls : \E d : Moved(c, d)
    BY <1>2, CallsMove
  <2>2. DOMAIN dev' = DOMAIN dev
    BY <2>1 DEF Moved, Put
  <2>3. CASE UNCHANGED << log, ck >>
    BY <2>2, <2>3 DEF At
  <2>4. ASSUME NEW ev, Writes(ev)
        PROVE  /\ \A i \in Steps : At("actionIntent", i)' = At("actionIntent", i)
               /\ \A n \in DOMAIN log : log'[n] = log[n]
    <3>1. ev.type # "actionIntent"
      <4> SUFFICES ASSUME ev.type = "actionIntent"
                   PROVE  FALSE
        OBVIOUS
      <4>1. \E i \in Steps : InStep(ev, i)
        BY <2>4, WriteIs
      <4>2. \E d : dev' = Append(dev, d)
        BY <4>1 DEF InStep, Enters, Intends, Settles, Rules, Triggered, Exits
      <4>3. Len(dev) + 1 \in DOMAIN dev' /\ Len(dev) + 1 \notin DOMAIN dev
        <5>1. PICK d : dev' = Append(dev, d)
          BY <4>2
        <5> QED BY <1>1, <5>1, AppendIs
      <4> QED BY <2>2, <4>3
    <3> QED BY <1>1, <2>4, <3>1, AtStays, Grows, WriteIs
  <2> QED BY <2>2, <2>3, <2>4, StepWrites
<1>3. ASSUME ~\E d : Made(d), proc'.at = "dispatch"
      PROVE  proc'.call = Len(dev') /\ dev'[proc'.call].fate = "unsent"
  <2>1. ~WriteIntent
    <3> SUFFICES ASSUME WriteIntent
                 PROVE  FALSE
      OBVIOUS
    <3>1. dev' = Append(dev, [step |-> proc.i, fate |-> "unsent", outcome |-> "none"])
      BY DEF WriteIntent
    <3>2. Len(dev) + 1 \in DOMAIN dev' /\ Len(dev) + 1 \notin DOMAIN dev
      BY <1>1, <3>1, AppendIs
    <3> QED BY <1>2, <1>3, <3>2
  <2>2. UNCHANGED proc
    BY <1>3, <2>1, DispatchComes
  <2>3. proc.call = Len(dev) /\ dev[proc.call].fate = "unsent" /\ proc.call \in Calls
    BY <1>3, <2>2 DEF CallsOwned, Ledger, ShapedProc
  <2>4. dev'[proc.call].fate = "unsent"
    BY <1>3, <2>2, <2>3, CallsKept DEF CallsKeep
  <2>5. Len(dev') = Len(dev)
    <3>1. IsSequence(dev')
      BY LedgerNext, LedgerIs DEF Ledger, ShapedLedger
    <3>2. DOMAIN dev' = 1 .. Len(dev') /\ Len(dev') \in Nat
      BY <3>1, SequenceIs
    <3>3. 1 .. Len(dev') = 1 .. Len(dev)
      BY <1>1, <1>2, <1>3, <3>2 DEF Calls
    <3>4. PICK a \in Nat, b \in Nat : a = Len(dev) /\ b = Len(dev')
      BY <1>1, <3>2
    <3>5. 1 .. b = 1 .. a => a = b
      OBVIOUS
    <3> QED BY <3>3, <3>4, <3>5
  <2> QED BY <2>2, <2>3, <2>4, <2>5
<1>4. CASE ~\E d : Made(d)
  <2>1. CallsKeep
    BY CallsKept
  <2>2. \A c \in Calls : DOMAIN dev'[c] = DOMAIN dev[c]
    <3>1. UNCHANGED dev \/ \E c \in Calls : \E d : Moved(c, d)
      BY <1>4, CallsMove
    <3> QED BY <3>1 DEF Moved, Put, Calls
  <2>3. Calls' = Calls
    BY <1>2, <1>4 DEF Calls
  <2>4. \A i : At("actionIntent", i) \subseteq DOMAIN log
    BY DEF At, Entries
  <2> QED BY <1>2, <1>3, <1>4, <2>1, <2>2, <2>3, <2>4 DEF CallsOwned, CallsKeep
<1>5. ASSUME NEW d, Made(d)
      PROVE  CallsOwned'
  <2>1. PICK ev : Writes(ev) /\ ev.type = "actionIntent" /\ ev.call = NextCall
    BY <1>5 DEF Made
  <2>2. PICK i \in Steps : InStep(ev, i)
    BY <2>1, WriteIs
  <2>3. i = proc.i /\ ev.path = StepPath(i) /\ Write(ev)
    BY <2>1, <2>2, WriteIs
  <2>4. /\ Len(log) \in Nat /\ log'[Len(log) + 1] = ev
        /\ \A n \in 1 .. Len(log) : log'[n] = log[n]
    BY <1>1, <2>3, Grows
  <2>5. \A k \in Steps : At("actionIntent", k)' =
          IF k = i THEN At("actionIntent", k) \union {Len(log) + 1}
          ELSE At("actionIntent", k)
    BY <1>1, <2>1, <2>3, AtGrows
  <2>6. /\ Calls' = Calls \union {NextCall} /\ Len(dev') = NextCall
        /\ NextCall \in Nat /\ \A c \in Calls : c < NextCall /\ c # NextCall
        /\ \A c \in Calls : dev'[c] = dev[c]
        /\ dev'[NextCall] = d
    <3>1. dev' = Append(dev, d)
      BY <1>5 DEF Made
    <3>2. /\ Len(dev') = Len(dev) + 1 /\ DOMAIN dev' = 1 .. Len(dev')
          /\ \A c \in DOMAIN dev : dev'[c] = dev[c]
          /\ dev'[Len(dev')] = d
      BY <1>1, <3>1, AppendIs
    <3>3. PICK N \in Nat : N = Len(dev)
      BY <1>1
    <3>4. /\ NextCall = N + 1 /\ DOMAIN dev = 1 .. N /\ DOMAIN dev' = 1 .. N + 1
          /\ Calls = 1 .. N /\ Calls' = 1 .. N + 1
      BY <1>1, <3>2, <3>3 DEF NextCall, Calls
    <3>5. 1 .. N + 1 = 1 .. N \union {N + 1} /\ \A c \in 1 .. N : c < N + 1 /\ c # N + 1
      OBVIOUS
    <3>6. Calls' = Calls \union {NextCall} /\ \A c \in Calls : c < NextCall /\ c # NextCall
      BY <3>4, <3>5
    <3>7. Len(dev') = NextCall /\ NextCall \in Nat
      BY <3>2, <3>3, <3>4
    <3>8. dev'[NextCall] = d /\ \A c \in Calls : dev'[c] = dev[c]
      BY <3>2, <3>7 DEF Calls
    <3> QED BY <3>6, <3>7, <3>8
  <2>7. /\ DOMAIN d = {"step", "fate", "outcome"} /\ d.step = i /\ d.fate = "unsent"
        /\ proc'.call = NextCall
    BY <1>5, <2>3 DEF Made
  <2>8. \A k : At("actionIntent", k) \subseteq 1 .. Len(log)
    BY <1>1, AtIs
  <2>9. \A k \in Steps : \A n \in At("actionIntent", k) : n < Len(log) + 1 /\ n # Len(log) + 1
    BY <2>4, <2>8
  <2> DEFINE Held(k, c) == \E n \in At("actionIntent", k)' : log'[n].call = c
  <2>10. ASSUME NEW c \in Calls'
         PROVE  /\ DOMAIN dev'[c] = {"step", "fate", "outcome"}
                /\ \E k \in Steps : dev'[c].step = k /\ Held(k, c)
    <3>1. CASE c \in Calls
      <4>0. PICK k \in Steps : /\ dev[c].step = k
                               /\ \E n \in At("actionIntent", k) : log[n].call = c
        BY <3>1 DEF CallsOwned
      <4>1. PICK n \in At("actionIntent", k) : dev[c].step = k /\ log[n].call = c
        BY <4>0
      <4>2. n \in At("actionIntent", k)' /\ log'[n] = log[n]
        BY <2>4, <2>5, <2>8, <4>1
      <4>3. dev'[c] = dev[c] /\ DOMAIN dev[c] = {"step", "fate", "outcome"}
        BY <2>6, <3>1 DEF CallsOwned
      <4> QED BY <4>1, <4>2, <4>3
    <3>2. CASE c = NextCall
      <4>1. Len(log) + 1 \in At("actionIntent", i)'
        BY <2>5
      <4>2. Held(i, c)
        BY <2>1, <2>4, <3>2, <4>1
      <4> QED BY <2>6, <2>7, <3>2, <4>2
    <3> QED BY <2>6, <3>1, <3>2
  <2>11. ASSUME NEW k \in Steps, NEW n \in At("actionIntent", k)'
         PROVE  log'[n].call \in Calls' /\ dev'[log'[n].call].step = k
    <3>1. CASE n \in At("actionIntent", k)
      <4>1. log'[n] = log[n]
        BY <2>4, <2>8, <3>1
      <4>2. log[n].call \in Calls /\ dev[log[n].call].step = k
        BY <3>1 DEF CallsOwned
      <4> QED BY <2>6, <4>1, <4>2
    <3>2. CASE k = i /\ n = Len(log) + 1
      BY <2>1, <2>4, <2>6, <2>7, <3>2
    <3> QED BY <2>5, <3>1, <3>2
  <2>12. ASSUME NEW k \in Steps, NEW m \in At("actionIntent", k)',
                NEW n \in At("actionIntent", k)', m < n
         PROVE  log'[m].call < log'[n].call
    <3>1. CASE n \in At("actionIntent", k)
      <4>1. m # Len(log) + 1
        <5>1. n \in 1 .. Len(log)
          BY <2>8, <3>1
        <5> QED BY <2>4, <2>12, <5>1
      <4>2. m \in At("actionIntent", k)
        BY <2>5, <4>1
      <4>3. log[m].call < log[n].call
        BY <2>12, <3>1, <4>2 DEF CallsOwned
      <4> QED BY <2>4, <2>8, <3>1, <4>2, <4>3
    <3>2. CASE k = i /\ n = Len(log) + 1
      <4>1. m \in At("actionIntent", k)
        <5>1. m # Len(log) + 1
          BY <2>4, <2>12, <3>2
        <5> QED BY <2>5, <5>1
      <4>2. log[m].call \in Calls /\ log'[m] = log[m]
        BY <2>4, <2>8, <4>1 DEF CallsOwned
      <4> QED BY <2>1, <2>4, <2>6, <3>2, <4>2
    <3> QED BY <2>5, <3>1, <3>2
  <2>13. proc'.call = Len(dev') /\ dev'[proc'.call].fate = "unsent"
    BY <2>6, <2>7
  <2> QED BY <2>10, <2>11, <2>12, <2>13 DEF CallsOwned
<1> QED BY <1>4, <1>5

-----------------------------------------------------------------------------
(* The pending intent is of the lowest step not concluded, whose span is   *)
(* open; the frontier names the step on top, or an earlier one when that   *)
(* was opened by a blocked pair.                                           *)
Pursued ==
  ck.frontier.intent # NoIntent =>
    \E k \in Steps : /\ dev[ck.frontier.intent].step = k /\ OpenIn(ck, k)
                     /\ \A m \in Steps : m < k => AdoptableIn(ck, m)
Names(k) ==
  \E m \in Steps : m <= k /\ ck.frontier.path = StepPath(m) /\ (m = k \/ NullSpan(k))
Fronted ==
  /\ \A k \in Steps : TopIs(ck, k) => Names(k)
  /\ log = << >> => ck.inFlight = << >>

(* A null span stays one.                                                  *)
LEMMA NullKept ==
  ASSUME Ledger, NEW ev, Writes(ev), NEW k \in Steps, NullSpan(k)
  PROVE  NullSpan(k)'
PROOF
<1>1. IsSequence(log) /\ Write(ev)
  BY WriteIs
<1>2. PICK e \in At("stepEntered", k) : ~log[e].resolved
  BY DEF NullSpan
<1>3. At("stepEntered", k) \subseteq DOMAIN log /\ \A n \in DOMAIN log : log'[n] = log[n]
  BY <1>1, Grows DEF At, Entries
<1>4. At("stepEntered", k) \subseteq At("stepEntered", k)'
  <2>1. DOMAIN log \subseteq DOMAIN log'
    BY <1>1, Grows
  <2> QED BY <1>3, <2>1 DEF At, Entries
<1> QED BY <1>2, <1>3, <1>4 DEF NullSpan

(* One step is on top.                                                     *)
LEMMA TopIsOne ==
  ASSUME NEW st, NEW i \in Steps, NEW k \in Steps, TopIs(st, i), TopIs(st, k)
  PROVE  i = k
PROOF
BY PathsDiffer DEF TopIs

(* Every step keeps the pending intent at the lowest open step.            *)
LEMMA PursuedNext ==
  ASSUME Ledger, Ledger', CallsOwned, CallsOwned', Pursued, [Next]_vars
  PROVE  Pursued'
PROOF
<1>1. CallsKeep
  BY CallsKept
<1>2. ck.frontier.intent \in {NoIntent} \union Calls
  BY DEF Ledger, ShapedLedger
<1>3. CASE UNCHANGED << log, ck >>
  BY <1>1, <1>2, <1>3 DEF Pursued, CallsKeep
<1>4. ASSUME NEW ev, Writes(ev)
      PROVE  Pursued'
  <2>1. CASE ck'.frontier.intent = NoIntent
    BY <2>1 DEF Pursued
  <2>2. CASE /\ ev.type \notin {"stepEntered", "stepExited"}
             /\ ck'.frontier.intent = ck.frontier.intent
             /\ ck.frontier.intent # NoIntent
    <3>1. PICK k \in Steps : /\ dev[ck.frontier.intent].step = k /\ OpenIn(ck, k)
                             /\ \A m \in Steps : m < k => AdoptableIn(ck, m)
      BY <2>2 DEF Pursued
    <3>2. OpenIn(ck', k)
      BY <1>4, <2>2, <3>1, SpansMove DEF SameSpans
    <3>3. \A m \in Steps : m < k => AdoptableIn(ck', m)
      BY <1>4, <3>1, WriteRecords
    <3>4. dev'[ck'.frontier.intent].step = k
      BY <1>1, <1>2, <2>2, <3>1 DEF CallsKeep
    <3> QED BY <3>2, <3>3, <3>4 DEF Pursued
  <2>3. CASE ev.type = "actionIntent"
    <3>1. PICK i \in Steps : InStep(ev, i)
      BY <1>4, <2>3, WriteIs
    <3>2. /\ proc.at = "act" /\ i = proc.i /\ ev.call = NextCall /\ ev.path = StepPath(i)
      BY <2>3, <3>1 DEF InStep, Enters, Intends, Settles, Rules, Triggered, Exits
    <3>3. TopIs(ck, i) /\ \A m \in Steps : m < i => AdoptableIn(ck, m)
      BY <3>2 DEF Ledger, WalkedProc, Inside
    <3>4. OpenIn(ck, i)
      BY <3>3, TopIsOpen, LedgerIs
    <3>5. OpenIn(ck', i)
      BY <1>4, <2>3, <3>4, SpansMove DEF SameSpans
    <3>6. \A m \in Steps : m < i => AdoptableIn(ck', m)
      BY <1>4, <3>3, WriteRecords
    <3>7. ck'.frontier.intent = NextCall
      BY <1>4, <2>3, <3>2, SpansMove
    <3>8. Len(log) + 1 \in At("actionIntent", i)' /\ log'[Len(log) + 1] = ev
      BY <1>4, <2>3, <3>2, AtGrows, Grows, WriteIs
    <3>9. dev'[NextCall].step = i
      BY <3>2, <3>8 DEF CallsOwned
    <3> QED BY <3>5, <3>6, <3>7, <3>9 DEF Pursued
  <2> QED BY <1>4, <2>1, <2>2, <2>3, SpansMove
<1> QED BY <1>3, <1>4, StepWrites

(* Every step keeps the frontier where the top span, or what it follows,   *)
(* is.                                                                     *)
LEMMA FrontedNext ==
  ASSUME Ledger, Ledger', Fronted, [Next]_vars
  PROVE  Fronted'
PROOF
<1>1. CASE UNCHANGED << log, ck >>
  BY <1>1 DEF Fronted, Names, NullSpan, At
<1>2. ASSUME NEW ev, Writes(ev)
      PROVE  Fronted'
  <2>1. log' # << >>
    BY <1>2, WriteIs, Grows
  <2> SUFFICES ASSUME NEW k \in Steps, TopIs(ck', k)
               PROVE  Names(k)'
    BY <2>1 DEF Fronted
  <2>2. CASE ev.type = "stepEntered"
    <3>1. PICK i \in Steps : InStep(ev, i)
      BY <1>2, <2>2, WriteIs
    <3>2. ev.path = StepPath(i) /\ i = proc.i
      BY <1>2, <3>1, WriteIs
    <3>3. TopIs(ck', i) /\ ck'.frontier.path = StepPath(i)
      BY <1>2, <2>2, <3>2, SpansMove
    <3>4. k = i /\ k <= k
      BY <3>3, TopIsOne, StepsAre
    <3> QED BY <3>3, <3>4 DEF Names
  <2>3. CASE ev.type = "stepExited"
    <3>1. PICK i \in Steps : InStep(ev, i)
      BY <1>2, <2>3, WriteIs
    <3>2. ev.path = StepPath(i) /\ TopIs(ck, i) /\ ~AdoptableIn(ck, i)
      BY <2>3, <3>1 DEF InStep, Enters, Intends, Settles, Rules, Triggered, Exits
    <3>3. OpenIn(ck', k)
      BY TopIsOpen, LedgerIs DEF Ledger, ShapedLedger, WalkedLedger
    <3>4. OpenIn(ck, k) /\ k # i
      BY <1>2, <2>3, <3>1, <3>3, WriteRecords
    <3>5. i <= k
      BY <3>2, <3>4, TopIsOpen, LedgerIs
    <3>6. i < k
      BY <3>4, <3>5, StepsAre
    <3>7. NullSpan(k)
      BY <3>2, <3>4, <3>6 DEF Ledger, WalkedLedger
    <3>8. NullSpan(k)'
      BY <1>2, <3>7, NullKept
    <3>9. ck'.frontier.path = StepPath(i)
      BY <1>2, <2>3, <3>2, SpansMove
    <3> QED BY <3>5, <3>8, <3>9 DEF Names
  <2>4. CASE ev.type \notin {"stepEntered", "stepExited"}
    <3>1. TopIs(ck, k)
      BY <1>2, <2>4, SpansMove DEF SameSpans
    <3>2. ev.type # "runStarted"
      <4> SUFFICES ASSUME ev.type = "runStarted"
                   PROVE  FALSE
        OBVIOUS
      <4>1. log = << >>
        BY <1>2 DEF Writes, Mark, Asks, Responds, InStep, Enters, Intends, Settles,
                    Rules, Triggered, Exits
      <4> QED BY <3>1, <4>1 DEF Fronted, TopIs
    <3>3. ck'.frontier.path = ck.frontier.path
      BY <1>2, <2>4, <3>2, SpansMove
    <3>4. PICK m \in Steps : /\ m <= k /\ ck.frontier.path = StepPath(m)
                             /\ m = k \/ NullSpan(k)
      BY <3>1 DEF Fronted, Names
    <3>5. m = k \/ NullSpan(k)'
      BY <1>2, <3>4, NullKept
    <3> QED BY <3>3, <3>4, <3>5 DEF Names
  <2> QED BY <2>2, <2>3, <2>4
<1> QED BY <1>1, <1>2, StepWrites

-----------------------------------------------------------------------------
(* A process goes on inside its step.                                      *)
Turn(from, to) == proc.at \in from /\ proc'.at \in to
Adds(type) == \E ev : Writes(ev) /\ ev.type = type
Turns ==
  /\ proc.at \in Inside /\ proc'.at \in Inside /\ SameRound(proc', proc)
  /\ \/ Turn({"gate"}, {"act", "exit"}) /\ GateSupervision /\ UNCHANGED << log, ck >>
     \/ Turn({"dispatch"}, {"wait"}) /\ UNCHANGED << log, ck >>
     \/ /\ Turn({"wait", "adoptSettle"}, {"judge", "act", "confirm", "record", "exit"})
        /\ \E ev : Writes(ev) /\ ev.type = "actionSettled" /\ ev.call = proc.call
     \/ /\ Turn({"judge", "confirm", "record", "supersede"}, {"consult", "exit"})
        /\ proc'.at = "consult" => ~proc.plain
        /\ Adds("verdictRecorded")
     \/ /\ Turn({"consult"}, {"act", "ask", "supersede", "exit"})
        /\ UNCHANGED << log, ck >> \/ Adds("handlerTriggered")
Listens ==
  UNCHANGED proc /\ (UNCHANGED << log, ck >> \/ \E ev : Writes(ev) /\ Responds(ev))
Stops == proc'.at \in {"down", "suspend", "adjudicate"}

(* Where a step of the system takes the process.                           *)
LEMMA ProcMoves ==
  ASSUME Ledger, [Next]_vars
  PROVE  \/ Listens \/ Stops \/ Turns \/ WriteIntent
         \/ StartRun \/ AdoptStep \/ EnterStep \/ ExitStep \/ RecordBlocked
         \/ Resume /\ proc'.at = "walk"
PROOF
<1>1. Shape /\ IsProc(proc) /\ ShapedProc
  BY LedgerIs DEF Shape
<1>2. CASE GateSupervision
  <2>1. proc.at = "gate" /\ SameRound(proc', proc)
    BY <1>1, <1>2, GateDoes DEF Within
  <2>2. \/ proc'.at = "suspend"
        \/ proc'.at \in {"act", "exit"} /\ UNCHANGED << log, ck >>
    BY <1>1, <1>2, GateDoes DEF Leaves, Silent
  <2> QED BY <1>2, <2>1, <2>2 DEF Stops, Turns, Turn, Inside
<1>3. CASE Dispatch
  <2>1. /\ proc.at = "dispatch" /\ proc'.at = "wait" /\ SameRound(proc', proc)
        /\ UNCHANGED << log, ck >>
    BY <1>1, <1>3, DispatchDoes DEF Within
  <2> QED BY <2>1 DEF Turns, Turn, Inside
<1>4. CASE Settle \/ AdoptTerminal
  <2>1. /\ proc.at \in {"wait", "adoptSettle"} /\ SameRound(proc', proc)
        /\ proc'.at \in {"judge", "act", "confirm", "record", "exit"}
    BY <1>1, <1>4, SettleDoes DEF Within, Leaves
  <2>2. PICK ev : Wrote("actionSettled", Here, ev) /\ ev.call = proc.call
    BY <1>1, <1>4, SettleDoes
  <2>3. Writes(ev) /\ ev.type = "actionSettled"
    BY <2>2, WroteWrites DEF Wrote
  <2> QED BY <2>1, <2>2, <2>3 DEF Turns, Turn, Inside
<1>5. CASE RecordNegative \/ Supersede \/ \E v \in Judgments : Judge(v)
  <2>1. /\ proc.at \in {"judge", "confirm", "record", "supersede"}
        /\ SameRound(proc', proc) /\ proc'.at \in {"consult", "exit"}
        /\ proc'.at = "consult" => ~proc.plain
    BY <1>1, <1>5, VerdictDoes DEF Within, Leaves
  <2>2. PICK ev : Wrote("verdictRecorded", Here, ev)
    BY <1>1, <1>5, VerdictDoes
  <2>3. Adds("verdictRecorded")
    BY <2>2, WroteWrites DEF Wrote, Adds
  <2> QED BY <2>1, <2>3 DEF Turns, Turn, Inside
<1>6. CASE RetryInForce
  <2>1. proc.at = "consult" /\ SameRound(proc', proc) /\ UNCHANGED << log, ck >>
        /\ proc'.at = "act"
    BY <1>1, <1>6, RetryDoes DEF Within, Silent
  <2> QED BY <2>1 DEF Turns, Turn, Inside
<1>7. CASE ContinueEscalation
  <2>1. proc.at = "consult" /\ SameRound(proc', proc) /\ UNCHANGED << log, ck >>
        /\ proc'.at \in {"act", "exit", "supersede", "suspend"}
    BY <1>1, <1>7, ContinueDoes, AskedRulings, LedgerIs DEF Within, Silent, Leaves
  <2> QED BY <2>1 DEF Turns, Turn, Inside, Stops
<1>8. CASE ConsultHook
  <2>1. proc.at = "consult" /\ proc.i \in Steps
    BY <1>1, <1>8 DEF ConsultHook, ShapedProc, Inside
  <2>2. SameRound(proc', proc) /\ proc'.at \in {"act", "ask", "exit"}
    BY <1>1, <1>8, <2>1, ConsultDoes DEF Within, Leaves
  <2>3. UNCHANGED << log, ck >> \/ \E ev : Wrote("handlerTriggered", Here, ev)
    BY <1>1, <1>8, <2>1, ConsultDoes DEF Silent
  <2>4. UNCHANGED << log, ck >> \/ Adds("handlerTriggered")
    BY <2>3, WroteWrites DEF Wrote, Adds
  <2> QED BY <2>1, <2>2, <2>4 DEF Turns, Turn, Inside
<1>9. CASE AskEscalation \/ AskAdjudication
  BY <1>1, <1>9, AskDoes, AdjudicateDoes DEF Stops
<1>10. CASE FinishRun \/ SuspendRun \/ Crash
  BY <1>10, FinishDoes, SuspendDoes, DownIs DEF Crash, Stops
<1>11. CASE Resume
  BY <1>11, ResumeDoes, WalkingIs DEF Stops
<1>12. CASE StopRequested \/ NoTerminal
  BY <1>1, <1>12, DisruptionDoes DEF Stops
<1>13. CASE \E d \in Answers : Respond(d)
  <2>1. PICK d \in Answers : Respond(d)
    BY <1>13
  <2>2. PICK ev : /\ Wrote("humanResponded", ck.pending.path, ev)
                  /\ ev.req = ck.pending.req /\ ev.purpose = ck.pending.purpose
    BY <2>1, RespondDoes
  <2>3. ck.pending # NoPending /\ UNCHANGED proc
    BY <2>1, RespondDoes
  <2>4. Writes(ev) /\ Responds(ev)
    BY <2>2, <2>3, WroteWrites DEF Wrote, Responds
  <2> QED BY <2>3, <2>4 DEF Listens
<1>14. CASE DeadlinePasses \/ UNCHANGED vars
             \/ \E c \in Calls, o \in Outcomes : DeviceFinishes(c, o)
  BY <1>14 DEF DeviceFinishes, DeadlinePasses, vars, Listens
<1> QED BY <1>2, <1>3, <1>4, <1>5, <1>6, <1>7, <1>8, <1>9, <1>10, <1>11, <1>12, <1>13,
           <1>14 DEF Next, Engine, Disruption, Environment

-----------------------------------------------------------------------------
(* The work a process carries is for the step of the pending intent, or    *)
(* for one that is concluded and takes none.                               *)
Carried ==
  proc.at \in Inside \union {"walk"} /\ proc.work # "none" =>
    \/ proc.site \in Steps /\ AdoptableIn(ck, proc.site)
    \/ /\ proc.at = "walk" /\ ck.frontier.intent # NoIntent
       /\ proc.call = ck.frontier.intent
       /\ proc.site = dev[ck.frontier.intent].step

(* A step that takes work is the one the pending intent is of; its span is *)
(* open, so nothing is written.                                            *)
LEMMA TakesWork ==
  ASSUME Ledger, Pursued, Carried, EnterStep
  PROVE  /\ proc.i \in Steps
         /\ \/ proc.work = "none"
            \/ proc.site \in Steps /\ AdoptableIn(ck, proc.site) /\ proc.site # proc.i
            \/ /\ ck.frontier.intent # NoIntent /\ proc.call = ck.frontier.intent
               /\ proc.site = proc.i /\ dev[ck.frontier.intent].step = proc.i
               /\ OpenIn(ck, proc.i)
PROOF
<1>1. /\ proc.at = "walk" /\ proc.i <= Len(Flow) /\ ~AdoptableIn(ck, proc.i)
  BY LedgerIs, EnterStepDoes, BridgeIs
<1>2. proc.i \in Steps
  BY <1>1, StepsAre DEF Ledger, ShapedProc
<1>3. \A m \in Steps : m < proc.i => AdoptableIn(ck, m)
  BY <1>1 DEF Ledger, WalkedProc
<1>4. ASSUME ck.frontier.intent # NoIntent
      PROVE  dev[ck.frontier.intent].step = proc.i /\ OpenIn(ck, proc.i)
  <2>1. PICK k \in Steps : /\ dev[ck.frontier.intent].step = k /\ OpenIn(ck, k)
                           /\ \A m \in Steps : m < k => AdoptableIn(ck, m)
    BY <1>4 DEF Pursued
  <2>2. ~AdoptableIn(ck, k)
    BY <2>1 DEF Ledger, WalkedLedger
  <2>3. k = proc.i
    BY <1>1, <1>2, <1>3, <2>1, <2>2, StepsAre
  <2> QED BY <2>1, <2>3
<1> QED BY <1>1, <1>2, <1>4 DEF Carried

(* A resume finds the step of the pending intent, or an earlier one that   *)
(* is concluded.                                                           *)
LEMMA NamedSite ==
  ASSUME Ledger, Pursued, Fronted, ck.frontier.intent # NoIntent
  PROVE  \E k \in Steps : \E m \in Steps :
           /\ dev[ck.frontier.intent].step = k /\ StepAt(ck.frontier.path) = m
           /\ m = k \/ (NullSpan(k) /\ AdoptableIn(ck, m))
PROOF
<1>1. PICK k \in Steps : /\ dev[ck.frontier.intent].step = k /\ OpenIn(ck, k)
                         /\ \A m \in Steps : m < k => AdoptableIn(ck, m)
  BY DEF Pursued
<1>2. \A j \in Steps : OpenIn(ck, j) => k <= j
  BY <1>1, StepsAre DEF Ledger, WalkedLedger
<1>3. TopIs(ck, k)
  BY <1>1, <1>2, FirstOpenIsTop, LedgerIs
<1>4. PICK m \in Steps : /\ m <= k /\ ck.frontier.path = StepPath(m)
                         /\ m = k \/ NullSpan(k)
  BY <1>3 DEF Fronted, Names
<1>5. StepAt(ck.frontier.path) = m
  BY <1>4, StepAtIs
<1>6. m = k \/ m < k
  BY <1>4, StepsAre
<1> QED BY <1>1, <1>4, <1>5, <1>6

(* Concluded steps stay concluded.                                         *)
LEMMA AdoptableStays ==
  ASSUME Ledger, Ledger', [Next]_vars, NEW k \in Steps, AdoptableIn(ck, k)
  PROVE  AdoptableIn(ck', k)
PROOF
<1>1. CASE UNCHANGED << log, ck >>
  BY <1>1
<1>2. ASSUME NEW ev, Writes(ev)
      PROVE  AdoptableIn(ck', k)
  BY <1>2, WriteRecords
<1> QED BY <1>1, <1>2, StepWrites

(* Every step carries the reconcile work to its site.                      *)
LEMMA CarriedNext ==
  ASSUME Ledger, Ledger', CallsOwned, CallsOwned', Pursued, Fronted, Carried, [Next]_vars
  PROVE  Carried'
PROOF
<1> DEFINE Idle(p, st) == p.site \in Steps /\ AdoptableIn(st, p.site)
<1>1. IsProc(proc) /\ CallsKeep /\ ck.frontier.intent \in {NoIntent} \union Calls
  BY LedgerIs, CallsKept DEF Ledger, ShapedLedger
<1>2. Idle(proc, ck) => Idle(proc, ck')
  BY AdoptableStays
<1>3. CASE Stops
  BY <1>3 DEF Stops, Carried, Inside
<1>4. CASE Listens
  <2>1. ck'.frontier.intent = ck.frontier.intent
    <3>1. CASE UNCHANGED << log, ck >>
      BY <3>1
    <3>2. ASSUME NEW ev, Writes(ev), Responds(ev)
          PROVE  ck'.frontier.intent = ck.frontier.intent
      BY <3>2, SpansMove DEF Responds
    <3> QED BY <1>4, <3>1, <3>2 DEF Listens
  <2>2. UNCHANGED proc
    BY <1>4 DEF Listens
  <2> QED BY <1>1, <1>2, <2>1, <2>2 DEF Carried, CallsKeep
<1>5. CASE Turns \/ WriteIntent
  <2>1. /\ proc.at \in Inside
        /\ proc'.work = proc.work /\ proc'.site = proc.site
    BY <1>1, <1>5, WriteIntentDoes DEF Turns, SameRound, Inside
  <2>2. proc.at # "walk"
    BY <2>1 DEF Inside
  <2> QED BY <1>2, <2>1, <2>2 DEF Carried
<1>6. CASE StartRun
  BY <1>6, StartDoes, WalkingIs DEF Carried
<1>7. CASE AdoptStep
  <2>1. /\ proc.at = "walk" /\ proc'.work = proc.work /\ proc'.site = proc.site
        /\ proc'.call = proc.call /\ proc'.at = "walk" /\ UNCHANGED << log, ck, dev >>
    BY <1>1, <1>7, AdoptDoes DEF Silent
  <2> QED BY <2>1 DEF Carried
<1>8. CASE EnterStep
  <2>1. /\ proc'.work = IF proc.site = proc.i THEN "none" ELSE proc.work
        /\ proc'.site = proc.site
    BY <1>1, <1>8, EnterStepDoes
  <2>2. proc'.work # "none" => Idle(proc, ck)
    BY <1>8, <2>1, TakesWork
  <2> QED BY <1>2, <2>1, <2>2 DEF Carried
<1>9. CASE ExitStep
  <2>1. proc.at = "exit" /\ proc.ctl \in {"continue", "halt", "abort"}
    BY <1>9 DEF ExitStep, Ledger, ShapedProc, Leaving
  <2>2. \/ proc'.work = proc.work /\ proc'.site = proc.site
        \/ proc'.at = "finish"
    BY <1>1, <1>9, <2>1, ExitDoes
  <2> QED BY <1>2, <2>1, <2>2 DEF Carried, Inside
<1>10. CASE RecordBlocked
  BY <1>1, <1>10, PairsDoes DEF Carried, IsProc, ProcFields, Inside
<1>11. CASE Resume
  <2>1. CASE proc' = Walking(Len(log), "none")
    BY <2>1, WalkingIs DEF Carried
  <2>2. CASE proc'.at \in {"adjudicate", "suspend"}
    BY <2>2 DEF Carried, Inside
  <2>3. CASE /\ ck.frontier.intent # NoIntent
             /\ proc'.at = "walk" /\ proc'.call = ck.frontier.intent
             /\ proc'.site = StepAt(ck.frontier.path)
    <3>1. PICK k \in Steps, m \in Steps :
            /\ dev[ck.frontier.intent].step = k /\ StepAt(ck.frontier.path) = m
            /\ m = k \/ (NullSpan(k) /\ AdoptableIn(ck, m))
      BY <2>3, NamedSite
    <3>2. ck'.frontier.intent = ck.frontier.intent
      <4>1. PICK ev : Wrote("runResumed", RootPath(MetaHash), ev)
        BY <1>11, ResumeDoes
      <4>2. Writes(ev) /\ ev.type = "runResumed"
        BY <4>1, WroteWrites DEF Wrote
      <4> QED BY <4>2, SpansMove
    <3>3. AdoptableIn(ck, m) => AdoptableIn(ck', m)
      BY <3>1, AdoptableStays
    <3>4. dev'[ck'.frontier.intent].step = k
      BY <1>1, <2>3, <3>1, <3>2 DEF CallsKeep
    <3> QED BY <2>3, <3>1, <3>2, <3>3, <3>4 DEF Carried
  <2> QED BY <1>11, <2>1, <2>2, <2>3, ResumeDoes
<1> QED BY <1>3, <1>4, <1>5, <1>6, <1>7, <1>8, <1>9, <1>10, <1>11, ProcMoves

-----------------------------------------------------------------------------
(* The pending intent and what is known of it.                             *)
Framed == CallsOwned /\ Pursued /\ Fronted /\ Carried

(* The four parts together are inductive on top of the ledger.             *)
LEMMA FramedNext ==
  ASSUME Ledger, Ledger', Framed, [Next]_vars
  PROVE  Framed'
PROOF
<1>1. CallsOwned'
  BY CallsOwnedNext DEF Framed
<1> QED BY <1>1, PursuedNext, FrontedNext, CarriedNext DEF Framed

(* No call is pending before the run starts.                               *)
LEMMA FramedInit ==
  ASSUME Init
  PROVE  Framed
PROOF
<1>1. /\ log = << >> /\ dev = << >> /\ proc = Down /\ ck = Seed(MetaHash, NoSession)
  BY DEF Init
<1>2. ck.inFlight = << >> /\ ck.frontier.intent = NoIntent
  BY <1>1, SeedIs
<1>3. DOMAIN dev = { } /\ DOMAIN log = { }
  BY <1>1, EmptyIs
<1>4. CallsOwned
  BY <1>1, <1>3, DownIs DEF CallsOwned, Calls, At, Entries
<1>5. Fronted
  BY <1>2 DEF Fronted, TopIs
<1> QED BY <1>1, <1>2, <1>4, <1>5, DownIs DEF Framed, Pursued, Carried, Inside

(* The pending intent belongs to the lowest open step, the frontier names  *)
(* that step or an earlier concluded one, and reconcile work is carried to *)
(* where it is taken.                                                      *)
THEOREM FramedHolds == Spec => []Framed
PROOF
<1>1. Init => Framed
  BY FramedInit
<1>2. Ledger /\ Ledger' /\ Framed /\ [Next]_vars => Framed'
  BY FramedNext
<1> QED BY <1>1, <1>2, LedgerHolds, PTL DEF Spec

-----------------------------------------------------------------------------
(* The supervision gate.                                                   *)

(* Only a gate request is answered at a step's own path.                   *)
LEMMA GateOf ==
  ASSUME Ledger, NEW i \in Steps, NEW a \in At("humanResponded", i)
  PROVE  /\ Supervised(i) /\ a \in Responses
         /\ \E q \in At("humanRequested", i) :
              AnswersRequest(a, q) /\ GateRequest(log[q])
PROOF
<1>1. a \in Responses /\ SameInstance(log[a].path, StepPath(i))
  BY DEF At, Entries, Responses
<1>2. PICK q \in Requests : AnswersRequest(a, q)
  BY <1>1 DEF Ledger, Answered
<1>3. log[q].path = log[a].path
  BY <1>2 DEF AnswersRequest
<1>4. q \in At("humanRequested", i)
  BY <1>1, <1>3 DEF At, Entries, Requests
<1>5. Declared(q)
  BY DEF Ledger, Answered
<1>6. CASE GateRequest(log[q])
  <2>1. PICK k \in Steps : log[q].path = StepPath(k) /\ Supervised(k)
    BY <1>6 DEF GateRequest
  <2>2. k = i
    BY <1>1, <1>3, <2>1, SameStep
  <2> QED BY <1>1, <1>2, <1>4, <1>6, <2>1, <2>2
<1>7. CASE EscalationRequest(log[q]) \/ AdjudicationRequest(log[q])
  <2>1. Len(log[q].path) = 4
    BY <1>7 DEF EscalationRequest, AdjudicationRequest, HookRequest
  <2>2. Len(log[a].path) = 2
    BY <1>1, StepPathIs DEF SameInstance
  <2> QED BY <1>3, <2>1, <2>2
<1> QED BY <1>5, <1>6, <1>7 DEF Declared

Cleared(i) ==
  /\ Supervised(i) => \E a \in At("humanResponded", i) : log[a].decision = "proceed"
  /\ \A a \in At("humanResponded", i) : log[a].decision # "abort"

(* Acts behind the gate.                                                   *)
Behind(p) ==
  \/ p.at \in {"act", "dispatch", "wait", "adoptSettle", "judge", "confirm", "consult",
               "ask", "supersede"}
  \/ p.at = "record" /\ ~p.plain

(* The gate of a step is asked at most once, and in a segment that then    *)
(* suspends; what is behind it was cleared.                                *)
Gates ==
  /\ proc.at \notin {"down", "suspend", "adjudicate"} =>
       \A n \in Requests : n <= proc.base
  /\ \A i \in Steps : \A m, n \in At("humanRequested", i) : m = n
  /\ \A i \in Steps :
       At("actionIntent", i) \union At("actionSettled", i) # { } => Cleared(i)
  /\ Behind(proc) => Cleared(proc.i)

(* Nobody answers a cleared gate again.                                    *)
LEMMA ClearedStays ==
  ASSUME Ledger, Gates, [Next]_vars, NEW i \in Steps, Cleared(i)
  PROVE  Cleared(i)'
PROOF
<1>1. CASE UNCHANGED << log, ck >>
  BY <1>1 DEF Cleared, At
<1>2. ASSUME NEW ev, Writes(ev)
      PROVE  Cleared(i)'
  <2>1. /\ IsSequence(log) /\ Write(ev) /\ \A n \in DOMAIN log : log'[n] = log[n]
        /\ At("humanResponded", i) \subseteq DOMAIN log
    BY <1>2, WriteIs, Grows DEF At, Entries
  <2>2. CASE At("humanResponded", i)' = At("humanResponded", i)
    BY <2>1, <2>2 DEF Cleared
  <2>3. CASE At("humanResponded", i)' # At("humanResponded", i)
    <3>1. ev.type = "humanResponded"
      BY <2>1, <2>3, AtStays
    <3>2. Responds(ev)
      BY <1>2, <3>1 DEF Writes, Mark, Asks, InStep, Enters, Intends, Settles, Rules,
                        Triggered, Exits
    <3>3. PICK q \in Requests : Pends(q)
      BY <3>2 DEF Responds, Ledger, Answered
    <3>4. ev.path = log[q].path
      BY <3>2, <3>3 DEF Responds, Pends
    <3>5. SameInstance(ev.path, StepPath(i))
      <4>1. log' = Append(log, ev)
        BY <2>1 DEF Write
      <4> QED BY <2>1, <2>3, <4>1, EntriesGrow DEF At
    <3>6. q \in At("humanRequested", i)
      BY <3>4, <3>5 DEF At, Entries, Requests
    <3>7. Supervised(i)
      <4>1. Declared(q)
        BY DEF Ledger, Answered
      <4>2. Len(log[q].path) = 2
        BY <3>4, <3>5, StepPathIs DEF SameInstance
      <4>3. GateRequest(log[q])
        BY <4>1, <4>2 DEF Declared, EscalationRequest, AdjudicationRequest, HookRequest
      <4>4. PICK k \in Steps : log[q].path = StepPath(k) /\ Supervised(k)
        BY <4>3 DEF GateRequest
      <4> QED BY <3>4, <3>5, <4>4, SameStep
    <3>8. PICK a \in At("humanResponded", i) : log[a].decision = "proceed"
      BY <3>7 DEF Cleared
    <3>9. PICK r \in At("humanRequested", i) : AnswersRequest(a, r) /\ a \in Responses
      BY <3>8, GateOf
    <3>10. r = q
      BY <3>6, <3>9 DEF Gates
    <3>11. a \in Final(log[q].req)
      BY <3>8, <3>9, <3>10 DEF Final, AnswersRequest, RetainsRequest
    <3> QED BY <3>3, <3>11 DEF Pends
  <2> QED BY <2>2, <2>3
<1> QED BY <1>1, <1>2, StepWrites

(* The gate opens to a `proceed`, or where none is kept.                   *)
LEMMA GateClears ==
  ASSUME Ledger, Gates, GateSupervision, proc'.at = "act"
  PROVE  Cleared(proc.i)
PROOF
<1> DEFINE i == proc.i
<1>1. /\ IsProc(proc) /\ ShapedLedger /\ Answered /\ proc.base \in 0 .. Len(log)
      /\ IsSequence(log)
  BY LedgerIs
<1>2. i \in Steps
  BY DEF GateSupervision, Inside, Ledger, ShapedProc
<1>3. CASE RequestsAt(Prefix, Here) = { } /\ ~Supervised(i)
  BY <1>2, <1>3, GateOf DEF Cleared
<1>4. CASE /\ RequestsAt(Prefix, Here) # { }
           /\ AnswerTo(Prefix, Governing(Prefix, Here).req) = "proceed"
  <2>1. /\ IsSequence(Prefix) /\ Len(Prefix) = proc.base /\ Len(Prefix) <= Len(log)
        /\ \A n \in DOMAIN Prefix : Prefix[n] = log[n]
    BY <1>1, PartIs DEF Prefix
  <2> DEFINE Q == RequestsAt(Prefix, Here)
  <2>2. Q \in SUBSET (1 .. Len(Prefix)) /\ Len(Prefix) \in Nat
    BY <2>1, EntriesArePositions DEF RequestsAt
  <2>3. Latest(Q) \in Q
    BY <1>4, <2>2, LatestIs
  <2>4. PICK q \in Q : q = Latest(Q)
    BY <2>3
  <2>5. q \in At("humanRequested", i) /\ q \in Requests /\ Prefix[q] = log[q]
    <3>1. q \in { n \in At("humanRequested", i) : n <= proc.base } /\ q \in DOMAIN Prefix
      BY <1>1, EntriesOfPrefix DEF RequestsAt, Prefix, At, Here, Entries
    <3> QED BY <2>1, <3>1 DEF At, Entries, Requests
  <2>6. Governing(Prefix, Here).req = log[q].req
    BY <2>4, <2>5 DEF Governing
  <2>7. PICK a \in Final(log[q].req) : log[a].decision = "proceed"
    <3>1. NoPending # "proceed"
      BY Marks DEF Decisions
    <3> QED BY <1>1, <1>4, <2>1, <2>6, <3>1, AnswerIs
  <2>8. a \in Responses /\ log[a].req = log[q].req
    BY <2>7 DEF Final
  <2>9. PICK r \in Requests : AnswersRequest(a, r)
    BY <1>1, <2>8 DEF Answered
  <2>10. r = q
    BY <1>1, <2>5, <2>8, <2>9, RequestIsUnique DEF AnswersRequest
  <2>11. a \in At("humanResponded", i)
    BY <2>5, <2>8, <2>9, <2>10 DEF AnswersRequest, At, Entries, Responses
  <2>12. ASSUME NEW b \in At("humanResponded", i), log[b].decision = "abort"
         PROVE  FALSE
    <3>1. PICK p \in At("humanRequested", i) : AnswersRequest(b, p) /\ b \in Responses
      BY <1>2, <2>12, GateOf
    <3>2. p = q
      BY <1>2, <2>5, <3>1 DEF Gates
    <3>3. b \in Final(log[q].req)
      BY <2>12, <3>1, <3>2 DEF Final, AnswersRequest, RetainsRequest
    <3>4. a = b
      BY <1>1, <2>5, <2>7, <3>3 DEF Answered, AnsweredOnce
    <3> QED BY <2>7, <2>12, <3>4
  <2> QED BY <2>7, <2>11, <2>12 DEF Cleared
<1> QED BY <1>1, <1>3, <1>4, GateDoes DEF Leaves

-----------------------------------------------------------------------------
(* A request stops the segment that asks it.                               *)
LEMMA OnlyStopsAsk ==
  ASSUME Ledger, [Next]_vars, ~Stops
  PROVE  UNCHANGED log \/ \E ev : Writes(ev) /\ ev.type # "humanRequested"
PROOF
<1>1. IsProc(proc) /\ WalkedLedger
  BY LedgerIs
<1>2. CASE Listens
  BY <1>2 DEF Listens, Responds
<1>3. CASE Turns
  BY <1>3 DEF Turns, Adds
<1>4. CASE WriteIntent
  <2>1. PICK ev : Wrote("actionIntent", Here, ev)
    BY <1>1, <1>4, WriteIntentDoes
  <2> QED BY <2>1, WroteWrites DEF Wrote
<1>5. CASE StartRun
  <2>1. PICK ev : Wrote("runStarted", RootPath(MetaHash), ev)
    BY <1>5, StartDoes
  <2> QED BY <2>1, WroteWrites DEF Wrote
<1>6. CASE AdoptStep
  BY <1>1, <1>6, AdoptDoes DEF Silent
<1>7. CASE EnterStep
  <2>1. UNCHANGED log \/ \E ev : Wrote("stepEntered", Here, ev)
    BY <1>1, <1>7, EnterStepDoes
  <2> QED BY <2>1, WroteWrites DEF Wrote
<1>8. CASE ExitStep
  <2>1. proc.ctl \in {"continue", "halt", "abort"}
    BY <1>8 DEF ExitStep, Ledger, ShapedProc, Leaving
  <2>2. PICK ev : Wrote("stepExited", Here, ev)
    BY <1>1, <1>8, <2>1, ExitDoes
  <2> QED BY <2>2, WroteWrites DEF Wrote
<1>9. CASE RecordBlocked
  <2>1. \/ UNCHANGED log
        \/ \E ev : Wrote("stepExited", Here, ev)
        \/ \E ev : Wrote("stepEntered", Here, ev)
    BY <1>1, <1>9, PairsDoes DEF Silent
  <2> QED BY <2>1, WroteWrites DEF Wrote
<1>10. CASE Resume
  <2>1. PICK ev : Wrote("runResumed", RootPath(MetaHash), ev)
    BY <1>10, ResumeDoes
  <2> QED BY <2>1, WroteWrites DEF Wrote
<1> QED BY <1>2, <1>3, <1>4, <1>5, <1>6, <1>7, <1>8, <1>9, <1>10, ProcMoves

(* A segment works on the ledger it started from, and starts from all of   *)
(* it.                                                                     *)
LEMMA BaseIs ==
  ASSUME Ledger, [Next]_vars, ~Stops
  PROVE  \/ proc'.base = proc.base /\ proc.at \notin {"down", "suspend", "adjudicate"}
         \/ proc'.base = Len(log)
PROOF
<1>1. IsProc(proc) /\ WalkedLedger
  BY LedgerIs
<1>2. CASE Listens
  BY <1>2 DEF Listens, Stops
<1>3. CASE Turns
  BY <1>3 DEF Turns, SameRound, Inside
<1>4. CASE WriteIntent
  BY <1>1, <1>4, WriteIntentDoes
<1>5. CASE StartRun
  BY <1>5, StartDoes, WalkingIs
<1>6. CASE AdoptStep
  BY <1>1, <1>6, AdoptDoes
<1>7. CASE EnterStep
  BY <1>1, <1>7, EnterStepDoes
<1>8. CASE ExitStep
  <2>1. proc.ctl \in {"continue", "halt", "abort"}
    BY <1>8 DEF ExitStep, Ledger, ShapedProc, Leaving
  <2> QED BY <1>1, <1>8, <2>1, ExitDoes
<1>9. CASE RecordBlocked
  BY <1>1, <1>9, PairsDoes DEF IsProc, ProcFields
<1>10. CASE Resume /\ proc'.at = "walk"
  <2>1. proc' = Walking(Len(log), "none") \/ proc'.base = Len(log)
    BY <1>10, ResumeDoes
  <2> QED BY <2>1, WalkingIs
<1> QED BY <1>2, <1>3, <1>4, <1>5, <1>6, <1>7, <1>8, <1>9, <1>10, ProcMoves

(* Every request a running segment can see is in the prefix it read.       *)
LEMMA AskedBefore ==
  ASSUME Ledger, Gates, [Next]_vars, ~Stops
  PROVE  \A n \in Requests' : n <= proc'.base
PROOF
<1>1. IsSequence(log) /\ proc.base \in 0 .. Len(log)
  BY LedgerIs
<1>2. Requests' = Requests
  <2>1. CASE UNCHANGED log
    BY <2>1 DEF Requests
  <2>2. ASSUME NEW ev, Writes(ev), ev.type # "humanRequested"
        PROVE  Requests' = Requests
    <3>1. Write(ev)
      BY <2>2, WriteIs
    <3> QED BY <1>1, <2>2, <3>1, Grows DEF Requests
  <2> QED BY <2>1, <2>2, OnlyStopsAsk
<1>3. \A n \in Requests : n \in Nat /\ n <= Len(log)
  BY <1>1 DEF Requests, IsSequence
<1> QED BY <1>2, <1>3, BaseIs DEF Gates

(* A second request at a gate would be in that prefix.                     *)
LEMMA AskedOnce ==
  ASSUME Ledger, Gates, [Next]_vars, NEW i \in Steps
  PROVE  (\A m, n \in At("humanRequested", i) : m = n)'
PROOF
<1>1. CASE UNCHANGED log
  BY <1>1 DEF Gates, At
<1>2. ASSUME NEW ev, Writes(ev)
      PROVE  (\A m, n \in At("humanRequested", i) : m = n)'
  <2>1. Write(ev) /\ IsSequence(log) /\ log' = Append(log, ev)
    BY <1>2, WriteIs DEF Write
  <2>2. At("humanRequested", i)' =
          IF ev.type = "humanRequested" /\ SameInstance(ev.path, StepPath(i))
          THEN At("humanRequested", i) \union {Len(log) + 1}
          ELSE At("humanRequested", i)
    BY <2>1, EntriesGrow DEF At
  <2>3. CASE ev.type = "humanRequested" /\ SameInstance(ev.path, StepPath(i))
    <3>1. Asks(ev)
      BY <1>2, <2>3 DEF Writes, Mark, Responds, InStep, Enters, Intends, Settles, Rules,
                        Triggered, Exits
    <3>2. Len(ev.path) = 2
      BY <2>3, StepPathIs DEF SameInstance
    <3>3. /\ proc.at = "gate" /\ proc.i \in Steps /\ ev.path = StepPath(proc.i)
          /\ RequestsAt(Prefix, StepPath(proc.i)) = { }
      BY <3>1, <3>2 DEF Asks, EscalationRequest, AdjudicationRequest, HookRequest
    <3>4. proc.i = i
      BY <2>3, <3>3, SameStep
    <3>5. proc.base \in 0 .. Len(log)
      BY LedgerIs
    <3>6. { n \in At("humanRequested", i) : n <= proc.base } = { }
      BY <2>1, <3>3, <3>4, <3>5, EntriesOfPrefix DEF RequestsAt, Prefix, At
    <3>7. At("humanRequested", i) \subseteq Requests
      BY DEF At, Entries, Requests
    <3>8. \A n \in Requests : n <= proc.base
      BY <3>3 DEF Gates
    <3>9. At("humanRequested", i) = { }
      BY <3>6, <3>7, <3>8
    <3> QED BY <2>2, <2>3, <3>9
  <2> QED BY <2>2, <2>3 DEF Gates
<1> QED BY <1>1, <1>2, StepWrites

(* The act phase is behind the gate.                                       *)
LEMMA ActsCleared ==
  ASSUME Ledger, Gates, [Next]_vars, NEW i \in Steps
  PROVE  (At("actionIntent", i) \union At("actionSettled", i) # { } => Cleared(i))'
PROOF
<1>1. CASE At("actionIntent", i) \union At("actionSettled", i) # { }
  <2>1. Cleared(i)'
    BY <1>1, ClearedStays DEF Gates
  <2> QED BY <2>1
<1>2. CASE At("actionIntent", i) \union At("actionSettled", i) = { }
  <2>1. CASE UNCHANGED log
    BY <1>2, <2>1 DEF At
  <2>2. ASSUME NEW ev, Writes(ev)
        PROVE  (At("actionIntent", i) \union At("actionSettled", i) # { } => Cleared(i))'
    <3>1. Write(ev) /\ IsSequence(log)
      BY <2>2, WriteIs
    <3>2. CASE ev.type \notin {"actionIntent", "actionSettled"}
      BY <1>2, <3>1, <3>2, AtStays
    <3>3. CASE ev.type \in {"actionIntent", "actionSettled"}
      <4>1. PICK k \in Steps : InStep(ev, k)
        BY <2>2, <3>3, WriteIs
      <4>2. k = proc.i /\ ev.path = StepPath(k)
        BY <2>2, <4>1, WriteIs
      <4>3. proc.at \in {"act", "wait", "adoptSettle"}
        BY <3>3, <4>1 DEF InStep, Enters, Intends, Settles, Rules, Triggered, Exits
      <4>4. CASE k = i
        <5>1. Cleared(i)'
          BY <4>2, <4>3, <4>4, ClearedStays DEF Gates, Behind
        <5> QED BY <5>1
      <4>5. CASE k # i
        <5>1. /\ At("actionIntent", i)' = At("actionIntent", i)
              /\ At("actionSettled", i)' = At("actionSettled", i)
          BY <3>1, <4>2, <4>5, AtGrows
        <5> QED BY <1>2, <5>1
      <4> QED BY <4>4, <4>5
    <3> QED BY <3>2, <3>3
  <2> QED BY <2>1, <2>2, StepWrites
<1> QED BY <1>1, <1>2

(* A span entered behind the gate has acted before, so it was cleared.     *)
LEMMA EntersCleared ==
  ASSUME Ledger, Framed, Gates, EnterStep, Behind(proc)'
  PROVE  Cleared(proc.i)
PROOF
<1> DEFINE i == proc.i
<1>1. /\ IsProc(proc) /\ IsSequence(log) /\ proc.base \in 0 .. Len(log)
  BY LedgerIs
<1>2. i \in Steps
  BY TakesWork DEF Framed
<1>3. ASSUME At("actionIntent", i) \union At("actionSettled", i) # { }
      PROVE  Cleared(i)
  BY <1>2, <1>3 DEF Gates
<1>4. CASE WorkHere \in {"adopt", "replay", "confirm"}
  <2>1. proc.site = i /\ proc.work # "none"
    BY <1>4 DEF WorkHere
  <2>2. ck.frontier.intent # NoIntent /\ dev[ck.frontier.intent].step = i
    BY <2>1, TakesWork DEF Framed
  <2>3. ck.frontier.intent \in Calls
    BY <2>2, LedgerIs DEF ShapedLedger
  <2>4. \E k \in Steps : /\ dev[ck.frontier.intent].step = k
                         /\ \E n \in At("actionIntent", k) : log[n].call = ck.frontier.intent
    BY <2>3 DEF Framed, CallsOwned
  <2> QED BY <1>3, <2>2, <2>4
<1>5. CASE ResumesAtRuling
  <2>1. { n \in At("actionSettled", i) : n <= proc.base } # { }
    BY <1>1, <1>5, EntriesOfPrefix DEF ResumesAtRuling, SettledOn, Prefix, At
  <2> QED BY <1>3, <2>1
<1>6. WorkHere \in {"adopt", "replay", "confirm"} \/ ResumesAtRuling
  BY <1>1, EnterStepDoes DEF Behind
<1> QED BY <1>4, <1>5, <1>6

(* Every way into the act phase leads through a cleared gate.              *)
LEMMA BehindCleared ==
  ASSUME Ledger, Ledger', Framed, Gates, [Next]_vars, Behind(proc)'
  PROVE  Cleared(proc.i)'
PROOF
<1>1. IsProc(proc) /\ WalkedLedger
  BY LedgerIs
<1>2. ASSUME Cleared(proc.i), proc'.i = proc.i
      PROVE  Cleared(proc.i)'
  <2>1. proc'.i \in Steps
    BY DEF Behind, Ledger, ShapedProc, Inside
  <2>2. PICK i \in Steps : i = proc.i
    BY <1>2, <2>1
  <2>3. Cleared(i)'
    BY <1>2, <2>2, ClearedStays
  <2> QED BY <1>2, <2>2, <2>3
<1>3. CASE Listens
  BY <1>2, <1>3 DEF Listens, Gates, Behind
<1>4. CASE Turns
  <2>1. proc'.i = proc.i /\ proc'.plain = proc.plain
    BY <1>4 DEF Turns, SameRound
  <2>2. CASE proc.at = "gate"
    BY <1>2, <1>4, <2>1, <2>2, GateClears DEF Turns, Turn, Behind
  <2>3. CASE proc.at # "gate"
    <3>1. Behind(proc)
      BY <1>4, <2>1, <2>3 DEF Turns, Turn, Behind
    <3> QED BY <1>2, <2>1, <3>1 DEF Gates
  <2> QED BY <2>2, <2>3
<1>5. CASE WriteIntent
  BY <1>1, <1>2, <1>5, WriteIntentDoes DEF Gates, Behind
<1>6. CASE StartRun \/ AdoptStep \/ (Resume /\ proc'.at = "walk")
  BY <1>1, <1>6, StartDoes, WalkingIs, AdoptDoes DEF Behind
<1>7. CASE EnterStep
  BY <1>1, <1>2, <1>7, EnterStepDoes, EntersCleared
<1>8. CASE ExitStep
  <2>1. proc.ctl \in {"continue", "halt", "abort"}
    BY <1>8 DEF ExitStep, Ledger, ShapedProc, Leaving
  <2> QED BY <1>1, <1>8, <2>1, ExitDoes DEF Behind
<1>9. CASE RecordBlocked
  BY <1>1, <1>9, PairsDoes DEF Behind, IsProc, ProcFields
<1> QED BY <1>3, <1>4, <1>5, <1>6, <1>7, <1>8, <1>9, ProcMoves DEF Behind, Stops

(* Every step keeps the gates: asked once, and passed only when cleared.   *)
LEMMA GatesNext ==
  ASSUME Ledger, Ledger', Framed, Gates, [Next]_vars
  PROVE  Gates'
PROOF
<1>1. (proc.at \notin {"down", "suspend", "adjudicate"} =>
         \A n \in Requests : n <= proc.base)'
  BY AskedBefore DEF Stops
<1>2. (\A i \in Steps : \A m, n \in At("humanRequested", i) : m = n)'
  <2>1. ASSUME NEW i \in Steps
        PROVE  (\A m, n \in At("humanRequested", i) : m = n)'
    BY AskedOnce
  <2> QED BY <2>1 DEF Steps
<1>3. (\A i \in Steps :
         At("actionIntent", i) \union At("actionSettled", i) # { } => Cleared(i))'
  <2>1. ASSUME NEW i \in Steps
        PROVE  (At("actionIntent", i) \union At("actionSettled", i) # { } => Cleared(i))'
    BY ActsCleared
  <2> QED BY <2>1 DEF Steps
<1>4. (Behind(proc) => Cleared(proc.i))'
  BY BehindCleared
<1> QED BY <1>1, <1>2, <1>3, <1>4 DEF Gates

-----------------------------------------------------------------------------
(* What was answered at step i before position n.                          *)
RulingsBefore(i, n) == { log[m].decision : m \in Before(At("humanResponded", i), n) }

(* What was answered before a position is not changed later.               *)
LEMMA RulingsStay ==
  ASSUME Ledger, [Next]_vars, NEW i \in Steps, NEW n \in 1 .. Len(log)
  PROVE  RulingsBefore(i, n)' = RulingsBefore(i, n)
PROOF
<1>1. CASE UNCHANGED << log, ck >>
  BY <1>1 DEF RulingsBefore, Before, At
<1>2. ASSUME NEW ev, Writes(ev)
      PROVE  RulingsBefore(i, n)' = RulingsBefore(i, n)
  <2>1. Write(ev) /\ IsSequence(log) /\ log' = Append(log, ev)
    BY <1>2, WriteIs DEF Write
  <2>2. /\ Len(log) \in Nat /\ DOMAIN log = 1 .. Len(log)
        /\ \A m \in DOMAIN log : log'[m] = log[m]
    BY <2>1, Grows
  <2>3. At("humanResponded", i) \subseteq DOMAIN log
    BY DEF At, Entries
  <2>4. \/ At("humanResponded", i)' = At("humanResponded", i)
        \/ At("humanResponded", i)' = At("humanResponded", i) \union {Len(log) + 1}
    BY <2>1, EntriesGrow DEF At
  <2>5. Before(At("humanResponded", i)', n) = Before(At("humanResponded", i), n)
    BY <2>2, <2>4 DEF Before
  <2>6. \A m \in Before(At("humanResponded", i), n) : log'[m] = log[m]
    BY <2>2, <2>3 DEF Before
  <2>7. RulingsBefore(i, n)' = { log'[m].decision : m \in Before(At("humanResponded", i)', n) }
    BY DEF RulingsBefore, Before
  <2> QED BY <2>5, <2>6, <2>7 DEF RulingsBefore
<1> QED BY <1>1, <1>2, StepWrites

(* A new intent stands behind a cleared gate, and old ones stay where they *)
(* were.                                                                   *)
LEMMA SupervisedNext ==
  ASSUME Ledger, Gates, SupervisedDispatch, [Next]_vars
  PROVE  SupervisedDispatch'
PROOF
<1> DEFINE Granted(i, R) == (Supervised(i) => "proceed" \in R) /\ "abort" \notin R
<1>1. SupervisedDispatch <=>
        \A i \in Steps : \A n \in At("actionIntent", i) : Granted(i, RulingsBefore(i, n))
  BY DEF SupervisedDispatch, RulingsBefore, Supervised
<1>2. SupervisedDispatch' <=>
        \A i \in Steps : \A n \in At("actionIntent", i)' :
          Granted(i, RulingsBefore(i, n)')
  BY DEF SupervisedDispatch, RulingsBefore, Supervised, Steps
<1>3. IsSequence(log) /\ Len(log) \in Nat /\ DOMAIN log = 1 .. Len(log)
  BY LedgerIs DEF IsSequence
<1>4. ASSUME NEW i \in Steps, NEW n \in At("actionIntent", i)
      PROVE  Granted(i, RulingsBefore(i, n)')
  <2>1. n \in 1 .. Len(log)
    BY <1>3 DEF At, Entries
  <2> QED BY <1>1, <1>4, <2>1, RulingsStay
<1>5. CASE UNCHANGED log
  <2>1. \A i \in Steps : At("actionIntent", i)' = At("actionIntent", i)
    BY <1>5 DEF At
  <2> QED BY <1>2, <1>4, <2>1
<1>6. ASSUME NEW ev, Writes(ev)
      PROVE  SupervisedDispatch'
  <2>1. Write(ev)
    BY <1>6, WriteIs
  <2>2. CASE ev.type # "actionIntent"
    <3>1. \A i \in Steps : At("actionIntent", i)' = At("actionIntent", i)
      BY <1>3, <2>1, <2>2, AtStays
    <3> QED BY <1>2, <1>4, <3>1
  <2>3. CASE ev.type = "actionIntent"
    <3>1. PICK k \in Steps : InStep(ev, k)
      BY <1>6, <2>3, WriteIs
    <3>2. k = proc.i /\ ev.path = StepPath(k)
      BY <1>6, <3>1, WriteIs
    <3>3. proc.at = "act"
      BY <2>3, <3>1 DEF InStep, Enters, Intends, Settles, Rules, Triggered, Exits
    <3>4. Cleared(k)
      BY <3>2, <3>3 DEF Gates, Behind
    <3>5. At("humanResponded", k)' = At("humanResponded", k)
      BY <1>3, <2>1, <2>3, AtStays
    <3>6. \A m \in At("humanResponded", k) : m < Len(log) + 1 /\ log'[m] = log[m]
      BY <1>3, <2>1, Grows DEF At, Entries
    <3>8. PICK L \in Nat : L = Len(log) + 1
      BY <1>3
    <3>9. RulingsBefore(k, L)' = { log[m].decision : m \in At("humanResponded", k) }
      <4>1. RulingsBefore(k, L)' =
              { log'[m].decision : m \in Before(At("humanResponded", k)', L) }
        BY DEF RulingsBefore, Before
      <4>2. Before(At("humanResponded", k)', L) = At("humanResponded", k)
        BY <3>5, <3>6, <3>8 DEF Before
      <4> QED BY <3>6, <4>1, <4>2
    <3>10. Granted(k, RulingsBefore(k, L)')
      BY <3>4, <3>9 DEF Cleared
    <3>11. ASSUME NEW i \in Steps, NEW n \in At("actionIntent", i)'
           PROVE  n \in At("actionIntent", i) \/ (i = k /\ n = L)
      BY <1>3, <2>1, <3>2, <3>8, AtGrows
    <3> QED BY <1>2, <1>4, <3>10, <3>11
  <2> QED BY <2>2, <2>3
<1> QED BY <1>5, <1>6, StepWrites

(* R13: under a supervise policy no intent of a governed step is durable   *)
(* before a human's `proceed` is, and none follows an `abort`.             *)
THEOREM SupervisionHolds == Spec => []SupervisedDispatch
PROOF
<1>1. Init => Gates /\ SupervisedDispatch
  <2> SUFFICES ASSUME Init
               PROVE  Gates /\ SupervisedDispatch
    OBVIOUS
  <2>1. log = << >> /\ proc = Down
    BY DEF Init
  <2>2. DOMAIN log = { }
    BY <2>1, EmptyIs
  <2> QED BY <2>1, <2>2, DownIs DEF Gates, SupervisedDispatch, Behind, At, Entries
<1>2. Ledger /\ Ledger' /\ Framed /\ Gates /\ SupervisedDispatch /\ [Next]_vars
        => Gates' /\ SupervisedDispatch'
  BY GatesNext, SupervisedNext
<1> QED BY <1>1, <1>2, LedgerHolds, FramedHolds, PTL DEF Spec

-----------------------------------------------------------------------------
(* What a later position of a longer ledger still finds.                   *)
LEMMA LicensedKept ==
  ASSUME Ledger, [Next]_vars, NEW c, NEW i \in Steps,
         NEW n \in 1 .. Len(log) + 1, NEW m \in Nat, n <= m, Licensed(c, i, n),
         dev[c].fate = "unsent" => dev'[c].fate = "unsent"
  PROVE  Licensed(c, i, m)'
PROOF
<1>1. IsSequence(log) /\ Len(log) \in Nat /\ DOMAIN log = 1 .. Len(log)
  BY LedgerIs DEF IsSequence
<1>2. /\ \A x \in DOMAIN log : log'[x] = log[x]
      /\ At("verdictRecorded", i) \subseteq At("verdictRecorded", i)'
  <2>1. CASE UNCHANGED << log, ck >>
    BY <2>1 DEF At
  <2>2. ASSUME NEW ev, Writes(ev)
        PROVE  /\ \A x \in DOMAIN log : log'[x] = log[x]
               /\ At("verdictRecorded", i) \subseteq At("verdictRecorded", i)'
    <3>1. Write(ev) /\ log' = Append(log, ev)
      BY <2>2, WriteIs DEF Write
    <3> QED BY <1>1, <3>1, Grows, EntriesGrow DEF At
  <2> QED BY <2>1, <2>2, StepWrites
<1>3. n <= Len(log) + 1 /\ n \in Nat
  BY <1>1
<1>4. CASE SettledBefore(c, n)
  <2>1. PICK x \in 1 .. n - 1 : log[x].type = "actionSettled" /\ log[x].call = c
    BY <1>4 DEF SettledBefore
  <2>2. x \in DOMAIN log /\ x \in 1 .. m - 1
    BY <1>1, <1>3, <2>1
  <2>3. SettledBefore(c, m)'
    BY <1>2, <2>1, <2>2 DEF SettledBefore
  <2> QED BY <2>3 DEF Licensed
<1>5. CASE dev[c].fate = "unsent"
  BY <1>5 DEF Licensed
<1>6. ASSUME NEW a \in AnswersOn(c, n),
             \/ log[a].decision = "redo"
             \/ /\ log[a].decision = "adopt"
                /\ \E v \in Before(At("verdictRecorded", i), n) : v > a
      PROVE  Licensed(c, i, m)'
  <2>1. /\ a \in 1 .. n - 1 /\ log[a].type = "humanResponded"
        /\ \E q \in 1 .. a : /\ log[q].type = "humanRequested" /\ log[q].call = c
                             /\ log[q].req = log[a].req
    BY DEF AnswersOn
  <2>2. a \in DOMAIN log /\ a \in 1 .. m - 1 /\ \A q \in 1 .. a : q \in DOMAIN log
    BY <1>1, <1>3, <2>1
  <2>3. a \in AnswersOn(c, m)' /\ log'[a].decision = log[a].decision
    BY <1>2, <2>1, <2>2 DEF AnswersOn
  <2>4. ASSUME NEW v \in Before(At("verdictRecorded", i), n)
        PROVE  v \in Before(At("verdictRecorded", i), m)'
    <3>1. v \in At("verdictRecorded", i) /\ v < n /\ v \in DOMAIN log
      BY DEF Before, At, Entries
    <3>2. v < m
      BY <1>1, <1>3, <3>1
    <3> QED BY <1>2, <3>1, <3>2 DEF Before
  <2>5. CASE log[a].decision = "redo"
    BY <2>3, <2>5 DEF Licensed
  <2>6. CASE /\ log[a].decision = "adopt"
             /\ \E v \in Before(At("verdictRecorded", i), n) : v > a
    BY <2>3, <2>4, <2>6 DEF Licensed
  <2> QED BY <1>6, <2>5, <2>6
<1> QED BY <1>4, <1>5, <1>6 DEF Licensed

-----------------------------------------------------------------------------
(* What becomes of the calls.                                              *)

(* Nothing stands in the way of dispatching the step of call c again.      *)
Accounted(c) ==
  \/ Licensed(c, dev[c].step, Len(log) + 1)
  \/ NullSpan(dev[c].step)
  \/ ~Gated(dev[c].step)

(* What accounts for a call stays, unless it was that the call was unsent. *)
LEMMA AccountedStays ==
  ASSUME Ledger, CallsOwned, [Next]_vars, NEW c \in Calls, Accounted(c),
         dev[c].fate = "unsent" => dev'[c].fate = "unsent"
  PROVE  Accounted(c)'
PROOF
<1>1. PICK k \in Steps : dev[c].step = k
  BY DEF CallsOwned
<1>2. dev'[c].step = k
  BY <1>1, CallsKept DEF CallsKeep
<1>3. /\ Len(log) \in Nat /\ Len(log') \in Nat /\ Len(log) <= Len(log')
  <2>1. CASE UNCHANGED << log, ck >>
    BY <2>1, LedgerIs DEF IsSequence
  <2>2. ASSUME NEW ev, Writes(ev)
        PROVE  Len(log) \in Nat /\ Len(log') \in Nat /\ Len(log) <= Len(log')
    BY <2>2, WriteIs, Grows
  <2> QED BY <2>1, <2>2, StepWrites
<1>4. PICK n \in Nat, m \in Nat : n = Len(log) + 1 /\ m = Len(log') + 1 /\ n <= m
  BY <1>3
<1>5. CASE Licensed(c, k, n)
  <2>1. n \in 1 .. Len(log) + 1
    BY <1>3, <1>4
  <2>2. Licensed(c, k, m)'
    BY <1>4, <1>5, <2>1, LicensedKept
  <2> QED BY <1>2, <1>4, <2>2 DEF Accounted
<1>6. CASE NullSpan(k)
  <2>1. NullSpan(k)'
    <3>1. CASE UNCHANGED << log, ck >>
      BY <1>6, <3>1 DEF NullSpan, At
    <3> QED BY <1>6, <3>1, StepWrites, NullKept
  <2> QED BY <1>2, <2>1 DEF Accounted
<1>7. CASE ~Gated(k)
  BY <1>2, <1>7 DEF Accounted, Gated
<1> QED BY <1>1, <1>4, <1>5, <1>6, <1>7 DEF Accounted

(* A human answered an adjudication of call c with d.                      *)
AnsweredWith(c, d) == \E a \in AnswersOn(c, Len(log) + 1) : log[a].decision = d

(* An answer once given stays in the ledger.                               *)
LEMMA AnswersStay ==
  ASSUME Ledger, [Next]_vars, NEW c, NEW a \in AnswersOn(c, Len(log) + 1)
  PROVE  /\ a \in AnswersOn(c, Len(log) + 1)' /\ log'[a].decision = log[a].decision
         /\ a \in 1 .. Len(log) /\ Len(log) \in Nat
PROOF
<1>1. IsSequence(log) /\ Len(log) \in Nat /\ DOMAIN log = 1 .. Len(log)
  BY LedgerIs DEF IsSequence
<1>2. /\ \A x \in DOMAIN log : log'[x] = log[x]
      /\ Len(log') \in Nat /\ Len(log) <= Len(log')
  <2>1. CASE UNCHANGED << log, ck >>
    BY <1>1, <2>1
  <2>2. ASSUME NEW ev, Writes(ev)
        PROVE  /\ \A x \in DOMAIN log : log'[x] = log[x]
               /\ Len(log') \in Nat /\ Len(log) <= Len(log')
    BY <1>1, <2>2, WriteIs, Grows
  <2> QED BY <2>1, <2>2, StepWrites
<1>3. /\ a \in 1 .. Len(log) /\ log[a].type = "humanResponded"
      /\ \E q \in 1 .. a : /\ log[q].type = "humanRequested" /\ log[q].call = c
                           /\ log[q].req = log[a].req
  BY <1>1 DEF AnswersOn
<1>4. a \in DOMAIN log /\ \A q \in 1 .. a : q \in DOMAIN log
  BY <1>1, <1>3
<1>5. a \in 1 .. Len(log') + 1 - 1
  BY <1>1, <1>2, <1>3
<1>6. a \in AnswersOn(c, Len(log) + 1)'
  BY <1>2, <1>3, <1>4, <1>5 DEF AnswersOn
<1> QED BY <1>1, <1>2, <1>3, <1>4, <1>6

-----------------------------------------------------------------------------
(* The pending intent may be dispatched again, or is none.                 *)
Clear == ck.frontier.intent = NoIntent \/ Accounted(ck.frontier.intent)

(* A human ruled d on the pending intent, a call of step i.                *)
RulingTaken(d, i) ==
  /\ ck.frontier.intent # NoIntent
  /\ AnsweredWith(ck.frontier.intent, d)
  /\ dev[ck.frontier.intent].step = i

(* No call is left behind: it may be repeated, or it is the pending one,   *)
(* or a human answered for it and its step is concluded.                   *)
Remembered ==
  \A c \in Calls :
    \/ Accounted(c)
    \/ ck.frontier.intent = c
    \/ AdoptableIn(ck, dev[c].step) /\ AnswersOn(c, Len(log) + 1) # { }

(* What the phases of a segment know of the pending intent.                *)
Licences ==
  /\ proc.at \in {"gate", "act", "judge", "record", "consult", "ask", "supersede",
                  "pairs"} => Clear
  /\ proc.at \in {"dispatch", "wait", "adoptSettle"} => ck.frontier.intent = proc.call
  /\ proc.at = "confirm" => Clear \/ RulingTaken("adopt", proc.i)
  /\ proc.at = "exit" =>
       Clear \/ (proc.exitAs = "aborted" /\ RulingTaken("abort", proc.i))
  /\ proc.at = "walk" =>
       \/ Clear
       \/ /\ ck.frontier.intent # NoIntent
          /\ dev[ck.frontier.intent].step = proc.site
          /\ \/ proc.work = "adopt"
             \/ proc.work = "confirm" /\ RulingTaken("adopt", proc.site)
             \/ proc.work = "abortRuled" /\ RulingTaken("abort", proc.site)

(* The pending intent is one of the calls made.                            *)
LEMMA PendingIsCall ==
  ASSUME Ledger, ck.frontier.intent # NoIntent
  PROVE  ck.frontier.intent \in Calls
PROOF
BY DEF Ledger, ShapedLedger

(* Only a dispatch sends a call.                                           *)
LEMMA UnsentStays ==
  ASSUME Ledger, CallsOwned, [Next]_vars, NEW c \in Calls, proc.at # "dispatch"
  PROVE  dev[c].fate = "unsent" => dev'[c].fate = "unsent"
PROOF
BY CallsKept DEF CallsKeep

(* A clear frontier stays clear until the next intent or dispatch.         *)
LEMMA ClearStays ==
  ASSUME Ledger, CallsOwned, [Next]_vars, Clear, proc.at # "dispatch",
         ck'.frontier.intent \in {NoIntent, ck.frontier.intent}
  PROVE  Clear'
PROOF
<1>1. CASE ck'.frontier.intent = NoIntent
  BY <1>1 DEF Clear
<1>2. CASE ck.frontier.intent # NoIntent /\ ck'.frontier.intent = ck.frontier.intent
  <2>1. PICK c \in Calls : c = ck.frontier.intent
    BY <1>2, PendingIsCall
  <2>2. Accounted(c)'
    BY <1>2, <2>1, UnsentStays, AccountedStays DEF Clear
  <2> QED BY <1>2, <2>1, <2>2 DEF Clear
<1> QED BY <1>1, <1>2

(* A ruling on the pending intent stays one.                               *)
LEMMA RulingStays ==
  ASSUME Ledger, CallsOwned, [Next]_vars, NEW d, NEW i, RulingTaken(d, i),
         ck'.frontier.intent = ck.frontier.intent
  PROVE  RulingTaken(d, i)'
PROOF
<1>1. PICK c \in Calls : c = ck.frontier.intent
  BY PendingIsCall DEF RulingTaken
<1>2. dev'[c].step = i
  BY <1>1, CallsKept DEF CallsKeep, RulingTaken
<1>3. PICK a \in AnswersOn(c, Len(log) + 1) : log[a].decision = d
  BY <1>1 DEF RulingTaken, AnsweredWith
<1>4. AnsweredWith(c, d)'
  BY <1>3, AnswersStay DEF AnsweredWith
<1> QED BY <1>1, <1>2, <1>4 DEF RulingTaken

(* A settlement accounts for its call.                                     *)
LEMMA SettledAccounts ==
  ASSUME Ledger, NEW ev, Writes(ev), ev.type = "actionSettled"
  PROVE  Accounted(ev.call)'
PROOF
<1>1. Write(ev) /\ IsSequence(log)
  BY WriteIs
<1>2. /\ Len(log) \in Nat /\ Len(log') = Len(log) + 1 /\ log'[Len(log) + 1] = ev
  BY <1>1, Grows
<1>3. Len(log) + 1 \in 1 .. Len(log') + 1 - 1
  BY <1>2
<1>4. SettledBefore(ev.call, Len(log) + 1)'
  BY <1>2, <1>3 DEF SettledBefore
<1> QED BY <1>4 DEF Accounted, Licensed

(* The pending intent is not dropped before its fate is known.             *)
LEMMA PendingIsKept ==
  ASSUME Ledger, Ledger', Framed, Licences, [Next]_vars,
         NEW c \in Calls, c = ck.frontier.intent, ck.frontier.intent # NoIntent,
         ck'.frontier.intent # c
  PROVE  \/ Accounted(c)'
         \/ (AdoptableIn(ck, dev[c].step) /\ AnswersOn(c, Len(log) + 1) # { })'
PROOF
<1>1. PICK k \in Steps : /\ dev[c].step = k /\ OpenIn(ck, k)
                         /\ \A m \in Steps : m < k => AdoptableIn(ck, m)
  BY DEF Framed, Pursued
<1>2. PICK ev : Writes(ev)
  BY StepWrites
<1>3. ev.type # "runStarted"
  <2>1. log # << >>
    <3>1. PICK n : n \in At("actionIntent", k)
      BY <1>1 DEF Framed, CallsOwned
    <3> QED BY <3>1, EmptyIs DEF At, Entries
  <2> QED BY <1>2, <2>1 DEF Writes, Mark, Asks, Responds, InStep, Enters, Intends,
                            Settles, Rules, Triggered, Exits
<1>4. ASSUME Clear, proc.at # "dispatch"
      PROVE  Accounted(c)'
  <2>1. Accounted(c)
    BY <1>4 DEF Clear
  <2> QED BY <1>4, <2>1, UnsentStays, AccountedStays DEF Framed
<1>5. CASE ev.type = "actionSettled" /\ ck.frontier.intent = ev.call
  BY <1>2, <1>5, SettledAccounts
<1>6. CASE ev.type \in {"stepEntered", "actionIntent", "stepExited"}
  <2>1. PICK i \in Steps : InStep(ev, i)
    BY <1>2, <1>6, WriteIs
  <2>2. i = proc.i
    BY <1>2, <2>1, WriteIs
  <2>3. CASE ev.type = "actionIntent"
    <3>1. proc.at = "act"
      BY <2>1, <2>3 DEF InStep, Enters, Intends, Settles, Rules, Triggered, Exits
    <3> QED BY <1>4, <3>1 DEF Licences
  <2>4. CASE ev.type = "stepEntered"
    <3>1. Enters(ev, i)
      BY <2>1, <2>4 DEF InStep, Enters, Intends, Settles, Rules, Triggered, Exits
    <3>2. CASE proc.at = "pairs"
      BY <1>4, <3>2 DEF Licences
    <3>3. CASE proc.at = "walk"
      <4>1. \A m \in Steps : m < i => AdoptableIn(ck, m)
        BY <2>2, <3>3 DEF Ledger, WalkedProc
      <4>2. ~OpenIn(ck, i) /\ ~AdoptableIn(ck, i)
        BY <3>1 DEF Enters
      <4>3. AdoptableIn(ck, k) => ~OpenIn(ck, k)
        BY DEF Ledger, WalkedLedger
      <4>4. k = i \/ k < i \/ i < k
        BY StepsAre
      <4> QED BY <1>1, <4>1, <4>2, <4>3, <4>4
    <3> QED BY <3>1, <3>2, <3>3 DEF Enters
  <2>5. CASE ev.type = "stepExited"
    <3>1. Exits(ev, i)
      BY <2>1, <2>5 DEF InStep, Enters, Intends, Settles, Rules, Triggered, Exits
    <3>2. CASE Clear
      BY <1>4, <3>1, <3>2 DEF Exits
    <3>3. CASE ~Clear
      <4>1. proc.at = "exit" /\ RulingTaken("abort", proc.i)
        BY <3>1, <3>3 DEF Exits, Licences
      <4>2. k = i /\ AnsweredWith(c, "abort")
        BY <1>1, <2>2, <4>1 DEF RulingTaken
      <4>3. ~NullSpan(i)
        BY <1>1, <3>3, <4>2 DEF Clear, Accounted
      <4>4. OpenIn(ck, i)
        BY <1>1, <4>2
      <4>5. RipeIn(ck, i)
        BY <4>3, <4>4 DEF Ledger, WalkedLedger
      <4>6. AdoptableIn(ck', i)
        BY <1>2, <2>1, <2>5, <4>5, WriteRecords
      <4>7. PICK a : a \in AnswersOn(c, Len(log) + 1)
        BY <4>2 DEF AnsweredWith
      <4>8. a \in AnswersOn(c, Len(log) + 1)'
        BY <4>7, AnswersStay
      <4>9. dev'[c].step = i
        BY <1>1, <4>2, CallsKept DEF CallsKeep, Framed
      <4> QED BY <4>6, <4>8, <4>9
    <3> QED BY <3>2, <3>3
  <2> QED BY <1>6, <2>3, <2>4, <2>5
<1> QED BY <1>2, <1>3, <1>5, <1>6, SpansMove

(* Every step remembers every call: a new one is unsent, the pending one   *)
(* is dropped only when its fate is known.                                 *)
LEMMA RememberedNext ==
  ASSUME Ledger, Ledger', Framed, Framed', Licences, Remembered, [Next]_vars
  PROVE  Remembered'
PROOF
<1>1. CallsOwned /\ CallsKeep
  BY CallsKept DEF Framed
<1>2. ASSUME NEW c \in Calls', c \notin Calls
      PROVE  Accounted(c)'
  <2>1. dev'[c].fate = "unsent"
    <3>1. UNCHANGED dev \/ (\E d : Made(d)) \/ \E x \in Calls : \E d : Moved(x, d)
      BY <1>1, CallsMove
    <3>2. IsSequence(dev)
      BY DEF Ledger, ShapedLedger
    <3>3. CASE UNCHANGED dev
      BY <1>2, <3>3 DEF Calls
    <3>4. ASSUME NEW d, Made(d)
          PROVE  dev'[c].fate = "unsent"
      <4>1. dev' = Append(dev, d) /\ d.fate = "unsent"
        BY <3>4 DEF Made
      <4> QED BY <1>2, <3>2, <4>1, AppendIs DEF Calls, IsSequence
    <3>5. ASSUME NEW x \in Calls, NEW d, Moved(x, d)
          PROVE  FALSE
      <4>1. dev' = Put(dev, x, d)
        BY <3>5 DEF Moved
      <4> QED BY <1>2, <4>1 DEF Put, Calls
    <3> QED BY <3>1, <3>3, <3>4, <3>5
  <2> QED BY <2>1 DEF Accounted, Licensed
<1>3. ASSUME NEW c \in Calls, c \in Calls'
      PROVE  (\/ Accounted(c) \/ ck.frontier.intent = c
              \/ AdoptableIn(ck, dev[c].step) /\ AnswersOn(c, Len(log) + 1) # { })'
  <2>1. CASE dev[c].fate = "unsent" /\ dev'[c].fate # "unsent"
    BY <1>1, <2>1 DEF CallsKeep, Licences
  <2>2. CASE /\ dev[c].fate = "unsent" => dev'[c].fate = "unsent"
             /\ Accounted(c)
    BY <1>1, <2>2, AccountedStays
  <2>3. CASE ck.frontier.intent = c
    <3>1. ck.frontier.intent # NoIntent
      <4>1. Len(dev) \in Nat /\ DOMAIN dev = 1 .. Len(dev)
        BY DEF Ledger, ShapedLedger, IsSequence
      <4>2. c \in Nat
        BY <4>1 DEF Calls
      <4> QED BY <2>3, <4>2, Marks
    <3>2. CASE ck'.frontier.intent = c
      BY <3>2
    <3>3. CASE ck'.frontier.intent # c
      BY <2>3, <3>1, <3>3, PendingIsKept
    <3> QED BY <3>2, <3>3
  <2>4. CASE AdoptableIn(ck, dev[c].step) /\ AnswersOn(c, Len(log) + 1) # { }
    <3>1. PICK k \in Steps : dev[c].step = k
      BY <1>1 DEF CallsOwned
    <3>2. AdoptableIn(ck', k)
      BY <2>4, <3>1, AdoptableStays
    <3>3. AnswersOn(c, Len(log) + 1)' # { }
      BY <2>4, AnswersStay
    <3>4. dev'[c].step = k
      BY <1>1, <3>1 DEF CallsKeep
    <3> QED BY <3>2, <3>3, <3>4
  <2> QED BY <2>1, <2>2, <2>3, <2>4 DEF Remembered
<1>4. ASSUME NEW c \in Calls'
      PROVE  (\/ Accounted(c) \/ ck.frontier.intent = c
              \/ AdoptableIn(ck, dev[c].step) /\ AnswersOn(c, Len(log) + 1) # { })'
  BY <1>2, <1>3
<1> QED BY <1>4 DEF Remembered

-----------------------------------------------------------------------------
(* What can have become of a call.                                         *)
Fated == \A c \in Calls : dev[c].fate \in {"unsent", "started", "done"}

(* The fate of a call starts unsent and moves to started and done.         *)
LEMMA FatedNext ==
  ASSUME Ledger, CallsOwned, Fated, [Next]_vars
  PROVE  Fated'
PROOF
<1>1. IsSequence(dev)
  BY DEF Ledger, ShapedLedger
<1>2. CASE UNCHANGED dev
  BY <1>2 DEF Fated, Calls
<1>3. ASSUME NEW d, Made(d)
      PROVE  Fated'
  <2>1. dev' = Append(dev, d) /\ d.fate = "unsent"
    BY <1>3 DEF Made
  <2>2. /\ Len(dev) \in Nat /\ DOMAIN dev = 1 .. Len(dev)
        /\ DOMAIN dev' = 1 .. Len(dev) + 1 /\ dev'[Len(dev) + 1] = d
        /\ \A c \in DOMAIN dev : dev'[c] = dev[c]
    BY <1>1, <2>1, AppendIs
  <2> QED BY <2>1, <2>2 DEF Fated, Calls
<1>4. ASSUME NEW x \in Calls, NEW d, Moved(x, d)
      PROVE  Fated'
  <2>1. dev' = Put(dev, x, d) /\ d.fate \in {"started", "done"}
    BY <1>4 DEF Moved
  <2> QED BY <2>1 DEF Put, Calls, Fated
<1> QED BY <1>2, <1>3, <1>4, CallsMove

(* A request at the adjudication path adjudicates.                         *)
LEMMA AdjudicationIs ==
  ASSUME Answered, NEW n \in RequestsAt(log, AdjudicatePath)
  PROVE  n \in Requests /\ AdjudicationRequest(log[n])
PROOF
<1> DEFINE path == AdjudicatePath
<1>1. n \in Requests /\ SameInstance(log[n].path, path)
  BY DEF RequestsAt, Entries, Requests
<1>2. Len(path) = 4 /\ path[4].id = "adjudicate"
  BY HookPathIs DEF AdjudicatePath
<1>3. Len(log[n].path) = 4 /\ log[n].path[4].id = "adjudicate"
  BY <1>1, <1>2 DEF SameInstance, SitePrefix, SameSite
<1>4. ~GateRequest(log[n])
  BY <1>3, StepPathIs DEF GateRequest
<1>5. ~EscalationRequest(log[n])
  BY <1>3 DEF EscalationRequest, HookRequest
<1> QED BY <1>1, <1>4, <1>5 DEF Answered, Declared

(* The governing adjudication, when it is of call c, is unanswered or was  *)
(* answered on call c.                                                     *)
LEMMA AdjudicationSays ==
  ASSUME Ledger, NEW c, RequestsAt(log, AdjudicatePath) # { },
         Governing(log, AdjudicatePath).call = c
  PROVE  LET answer == AnswerTo(log, Governing(log, AdjudicatePath).req)
         IN  \/ answer = NoPending
             \/ /\ answer \in {"adopt", "redo", "abort"}
                /\ AnsweredWith(c, answer)
PROOF
<1> DEFINE Q == RequestsAt(log, AdjudicatePath)
<1>1. IsSequence(log) /\ ShapedLedger /\ Answered
  BY LedgerIs
<1>2. Q \in SUBSET (1 .. Len(log)) /\ Len(log) \in Nat
  BY <1>1, EntriesArePositions DEF RequestsAt
<1>3. Latest(Q) \in Q
  BY <1>2, LatestIs
<1>4. PICK q \in Q : q = Latest(Q)
  BY <1>3
<1>5. Governing(log, AdjudicatePath) = log[q]
  BY <1>4 DEF Governing
<1>6. q \in Requests /\ AdjudicationRequest(log[q])
  BY <1>1, AdjudicationIs
<1>7. CASE AnswerTo(log, log[q].req) = NoPending
  BY <1>5, <1>7
<1>8. ASSUME NEW a \in Final(log[q].req), AnswerTo(log, log[q].req) = log[a].decision
      PROVE  /\ log[a].decision \in {"adopt", "redo", "abort"}
             /\ AnsweredWith(c, log[a].decision)
  <2>1. a \in Responses /\ log[a].req = log[q].req
    BY <1>8 DEF Final
  <2>2. PICK r \in Requests : AnswersRequest(a, r)
    BY <1>1, <2>1 DEF Answered
  <2>3. r = q
    BY <1>1, <1>6, <2>1, <2>2, RequestIsUnique DEF AnswersRequest
  <2>4. q < a /\ log[a].decision \in {"adopt", "redo", "abort"}
    BY <1>6, <2>2, <2>3 DEF AnswersRequest, AdjudicationRequest
  <2>5. /\ a \in 1 .. Len(log) /\ q \in 1 .. Len(log)
        /\ log[a].type = "humanResponded" /\ log[q].type = "humanRequested"
    BY <1>1, <1>6, <2>1 DEF IsSequence, Responses, Requests
  <2>6. q \in 1 .. a /\ a \in 1 .. Len(log) + 1 - 1
    BY <1>2, <2>4, <2>5
  <2>7. a \in AnswersOn(c, Len(log) + 1)
    BY <1>5, <2>1, <2>5, <2>6 DEF AnswersOn
  <2> QED BY <2>4, <2>7 DEF AnsweredWith
<1>9. \/ AnswerTo(log, log[q].req) = NoPending
      \/ \E a \in Final(log[q].req) : AnswerTo(log, log[q].req) = log[a].decision
  BY <1>1, <1>2, AnswerIs
<1> QED BY <1>5, <1>7, <1>8, <1>9

(* The work a resume takes up on the pending intent is one it may do.      *)
LEMMA WorkIsLicensed ==
  ASSUME Ledger, Framed, Fated, ck.frontier.intent # NoIntent,
         NEW fate \in Reconciled(ck.frontier.intent),
         NEW work, work = FrontierWork(ck.frontier.intent, fate)
  PROVE  \/ work \in {"ask", "reawait", "adopt"} \/ Clear
         \/ work = "confirm" /\ AnsweredWith(ck.frontier.intent, "adopt")
         \/ work = "abortRuled" /\ AnsweredWith(ck.frontier.intent, "abort")
PROOF
<1>1. PICK c \in Calls : c = ck.frontier.intent
  BY PendingIsCall
<1>2. PICK k \in Steps, m \in Steps :
        /\ dev[c].step = k /\ StepAt(ck.frontier.path) = m
        /\ m = k \/ (NullSpan(k) /\ AdoptableIn(ck, m))
  BY <1>1, NamedSite DEF Framed
<1>3. CASE NullSpan(k)
  BY <1>1, <1>2, <1>3 DEF Clear, Accounted
<1>4. CASE m = k
  <2>1. dev[c].fate \in {"unsent", "started", "done"}
    BY DEF Fated
  <2>2. CASE fate = "completed"
    BY <1>1, <2>2 DEF FrontierWork
  <2>3. CASE fate = "neverDispatched"
    <3>1. dev[c].fate = "unsent"
      BY <1>1, <2>1, <2>3 DEF Reconciled
    <3> QED BY <1>1, <3>1 DEF Clear, Accounted, Licensed
  <2>4. CASE fate \in {"startedNoTerminal", "logUnavailable"}
    <3> DEFINE q == Governing(log, AdjudicatePath)
               answer == AnswerTo(log, q.req)
    <3>1. work = UncertainWork(c)
      BY <1>1, <2>4 DEF FrontierWork
    <3>2. CASE ReplayPermitted(k)
      BY <1>1, <1>2, <3>2 DEF Clear, Accounted, Gated, ReplayPermitted
    <3>3. CASE ~ReplayPermitted(k) /\ (RequestsAt(log, AdjudicatePath) = { } \/ q.call # c)
      BY <1>2, <1>4, <3>1, <3>3 DEF UncertainWork
    <3>4. CASE /\ ~ReplayPermitted(k) /\ RequestsAt(log, AdjudicatePath) # { }
               /\ q.call = c
      <4>1. \/ answer = NoPending
            \/ answer \in {"adopt", "redo", "abort"} /\ AnsweredWith(c, answer)
        BY <3>4, AdjudicationSays
      <4>2. work = CASE answer = NoPending -> "reawait"
                     [] answer = "adopt"   -> "confirm"
                     [] answer = "redo"    -> "replay"
                     [] answer = "abort"   -> "abortRuled"
        BY <1>2, <1>4, <3>1, <3>4 DEF UncertainWork
      <4>3. NoPending \notin {"adopt", "redo", "abort"}
        BY Marks DEF Decisions
      <4>4. CASE answer = "redo"
        <5>1. AnsweredWith(c, "redo")
          BY <4>1, <4>3, <4>4
        <5>2. Accounted(c)
          BY <5>1 DEF AnsweredWith, Accounted, Licensed
        <5> QED BY <1>1, <5>2 DEF Clear
      <4>5. CASE answer # "redo"
        <5> HIDE DEF answer
        <5> QED BY <1>1, <4>1, <4>2, <4>3, <4>5
      <4> QED BY <4>4, <4>5
    <3> QED BY <3>2, <3>3, <3>4
  <2>5. fate \in {"completed", "neverDispatched", "startedNoTerminal", "logUnavailable"}
    BY <1>1, <2>1 DEF Reconciled
  <2> QED BY <2>2, <2>3, <2>4, <2>5
<1> QED BY <1>2, <1>3, <1>4

-----------------------------------------------------------------------------
(* The step of the pending intent does not change.                         *)
LEMMA SitesStay ==
  ASSUME Ledger, CallsOwned, [Next]_vars, ck.frontier.intent # NoIntent,
         ck'.frontier.intent = ck.frontier.intent
  PROVE  dev'[ck'.frontier.intent].step = dev[ck.frontier.intent].step
PROOF
BY CallsKept, PendingIsCall DEF CallsKeep

(* While nothing happens to the pending intent, nor is it dispatched.      *)
LEMMA LicencesStay ==
  ASSUME Ledger, CallsOwned, Licences, [Next]_vars, UNCHANGED proc,
         ck'.frontier.intent = ck.frontier.intent
  PROVE  Licences'
PROOF
<1>1. Clear /\ proc.at # "dispatch" => Clear'
  BY ClearStays
<1>3. RulingTaken("adopt", proc.i) => RulingTaken("adopt", proc.i)'
  BY RulingStays
<1>4. RulingTaken("abort", proc.i) => RulingTaken("abort", proc.i)'
  BY RulingStays
<1>5. RulingTaken("adopt", proc.site) => RulingTaken("adopt", proc.site)'
  BY RulingStays
<1>6. RulingTaken("abort", proc.site) => RulingTaken("abort", proc.site)'
  BY RulingStays
<1>7. ck.frontier.intent # NoIntent =>
        dev'[ck'.frontier.intent].step = dev[ck.frontier.intent].step
  BY SitesStay
<1> QED BY <1>1, <1>3, <1>4, <1>5, <1>6, <1>7 DEF Licences

(* The verdict on an adopted effect accounts for its call.                 *)
LEMMA VerdictAccounts ==
  ASSUME Ledger, CallsOwned, [Next]_vars, RulingTaken("adopt", proc.i),
         NEW ev, Writes(ev), ev.type = "verdictRecorded"
  PROVE  Clear'
PROOF
<1>1. PICK k \in Steps : InStep(ev, k)
  BY WriteIs
<1>2. k = proc.i /\ ev.path = StepPath(k)
  BY <1>1, WriteIs
<1>3. Write(ev) /\ IsSequence(log) /\ Len(log) \in Nat /\ Len(log') = Len(log) + 1
  BY WriteIs, Grows
<1>4. PICK c \in Calls : c = ck.frontier.intent
  BY PendingIsCall DEF RulingTaken
<1>5. PICK a \in AnswersOn(c, Len(log) + 1) : log[a].decision = "adopt"
  BY <1>4 DEF RulingTaken, AnsweredWith
<1>6. /\ a \in AnswersOn(c, Len(log) + 1)' /\ log'[a].decision = "adopt"
      /\ a \in 1 .. Len(log)
  BY <1>5, AnswersStay
<1>7. Len(log) + 1 \in At("verdictRecorded", k)'
  BY <1>2, <1>3, AtGrows
<1>8. PICK v \in Nat, n \in Nat : v = Len(log) + 1 /\ n = Len(log') + 1 /\ v < n /\ v > a
  BY <1>3, <1>6
<1>9. v \in Before(At("verdictRecorded", k)', n)
  BY <1>7, <1>8 DEF Before
<1>10. Before(At("verdictRecorded", k)', n) = Before(At("verdictRecorded", k), n)'
  BY DEF Before
<1>11. a \in AnswersOn(c, n)'
  BY <1>6, <1>8
<1>12. Licensed(c, k, n)'
  BY <1>6, <1>8, <1>9, <1>10, <1>11 DEF Licensed
<1>13. dev'[c].step = k
  BY <1>2, <1>4, CallsKept DEF CallsKeep, RulingTaken
<1>14. Accounted(c)'
  BY <1>8, <1>12, <1>13 DEF Accounted
<1>15. ck'.frontier.intent = c
  BY <1>4, SpansMove
<1> QED BY <1>14, <1>15 DEF Clear

(* Within a round the frontier stays clear: settling drops the pending     *)
(* intent, judging an adopted effect accounts for it.                      *)
LEMMA TurnsLicensed ==
  ASSUME Ledger, Framed, Licences, [Next]_vars, Turns
  PROVE  Licences'
PROOF
<1>1. /\ CallsOwned /\ proc'.i = proc.i /\ proc'.call = proc.call
  BY DEF Framed, Turns, SameRound
<1>2. ASSUME Clear'
      PROVE  proc'.at \notin {"dispatch", "wait", "adoptSettle", "walk"} => Licences'
  BY <1>2 DEF Licences
<1>3. UNCHANGED << log, ck >> => ck'.frontier.intent = ck.frontier.intent
  OBVIOUS
<1>4. \A ev : Writes(ev) /\ ev.type \in {"verdictRecorded", "handlerTriggered"} =>
        ck'.frontier.intent = ck.frontier.intent
  BY SpansMove
<1>5. CASE Turn({"gate"}, {"act", "exit"}) /\ UNCHANGED << log, ck >>
  BY <1>1, <1>2, <1>5, ClearStays DEF Turn, Licences
<1>6. CASE Turn({"dispatch"}, {"wait"}) /\ UNCHANGED << log, ck >>
  BY <1>1, <1>6 DEF Turn, Licences
<1>7. CASE /\ Turn({"wait", "adoptSettle"}, {"judge", "act", "confirm", "record", "exit"})
           /\ \E ev : Writes(ev) /\ ev.type = "actionSettled" /\ ev.call = proc.call
  <2>1. PICK ev : Writes(ev) /\ ev.type = "actionSettled" /\ ev.call = proc.call
    BY <1>7
  <2>2. ck.frontier.intent = proc.call
    BY <1>7 DEF Turn, Licences
  <2>3. ck'.frontier.intent = NoIntent
    BY <2>1, <2>2, SpansMove
  <2> QED BY <1>2, <1>7, <2>3 DEF Clear, Turn
<1>8. CASE /\ Turn({"judge", "confirm", "record", "supersede"}, {"consult", "exit"})
           /\ Adds("verdictRecorded")
  <2>1. PICK ev : Writes(ev) /\ ev.type = "verdictRecorded"
    BY <1>8 DEF Adds
  <2>2. CASE Clear
    <3>1. Clear'
      BY <1>1, <1>4, <1>8, <2>1, <2>2, ClearStays DEF Turn
    <3> QED BY <1>2, <1>8, <3>1 DEF Turn
  <2>3. CASE RulingTaken("adopt", proc.i)
    <3>1. Clear'
      BY <1>1, <2>1, <2>3, VerdictAccounts
    <3> QED BY <1>2, <1>8, <3>1 DEF Turn
  <2> QED BY <1>8, <2>2, <2>3 DEF Turn, Licences
<1>9. CASE /\ Turn({"consult"}, {"act", "ask", "supersede", "exit"})
           /\ UNCHANGED << log, ck >> \/ Adds("handlerTriggered")
  <2>1. ck'.frontier.intent = ck.frontier.intent
    BY <1>3, <1>4, <1>9 DEF Adds
  <2>2. Clear'
    BY <1>1, <1>9, <2>1, ClearStays DEF Turn, Licences
  <2> QED BY <1>2, <1>9, <2>2 DEF Turn
<1> QED BY <1>5, <1>6, <1>7, <1>8, <1>9 DEF Turns

(* A step entered afresh takes up nothing of the pending intent; one that  *)
(* was open is entered with the work found on it.                          *)
LEMMA EntersLicensed ==
  ASSUME Ledger, Framed, Licences, [Next]_vars, EnterStep
  PROVE  Licences'
PROOF
<1>1. IsProc(proc) /\ CallsOwned /\ Pursued /\ Carried
  BY LedgerIs DEF Framed
<1>2. /\ proc.at = "walk" /\ proc'.i = proc.i /\ proc'.call = proc.call
      /\ \/ proc'.at = "record" /\ WorkHere = "none"
         \/ WorkHere = "adopt" /\ proc'.at = "adoptSettle"
         \/ WorkHere = "replay" /\ proc'.at = "act"
         \/ WorkHere = "confirm" /\ proc'.at = "confirm"
         \/ WorkHere = "abortRuled" /\ proc'.at = "exit" /\ proc'.exitAs = "aborted"
         \/ WorkHere = "none" /\ proc'.at \in {"exit", "consult"}
         \/ /\ WorkHere \notin {"adopt", "replay", "confirm", "abortRuled"}
            /\ proc'.at = "gate"
  BY <1>1, EnterStepDoes DEF ResumesAtRuling
<1>3. \/ OpenSpan(proc.i) /\ UNCHANGED << log, ck >>
      \/ ~OpenSpan(proc.i) /\ \E ev : Wrote("stepEntered", Here, ev)
  BY <1>1, EnterStepDoes
<1>4. UNCHANGED << log, ck >> \/ ck'.frontier.intent = NoIntent
  BY <1>3, WroteWrites, SpansMove DEF Wrote
<1>5. ASSUME Clear
      PROVE  Clear'
  BY <1>1, <1>2, <1>4, <1>5, ClearStays
<1>6. ASSUME Clear', proc'.at # "adoptSettle"
      PROVE  Licences'
  BY <1>2, <1>6 DEF Licences
<1>7. CASE proc.work = "none" \/ (proc.site \in Steps /\ AdoptableIn(ck, proc.site)
                                   /\ proc.site # proc.i)
  <2>1. WorkHere = "none"
    BY <1>7 DEF WorkHere
  <2>2. Clear
    <3>1. CASE proc.work = "none"
      BY <1>2, <3>1 DEF Licences
    <3>2. CASE proc.site \in Steps /\ AdoptableIn(ck, proc.site) /\ ck.frontier.intent # NoIntent
      <4>1. dev[ck.frontier.intent].step # proc.site
        BY <1>1, <3>2 DEF Pursued, Ledger, WalkedLedger
      <4> QED BY <1>2, <4>1 DEF Licences
    <3> QED BY <1>7, <3>1, <3>2 DEF Clear
  <2> QED BY <1>2, <1>5, <1>6, <2>1, <2>2
<1>8. CASE /\ ck.frontier.intent # NoIntent /\ proc.call = ck.frontier.intent
           /\ proc.site = proc.i /\ proc.work # "none"
           /\ OpenIn(ck, proc.i)
  <2>1. WorkHere = proc.work
    BY <1>8 DEF WorkHere
  <2>2. UNCHANGED << log, ck >>
    BY <1>3, <1>8, BridgeIs
  <2>3. CASE proc'.at = "adoptSettle"
    BY <1>2, <1>8, <2>2, <2>3 DEF Licences
  <2>4. CASE proc'.at # "adoptSettle" /\ Clear
    BY <1>5, <1>6, <2>4
  <2>5. CASE proc.work = "confirm" /\ RulingTaken("adopt", proc.site)
    <3>1. RulingTaken("adopt", proc.i)'
      BY <1>1, <1>2, <1>8, <2>2, <2>5, RulingStays
    <3> QED BY <1>2, <1>8, <2>1, <2>5, <3>1 DEF Licences
  <2>6. CASE proc.work = "abortRuled" /\ RulingTaken("abort", proc.site)
    <3>1. RulingTaken("abort", proc.i)'
      BY <1>1, <1>2, <1>8, <2>2, <2>6, RulingStays
    <3> QED BY <1>2, <1>8, <2>1, <2>6, <3>1 DEF Licences
  <2>7. CASE proc.work = "adopt"
    BY <1>2, <2>1, <2>3, <2>7
  <2> QED BY <1>2, <2>3, <2>4, <2>5, <2>6, <2>7 DEF Licences
<1> QED BY <1>1, <1>7, <1>8, TakesWork

(* Every step carries what is known of the pending intent along.           *)
LEMMA LicencesNext ==
  ASSUME Ledger, Ledger', Framed, Fated, Licences, [Next]_vars
  PROVE  Licences'
PROOF
<1>1. IsProc(proc) /\ CallsOwned
  BY LedgerIs DEF Framed
<1>2. ASSUME Clear', proc'.at \notin {"dispatch", "wait", "adoptSettle"}
      PROVE  Licences'
  BY <1>2 DEF Licences
<1>3. CASE Listens
  <2>1. UNCHANGED proc
    BY <1>3 DEF Listens
  <2>2. ck'.frontier.intent = ck.frontier.intent
    <3>1. ASSUME NEW ev, Writes(ev), Responds(ev)
          PROVE  ck'.frontier.intent = ck.frontier.intent
      <4>1. ev.type = "humanResponded"
        BY <3>1 DEF Responds
      <4> QED BY <3>1, <4>1, SpansMove
    <3> QED BY <1>3, <3>1 DEF Listens
  <2> QED BY <1>1, <2>1, <2>2, LicencesStay
<1>4. CASE Stops
  BY <1>4 DEF Stops, Licences
<1>5. CASE Turns
  BY <1>5, TurnsLicensed
<1>6. CASE WriteIntent
  <2>1. PICK ev : Wrote("actionIntent", Here, ev) /\ ev.call = NextCall
    BY <1>1, <1>6, WriteIntentDoes
  <2>2. Writes(ev) /\ ev.type = "actionIntent"
    BY <2>1, WroteWrites DEF Wrote
  <2>3. ck'.frontier.intent = NextCall
    BY <2>1, <2>2, SpansMove
  <2>4. proc'.at = "dispatch" /\ proc'.call = NextCall
    BY <1>1, <1>6, WriteIntentDoes
  <2> QED BY <2>3, <2>4 DEF Licences
<1>7. CASE StartRun
  <2>1. PICK ev : Wrote("runStarted", RootPath(MetaHash), ev)
    BY <1>7, StartDoes
  <2>2. Writes(ev) /\ ev.type = "runStarted"
    BY <2>1, WroteWrites DEF Wrote
  <2>3. ck'.frontier.intent = NoIntent
    BY <2>2, SpansMove
  <2>4. proc'.at = "walk"
    BY <1>7, StartDoes, WalkingIs
  <2> QED BY <1>2, <2>3, <2>4 DEF Clear
<1>8. CASE AdoptStep
  <2>1. /\ proc.at = "walk" /\ proc'.at = "walk" /\ proc'.work = proc.work
        /\ proc'.site = proc.site /\ UNCHANGED << log, ck, dev >>
    BY <1>1, <1>8, AdoptDoes DEF Silent
  <2>2. Clear => Clear'
    BY <1>1, <2>1, ClearStays
  <2>3. RulingTaken("adopt", proc.site) => RulingTaken("adopt", proc.site)'
    BY <1>1, <2>1, RulingStays
  <2>4. RulingTaken("abort", proc.site) => RulingTaken("abort", proc.site)'
    BY <1>1, <2>1, RulingStays
  <2> QED BY <2>1, <2>2, <2>3, <2>4 DEF Licences
<1>9. CASE EnterStep
  BY <1>9, EntersLicensed
<1>10. CASE ExitStep
  <2>1. proc.at = "exit" /\ proc.ctl \in {"continue", "halt", "abort"}
    BY <1>10 DEF ExitStep, Ledger, ShapedProc, Leaving
  <2>2. PICK ev : Wrote("stepExited", Here, ev)
    BY <1>1, <1>10, <2>1, ExitDoes
  <2>3. Writes(ev) /\ ev.type = "stepExited"
    BY <2>2, WroteWrites DEF Wrote
  <2>4. ck'.frontier.intent = NoIntent
    BY <2>3, SpansMove
  <2>5. proc'.at \in {"walk", "pairs", "finish"}
    BY <1>1, <1>10, <2>1, ExitDoes
  <2> QED BY <1>2, <2>4, <2>5 DEF Clear
<1>11. CASE RecordBlocked
  <2>1. proc.at = "pairs" /\ proc'.at = "pairs"
    BY <1>1, <1>11, PairsDoes DEF IsProc, ProcFields
  <2>2. \/ UNCHANGED << log, ck >>
        \/ \E ev : Wrote("stepExited", Here, ev)
        \/ \E ev : Wrote("stepEntered", Here, ev)
    BY <1>1, <1>11, PairsDoes DEF Silent
  <2>3. ck'.frontier.intent \in {NoIntent, ck.frontier.intent}
    BY <2>2, WroteWrites, SpansMove DEF Wrote
  <2>4. Clear'
    BY <1>1, <2>1, <2>3, ClearStays DEF Licences
  <2> QED BY <1>2, <2>1, <2>4
<1>12. CASE Resume /\ proc'.at = "walk"
  <2>1. PICK ev : Wrote("runResumed", RootPath(MetaHash), ev)
    BY <1>12, ResumeDoes
  <2>2. Writes(ev) /\ ev.type = "runResumed"
    BY <2>1, WroteWrites DEF Wrote
  <2>3. ck'.frontier.intent = ck.frontier.intent
    BY <2>2, SpansMove
  <2>4. CASE Clear
    <3>1. proc.at = "down"
      BY <1>12, ResumeDoes
    <3>2. Clear'
      BY <1>1, <2>3, <2>4, <3>1, ClearStays
    <3> QED BY <1>2, <1>12, <3>2
  <2>5. CASE ~Clear
    <3>1. ck.frontier.intent # NoIntent
      BY <2>5 DEF Clear
    <3>2. PICK fate \in Reconciled(ck.frontier.intent) : \E w :
            /\ w = FrontierWork(ck.frontier.intent, fate)
            /\ w # "none" => /\ proc'.work = w /\ proc'.site = StepAt(ck.frontier.path)
                             /\ w \notin {"ask", "reawait"}
      BY <1>12, <3>1, ResumeDoes
    <3>3. PICK w : /\ w = FrontierWork(ck.frontier.intent, fate)
                   /\ w # "none" => /\ proc'.work = w
                                    /\ proc'.site = StepAt(ck.frontier.path)
                                    /\ w \notin {"ask", "reawait"}
      BY <3>2
    <3>4. \/ w \in {"ask", "reawait", "adopt"}
          \/ w = "confirm" /\ AnsweredWith(ck.frontier.intent, "adopt")
          \/ w = "abortRuled" /\ AnsweredWith(ck.frontier.intent, "abort")
      BY <2>5, <3>1, <3>3, WorkIsLicensed
    <3>5. proc'.work = w /\ proc'.site = StepAt(ck.frontier.path) /\ w \notin {"ask", "reawait"}
      BY <3>3, <3>4
    <3>6. dev[ck.frontier.intent].step = StepAt(ck.frontier.path)
      <4>1. PICK k \in Steps, m \in Steps :
              /\ dev[ck.frontier.intent].step = k /\ StepAt(ck.frontier.path) = m
              /\ m = k \/ (NullSpan(k) /\ AdoptableIn(ck, m))
        BY <3>1, NamedSite DEF Framed
      <4>2. ~NullSpan(k)
        BY <2>5, <4>1 DEF Clear, Accounted
      <4> QED BY <4>1, <4>2
    <3>7. dev'[ck'.frontier.intent].step = proc'.site
      BY <1>1, <2>3, <3>1, <3>5, <3>6, SitesStay
    <3>8. CASE w = "adopt"
      BY <1>12, <2>3, <3>1, <3>5, <3>7, <3>8 DEF Licences
    <3>9. CASE w = "confirm" /\ AnsweredWith(ck.frontier.intent, "adopt")
      <4>1. RulingTaken("adopt", proc'.site)
        BY <3>1, <3>5, <3>6, <3>9 DEF RulingTaken
      <4>2. PICK i : i = proc'.site
        OBVIOUS
      <4>3. RulingTaken("adopt", i)'
        BY <1>1, <2>3, <4>1, <4>2, RulingStays
      <4>4. RulingTaken("adopt", proc.site)'
        BY <4>2, <4>3 DEF RulingTaken
      <4> QED BY <1>12, <2>3, <3>1, <3>5, <3>7, <3>9, <4>4 DEF Licences
    <3>10. CASE w = "abortRuled" /\ AnsweredWith(ck.frontier.intent, "abort")
      <4>1. RulingTaken("abort", proc'.site)
        BY <3>1, <3>5, <3>6, <3>10 DEF RulingTaken
      <4>2. PICK i : i = proc'.site
        OBVIOUS
      <4>3. RulingTaken("abort", i)'
        BY <1>1, <2>3, <4>1, <4>2, RulingStays
      <4>4. RulingTaken("abort", proc.site)'
        BY <4>2, <4>3 DEF RulingTaken
      <4> QED BY <1>12, <2>3, <3>1, <3>5, <3>7, <3>10, <4>4 DEF Licences
    <3> QED BY <3>4, <3>5, <3>8, <3>9, <3>10
  <2> QED BY <2>4, <2>5
<1> QED BY <1>3, <1>4, <1>5, <1>6, <1>7, <1>8, <1>9, <1>10, <1>11, <1>12, ProcMoves

-----------------------------------------------------------------------------
Answerable == Remembered /\ Licences /\ Fated

(* The three parts together are inductive on top of the ledger and the     *)
(* frames.                                                                 *)
LEMMA AnswerableNext ==
  ASSUME Ledger, Ledger', Framed, Framed', Answerable, [Next]_vars
  PROVE  Answerable'
PROOF
<1>1. CallsOwned /\ Remembered /\ Licences /\ Fated
  BY DEF Framed, Answerable
<1> QED BY <1>1, RememberedNext, LicencesNext, FatedNext DEF Answerable

(* No call has been made.                                                  *)
LEMMA AnswerableInit ==
  ASSUME Init
  PROVE  Answerable
PROOF
<1>1. /\ dev = << >> /\ proc = Down /\ ck = Seed(MetaHash, NoSession)
  BY DEF Init
<1>2. Calls = { }
  BY <1>1, EmptyIs DEF Calls
<1> QED BY <1>1, <1>2, DownIs DEF Answerable, Remembered, Licences, Fated

(* A span without resolved arguments is a blocked span.                    *)
LEMMA BlockedSpanIs ==
  ASSUME Ledger, NEW k \in Steps, NullSpan(k)
  PROVE  InBlockedSpan(k, Len(log) + 1)
PROOF
<1>1. PICK e \in At("stepEntered", k) : ~log[e].resolved
  BY DEF NullSpan
<1>2. e < Len(log) + 1
  BY AtIs, LedgerIs
<1> QED BY <1>1, <1>2 DEF InBlockedSpan, Before

(* What is remembered of the calls is what the property asks.              *)
LEMMA NothingLost ==
  ASSUME Ledger, Framed, Answerable
  PROVE  NoLostOutcome
PROOF
<1> SUFFICES ASSUME NEW c \in Calls, Gated(dev[c].step), dev[c].fate # "unsent"
             PROVE  \/ SettledBefore(c, Len(log) + 1)
                    \/ ck.frontier.intent = c
                    \/ AnswersOn(c, Len(log) + 1) # { }
                    \/ InBlockedSpan(dev[c].step, Len(log) + 1)
  BY DEF NoLostOutcome
<1>1. PICK k \in Steps : dev[c].step = k
  BY DEF Framed, CallsOwned
<1>2. CASE Licensed(c, dev[c].step, Len(log) + 1)
  BY <1>2 DEF Licensed
<1>3. CASE NullSpan(k)
  BY <1>1, <1>3, BlockedSpanIs
<1> QED BY <1>1, <1>2, <1>3 DEF Answerable, Remembered, Accounted

(* What an earlier call of a step leaves when the step is about to         *)
(* dispatch again.                                                         *)
LEMMA ReplayIsAccounted ==
  ASSUME Ledger, Framed, Answerable, proc.at = "act", NEW i \in Steps, i = proc.i, Gated(i),
         NEW m \in At("actionIntent", i)
  PROVE  Licensed(log[m].call, i, Len(log) + 1) \/ NullSpan(i)
PROOF
<1>1. PICK c \in Calls : c = log[m].call /\ dev[c].step = i
  BY DEF Framed, CallsOwned
<1>2. ~AdoptableIn(ck, i)
  BY LedgerIs DEF Inside
<1>3. c \in Nat
  BY DEF Ledger, ShapedLedger, IsSequence, Calls
<1>4. Clear
  BY DEF Answerable, Licences
<1>5. Accounted(c)
  BY <1>1, <1>2, <1>3, <1>4, Marks DEF Answerable, Remembered, Clear
<1> QED BY <1>1, <1>5 DEF Accounted

(* A new intent finds every earlier call of its step accounted for; a      *)
(* license once given is not taken back.                                   *)
LEMMA ReplayNext ==
  ASSUME Ledger, Ledger', Framed, Framed', Answerable, NoBlindReplay, [Next]_vars
  PROVE  NoBlindReplay'
PROOF
<1> SUFFICES ASSUME NEW i \in Steps, Gated(i),
                    NEW n \in At("actionIntent", i)', NEW m \in At("actionIntent", i)', m < n
             PROVE  (Licensed(log[m].call, i, n) \/ InBlockedSpan(i, n))'
  BY DEF NoBlindReplay, Before, Steps, Gated
<1>1. IsSequence(log) /\ Len(log) \in Nat /\ DOMAIN log = 1 .. Len(log) /\ CallsOwned
  BY LedgerIs DEF IsSequence, Framed
<1>2. At("actionIntent", i) \in SUBSET (1 .. Len(log))
  BY <1>1, AtIs
<1>3. CASE n \in At("actionIntent", i) /\ m \in At("actionIntent", i)
  <2>1. n \in 1 .. Len(log) + 1 /\ n \in Nat /\ n <= n
    BY <1>1, <1>2, <1>3
  <2>2. log'[m] = log[m]
    <3>1. CASE UNCHANGED << log, ck >>
      BY <3>1
    <3>2. ASSUME NEW ev, Writes(ev)
          PROVE  log'[m] = log[m]
      BY <1>1, <1>2, <1>3, <3>2, WriteIs, Grows
    <3> QED BY <3>1, <3>2, StepWrites
  <2>3. CASE Licensed(log[m].call, i, n)
    <3>1. PICK c \in Calls : c = log[m].call
      BY <1>1, <1>3 DEF CallsOwned
    <3>2. PICK d \in Calls : d = log[n].call
      BY <1>1, <1>3 DEF CallsOwned
    <3>3. c < d
      BY <1>1, <1>3, <3>1, <3>2 DEF CallsOwned
    <3>4. dev[c].fate = "unsent" => dev'[c].fate = "unsent"
      <4>1. CASE proc.at # "dispatch"
        BY <1>1, <4>1, UnsentStays
      <4>2. CASE proc.at = "dispatch"
        <5>1. proc.call = Len(dev)
          BY <1>1, <4>2 DEF CallsOwned
        <5>2. DOMAIN dev = 1 .. Len(dev) /\ Len(dev) \in Nat
          BY DEF Ledger, ShapedLedger, IsSequence
        <5>3. c # proc.call
          BY <3>3, <5>1, <5>2 DEF Calls
        <5> QED BY <1>1, <5>3, CallsKept DEF CallsKeep
      <4> QED BY <4>1, <4>2
    <3>5. Licensed(c, i, n)'
      BY <2>1, <2>3, <3>1, <3>4, LicensedKept
    <3> QED BY <2>2, <3>1, <3>5
  <2>4. CASE InBlockedSpan(i, n)
    <3>1. PICK e \in At("stepEntered", i) : e < n /\ ~log[e].resolved
      BY <2>4 DEF InBlockedSpan, Before
    <3>2. e \in At("stepEntered", i)' /\ log'[e] = log[e]
      <4>1. CASE UNCHANGED << log, ck >>
        BY <3>1, <4>1 DEF At
      <4>2. ASSUME NEW ev, Writes(ev)
            PROVE  e \in At("stepEntered", i)' /\ log'[e] = log[e]
        <5>1. Write(ev) /\ log' = Append(log, ev)
          BY <4>2, WriteIs DEF Write
        <5>2. e \in DOMAIN log
          BY <3>1 DEF At, Entries
        <5> QED BY <1>1, <3>1, <5>1, <5>2, Grows, EntriesGrow DEF At
      <4> QED BY <4>1, <4>2, StepWrites
    <3> QED BY <3>1, <3>2 DEF InBlockedSpan, Before
  <2> QED BY <1>3, <2>3, <2>4 DEF NoBlindReplay, Before
<1>4. CASE ~(n \in At("actionIntent", i) /\ m \in At("actionIntent", i))
  <2>1. PICK ev : Writes(ev)
    <3>1. CASE UNCHANGED << log, ck >>
      BY <1>4, <3>1 DEF At
    <3> QED BY <3>1, StepWrites
  <2>2. Write(ev)
    BY <2>1, WriteIs
  <2>3. ev.type = "actionIntent"
    BY <1>1, <1>4, <2>2, AtStays
  <2>4. PICK k \in Steps : InStep(ev, k)
    BY <2>1, <2>3, WriteIs
  <2>5. k = proc.i /\ ev.path = StepPath(k) /\ proc.at = "act"
    BY <2>1, <2>3, <2>4, WriteIs
       DEF InStep, Enters, Intends, Settles, Rules, Triggered, Exits
  <2>6. At("actionIntent", i)' = IF k = i THEN At("actionIntent", i) \union {Len(log) + 1}
                                 ELSE At("actionIntent", i)
    BY <1>1, <2>2, <2>3, <2>5, AtGrows
  <2>7. k = i /\ n = Len(log) + 1 /\ m \in At("actionIntent", i)
    BY <1>1, <1>2, <1>4, <2>6
  <2>8. log'[m] = log[m] /\ n \in 1 .. Len(log) + 1 /\ n \in Nat /\ n <= n
    BY <1>1, <1>2, <2>2, <2>7, Grows
  <2>9. PICK c \in Calls : c = log[m].call
    BY <1>1, <2>7 DEF CallsOwned
  <2>10. Licensed(c, i, Len(log) + 1) \/ NullSpan(i)
    BY <2>5, <2>7, <2>9, ReplayIsAccounted
  <2>11. CASE Licensed(c, i, Len(log) + 1)
    <3>1. dev[c].fate = "unsent" => dev'[c].fate = "unsent"
      BY <1>1, <2>5, UnsentStays
    <3>2. Licensed(c, i, n)'
      BY <2>7, <2>8, <2>11, <3>1, LicensedKept
    <3> QED BY <2>8, <2>9, <3>2
  <2>12. CASE NullSpan(i)
    <3>1. PICK e \in At("stepEntered", i) : ~log[e].resolved
      BY <2>12 DEF NullSpan
    <3>2. e \in At("stepEntered", i)'
      BY <1>1, <2>2, <2>3, <3>1, AtStays
    <3>3. log'[e] = log[e] /\ e < n
      BY <1>1, <2>2, <2>7, <3>1, AtIs, Grows
    <3> QED BY <3>1, <3>2, <3>3 DEF InBlockedSpan, Before
  <2> QED BY <2>10, <2>11, <2>12
<1> QED BY <1>3, <1>4

(* A call that left for the device is settled, or is the pending intent a  *)
(* resume will reconcile, or a human ruled on it; what ran in the span of  *)
(* an interrupted blocked pair excepted.                                   *)
THEOREM OutcomesAreKept == Spec => []NoLostOutcome
PROOF
<1>1. Init => Answerable
  BY AnswerableInit
<1>2. Ledger /\ Ledger' /\ Framed /\ Framed' /\ Answerable /\ [Next]_vars => Answerable'
  BY AnswerableNext
<1>3. Ledger /\ Framed /\ Answerable => NoLostOutcome
  BY NothingLost
<1> QED BY <1>1, <1>2, <1>3, LedgerHolds, FramedHolds, PTL DEF Spec

(* I2: a mutating, non-idempotent act is dispatched anew only under a      *)
(* license from every earlier call of it; the same spans excepted.         *)
THEOREM ReplaysAreLicensed == Spec => []NoBlindReplay
PROOF
<1>1. Init => Answerable /\ NoBlindReplay
  <2> SUFFICES ASSUME Init
               PROVE  NoBlindReplay
    BY AnswerableInit
  <2>1. \A i \in Steps : At("actionIntent", i) = { }
    BY EmptyIs DEF Init, At, Entries
  <2> QED BY <2>1 DEF NoBlindReplay
<1>2. Ledger /\ Ledger' /\ Framed /\ Framed' /\ Answerable /\ NoBlindReplay /\ [Next]_vars
        => Answerable' /\ NoBlindReplay'
  BY AnswerableNext, ReplayNext
<1> QED BY <1>1, <1>2, LedgerHolds, FramedHolds, PTL DEF Spec

-----------------------------------------------------------------------------
(* The verdict in force at a step is the last one recorded there.          *)
Verdict(i) == RulingOn(log, i)

(* The latest of some positions is the largest.                            *)
LEMMA LatestIsMax ==
  ASSUME NEW n \in Nat, NEW S \in SUBSET (1 .. n), S # { }
  PROVE  Latest(S) = Max(S)
PROOF
<1>1. Max(S) \in S /\ \A y \in S : y <= Max(S)
  BY MaxIs
<1>2. Latest(S) \in S /\ \A y \in S : y <= Latest(S)
  BY LatestIs
<1> DEFINE x == Max(S)
<1> DEFINE y == Latest(S)
<1>3. x \in S /\ y \in S /\ x <= y /\ y <= x
  <2> HIDE DEF x, y
  <2>1. (x \in S /\ \A z \in S : z <= x) /\ (y \in S /\ \A z \in S : z <= y)
    BY <1>1, <1>2 DEF x, y
  <2> QED BY <2>1
<1> HIDE DEF x, y
<1>4. x = y
  BY <1>3
<1> QED BY <1>4 DEF x, y

(* The last verdict, by its position.                                      *)
LEMMA RulingIs ==
  ASSUME NEW h, IsSequence(h), NEW i
  PROVE  LET V == Entries(h, "verdictRecorded", StepPath(i))
         IN  RulingOn(h, i) = IF V = { } THEN NoVerdict ELSE h[Max(V)].verdict
PROOF
<1> DEFINE V == Entries(h, "verdictRecorded", StepPath(i))
<1>1. V \in SUBSET (1 .. Len(h)) /\ Len(h) \in Nat
  BY EntriesArePositions
<1>2. RulingOn(h, i) = IF V = { } THEN NoVerdict ELSE h[Latest(V)].verdict
  BY DEF RulingOn
<1> HIDE DEF V
<1>3. V # { } => Latest(V) = Max(V)
  BY <1>1, LatestIsMax
<1> QED BY <1>2, <1>3 DEF V

(* Positions and their largest, as the ledger grows.                       *)
LEMMA MaxGrows ==
  ASSUME NEW n \in Nat, NEW S \in SUBSET (1 .. n)
  PROVE  Max(S \union {n + 1}) = n + 1
PROOF
<1> DEFINE m == n + 1
<1> DEFINE T == S \union {m}
<1>1. m \in Nat /\ T \in SUBSET (1 .. m) /\ T # { } /\ m \in T
  OBVIOUS
<1> HIDE DEF T, m
<1>2. Max(T) \in T /\ \A y \in T : y <= Max(T)
  BY <1>1, MaxIs
<1> DEFINE x == Max(T)
<1>3. x \in 1 .. m /\ m <= x
  BY <1>1, <1>2
<1> HIDE DEF x
<1>4. x = m
  BY <1>1, <1>3
<1> QED BY <1>4 DEF x, T, m

(* Only a verdict recorded at the step changes it.                         *)
LEMMA VerdictMoves ==
  ASSUME Ledger, NEW ev, Writes(ev), NEW k \in Steps
  PROVE  IF ev.type = "verdictRecorded" /\ k = proc.i
         THEN /\ At("verdictRecorded", k)' = At("verdictRecorded", k) \union {Len(log) + 1}
              /\ Verdict(k)' = ev.verdict
         ELSE /\ At("verdictRecorded", k)' = At("verdictRecorded", k)
              /\ Verdict(k)' = Verdict(k)
PROOF
<1> DEFINE V == At("verdictRecorded", k)
<1>1. /\ Write(ev) /\ IsSequence(log) /\ IsSequence(log') /\ Len(log) \in Nat
      /\ \A n \in DOMAIN log : log'[n] = log[n]
      /\ log'[Len(log) + 1] = ev
  BY WriteIs, Grows
<1>2. V \in SUBSET (1 .. Len(log)) /\ \A n \in V : n \in DOMAIN log
  BY <1>1, AtIs
<1>3. /\ Verdict(k) = IF V = { } THEN NoVerdict ELSE log[Max(V)].verdict
      /\ Verdict(k)' = IF V' = { } THEN NoVerdict ELSE log'[Max(V')].verdict
  BY <1>1, RulingIs DEF Verdict, At
<1>4. IF ev.type = "verdictRecorded" /\ k = proc.i
      THEN V' = V \union {Len(log) + 1} ELSE V' = V
  <2>1. CASE ev.type # "verdictRecorded"
    BY <1>1, <2>1, AtStays
  <2>2. CASE ev.type = "verdictRecorded"
    <3>1. PICK i \in Steps : i = proc.i /\ ev.path = StepPath(i)
      BY <2>2, WriteIs
    <3>2. V' = IF k = i THEN V \union {Len(log) + 1} ELSE V
      BY <1>1, <2>2, <3>1, AtGrows
    <3> QED BY <2>2, <3>1, <3>2
  <2> QED BY <2>1, <2>2
<1> HIDE DEF V
<1>5. V # { } => Max(V) \in V
  BY <1>1, <1>2, MaxIs
<1>6. Max(V \union {Len(log) + 1}) = Len(log) + 1
  BY <1>1, <1>2, MaxGrows
<1> QED BY <1>1, <1>2, <1>3, <1>4, <1>5, <1>6 DEF V

(* The verdicts, or settlements, of the steps a segment has not come to    *)
(* lie before it.                                                          *)
Ahead(type) ==
  proc.at \in Inside \union {"walk"} =>
    \A k \in Steps : k > proc.i \/ (proc.at = "walk" /\ k = proc.i) =>
      \A n \in At(type, k) : n <= proc.base
Unseen == Ahead("verdictRecorded")

(* A process comes to the steps one by one.                                *)
LEMMA AheadNext ==
  ASSUME NEW type \in {"verdictRecorded", "actionSettled"},
         Ledger, Ahead(type), [Next]_vars
  PROVE  Ahead(type)'
PROOF
<1>1. /\ IsProc(proc) /\ IsSequence(log) /\ proc.base \in 0 .. Len(log)
      /\ proc.at \in Inside => proc.i \in Steps
      /\ proc.i \in 1 .. Len(Flow) + 1
  BY LedgerIs DEF Shape, ShapedProc
<1> SUFFICES ASSUME proc'.at \in Inside \union {"walk"}, NEW k \in Steps,
                    k > proc'.i \/ (proc'.at = "walk" /\ k = proc'.i),
                    NEW n \in At(type, k)'
             PROVE  n <= proc'.base
  BY DEF Ahead
<1>2. Len(log) \in Nat /\ At(type, k) \in SUBSET (1 .. Len(log)) /\ k \in Nat
  BY <1>1, AtIs, StepsAre
<1>3. \/ n \in At(type, k)
      \/ \E ev : Writes(ev) /\ ev.type = type /\ k = proc.i
  <2>1. CASE UNCHANGED << log, ck >>
    BY <2>1 DEF At
  <2>2. ASSUME NEW ev, Writes(ev)
        PROVE  n \in At(type, k) \/ (ev.type = type /\ k = proc.i)
    <3>1. Write(ev)
      BY <2>2, WriteIs
    <3>2. CASE ev.type # type
      BY <1>1, <3>1, <3>2, AtStays
    <3>3. CASE ev.type = type
      <4>1. PICK i \in Steps : i = proc.i /\ ev.path = StepPath(i)
        BY <2>2, <3>3, WriteIs
      <4> QED BY <1>1, <3>1, <3>3, <4>1, AtGrows
    <3> QED BY <3>2, <3>3
  <2> QED BY <2>1, <2>2, StepWrites
<1>4. CASE /\ proc.at \in Inside \union {"walk"} /\ proc'.base = proc.base
           /\ k > proc.i \/ (proc.at = "walk" /\ k = proc.i)
           /\ \A ev : Writes(ev) => ev.type # type \/ k > proc.i
  BY <1>1, <1>2, <1>3, <1>4 DEF Ahead
<1>5. ASSUME NEW ev, Writes(ev), ev.type = type, proc.at \in {"walk", "down", "pairs"}
      PROVE  FALSE
  <2>1. PICK i \in Steps : InStep(ev, i)
    BY <1>5, WriteIs
  <2> QED BY <1>5, <2>1 DEF InStep, Enters, Intends, Settles, Rules, Triggered, Exits
<1>6. CASE Listens
  <2>1. UNCHANGED proc
    BY <1>6 DEF Listens
  <2>2. \A ev : Writes(ev) => ev.type = "humanResponded"
    <3> SUFFICES ASSUME NEW ev, Writes(ev)
                 PROVE  ev.type = "humanResponded"
      OBVIOUS
    <3>1. \A e : Writes(e) => e = ev
      BY <1>1, WriteIs, Grows
    <3>2. ~UNCHANGED << log, ck >>
      BY <1>1, WriteIs, Grows
    <3> QED BY <1>6, <3>1, <3>2 DEF Listens, Responds
  <2> QED BY <1>4, <2>1, <2>2
<1>7. CASE Stops
  BY <1>7 DEF Stops, Inside
<1>8. CASE Turns
  <2>1. SameRound(proc', proc) /\ proc.at \in Inside /\ proc'.at \in Inside
    BY <1>8 DEF Turns, Turn
  <2> QED BY <1>1, <1>2, <1>4, <2>1 DEF SameRound, Inside
<1>9. CASE WriteIntent
  <2>1. proc.at \in Inside /\ proc'.i = proc.i /\ proc'.base = proc.base /\ proc'.at = "dispatch"
    BY <1>1, <1>9, WriteIntentDoes DEF Inside
  <2> QED BY <1>1, <1>2, <1>4, <2>1
<1>10. CASE StartRun
  <2>1. proc.at = "down" /\ At(type, k) = { }
    BY <1>10, StartDoes, EmptyIs DEF At, Entries
  <2> QED BY <1>3, <1>5, <2>1
<1>11. CASE AdoptStep
  <2>1. proc.at = "walk" /\ proc'.i = proc.i + 1 /\ proc'.base = proc.base
    BY <1>1, <1>11, AdoptDoes
  <2> QED BY <1>1, <1>2, <1>4, <1>5, <2>1
<1>12. CASE EnterStep
  <2>1. proc.at = "walk" /\ proc'.i = proc.i /\ proc'.base = proc.base
    BY <1>1, <1>12, EnterStepDoes
  <2> QED BY <1>1, <1>2, <1>4, <1>5, <2>1
<1>13. CASE ExitStep
  <2>1. proc.at = "exit" /\ proc.i \in Steps /\ proc'.base = proc.base
        /\ proc.ctl \in {"continue", "halt", "abort"}
    BY <1>1, <1>13, ExitDoes, LedgerIs DEF ExitStep, Inside, Shape, ShapedProc, Leaving
  <2>2. /\ proc'.at \in {"walk", "pairs", "finish"}
        /\ proc'.at # "finish" => proc'.i = proc.i + 1
    BY <1>1, <1>13, <2>1, ExitDoes
  <2>3. k > proc.i /\ proc'.at = "walk"
    BY <1>2, <2>1, <2>2, StepsAre DEF Inside
  <2> QED BY <1>4, <2>1, <2>3 DEF Inside
<1>14. CASE RecordBlocked
  <2>1. proc.at = "pairs" /\ proc'.at = "pairs"
    BY <1>1, <1>14, PairsDoes DEF IsProc, ProcFields
  <2> QED BY <2>1 DEF Inside
<1>15. CASE Resume /\ proc'.at = "walk"
  <2>1. proc.at = "down" /\ proc'.base = Len(log)
    BY <1>15, ResumeDoes, WalkingIs
  <2> QED BY <1>2, <1>3, <1>5, <2>1
<1> QED BY <1>6, <1>7, <1>8, <1>9, <1>10, <1>11, <1>12, <1>13, <1>14, <1>15, ProcMoves

-----------------------------------------------------------------------------
(* What was so of an earlier position stays so.                            *)
LEMMA BeforeStays ==
  ASSUME IsSequence(log), NEW ev, Write(ev), NEW n \in 1 .. Len(log) + 1,
         NEW type, NEW i
  PROVE  /\ Before(At(type, i), n)' = Before(At(type, i), n)
         /\ \A m \in Before(At(type, i), n) : m \in DOMAIN log /\ log'[m] = log[m]
         /\ Before(At(type, i), n) \in SUBSET (1 .. Len(log))
PROOF
<1> DEFINE A == At(type, i)
<1>1. /\ log' = Append(log, ev) /\ Len(log) \in Nat /\ DOMAIN log = 1 .. Len(log)
      /\ \A m \in DOMAIN log : log'[m] = log[m]
  BY Grows
<1>2. A \in SUBSET (1 .. Len(log))
  BY AtIs
<1>3. A' = A \/ A' = A \union {Len(log) + 1}
  <2>1. \/ Entries(log', type, StepPath(i)) = Entries(log, type, StepPath(i))
        \/ Entries(log', type, StepPath(i))
             = Entries(log, type, StepPath(i)) \union {Len(log) + 1}
    BY <1>1, EntriesGrow
  <2> QED BY <2>1 DEF At
<1>4. Before(A, n)' = { m \in A' : m < n } /\ Before(A, n) = { m \in A : m < n }
  BY DEF Before
<1> HIDE DEF A
<1>5. \A m : m \in A' /\ m < n <=> m \in A /\ m < n
  BY <1>1, <1>2, <1>3
<1>6. { m \in A' : m < n } = { m \in A : m < n }
  BY <1>5
<1> QED BY <1>1, <1>2, <1>4, <1>6 DEF A

(* An exit that halts the run keeps that.                                  *)
LEMMA HaltingStays ==
  ASSUME IsSequence(log), NEW ev, Write(ev), NEW n \in DOMAIN log
  PROVE  HaltingExit(n)' <=> HaltingExit(n)
PROOF
<1> DEFINE i == StepAt(log[n].path)
<1> DEFINE V == Before(At("verdictRecorded", i), n)
<1> DEFINE S == Before(At("actionSettled", i), n)
<1> DEFINE T == Before(At("handlerTriggered", i), n)
<1>1. /\ log'[n] = log[n] /\ n \in 1 .. Len(log) + 1 /\ Len(log) \in Nat
  BY Grows
<1>2. i' = i
  BY <1>1 DEF StepAt
<1>3. /\ V' = V /\ S' = S /\ T' = T
      /\ \A m \in V : log'[m] = log[m]
      /\ \A m \in T : log'[m] = log[m]
      /\ V \in SUBSET (1 .. Len(log))
  <2>1. \A type, k : /\ Before(At(type, k), n)' = Before(At(type, k), n)
                     /\ \A m \in Before(At(type, k), n) : log'[m] = log[m]
                     /\ Before(At(type, k), n) \in SUBSET (1 .. Len(log))
    BY <1>1, BeforeStays
  <2> QED BY <1>2, <2>1
<1>4. Overtaken(n) <=> log[n].state = "judged" /\ V # { } /\ S # { } /\ Max(V) < Max(S)
  BY DEF Overtaken
<1>5. Overtaken(n)' <=>
        log'[n].state = "judged" /\ V' # { } /\ S' # { } /\ Max(V') < Max(S')
  BY DEF Overtaken
<1>6. HaltingExit(n) <=>
        /\ log[n].type = "stepExited"
        /\ \/ log[n].state = "aborted"
           \/ /\ log[n].state = "judged"
              /\ V # { } /\ log[Max(V)].verdict = "fail"
              /\ Flow[i].asserts \/ ~Overtaken(n)
              /\ \A t \in T : log[t].disposition # "continue"
  BY DEF HaltingExit
<1>7. HaltingExit(n)' <=>
        /\ log'[n].type = "stepExited"
        /\ \/ log'[n].state = "aborted"
           \/ /\ log'[n].state = "judged"
              /\ V' # { } /\ log'[Max(V')].verdict = "fail"
              /\ Flow[i'].asserts \/ ~Overtaken(n)'
              /\ \A t \in T' : log'[t].disposition # "continue"
  BY DEF HaltingExit
<1> HIDE DEF V, S, T, i
<1>8. V # { } => log'[Max(V)] = log[Max(V)]
  BY <1>1, <1>3, MaxIs
<1> QED BY <1>1, <1>2, <1>3, <1>4, <1>5, <1>6, <1>7, <1>8

(* No ledger begins with an answer.                                        *)
Opened == log # << >> => log[1].type # "humanResponded"

(* Every step keeps that: an answer follows its request.                   *)
LEMMA OpenedNext ==
  ASSUME Ledger, Opened, [Next]_vars
  PROVE  Opened'
PROOF
<1>1. CASE UNCHANGED << log, ck >>
  BY <1>1 DEF Opened
<1>2. ASSUME NEW ev, Writes(ev)
      PROVE  Opened'
  <2>1. /\ IsSequence(log) /\ Len(log) \in Nat /\ DOMAIN log = 1 .. Len(log)
        /\ log # << >> <=> Len(log) # 0
        /\ \A m \in DOMAIN log : log'[m] = log[m]
        /\ log'[Len(log) + 1] = ev
    BY <1>2, WriteIs, Grows, SequenceIs
  <2>2. CASE log # << >>
    BY <2>1, <2>2 DEF Opened
  <2>3. CASE log = << >>
    <3>1. ~Responds(ev)
      <4>1. Answered /\ ~ \E q \in DOMAIN log : TRUE
        BY <2>1, <2>3, LedgerIs
      <4> QED BY <4>1 DEF Answered, Responds, Requests
    <3>2. ev.type # "humanResponded"
      BY <1>2, <3>1 DEF Writes, Mark, Asks, InStep, Enters, Intends, Settles, Rules,
                        Triggered, Exits
    <3> QED BY <2>1, <2>3, <3>2 DEF Opened
  <2> QED BY <2>2, <2>3
<1> QED BY <1>1, <1>2, StepWrites

(* A death between two positions stays on the ledger.                      *)
LEMMA DiedStays ==
  ASSUME Opened, IsSequence(log), NEW ev, Write(ev),
         NEW a \in DOMAIN log, NEW b \in 1 .. Len(log) + 1, DiedBetween(a, b),
         NEW c \in Nat, b <= c
  PROVE  DiedBetween(a, c)'
PROOF
<1>1. /\ Len(log) \in Nat /\ DOMAIN log = 1 .. Len(log)
      /\ \A m \in DOMAIN log : log'[m] = log[m]
  BY Grows
<1>2. PICK n \in a + 1 .. b - 1 :
        /\ log[n].type = "runResumed"
        /\ log[Max({ m \in 1 .. n - 1 : log[m].type # "humanResponded" })].type
             # "runSuspended"
  BY DEF DiedBetween
<1> DEFINE M == { m \in 1 .. n - 1 : log[m].type # "humanResponded" }
<1>3. n \in DOMAIN log /\ n \in a + 1 .. c - 1 /\ n \in Nat /\ 1 \in 1 .. n - 1
      /\ 1 .. n - 1 \subseteq DOMAIN log /\ log # << >> /\ 1 \in DOMAIN log
  BY <1>1, <1>2, SequenceIs
<1>4. M' = M
  BY <1>1, <1>3
<1>5. 1 \in M /\ M \in SUBSET (1 .. n - 1) /\ n - 1 \in Nat
  BY <1>3 DEF Opened
<1>6. Max(M) \in M
  <2> HIDE DEF M
  <2> QED BY <1>5, MaxIs
<1>7. log'[Max(M)] = log[Max(M)] /\ log'[n] = log[n]
  BY <1>1, <1>3, <1>5, <1>6
<1>8. log[n].type = "runResumed" /\ log[Max(M)].type # "runSuspended"
  BY <1>2
<1>9. log'[n].type = "runResumed" /\ log'[Max(M')].type # "runSuspended"
  BY <1>4, <1>7, <1>8
<1> QED BY <1>3, <1>9 DEF DiedBetween

-----------------------------------------------------------------------------
(* What releases a failed step: a later verdict, a `continue`, or, without *)
(* assertions, a settlement no verdict has seen.                           *)
ReleasedIn(h, i) ==
  \/ RulingOn(h, i) # "fail"
  \/ \E t \in Entries(h, "handlerTriggered", StepPath(i)) : h[t].disposition = "continue"
  \/ /\ ~Flow[i].asserts
     /\ \E s \in Entries(h, "actionSettled", StepPath(i)) :
          \A v \in Entries(h, "verdictRecorded", StepPath(i)) : v < s
Released(i) == ReleasedIn(log, i)

(* A consultation is about the verdict in force, and a process that goes   *)
(* on after a judged step goes on from one that is released.               *)
GoesOn(p) == p.at = "exit" /\ p.exitAs = "judged" /\ p.ctl = "continue"
Standing ==
  /\ proc.at = "consult" => Verdict(proc.i) = proc.status
  /\ GoesOn(proc) => Released(proc.i)

(* A release is not taken back by what is no verdict.                      *)
LEMMA ReleasedStays ==
  ASSUME Ledger, NEW ev, Writes(ev), NEW k \in Steps, Released(k),
         ev.type # "verdictRecorded"
  PROVE  Released(k)'
PROOF
<1>1. /\ Write(ev) /\ IsSequence(log) /\ Len(log) \in Nat /\ DOMAIN log = 1 .. Len(log)
      /\ \A n \in DOMAIN log : log'[n] = log[n]
  BY WriteIs, Grows
<1>2. /\ At("verdictRecorded", k)' = At("verdictRecorded", k)
      /\ Verdict(k)' = Verdict(k)
  BY VerdictMoves
<1>3. \A type : /\ At(type, k) \subseteq At(type, k)'
                /\ At(type, k) \in SUBSET (1 .. Len(log))
  <2> SUFFICES ASSUME NEW type
               PROVE  At(type, k) \subseteq At(type, k)'
    BY <1>1, AtIs
  <2>1. log' = Append(log, ev)
    BY <1>1, Grows
  <2>2. Entries(log, type, StepPath(k)) \subseteq Entries(log', type, StepPath(k))
    BY <1>1, <2>1, EntriesGrow
  <2> QED BY <2>2 DEF At
<1>4. ASSUME NEW t \in At("handlerTriggered", k), log[t].disposition = "continue"
      PROVE  t \in At("handlerTriggered", k)' /\ log'[t].disposition = "continue"
  BY <1>1, <1>3, <1>4
<1>5. /\ Released(k) <=>
           \/ Verdict(k) # "fail"
           \/ \E t \in At("handlerTriggered", k) : log[t].disposition = "continue"
           \/ /\ ~Flow[k].asserts
              /\ \E s \in At("actionSettled", k) : \A v \in At("verdictRecorded", k) : v < s
      /\ Released(k)' <=>
           \/ Verdict(k)' # "fail"
           \/ \E t \in At("handlerTriggered", k)' : log'[t].disposition = "continue"
           \/ /\ ~Flow[k].asserts
              /\ \E s \in At("actionSettled", k)' : \A v \in At("verdictRecorded", k)' : v < s
  BY DEF Released, ReleasedIn, Verdict, At
<1> QED BY <1>2, <1>3, <1>4, <1>5

(* How a ruled round goes on.                                              *)
LEMMA RuledHow ==
  ASSUME NEW p, IsProc(p), NEW v
  PROVE  LET q == Ruled(p, v)
         IN  /\ q.at = "consult" => q.status = v
             /\ GoesOn(q) => v = "pass"
PROOF
<1> DEFINE s == [Seeded(p, v) EXCEPT !.status = v]
<1>1. IsProc(s) /\ s.status = v
  BY SeededIs DEF SameRound, IsProc, ProcFields
<1> HIDE DEF s
<1>2. /\ Leave(s, "judged", "continue").at = "exit"
      /\ Leave(s, "judged", "halt").at = "exit"
      /\ Leave(s, "judged", "halt").ctl = "halt"
      /\ Goto(s, "consult").at = "consult" /\ Goto(s, "consult").status = v
  BY <1>1, LeaveIs, GotoIs
<1>3. Ruled(p, v) = IF v = "pass" THEN Leave(s, "judged", "continue")
                    ELSE IF p.plain THEN Leave(s, "judged", "halt") ELSE Goto(s, "consult")
  BY DEF Ruled, s
<1>4. CASE v = "pass"
  BY <1>2, <1>3, <1>4
<1>5. CASE v # "pass" /\ p.plain
  BY <1>2, <1>3, <1>5 DEF GoesOn
<1>6. CASE v # "pass" /\ ~p.plain
  BY <1>2, <1>3, <1>6 DEF GoesOn
<1> QED BY <1>4, <1>5, <1>6

(* ... after a verdict of an assertion fold, a negative, or a human.       *)
LEMMA VerdictSays ==
  ASSUME IsProc(proc),
         RecordNegative \/ Supersede \/ \E v \in Judgments : Judge(v)
  PROVE  /\ SameRound(proc', proc)
         /\ \E ev : /\ Wrote("verdictRecorded", Here, ev)
                    /\ proc'.at = "consult" => proc'.status = ev.verdict
                    /\ GoesOn(proc') => ev.verdict # "fail"
PROOF
<1>1. ASSUME NEW v, RecordVerdict(v), NEW p, IsProc(p), proc' = Ruled(p, v)
      PROVE  \E ev : /\ Wrote("verdictRecorded", Here, ev)
                     /\ proc'.at = "consult" => proc'.status = ev.verdict
                     /\ GoesOn(proc') => ev.verdict # "fail"
  <2> DEFINE ev == [type |-> "verdictRecorded", path |-> Here, verdict |-> v,
                    evidence |-> << >>]
  <2>1. Write(ev) /\ ev.type = "verdictRecorded" /\ ev.path = Here /\ ev.verdict = v
    BY <1>1 DEF RecordVerdict
  <2> HIDE DEF ev
  <2>2. proc'.at = "consult" => proc'.status = v
    BY <1>1, RuledHow
  <2>3. GoesOn(proc') => v = "pass"
    BY <1>1, RuledHow
  <2> QED BY <2>1, <2>2, <2>3 DEF Wrote
<1>2. CASE RecordNegative
  BY <1>1, <1>2, VerdictDoes DEF RecordNegative, Within
<1>3. CASE Supersede
  <2> DEFINE v == proc.status
  <2> DEFINE q == Leave(Seeded(proc, v), "judged", HalfOpen(proc))
  <2> DEFINE ev == [type |-> "verdictRecorded", path |-> Here, verdict |-> v,
                    evidence |-> << >>]
  <2>1. Write(ev) /\ ev.type = "verdictRecorded" /\ ev.path = Here /\ ev.verdict = v
    BY <1>3 DEF Supersede, RecordVerdict
  <2> HIDE DEF ev
  <2>2. q.at = "exit" /\ q.ctl = HalfOpen(proc)
    <3>1. IsProc(Seeded(proc, v))
      BY SeededIs DEF SameRound
    <3> QED BY <3>1, LeaveIs
  <2>3. proc' = q
    BY <1>3 DEF Supersede
  <2> HIDE DEF q
  <2>4. proc'.at # "consult" /\ GoesOn(proc') => v # "fail"
    BY <2>2, <2>3 DEF GoesOn, HalfOpen
  <2>5. proc'.at # "consult"
    BY <2>2, <2>3
  <2> QED BY <1>3, <2>1, <2>4, <2>5, VerdictDoes DEF Wrote, Within
<1>4. CASE \E v \in Judgments : Judge(v)
  <2>1. PICK v \in Judgments : Judge(v)
    BY <1>4
  <2> DEFINE p == [proc EXCEPT !.class = "none"]
  <2>2. IsProc(p)
    BY DEF IsProc, ProcFields
  <2>3. RecordVerdict(v) /\ proc' = Ruled(p, v)
    BY <2>1 DEF Judge
  <2> HIDE DEF p
  <2> QED BY <1>1, <1>4, <2>2, <2>3, VerdictDoes DEF Within
<1> QED BY <1>2, <1>3, <1>4

(* Where a settled outcome goes on to, when it releases the step.          *)
LEMMA DisposedHow ==
  ASSUME NEW p, IsProc(p), NEW step, NEW outcome
  PROVE  LET q == Disposed(p, step, outcome)
         IN  q.at # "consult" /\ (GoesOn(q) => ~step.asserts)
PROOF
<1> DEFINE s == [p EXCEPT !.at = "act", !.pos = @ + 1, !.tries = 0]
<1>1. s.at = "act"
  BY DEF IsProc, ProcFields
<1> HIDE DEF s
<1> DEFINE q == Disposed(p, step, outcome)
<1>2. \/ q = Goto(p, "judge") \/ (q = Leave(p, "judged", "continue") /\ ~step.asserts)
      \/ q = Leave(p, "aborted", "abort") \/ q = Goto(p, "act") \/ q = s
      \/ q = Goto(p, "confirm") \/ q = Negative(p, "unknown", "none")
      \/ q = Negative(p, "unknown", outcome) \/ q = Negative(p, "fail", outcome)
  <2>1. CASE outcome = "succeeded"
    BY <2>1 DEF Disposed
  <2>2. CASE outcome # "succeeded"
    BY <2>2 DEF Disposed, s
  <2> QED BY <2>1, <2>2
<1> HIDE DEF q
<1>3. q.at # "consult"
  BY <1>1, <1>2, GotoIs, LeaveIs, NegativeIs
<1>4. GoesOn(q) => ~step.asserts
  BY <1>1, <1>2, GotoIs, LeaveIs, NegativeIs DEF GoesOn
<1> QED BY <1>3, <1>4 DEF q

(* ... and so after a settlement: with assertions none releases the step.  *)
LEMMA SettleSays ==
  ASSUME IsProc(proc), Settle \/ AdoptTerminal
  PROVE  proc'.at # "consult" /\ (GoesOn(proc') => ~Flow[proc.i].asserts)
PROOF
<1> DEFINE again == [proc EXCEPT !.tries = 1]
<1>1. IsProc(again)
  BY DEF IsProc, ProcFields
<1> HIDE DEF again
<1>2. PICK p : IsProc(p) /\ proc' = Disposed(p, This, dev[proc.call].outcome)
  BY <1>1 DEF Settle, AdoptTerminal, again
<1> QED BY <1>2, DisposedHow DEF This

(* A consultation releases a step that did not fail, or by its handler.    *)
LEMMA ConsultSays ==
  ASSUME IsProc(proc), proc.i \in Steps, ConsultHook
  PROVE  /\ SameRound(proc', proc) /\ proc.at = "consult" /\ proc'.at # "consult"
         /\ GoesOn(proc') =>
              \/ UNCHANGED << log, ck >> /\ proc.status # "fail"
              \/ \E ev : Wrote("handlerTriggered", Here, ev) /\ ev.disposition = "continue"
PROOF
<1> DEFINE b == BindingFor(proc)
<1> DEFINE t == Triggers(proc.i, Hook(proc))
<1> DEFINE ev == [type |-> "handlerTriggered", path |-> Here, hook |-> b.hook,
                  trigger |-> t + 1, disposition |-> b.action]
<1>1. /\ ev.type = "handlerTriggered" /\ ev.path = Here /\ ev.disposition = b.action
  OBVIOUS
<1> HIDE DEF ev
<1> DEFINE stays == NotHandled(proc)
<1> DEFINE head == [ChainHead(proc) EXCEPT !.inForce = InForce(b)]
<1> DEFINE release == Leave(proc, "judged", "continue")
<1> DEFINE abort == Leave(proc, "aborted", "abort")
<1> DEFINE ask == Goto(proc, "ask")
<1>2. stays.at = "exit" /\ stays.ctl = HalfOpen(proc)
  BY LeaveIs DEF NotHandled
<1>3. head.at = "act"
  BY ChainHeadIs DEF SameRound, IsProc, ProcFields
<1>4. abort.at = "exit" /\ abort.exitAs = "aborted" /\ ask.at = "ask" /\ release.at = "exit"
  BY LeaveIs, GotoIs
<1>5. \/ proc' = stays /\ UNCHANGED << log, ck >>
      \/ /\ Matching(proc) # { } /\ Write(ev)
         /\ proc' = CASE b.action = "retry" -> head
                      [] b.action = "continue" -> release
                      [] b.action = "abort"    -> abort
                      [] b.action = "escalate" -> ask
  BY DEF ConsultHook, ev
<1> HIDE DEF stays, head, release, abort, ask, t
<1>6. ASSUME proc' = stays, UNCHANGED << log, ck >>
      PROVE  proc'.at # "consult" /\ (GoesOn(proc') => proc.status # "fail")
  BY <1>2, <1>6 DEF GoesOn, HalfOpen
<1>7. ASSUME Matching(proc) # { }, Write(ev),
             proc' = CASE b.action = "retry" -> head
                       [] b.action = "continue" -> release
                       [] b.action = "abort"    -> abort
                       [] b.action = "escalate" -> ask
      PROVE  /\ proc'.at # "consult"
             /\ GoesOn(proc') => Wrote("handlerTriggered", Here, ev) /\ ev.disposition = "continue"
  <2>1. b.action \in {"retry", "continue", "abort", "escalate"}
    BY <1>7, BindingIs DEF HandlerBindings
  <2> HIDE DEF b
  <2>2. proc' \in {head, abort, ask} \/ (b.action = "continue" /\ proc' = release)
    BY <1>7, <2>1
  <2>3. Wrote("handlerTriggered", Here, ev)
    BY <1>1, <1>7 DEF Wrote
  <2>4. CASE proc' \in {head, abort, ask}
    BY <1>3, <1>4, <2>4 DEF GoesOn
  <2>5. CASE b.action = "continue" /\ proc' = release
    BY <1>1, <1>4, <2>3, <2>5
  <2> QED BY <2>2, <2>4, <2>5
<1>8. SameRound(proc', proc) /\ proc.at = "consult"
  BY ConsultDoes DEF Within
<1> HIDE DEF b
<1> QED BY <1>5, <1>6, <1>7, <1>8

(* The facts harvested of a step not yet seen are those of the ledger.     *)
LEMMA HarvestIs ==
  ASSUME Ledger, NEW k \in Steps, \A n \in At("verdictRecorded", k) : n <= proc.base
  PROVE  RulingOn(Prefix, k) = Verdict(k)
PROOF
<1> DEFINE V == At("verdictRecorded", k)
<1> DEFINE b == proc.base
<1> DEFINE U == Entries(Prefix, "verdictRecorded", StepPath(k))
<1>1. IsSequence(log) /\ b \in 0 .. Len(log) /\ ShapedLedger
  BY LedgerIs
<1>2. U = { n \in V : n <= b }
  BY <1>1, EntriesOfPrefix DEF Prefix, At
<1>3. U = V
  BY <1>2
<1>4. IsSequence(Prefix) /\ \A n \in DOMAIN Prefix : Prefix[n] = log[n]
  BY <1>1, PartIs DEF Prefix
<1>5. RulingOn(Prefix, k) = IF U = { } THEN NoVerdict ELSE Prefix[Max(U)].verdict
  BY <1>4, RulingIs
<1>6. Verdict(k) = IF V = { } THEN NoVerdict ELSE log[Max(V)].verdict
  BY <1>1, RulingIs DEF Verdict, At
<1>7. U # { } => Max(U) \in DOMAIN Prefix
  <2>1. U \in SUBSET (1 .. Len(Prefix)) /\ Len(Prefix) \in Nat
        /\ \A n \in U : n \in DOMAIN Prefix
    BY <1>4, EntriesArePositions
  <2> HIDE DEF U
  <2> QED BY <2>1, MaxIs
<1> HIDE DEF U, V, b
<1> QED BY <1>3, <1>4, <1>5, <1>6, <1>7

(* A step entered at its ruling goes on as the verdict in force says.      *)
LEMMA EnterSays ==
  ASSUME IsProc(proc), EnterStep, proc'.at = "consult" \/ GoesOn(proc')
  PROVE  /\ UNCHANGED << log, ck >> /\ proc'.i = proc.i
         /\ proc'.at = "consult" => proc'.status = RulingOn(Prefix, proc.i)
         /\ GoesOn(proc') => RulingOn(Prefix, proc.i) = "pass"
PROOF
<1> DEFINE unresolved == This.badArgs /\ WorkHere = "none"
<1> DEFINE taken == [proc EXCEPT !.work = IF proc.site = proc.i THEN "none" ELSE @]
<1> DEFINE plain == [Negative(taken, "fail", "none") EXCEPT !.plain = TRUE]
<1> DEFINE cleared == [taken EXCEPT !.class = "none"]
<1>1. IsProc(taken) /\ taken.i = proc.i
  BY DEF IsProc, ProcFields
<1>2. IsProc(cleared)
  BY <1>1 DEF IsProc, ProcFields
<1>3. proc' = IF unresolved THEN plain ELSE AfterEntry(taken)
  BY DEF EnterStep
<1>4. ResumesAtRuling /\ OpenSpan(proc.i) /\ WorkHere = "none"
      /\ proc'.at # "record" /\ proc'.at \notin {"gate", "act", "confirm", "adoptSettle"}
  BY EnterStepDoes DEF GoesOn, ResumesAtRuling
<1> HIDE DEF taken
<1>5. Negative(taken, "fail", "none").at = "record" /\ IsProc(Negative(taken, "fail", "none"))
  BY <1>1, NegativeIs DEF SameRound
<1>6. plain.at = "record"
  BY <1>5 DEF IsProc, ProcFields
<1>7. proc' = AfterEntry(taken)
  <2> HIDE DEF plain, unresolved
  <2> QED BY <1>3, <1>4, <1>6
<1>8. proc' = Ruled(cleared, RulingOn(Prefix, proc.i))
  BY <1>1, <1>4, <1>7 DEF AfterEntry
<1> HIDE DEF cleared
<1> QED BY <1>2, <1>4, <1>8, RuledHow, EnterStepDoes

(* Consultations and releases are kept so by every step.                   *)
LEMMA StandingNext ==
  ASSUME Ledger, Unseen, Standing, [Next]_vars
  PROVE  Standing'
PROOF
<1>1. Shape /\ IsProc(proc) /\ ShapedProc /\ IsSequence(log)
  BY LedgerIs DEF Shape
<1>2. /\ proc.at = "consult" => RulingOn(log, proc.i) = proc.status
      /\ GoesOn(proc) => ReleasedIn(log, proc.i)
  BY DEF Standing, Verdict, Released
<1>0. ASSUME proc'.at = "consult" => RulingOn(log', proc'.i) = proc'.status,
             GoesOn(proc') => ReleasedIn(log', proc'.i)
      PROVE  Standing'
  BY <1>0 DEF Standing, Verdict, Released
<1>3. ASSUME proc'.at # "consult", ~GoesOn(proc')
      PROVE  Standing'
  BY <1>0, <1>3
<1>4. CASE StartRun \/ AdoptStep \/ Resume
  BY <1>1, <1>3, <1>4, StartDoes, AdoptDoes, ResumeDoes, WalkingIs DEF GoesOn
<1>5. CASE EnterStep
  <2>1. CASE proc'.at # "consult" /\ ~GoesOn(proc')
    BY <1>3, <2>1
  <2>2. CASE proc'.at = "consult" \/ GoesOn(proc')
    <3>1. /\ UNCHANGED << log, ck >> /\ proc'.i = proc.i
          /\ proc'.at = "consult" => proc'.status = RulingOn(Prefix, proc.i)
          /\ GoesOn(proc') => RulingOn(Prefix, proc.i) = "pass"
      BY <1>1, <1>5, <2>2, EnterSays
    <3>2. proc.at = "walk" /\ proc.i \in Steps
      BY <1>1, <1>5, EnterStepDoes, StepsAre DEF ShapedProc
    <3>3. RulingOn(Prefix, proc.i) = Verdict(proc.i)
      BY <3>2, HarvestIs DEF Unseen, Ahead
    <3>4. RulingOn(log', proc'.i) = RulingOn(Prefix, proc.i)
      BY <3>1, <3>3 DEF Verdict
    <3> QED BY <1>0, <3>1, <3>4 DEF ReleasedIn
  <2> QED BY <2>1, <2>2
<1>6. CASE GateSupervision
  BY <1>1, <1>3, <1>6, GateDoes DEF Leaves, GoesOn
<1>7. CASE WriteIntent \/ Dispatch
  BY <1>1, <1>3, <1>7, WriteIntentDoes, DispatchDoes DEF GoesOn
<1>8. CASE Settle \/ AdoptTerminal
  <2>1. proc'.at # "consult" /\ (GoesOn(proc') => ~Flow[proc.i].asserts)
    BY <1>1, <1>8, SettleSays
  <2>2. PICK ev : Wrote("actionSettled", Here, ev)
    BY <1>1, <1>8, SettleDoes
  <2>3. proc'.i = proc.i /\ proc.i \in Steps
    BY <1>1, <1>8, SettleDoes DEF Within, SameRound, ShapedProc, Inside
  <2>4. /\ Write(ev) /\ ev.type = "actionSettled" /\ ev.path = StepPath(proc.i)
    BY <2>2 DEF Wrote, Here
  <2>5. PICK k \in Steps : k = proc.i
    BY <2>3
  <2>6. /\ At("actionSettled", k)' = At("actionSettled", k) \union {Len(log) + 1}
        /\ At("verdictRecorded", k)' = At("verdictRecorded", k)
    BY <1>1, <2>4, <2>5, AtGrows
  <2>7. At("verdictRecorded", k) \in SUBSET (1 .. Len(log)) /\ Len(log) \in Nat
    BY <1>1, AtIs
  <2>8. /\ Len(log) + 1 \in Entries(log', "actionSettled", StepPath(k))
        /\ \A v \in Entries(log', "verdictRecorded", StepPath(k)) : v < Len(log) + 1
    BY <2>6, <2>7 DEF At
  <2> QED BY <1>0, <2>1, <2>3, <2>5, <2>8 DEF ReleasedIn
<1>9. CASE RecordNegative \/ Supersede \/ \E v \in Judgments : Judge(v)
  <2>1. SameRound(proc', proc)
    BY <1>1, <1>9, VerdictSays
  <2>2. PICK ev : /\ Wrote("verdictRecorded", Here, ev)
                  /\ proc'.at = "consult" => proc'.status = ev.verdict
                  /\ GoesOn(proc') => ev.verdict # "fail"
    BY <1>1, <1>9, VerdictSays
  <2>3. PICK k \in Steps : k = proc.i /\ proc'.i = k
    BY <1>1, <1>9, <2>1, VerdictDoes DEF SameRound, ShapedProc, Inside
  <2>4. Writes(ev) /\ ev.type = "verdictRecorded"
    BY <2>2, WroteWrites DEF Wrote
  <2>5. Verdict(k)' = ev.verdict
    BY <2>3, <2>4, VerdictMoves
  <2>6. RulingOn(log', k) = ev.verdict
    BY <2>5 DEF Verdict
  <2> QED BY <1>0, <2>2, <2>3, <2>6 DEF ReleasedIn
<1>10. CASE RetryInForce
  BY <1>1, <1>3, <1>10, RetryDoes DEF GoesOn
<1>11. CASE ContinueEscalation
  BY <1>1, <1>3, <1>11, ContinueDoes, AskedRulings, LedgerIs DEF Leaves, GoesOn
<1>12. CASE ConsultHook
  <2>1. PICK k \in Steps : k = proc.i
    BY <1>1, <1>12 DEF ConsultHook, ShapedProc, Inside
  <2>2. /\ SameRound(proc', proc) /\ proc.at = "consult" /\ proc'.at # "consult"
        /\ GoesOn(proc') =>
             \/ UNCHANGED << log, ck >> /\ proc.status # "fail"
             \/ \E ev : Wrote("handlerTriggered", Here, ev) /\ ev.disposition = "continue"
    BY <1>1, <1>12, <2>1, ConsultSays
  <2>3. proc'.i = k
    BY <2>1, <2>2 DEF SameRound
  <2>4. ASSUME UNCHANGED << log, ck >>, proc.status # "fail"
        PROVE  ReleasedIn(log', k)
    BY <1>2, <2>1, <2>2, <2>4 DEF ReleasedIn
  <2>5. ASSUME NEW ev, Wrote("handlerTriggered", Here, ev), ev.disposition = "continue"
        PROVE  ReleasedIn(log', k)
    <3>1. Write(ev) /\ ev.type = "handlerTriggered" /\ ev.path = StepPath(k)
      BY <2>1, <2>5 DEF Wrote, Here
    <3>2. Len(log) + 1 \in At("handlerTriggered", k)'
      BY <1>1, <3>1, AtGrows
    <3>3. log'[Len(log) + 1] = ev
      BY <1>1, <3>1, Grows
    <3> QED BY <2>5, <3>2, <3>3 DEF ReleasedIn, At
  <2> QED BY <1>0, <2>2, <2>3, <2>4, <2>5
<1>13. CASE AskEscalation \/ AskAdjudication
  BY <1>1, <1>3, <1>13, AskDoes, AdjudicateDoes DEF GoesOn
<1>14. CASE ExitStep
  BY <1>1, <1>3, <1>14, ExitDoes DEF ExitStep, ShapedProc, Leaving, GoesOn
<1>15. CASE RecordBlocked
  BY <1>1, <1>3, <1>15, PairsDoes DEF IsProc, ProcFields, GoesOn
<1>16. CASE FinishRun \/ SuspendRun \/ Crash
  BY <1>3, <1>16, FinishDoes, SuspendDoes, DownIs DEF Crash, GoesOn
<1>17. CASE StopRequested \/ NoTerminal
  BY <1>1, <1>3, <1>17, DisruptionDoes DEF GoesOn
<1>18. CASE Environment \/ UNCHANGED vars
  <2>1. UNCHANGED proc
    BY <1>18 DEF Environment, Respond, DeviceFinishes, DeadlinePasses, vars
  <2>2. CASE UNCHANGED << log, ck >>
    BY <1>0, <1>2, <2>1, <2>2
  <2>3. ASSUME NEW ev, Writes(ev), proc.at \in Inside
        PROVE  Standing'
    <3>1. PICK k \in Steps : k = proc.i
      BY <1>1, <2>3 DEF ShapedProc
    <3>2. ev.type = "humanResponded"
      <4>0. log' # log
        BY <2>3, WriteIs, Grows
      <4>1. PICK d \in Answers : Respond(d)
        BY <1>18, <4>0
           DEF Environment, DeviceFinishes, DeadlinePasses, vars
      <4>2. PICK e : Wrote("humanResponded", ck.pending.path, e)
        BY <4>1, RespondDoes
      <4>3. e = ev
        BY <1>1, <2>3, <4>2, WriteIs, Grows DEF Wrote
      <4> QED BY <4>2, <4>3 DEF Wrote
    <3>3. Verdict(k)' = Verdict(k) /\ (Released(k) => Released(k)')
      BY <2>3, <3>2, VerdictMoves, ReleasedStays
    <3> QED BY <1>0, <1>2, <2>1, <3>1, <3>3 DEF Verdict, Released
  <2>4. CASE proc.at \notin Inside
    BY <1>3, <2>1, <2>4 DEF Inside, GoesOn
  <2> QED BY <2>2, <2>3, <2>4, StepWrites
<1> QED BY <1>4, <1>5, <1>6, <1>7, <1>8, <1>9, <1>10, <1>11, <1>12, <1>13, <1>14, <1>15,
           <1>16, <1>17, <1>18 DEF Next, Engine, Disruption

-----------------------------------------------------------------------------
(* A step that left after it halted the run did not go on to the next.     *)
LEMMA ExitHalts ==
  ASSUME Ledger, Standing, NEW ev, Writes(ev), ev.type = "stepExited",
         proc.at = "exit", NEW n \in Nat, n = Len(log) + 1, HaltingExit(n)'
  PROVE  proc.ctl # "continue"
PROOF
<1> SUFFICES ASSUME proc.ctl = "continue"
             PROVE  FALSE
  OBVIOUS
<1>1. /\ Write(ev) /\ IsSequence(log) /\ Len(log) \in Nat
      /\ log'[n] = ev
      /\ \A m \in DOMAIN log : log'[m] = log[m]
  BY WriteIs, Grows
<1>2. PICK i \in Steps : InStep(ev, i)
  BY WriteIs
<1>3. ev.path = StepPath(i) /\ i = proc.i /\ ev.state = proc.exitAs
  BY <1>2 DEF InStep, Enters, Intends, Settles, Rules, Triggered, Exits
<1>4. ev.state = "judged" /\ GoesOn(proc)
  BY <1>3, LedgerIs DEF Shape, ShapedProc, Leaving, GoesOn
<1>5. Released(i)
  BY <1>3, <1>4 DEF Standing
<1> DEFINE V == At("verdictRecorded", i)
<1> DEFINE S == At("actionSettled", i)
<1> DEFINE T == At("handlerTriggered", i)
<1>6. \A type : Before(At(type, i), n) = At(type, i)
  BY <1>1, BeforeIs DEF At
<1>7. /\ Before(At("verdictRecorded", i), n)' = V
      /\ Before(At("actionSettled", i), n)' = S
      /\ Before(At("handlerTriggered", i), n)' = T
  <2>1. n \in 1 .. Len(log) + 1
    BY <1>1
  <2>2. \A type : Before(At(type, i), n)' = Before(At(type, i), n)
    BY <1>1, <2>1, BeforeStays
  <2> QED BY <1>6, <2>2
<1>8. /\ \A m \in V : m \in Nat /\ log'[m] = log[m]
      /\ \A m \in T : log'[m] = log[m]
      /\ V \in SUBSET (1 .. Len(log)) /\ S \in SUBSET (1 .. Len(log))
  BY <1>1, AtIs
<1>9. StepAt(log'[n].path) = i
  BY <1>1, <1>3, StepAtIs
<1>10. /\ V # { } /\ log'[Max(V)].verdict = "fail"
       /\ Flow[i].asserts \/ ~Overtaken(n)'
       /\ \A t \in T : log'[t].disposition # "continue"
  BY <1>1, <1>4, <1>7, <1>9 DEF HaltingExit
<1>11. Overtaken(n)' <=> V # { } /\ S # { } /\ Max(V) < Max(S)
  BY <1>1, <1>4, <1>7, <1>9 DEF Overtaken
<1>12. Verdict(i) = IF V = { } THEN NoVerdict ELSE log[Max(V)].verdict
  BY <1>1, RulingIs DEF Verdict, At
<1>13. \/ Verdict(i) # "fail"
       \/ \E t \in T : log[t].disposition = "continue"
       \/ ~Flow[i].asserts /\ \E s \in S : \A v \in V : v < s
  BY <1>5 DEF Released, ReleasedIn, Verdict, At
<1> HIDE DEF V, S, T
<1>14. Max(V) \in V
  BY <1>1, <1>8, <1>10, MaxIs
<1>15. Verdict(i) = "fail" /\ ~ \E t \in T : log[t].disposition = "continue"
  BY <1>8, <1>10, <1>12, <1>14
<1>16. PICK s \in S : \A v \in V : v < s
  BY <1>13, <1>15
<1>17. Max(S) \in S /\ s <= Max(S)
  BY <1>1, <1>8, <1>16, MaxIs
<1>18. Max(V) < Max(S)
  <2> DEFINE x == Max(V)
  <2> DEFINE y == Max(S)
  <2>1. x \in Nat /\ y \in Nat /\ s \in Nat /\ x < s /\ s <= y
    <3>0. (\A m \in V : m \in Nat) /\ (\A m \in S : m \in Nat)
      BY <1>1, <1>8
    <3>1. x \in Nat /\ y \in Nat /\ s \in Nat
      BY <1>14, <1>16, <1>17, <3>0
    <3>2. x < s /\ s <= y
      BY <1>14, <1>16, <1>17
    <3> QED BY <3>1, <3>2
  <2> HIDE DEF x, y
  <2>2. x < y
    BY <2>1
  <2> QED BY <2>2 DEF x, y
<1> QED BY <1>10, <1>11, <1>13, <1>15, <1>16, <1>18

(* Only the exit of a step writes one from there.                          *)
LEMMA ExitComes ==
  ASSUME Ledger, [Next]_vars, NEW ev, Writes(ev), ev.type = "stepExited", proc.at = "exit"
  PROVE  ExitStep
PROOF
<1>1. /\ IsSequence(log) /\ log' # log
      /\ \A e : Write(e) => e = ev
  BY WriteIs, Grows
<1>2. ~Crash /\ ~UNCHANGED vars /\ ~DeadlinePasses
      /\ ~ \E c \in Calls, o \in Outcomes : DeviceFinishes(c, o)
  BY <1>1 DEF Crash, vars, DeadlinePasses, DeviceFinishes
<1>3. ~ \E d \in Answers : Respond(d)
  BY <1>1, RespondDoes DEF Wrote
<1> QED BY <1>2, <1>3
        DEF Next, Engine, Disruption, Environment, StartRun, AdoptStep, EnterStep,
            GateSupervision, WriteIntent, Dispatch, Settle, AdoptTerminal, Judge,
            RecordNegative, RetryInForce, ContinueEscalation, ConsultHook, AskEscalation,
            Supersede, RecordBlocked, FinishRun, SuspendRun, AskAdjudication,
            StopRequested, NoTerminal, Resume

(* A process that records what is left, or ends, only goes down.           *)
Ends == {"pairs", "finish", "down"}
(* ... unless another segment begins.                                       *)
LEMMA EndsStay ==
  ASSUME Ledger, [Next]_vars, proc.at \in Ends
  PROVE  \/ proc'.at \in Ends
         \/ \E ev : Writes(ev) /\ ev.type \in {"runStarted", "runResumed"}
PROOF
<1>1. IsProc(proc)
  BY LedgerIs
<1>2. CASE RecordBlocked
  BY <1>1, <1>2, PairsDoes DEF IsProc, ProcFields, Ends
<1>3. CASE FinishRun \/ SuspendRun \/ Crash
  BY <1>3, FinishDoes, SuspendDoes, DownIs DEF Crash, Ends
<1>4. CASE StartRun \/ Resume
  BY <1>4, StartDoes, ResumeDoes, WroteWrites DEF Wrote
<1>5. CASE Environment \/ UNCHANGED vars
  BY <1>5 DEF Environment, Respond, DeviceFinishes, DeadlinePasses, vars
<1> QED BY <1>2, <1>3, <1>4, <1>5
        DEF Next, Engine, Disruption, AdoptStep, EnterStep, GateSupervision, WriteIntent,
            Dispatch, Settle, AdoptTerminal, Judge, RecordNegative, RetryInForce,
            ContinueEscalation, ConsultHook, AskEscalation, Supersede, ExitStep,
            AskAdjudication, StopRequested, NoTerminal, Ends

(* Since a halting exit nothing but its record was written, or the process *)
(* died.                                                                   *)
Quiet(n) ==
  \A m \in n + 1 .. Len(log) :
    log[m].type \notin {"runResumed", "runSuspended", "actionIntent"}
Halts ==
  \A n \in DOMAIN log : HaltingExit(n) =>
    DiedBetween(n, Len(log) + 1) \/ (proc.at \in Ends /\ Quiet(n))

(* A resume that follows no suspension follows a death.                    *)
LEMMA Dies ==
  ASSUME Ledger, NEW ev, Writes(ev), ev.type = "runResumed",
         NEW n \in DOMAIN log, log[n].type = "stepExited", Quiet(n),
         NEW b \in Nat, b = Len(log) + 2
  PROVE  DiedBetween(n, b)'
PROOF
<1>1. /\ IsSequence(log) /\ Len(log) \in Nat /\ DOMAIN log = 1 .. Len(log)
      /\ \A m \in DOMAIN log : log'[m] = log[m]
      /\ log'[Len(log) + 1] = ev
  BY WriteIs, Grows
<1> DEFINE M == { m \in 1 .. Len(log) : log[m].type # "humanResponded" }
<1>2. n \in M /\ M \in SUBSET (1 .. Len(log)) /\ n \in Nat
  BY <1>1
<1>3. Max(M) \in M /\ n <= Max(M)
  <2> HIDE DEF M
  <2> QED BY <1>1, <1>2, MaxIs
<1>4. log[Max(M)].type # "runSuspended"
  <2> DEFINE x == Max(M)
  <2>1. x = n \/ x \in n + 1 .. Len(log)
    BY <1>1, <1>2, <1>3
  <2> HIDE DEF x, M
  <2>2. log[x].type # "runSuspended"
    BY <2>1 DEF Quiet
  <2> QED BY <2>2 DEF x
<1>0. PICK r \in Nat : r = Len(log) + 1
  BY <1>1
<1> DEFINE N == { m \in 1 .. r - 1 : log'[m].type # "humanResponded" }
<1>5. N = M
  BY <1>0, <1>1
<1>6. log'[Max(N)].type # "runSuspended" /\ log'[r].type = "runResumed"
  BY <1>0, <1>1, <1>3, <1>4, <1>5
<1>7. r \in n + 1 .. b - 1
  BY <1>0, <1>1, <1>2
<1> QED BY <1>6, <1>7 DEF DiedBetween

(* Every step keeps halts standing.                                        *)
LEMMA HaltsNext ==
  ASSUME Ledger, Opened, Standing, Halts, [Next]_vars
  PROVE  Halts'
PROOF
<1>1. CASE UNCHANGED << log, ck >>
  <2>1. \A ev : ~Writes(ev)
    BY <1>1, WriteIs, Grows
  <2>2. proc.at \in Ends => proc'.at \in Ends
    BY <2>1, EndsStay
  <2>3. \A n \in DOMAIN log : /\ HaltingExit(n)' => HaltingExit(n)
                              /\ \A b : DiedBetween(n, b) => DiedBetween(n, b)'
                              /\ Quiet(n) => Quiet(n)'
    BY <1>1 DEF HaltingExit, Overtaken, At, Before, DiedBetween, Quiet
  <2> QED BY <1>1, <2>2, <2>3 DEF Halts
<1>2. ASSUME NEW ev, Writes(ev)
      PROVE  Halts'
  <2>1. /\ Write(ev) /\ IsSequence(log) /\ Len(log) \in Nat
        /\ DOMAIN log = 1 .. Len(log) /\ DOMAIN log' = 1 .. Len(log) + 1
        /\ Len(log') = Len(log) + 1
        /\ \A m \in DOMAIN log : log'[m] = log[m]
        /\ log'[Len(log) + 1] = ev
    BY <1>2, WriteIs, Grows
  <2>0. PICK b \in Nat : b = Len(log) + 2
    BY <2>1
  <2> SUFFICES ASSUME NEW n \in DOMAIN log', HaltingExit(n)'
               PROVE  DiedBetween(n, b)' \/ (proc'.at \in Ends /\ Quiet(n)')
    <3>1. Len(log') + 1 = b
      BY <2>0, <2>1
    <3> QED BY <3>1 DEF Halts, DiedBetween
  <2>2. CASE n \in DOMAIN log
    <3>1. HaltingExit(n)
      BY <2>1, <2>2, HaltingStays
    <3>2. CASE DiedBetween(n, Len(log) + 1)
      <4>1. Len(log) + 1 \in 1 .. Len(log) + 1 /\ Len(log) + 1 <= b
        BY <2>0, <2>1
      <4> QED BY <2>1, <2>2, <3>2, <4>1, DiedStays
    <3>3. CASE proc.at \in Ends /\ Quiet(n)
      <4>1. log[n].type = "stepExited" /\ log # << >>
        BY <2>1, <2>2, <3>1, SequenceIs DEF HaltingExit
      <4>2. CASE ev.type = "runResumed"
        BY <1>2, <2>0, <2>2, <3>3, <4>1, <4>2, Dies
      <4>3. CASE ev.type # "runResumed"
        <5>1. ev.type \notin {"runStarted", "runResumed", "runSuspended", "actionIntent"}
          BY <1>2, <3>3, <4>1, <4>3
             DEF Writes, Mark, Asks, Responds, InStep, Enters, Intends, Settles, Rules,
                 Triggered, Exits, Ends
        <5>2. proc'.at \in Ends
          <6>1. \A e : Writes(e) => e = ev
            BY <1>2, WriteIs, Grows
          <6> QED BY <3>3, <5>1, <6>1, EndsStay
        <5>3. Quiet(n)'
          BY <2>1, <2>2, <3>3, <5>1 DEF Quiet
        <5> QED BY <5>2, <5>3
      <4> QED BY <4>2, <4>3
    <3> QED BY <2>2, <3>1, <3>2, <3>3 DEF Halts
  <2>3. CASE n = Len(log) + 1
    <3>1. ev.type = "stepExited" /\ ev.state # "blocked"
      BY <2>1, <2>3 DEF HaltingExit
    <3>2. proc.at = "exit"
      <4>1. PICK i \in Steps : InStep(ev, i)
        BY <1>2, <3>1, WriteIs
      <4> QED BY <3>1, <4>1 DEF InStep, Enters, Intends, Settles, Rules, Triggered, Exits
    <3>3. ExitStep
      BY <1>2, <3>1, <3>2, ExitComes
    <3>4. proc.ctl # "continue"
      <4>1. n \in Nat
        BY <2>1, <2>3
      <4> QED BY <1>2, <2>3, <3>1, <3>2, <4>1, ExitHalts
    <3>5. proc'.at \in Ends
      BY <3>2, <3>3, <3>4, ExitDoes, LedgerIs DEF Shape, ShapedProc, Leaving, Ends
    <3>6. Quiet(n)'
      BY <2>1, <2>3 DEF Quiet
    <3> QED BY <3>5, <3>6
  <2> QED BY <2>1, <2>2, <2>3
<1> QED BY <1>1, <1>2, StepWrites

(* No intent is written after a halting exit unless a process died.        *)
LEMMA HaltLossNext ==
  ASSUME Ledger, Opened, Halts, OnlyDeathLosesHalt, [Next]_vars
  PROVE  OnlyDeathLosesHalt'
PROOF
<1>1. CASE UNCHANGED << log, ck >>
  <2>1. \A n : /\ HaltingExit(n)' => HaltingExit(n)
              /\ \A b : DiedBetween(n, b) => DiedBetween(n, b)'
    BY <1>1 DEF HaltingExit, Overtaken, At, Before, DiedBetween
  <2> QED BY <1>1, <2>1 DEF OnlyDeathLosesHalt, Intents
<1>2. ASSUME NEW ev, Writes(ev)
      PROVE  OnlyDeathLosesHalt'
  <2>1. /\ Write(ev) /\ IsSequence(log) /\ Len(log) \in Nat
        /\ DOMAIN log = 1 .. Len(log) /\ DOMAIN log' = 1 .. Len(log) + 1
        /\ \A m \in DOMAIN log : log'[m] = log[m]
        /\ log'[Len(log) + 1] = ev
    BY <1>2, WriteIs, Grows
  <2> SUFFICES ASSUME NEW n \in DOMAIN log', HaltingExit(n)',
                      NEW m \in Intents', m > n
               PROVE  DiedBetween(n, m)'
    BY DEF OnlyDeathLosesHalt
  <2>2. m \in 1 .. Len(log) + 1 /\ log'[m].type = "actionIntent" /\ n \in DOMAIN log
        /\ m \in Nat /\ m <= m
    BY <2>1 DEF Intents
  <2>3. HaltingExit(n)
    BY <2>1, <2>2, HaltingStays
  <2>4. DiedBetween(n, m)
    <3>1. CASE m \in DOMAIN log
      <4>1. m \in Intents
        BY <2>1, <2>2, <3>1 DEF Intents
      <4> QED BY <2>2, <2>3, <4>1 DEF OnlyDeathLosesHalt
    <3>2. CASE m = Len(log) + 1
      <4>1. proc.at = "act"
        BY <1>2, <2>1, <2>2, <3>2
           DEF Writes, Mark, Asks, Responds, InStep, Enters, Intends, Settles, Rules,
               Triggered, Exits
      <4> QED BY <2>2, <2>3, <3>2, <4>1 DEF Halts, Ends
    <3> QED BY <2>1, <2>2, <3>1, <3>2
  <2> QED BY <2>1, <2>2, <2>4, DiedStays
<1> QED BY <1>1, <1>2, StepWrites

(* Once a step failed and was not released, or aborted, only a process     *)
(* that dies after its exit lets another act be dispatched: no suspension, *)
(* answer or resume loses the halt.                                        *)
THEOREM HaltsAreKept == Spec => []OnlyDeathLosesHalt
PROOF
<1> DEFINE Inv == Unseen /\ Standing /\ Opened /\ Halts /\ OnlyDeathLosesHalt
<1>1. Init => Inv
  <2> SUFFICES ASSUME Init
               PROVE  Inv
    OBVIOUS
  <2>1. log = << >> /\ DOMAIN log = { } /\ proc.at = "down"
    BY EmptyIs, DownIs DEF Init
  <2> QED BY <2>1 DEF Unseen, Ahead, Standing, GoesOn, Opened, Halts, OnlyDeathLosesHalt, Inside
<1>2. Ledger /\ Inv /\ [Next]_vars => Inv'
  BY AheadNext, StandingNext, OpenedNext, HaltsNext, HaltLossNext DEF Unseen
<1>3. Inv => OnlyDeathLosesHalt
  OBVIOUS
<1> HIDE DEF Inv
<1> QED BY <1>1, <1>2, <1>3, LedgerHolds, PTL DEF Spec

-----------------------------------------------------------------------------
(* The step of an entry is found by the entry's path.                      *)
LEMMA StepAtOf ==
  ASSUME NEW i \in Steps, NEW path, SameInstance(path, StepPath(i))
  PROVE  StepAt(path) = i
PROOF
<1>1. \A j \in Steps : SameInstance(StepPath(j), path)
                         <=> SameInstance(StepPath(j), StepPath(i))
  BY StepPathIs DEF SameInstance, SitePrefix, SameSite
<1>2. \A j \in Steps : SameInstance(StepPath(j), path) <=> j = i
  BY <1>1, SameStep
<1> QED BY <1>2 DEF StepAt, Steps

(* An exit that a settlement overtook keeps that.                          *)
LEMMA OvertakenStays ==
  ASSUME IsSequence(log), NEW ev, Write(ev), NEW n \in DOMAIN log
  PROVE  Overtaken(n)' <=> Overtaken(n)
PROOF
<1> DEFINE i == StepAt(log[n].path)
<1> DEFINE V == Before(At("verdictRecorded", i), n)
<1> DEFINE S == Before(At("actionSettled", i), n)
<1>1. log'[n] = log[n] /\ n \in 1 .. Len(log) + 1 /\ Len(log) \in Nat
  BY Grows
<1>2. i' = i
  BY <1>1 DEF StepAt
<1>3. V' = V /\ S' = S
  <2>1. \A type, k : Before(At(type, k), n)' = Before(At(type, k), n)
    BY <1>1, BeforeStays
  <2> QED BY <1>2, <2>1
<1>4. Overtaken(n) <=> (log[n].state = "judged" /\ V # { } /\ S # { } /\ Max(V) < Max(S))
  BY DEF Overtaken
<1>5. Overtaken(n)' <=>
        (log'[n].state = "judged" /\ V' # { } /\ S' # { } /\ Max(V') < Max(S'))
  BY DEF Overtaken
<1> HIDE DEF V, S, i
<1> QED BY <1>1, <1>3, <1>4, <1>5

-----------------------------------------------------------------------------
(* A suspension is the last thing the runner said: answers do not count.   *)
Said(h) == { m \in DOMAIN h : h[m].type # "humanResponded" }
Suspended == log # << >> /\ log[Max(Said(log))].type = "runSuspended"

(* An answer leaves that, any other entry decides it.                      *)
LEMMA SuspendedMoves ==
  ASSUME Ledger, Opened, NEW ev, Writes(ev)
  PROVE  Suspended' <=> IF ev.type = "humanResponded" THEN Suspended
                        ELSE ev.type = "runSuspended"
PROOF
<1>1. /\ IsSequence(log) /\ Len(log) \in Nat /\ DOMAIN log = 1 .. Len(log)
      /\ DOMAIN log' = 1 .. Len(log) + 1 /\ log' # << >>
      /\ \A m \in DOMAIN log : log'[m] = log[m]
      /\ log'[Len(log) + 1] = ev
  BY WriteIs, Grows
<1> DEFINE M == Said(log)
<1>2. M \in SUBSET (1 .. Len(log)) /\ \A m \in M : m \in DOMAIN log
  BY <1>1 DEF Said
<1>3. CASE ev.type = "humanResponded"
  <2>1. Said(log') = M
    BY <1>1, <1>3 DEF Said
  <2>2. log # << >> /\ 1 \in M
    <3>1. log # << >>
      BY <1>3, WriteIs, LedgerIs DEF ShapedLedger
    <3> QED BY <1>1, <3>1, SequenceIs DEF Said, Opened
  <2> HIDE DEF M
  <2>3. Max(M) \in M
    BY <1>1, <1>2, <2>2, MaxIs
  <2>4. log'[Max(M)] = log[Max(M)]
    BY <1>1, <1>2, <2>3
  <2>5. Suspended' <=> log'[Max(M)].type = "runSuspended"
    BY <1>1, <2>1 DEF Suspended
  <2>6. Suspended <=> log[Max(M)].type = "runSuspended"
    BY <2>2 DEF Suspended, M
  <2> QED BY <1>3, <2>4, <2>5, <2>6
<1>4. CASE ev.type # "humanResponded"
  <2>1. Said(log') = M \union {Len(log) + 1}
    BY <1>1, <1>4 DEF Said
  <2> HIDE DEF M
  <2>2. Max(M \union {Len(log) + 1}) = Len(log) + 1
    BY <1>1, <1>2, MaxGrows
  <2>3. Suspended' <=> log'[Max(Said(log'))].type = "runSuspended"
    BY <1>1 DEF Suspended
  <2> QED BY <1>1, <1>4, <2>1, <2>2, <2>3
<1> QED BY <1>3, <1>4

(* While a process runs, no suspension is the last word.                   *)
Working == proc.at # "down" => ~Suspended

(* Every step keeps that: who suspends the run goes down.                  *)
LEMMA WorkingNext ==
  ASSUME Ledger, Opened, Working, [Next]_vars
  PROVE  Working'
PROOF
<1>1. CASE UNCHANGED << log, ck >>
  <2>1. \A ev : ~Write(ev)
    BY <1>1, LedgerIs, Grows
  <2>2. proc.at = "down" => UNCHANGED proc
    BY <2>1, DownRests
  <2>3. Suspended' <=> Suspended
    BY <1>1 DEF Suspended
  <2> QED BY <2>2, <2>3 DEF Working
<1>2. ASSUME NEW ev, Writes(ev)
      PROVE  Working'
  <2>1. CASE ev.type = "humanResponded"
    <3>1. UNCHANGED proc
      BY <1>2, <2>1 DEF Writes, Mark, Asks, Responds, InStep, Enters, Intends, Settles,
                        Rules, Triggered, Exits
    <3> QED BY <1>2, <2>1, <3>1, SuspendedMoves DEF Working
  <2>2. CASE ev.type = "runSuspended"
    <3>1. proc' = Down
      BY <1>2, <2>2 DEF Writes, Mark, Asks, Responds, InStep, Enters, Intends, Settles,
                        Rules, Triggered, Exits
    <3> QED BY <3>1, DownIs DEF Working
  <2>3. CASE ev.type \notin {"humanResponded", "runSuspended"}
    BY <1>2, <2>3, SuspendedMoves DEF Working
  <2> QED BY <2>1, <2>2, <2>3
<1> QED BY <1>1, <1>2, StepWrites

(* A resume whose run was not suspended follows a death.                   *)
LEMMA ResumeDies ==
  ASSUME Ledger, Opened, NEW ev, Writes(ev), ev.type = "runResumed", ~Suspended,
         NEW a \in DOMAIN log, NEW b \in Nat, b = Len(log) + 2
  PROVE  DiedBetween(a, b)'
PROOF
<1>1. /\ IsSequence(log) /\ Len(log) \in Nat /\ DOMAIN log = 1 .. Len(log)
      /\ \A m \in DOMAIN log : log'[m] = log[m]
      /\ log'[Len(log) + 1] = ev
  BY WriteIs, Grows
<1>2. PICK r \in Nat : r = Len(log) + 1
  BY <1>1
<1> DEFINE M == Said(log)
<1> DEFINE N == { m \in 1 .. r - 1 : log'[m].type # "humanResponded" }
<1>3. N = M
  BY <1>1, <1>2 DEF Said
<1>4. M \in SUBSET (1 .. Len(log)) /\ \A m \in M : m \in DOMAIN log
  BY <1>1 DEF Said
<1>5. log # << >> /\ 1 \in M
  <2>1. log # << >> /\ 1 \in DOMAIN log
    BY <1>1, SequenceIs
  <2> QED BY <2>1 DEF Said, Opened
<1>6. log[Max(M)].type # "runSuspended"
  BY <1>5 DEF Suspended
<1> HIDE DEF M
<1>7. log'[Max(M)] = log[Max(M)]
  BY <1>1, <1>4, <1>5, MaxIs
<1>8. log'[r].type = "runResumed" /\ log'[Max(N)].type # "runSuspended"
  BY <1>1, <1>2, <1>3, <1>6, <1>7
<1>9. r \in a + 1 .. b - 1
  BY <1>1, <1>2
<1> QED BY <1>8, <1>9 DEF DiedBetween

-----------------------------------------------------------------------------
(* A process is on its way from an act of step k to its verdict, or to an  *)
(* abort of it.                                                            *)
Rounds == {"act", "dispatch", "wait", "adoptSettle", "judge", "confirm", "record"}
InRound(p, k) ==
  p.i = k /\ (p.at \in Rounds \/ (p.at = "exit" /\ p.exitAs = "aborted"))

(* Such a round of a step with assertions goes on, records a verdict, ends *)
(* the step, or is cut off: by a death, or for want of a terminal.         *)
LEMMA RoundMoves ==
  ASSUME Ledger, [Next]_vars, NEW k \in Steps, InRound(proc, k), Flow[k].asserts
  PROVE  \/ InRound(proc', k)
         \/ Adds("verdictRecorded") \/ Adds("stepExited")
         \/ /\ UNCHANGED << log, ck >>
            /\ proc'.at = "down" \/ (proc'.at = "suspend" /\ proc.at \in {"dispatch", "wait"})
PROOF
<1>1. IsProc(proc) /\ ShapedProc /\ proc.i = k /\ proc.at \in Rounds \union {"exit"}
  BY LedgerIs DEF Shape, InRound
<1>2. CASE WriteIntent
  BY <1>1, <1>2, WriteIntentDoes DEF InRound, Rounds
<1>3. CASE Dispatch
  BY <1>1, <1>3, DispatchDoes DEF InRound, Rounds, Within, SameRound
<1>4. CASE Settle \/ AdoptTerminal
  <2>1. /\ SameRound(proc', proc)
        /\ proc'.at \in {"judge", "act", "confirm", "record"}
             \/ Leaves("judged", {"continue"}) \/ Leaves("aborted", {"abort"})
    BY <1>1, <1>4, SettleDoes DEF Within
  <2>2. ~Leaves("judged", {"continue"})
    BY <1>1, <1>4, SettleSays DEF Leaves, GoesOn
  <2> QED BY <1>1, <2>1, <2>2 DEF SameRound, Leaves, InRound, Rounds
<1>5. CASE RecordNegative \/ Supersede \/ \E v \in Judgments : Judge(v)
  <2>1. PICK ev : Wrote("verdictRecorded", Here, ev)
    BY <1>1, <1>5, VerdictDoes
  <2> QED BY <2>1, WroteWrites DEF Wrote, Adds
<1>6. CASE ExitStep
  <2>1. proc.ctl \in {"continue", "halt", "abort"}
    BY <1>1, <1>6 DEF ExitStep, ShapedProc, Leaving
  <2>2. PICK ev : Wrote("stepExited", Here, ev)
    BY <1>1, <1>6, <2>1, ExitDoes
  <2> QED BY <2>2, WroteWrites DEF Wrote, Adds
<1>7. CASE NoTerminal
  <2>1. proc.at \in {"dispatch", "wait"} /\ UNCHANGED << log, ck >>
    BY <1>7 DEF NoTerminal
  <2>2. proc'.at = "suspend"
    BY <1>1, <1>7, DisruptionDoes
  <2> QED BY <2>1, <2>2
<1>8. CASE Crash
  BY <1>8, DownIs DEF Crash
<1>9. CASE Environment \/ UNCHANGED vars
  <2>1. UNCHANGED proc
    BY <1>9 DEF Environment, Respond, DeviceFinishes, DeadlinePasses, vars
  <2> QED BY <2>1
<1> QED BY <1>1, <1>2, <1>3, <1>4, <1>5, <1>6, <1>7, <1>8, <1>9
        DEF Next, Engine, Disruption, StartRun, AdoptStep, EnterStep, GateSupervision,
            RetryInForce, ContinueEscalation, ConsultHook, AskEscalation, RecordBlocked,
            FinishRun, SuspendRun, AskAdjudication, StopRequested, Resume, Rounds

-----------------------------------------------------------------------------
(* The pending intent is of step k, whose span was opened with arguments.  *)
PendsAt(k) ==
  /\ ck.frontier.intent # NoIntent /\ dev[ck.frontier.intent].step = k
  /\ ~NullSpan(k)

(* ... and then that step is open, and no earlier one is left to do.       *)
LEMMA PendsAtOpen ==
  ASSUME Ledger, Framed, NEW k \in Steps, PendsAt(k)
  PROVE  /\ OpenIn(ck, k) /\ proc.at # "pairs" /\ log # << >>
         /\ \A i \in Steps : /\ ~AdoptableIn(ck, i)
                             /\ \A m \in Steps : m < i => AdoptableIn(ck, m)
                             => i = k
PROOF
<1>1. OpenIn(ck, k) /\ \A m \in Steps : m < k => AdoptableIn(ck, m)
  BY DEF Framed, Pursued, PendsAt
<1>2. ~AdoptableIn(ck, k)
  BY <1>1 DEF Ledger, WalkedLedger
<1>3. \A i \in Steps : (/\ ~AdoptableIn(ck, i)
                        /\ \A m \in Steps : m < i => AdoptableIn(ck, m))
                       => i = k
  BY <1>1, <1>2, StepsAre
<1>4. proc.at # "pairs"
  BY <1>1 DEF Ledger, WalkedProc, PendsAt
<1>5. log # << >>
  <2>1. PICK c \in Calls : c = ck.frontier.intent
    BY PendingIsCall DEF PendsAt
  <2>2. PICK n \in At("actionIntent", k) : log[n].call = c
    BY <2>1 DEF Framed, CallsOwned, PendsAt
  <2> QED BY <2>2, EmptyIs DEF At, Entries
<1> QED BY <1>1, <1>3, <1>4, <1>5

(* The work a segment takes up on a pending intent.                        *)
Works == {"adopt", "replay", "confirm", "abortRuled"}

(* The work a resume finds for a pending intent is never nothing.          *)
LEMMA WorkIs ==
  ASSUME Ledger, Fated, ck.frontier.intent # NoIntent,
         NEW fate \in Reconciled(ck.frontier.intent)
  PROVE  FrontierWork(ck.frontier.intent, fate) \in Works \union {"ask", "reawait"}
PROOF
<1>1. PICK c \in Calls : c = ck.frontier.intent
  BY PendingIsCall
<1>2. fate \in {"completed", "neverDispatched", "startedNoTerminal", "logUnavailable"}
  <2>1. dev[c].fate \in {"unsent", "started", "done"}
    BY DEF Fated
  <2> QED BY <1>1, <2>1 DEF Reconciled
<1>3. UncertainWork(c) \in Works \union {"ask", "reawait"}
  <2> DEFINE q == Governing(log, AdjudicatePath)
             answer == AnswerTo(log, q.req)
  <2>1. CASE \/ ReplayPermitted(StepAt(ck.frontier.path))
             \/ RequestsAt(log, AdjudicatePath) = { } \/ q.call # c
    BY <2>1 DEF UncertainWork, Works
  <2>2. CASE /\ ~ReplayPermitted(StepAt(ck.frontier.path))
             /\ RequestsAt(log, AdjudicatePath) # { } /\ q.call = c
    <3>1. answer = NoPending \/ answer \in {"adopt", "redo", "abort"}
      BY <2>2, AdjudicationSays
    <3>2. UncertainWork(c) = CASE answer = NoPending -> "reawait"
                               [] answer = "adopt"   -> "confirm"
                               [] answer = "redo"    -> "replay"
                               [] answer = "abort"   -> "abortRuled"
      BY <2>2 DEF UncertainWork
    <3> HIDE DEF answer
    <3> QED BY <3>1, <3>2 DEF Works
  <2> QED BY <2>1, <2>2
<1> QED BY <1>1, <1>2, <1>3 DEF FrontierWork, Works

(* A walk past a pending intent carries the work on it to its step.        *)
Carrying ==
  proc.at = "walk" =>
    \A k \in Steps : PendsAt(k) => proc.site = k /\ proc.work \in Works

(* A pending intent is not forgotten by what is written outside the steps. *)
LEMMA PendsBack ==
  ASSUME Ledger, Framed, [Next]_vars, NEW k \in Steps, PendsAt(k)',
         ck'.frontier.intent \in {NoIntent, ck.frontier.intent}
  PROVE  PendsAt(k)
PROOF
<1>1. ck.frontier.intent # NoIntent /\ ck'.frontier.intent = ck.frontier.intent
  BY DEF PendsAt
<1>2. dev'[ck'.frontier.intent].step = dev[ck.frontier.intent].step
  BY <1>1, SitesStay DEF Framed
<1>3. ~NullSpan(k)
  <2>1. CASE UNCHANGED << log, ck >>
    BY <2>1 DEF PendsAt, NullSpan, At
  <2> QED BY <2>1, StepWrites, NullKept DEF PendsAt
<1> QED BY <1>1, <1>2, <1>3 DEF PendsAt

(* Every step keeps the work with the walk.                                *)
LEMMA CarryingNext ==
  ASSUME Ledger, Framed, Fated, Carrying, [Next]_vars
  PROVE  Carrying'
PROOF
<1>1. IsProc(proc) /\ ck.frontier.intent \in {NoIntent} \union Calls
  BY LedgerIs DEF ShapedLedger
<1> SUFFICES ASSUME proc'.at = "walk", NEW k \in Steps, PendsAt(k)'
             PROVE  proc'.site = k /\ proc'.work \in Works
  BY DEF Carrying
<1>2. CASE Listens
  <2>1. ck'.frontier.intent = ck.frontier.intent
    <3>1. CASE UNCHANGED << log, ck >>
      BY <3>1
    <3> QED BY <1>2, <3>1, SpansMove DEF Listens, Responds
  <2> QED BY <1>2, <2>1, PendsBack DEF Listens, Carrying
<1>3. CASE AdoptStep
  <2>1. /\ proc.at = "walk" /\ proc'.work = proc.work /\ proc'.site = proc.site
        /\ UNCHANGED << log, ck, dev >>
    BY <1>1, <1>3, AdoptDoes DEF Silent
  <2> QED BY <2>1, PendsBack DEF Carrying
<1>4. CASE StartRun
  <2>1. PICK ev : Wrote("runStarted", RootPath(MetaHash), ev)
    BY <1>4, StartDoes
  <2>2. Writes(ev) /\ ev.type = "runStarted"
    BY <2>1, WroteWrites DEF Wrote
  <2> QED BY <2>2, SpansMove DEF PendsAt
<1>5. CASE ExitStep
  <2>1. proc.ctl \in {"continue", "halt", "abort"}
    BY <1>5, LedgerIs DEF ExitStep, Shape, ShapedProc, Leaving
  <2>2. PICK ev : Wrote("stepExited", Here, ev)
    BY <1>1, <1>5, <2>1, ExitDoes
  <2>3. Writes(ev) /\ ev.type = "stepExited"
    BY <2>2, WroteWrites DEF Wrote
  <2> QED BY <2>3, SpansMove DEF PendsAt
<1>6. CASE Resume
  <2>1. PICK ev : Wrote("runResumed", RootPath(MetaHash), ev)
    BY <1>6, ResumeDoes
  <2>2. Writes(ev) /\ ev.type = "runResumed"
    BY <2>1, WroteWrites DEF Wrote
  <2>3. ck'.frontier.intent = ck.frontier.intent
    BY <2>2, SpansMove
  <2>4. PendsAt(k)
    BY <2>3, PendsBack
  <2>5. ck.frontier.intent # NoIntent
    BY <2>4 DEF PendsAt
  <2>6. PICK fate \in Reconciled(ck.frontier.intent) : \E work :
          /\ work = FrontierWork(ck.frontier.intent, fate)
          /\ \/ work = "ask" \/ work = "reawait" \/ work = "none"
             \/ /\ work \notin {"ask", "reawait", "none"}
                /\ proc'.work = work /\ proc'.site = StepAt(ck.frontier.path)
          /\ work = "ask" => proc'.at = "adjudicate"
          /\ work = "reawait" => proc'.at = "suspend"
    BY <1>6, <2>5, ResumeDoes
  <2>7. proc'.work \in Works /\ proc'.site = StepAt(ck.frontier.path)
    BY <2>5, <2>6, WorkIs DEF Works
  <2>8. StepAt(ck.frontier.path) = k
    BY <2>4, <2>5, NamedSite DEF Framed, PendsAt
  <2> QED BY <2>7, <2>8
<1>7. CASE EnterStep
  BY <1>1, <1>7, EnterStepDoes
<1>8. CASE RecordBlocked
  BY <1>1, <1>8, PairsDoes DEF IsProc, ProcFields
<1>9. CASE Stops \/ Turns
  BY <1>9 DEF Stops, Turns, Inside
<1>10. CASE WriteIntent
  BY <1>1, <1>10, WriteIntentDoes
<1> QED BY <1>2, <1>3, <1>4, <1>5, <1>6, <1>7, <1>8, <1>9, <1>10, ProcMoves

(* Outside the steps the pending intent stays, until a walk enters its     *)
(* step: then with the work that takes the call up.                        *)
LEMMA PendingStays ==
  ASSUME Ledger, Framed, Carrying, [Next]_vars, NEW k \in Steps, PendsAt(k),
         ~NullSpan(k)', proc.at \notin Inside
  PROVE  InRound(proc', k) \/ (PendsAt(k)' /\ proc'.at \notin Inside)
PROOF
<1>1. /\ IsProc(proc) /\ OpenIn(ck, k) /\ proc.at # "pairs" /\ log # << >>
      /\ \A i \in Steps : (/\ ~AdoptableIn(ck, i)
                           /\ \A m \in Steps : m < i => AdoptableIn(ck, m))
                          => i = k
  BY LedgerIs, PendsAtOpen
<1>2. proc.at = "walk" => \A m \in Steps : m < proc.i => AdoptableIn(ck, m)
  BY DEF Ledger, WalkedProc
<1>3. PendsAt(k)'
  <2>1. ck'.frontier.intent = ck.frontier.intent
    <3>1. CASE UNCHANGED << log, ck >>
      BY <3>1
    <3>2. ASSUME NEW ev, Writes(ev)
          PROVE  ck'.frontier.intent = ck.frontier.intent
      <4>1. ASSUME NEW i \in Steps, InStep(ev, i)
            PROVE  FALSE
        <5>1. i = proc.i /\ proc.at = "walk" /\ ~OpenIn(ck, i) /\ ~AdoptableIn(ck, i)
          BY <1>1, <4>1 DEF InStep, Enters, Intends, Settles, Rules, Triggered, Exits, Inside
        <5> QED BY <1>1, <1>2, <5>1
      <4>2. ev.type \in {"runStarted", "runSuspended", "runResumed", "runFinished",
                         "humanRequested", "humanResponded"}
        BY <3>2, <4>1 DEF Writes, Mark, Asks, Responds
      <4>3. ev.type # "runStarted"
        BY <1>1, <3>2, <4>1 DEF Writes, Mark, Asks, Responds
      <4> QED BY <3>2, <4>2, <4>3, SpansMove
    <3> QED BY <3>1, <3>2, StepWrites
  <2>2. dev'[ck'.frontier.intent].step = dev[ck.frontier.intent].step
    BY <2>1, SitesStay DEF Framed, PendsAt
  <2> QED BY <2>1, <2>2 DEF PendsAt
<1>4. CASE EnterStep
  <2>1. /\ proc.at = "walk" /\ ~AdoptableIn(ck, proc.i) /\ proc.i \in Steps
    BY <1>1, <1>4, EnterStepDoes, BridgeIs, StepsAre DEF Ledger, ShapedProc
  <2>2. proc.i = k
    BY <1>1, <1>2, <2>1
  <2>3. WorkHere \in Works
    BY <2>1, <2>2 DEF Carrying, WorkHere
  <2>4. ~ResumesAtRuling
    BY <2>3 DEF ResumesAtRuling, Works
  <2>5. proc'.i = k /\ \/ proc'.at \in {"adoptSettle", "act", "confirm"}
                       \/ proc'.at = "exit" /\ proc'.exitAs = "aborted"
    BY <1>1, <1>4, <2>2, <2>3, <2>4, EnterStepDoes DEF Works
  <2> QED BY <2>5 DEF InRound, Rounds
<1>5. CASE ~EnterStep
  <2>1. proc'.at \notin Inside
    <3>1. CASE Listens \/ Stops
      BY <3>1 DEF Listens, Stops, Inside
    <3>2. CASE AdoptStep
      BY <1>1, <3>2, AdoptDoes DEF Inside
    <3>3. CASE Resume /\ proc'.at = "walk"
      BY <3>3 DEF Inside
    <3>4. ~Turns /\ ~WriteIntent /\ ~ExitStep /\ ~RecordBlocked /\ ~StartRun
      BY <1>1 DEF Turns, WriteIntent, ExitStep, RecordBlocked, StartRun, Inside
    <3> QED BY <1>5, <3>1, <3>2, <3>3, <3>4, ProcMoves
  <2> QED BY <1>3, <2>1
<1> QED BY <1>4, <1>5

-----------------------------------------------------------------------------
(* A settlement of step k that no verdict has answered yet.                *)
Unanswered(k, s) ==
  /\ Flow[k].asserts /\ ~NullSpan(k)
  /\ \A v \in At("verdictRecorded", k) : v < s

(* Such a settlement is in the hands of a round, was cut off with an       *)
(* intent pending, or a process died since; or its step is closed.         *)
Awaited ==
  \A k \in Steps : \A s \in At("actionSettled", k) : Unanswered(k, s) =>
    \/ DiedBetween(s, Len(log) + 1)
    \/ InRound(proc, k)
    \/ PendsAt(k) /\ proc.at \notin Inside
    \/ proc.at = "down" /\ ~Suspended
    \/ ~OpenIn(ck, k)

(* A settlement cut off in its round is pending or its process is dead.    *)
LEMMA CutOff ==
  ASSUME Ledger, Framed, Licences, Working, [Next]_vars,
         NEW k \in Steps, InRound(proc, k), ~NullSpan(k), UNCHANGED << log, ck >>,
         proc'.at = "down" \/ (proc'.at = "suspend" /\ proc.at \in {"dispatch", "wait"})
  PROVE  (PendsAt(k)' /\ proc'.at \notin Inside) \/ (proc'.at = "down" /\ ~Suspended')
PROOF
<1>1. proc.i = k /\ proc.at \in Inside
  BY DEF InRound, Rounds, Inside
<1>2. CASE proc'.at = "down"
  <2>1. ~Suspended
    BY <1>1 DEF Working, Inside
  <2> QED BY <1>2, <2>1 DEF Suspended
<1>3. CASE proc'.at = "suspend" /\ proc.at \in {"dispatch", "wait"}
  <2>1. ck.frontier.intent = proc.call /\ proc.call \in Calls
    BY <1>3, LedgerIs DEF Licences, Shape, ShapedProc
  <2>2. ck.frontier.intent # NoIntent
    BY <2>1, LedgerIs, Marks DEF ShapedLedger, IsSequence, Calls
  <2>3. PICK j \in Steps : /\ dev[ck.frontier.intent].step = j /\ OpenIn(ck, j)
                           /\ \A m \in Steps : m < j => AdoptableIn(ck, m)
    BY <2>2 DEF Framed, Pursued
  <2>4. /\ ~AdoptableIn(ck, k) /\ ~AdoptableIn(ck, j)
        /\ \A m \in Steps : m < k => AdoptableIn(ck, m)
    BY <1>1, <2>3 DEF Ledger, WalkedProc, WalkedLedger
  <2>5. j = k
    BY <2>3, <2>4, StepsAre
  <2>6. dev'[ck'.frontier.intent].step = k
    BY <2>2, <2>3, <2>5, SitesStay DEF Framed
  <2>7. ~NullSpan(k)'
    BY DEF NullSpan, At
  <2> QED BY <1>3, <2>2, <2>6, <2>7 DEF PendsAt, Inside
<1> QED BY <1>2, <1>3

(* Every step keeps settlements awaited.                                   *)
LEMMA AwaitedNext ==
  ASSUME Ledger, Ledger', Framed, Answerable, Opened, Working, Carrying, Awaited,
         [Next]_vars
  PROVE  Awaited'
PROOF
<1>1. IsSequence(log) /\ Len(log) \in Nat /\ DOMAIN log = 1 .. Len(log)
  BY LedgerIs DEF IsSequence
<1>2. \/ UNCHANGED << log, ck >> /\ Len(log') = Len(log)
      \/ \E ev : Writes(ev) /\ Len(log') = Len(log) + 1
  <2>1. \A ev : Writes(ev) => Len(log') = Len(log) + 1
    BY WriteIs, Grows
  <2> QED BY <2>1, StepWrites
<1>3. PICK b \in Nat : b = Len(log') + 1
  BY <1>1, <1>2
<1>4. Len(log) + 1 \in 1 .. Len(log) + 1 /\ Len(log) + 1 <= b
  BY <1>1, <1>2, <1>3
<1> SUFFICES ASSUME NEW k \in Steps, NEW s \in At("actionSettled", k)', Unanswered(k, s)'
             PROVE  \/ DiedBetween(s, b)'
                    \/ InRound(proc', k)
                    \/ PendsAt(k)' /\ proc'.at \notin Inside
                    \/ proc'.at = "down" /\ ~Suspended'
                    \/ ~OpenIn(ck', k)
  BY <1>3 DEF Awaited, DiedBetween
<1>5. ~NullSpan(k) /\ ~NullSpan(k)'
  <2>1. CASE UNCHANGED << log, ck >>
    BY <2>1 DEF Unanswered, NullSpan, At
  <2> QED BY <2>1, StepWrites, NullKept DEF Unanswered
<1>6. \/ s \in At("actionSettled", k) /\ s \in DOMAIN log
      \/ s = Len(log) + 1 /\ Adds("actionSettled") /\ k = proc.i
  <2>1. CASE UNCHANGED << log, ck >>
    BY <1>1, <2>1, AtIs DEF At
  <2>2. ASSUME NEW ev, Writes(ev), ev.type # "actionSettled"
        PROVE  s \in At("actionSettled", k) /\ s \in DOMAIN log
    BY <1>1, <2>2, WriteIs, AtStays, AtIs
  <2>3. ASSUME NEW ev, Writes(ev), ev.type = "actionSettled"
        PROVE  \/ s \in At("actionSettled", k) /\ s \in DOMAIN log
               \/ s = Len(log) + 1 /\ k = proc.i
    <3>1. PICK i \in Steps : i = proc.i /\ ev.path = StepPath(i)
      BY <2>3, WriteIs
    <3>2. At("actionSettled", k)' = IF k = i THEN At("actionSettled", k) \union {Len(log) + 1}
                                    ELSE At("actionSettled", k)
      BY <1>1, <2>3, <3>1, WriteIs, AtGrows
    <3> QED BY <1>1, <3>1, <3>2, AtIs
  <2> QED BY <2>1, <2>2, <2>3, StepWrites DEF Adds
<1>7. /\ s \in 1 .. Len(log) + 1 /\ s \in Nat
      /\ s \in DOMAIN log => Unanswered(k, s)
  <2>1. s \in 1 .. Len(log')
    <3>1. IsSequence(log')
      BY DEF Ledger, ShapedLedger
    <3>2. At("actionSettled", k)' \subseteq 1 .. Len(log')
      BY <3>1, EntriesArePositions DEF At
    <3> QED BY <3>2
  <2>2. At("verdictRecorded", k) \subseteq At("verdictRecorded", k)'
    <3>1. CASE UNCHANGED << log, ck >>
      BY <3>1 DEF At
    <3> QED BY <3>1, StepWrites, VerdictMoves
  <2>3. s \in 1 .. Len(log) + 1
    BY <1>1, <1>2, <2>1
  <2>4. Unanswered(k, s)
    BY <1>5, <2>2 DEF Unanswered
  <2> QED BY <1>1, <2>3, <2>4
<1>8. CASE InRound(proc, k)
  <2>1. Flow[k].asserts
    BY DEF Unanswered
  <2>2. ~Adds("verdictRecorded")
    <3> SUFFICES ASSUME NEW ev, Writes(ev), ev.type = "verdictRecorded"
                 PROVE  FALSE
      BY DEF Adds
    <3>1. k = proc.i
      BY <1>8 DEF InRound
    <3>2. Len(log) + 1 \in At("verdictRecorded", k)'
      BY <3>1, VerdictMoves
    <3>3. Len(log) + 1 < s
      BY <3>2 DEF Unanswered
    <3> QED BY <1>1, <1>7, <3>3
  <2>3. ASSUME NEW ev, Writes(ev), ev.type = "stepExited"
        PROVE  ~OpenIn(ck', k)
    <3>1. PICK i \in Steps : InStep(ev, i)
      BY <2>3, WriteIs
    <3>2. i = k
      BY <1>8, <2>3, <3>1, WriteIs DEF InRound
    <3> QED BY <2>3, <3>1, <3>2, WriteRecords
  <2> QED BY <1>5, <1>8, <2>1, <2>2, <2>3, RoundMoves, CutOff DEF Adds, Answerable
<1>9. CASE s \notin DOMAIN log
  <2>1. PICK ev : Writes(ev) /\ ev.type = "actionSettled"
    BY <1>6, <1>9 DEF Adds
  <2>2. PICK i \in Steps : InStep(ev, i)
    BY <2>1, WriteIs
  <2>3. proc.at \in {"wait", "adoptSettle"}
    BY <2>1, <2>2 DEF InStep, Enters, Intends, Settles, Rules, Triggered, Exits
  <2>4. InRound(proc, k)
    BY <1>6, <1>9, <2>3 DEF InRound, Rounds
  <2> QED BY <1>8, <2>4
<1>10. CASE s \in DOMAIN log /\ DiedBetween(s, Len(log) + 1)
  <2>1. CASE UNCHANGED << log, ck >> /\ Len(log') = Len(log)
    <3>1. DiedBetween(s, Len(log) + 1)'
      BY <1>10, <2>1 DEF DiedBetween
    <3> QED BY <1>3, <3>1 DEF DiedBetween
  <2>2. ASSUME NEW ev, Writes(ev)
        PROVE  DiedBetween(s, b)'
    BY <1>1, <1>4, <1>10, <2>2, WriteIs, DiedStays
  <2> QED BY <1>2, <2>1, <2>2
<1>11. CASE PendsAt(k) /\ proc.at \notin Inside
  BY <1>5, <1>11, PendingStays
<1>12. CASE s \in DOMAIN log /\ proc.at = "down" /\ ~Suspended
  <2>1. CASE UNCHANGED << log, ck >>
    <3>1. ASSUME NEW ev, Write(ev)
          PROVE  FALSE
      <4>1. Len(log') = Len(log) + 1
        BY <1>1, <3>1, Grows
      <4>2. Len(log') = Len(log)
        BY <2>1
      <4> QED BY <1>1, <4>1, <4>2
    <3>2. UNCHANGED proc
      BY <1>12, <3>1, DownRests
    <3> QED BY <1>12, <2>1, <3>2 DEF Suspended
  <2>2. ASSUME NEW ev, Writes(ev)
        PROVE  DiedBetween(s, b)' \/ (proc'.at = "down" /\ ~Suspended')
    <3>1. log # << >>
      BY <1>12, EmptyIs
    <3>2. ev.type = "runResumed" \/ (ev.type = "humanResponded" /\ UNCHANGED proc)
      BY <1>12, <2>2, <3>1 DEF Writes, Mark, Asks, Responds, InStep, Enters, Intends,
                               Settles, Rules, Triggered, Exits
    <3>3. CASE ev.type = "runResumed"
      <4>1. b = Len(log) + 2
        BY <1>1, <1>3, <2>2, WriteIs, Grows
      <4> QED BY <1>12, <2>2, <3>3, <4>1, ResumeDies
    <3>4. CASE ev.type = "humanResponded" /\ UNCHANGED proc
      BY <1>12, <2>2, <3>4, SuspendedMoves
    <3> QED BY <3>2, <3>3, <3>4
  <2> QED BY <2>1, <2>2, StepWrites
<1>13. CASE s \in DOMAIN log /\ ~OpenIn(ck, k)
  <2>1. Worked(k)
    BY <1>1, <1>6, <1>13 DEF Worked
  <2> QED BY <1>13, <2>1, AdoptableStays DEF Ledger, WalkedLedger
<1> QED BY <1>1, <1>6, <1>7, <1>8, <1>9, <1>10, <1>11, <1>12, <1>13 DEF Awaited

(* The span of an earlier exit is as it was.                               *)
LEMMA BlockedStays ==
  ASSUME IsSequence(log), NEW ev, Write(ev), NEW n \in DOMAIN log, NEW i
  PROVE  InBlockedSpan(i, n)' <=> InBlockedSpan(i, n)
PROOF
<1>1. n \in 1 .. Len(log) + 1
  BY Grows
<1>2. /\ Before(At("stepEntered", i), n)' = Before(At("stepEntered", i), n)
      /\ \A m \in Before(At("stepEntered", i), n) : log'[m] = log[m]
  BY <1>1, BeforeStays
<1> QED BY <1>2 DEF InBlockedSpan

(* No step leaves overtaken unless a process died: its last settlement,    *)
(* later than every verdict, would still be awaited.                       *)
LEMMA OvertakenNow ==
  ASSUME Ledger, Opened, Awaited, NEW ev, Writes(ev), ev.type = "stepExited",
         NEW i \in Steps, i = proc.i, Flow[i].asserts,
         NEW n \in Nat, n = Len(log) + 1, ~InBlockedSpan(i, n)', Overtaken(n)'
  PROVE  DiedBetween(Max(Before(At("actionSettled", i), n)), n)'
PROOF
<1>1. /\ Write(ev) /\ IsSequence(log) /\ Len(log) \in Nat /\ DOMAIN log = 1 .. Len(log)
      /\ log'[n] = ev /\ n \in 1 .. Len(log) + 1 /\ n <= n
      /\ \A m \in DOMAIN log : log'[m] = log[m]
  BY WriteIs, Grows
<1>2. InStep(ev, i) /\ ev.path = StepPath(i)
  BY WriteIs
<1> DEFINE V == At("verdictRecorded", i)
<1> DEFINE S == At("actionSettled", i)
<1>3. \A type : Before(At(type, i), n)' = At(type, i)
  <2>1. \A type : Before(At(type, i), n)' = Before(At(type, i), n)
    BY <1>1, BeforeStays
  <2>2. \A type : Before(At(type, i), n) = At(type, i)
    BY <1>1, BeforeIs DEF At
  <2> QED BY <2>1, <2>2
<1>4. StepAt(log'[n].path) = i
  BY <1>1, <1>2, StepAtIs
<1>5. ev.state = "judged" /\ V # { } /\ S # { } /\ Max(V) < Max(S)
  BY <1>1, <1>3, <1>4 DEF Overtaken
<1>6. proc.at = "exit" /\ proc.exitAs = "judged" /\ TopIs(ck, i)
  BY <1>2, <1>5 DEF InStep, Enters, Intends, Settles, Rules, Triggered, Exits
<1>7. OpenIn(ck, i) /\ Stacked(ck)
  BY <1>6, LedgerIs, TopIsOpen DEF OpenIn
<1>8. ~NullSpan(i)
  BY <1>1, <1>3, AtIs DEF NullSpan, InBlockedSpan
<1>9. V \in SUBSET (1 .. Len(log)) /\ S \in SUBSET (1 .. Len(log))
  BY <1>1, AtIs
<1> HIDE DEF V, S
<1>10. PICK s \in S : s = Max(S)
  BY <1>1, <1>5, <1>9, MaxIs
<1>11. \A v \in V : v < s
  <2>1. Max(V) \in V /\ \A v \in V : v <= Max(V)
    BY <1>1, <1>5, <1>9, MaxIs
  <2> DEFINE x == Max(V)
  <2>2. s \in Nat /\ \A v \in V : v \in Nat
    BY <1>1, <1>9
  <2>3. x \in Nat /\ x < s /\ \A v \in V : v <= x
    BY <1>5, <1>10, <2>1, <2>2
  <2> HIDE DEF x
  <2> QED BY <2>2, <2>3
<1>12. DiedBetween(s, Len(log) + 1)
  <2>1. Unanswered(i, s)
    BY <1>8, <1>11 DEF Unanswered, V
  <2> QED BY <1>6, <1>7, <1>10, <2>1 DEF Awaited, S, InRound, Rounds, Inside
<1>13. DiedBetween(s, n)'
  BY <1>1, <1>9, <1>10, <1>12, DiedStays
<1>14. Before(At("actionSettled", i), n)' = S
  BY <1>3 DEF S
<1> QED BY <1>10, <1>13, <1>14 DEF DiedBetween

(* Every step keeps the exits that a settlement overtook explained.        *)
LEMMA OvertakesNext ==
  ASSUME Ledger, Opened, Awaited, OnlyDeathOvertakes, [Next]_vars
  PROVE  OnlyDeathOvertakes'
PROOF
<1>1. CASE UNCHANGED << log, ck >>
  BY <1>1 DEF OnlyDeathOvertakes, Overtaken, InBlockedSpan, At, Before, DiedBetween
<1>2. ASSUME NEW ev, Writes(ev)
      PROVE  OnlyDeathOvertakes'
  <2>1. /\ Write(ev) /\ IsSequence(log) /\ Len(log) \in Nat
        /\ DOMAIN log = 1 .. Len(log) /\ DOMAIN log' = 1 .. Len(log) + 1
        /\ \A m \in DOMAIN log : log'[m] = log[m]
        /\ log'[Len(log) + 1] = ev
    BY <1>2, WriteIs, Grows
  <2> SUFFICES ASSUME NEW i \in Steps, NEW n \in At("stepExited", i)', Flow[i].asserts,
                      ~InBlockedSpan(i, n)', Overtaken(n)'
               PROVE  DiedBetween(Max(Before(At("actionSettled", i), n)), n)'
    BY DEF OnlyDeathOvertakes
  <2>2. /\ n \in DOMAIN log' /\ log'[n].type = "stepExited"
        /\ SameInstance(log'[n].path, StepPath(i)) /\ n \in Nat
    BY <2>1 DEF At, Entries
  <2>3. StepAt(log'[n].path) = i
    BY <2>2, StepAtOf
  <2>4. CASE n \in DOMAIN log
    <3> DEFINE S == Before(At("actionSettled", i), n)
    <3>1. n \in At("stepExited", i) /\ ~InBlockedSpan(i, n) /\ Overtaken(n)
      BY <2>1, <2>2, <2>4, BlockedStays, OvertakenStays DEF At, Entries
    <3>2. DiedBetween(Max(S), n)
      BY <3>1 DEF OnlyDeathOvertakes
    <3>3. S' = S /\ S \in SUBSET (1 .. Len(log))
      BY <2>1, <2>4, BeforeStays
    <3>4. S # { }
      BY <2>1, <2>3, <2>4, <3>1 DEF Overtaken
    <3> HIDE DEF S
    <3>5. PICK s \in DOMAIN log : s = Max(S)
      BY <2>1, <3>3, <3>4, MaxIs
    <3>6. DiedBetween(s, n)'
      <4>1. n \in 1 .. Len(log) + 1 /\ n <= n
        BY <2>1, <2>4
      <4> QED BY <2>1, <2>2, <3>2, <3>5, <4>1, DiedStays
    <3>7. DiedBetween(Max(S), n)'
      BY <3>3, <3>5, <3>6 DEF DiedBetween
    <3> QED BY <3>7 DEF S
  <2>5. CASE n = Len(log) + 1
    <3>1. PICK j \in Steps : j = proc.i /\ ev.path = StepPath(j)
      BY <1>2, <2>1, <2>2, <2>5, WriteIs
    <3>2. i = j
      BY <2>1, <2>3, <2>5, <3>1, StepAtIs
    <3> QED BY <1>2, <2>1, <2>2, <2>5, <3>1, <3>2, OvertakenNow
  <2> QED BY <2>1, <2>2, <2>4, <2>5
<1> QED BY <1>1, <1>2, StepWrites

(* A step with assertions leaves with a verdict older than its last        *)
(* settlement only when a process died in between: no suspension, answer   *)
(* or resume lets a verdict speak for an attempt it did not see.           *)
THEOREM VerdictsKeepUp == Spec => []OnlyDeathOvertakes
PROOF
<1> DEFINE Inv == /\ Framed /\ Answerable /\ Opened /\ Working /\ Carrying /\ Awaited
                  /\ OnlyDeathOvertakes
<1>1. Init => Inv
  <2> SUFFICES ASSUME Init
               PROVE  Inv
    OBVIOUS
  <2>1. log = << >> /\ proc.at = "down" /\ \A type, i : At(type, i) = { }
    BY EmptyIs, DownIs DEF Init, At, Entries
  <2> QED BY <2>1, FramedInit, AnswerableInit
          DEF Opened, Working, Carrying, Awaited, OnlyDeathOvertakes
<1>2. Ledger /\ Ledger' /\ Inv /\ [Next]_vars => Inv'
  <2> SUFFICES ASSUME Ledger, Ledger', Inv, [Next]_vars
               PROVE  Inv'
    OBVIOUS
  <2>1. Framed'
    BY FramedNext
  <2>2. Answerable' /\ Fated
    BY <2>1, AnswerableNext DEF Answerable
  <2>3. Opened' /\ Working' /\ Carrying' /\ Awaited' /\ OnlyDeathOvertakes'
    BY <2>2, OpenedNext, WorkingNext, CarryingNext, AwaitedNext, OvertakesNext
  <2> QED BY <2>1, <2>2, <2>3
<1>3. Inv => OnlyDeathOvertakes
  OBVIOUS
<1> HIDE DEF Inv
<1> QED BY <1>1, <1>2, <1>3, LedgerHolds, PTL DEF Spec

-----------------------------------------------------------------------------
(* What the fold says of a step is what the ledger says of it: an open     *)
(* span and the record of a concluded instance carry the last verdict      *)
(* recorded there, any other record carries none; and no step is ruled on  *)
(* before every step before it is concluded.                               *)
Attested ==
  /\ \A a \in DOMAIN ck.completed : \E k \in Steps :
       /\ ck.completed[a].path = StepPath(k)
       /\ ck.completed[a].verdict \in
            IF AdoptableIn(ck, k) THEN {NoVerdict, Verdict(k)} ELSE {NoVerdict}
  /\ \A k \in Steps :
       /\ \A a \in InFlightAt(ck, StepPath(k)) : ck.inFlight[a].verdict = Verdict(k)
       /\ AdoptableIn(ck, k) =>
            ck.completed[Latest(CompletedAt(ck, StepPath(k)))].verdict = Verdict(k)
       /\ \A m \in Steps : Verdict(k) # NoVerdict /\ m < k => AdoptableIn(ck, m)

(* An unruled step has no verdict.                                         *)
LEMMA UnruledIs ==
  ASSUME IsSequence(log), NEW k, At("verdictRecorded", k) = { }
  PROVE  Verdict(k) = NoVerdict
PROOF
BY RulingIs DEF Verdict, At

(* A verdict that is none was never recorded.                              *)
LEMMA RuledIsStatus ==
  ASSUME Ledger, Ruling, NEW k \in Steps, At("verdictRecorded", k) # { }
  PROVE  Verdict(k) \in Statuses /\ Verdict(k) # NoVerdict
PROOF
<1> DEFINE V == At("verdictRecorded", k)
<1>1. IsSequence(log) /\ Len(log) \in Nat /\ V \in SUBSET (1 .. Len(log))
      /\ \A n \in V : n \in DOMAIN log /\ log[n].type = "verdictRecorded"
  BY LedgerIs, AtIs
<1>2. Verdict(k) = log[Max(V)].verdict
  BY <1>1, RulingIs DEF Verdict, At
<1>3. Max(V) \in V
  BY <1>1, MaxIs
<1> QED BY <1>1, <1>2, <1>3, Marks DEF Ruling

(* Records that stay as they are still say the same, when no concluded     *)
(* step is ruled on.                                                       *)
LEMMA RecordsAttested ==
  ASSUME Attested, ck'.completed = ck.completed, IsSequence(ck.completed),
         NEW i \in Steps, ~AdoptableIn(ck, i),
         \A k \in Steps : k # i => Verdict(k)' = Verdict(k),
         \A k \in Steps : \A a \in InFlightAt(ck', StepPath(k)) :
           ck'.inFlight[a].verdict = Verdict(k)',
         \A k, m \in Steps : Verdict(k)' # NoVerdict /\ m < k => AdoptableIn(ck', m)
  PROVE  Attested'
PROOF
<1>1. /\ \A p : CompletedAt(ck', p) = CompletedAt(ck, p)
      /\ \A k : AdoptableIn(ck', k) <=> AdoptableIn(ck, k)
  BY DEF CompletedAt, AdoptableIn, RecordedIn
<1> HIDE DEF Verdict
<1> QED BY <1>1 DEF Attested

(* What an entry of a step leaves of the fold: a span without a verdict,   *)
(* a span that keeps its verdict or takes the one recorded, a record with  *)
(* the verdict of its span.                                                *)
LEMMA AttestedNext ==
  ASSUME Ledger, Ledger', Ruling, Ruling', Attested, [Next]_vars
  PROVE  Attested'
PROOF
<1>1. CASE UNCHANGED << log, ck >>
  BY <1>1 DEF Attested, Verdict
<1>2. ASSUME NEW ev, Writes(ev)
      PROVE  Attested'
  <2>1. /\ Write(ev) /\ IsSequence(log) /\ IsFold(ck) /\ ck' = FoldStep(ck, ev)
        /\ ev.type \in Apart \union {"humanRequested", "humanResponded"}
        /\ ev.type # "runStarted" => ck.started
        /\ IsSequence(ck.inFlight) /\ IsSequence(ck.completed) /\ Stacked(ck)
        /\ IsFold(ck') /\ Stacked(ck')
    BY <1>2, WriteIs, LedgerIs DEF Write, IsFold, Ledger, ShapedLedger, WalkedLedger
  <2>2. \A k \in Steps :
          IF ev.type = "verdictRecorded" /\ k = proc.i THEN Verdict(k)' = ev.verdict
          ELSE Verdict(k)' = Verdict(k)
    BY <1>2, VerdictMoves
  <2>3. \A k \in Steps : AdoptableIn(ck, k) => AdoptableIn(ck', k)
    BY <1>2, WriteRecords
  <2>4. CASE ev.type \in {"runStarted", "actionIntent", "humanRequested", "handlerTriggered",
                          "humanResponded", "runSuspended", "runResumed", "runFinished"}
    <3>1. ck'.inFlight = ck.inFlight /\ ck'.completed = ck.completed
      BY <1>2, <2>1, <2>4, PlainKept DEF Ledger, ShapedLedger
    <3>2. /\ \A p : CompletedAt(ck', p) = CompletedAt(ck, p)
          /\ \A p : InFlightAt(ck', p) = InFlightAt(ck, p)
          /\ \A k : AdoptableIn(ck', k) <=> AdoptableIn(ck, k)
      BY <3>1 DEF CompletedAt, InFlightAt, AdoptableIn, RecordedIn
    <3>3. \A k \in Steps : Verdict(k)' = Verdict(k)
      BY <2>2, <2>4
    <3> HIDE DEF Verdict
    <3> QED BY <3>1, <3>2, <3>3 DEF Attested
  <2>5. CASE ev.type \in {"stepEntered", "actionSettled", "verdictRecorded", "stepExited"}
    <3>1. PICK i \in Steps : InStep(ev, i) /\ i = proc.i /\ ev.path = StepPath(i)
      BY <1>2, <2>5, WriteIs
    <3>2. ~AdoptableIn(ck, i)
      BY <3>1, <2>5, LedgerIs
         DEF InStep, Enters, Intends, Settles, Rules, Triggered, Exits, Inside
    <3>3. ev.type # "stepEntered" => TopIs(ck, i)
      BY <3>1, <2>5, LedgerIs
         DEF InStep, Enters, Intends, Settles, Rules, Triggered, Exits, Inside
    <3>4. \A k \in Steps : \A a \in InFlightAt(ck, StepPath(k)) :
            /\ a \in DOMAIN ck.inFlight /\ ck.inFlight[a].verdict = Verdict(k)
            /\ ck.inFlight[a].path = StepPath(k)
      BY <2>1, OpenMeans DEF Attested
    <3>5. \A k \in Steps : InFlightAt(ck', StepPath(k))
                             = { a \in DOMAIN ck'.inFlight : ck'.inFlight[a].path = StepPath(k) }
      BY <2>1, OpenMeans
    <3>6. \A k \in Steps : InFlightAt(ck, StepPath(k))
                             = { a \in DOMAIN ck.inFlight : ck.inFlight[a].path = StepPath(k) }
      BY <2>1, OpenMeans
    <3>7. \A k, m \in Steps : Verdict(k)' # NoVerdict /\ m < k => AdoptableIn(ck', m)
      <4> SUFFICES ASSUME NEW k \in Steps, NEW m \in Steps, Verdict(k)' # NoVerdict, m < k
                   PROVE  AdoptableIn(ck, m)
        BY <2>3
      <4>1. CASE ev.type = "verdictRecorded" /\ k = i
        <5>1. proc.at \in Inside
          BY <3>1, <4>1 DEF InStep, Enters, Intends, Settles, Rules, Triggered, Exits, Inside
        <5> QED BY <3>1, <4>1, <5>1 DEF Ledger, WalkedProc
      <4>2. CASE ~(ev.type = "verdictRecorded" /\ k = i)
        BY <2>2, <3>1, <4>2 DEF Attested
      <4> QED BY <4>1, <4>2
    <3>8. CASE ev.type = "stepEntered"
      <4>1. PICK span : /\ ck'.inFlight = Append(ck.inFlight, span)
                        /\ span.path = ev.path /\ span.verdict = NoVerdict
                        /\ ck'.completed = ck.completed
        BY <2>1, <3>8, StepEnteredIs
      <4>2. Verdict(i) = NoVerdict
        <5>1. ~OpenIn(ck, i)
          BY <3>1, <3>8 DEF InStep, Enters, Intends, Settles, Rules, Triggered, Exits
        <5>2. ~Worked(i)
          BY <3>2, <5>1 DEF Ledger, WalkedLedger
        <5> QED BY <2>1, <5>2, UnruledIs DEF Worked
      <4>3. ASSUME NEW k \in Steps, NEW a \in InFlightAt(ck', StepPath(k))
            PROVE  ck'.inFlight[a].verdict = Verdict(k)
        <5>1. /\ DOMAIN ck.inFlight = 1 .. Len(ck.inFlight) /\ Len(ck.inFlight) \in Nat
              /\ DOMAIN ck'.inFlight = 1 .. Len(ck.inFlight) + 1
              /\ \A b \in DOMAIN ck.inFlight : ck'.inFlight[b] = ck.inFlight[b]
              /\ ck'.inFlight[Len(ck.inFlight) + 1] = span
          BY <2>1, <4>1, AppendIs
        <5>2. CASE a \in DOMAIN ck.inFlight
          BY <3>4, <3>5, <3>6, <4>3, <5>1, <5>2
        <5>3. CASE a \notin DOMAIN ck.inFlight
          <6>1. a = Len(ck.inFlight) + 1 /\ k = i
            BY <3>1, <3>5, <4>1, <4>3, <5>1, <5>3, PathsDiffer
          <6> QED BY <4>1, <4>2, <5>1, <6>1
        <5> QED BY <5>2, <5>3
      <4> QED BY <2>1, <2>2, <3>1, <3>2, <3>7, <3>8, <4>1, <4>3, RecordsAttested
    <3>9. CASE ev.type = "actionSettled"
      <4>1. ck.inFlight # << >> /\ ck.started
        BY <2>1, <3>3, <3>9 DEF TopIs
      <4>2. PICK span : /\ ck'.inFlight = Put(ck.inFlight, Len(ck.inFlight), span)
                        /\ span.path = ck.inFlight[Len(ck.inFlight)].path
                        /\ span.verdict = ck.inFlight[Len(ck.inFlight)].verdict
                        /\ ck'.completed = ck.completed
        BY <2>1, <3>9, <4>1, ActionSettledIs
      <4>3. ASSUME NEW k \in Steps, NEW a \in InFlightAt(ck', StepPath(k))
            PROVE  ck'.inFlight[a].verdict = Verdict(k)
        <5>1. /\ Len(ck.inFlight) \in DOMAIN ck.inFlight
              /\ DOMAIN ck'.inFlight = DOMAIN ck.inFlight
              /\ \A b \in DOMAIN ck.inFlight :
                   ck'.inFlight[b] = IF b = Len(ck.inFlight) THEN span ELSE ck.inFlight[b]
          BY <2>1, <4>1, <4>2, SequenceIs, PutIs DEF Put
        <5> QED BY <3>4, <3>5, <3>6, <4>2, <4>3, <5>1
      <4> QED BY <2>1, <2>2, <3>1, <3>2, <3>7, <3>9, <4>2, <4>3, RecordsAttested
    <3>10. CASE ev.type = "verdictRecorded"
      <4>1. ck.inFlight # << >> /\ ck.started /\ TopIs(ck, i)
        BY <2>1, <3>3, <3>10 DEF TopIs
      <4>2. /\ Len(ck.inFlight) \in InFlightAt(ck, ev.path)
            /\ Len(ck.inFlight) = Latest(InFlightAt(ck, ev.path))
        BY <2>1, <3>1, <4>1, TopIsOpen
      <4>3. PICK top : top = Len(ck.inFlight)
        OBVIOUS
      <4>4. PICK span : /\ ck'.inFlight = Put(ck.inFlight, top, span)
                        /\ span.path = ck.inFlight[top].path
                        /\ span.verdict = ev.verdict
                        /\ ck'.completed = ck.completed
        BY <2>1, <3>10, <4>1, <4>2, <4>3, VerdictRecordedIs
      <4>5. ASSUME NEW k \in Steps, NEW a \in InFlightAt(ck', StepPath(k))
            PROVE  ck'.inFlight[a].verdict = Verdict(k)'
        <5>1. /\ top \in DOMAIN ck.inFlight /\ ck.inFlight[top].path = StepPath(i)
              /\ DOMAIN ck'.inFlight = DOMAIN ck.inFlight
              /\ \A b \in DOMAIN ck.inFlight :
                   ck'.inFlight[b] = IF b = top THEN span ELSE ck.inFlight[b]
          BY <2>1, <4>1, <4>3, <4>4, SequenceIs, PutIs DEF Put, TopIs
        <5>2. CASE a = top
          <6>1. k = i
            BY <3>5, <4>4, <4>5, <5>1, <5>2, PathsDiffer
          <6> QED BY <2>2, <3>1, <3>10, <4>4, <5>1, <5>2, <6>1
        <5>3. CASE a # top
          <6>1. a \in InFlightAt(ck, StepPath(k)) /\ ck'.inFlight[a] = ck.inFlight[a]
            BY <3>5, <3>6, <4>5, <5>1, <5>3
          <6>2. k # i
            BY <2>1, <4>1, <4>3, <5>3, <6>1, TopIsOpen
          <6> QED BY <2>2, <3>1, <3>4, <6>1, <6>2
        <5> QED BY <5>2, <5>3
      <4> QED BY <2>1, <2>2, <3>1, <3>2, <3>7, <3>10, <4>4, <4>5, RecordsAttested
    <3>11. CASE ev.type = "stepExited"
      <4>1. ck.inFlight # << >> /\ ck.started /\ TopIs(ck, i)
        BY <2>1, <3>3, <3>11 DEF TopIs
      <4> DEFINE done == ck.completed
      <4> DEFINE last == ck.inFlight[Len(ck.inFlight)]
      <4>2. PICK record : /\ ck'.completed = Append(done, record)
                          /\ record.path = last.path /\ record.verdict = last.verdict
                          /\ record.resolved = last.resolved
                          /\ record.attempts = last.attempts
                          /\ ck'.inFlight = Front(ck.inFlight)
        BY <2>1, <3>11, <4>1, StepExitedIs
      <4>3. record.path = StepPath(i) /\ record.verdict = Verdict(i)
        <5>1. Len(ck.inFlight) \in InFlightAt(ck, StepPath(i))
          BY <2>1, <4>1, TopIsOpen
        <5> QED BY <3>4, <4>1, <4>2, <5>1 DEF TopIs
      <4>4. RipeIn(ck, i) \/ Verdict(i) = NoVerdict
        BY <2>1, <3>4, <4>1, <4>2, <4>3, TopIsOpen DEF IsHistory
      <4>5. \A k \in Steps : AdoptableIn(ck', k) <=> IF k = i THEN RipeIn(ck, i)
                                                     ELSE AdoptableIn(ck, k)
        BY <1>2, <3>1, <3>11, WriteRecords
      <4>6. /\ Len(done) \in Nat /\ DOMAIN done = 1 .. Len(done)
            /\ DOMAIN ck'.completed = 1 .. Len(done) + 1
            /\ \A a \in DOMAIN done : ck'.completed[a] = done[a]
            /\ ck'.completed[Len(done) + 1] = record
        BY <2>1, <4>2, AppendIs
      <4>7. \A k \in Steps : Verdict(k)' = Verdict(k)
        BY <2>2, <3>11
      <4> HIDE DEF done, last, Verdict
      <4>8. ASSUME NEW a \in DOMAIN ck'.completed
            PROVE  \E k \in Steps :
                     /\ ck'.completed[a].path = StepPath(k)
                     /\ ck'.completed[a].verdict \in
                          IF AdoptableIn(ck', k) THEN {NoVerdict, Verdict(k)}
                          ELSE {NoVerdict}
        <5>1. CASE a \in DOMAIN done
          <6>1. PICK k \in Steps :
                  /\ done[a].path = StepPath(k)
                  /\ done[a].verdict \in
                       IF AdoptableIn(ck, k) THEN {NoVerdict, Verdict(k)} ELSE {NoVerdict}
            BY <5>1 DEF Attested, done
          <6>2. CASE k = i
            BY <3>2, <4>6, <5>1, <6>1, <6>2
          <6>3. CASE k # i
            BY <4>5, <4>6, <5>1, <6>1, <6>3
          <6> QED BY <6>2, <6>3
        <5>2. CASE a \notin DOMAIN done
          <6>1. a = Len(done) + 1
            BY <4>6, <4>8, <5>2
          <6> QED BY <4>3, <4>4, <4>5, <4>6, <6>1
        <5> QED BY <5>1, <5>2
      <4>9. ASSUME NEW k \in Steps, NEW a \in InFlightAt(ck', StepPath(k))
            PROVE  ck'.inFlight[a].verdict = Verdict(k)
        <5>1. /\ DOMAIN ck'.inFlight \subseteq DOMAIN ck.inFlight
              /\ \A b \in DOMAIN ck'.inFlight : ck'.inFlight[b] = ck.inFlight[b]
          BY <2>1, <4>1, <4>2, FrontIs
        <5> QED BY <3>4, <3>5, <3>6, <4>9, <5>1
      <4>10. ASSUME NEW k \in Steps, AdoptableIn(ck', k)
             PROVE  ck'.completed[Latest(CompletedAt(ck', StepPath(k)))].verdict = Verdict(k)
        <5> DEFINE A == CompletedAt(ck, StepPath(k))
        <5> DEFINE B == CompletedAt(ck', StepPath(k))
        <5>1. A \in SUBSET (1 .. Len(done))
          BY <4>6 DEF CompletedAt, done
        <5>2. SameInstance(record.path, StepPath(k)) <=> k = i
          BY <4>3, SameStep
        <5>3. CASE k = i
          <6>1. B = A \union {Len(done) + 1}
            BY <4>6, <5>2, <5>3 DEF CompletedAt, done
          <6>2. Latest(B) = Len(done) + 1
            BY <4>6, <5>1, <6>1 DEF Latest
          <6> QED BY <4>3, <4>6, <5>3, <6>2
        <5>4. CASE k # i
          <6>1. B = A
            BY <4>6, <5>2, <5>4 DEF CompletedAt, done
          <6>2. AdoptableIn(ck, k) /\ A # { }
            BY <4>5, <4>10, <5>4 DEF AdoptableIn, RecordedIn
          <6>3. Latest(A) \in A
            BY <4>6, <5>1, <6>2, LatestIs
          <6>4. done[Latest(A)].verdict = Verdict(k)
            BY <6>2 DEF Attested, done
          <6> HIDE DEF A, B
          <6> QED BY <4>6, <5>1, <6>1, <6>3, <6>4 DEF A, B
        <5> QED BY <5>3, <5>4
      <4> QED BY <3>7, <4>7, <4>8, <4>9, <4>10 DEF Attested
    <3> QED BY <2>5, <3>8, <3>9, <3>10, <3>11
  <2> QED BY <2>1, <2>4, <2>5 DEF Apart
<1> QED BY <1>1, <1>2, StepWrites

-----------------------------------------------------------------------------
(* The verdicts a process carries, and whether the last of them is that of *)
(* the step it is in: what an action does to them.                         *)
SameFold(q, p) == q.fold = p.fold /\ q.seeded = p.seeded
Others(p) == IF p.seeded THEN Front(p.fold) ELSE p.fold

(* They are kept by Goto, Leave, ChainHead and Negative,                   *)
LEMMA FoldStays ==
  ASSUME NEW p, IsProc(p)
  PROVE  /\ \A at : SameFold(Goto(p, at), p)
         /\ \A state, ctl : SameFold(Leave(p, state, ctl), p)
         /\ SameFold(ChainHead(p), p)
         /\ \A status, class : SameFold(Negative(p, status, class), p)
PROOF
BY DEF IsProc, ProcFields, Goto, Leave, ChainHead, Negative, SameFold

(* ... by Disposed,                                                        *)
LEMMA DisposedStays ==
  ASSUME NEW p, IsProc(p), NEW step, NEW outcome
  PROVE  SameFold(Disposed(p, step, outcome), p)
PROOF
<1>1. SameFold([p EXCEPT !.at = "act", !.pos = @ + 1, !.tries = 0], p)
  BY DEF IsProc, ProcFields, SameFold
<1> QED BY <1>1, FoldStays DEF Disposed

(* ... and extended by Seeded,                                             *)
LEMMA SeededAdds ==
  ASSUME NEW p, IsProc(p), NEW v
  PROVE  /\ Seeded(p, v).fold = Append(Others(p), v) /\ Seeded(p, v).seeded = TRUE
         /\ IsProc(Seeded(p, v))
PROOF
BY DEF Seeded, Others, IsProc, ProcFields

(* ... and by Ruled.                                                       *)
LEMMA RuledAdds ==
  ASSUME NEW p, IsProc(p), NEW v
  PROVE  Ruled(p, v).fold = Append(Others(p), v) /\ Ruled(p, v).seeded = TRUE
PROOF
<1> DEFINE s == Seeded(p, v)
<1> DEFINE q == [s EXCEPT !.status = v]
<1>1. IsProc(s) /\ s.fold = Append(Others(p), v) /\ s.seeded = TRUE
  BY SeededAdds
<1> HIDE DEF s
<1>2. IsProc(q) /\ SameFold(q, s)
  BY <1>1 DEF IsProc, ProcFields, SameFold
<1>3. Ruled(p, v) = IF v = "pass" THEN Leave(q, "judged", "continue")
                    ELSE IF p.plain THEN Leave(q, "judged", "halt")
                    ELSE Goto(q, "consult")
  BY DEF Ruled, s
<1> HIDE DEF q
<1> QED BY <1>1, <1>2, <1>3, FoldStays DEF SameFold

(* An action inside a step that records no verdict keeps them.             *)
LEMMA RoundFolds ==
  ASSUME Ledger,
         \/ GateSupervision \/ WriteIntent \/ Dispatch \/ Settle \/ AdoptTerminal
         \/ RetryInForce \/ ContinueEscalation \/ ConsultHook \/ AskEscalation
         \/ AskAdjudication \/ StopRequested \/ NoTerminal
  PROVE  SameFold(proc', proc)
PROOF
<1>1. IsProc(proc) /\ ShapedProc
  BY LedgerIs DEF Shape
<1>2. CASE GateSupervision
  <2>1. \/ proc' = ChainHead(proc) \/ proc' = Leave(proc, "aborted", "abort")
        \/ proc' = Goto(proc, "suspend")
    BY <1>2 DEF GateSupervision, GateRuled
  <2> QED BY <1>1, <2>1, FoldStays
<1>3. CASE WriteIntent
  <2>1. proc' = [proc EXCEPT !.at = "dispatch", !.call = NextCall, !.tries = @ + 1]
    BY <1>3 DEF WriteIntent
  <2> QED BY <1>1, <2>1 DEF IsProc, ProcFields, SameFold
<1>4. CASE Dispatch \/ AskEscalation \/ AskAdjudication \/ StopRequested \/ NoTerminal
  <2>1. \E at : proc' = Goto(proc, at)
    BY <1>4 DEF Dispatch, AskEscalation, AskAdjudication, StopRequested, NoTerminal
  <2> QED BY <1>1, <2>1, FoldStays
<1>5. CASE Settle \/ AdoptTerminal
  <2> DEFINE again == [proc EXCEPT !.tries = 1]
  <2>1. IsProc(again) /\ SameFold(again, proc)
    BY <1>1 DEF IsProc, ProcFields, SameFold
  <2>2. \/ proc' = Disposed(proc, This, dev[proc.call].outcome)
        \/ proc' = Disposed(again, This, dev[proc.call].outcome)
    BY <1>5 DEF Settle, AdoptTerminal
  <2> HIDE DEF again
  <2> QED BY <1>1, <2>1, <2>2, DisposedStays DEF SameFold
<1>6. CASE RetryInForce
  <2> DEFINE q == ChainHead(proc)
  <2>1. IsProc(q) /\ SameFold(q, proc)
    BY <1>1, ChainHeadIs, FoldStays DEF SameRound
  <2> HIDE DEF q
  <2>2. proc' = [q EXCEPT !.inForce = @ - 1]
    BY <1>6 DEF RetryInForce, q
  <2> QED BY <2>1, <2>2 DEF IsProc, ProcFields, SameFold
<1>7. CASE ContinueEscalation
  <2>1. PICK n \in Asked(proc) : \E answer \in {AnswerTo(Prefix, log[n].req)} :
       LET spent == [proc EXCEPT !.consumed = @ \union {log[n].req}]
       IN  proc' = CASE answer = "done"         -> ChainHead(spent)
                     [] answer = "cannotRepair" -> Leave(spent, "aborted", "abort")
                     [] answer \in {"pass", "fail", "unknown"} ->
                          [spent EXCEPT !.at = "supersede", !.status = answer]
                     [] answer = NoPending /\ log[n].req \in late ->
                          [spent EXCEPT !.at = "supersede", !.status = "unknown"]
                     [] answer = NoPending /\ log[n].req \notin late ->
                          Goto(proc, "suspend")
    BY <1>7 DEF ContinueEscalation
  <2> DEFINE answer == AnswerTo(Prefix, log[n].req)
  <2> DEFINE spent == [proc EXCEPT !.consumed = @ \union {log[n].req}]
  <2> DEFINE over(status) == [spent EXCEPT !.at = "supersede", !.status = status]
  <2>2. IsProc(spent) /\ SameFold(spent, proc) /\ \A status : SameFold(over(status), proc)
    BY <1>1 DEF IsProc, ProcFields, SameFold
  <2>3. answer \in Rulings
    BY <1>1, AskedRulings, LedgerIs DEF ShapedProc
  <2>4. \/ proc' = ChainHead(spent) \/ proc' = Leave(spent, "aborted", "abort")
        \/ proc' = over(answer) \/ proc' = over("unknown") \/ proc' = Goto(proc, "suspend")
    <3> HIDE DEF answer
    <3>1. proc' = CASE answer = "done"         -> ChainHead(spent)
                     [] answer = "cannotRepair" -> Leave(spent, "aborted", "abort")
                     [] answer \in {"pass", "fail", "unknown"} -> over(answer)
                     [] answer = NoPending /\ log[n].req \in late -> over("unknown")
                     [] answer = NoPending /\ log[n].req \notin late ->
                          Goto(proc, "suspend")
      BY <2>1 DEF answer
    <3> HIDE DEF spent, over
    <3> QED BY <2>3, <3>1 DEF Rulings
  <2> HIDE DEF spent, over
  <2> QED BY <1>1, <2>2, <2>4, FoldStays DEF SameFold
<1>8. CASE ConsultHook
  <2> DEFINE q == ChainHead(proc)
  <2>1. IsProc(q) /\ SameFold(q, proc)
    BY <1>1, ChainHeadIs, FoldStays DEF SameRound
  <2> DEFINE again(k) == [q EXCEPT !.inForce = k]
  <2>2. \A k : SameFold(again(k), proc)
    BY <2>1 DEF IsProc, ProcFields, SameFold
  <2> DEFINE b == BindingFor(proc)
  <2>3. b.action \in {"retry", "continue", "abort", "escalate"} \/ Matching(proc) = { }
    BY <1>8, BindingIs, LedgerIs DEF HandlerBindings, ConsultHook, Inside
  <2>4. \/ proc' = NotHandled(proc) \/ proc' = again(InForce(b))
        \/ proc' = Leave(proc, "judged", "continue")
        \/ proc' = Leave(proc, "aborted", "abort") \/ proc' = Goto(proc, "ask")
    <3> HIDE DEF b
    <3> QED BY <1>8, <2>3 DEF ConsultHook, b
  <2> HIDE DEF q, b, again
  <2> QED BY <1>1, <2>2, <2>4, FoldStays DEF NotHandled
<1> QED BY <1>2, <1>3, <1>4, <1>5, <1>6, <1>7, <1>8

(* A verdict recorded is the one that joins them.                          *)
LEMMA VerdictFolds ==
  ASSUME Ledger, RecordNegative \/ Supersede \/ \E v \in Judgments : Judge(v)
  PROVE  \E ev : /\ Wrote("verdictRecorded", Here, ev) /\ ev.verdict \in Statuses
                 /\ proc'.fold = Append(Others(proc), ev.verdict)
                 /\ proc'.seeded = TRUE
PROOF
<1>1. IsProc(proc) /\ ShapedProc
  BY LedgerIs DEF Shape
<1> DEFINE ev(v) == [type |-> "verdictRecorded", path |-> Here, verdict |-> v,
                     evidence |-> << >>]
<1>2. \A v : RecordVerdict(v) => Wrote("verdictRecorded", Here, ev(v)) /\ ev(v).verdict = v
  BY DEF RecordVerdict, Wrote
<1> HIDE DEF ev
<1>3. ASSUME NEW v \in Judgments, Judge(v)
      PROVE  /\ RecordVerdict(v) /\ proc'.fold = Append(Others(proc), v)
             /\ proc'.seeded = TRUE /\ v \in Statuses
  <2> DEFINE p == [proc EXCEPT !.class = "none"]
  <2>1. IsProc(p) /\ SameFold(p, proc)
    BY <1>1 DEF IsProc, ProcFields, SameFold
  <2> HIDE DEF p
  <2>2. proc' = Ruled(p, v) /\ RecordVerdict(v) /\ v \in Statuses
    BY <1>3, Marks DEF Judge, p
  <2>3. Others(p) = Others(proc)
    BY <2>1 DEF Others, SameFold
  <2> QED BY <2>1, <2>2, <2>3, RuledAdds
<1>4. CASE RecordNegative
  <2>1. proc' = Ruled(proc, proc.status) /\ RecordVerdict(proc.status)
        /\ proc.status \in Statuses
    BY <1>1, <1>4 DEF RecordNegative, ShapedProc
  <2> QED BY <1>1, <1>2, <2>1, RuledAdds
<1>5. CASE Supersede
  <2> DEFINE s == Seeded(proc, proc.status)
  <2>1. proc.status \in Statuses /\ RecordVerdict(proc.status)
    BY <1>1, <1>5 DEF Supersede, ShapedProc
  <2>2. /\ IsProc(s) /\ s.fold = Append(Others(proc), proc.status) /\ s.seeded = TRUE
    BY <1>1, SeededAdds
  <2> HIDE DEF s
  <2>3. proc' = Leave(s, "judged", HalfOpen(proc))
    BY <1>5 DEF Supersede, s
  <2>4. SameFold(proc', s)
    BY <2>2, <2>3, FoldStays
  <2> QED BY <1>2, <2>1, <2>2, <2>4 DEF SameFold
<1> QED BY <1>2, <1>3, <1>4, <1>5

(* A step entered keeps them, unless its ruling is taken up.               *)
LEMMA EnterFolds ==
  ASSUME Ledger, EnterStep
  PROVE  \/ /\ SameFold(proc', proc)
            /\ proc'.at \notin {"consult", "ask", "supersede"}
            /\ ~(proc'.at = "exit" /\ proc'.exitAs = "judged")
         \/ /\ ResumesAtRuling /\ UNCHANGED << log, ck >>
            /\ proc'.fold = Append(Others(proc), RulingOn(Prefix, proc.i))
            /\ proc'.seeded = TRUE
PROOF
<1>1. IsProc(proc)
  BY LedgerIs
<1> DEFINE taken == [proc EXCEPT !.work = IF proc.site = proc.i THEN "none" ELSE @]
<1> DEFINE plain == [Negative(taken, "fail", "none") EXCEPT !.plain = TRUE]
<1> DEFINE cleared == [taken EXCEPT !.class = "none"]
<1> DEFINE v == RulingOn(Prefix, taken.i)
<1>2. /\ IsProc(taken) /\ SameFold(taken, proc) /\ taken.i = proc.i
      /\ IsProc(cleared) /\ SameFold(cleared, proc)
  BY <1>1 DEF IsProc, ProcFields, SameFold
<1>3. /\ (proc' = plain \/ (proc' = AfterEntry(taken) /\ ~(This.badArgs /\ WorkHere = "none")))
      /\ OpenSpan(proc.i) => UNCHANGED << log, ck >>
  BY <1>1 DEF EnterStep
<1> HIDE DEF taken
<1>4. SameFold(plain, proc) /\ plain.at = "record"
  <2> DEFINE n == Negative(taken, "fail", "none")
  <2>1. SameFold(n, proc) /\ IsProc(n) /\ n.at = "record"
    BY <1>2, FoldStays, NegativeIs DEF SameRound, SameFold
  <2> HIDE DEF n
  <2>2. LET q == [n EXCEPT !.plain = TRUE] IN SameFold(q, proc) /\ q.at = "record"
    BY <2>1 DEF IsProc, ProcFields, SameFold
  <2> QED BY <2>2 DEF n
<1>5. CASE proc' = plain
  BY <1>4, <1>5
<1>6. CASE proc' = AfterEntry(taken)
  <2> DEFINE ruled == Ruled(cleared, v)
  <2>1. ruled.fold = Append(Others(cleared), v) /\ ruled.seeded = TRUE
    BY <1>2, RuledAdds
  <2>2. Others(cleared) = Others(proc) /\ v = RulingOn(Prefix, proc.i)
    BY <1>2 DEF Others, SameFold
  <2>3. AfterEntry(taken)
          = CASE WorkHere = "adopt"      -> Goto(taken, "adoptSettle")
              [] WorkHere = "replay"     -> Goto(taken, "act")
              [] WorkHere = "confirm"    -> Goto(taken, "confirm")
              [] WorkHere = "abortRuled" -> Leave(taken, "aborted", "abort")
              [] OTHER -> IF ResumesAtRuling THEN ruled ELSE Goto(taken, "gate")
    BY DEF AfterEntry
  <2> HIDE DEF ruled, v
  <2>4. CASE proc' = ruled /\ ResumesAtRuling
    BY <1>3, <2>1, <2>2, <2>4 DEF ResumesAtRuling
  <2>5. CASE proc' = Leave(taken, "aborted", "abort")
    BY <1>2, <2>5, LeaveIs, FoldStays DEF SameFold
  <2>6. CASE \E at \in {"adoptSettle", "act", "confirm", "gate"} : proc' = Goto(taken, at)
    BY <1>2, <2>6, GotoIs, FoldStays DEF SameFold
  <2> QED BY <1>6, <2>3, <2>4, <2>5, <2>6
<1> QED BY <1>3, <1>5, <1>6

(* A step left keeps them for the next.                                    *)
LEMMA ExitFolds ==
  ASSUME Ledger, ExitStep
  PROVE  \/ proc'.at = "finish" /\ proc.ctl = "abort" /\ proc'.fold = << >>
         \/ /\ proc'.fold = proc.fold /\ proc'.seeded = FALSE
            /\ proc.ctl \in {"continue", "halt"} /\ proc.exitAs = "judged"
PROOF
<1>1. IsProc(proc) /\ Leaving(proc)
  BY LedgerIs DEF Shape, ShapedProc, ExitStep
<1>2. /\ IsProc(NextStep(proc))
      /\ NextStep(proc).fold = proc.fold /\ NextStep(proc).seeded = FALSE
  <2>1. NextStep(proc).fold = proc.fold /\ NextStep(proc).seeded = FALSE
    BY DEF NextStep, Walking, Down
  <2> QED BY <1>1, <2>1, NextStepIs
<1>3. Halted(proc).fold = proc.fold /\ Halted(proc).seeded = FALSE
  BY <1>2, FoldStays DEF Halted, SameFold
<1>4. LET q == [proc EXCEPT !.at = "finish", !.fold = << >>]
      IN  q.at = "finish" /\ q.fold = << >>
  BY <1>1 DEF IsProc, ProcFields
<1>5. \/ proc.ctl = "continue" /\ proc' = NextStep(proc)
      \/ proc.ctl = "halt" /\ proc' = Halted(proc)
      \/ proc.ctl = "abort" /\ proc' = [proc EXCEPT !.at = "finish", !.fold = << >>]
  BY <1>1 DEF ExitStep, Leaving
<1> QED BY <1>1, <1>2, <1>3, <1>4, <1>5 DEF Leaving

(* A segment begins without any.                                           *)
LEMMA FreshFolds ==
  ASSUME StartRun \/ Resume
  PROVE  proc'.fold = << >> /\ proc'.seeded = FALSE
PROOF
<1>1. /\ IsProc(Down) /\ Down.fold = << >> /\ Down.seeded = FALSE
      /\ \A base, work : Walking(base, work).fold = << >>
                          /\ Walking(base, work).seeded = FALSE
  BY DownIs DEF Down, Walking
<1>2. CASE StartRun
  BY <1>1, <1>2, StartDoes
<1>3. CASE Resume
  <2> DEFINE c == ck.frontier.intent
  <2> DEFINE chain == log[Max({ n \in DOMAIN log : /\ log[n].type = "actionIntent"
                                                    /\ log[n].call = c })].chain
  <2> DEFINE kept(work) == [Walking(Len(log), work) EXCEPT
                              !.site = StepAt(ck.frontier.path), !.call = c, !.pos = chain]
  <2>1. PICK work : ResumeWith(work)
    BY <1>3 DEF Resume
  <2>2. \/ proc' = Goto(Down, "adjudicate") \/ proc' = Goto(Down, "suspend")
        \/ proc' = Walking(Len(log), "none") \/ proc' = kept(work)
    <3>1. proc' = CASE work = "ask"     -> Goto(Down, "adjudicate")
                    [] work = "reawait" -> Goto(Down, "suspend")
                    [] work = "none"    -> Walking(Len(log), "none")
                    [] OTHER -> kept(work)
      BY <2>1 DEF ResumeWith
    <3> HIDE DEF kept
    <3> QED BY <3>1
  <2>3. kept(work).fold = << >> /\ kept(work).seeded = FALSE
    <3> HIDE DEF c, chain
    <3> QED BY DEF Walking, Down
  <2> HIDE DEF kept
  <2> QED BY <1>1, <2>2, <2>3, FoldStays DEF SameFold
<1> QED BY <1>2, <1>3

(* A process goes on inside its step, without a verdict or with one; one   *)
(* that leaves judged comes from a consultation or, without assertions,    *)
(* from a settlement.                                                      *)
Rolls ==
  /\ proc.at \in Inside /\ proc'.at \in Inside
  /\ proc'.i = proc.i /\ proc'.base = proc.base /\ SameFold(proc', proc)
  /\ \/ UNCHANGED << log, ck >>
     \/ \E ev : Writes(ev) /\ ev.type \in {"actionIntent", "actionSettled", "handlerTriggered"}
  /\ proc'.at \in {"consult", "ask", "supersede"} => proc.at = "consult"
  /\ proc'.at = "exit" /\ proc'.exitAs = "judged" =>
       proc.at = "consult" \/ (~Flow[proc.i].asserts /\ Adds("actionSettled"))
Judges ==
  /\ proc.at \in Inside /\ proc'.at \in Inside
  /\ proc'.i = proc.i /\ proc'.base = proc.base
  /\ \E ev : /\ Writes(ev) /\ ev.type = "verdictRecorded" /\ ev.verdict \in Statuses
             /\ proc'.fold = Append(Others(proc), ev.verdict)
  /\ proc'.seeded = TRUE
Begins == (StartRun \/ Resume) /\ proc'.at = "walk"

(* What a step of the system does to the verdicts a process carries.       *)
LEMMA FoldMoves ==
  ASSUME Ledger, [Next]_vars
  PROVE  \/ Listens \/ Stops \/ Rolls \/ Judges \/ Begins
         \/ AdoptStep \/ EnterStep \/ ExitStep \/ RecordBlocked
PROOF
<1>1. IsProc(proc) /\ ShapedProc /\ (proc.at \in Inside => proc.i \in Steps)
  BY LedgerIs DEF Shape
<1>2. CASE GateSupervision
  <2>1. /\ proc.at = "gate" /\ SameRound(proc', proc) /\ SameFold(proc', proc)
    BY <1>1, <1>2, GateDoes, RoundFolds DEF Within
  <2>2. \/ proc'.at = "suspend"
        \/ /\ UNCHANGED << log, ck >> /\ proc'.at \in {"act", "exit"}
           /\ proc'.at = "exit" => proc'.exitAs = "aborted"
    BY <1>1, <1>2, GateDoes DEF Leaves, Silent
  <2> QED BY <2>1, <2>2 DEF Stops, Rolls, SameRound, Inside
<1>3. CASE WriteIntent
  <2>1. /\ proc.at = "act" /\ proc'.at = "dispatch" /\ SameFold(proc', proc)
        /\ proc'.i = proc.i /\ proc'.base = proc.base
    BY <1>1, <1>3, WriteIntentDoes, RoundFolds
  <2>2. PICK ev : Wrote("actionIntent", Here, ev)
    BY <1>1, <1>3, WriteIntentDoes
  <2>3. Writes(ev) /\ ev.type = "actionIntent"
    BY <2>2, WroteWrites DEF Wrote
  <2> QED BY <2>1, <2>3 DEF Rolls, Inside
<1>4. CASE Dispatch
  <2>1. /\ proc.at = "dispatch" /\ proc'.at = "wait" /\ SameRound(proc', proc)
        /\ UNCHANGED << log, ck >> /\ SameFold(proc', proc)
    BY <1>1, <1>4, DispatchDoes, RoundFolds DEF Within
  <2> QED BY <2>1 DEF Rolls, SameRound, Inside
<1>5. CASE Settle \/ AdoptTerminal
  <2>1. /\ proc.at \in {"wait", "adoptSettle"} /\ SameRound(proc', proc)
        /\ proc'.at \in {"judge", "act", "confirm", "record", "exit"}
        /\ proc'.at = "exit" /\ proc'.exitAs = "judged" => GoesOn(proc')
        /\ SameFold(proc', proc)
    BY <1>1, <1>5, SettleDoes, RoundFolds DEF Within, Leaves, GoesOn
  <2>2. PICK ev : Wrote("actionSettled", Here, ev)
    BY <1>1, <1>5, SettleDoes
  <2>3. Writes(ev) /\ ev.type = "actionSettled"
    BY <2>2, WroteWrites DEF Wrote
  <2>4. GoesOn(proc') => ~Flow[proc.i].asserts
    BY <1>1, <1>5, SettleSays
  <2> QED BY <2>1, <2>3, <2>4 DEF Rolls, Adds, SameRound, Inside
<1>6. CASE RecordNegative \/ Supersede \/ \E v \in Judgments : Judge(v)
  <2>1. /\ proc.at \in {"judge", "confirm", "record", "supersede"}
        /\ SameRound(proc', proc) /\ proc'.at \in {"consult", "exit"}
    BY <1>1, <1>6, VerdictDoes DEF Within, Leaves
  <2>2. PICK ev : /\ Wrote("verdictRecorded", Here, ev) /\ ev.verdict \in Statuses
                  /\ proc'.fold = Append(Others(proc), ev.verdict)
                  /\ proc'.seeded = TRUE
    BY <1>6, VerdictFolds
  <2>3. Writes(ev) /\ ev.type = "verdictRecorded"
    BY <2>2, WroteWrites DEF Wrote
  <2> QED BY <2>1, <2>2, <2>3 DEF Judges, SameRound, Inside
<1>7. CASE RetryInForce \/ ContinueEscalation
  <2>1. proc.at = "consult" /\ SameRound(proc', proc) /\ UNCHANGED << log, ck >>
        /\ SameFold(proc', proc) /\ proc'.at \in {"act", "exit", "supersede", "suspend"}
    BY <1>1, <1>7, RetryDoes, ContinueDoes, AskedRulings, RoundFolds, LedgerIs
       DEF Within, Silent, Leaves
  <2> QED BY <2>1 DEF Rolls, SameRound, Inside, Stops
<1>8. CASE ConsultHook
  <2>1. proc.at = "consult" /\ proc.i \in Steps
    BY <1>1, <1>8 DEF ConsultHook, Inside
  <2>2. /\ SameRound(proc', proc) /\ proc'.at \in {"act", "ask", "exit"}
        /\ SameFold(proc', proc)
    BY <1>1, <1>8, <2>1, ConsultDoes, RoundFolds DEF Within, Leaves
  <2>3. UNCHANGED << log, ck >> \/ \E ev : Wrote("handlerTriggered", Here, ev)
    BY <1>1, <1>8, <2>1, ConsultDoes DEF Silent
  <2>4. UNCHANGED << log, ck >> \/ \E ev : Writes(ev) /\ ev.type = "handlerTriggered"
    BY <2>3, WroteWrites DEF Wrote
  <2> QED BY <2>1, <2>2, <2>4 DEF Rolls, SameRound, Inside
<1>9. CASE AskEscalation \/ AskAdjudication
  BY <1>1, <1>9, AskDoes, AdjudicateDoes DEF Stops
<1>10. CASE FinishRun \/ SuspendRun \/ Crash
  BY <1>10, FinishDoes, SuspendDoes, DownIs DEF Crash, Stops
<1>11. CASE StartRun \/ Resume
  BY <1>11, StartDoes, ResumeDoes, WalkingIs DEF Stops, Begins
<1>12. CASE StopRequested \/ NoTerminal
  BY <1>1, <1>12, DisruptionDoes DEF Stops
<1>13. CASE \E d \in Answers : Respond(d)
  <2>1. PICK d \in Answers : Respond(d)
    BY <1>13
  <2>2. PICK ev : /\ Wrote("humanResponded", ck.pending.path, ev)
                  /\ ev.req = ck.pending.req /\ ev.purpose = ck.pending.purpose
    BY <2>1, RespondDoes
  <2>3. ck.pending # NoPending /\ UNCHANGED proc
    BY <2>1, RespondDoes
  <2>4. Writes(ev) /\ Responds(ev)
    BY <2>2, <2>3, WroteWrites DEF Wrote, Responds
  <2> QED BY <2>3, <2>4 DEF Listens
<1>14. CASE DeadlinePasses \/ UNCHANGED vars
             \/ \E c \in Calls, o \in Outcomes : DeviceFinishes(c, o)
  BY <1>14 DEF DeviceFinishes, DeadlinePasses, vars, Listens
<1> QED BY <1>2, <1>3, <1>4, <1>5, <1>6, <1>7, <1>8, <1>9, <1>10, <1>11, <1>12, <1>13,
           <1>14 DEF Next, Engine, Disruption, Environment

-----------------------------------------------------------------------------
(* A resumed segment begins with its mark.  No process that walks has the  *)
(* verdict of its step yet, every consulted one has; one without has the   *)
(* verdicts of earlier segments only, and leaves judged after a settlement *)
(* of its own.  No step that is to be recorded blocked is ruled on.        *)
Based ==
  proc.at \in Inside \union {"walk", "pairs"} /\ proc.base > 0 =>
    proc.base < Len(log) /\ log[proc.base + 1].type = "runResumed"
Seeding ==
  /\ proc.at = "walk" => proc.seeded = FALSE
  /\ proc.at \in Inside => proc.seeded \in BOOLEAN
  /\ proc.at \in {"consult", "ask", "supersede"} => proc.seeded = TRUE
  /\ \A i \in Steps : proc.at \in Inside /\ proc.i = i /\ proc.seeded = FALSE =>
       /\ \A n \in At("verdictRecorded", i) : n <= proc.base
       /\ proc.at = "exit" /\ proc.exitAs = "judged" =>
            /\ ~Flow[i].asserts
            /\ \E m \in At("actionSettled", i) : m > proc.base
  /\ proc.at = "pairs" => \A k \in Steps : k >= proc.i => Verdict(k) = NoVerdict

(* The mark stays where it is.                                             *)
LEMMA BasedNext ==
  ASSUME Ledger, Based, [Next]_vars
  PROVE  Based'
PROOF
<1>1. /\ IsProc(proc) /\ IsSequence(log) /\ proc.base \in 0 .. Len(log) /\ Len(log) \in Nat
  BY LedgerIs DEF Shape, ShapedLedger, IsSequence
<1> SUFFICES ASSUME proc'.at \in Inside \union {"walk", "pairs"}, proc'.base > 0
             PROVE  proc'.base < Len(log') /\ log'[proc'.base + 1].type = "runResumed"
  BY DEF Based
<1>2. CASE proc.at \in Inside \union {"walk", "pairs"} /\ proc'.base = proc.base
  <2>1. proc.base < Len(log) /\ log[proc.base + 1].type = "runResumed"
    BY <1>2 DEF Based
  <2>2. CASE UNCHANGED << log, ck >>
    BY <1>2, <2>1, <2>2
  <2>3. CASE \E ev : Writes(ev)
    BY <1>1, <1>2, <2>1, <2>3, WriteIs, Grows
  <2> QED BY <2>2, <2>3, StepWrites
<1>3. CASE Listens
  BY <1>2, <1>3 DEF Listens
<1>4. CASE Stops
  BY <1>4 DEF Stops, Inside
<1>5. CASE Rolls \/ Judges
  BY <1>2, <1>5 DEF Rolls, Judges
<1>6. CASE Begins
  <2>1. CASE StartRun
    BY <2>1, StartDoes, WalkingIs
  <2>2. CASE Resume
    <3>1. proc'.base = Len(log)
      BY <1>6, <2>2, ResumeDoes, WalkingIs DEF Begins
    <3>2. PICK ev : Wrote("runResumed", RootPath(MetaHash), ev)
      BY <2>2, ResumeDoes
    <3> QED BY <1>1, <3>1, <3>2, Grows DEF Wrote
  <2> QED BY <1>6, <2>1, <2>2 DEF Begins
<1>7. CASE AdoptStep
  BY <1>1, <1>2, <1>7, AdoptDoes
<1>8. CASE EnterStep
  BY <1>1, <1>2, <1>8, EnterStepDoes
<1>9. CASE ExitStep
  <2>1. proc.at = "exit" /\ Leaving(proc)
    BY <1>9, LedgerIs DEF ExitStep, Shape, ShapedProc
  <2> QED BY <1>1, <1>2, <1>9, <2>1, ExitDoes DEF Leaving, Inside
<1>10. CASE RecordBlocked
  BY <1>1, <1>2, <1>10, PairsDoes DEF IsProc, ProcFields
<1> QED BY <1>3, <1>4, <1>5, <1>6, <1>7, <1>8, <1>9, <1>10, FoldMoves

(* A step takes its verdict up or gives it.                                *)
LEMMA SeedingNext ==
  ASSUME Ledger, Ledger', Unseen, Attested, Seeding, [Next]_vars
  PROVE  Seeding'
PROOF
<1>1. /\ IsProc(proc) /\ IsSequence(log) /\ proc.base \in 0 .. Len(log) /\ Len(log) \in Nat
      /\ proc.i \in 1 .. Len(Flow) + 1
      /\ proc.at \in Inside => proc.i \in Steps
  BY LedgerIs DEF Shape, ShapedLedger, ShapedProc, IsSequence
<1>2. ASSUME NEW k \in Steps, \A ev : Writes(ev) => ev.type # "verdictRecorded" \/ k # proc.i
      PROVE  /\ At("verdictRecorded", k)' = At("verdictRecorded", k)
             /\ Verdict(k)' = Verdict(k)
  <2>1. CASE UNCHANGED << log, ck >>
    BY <2>1 DEF At, Verdict
  <2> QED BY <1>2, <2>1, StepWrites, VerdictMoves
<1>3. ASSUME NEW k \in Steps
      PROVE  /\ At("actionSettled", k) \subseteq At("actionSettled", k)'
  <2>1. CASE UNCHANGED << log, ck >>
    BY <2>1 DEF At
  <2>2. ASSUME NEW ev, Writes(ev)
        PROVE  At("actionSettled", k) \subseteq At("actionSettled", k)'
    BY <1>1, <2>2, WriteIs, AtGrows, AtStays
  <2> QED BY <2>1, <2>2, StepWrites
<1> HIDE DEF Verdict
<1>4. ASSUME NEW ev, Writes(ev), ev.type = "verdictRecorded", proc.at \in {"walk", "pairs", "exit", "down"}
      PROVE  FALSE
  <2>1. PICK i \in Steps : InStep(ev, i)
    BY <1>4, WriteIs
  <2> QED BY <1>4, <2>1 DEF InStep, Enters, Intends, Settles, Rules, Triggered, Exits
<1>5. \A e, f : Writes(e) /\ Writes(f) => e = f
  BY <1>1, WriteIs, Grows
<1>6. CASE Listens
  <2>1. UNCHANGED proc
    BY <1>6 DEF Listens
  <2>2. \A ev : Writes(ev) => ev.type # "verdictRecorded"
    <3> SUFFICES ASSUME NEW ev, Writes(ev)
                 PROVE  ev.type # "verdictRecorded"
      OBVIOUS
    <3>1. ~UNCHANGED << log, ck >>
      BY <1>1, WriteIs, Grows
    <3> QED BY <1>5, <1>6, <3>1 DEF Listens, Responds
  <2> QED BY <1>1, <1>2, <1>3, <2>1, <2>2 DEF Seeding
<1>7. CASE Stops
  BY <1>7 DEF Stops, Seeding, Inside
<1>8. CASE Rolls
  <2>1. \A ev : Writes(ev) => ev.type # "verdictRecorded"
    <3> SUFFICES ASSUME NEW ev, Writes(ev)
                 PROVE  ev.type # "verdictRecorded"
      OBVIOUS
    <3>1. ~UNCHANGED << log, ck >>
      BY <1>1, WriteIs, Grows
    <3> QED BY <1>5, <1>8, <3>1 DEF Rolls
  <2>2. /\ proc.at \in Inside /\ proc'.at \in Inside /\ proc'.i = proc.i
        /\ proc'.base = proc.base /\ proc'.seeded = proc.seeded /\ proc.i \in Steps
    BY <1>1, <1>8 DEF Rolls, SameFold
  <2>3. proc'.at \in {"consult", "ask", "supersede"} => proc'.seeded = TRUE
    BY <1>8, <2>2 DEF Rolls, Seeding
  <2>4. ASSUME proc'.seeded = FALSE, NEW i \in Steps, i = proc'.i
        PROVE  \A n \in At("verdictRecorded", i)' : n <= proc'.base
    BY <1>2, <2>1, <2>2, <2>4 DEF Seeding
  <2>5. ASSUME proc'.seeded = FALSE, proc'.at = "exit", proc'.exitAs = "judged",
               NEW i \in Steps, i = proc'.i
        PROVE  /\ ~Flow[i].asserts
               /\ \E m \in At("actionSettled", i)' : m > proc'.base
    <3>1. ~Flow[proc.i].asserts /\ Adds("actionSettled")
      BY <1>8, <2>2, <2>5 DEF Rolls, Seeding
    <3>2. PICK ev : Writes(ev) /\ ev.type = "actionSettled"
      BY <3>1 DEF Adds
    <3>3. InStep(ev, i) /\ i = proc.i /\ ev.path = StepPath(i)
      BY <2>2, <2>5, <3>2, WriteIs
    <3>4. At("actionSettled", i)' = At("actionSettled", i) \union {Len(log) + 1}
      BY <1>1, <3>2, <3>3, WriteIs, AtGrows
    <3>5. Len(log) + 1 \in At("actionSettled", i)'
      BY <3>4
    <3>6. Len(log) + 1 > proc.base
      BY <1>1
    <3> QED BY <2>2, <3>1, <3>3, <3>5, <3>6
  <2>6. proc'.at # "walk" /\ proc'.at # "pairs" /\ proc'.seeded \in BOOLEAN
    BY <2>2 DEF Inside, Seeding
  <2> QED BY <2>3, <2>4, <2>5, <2>6 DEF Seeding
<1>9. CASE Judges
  BY <1>9 DEF Judges, Seeding, Inside
<1>10. CASE Begins
  <2>1. proc'.at = "walk" /\ proc'.seeded = FALSE
    BY <1>10, FreshFolds DEF Begins
  <2> QED BY <2>1 DEF Seeding, Inside
<1>11. CASE AdoptStep
  <2>1. proc'.at = "walk" /\ proc'.seeded = proc.seeded /\ proc.at = "walk"
    <3> DEFINE v == RecordOf(proc.i).verdict
    <3> HIDE DEF v
    <3>1. proc' = [proc EXCEPT !.i = proc.i + 1, !.fold = Adopted(proc.fold, v)]
          /\ proc.at = "walk"
      BY <1>11 DEF AdoptStep, v
    <3> QED BY <1>1, <3>1 DEF IsProc, ProcFields
  <2> QED BY <2>1 DEF Seeding, Inside
<1>12. CASE EnterStep
  <2>1. /\ proc.at = "walk" /\ proc'.i = proc.i /\ proc'.base = proc.base /\ proc.i \in Steps
        /\ proc'.at \in Inside
    <3>1. /\ proc.at = "walk" /\ proc'.i = proc.i /\ proc'.base = proc.base
          /\ proc.i <= Len(Flow) /\ proc'.at \in Inside
      BY <1>1, <1>12, EnterStepDoes DEF Inside
    <3> QED BY <1>1, <3>1, StepsAre
  <2>2. \A i \in Steps : i = proc.i => \A n \in At("verdictRecorded", i) : n <= proc.base
    BY <2>1 DEF Unseen, Ahead
  <2>3. \A i \in Steps : At("verdictRecorded", i)' = At("verdictRecorded", i)
    BY <1>2, <1>4, <2>1
  <2>4. proc.seeded = FALSE
    BY <2>1 DEF Seeding
  <2>5. CASE /\ proc'.seeded = FALSE
             /\ proc'.at \notin {"consult", "ask", "supersede"}
             /\ ~(proc'.at = "exit" /\ proc'.exitAs = "judged")
    BY <2>1, <2>2, <2>3, <2>5 DEF Seeding, Inside
  <2>6. CASE proc'.seeded = TRUE
    BY <2>1, <2>6 DEF Seeding, Inside
  <2> QED BY <1>12, <2>4, <2>5, <2>6, EnterFolds DEF SameFold
<1>13. CASE ExitStep
  <2>1. CASE proc'.at = "finish"
    BY <2>1 DEF Seeding, Inside
  <2>2. CASE proc'.at # "finish"
    <3>1. /\ proc'.seeded = FALSE /\ proc.ctl \in {"continue", "halt"}
          /\ proc.at = "exit" /\ proc.i \in Steps
      BY <1>1, <1>13, <2>2, ExitFolds DEF ExitStep, Inside
    <3>2. proc'.at \in {"walk", "pairs"} /\ proc'.i = proc.i + 1
      BY <1>1, <1>13, <2>2, <3>1, ExitDoes
    <3>3. ASSUME NEW k \in Steps, k >= proc.i + 1
          PROVE  Verdict(k)' = NoVerdict
      <4>1. k > proc.i
        BY <1>1, <3>3, StepsAre
      <4>2. ~AdoptableIn(ck, proc.i)
        BY <3>1, LedgerIs DEF Inside
      <4> QED BY <1>2, <1>4, <3>1, <4>1, <4>2 DEF Attested
    <3> QED BY <3>1, <3>2, <3>3 DEF Seeding, Inside
  <2> QED BY <2>1, <2>2
<1>14. CASE RecordBlocked
  <2>1. /\ proc.at = "pairs" /\ proc'.at = "pairs"
        /\ proc'.i = proc.i \/ proc'.i = proc.i + 1
    BY <1>1, <1>14, PairsDoes DEF IsProc, ProcFields
  <2>2. \A k \in Steps : k >= proc'.i => k >= proc.i
    BY <1>1, <2>1, StepsAre
  <2>3. \A k \in Steps : Verdict(k)' = Verdict(k)
    BY <1>2, <1>4, <2>1
  <2> QED BY <2>1, <2>2, <2>3 DEF Seeding, Inside
<1> QED BY <1>6, <1>7, <1>8, <1>9, <1>10, <1>11, <1>12, <1>13, <1>14, FoldMoves


-----------------------------------------------------------------------------
(* The values of a sequence that is extended or taken apart at its end.    *)
LEMMA RangeAppended ==
  ASSUME NEW S, NEW s \in Seq(S), NEW v
  PROVE  /\ Range(Append(s, v)) = Range(s) \union {v}
         /\ Front(Append(s, v)) = s /\ Last(Append(s, v)) = v /\ Append(s, v) # << >>
PROOF
<1>1. /\ IsSequence(s) /\ DOMAIN s = 1 .. Len(s) /\ Len(s) \in Nat
  <2>1. s \in [1 .. Len(s) -> Range(s)] /\ Len(s) \in Nat
    BY DEF Range
  <2> QED BY <2>1 DEF IsSequence
<1>2. /\ DOMAIN Append(s, v) = 1 .. Len(s) + 1 /\ Len(Append(s, v)) = Len(s) + 1
      /\ \A n \in DOMAIN s : Append(s, v)[n] = s[n]
      /\ Append(s, v)[Len(s) + 1] = v /\ Append(s, v) # << >>
  BY <1>1, AppendIs
<1>3. Range(Append(s, v)) = Range(s) \union {v}
  BY <1>1, <1>2 DEF Range
<1>4. Front(Append(s, v)) = s
  BY <1>1, <1>2 DEF Front
<1> QED BY <1>2, <1>3, <1>4 DEF Last

(* ... and when its last value is dropped.                                *)
LEMMA RangeFront ==
  ASSUME NEW S, NEW s \in Seq(S), s # << >>
  PROVE  /\ Range(s) = Range(Front(s)) \union {Last(s)}
         /\ Last(s) \in S /\ Front(s) \in Seq(S)
PROOF
<1>1. /\ DOMAIN s = 1 .. Len(s) /\ Len(s) \in Nat \ {0} /\ \A n \in DOMAIN s : s[n] \in S
  OBVIOUS
<1>2. /\ DOMAIN Front(s) = 1 .. Len(s) - 1 /\ \A n \in 1 .. Len(s) - 1 : Front(s)[n] = s[n]
  BY <1>1 DEF Front
<1>3. Range(s) = Range(Front(s)) \union {Last(s)}
  BY <1>1, <1>2 DEF Range, Last
<1> QED BY <1>1, <1>3, FrontTyped DEF Last

(* A round without a verdict that a resume found done stays so.            *)
LEMMA UnheardStays ==
  ASSUME IsSequence(log), NEW ev, Write(ev), NEW n \in DOMAIN log
  PROVE  Unheard(n)' <=> Unheard(n)
PROOF
<1> DEFINE i == StepAt(log[n].path)
<1> DEFINE V == Before(At("verdictRecorded", i), n)
<1>1. /\ log'[n] = log[n] /\ n \in 1 .. Len(log) + 1 /\ Len(log) \in Nat
      /\ \A m \in DOMAIN log : log'[m] = log[m]
      /\ DOMAIN log = 1 .. Len(log)
  BY Grows
<1>2. i' = i
  BY <1>1 DEF StepAt
<1>3. V' = V /\ V \in SUBSET (1 .. Len(log))
  <2>1. \A k : /\ Before(At("verdictRecorded", k), n)' = Before(At("verdictRecorded", k), n)
               /\ Before(At("verdictRecorded", k), n) \in SUBSET (1 .. Len(log))
    BY <1>1, BeforeStays
  <2> QED BY <1>2, <2>1
<1>4. Overtaken(n)' <=> Overtaken(n)
  BY OvertakenStays
<1>5. Overtaken(n) => V # { }
  BY DEF Overtaken
<1>6. Unheard(n) <=> /\ log[n].type = "stepExited" /\ Overtaken(n) /\ ~Flow[i].asserts
                     /\ \E r \in Max(V) + 1 .. n - 1 : log[r].type = "runResumed"
  BY DEF Unheard
<1>7. Unheard(n)' <=> /\ log'[n].type = "stepExited" /\ Overtaken(n)' /\ ~Flow[i'].asserts
                      /\ \E r \in Max(V') + 1 .. n - 1 : log'[r].type = "runResumed"
  BY DEF Unheard
<1>8. V # { } => Max(V) \in 1 .. Len(log)
  BY <1>1, <1>3, MaxIs
<1> HIDE DEF V, i
<1>9. V # { } => \A r \in Max(V) + 1 .. n - 1 : r \in DOMAIN log
  BY <1>1, <1>8
<1> QED BY <1>1, <1>2, <1>3, <1>4, <1>5, <1>6, <1>7, <1>9

(* The verdicts of the steps before i.                                     *)
RuledBelow(i) == { Verdict(k) : k \in { k \in Steps : k < i } } \ {NoVerdict}

(* Unless a round went by unheard, a process carries the verdicts of the   *)
(* steps before its own, each of them heard, and then that of its own.     *)
AllHeard == \A n \in DOMAIN log : ~Unheard(n)
Heard ==
  AllHeard =>
    /\ \A i \in 1 .. Len(Flow) + 1 : proc.at \in {"walk", "pairs"} /\ proc.i = i =>
         Range(proc.fold) = RuledBelow(i)
    /\ \A i \in Steps : proc.at \in Inside /\ proc.i = i =>
         /\ Range(Others(proc)) = RuledBelow(i)
         /\ proc.seeded = TRUE => proc.fold # << >> /\ Last(proc.fold) = Verdict(i)

(* A round that went by unheard stays in the ledger.                       *)
LEMMA AllHeardBefore ==
  ASSUME Ledger, [Next]_vars, AllHeard'
  PROVE  AllHeard
PROOF
<1>1. IsSequence(log)
  BY LedgerIs
<1>2. CASE UNCHANGED << log, ck >>
  BY <1>2 DEF AllHeard, Unheard, Overtaken, At
<1>3. ASSUME NEW ev, Writes(ev)
      PROVE  AllHeard
  <2>1. \A n \in DOMAIN log : n \in DOMAIN log'
    BY <1>1, <1>3, WriteIs, Grows
  <2>2. \A n \in DOMAIN log : Unheard(n)' <=> Unheard(n)
    BY <1>1, <1>3, WriteIs, UnheardStays
  <2> QED BY <2>1, <2>2 DEF AllHeard
<1> QED BY <1>2, <1>3, StepWrites

(* The verdicts before a step stay when none of them is written.           *)
LEMMA RuledBelowStays ==
  ASSUME NEW i, \A k \in Steps : k < i => Verdict(k)' = Verdict(k)
  PROVE  RuledBelow(i)' = RuledBelow(i)
PROOF
<1> HIDE DEF Verdict
<1>1. RuledBelow(i)' = { Verdict(k)' : k \in { k \in Steps : k < i } } \ {NoVerdict}
  BY DEF RuledBelow
<1> QED BY <1>1 DEF RuledBelow

(* The next step adds its own verdict.                                     *)
LEMMA RuledBelowGrows ==
  ASSUME NEW i \in Steps
  PROVE  RuledBelow(i + 1) = RuledBelow(i) \union ({Verdict(i)} \ {NoVerdict})
PROOF
<1>1. { k \in Steps : k < i + 1 } = { k \in Steps : k < i } \union {i}
  BY StepsAre
<1> HIDE DEF Verdict
<1> QED BY <1>1 DEF RuledBelow

(* A step that leaves judged without a verdict of its segment goes by      *)
(* unheard, if it was ever ruled on.                                       *)
LEMMA ExitsHeard ==
  ASSUME Ledger, Based, Seeding, ExitStep, AllHeard', proc.exitAs = "judged",
         proc.seeded = FALSE, NEW i \in Steps, i = proc.i
  PROVE  Verdict(i) = NoVerdict
PROOF
<1>1. /\ IsSequence(log) /\ Len(log) \in Nat /\ IsProc(proc) /\ proc.at = "exit"
      /\ proc.base \in 0 .. Len(log)
  BY LedgerIs DEF ExitStep, IsSequence
<1>2. PICK ev : Wrote("stepExited", StepPath(i), ev) /\ ev.state = "judged"
  <2>1. proc.ctl \in {"continue", "halt", "abort"}
    BY <1>1, LedgerIs DEF Shape, ShapedProc, Leaving
  <2>2. PICK ev : Wrote("stepExited", Here, ev) /\ ev.state = proc.exitAs
    BY <1>1, <2>1, ExitDoes
  <2> QED BY <2>2 DEF Here
<1>3. Write(ev) /\ ev.type = "stepExited" /\ ev.path = StepPath(i) /\ ev.state = "judged"
  BY <1>2 DEF Wrote
<1> PICK n : n = Len(log) + 1
  OBVIOUS
<1>4. /\ n \in Nat /\ n \in 1 .. Len(log) + 1 /\ log'[n] = ev /\ n \in DOMAIN log'
      /\ \A m \in DOMAIN log : log'[m] = log[m]
      /\ DOMAIN log = 1 .. Len(log)
  BY <1>1, <1>3, Grows
<1> DEFINE V == At("verdictRecorded", i)
<1> DEFINE S == At("actionSettled", i)
<1> SUFFICES ASSUME V # { }
             PROVE  FALSE
  BY <1>1, UnruledIs
<1>5. /\ V \in SUBSET (1 .. Len(log)) /\ S \in SUBSET (1 .. Len(log))
  BY <1>1, AtIs
<1>6. /\ \A m \in V : m <= proc.base
      /\ ~Flow[i].asserts /\ \E m \in S : m > proc.base
  BY <1>1 DEF Seeding, Inside
<1>7. \A type : Before(At(type, i), n)' = At(type, i)
  <2>1. \A type : Before(At(type, i), n)' = Before(At(type, i), n)
    BY <1>1, <1>3, <1>4, BeforeStays
  <2>2. \A type : Before(At(type, i), n) = At(type, i)
    BY <1>1, BeforeIs DEF At
  <2> QED BY <2>1, <2>2
<1>8. StepAt(log'[n].path) = i
  BY <1>3, <1>4, StepAtIs
<1> HIDE DEF V, S
<1>9. PICK v \in V : v = Max(V)
  BY <1>1, <1>5, MaxIs
<1>10. PICK s \in S : s = Max(S) /\ \A m \in S : m <= s
  BY <1>1, <1>5, <1>6, MaxIs
<1>11. /\ v \in 1 .. Len(log) /\ s \in 1 .. Len(log) /\ v <= proc.base /\ s > proc.base
       /\ proc.base > 0 /\ v < s
  <2>1. v \in 1 .. Len(log) /\ s \in 1 .. Len(log) /\ v <= proc.base
    BY <1>5, <1>6
  <2>2. PICK m \in S : m > proc.base
    BY <1>6
  <2>3. m <= s /\ m \in 1 .. Len(log)
    BY <1>5, <1>10
  <2> QED BY <1>1, <2>1, <2>2, <2>3
<1>12. /\ proc.base + 1 \in DOMAIN log /\ log[proc.base + 1].type = "runResumed"
       /\ proc.base + 1 \in v + 1 .. n - 1
  <2>1. proc.base < Len(log) /\ log[proc.base + 1].type = "runResumed"
    BY <1>1, <1>11 DEF Based, Inside
  <2> QED BY <1>1, <1>4, <1>11, <2>1
<1> DEFINE j == StepAt(log[n].path)
<1> DEFINE W == Before(At("verdictRecorded", j), n)
<1> DEFINE T == Before(At("actionSettled", j), n)
<1>13. j' = i /\ W' = V /\ T' = S
  <2>1. \A type, k : k = i => Before(At(type, k), n)' = At(type, i)
    BY <1>7
  <2>2. j' = i
    BY <1>8 DEF StepAt
  <2> QED BY <2>1, <2>2 DEF V, S
<1>14. Overtaken(n)'
  <2>1. Overtaken(n)' <=>
          (log'[n].state = "judged" /\ W' # { } /\ T' # { } /\ Max(W') < Max(T'))
    BY DEF Overtaken
  <2> HIDE DEF j, W, T
  <2> QED BY <1>3, <1>4, <1>9, <1>10, <1>11, <1>13, <2>1
<1>15. Unheard(n)'
  <2>1. Unheard(n)' <=>
          /\ log'[n].type = "stepExited" /\ Overtaken(n)' /\ ~Flow[j'].asserts
          /\ \E r \in Max(W') + 1 .. n - 1 : log'[r].type = "runResumed"
    BY DEF Unheard
  <2>2. log'[proc.base + 1].type = "runResumed"
    BY <1>4, <1>12
  <2> HIDE DEF j, W
  <2> QED BY <1>3, <1>4, <1>6, <1>9, <1>12, <1>13, <1>14, <2>1, <2>2
<1> QED BY <1>4, <1>15 DEF AllHeard


(* Every step hears the verdicts it passes.                                *)
LEMMA HeardNext ==
  ASSUME Ledger, Ledger', Ruling, Folded, Unseen, Attested, Based, Seeding, Heard,
         [Next]_vars
  PROVE  Heard'
PROOF
<1>1. /\ IsProc(proc) /\ IsSequence(log) /\ proc.base \in 0 .. Len(log) /\ Len(log) \in Nat
      /\ proc.i \in 1 .. Len(Flow) + 1
      /\ proc.at \in Inside => proc.i \in Steps
      /\ proc.fold \in Seq(Statuses)
  BY LedgerIs DEF Shape, ShapedLedger, ShapedProc, IsSequence, Folded
<1> SUFFICES ASSUME AllHeard'
             PROVE  /\ \A i \in 1 .. Len(Flow) + 1 :
                         proc'.at \in {"walk", "pairs"} /\ proc'.i = i =>
                           Range(proc'.fold) = RuledBelow(i)'
                    /\ \A i \in Steps : proc'.at \in Inside /\ proc'.i = i =>
                         /\ Range(Others(proc')) = RuledBelow(i)'
                         /\ proc'.seeded = TRUE =>
                              proc'.fold # << >> /\ Last(proc'.fold) = Verdict(i)'
  BY DEF Heard, Others
<1>2. AllHeard
  BY AllHeardBefore
<1> HIDE DEF Verdict
<1>3. ASSUME \A ev : Writes(ev) => ev.type # "verdictRecorded"
      PROVE  /\ \A k \in Steps : Verdict(k)' = Verdict(k)
             /\ \A i : RuledBelow(i)' = RuledBelow(i)
  <2>1. \A k \in Steps : Verdict(k)' = Verdict(k)
    <3>1. CASE UNCHANGED << log, ck >>
      BY <3>1 DEF Verdict
    <3> QED BY <1>3, <3>1, StepWrites, VerdictMoves
  <2> QED BY <2>1, RuledBelowStays
<1>4. ASSUME NEW ev, Writes(ev), ev.type = "verdictRecorded",
             proc.at \in {"walk", "pairs", "exit", "down"}
      PROVE  FALSE
  <2>1. PICK i \in Steps : InStep(ev, i)
    BY <1>4, WriteIs
  <2> QED BY <1>4, <2>1 DEF InStep, Enters, Intends, Settles, Rules, Triggered, Exits
<1>5. \A e, f : Writes(e) /\ Writes(f) => e = f /\ ~UNCHANGED << log, ck >>
  BY <1>1, WriteIs, Grows
<1>6. CASE Listens
  <2>1. UNCHANGED proc
    BY <1>6 DEF Listens
  <2>2. \A ev : Writes(ev) => ev.type # "verdictRecorded"
    BY <1>5, <1>6 DEF Listens, Responds
  <2>3. \A k \in Steps : Verdict(k)' = Verdict(k)
    BY <1>3, <2>2
  <2>4. \A i : RuledBelow(i)' = RuledBelow(i)
    BY <1>3, <2>2
  <2>5. Others(proc') = Others(proc)
    BY <2>1
  <2> QED BY <1>2, <2>1, <2>3, <2>4, <2>5 DEF Heard
<1>7. CASE Stops
  BY <1>7 DEF Stops, Inside
<1>8. CASE Rolls
  <2>1. \A ev : Writes(ev) => ev.type # "verdictRecorded"
    BY <1>5, <1>8 DEF Rolls
  <2>2. /\ proc.at \in Inside /\ proc'.at \in Inside /\ proc'.i = proc.i
        /\ SameFold(proc', proc)
    BY <1>8 DEF Rolls
  <2>3. Others(proc') = Others(proc)
    BY <2>2 DEF Others, SameFold
  <2>4. /\ \A k \in Steps : Verdict(k)' = Verdict(k)
        /\ \A i : RuledBelow(i)' = RuledBelow(i)
    BY <1>3, <2>1
  <2>5. proc'.at \notin {"walk", "pairs"}
    BY <2>2 DEF Inside
  <2> QED BY <1>2, <2>2, <2>3, <2>4, <2>5 DEF Heard, SameFold
<1>9. CASE Judges
  <2>1. PICK ev : /\ Writes(ev) /\ ev.type = "verdictRecorded" /\ ev.verdict \in Statuses
                  /\ proc'.fold = Append(Others(proc), ev.verdict)
    BY <1>9 DEF Judges
  <2>2. /\ proc.at \in Inside /\ proc'.at \in Inside /\ proc'.i = proc.i
        /\ proc'.seeded = TRUE
    BY <1>9 DEF Judges
  <2>3. Others(proc) \in Seq(Statuses)
    BY <1>1, FrontTyped DEF Others
  <2>4. /\ Front(proc'.fold) = Others(proc) /\ Last(proc'.fold) = ev.verdict
        /\ proc'.fold # << >>
    BY <2>1, <2>3, RangeAppended
  <2>5. Others(proc') = Others(proc)
    BY <2>2, <2>4 DEF Others
  <2>6. ASSUME NEW i \in Steps, i = proc.i
        PROVE  Verdict(i)' = ev.verdict /\ RuledBelow(i)' = RuledBelow(i)
    <3>1. Verdict(i)' = ev.verdict
      BY <2>1, <2>6, VerdictMoves
    <3>2. \A k \in Steps : k < i => Verdict(k)' = Verdict(k)
      <4> SUFFICES ASSUME NEW k \in Steps, k < i
                   PROVE  Verdict(k)' = Verdict(k)
        OBVIOUS
      <4>1. k # i
        BY StepsAre
      <4> QED BY <2>1, <2>6, <4>1, VerdictMoves
    <3> QED BY <3>1, <3>2, RuledBelowStays
  <2>7. proc'.at \notin {"walk", "pairs"}
    BY <2>2 DEF Inside
  <2> QED BY <1>2, <2>2, <2>4, <2>5, <2>6, <2>7 DEF Heard
<1>10. CASE Begins
  <2>1. proc'.at = "walk" /\ proc'.fold = << >> /\ proc'.i = 1
    <3>1. proc'.at = "walk" /\ proc'.fold = << >>
      BY <1>10, FreshFolds DEF Begins
    <3>2. StartRun => proc'.i = 1
      BY StartDoes, WalkingIs
    <3>3. Resume => proc'.i = 1
      BY ResumeDoes
    <3> QED BY <1>10, <3>1, <3>2, <3>3 DEF Begins
  <2>2. Range(<< >>) = { }
    BY DEF Range
  <2>3. RuledBelow(1)' = { }
    <3>1. { k \in Steps : k < 1 } = { }
      BY StepsAre
    <3> QED BY <3>1 DEF RuledBelow
  <2> QED BY <2>1, <2>2, <2>3 DEF Inside
<1>11. CASE AdoptStep
  <2>1. /\ proc.at = "walk" /\ proc.i <= Len(Flow) /\ AdoptableIn(ck, proc.i)
        /\ proc'.at = "walk" /\ proc'.i = proc.i + 1
        /\ proc'.fold = Adopted(proc.fold, RecordOf(proc.i).verdict)
    BY <1>1, <1>11, AdoptDoes, BridgeIs
  <2>2. PICK i \in Steps : i = proc.i
    BY <1>1, <2>1, StepsAre
  <2>3. RecordOf(proc.i).verdict = Verdict(i)
    BY <2>1, <2>2 DEF Attested, RecordOf
  <2>4. Range(proc.fold) = RuledBelow(i)
    BY <1>1, <1>2, <2>1, <2>2 DEF Heard
  <2>5. Range(proc'.fold) = RuledBelow(i) \union ({Verdict(i)} \ {NoVerdict})
    BY <1>1, <2>1, <2>3, <2>4, RangeAppended DEF Adopted
  <2>6. \A k : RuledBelow(k)' = RuledBelow(k)
    BY <1>3, <1>4, <2>1
  <2>7. \A k : k = i + 1 => RuledBelow(k)' = Range(proc'.fold)
    BY <2>5, <2>6, RuledBelowGrows
  <2>8. PICK k : k = i + 1
    OBVIOUS
  <2>9. proc'.i = k /\ RuledBelow(k)' = Range(proc'.fold)
    BY <2>1, <2>2, <2>7, <2>8
  <2> QED BY <2>1, <2>9 DEF Inside
<1>12. CASE EnterStep
  <2>1. /\ proc.at = "walk" /\ proc'.i = proc.i /\ proc.i <= Len(Flow) /\ proc'.at \in Inside
    BY <1>1, <1>12, EnterStepDoes DEF Inside
  <2>2. PICK i \in Steps : i = proc.i
    BY <1>1, <2>1, StepsAre
  <2>3. proc.seeded = FALSE /\ Others(proc) = proc.fold
    BY <2>1 DEF Seeding, Others
  <2>4. Range(proc.fold) = RuledBelow(i)
    BY <1>1, <1>2, <2>1, <2>2 DEF Heard
  <2>5. Verdict(i)' = Verdict(i) /\ RuledBelow(i)' = RuledBelow(i)
    BY <1>3, <1>4, <2>1
  <2>6. CASE SameFold(proc', proc)
    BY <2>1, <2>2, <2>3, <2>4, <2>5, <2>6 DEF SameFold, Others, Inside
  <2>7. CASE /\ proc'.fold = Append(Others(proc), RulingOn(Prefix, proc.i))
             /\ proc'.seeded = TRUE
    <3>1. RulingOn(Prefix, proc.i) = Verdict(i)
      <4>1. \A n \in At("verdictRecorded", i) : n <= proc.base
        BY <2>1, <2>2 DEF Unseen, Ahead
      <4> QED BY <2>2, <4>1, HarvestIs
    <3>2. proc'.fold = Append(proc.fold, Verdict(i))
      BY <2>3, <2>7, <3>1
    <3>3. /\ Front(proc'.fold) = proc.fold /\ Last(proc'.fold) = Verdict(i)
          /\ proc'.fold # << >>
      BY <1>1, <3>2, RangeAppended
    <3> QED BY <2>1, <2>2, <2>4, <2>5, <2>7, <3>3 DEF Others, Inside
  <2> QED BY <1>12, <2>6, <2>7, EnterFolds
<1>13. CASE ExitStep
  <2>1. CASE proc'.at = "finish"
    BY <2>1 DEF Inside
  <2>2. CASE proc'.at # "finish"
    <3>1. /\ proc'.fold = proc.fold /\ proc.ctl \in {"continue", "halt"}
          /\ proc.at = "exit" /\ proc.exitAs = "judged"
      BY <1>13, <2>2, ExitFolds DEF ExitStep
    <3>2. proc'.at \in {"walk", "pairs"} /\ proc'.i = proc.i + 1
      BY <1>1, <1>13, <2>2, <3>1, ExitDoes
    <3>3. PICK i \in Steps : i = proc.i
      BY <1>1, <3>1 DEF Inside
    <3>4. /\ Range(Others(proc)) = RuledBelow(i)
          /\ proc.seeded = TRUE => proc.fold # << >> /\ Last(proc.fold) = Verdict(i)
          /\ proc.seeded \in BOOLEAN
      BY <1>2, <3>1, <3>3 DEF Heard, Inside, Seeding
    <3>5. Range(proc.fold) = RuledBelow(i) \union ({Verdict(i)} \ {NoVerdict})
      <4>1. CASE proc.seeded = TRUE
        <5>1. /\ Range(proc.fold) = Range(Front(proc.fold)) \union {Last(proc.fold)}
              /\ Last(proc.fold) \in Statuses
          BY <1>1, <3>4, <4>1, RangeFront
        <5> QED BY <3>4, <4>1, <5>1, Marks DEF Others
      <4>2. CASE proc.seeded = FALSE
        <5>1. Verdict(i) = NoVerdict
          BY <1>13, <3>1, <3>3, <4>2, ExitsHeard
        <5> QED BY <3>4, <4>2, <5>1 DEF Others
      <4> QED BY <3>4, <4>1, <4>2
    <3>6. \A k : RuledBelow(k)' = RuledBelow(k)
      BY <1>3, <1>4, <3>1
    <3>7. PICK k : k = i + 1
      OBVIOUS
    <3>8. proc'.i = k /\ RuledBelow(k)' = Range(proc'.fold)
      BY <3>1, <3>2, <3>3, <3>5, <3>6, <3>7, RuledBelowGrows
    <3> QED BY <3>2, <3>8 DEF Inside
  <2> QED BY <2>1, <2>2
<1>14. CASE RecordBlocked
  <2>1. /\ proc.at = "pairs" /\ proc'.at = "pairs" /\ proc.i <= Len(Flow)
        /\ proc'.i = proc.i \/ proc'.i = proc.i + 1
        /\ proc'.fold = proc.fold
    BY <1>1, <1>14, PairsDoes DEF IsProc, ProcFields
  <2>2. PICK i \in Steps : i = proc.i
    BY <1>1, <2>1, StepsAre
  <2>3. Verdict(i) = NoVerdict
    BY <1>1, <2>1, <2>2, StepsAre DEF Seeding
  <2>4. \A k : RuledBelow(k)' = RuledBelow(k)
    BY <1>3, <1>4, <2>1
  <2>5. Range(proc.fold) = RuledBelow(i)
    BY <1>1, <1>2, <2>1, <2>2 DEF Heard
  <2>6. PICK k : k = proc'.i
    OBVIOUS
  <2>7. RuledBelow(k) = RuledBelow(i)
    <3>1. CASE k = i
      BY <3>1
    <3>2. CASE k = i + 1
      BY <2>3, <3>2, RuledBelowGrows
    <3> QED BY <2>1, <2>2, <2>6, <3>1, <3>2
  <2>8. RuledBelow(k)' = Range(proc'.fold)
    BY <2>1, <2>4, <2>5, <2>7
  <2> QED BY <2>1, <2>6, <2>8 DEF Inside
<1> QED BY <1>6, <1>7, <1>8, <1>9, <1>10, <1>11, <1>12, <1>13, <1>14, FoldMoves

-----------------------------------------------------------------------------
(* An aborted run carries no verdict to its end.                           *)
Voided == proc.at = "finish" => proc.fold = << >>

(* Only an abort leads to the finish before the walk is through.           *)
LEMMA VoidedNext ==
  ASSUME Ledger, Voided, [Next]_vars
  PROVE  Voided'
PROOF
<1>1. IsProc(proc) /\ ShapedProc /\ IsSequence(log) /\ proc.i \in 1 .. Len(Flow) + 1
  BY LedgerIs DEF Shape, ShapedLedger, ShapedProc
<1>2. CASE Listens
  BY <1>2 DEF Voided, Listens
<1>3. CASE Stops \/ Rolls \/ Judges \/ Begins
  BY <1>3 DEF Voided, Stops, Rolls, Judges, Begins, Inside
<1>4. CASE AdoptStep
  BY <1>1, <1>4, AdoptDoes DEF Voided
<1>5. CASE EnterStep
  BY <1>1, <1>5, EnterStepDoes DEF Voided
<1>6. CASE ExitStep
  BY <1>1, <1>6, ExitFolds, ExitDoes DEF Voided
<1>7. CASE RecordBlocked
  BY <1>1, <1>7, PairsDoes DEF Voided, IsProc, ProcFields
<1> QED BY <1>2, <1>3, <1>4, <1>5, <1>6, <1>7, FoldMoves

(* Only FinishRun ends a run.                                              *)
LEMMA FinishWrites ==
  ASSUME Ledger, [Next]_vars, NEW ev, Writes(ev), ev.type = "runFinished"
  PROVE  FinishRun /\ ev.verdict = WorstOf(proc.fold)
PROOF
<1>1. /\ IsSequence(log) /\ log' # log
      /\ \A e : Write(e) => e = ev
  BY WriteIs, Grows
<1>2. ~Crash /\ ~UNCHANGED vars /\ ~DeadlinePasses
      /\ ~ \E c \in Calls, o \in Outcomes : DeviceFinishes(c, o)
  BY <1>1 DEF Crash, vars, DeadlinePasses, DeviceFinishes
<1>3. ~ \E d \in Answers : Respond(d)
  BY <1>1, RespondDoes DEF Wrote
<1>4. Shape /\ IsProc(proc) /\ ShapedProc /\ ev.type = "runFinished"
  BY LedgerIs DEF Shape
<1>5. ~StartRun /\ ~AdoptStep /\ ~EnterStep /\ ~Resume
  BY <1>1, <1>4, StartDoes, AdoptDoes, EnterStepDoes, ResumeDoes DEF Wrote, Silent
<1>6. ~GateSupervision /\ ~WriteIntent /\ ~Dispatch
  BY <1>1, <1>4, GateDoes, WriteIntentDoes, DispatchDoes DEF Wrote, Silent
<1>7. ~Settle /\ ~AdoptTerminal
  BY <1>1, <1>4, SettleDoes DEF Wrote
<1>8. ~RecordNegative /\ ~Supersede /\ ~ \E v \in Judgments : Judge(v)
  BY <1>1, <1>4, VerdictDoes DEF Wrote
<1>9. ~RetryInForce /\ ~ContinueEscalation
  BY <1>1 DEF RetryInForce, ContinueEscalation
<1>10. ~ConsultHook
  BY <1>1, <1>4, ConsultDoes, LedgerIs DEF Wrote, Silent, ConsultHook, Inside
<1>11. ~AskEscalation /\ ~AskAdjudication
  BY <1>1, <1>4, AskDoes, AdjudicateDoes DEF Wrote
<1>12. ~ExitStep
  BY <1>1, <1>4, ExitDoes DEF Wrote, ExitStep, ShapedProc, Leaving
<1>13. ~RecordBlocked
  BY <1>1, <1>4, PairsDoes DEF Wrote, Silent
<1>14. ~SuspendRun /\ ~StopRequested /\ ~NoTerminal
  BY <1>1, <1>4, SuspendDoes, DisruptionDoes DEF Wrote, Silent
<1>15. FinishRun
  BY <1>2, <1>3, <1>5, <1>6, <1>7, <1>8, <1>9, <1>10, <1>11, <1>12, <1>13, <1>14
     DEF Next, Engine, Disruption, Environment
<1>16. Write([type |-> "runFinished", path |-> RootPath(MetaHash),
             verdict |-> WorstOf(proc.fold)])
  BY <1>15 DEF FinishRun
<1> QED BY <1>1, <1>15, <1>16

(* The fold of verdicts is the worst of them.                              *)
LEMMA WorstIsWorst ==
  ASSUME NEW s \in Seq(Statuses)
  PROVE  WorstOf(s) = WorstIn(Range(s))
PROOF
<1>1. /\ \A v : Contains(s, v) <=> v \in Range(s)
      /\ Range(s) \subseteq Statuses
      /\ s = << >> <=> Range(s) = { }
  <2>1. DOMAIN s = 1 .. Len(s) /\ Len(s) \in Nat /\ \A n \in DOMAIN s : s[n] \in Statuses
    OBVIOUS
  <2>2. s = << >> <=> Len(s) = 0
    OBVIOUS
  <2>3. Range(s) \subseteq Statuses
    BY <2>1 DEF Range
  <2>4. ASSUME NEW v
        PROVE  Contains(s, v) <=> v \in Range(s)
    BY <2>1 DEF Contains, Range
  <2>5. s # << >> => s[1] \in Range(s)
    BY <2>1, <2>2 DEF Range
  <2>6. s = << >> => Range(s) = { }
    BY <2>1, <2>2 DEF Range
  <2> QED BY <2>3, <2>4, <2>5, <2>6
<1>2. CASE s = << >>
  BY <1>1, <1>2 DEF WorstOf, WorstIn
<1>3. CASE s # << >>
  <2>1. /\ "fail" \in Range(s) \/ "unknown" \in Range(s) \/ "pass" \in Range(s)
        /\ \A v \in Range(s) : v \in {"pass", "fail", "unknown"}
    BY <1>1, <1>3 DEF Statuses
  <2>2. Severity["pass"] = 0 /\ Severity["unknown"] = 1 /\ Severity["fail"] = 2
    BY DEF Severity
  <2>3. ASSUME NEW v \in Range(s), \A w \in Range(s) : Severity[w] <= Severity[v]
        PROVE  \A u \in Range(s) :
                 (\A w \in Range(s) : Severity[w] <= Severity[u]) => u = v
    BY <2>1, <2>2, <2>3
  <2>4. WorstOf(s) \in Range(s) /\ \A w \in Range(s) : Severity[w] <= Severity[WorstOf(s)]
    BY <1>1, <1>3, <2>1, <2>2 DEF WorstOf
  <2>5. Range(s) # { }
    BY <1>1, <1>3
  <2> QED BY <2>3, <2>4, <2>5 DEF WorstIn
<1> QED BY <1>2, <1>3

(* When every step is behind the process, what was ruled is what the       *)
(* records carry.                                                          *)
LEMMA RulingsAreRecorded ==
  ASSUME Ledger, Ruling, Attested, proc.at \in {"walk", "pairs"}, proc.i > Len(Flow),
         NEW i, i = Len(Flow) + 1
  PROVE  RuledBelow(i) = RecordedVerdicts
PROOF
<1>1. /\ IsSequence(log) /\ IsSequence(ck.completed)
      /\ proc.i \in 1 .. Len(Flow) + 1
  BY LedgerIs DEF Shape, ShapedProc, IsFold
<1>2. ASSUME NEW k \in Steps, Verdict(k) # NoVerdict
      PROVE  Verdict(k) \in RecordedVerdicts
  <2>1. Worked(k)
    BY <1>1, <1>2, UnruledIs DEF Worked
  <2>2. AdoptableIn(ck, k)
    <3>1. k < proc.i /\ ~(proc.i <= k)
      BY <1>1, StepsAre
    <3> QED BY <2>1, <3>1 DEF Ledger, WalkedLedger, WalkedProc
  <2> DEFINE a == Latest(CompletedAt(ck, StepPath(k)))
  <2>3. ck.completed[a].verdict = Verdict(k)
    BY <2>2 DEF Attested
  <2>4. a \in DOMAIN ck.completed
    <3>1. CompletedAt(ck, StepPath(k)) # { }
      BY <2>2 DEF AdoptableIn, RecordedIn
    <3>2. CompletedAt(ck, StepPath(k)) \in SUBSET (1 .. Len(ck.completed))
      BY <1>1, SequenceIs DEF CompletedAt
    <3> QED BY <1>1, <3>1, <3>2, SequenceIs, LatestIs
  <2> HIDE DEF a
  <2> QED BY <1>2, <2>3, <2>4 DEF RecordedVerdicts
<1>3. ASSUME NEW v \in RecordedVerdicts
      PROVE  v \in RuledBelow(i)
  <2>1. PICK a \in DOMAIN ck.completed : v = ck.completed[a].verdict /\ v # NoVerdict
    BY <1>3 DEF RecordedVerdicts
  <2>2. PICK k \in Steps : v \in {NoVerdict, Verdict(k)}
    BY <2>1 DEF Attested
  <2>3. k < i
    BY StepsAre
  <2> HIDE DEF Verdict
  <2> QED BY <2>1, <2>2, <2>3 DEF RuledBelow
<1> HIDE DEF Verdict
<1> QED BY <1>2, <1>3 DEF RuledBelow

(* The verdict of the run is the worst of those its records carry.         *)
LEMMA FinishesRight ==
  ASSUME Ledger, Ruling, Folded, Attested, Heard, Voided, [Next]_vars,
         log' # log, Last(log').type = "runFinished", AllHeard
  PROVE  Last(log').verdict = IF proc.at = "finish" THEN NoVerdict
                              ELSE WorstIn(RecordedVerdicts)
PROOF
<1>1. PICK ev : Writes(ev) /\ Last(log') = ev
  <2>1. PICK ev : Writes(ev)
    BY StepWrites
  <2>2. Write(ev) /\ IsSequence(log)
    BY <2>1, WriteIs
  <2>3. Last(log') = ev
    BY <2>2, Grows DEF Last
  <2> QED BY <2>1, <2>3
<1>2. FinishRun /\ ev.verdict = WorstOf(proc.fold)
  BY <1>1, FinishWrites
<1>3. WorstOf(proc.fold) = WorstIn(Range(proc.fold))
  BY WorstIsWorst DEF Folded
<1>4. CASE proc.at = "finish"
  <2>1. proc.fold = << >> /\ Range(<< >>) = { }
    BY <1>4 DEF Voided, Range
  <2>2. WorstIn({ }) = NoVerdict
    BY DEF WorstIn
  <2> QED BY <1>1, <1>2, <1>3, <1>4, <2>1, <2>2
<1>5. CASE proc.at # "finish"
  <2>1. /\ proc.at \in {"walk", "pairs"} /\ proc.i > Len(Flow)
        /\ proc.i \in 1 .. Len(Flow) + 1 /\ Len(Flow) \in Nat
    BY <1>2, <1>5, LedgerIs, StepsAre DEF FinishRun, Shape, ShapedProc
  <2>2. PICK i : i = Len(Flow) + 1
    OBVIOUS
  <2>3. i \in 1 .. Len(Flow) + 1 /\ proc.i = i
    BY <2>1, <2>2
  <2>4. Range(proc.fold) = RuledBelow(i)
    BY <2>1, <2>3 DEF Heard
  <2>5. RuledBelow(i) = RecordedVerdicts
    BY <2>1, <2>2, RulingsAreRecorded
  <2> QED BY <1>1, <1>2, <1>3, <1>5, <2>4, <2>5
<1> QED BY <1>4, <1>5

(* A run finishes with the worst verdict its records carry, adopted ones   *)
(* included, and an aborted run with none: no verdict is folded twice to   *)
(* another effect, none is left out, whatever was adopted, judged again or *)
(* interrupted, as long as no round went by unheard.                       *)
THEOREM VerdictsAddUp == Spec => FinishMatchesRecords
PROOF
<1> DEFINE Inv == /\ Ruling /\ Folded /\ Unseen /\ Attested /\ Based /\ Seeding
                  /\ Heard /\ Voided
<1> DEFINE Tells == log' # log /\ Last(log').type = "runFinished"
                   /\ (\A n \in DOMAIN log : ~Unheard(n)) =>
                   Last(log').verdict = IF proc.at = "finish" THEN NoVerdict
                                        ELSE WorstIn(RecordedVerdicts)
<1>1. Init => Inv
  <2> SUFFICES ASSUME Init
               PROVE  Inv
    OBVIOUS
  <2>1. /\ log = << >> /\ proc = Down /\ ck.completed = << >> /\ ck.inFlight = << >>
        /\ proc.at = "down" /\ proc.fold \in Seq(Statuses)
    BY SeedIs, DownIs, EmptyFold DEF Init, Down
  <2>2. /\ DOMAIN log = { } /\ DOMAIN ck.completed = { } /\ DOMAIN ck.inFlight = { }
        /\ \A type, i : At(type, i) = { }
    BY <2>1, EmptyIs DEF At, Entries
  <2>3. Attested
    <3>1. /\ \A p : CompletedAt(ck, p) = { } /\ InFlightAt(ck, p) = { }
          /\ \A k : ~AdoptableIn(ck, k)
      BY <2>2 DEF CompletedAt, InFlightAt, AdoptableIn, RecordedIn
    <3>2. \A k \in Steps : Verdict(k) = NoVerdict
      BY <2>1, <2>2, EmptyIs, UnruledIs
    <3> QED BY <2>2, <3>1, <3>2 DEF Attested
  <2> QED BY <2>1, <2>2, <2>3
          DEF Ruling, Folded, Unseen, Ahead, Based, Seeding, Heard, Voided, Inside
<1>2. Ledger /\ Ledger' /\ Inv /\ [Next]_vars => Inv'
  <2> SUFFICES ASSUME Ledger, Ledger', Inv, [Next]_vars
               PROVE  Inv'
    OBVIOUS
  <2>1. Ruling' /\ Folded' /\ Unseen' /\ Based' /\ Voided'
    BY RulingNext, FoldedNext, AheadNext, BasedNext, VoidedNext DEF Unseen
  <2>2. Attested'
    BY <2>1, AttestedNext
  <2>3. Seeding' /\ Heard'
    BY SeedingNext, HeardNext
  <2> QED BY <2>1, <2>2, <2>3
<1>3. Ledger /\ Inv /\ [Next]_vars => [Tells]_vars
  BY FinishesRight DEF AllHeard
<1> HIDE DEF Inv
<1>4. Spec => [][Tells]_vars
  BY <1>1, <1>2, <1>3, LedgerHolds, PTL DEF Spec
<1> QED BY <1>4 DEF FinishMatchesRecords
=============================================================================
