------------------------- MODULE RunEngineReentries -------------------------
(***************************************************************************)
(* No act is re-entered more often than its handlers granted, and what a   *)
(* human ruled on is what the step leaves with, proved for every flow and  *)
(* number of disruptions: which re-entry the ledger counts as one, which   *)
(* grant each of them spends, what a crash leaves of the retries in force  *)
(* and of the answers a process used, and how a ruling is found again.     *)
(***************************************************************************)
EXTENDS RunEngineProofs

-----------------------------------------------------------------------------
(* The pending intent is the latest call, and no settlement names it.      *)
Unsettled ==
  /\ \A n \in DOMAIN log : log[n].type = "actionSettled" => log[n].call \in Calls
  /\ ck.frontier.intent # NoIntent =>
       /\ ck.frontier.intent = Len(dev)
       /\ \A n \in DOMAIN log :
            log[n].type = "actionSettled" => log[n].call # ck.frontier.intent

(* A segment carries work a resume gives; a step at its gate was not both  *)
(* tried and ruled on.                                                     *)
Ungated ==
  /\ proc.at \in Inside \union {"walk"} => proc.work \in Works \union {"none"}
  /\ \A i \in Steps : proc.at = "gate" /\ proc.i = i =>
       At("verdictRecorded", i) = { } \/ At("actionSettled", i) = { }

(* A human is asked by the trigger of an escalation, at its path.          *)
Called(n) ==
  \E i \in Steps : \E t \in At("handlerTriggered", i) :
    /\ t < n /\ log[t].disposition = "escalate"
    /\ log[n].path = HookPath(i, log[t].hook, log[t].trigger, "human")
Calling ==
  /\ \A n \in Requests : EscalationRequest(log[n]) => Called(n)
  /\ \A i \in Steps : \A hook \in {Hook(proc)} : proc.at = "ask" /\ proc.i = i =>
       \E t \in At("handlerTriggered", i) :
         /\ log[t].disposition = "escalate" /\ log[t].hook = hook
         /\ log[t].trigger = Triggers(i, hook)

(* Retries are in force inside a step only.                                *)
Forced ==
  proc.at \in Inside \union {"walk"} =>
    proc.inForce \in Nat /\ (proc.at = "walk" => proc.inForce = 0)

(* The dispatch that comes next re-enters the act.                         *)
Due(i) == Reenters(i, Len(log) + 1)
Owing(i) == proc.at = "act" /\ proc.i = i /\ Due(i)
Owed(i) == Reentries(i) \union (IF Owing(i) THEN {0} ELSE { })

(* Of the grants of step i some are spent: not those a retry has in force, *)
(* and of this segment's answers only those the process consumed.          *)
HumanPath(i, t) == HookPath(i, log[t].hook, log[t].trigger, "human")
Consumed(i, t) ==
  LET Q == RequestsAt(Prefix, HumanPath(i, t))
  IN  \A n \in Q : n = Latest(Q) => log[n].req \in proc.consumed
Reserve(i, spent) ==
  proc.at \in Inside /\ proc.i = i /\ proc.inForce > 0 =>
    \E t \in At("handlerTriggered", i) : \E tries \in Attempted(i, t) :
      /\ log[t].disposition = "retry" /\ proc.inForce <= tries
      /\ \A k \in 1 .. proc.inForce : << t, k >> \notin spent
Kept(i, spent) ==
  proc.at \in Inside \union {"walk"} =>
    \A t \in At("handlerTriggered", i) :
      log[t].disposition = "escalate" /\ << t, proc.base + 1 >> \in spent =>
        Consumed(i, t)
Covers(i, spent) ==
  /\ Cardinality(Owed(i)) <= Cardinality(spent)
  /\ Reserve(i, spent) /\ Kept(i, spent)
Granting == \A i \in Steps : \E spent \in SUBSET Slots(i) : Covers(i, spent)

(* A step writes one entry.                                                *)
LEMMA OneEntry ==
  ASSUME Ledger, NEW ev, Writes(ev)
  PROVE  /\ \A e : Writes(e) => e = ev
         /\ ~UNCHANGED << log, ck >>
PROOF
<1>1. IsSequence(log) /\ \A e : Writes(e) => Write(e)
  BY WriteIs, LedgerIs
<1> QED BY <1>1, Grows

(* Only an intent makes a call: otherwise the calls are as many.           *)
LEMMA DevStays ==
  ASSUME Ledger, CallsOwned, [Next]_vars,
         UNCHANGED << log, ck >> \/ \E ev : Writes(ev) /\ ev.type # "actionIntent"
  PROVE  Calls' = Calls /\ Len(dev') = Len(dev)
PROOF
<1>1. IsSequence(dev)
  BY LedgerIs DEF ShapedLedger
<1>2. ~\E d : Made(d)
  BY OneEntry DEF Made
<1>3. ASSUME NEW c \in Calls, NEW d, Moved(c, d)
      PROVE  Calls' = Calls /\ Len(dev') = Len(dev)
  BY <1>1, <1>3, PutIs DEF Moved, Put, Calls
<1> QED BY <1>2, <1>3, CallsMove DEF Calls

(* Every step keeps the pending intent the latest call, and unsettled.     *)
LEMMA UnsettledNext ==
  ASSUME Ledger, CallsOwned, Licences, Unsettled, [Next]_vars
  PROVE  Unsettled'
PROOF
<1>1. /\ IsSequence(log) /\ IsSequence(dev) /\ Len(dev) \in Nat /\ Calls = 1 .. Len(dev)
      /\ ck.frontier.intent \in {NoIntent} \union Calls
  BY LedgerIs, SequenceIs DEF ShapedLedger, Calls
<1>2. CASE UNCHANGED << log, ck >>
  BY <1>2, DevStays DEF Unsettled
<1>3. ASSUME NEW ev, Writes(ev)
      PROVE  Unsettled'
  <2>1. /\ DOMAIN log = 1 .. Len(log) /\ DOMAIN log' = 1 .. Len(log) + 1
        /\ Len(log) \in Nat
        /\ \A n \in DOMAIN log : log'[n] = log[n]
        /\ log'[Len(log) + 1] = ev
    BY <1>3, WriteIs, Grows
  <2>2. CASE ev.type = "actionIntent"
    <3>1. PICK i \in Steps : InStep(ev, i)
      BY <1>3, <2>2, WriteIs
    <3>2. ev.call = Len(dev) + 1 /\ \E d : dev' = Append(dev, d)
      BY <2>2, <3>1 DEF InStep, Enters, Intends, Settles, Rules, Triggered, Exits, NextCall
    <3>3. Len(dev') = Len(dev) + 1 /\ Calls' = 1 .. Len(dev) + 1
      BY <1>1, <3>2, AppendIs DEF Calls
    <3>4. ck'.frontier.intent = Len(dev) + 1
      BY <1>3, <2>2, <3>2, SpansMove
    <3>5. \A n \in DOMAIN log' : log'[n].type = "actionSettled" =>
            log'[n].call \in Calls /\ log'[n].call # Len(dev) + 1
      BY <1>1, <2>1, <2>2 DEF Unsettled
    <3> QED BY <1>1, <3>3, <3>4, <3>5 DEF Unsettled
  <2>3. CASE ev.type = "actionSettled"
    <3>1. PICK i \in Steps : InStep(ev, i)
      BY <1>3, <2>3, WriteIs
    <3>2. ev.call = proc.call /\ proc.at \in {"wait", "adoptSettle"}
      BY <2>3, <3>1 DEF InStep, Enters, Intends, Settles, Rules, Triggered, Exits
    <3>3. ev.call = ck.frontier.intent /\ proc.call \in 0 .. Len(dev)
      BY <3>2 DEF Licences, Ledger, ShapedProc
    <3>4. ev.call \in Calls
      BY <1>1, <3>2, <3>3, Marks
    <3>5. ck'.frontier.intent = NoIntent
      BY <1>3, <2>3, <3>3, SpansMove
    <3>6. Calls' = Calls
      BY <1>3, <2>3, DevStays
    <3> QED BY <2>1, <3>4, <3>5, <3>6 DEF Unsettled
  <2>4. CASE ev.type \notin {"actionIntent", "actionSettled"}
    <3>1. ck'.frontier.intent \in {NoIntent, ck.frontier.intent}
      BY <1>3, <2>4, SpansMove
    <3>2. Calls' = Calls /\ Len(dev') = Len(dev)
      BY <1>3, <2>4, DevStays
    <3> QED BY <2>1, <2>4, <3>1, <3>2 DEF Unsettled
  <2> QED BY <2>2, <2>3, <2>4
<1> QED BY <1>2, <1>3, StepWrites

(* The step that pursues the pending intent, or waits for it, tried it     *)
(* last and has not settled it.                                            *)
LEMMA PendingIs ==
  ASSUME Ledger, CallsOwned, Unsettled, NEW i \in Steps,
         ck.frontier.intent # NoIntent, dev[ck.frontier.intent].step = i
  PROVE  LET N == At("actionIntent", i)
         IN  /\ N # { } /\ log[Max(N)].call = ck.frontier.intent
             /\ \A s \in At("actionSettled", i) : log[s].call # ck.frontier.intent
PROOF
<1> DEFINE c == ck.frontier.intent
           N == At("actionIntent", i)
<1>1. c \in Calls /\ c = Len(dev) /\ Calls = 1 .. Len(dev) /\ Len(dev) \in Nat
  BY PendingIsCall, LedgerIs, SequenceIs DEF ShapedLedger, Calls, Unsettled
<1>2. PICK n \in N : log[n].call = c
  BY <1>1 DEF CallsOwned
<1>3. N \in SUBSET (1 .. Len(log)) /\ Len(log) \in Nat
  BY LedgerIs, AtIs
<1>4. \A m \in N : ~(n < m)
  <2> TAKE m \in N
  <2>1. log[m].call \in Calls /\ (n < m => c < log[m].call)
    BY <1>2 DEF CallsOwned
  <2> QED BY <1>1, <2>1
<1> HIDE DEF N
<1>5. Max(N) \in N /\ \A y \in N : y <= Max(N)
  BY <1>2, <1>3, MaxIs
<1> DEFINE x == Max(N)
<1>6. x \in 1 .. Len(log) /\ n \in 1 .. Len(log) /\ n <= x /\ ~(n < x)
  BY <1>2, <1>3, <1>4, <1>5
<1> HIDE DEF x
<1>7. x = n
  BY <1>3, <1>6
<1>8. \A s \in At("actionSettled", i) : log[s].call # c
  BY LedgerIs, AtIs DEF Unsettled
<1> QED BY <1>2, <1>7, <1>8 DEF x, N

(* The process that waits for a call is at the step that made it.          *)
LEMMA WaitsHere ==
  ASSUME Ledger, Pursued, NEW i \in Steps, proc.i = i, proc.at \in Inside,
         ck.frontier.intent # NoIntent
  PROVE  dev[ck.frontier.intent].step = i
PROOF
<1>1. PICK k \in Steps : /\ dev[ck.frontier.intent].step = k /\ OpenIn(ck, k)
                         /\ \A m \in Steps : m < k => AdoptableIn(ck, m)
  BY DEF Pursued
<1>2. ~AdoptableIn(ck, i) /\ TopIs(ck, i)
  BY LedgerIs
<1>3. i <= k
  BY <1>1, <1>2, TopIsOpen, LedgerIs
<1>4. ~(i < k)
  BY <1>1, <1>2
<1> QED BY <1>1, <1>3, <1>4, StepsAre

-----------------------------------------------------------------------------
(* What a dispatch was found to re-enter does not change.                  *)
LEMMA ReentersStays ==
  ASSUME IsSequence(log), NEW ev, Write(ev), NEW n \in 1 .. Len(log) + 1, NEW i
  PROVE  Reenters(i, n)' <=> Reenters(i, n)
PROOF
<1> DEFINE V == Before(At("verdictRecorded", i), n)
           N == Before(At("actionIntent", i), n)
           S(m) == Before(At("actionSettled", i), m)
<1>1. Len(log) \in Nat
  BY Grows
<1>2. /\ V' = V /\ V \in SUBSET (1 .. Len(log))
      /\ N' = N /\ N \in SUBSET (1 .. Len(log)) /\ \A m \in N : log'[m] = log[m]
  BY BeforeStays
<1>3. \A m \in 1 .. Len(log) + 1 : /\ S(m)' = S(m)
                                   /\ \A s \in S(m) : log'[s] = log[s]
  BY BeforeStays
<1>4. Reenters(i, n) <=>
        /\ V # { } /\ N # { } /\ Max(N) < Max(V)
        /\ \E s \in S(Max(V)) : log[s].call = log[Max(N)].call
  BY DEF Reenters
<1>5. Reenters(i, n)' <=>
        /\ V' # { } /\ N' # { } /\ Max(N') < Max(V')
        /\ \E s \in Before(At("actionSettled", i)', Max(V')) :
             log'[s].call = log'[Max(N')].call
  BY DEF Reenters, Before
<1>6. \A m : S(m)' = Before(At("actionSettled", i)', m)
  BY DEF Before
<1> HIDE DEF V, N, S
<1>7. V # { } => Max(V) \in V
  BY <1>1, <1>2, MaxIs
<1>8. N # { } => Max(N) \in N
  BY <1>1, <1>2, MaxIs
<1>10. ASSUME V # { }, NEW m, m = Max(V), N # { }, NEW a, a = Max(N)
       PROVE  (\E s \in S(m)' : log'[s].call = log'[a].call)
                <=> \E s \in S(m) : log[s].call = log[a].call
  <2>0. m \in V /\ a \in N
    BY <1>7, <1>8, <1>10
  <2>1. m \in 1 .. Len(log) + 1
    <3>1. m \in 1 .. Len(log)
      BY <1>2, <2>0
    <3> QED BY <1>1, <3>1
  <2>2. S(m)' = S(m) /\ (\A s \in S(m) : log'[s] = log[s]) /\ log'[a] = log[a]
    BY <1>2, <1>3, <2>0, <2>1
  <2> QED BY <2>2
<1> QED BY <1>2, <1>4, <1>5, <1>6, <1>10

(* The re-entry that comes next, by the positions of its step's entries.   *)
LEMMA DueIs ==
  ASSUME Ledger, NEW i
  PROVE  LET V == At("verdictRecorded", i)
             N == At("actionIntent", i)
         IN  Due(i) <=> /\ V # { } /\ N # { } /\ Max(N) < Max(V)
                        /\ \E s \in At("actionSettled", i) :
                             s < Max(V) /\ log[s].call = log[Max(N)].call
PROOF
<1>1. \A type : Before(At(type, i), Len(log) + 1) = At(type, i)
  BY LedgerIs, BeforeIs DEF At
<1> QED BY <1>1 DEF Due, Reenters, Before

(* The same of the state after an entry.                                   *)
LEMMA DueNext ==
  ASSUME IsSequence(log), NEW ev, Write(ev), NEW i
  PROVE  LET V == At("verdictRecorded", i)'
             N == At("actionIntent", i)'
         IN  Due(i)' <=> /\ V # { } /\ N # { } /\ Max(N) < Max(V)
                         /\ \E s \in At("actionSettled", i)' :
                              s < Max(V) /\ log'[s].call = log'[Max(N)].call
PROOF
<1>1. IsSequence(log')
  BY Grows
<1>2. \A type : Before(At(type, i), Len(log) + 1)' = At(type, i)'
  BY <1>1, BeforeIs DEF At
<1> QED BY <1>2 DEF Due, Reenters, Before

(* A pending call is not re-entered, it is taken up.                       *)
LEMMA PendingNotDue ==
  ASSUME Ledger, CallsOwned, Unsettled, NEW i \in Steps,
         ck.frontier.intent # NoIntent, dev[ck.frontier.intent].step = i
  PROVE  ~Due(i)
PROOF
BY PendingIs, DueIs

(* Nor is a step whose latest entry settles its call.                      *)
LEMMA SettledNotDue ==
  ASSUME Ledger, Ledger', CallsOwned, Pursued, Licences, Unsettled, [Next]_vars,
         NEW ev, Writes(ev), ev.type = "actionSettled", NEW i \in Steps, proc.i = i
  PROVE  ~Due(i)'
PROOF
<1> DEFINE V == At("verdictRecorded", i)
           N == At("actionIntent", i)
           S == At("actionSettled", i)
<1>1. /\ Write(ev) /\ IsSequence(log) /\ Len(log) \in Nat
      /\ ev.path = StepPath(i)
      /\ \A n \in DOMAIN log : log'[n] = log[n]
  BY WriteIs, Grows
<1>2. PICK k \in Steps : InStep(ev, k)
  BY WriteIs
<1>3. proc.at \in {"wait", "adoptSettle"} /\ proc.call \in 0 .. Len(dev)
  BY <1>2 DEF InStep, Enters, Intends, Settles, Rules, Triggered, Exits, Ledger, ShapedProc
<1>4. ck.frontier.intent = proc.call /\ ck.frontier.intent # NoIntent
  BY <1>3, Marks DEF Licences
<1>5. dev[ck.frontier.intent].step = i
  BY <1>3, <1>4, WaitsHere DEF Inside
<1>6. /\ N # { } /\ log[Max(N)].call = ck.frontier.intent
      /\ \A s \in S : log[s].call # ck.frontier.intent
  BY <1>4, <1>5, PendingIs
<1>7. V' = V /\ N' = N /\ S' = S \union {Len(log) + 1}
  BY <1>1, AtStays, AtGrows
<1>8. /\ V \in SUBSET (1 .. Len(log)) /\ N \in SUBSET (1 .. Len(log))
      /\ S \in SUBSET (1 .. Len(log)) /\ DOMAIN log = 1 .. Len(log)
  BY <1>1, AtIs, SequenceIs
<1>9. Due(i)' => /\ V' # { }
                 /\ \E s \in S' : s < Max(V') /\ log'[s].call = log'[Max(N')].call
  BY <1>1, DueNext
<1> HIDE DEF V, N, S
<1>10. Max(N) \in N /\ (V # { } => Max(V) \in V)
  BY <1>1, <1>6, <1>8, MaxIs
<1> SUFFICES ASSUME Due(i)'
             PROVE  FALSE
  OBVIOUS
<1>11. PICK v \in V, m \in N, s \in S' : m = Max(N) /\ s < v /\ log'[s].call = log'[m].call
  BY <1>7, <1>9, <1>10
<1>12. s \in S /\ s \in DOMAIN log /\ m \in DOMAIN log
  BY <1>1, <1>7, <1>8, <1>11
<1> QED BY <1>1, <1>6, <1>11, <1>12

(* Entries of other types make no re-entry due.                            *)
LEMMA DueStays ==
  ASSUME Ledger, NEW i \in Steps,
         \/ UNCHANGED << log, ck >>
         \/ \E ev : /\ Writes(ev)
                    /\ ev.type \notin {"verdictRecorded", "actionIntent", "actionSettled"}
  PROVE  Due(i)' <=> Due(i)
PROOF
<1> DEFINE V == At("verdictRecorded", i)
           N == At("actionIntent", i)
           S == At("actionSettled", i)
<1>1. CASE UNCHANGED << log, ck >>
  BY <1>1 DEF Due, Reenters, Before, At
<1>2. ASSUME NEW ev, Writes(ev),
             ev.type \notin {"verdictRecorded", "actionIntent", "actionSettled"}
      PROVE  Due(i)' <=> Due(i)
  <2>1. /\ Write(ev) /\ IsSequence(log) /\ IsSequence(log') /\ Len(log) \in Nat
        /\ DOMAIN log = 1 .. Len(log) /\ \A n \in DOMAIN log : log'[n] = log[n]
    BY <1>2, WriteIs, Grows
  <2>2. V' = V /\ N' = N /\ S' = S
    BY <1>2, <2>1, AtStays
  <2>3. N \in SUBSET (1 .. Len(log)) /\ S \in SUBSET (1 .. Len(log))
    BY <2>1, AtIs
  <2>4. Due(i) <=> /\ V # { } /\ N # { } /\ Max(N) < Max(V)
                   /\ \E s \in S : s < Max(V) /\ log[s].call = log[Max(N)].call
    BY DueIs
  <2>6. Due(i)' <=> /\ V' # { } /\ N' # { } /\ Max(N') < Max(V')
                    /\ \E s \in S' : s < Max(V') /\ log'[s].call = log'[Max(N')].call
    BY <2>1, DueNext
  <2> HIDE DEF V, N, S
  <2>7. N # { } => Max(N) \in N
    BY <2>1, <2>3, MaxIs
  <2> QED BY <2>1, <2>2, <2>3, <2>4, <2>6, <2>7
<1> QED BY <1>1, <1>2

(* Only an intent of the step adds to its re-entries, when one was due.    *)
LEMMA ReentriesMove ==
  ASSUME Ledger, NEW i \in Steps, NEW ev, Writes(ev)
  PROVE  Reentries(i)' = IF ev.type = "actionIntent" /\ proc.i = i /\ Due(i)
                         THEN Reentries(i) \union {Len(log) + 1} ELSE Reentries(i)
PROOF
<1> DEFINE N == At("actionIntent", i)
<1>1. /\ Write(ev) /\ IsSequence(log) /\ Len(log) \in Nat
  BY WriteIs, Grows
<1>2. N \in SUBSET (1 .. Len(log))
  BY <1>1, AtIs
<1>3. N' = IF ev.type = "actionIntent" /\ proc.i = i THEN N \union {Len(log) + 1} ELSE N
  <2>1. CASE ev.type # "actionIntent"
    BY <1>1, <2>1, AtStays
  <2>2. CASE ev.type = "actionIntent"
    <3>1. PICK k \in Steps : k = proc.i /\ ev.path = StepPath(k)
      BY <2>2, WriteIs
    <3> QED BY <1>1, <2>2, <3>1, AtGrows
  <2> QED BY <2>1, <2>2
<1>4. \A n \in 1 .. Len(log) + 1 : Reenters(i, n)' <=> Reenters(i, n)
  BY <1>1, ReentersStays
<1>5. Reentries(i) = { n \in N : Reenters(i, n) }
  BY DEF Reentries
<1>6. Reentries(i)' = { n \in N' : Reenters(i, n)' }
  BY DEF Reentries
<1> HIDE DEF N
<1>7. \A n \in N' : n \in 1 .. Len(log) + 1
  BY <1>1, <1>2, <1>3
<1>8. { n \in N' : Reenters(i, n)' } = { n \in N' : Reenters(i, n) }
  BY <1>4, <1>7
<1> QED BY <1>1, <1>2, <1>3, <1>5, <1>6, <1>8 DEF Due

(* A step comes to its gate when there is no work on it and no ruling to   *)
(* resume at.                                                              *)
LEMMA GateComes ==
  ASSUME IsProc(proc), EnterStep, proc'.at = "gate"
  PROVE  WorkHere \notin Works /\ ~ResumesAtRuling
PROOF
<1> DEFINE taken == [proc EXCEPT !.work = IF proc.site = proc.i THEN "none" ELSE @]
           unresolved == This.badArgs /\ WorkHere = "none"
<1>1. proc' = IF unresolved THEN [Negative(taken, "fail", "none") EXCEPT !.plain = TRUE]
              ELSE AfterEntry(taken)
  BY DEF EnterStep
<1>2. IsProc(taken)
  BY DEF IsProc, ProcFields
<1> HIDE DEF taken, unresolved
<1>3. ~unresolved
  <2> SUFFICES ASSUME unresolved
               PROVE  FALSE
    OBVIOUS
  <2>1. proc' = [Negative(taken, "fail", "none") EXCEPT !.plain = TRUE]
    BY <1>1
  <2>2. proc'.at = "record"
    BY <1>2, <2>1 DEF Negative, IsProc, ProcFields
  <2> QED BY <2>2
<1>4. proc' = AfterEntry(taken)
  BY <1>1, <1>3
<1>5. WorkHere \notin Works
  <2>1. WorkHere = "adopt" => proc'.at = "adoptSettle"
    BY <1>2, <1>4, GotoIs DEF AfterEntry
  <2>2. WorkHere = "replay" => proc'.at = "act"
    BY <1>2, <1>4, GotoIs DEF AfterEntry
  <2>3. WorkHere = "confirm" => proc'.at = "confirm"
    BY <1>2, <1>4, GotoIs DEF AfterEntry
  <2>4. WorkHere = "abortRuled" => proc'.at = "exit"
    BY <1>2, <1>4, LeaveIs DEF AfterEntry
  <2> QED BY <2>1, <2>2, <2>3, <2>4 DEF Works
<1>6. ~ResumesAtRuling
  <2> SUFFICES ASSUME ResumesAtRuling
               PROVE  FALSE
    OBVIOUS
  <2> DEFINE p == [taken EXCEPT !.class = "none"]
  <2>1. proc' = Ruled(p, RulingOn(Prefix, taken.i))
    BY <1>4, <1>5 DEF AfterEntry, Works
  <2>2. IsProc(p)
    BY <1>2 DEF IsProc, ProcFields
  <2> HIDE DEF p
  <2>3. proc'.at \in {"exit", "consult"}
    BY <2>1, <2>2, RuledIs
  <2> QED BY <2>3
<1> QED BY <1>5, <1>6

(* A step at its gate was not both tried and ruled on: its span would have *)
(* been resumed at the ruling.                                             *)
LEMMA UntriedAtGate ==
  ASSUME Ledger, Framed, Ruling, Ahead("verdictRecorded"), Ahead("actionSettled"),
         Ungated, EnterStep, proc'.at = "gate", NEW i \in Steps, proc.i = i
  PROVE  At("verdictRecorded", i) = { } \/ At("actionSettled", i) = { }
PROOF
<1>1. /\ IsProc(proc) /\ IsSequence(log) /\ proc.base \in 0 .. Len(log)
      /\ proc.at = "walk" /\ ~AdoptableIn(ck, i)
  BY LedgerIs, EnterStepDoes, BridgeIs
<1>2. ~ResumesAtRuling /\ WorkHere = "none"
  BY <1>1, GateComes DEF Ungated, WorkHere
<1>3. CASE ~OpenSpan(i)
  <2>1. ~Worked(i)
    BY <1>1, <1>3, BridgeIs DEF Ledger, WalkedLedger
  <2> QED BY <2>1 DEF Worked
<1>4. CASE ~SettledOn(Prefix, i)
  <2>1. Entries(Prefix, "actionSettled", StepPath(i))
          = { n \in At("actionSettled", i) : n <= proc.base }
    BY <1>1, EntriesOfPrefix DEF Prefix, At
  <2>2. \A n \in At("actionSettled", i) : n <= proc.base
    BY <1>1 DEF Ahead
  <2> QED BY <1>4, <2>1, <2>2 DEF SettledOn
<1>5. CASE RulingOn(Prefix, i) = NoVerdict
  <2>1. \A n \in At("verdictRecorded", i) : n <= proc.base
    BY <1>1 DEF Ahead
  <2>2. Verdict(i) = NoVerdict
    BY <1>5, <2>1, HarvestIs
  <2> QED BY <2>2, RuledIsStatus
<1> QED BY <1>2, <1>3, <1>4, <1>5 DEF ResumesAtRuling

(* Every step of the system keeps that.                                    *)
LEMMA UngatedNext ==
  ASSUME Ledger, Ledger', Framed, Fated, Ruling, Ahead("verdictRecorded"),
         Ahead("actionSettled"), Ungated, [Next]_vars
  PROVE  Ungated'
PROOF
<1>1. IsProc(proc) /\ IsSequence(log)
  BY LedgerIs
<1> DEFINE Carries == Works \union {"none"}
<1>2. proc'.at \in Inside \union {"walk"} => proc'.work \in Carries
  <2> SUFFICES ASSUME proc'.at \in Inside \union {"walk"}
               PROVE  proc'.work \in Carries
    OBVIOUS
  <2>1. CASE proc.at \in Inside \union {"walk"} /\ proc'.work \in {"none", proc.work}
    BY <2>1 DEF Ungated
  <2>2. CASE Listens \/ Turns
    <3>1. proc.at \in Inside \union {"walk"} /\ proc'.work = proc.work
      BY <2>2 DEF Listens, Turns, SameRound
    <3> QED BY <2>1, <3>1
  <2>3. CASE Stops
    BY <2>3 DEF Stops, Inside
  <2>4. CASE WriteIntent
    BY <1>1, <2>1, <2>4, WriteIntentDoes DEF Inside
  <2>5. CASE AdoptStep
    BY <1>1, <2>1, <2>5, AdoptDoes
  <2>6. CASE EnterStep
    BY <1>1, <2>1, <2>6, EnterStepDoes
  <2>7. CASE StartRun
    BY <2>7, StartDoes, WalkingIs
  <2>8. CASE ExitStep
    <3>1. proc.at = "exit" /\ proc.ctl \in {"continue", "halt", "abort"}
      BY <2>8, LedgerIs DEF ExitStep, Shape, ShapedProc, Leaving
    <3> QED BY <1>1, <2>1, <2>8, <3>1, ExitDoes DEF Inside
  <2>9. CASE RecordBlocked
    BY <1>1, <2>9, PairsDoes DEF IsProc, ProcFields, Inside
  <2>10. CASE Resume /\ proc'.at = "walk"
    <3>1. proc' = Walking(Len(log), "none") \/ proc'.work \in Works
      BY <2>10, ResumeDoes, WorkIs
    <3> QED BY <3>1, WalkingIs
  <2> QED BY <2>2, <2>3, <2>4, <2>5, <2>6, <2>7, <2>8, <2>9, <2>10, ProcMoves
<1>3. ASSUME NEW i \in Steps, proc'.at = "gate", proc'.i = i
      PROVE  (At("verdictRecorded", i) = { } \/ At("actionSettled", i) = { })'
  <2>1. ASSUME At("verdictRecorded", i) = { } \/ At("actionSettled", i) = { },
               UNCHANGED << log, ck >>
                 \/ \E ev : Writes(ev) /\ ev.type \notin {"verdictRecorded", "actionSettled"}
        PROVE  (At("verdictRecorded", i) = { } \/ At("actionSettled", i) = { })'
    <3>1. CASE UNCHANGED << log, ck >>
      BY <2>1, <3>1 DEF At
    <3>2. ASSUME NEW ev, Writes(ev), ev.type \notin {"verdictRecorded", "actionSettled"}
          PROVE  /\ At("verdictRecorded", i)' = At("verdictRecorded", i)
                 /\ At("actionSettled", i)' = At("actionSettled", i)
      BY <1>1, <3>2, WriteIs, AtStays
    <3> QED BY <2>1, <3>1, <3>2
  <2>2. CASE Listens
    BY <1>3, <2>1, <2>2 DEF Listens, Responds, Ungated
  <2>3. CASE EnterStep
    <3>1. /\ proc.i = i
          /\ UNCHANGED << log, ck >> \/ \E ev : Wrote("stepEntered", Here, ev)
      BY <1>1, <1>3, <2>3, EnterStepDoes
    <3>2. UNCHANGED << log, ck >> \/ \E ev : Writes(ev) /\ ev.type = "stepEntered"
      BY <3>1, WroteWrites DEF Wrote
    <3> QED BY <1>3, <2>1, <2>3, <3>1, <3>2, UntriedAtGate
  <2>4. CASE Turns \/ Stops
    BY <1>3, <2>4 DEF Turns, Turn, Stops
  <2>5. CASE WriteIntent
    BY <1>1, <1>3, <2>5, WriteIntentDoes
  <2>6. CASE StartRun
    BY <1>3, <2>6, StartDoes, WalkingIs
  <2>7. CASE AdoptStep
    BY <1>1, <1>3, <2>7, AdoptDoes
  <2>8. CASE ExitStep
    <3>1. proc.ctl \in {"continue", "halt", "abort"}
      BY <2>8, LedgerIs DEF ExitStep, Shape, ShapedProc, Leaving
    <3> QED BY <1>1, <1>3, <2>8, <3>1, ExitDoes
  <2>9. CASE RecordBlocked
    BY <1>1, <1>3, <2>9, PairsDoes DEF IsProc, ProcFields
  <2> QED BY <1>3, <2>2, <2>3, <2>4, <2>5, <2>6, <2>7, <2>8, <2>9, ProcMoves
<1> QED BY <1>2, <1>3 DEF Ungated

-----------------------------------------------------------------------------
(* Entries stay where they are, and what they say.                         *)
LEMMA AtKeeps ==
  ASSUME IsSequence(log), NEW ev, Write(ev), NEW type, NEW i
  PROVE  \A n \in At(type, i) : /\ n \in At(type, i)' /\ log'[n] = log[n]
                                /\ n \in 1 .. Len(log) /\ n \in DOMAIN log'
PROOF
<1>0. log' = Append(log, ev)
  BY Grows
<1>1. \/ Entries(log', type, StepPath(i)) = Entries(log, type, StepPath(i))
      \/ Entries(log', type, StepPath(i))
           = Entries(log, type, StepPath(i)) \union {Len(log) + 1}
  BY <1>0, EntriesGrow
<1>2. At(type, i) \subseteq At(type, i)'
  BY <1>1 DEF At
<1>3. At(type, i) \in SUBSET (1 .. Len(log))
  BY AtIs
<1> HIDE DEF At
<1> QED BY <1>2, <1>3, Grows

(* What a trigger of a handler grants the process.                         *)
LEMMA ConsultGrants ==
  ASSUME IsProc(proc), proc.i \in Steps, ConsultHook, proc'.at \in {"act", "ask"}
  PROVE  /\ proc.inForce = 0 /\ proc'.consumed = proc.consumed
         /\ \E ev : \E b \in BindingsOn(proc.i, Hook(proc)) :
              /\ Wrote("handlerTriggered", Here, ev)
              /\ ev.hook = Hook(proc) /\ ev.disposition = b.action
              /\ ev.trigger = Triggers(proc.i, Hook(proc)) + 1
              /\ proc'.at = "act" => b.action = "retry" /\ proc'.inForce = b.tries - 1
              /\ proc'.at = "ask" => /\ b.action = "escalate"
                                     /\ proc'.inForce = 0 /\ Hook(proc') = Hook(proc)
PROOF
<1> DEFINE b == BindingFor(proc)
<1> DEFINE t == Triggers(proc.i, Hook(proc))
<1> DEFINE ev == [type |-> "handlerTriggered", path |-> Here, hook |-> b.hook,
                  trigger |-> t + 1, disposition |-> b.action]
<1>1. /\ ev.type = "handlerTriggered" /\ ev.path = Here /\ ev.hook = b.hook
      /\ ev.trigger = t + 1 /\ ev.disposition = b.action
  OBVIOUS
<1> HIDE DEF ev
<1> DEFINE stays == NotHandled(proc)
<1> DEFINE head == [ChainHead(proc) EXCEPT !.inForce = InForce(b)]
<1> DEFINE release == Leave(proc, "judged", "continue")
<1> DEFINE abort == Leave(proc, "aborted", "abort")
<1> DEFINE ask == Goto(proc, "ask")
<1>2. stays.at = "exit" /\ release.at = "exit" /\ abort.at = "exit"
  BY LeaveIs DEF NotHandled
<1>3. head.at = "act" /\ head.inForce = b.tries - 1 /\ head.consumed = proc.consumed
  BY DEF ChainHead, InForce, IsProc, ProcFields
<1>4. /\ ask.at = "ask" /\ ask.inForce = proc.inForce /\ ask.consumed = proc.consumed
      /\ ask.status = proc.status /\ ask.class = proc.class
  BY DEF Goto, IsProc, ProcFields
<1>5. Hook(ask) = Hook(proc)
  BY <1>4 DEF Hook
<1>6. /\ proc.inForce = 0
      /\ \/ proc' = stays
         \/ /\ Matching(proc) # { } /\ Write(ev)
            /\ proc' = CASE b.action = "retry" -> head
                         [] b.action = "continue" -> release
                         [] b.action = "abort"    -> abort
                         [] b.action = "escalate" -> ask
  BY DEF ConsultHook, ev
<1> HIDE DEF stays, head, release, abort, ask, t
<1>7. /\ Matching(proc) # { } /\ Write(ev)
      /\ proc' = CASE b.action = "retry" -> head
                   [] b.action = "continue" -> release
                   [] b.action = "abort"    -> abort
                   [] b.action = "escalate" -> ask
  BY <1>2, <1>6
<1>8. /\ b \in HandlerBindings /\ b.hook = Hook(proc)
      /\ b \in BindingsOn(proc.i, Hook(proc))
  BY <1>7, BindingIs
<1>9. b.action \in {"retry", "continue", "abort", "escalate"}
  BY <1>8 DEF HandlerBindings
<1> HIDE DEF b
<1>10. \/ b.action = "retry" /\ proc' = head
       \/ b.action = "escalate" /\ proc' = ask
  BY <1>2, <1>7, <1>9
<1>11. Wrote("handlerTriggered", Here, ev)
  BY <1>1, <1>7 DEF Wrote
<1>12. /\ ev.hook = Hook(proc) /\ ev.disposition = b.action
       /\ ev.trigger = Triggers(proc.i, Hook(proc)) + 1
  BY <1>1, <1>8 DEF t
<1>13. CASE b.action = "retry" /\ proc' = head
  BY <1>3, <1>6, <1>8, <1>11, <1>12, <1>13
<1>14. CASE b.action = "escalate" /\ proc' = ask
  BY <1>4, <1>5, <1>6, <1>8, <1>11, <1>12, <1>14
<1> QED BY <1>10, <1>13, <1>14

(* A process comes to ask by a trigger only.                               *)
LEMMA AskComes ==
  ASSUME Ledger, [Next]_vars, proc'.at = "ask"
  PROVE  \/ UNCHANGED proc /\ (UNCHANGED << log, ck >> \/ \E ev : Writes(ev) /\ Responds(ev))
         \/ ConsultHook
PROOF
<1>1. IsProc(proc) /\ (proc.at \in Inside => proc.i \in Steps)
  BY LedgerIs
<1>2. CASE Listens
  BY <1>2 DEF Listens
<1>3. CASE Stops
  BY <1>3 DEF Stops
<1>4. CASE Turns
  <2>1. proc.at = "consult"
    BY <1>4 DEF Turns, Turn
  <2>2. ~RetryInForce
    BY <1>1, RetryDoes
  <2>3. ~ContinueEscalation
    <3>1. \A n \in Asked(proc) : AnswerTo(Prefix, log[n].req) \in Rulings
      BY AskedRulings, LedgerIs
    <3> SUFFICES ASSUME ContinueEscalation
                 PROVE  FALSE
      OBVIOUS
    <3> QED BY <1>1, <3>1, ContinueDoes DEF Leaves
  <2>4. UNCHANGED proc => FALSE
    BY <2>1
  <2> QED BY <2>1, <2>2, <2>3, <2>4, DownIs
          DEF Next, Engine, Disruption, Environment, StartRun, AdoptStep, EnterStep,
              GateSupervision, WriteIntent, Dispatch, Settle, AdoptTerminal, Judge,
              RecordNegative, AskEscalation, ExitStep,
              Supersede, RecordBlocked, FinishRun, SuspendRun, AskAdjudication,
              StopRequested, NoTerminal, Resume, Crash, vars, DeadlinePasses, DeviceFinishes,
              Respond
<1>5. CASE WriteIntent
  BY <1>1, <1>5, WriteIntentDoes
<1>6. CASE StartRun
  BY <1>6, StartDoes, WalkingIs
<1>7. CASE AdoptStep
  BY <1>1, <1>7, AdoptDoes
<1>8. CASE EnterStep
  BY <1>1, <1>8, EnterStepDoes
<1>9. CASE ExitStep
  <2>1. proc.ctl \in {"continue", "halt", "abort"}
    BY <1>9, LedgerIs DEF ExitStep, Shape, ShapedProc, Leaving
  <2> QED BY <1>1, <1>9, <2>1, ExitDoes
<1>10. CASE RecordBlocked
  BY <1>1, <1>10, PairsDoes DEF IsProc, ProcFields
<1> QED BY <1>2, <1>3, <1>4, <1>5, <1>6, <1>7, <1>8, <1>9, <1>10, ProcMoves

(* The escalation is asked by its own action.                              *)
LEMMA AskIsAsked ==
  ASSUME Ledger, [Next]_vars, NEW ev, Writes(ev), ev.type = "humanRequested", proc.at = "ask"
  PROVE  AskEscalation
PROOF
<1>1. /\ IsSequence(log) /\ log' # log
      /\ \A e : Write(e) => e = ev
  BY WriteIs, Grows
<1>2. ~Crash /\ ~UNCHANGED vars /\ ~DeadlinePasses
      /\ ~ \E c \in Calls, o \in Outcomes : DeviceFinishes(c, o)
  BY <1>1 DEF Crash, vars, DeadlinePasses, DeviceFinishes
<1>3. ~ \E d \in Answers : Respond(d)
  BY <1>1, RespondDoes DEF Wrote
<1> QED BY <1>2, <1>3
        DEF Next, Engine, Disruption, Environment, StartRun, AdoptStep, EnterStep,
            GateSupervision, WriteIntent, Dispatch, Settle, AdoptTerminal, Judge,
            RecordNegative, RetryInForce, ContinueEscalation, ConsultHook, ExitStep,
            Supersede, RecordBlocked, FinishRun, SuspendRun, AskAdjudication,
            StopRequested, NoTerminal, Resume

(* A request stays called for.                                             *)
LEMMA CalledStays ==
  ASSUME IsSequence(log), NEW ev, Write(ev), NEW n \in DOMAIN log, Called(n)
  PROVE  Called(n)'
PROOF
<1>0. PICK i \in Steps : \E t \in At("handlerTriggered", i) :
        /\ t < n /\ log[t].disposition = "escalate"
        /\ log[n].path = HookPath(i, log[t].hook, log[t].trigger, "human")
  BY DEF Called
<1>1. PICK t \in At("handlerTriggered", i) :
        /\ t < n /\ log[t].disposition = "escalate"
        /\ log[n].path = HookPath(i, log[t].hook, log[t].trigger, "human")
  BY <1>0
<1>2. t \in At("handlerTriggered", i)' /\ log'[t] = log[t] /\ log'[n] = log[n]
  BY AtKeeps, Grows
<1>3. /\ log'[t].disposition = "escalate"
      /\ log'[n].path = HookPath(i, log'[t].hook, log'[t].trigger, "human")
  BY <1>1, <1>2
<1> QED BY <1>1, <1>2, <1>3 DEF Called, HookPath, StepPath

(* The triggers of a hook count on.                                        *)
LEMMA TriggersMove ==
  ASSUME Ledger, NEW i \in Steps, NEW hook,
         \/ UNCHANGED << log, ck >>
         \/ \E ev : Writes(ev)
  PROVE  Triggers(i, hook)' =
           IF \E ev : Writes(ev) /\ ev.type = "handlerTriggered" /\ ev.hook = hook
                      /\ ev.path = StepPath(i)
           THEN Triggers(i, hook) + 1 ELSE Triggers(i, hook)
PROOF
<1> DEFINE T == At("handlerTriggered", i)
<1>0. IsSequence(log) /\ T \in SUBSET (1 .. Len(log)) /\ Len(log) \in Nat
      /\ DOMAIN log = 1 .. Len(log)
  BY LedgerIs, AtIs, SequenceIs
<1>1. /\ Triggers(i, hook) = Cardinality({ n \in T : log[n].hook = hook })
      /\ Triggers(i, hook)' = Cardinality({ n \in T' : log'[n].hook = hook })
  BY DEF Triggers, At
<1>2. CASE UNCHANGED << log, ck >>
  <2>1. ~\E ev : Writes(ev)
    BY <1>2, OneEntry
  <2>2. T' = T
    BY <1>2 DEF At
  <2> HIDE DEF T
  <2> QED BY <1>1, <1>2, <2>1, <2>2
<1>3. ASSUME NEW ev, Writes(ev)
      PROVE  Triggers(i, hook)' =
               IF ev.type = "handlerTriggered" /\ ev.hook = hook /\ ev.path = StepPath(i)
               THEN Triggers(i, hook) + 1 ELSE Triggers(i, hook)
  <2>1. /\ Write(ev) /\ log'[Len(log) + 1] = ev
        /\ \A n \in DOMAIN log : log'[n] = log[n]
    BY <1>3, WriteIs, Grows
  <2>2. T' = IF ev.type = "handlerTriggered" /\ ev.path = StepPath(i)
             THEN T \union {Len(log) + 1} ELSE T
    <3>1. CASE ev.type # "handlerTriggered"
      BY <1>0, <2>1, <3>1, AtStays
    <3>2. CASE ev.type = "handlerTriggered"
      <4>1. PICK k \in Steps : ev.path = StepPath(k)
        BY <1>3, <3>2, WriteIs
      <4>2. ev.path = StepPath(i) <=> k = i
        BY <4>1, PathsDiffer
      <4> QED BY <1>0, <2>1, <3>2, <4>1, <4>2, AtGrows
    <3> QED BY <3>1, <3>2
  <2> HIDE DEF T
  <2> DEFINE P == { n \in T : log[n].hook = hook }
  <2>3. { n \in T' : log'[n].hook = hook } =
          IF ev.type = "handlerTriggered" /\ ev.hook = hook /\ ev.path = StepPath(i)
          THEN P \union {Len(log) + 1} ELSE P
    <3>1. { n \in T : log'[n].hook = hook } = P
      BY <1>0, <2>1
    <3>2. CASE ev.type = "handlerTriggered" /\ ev.path = StepPath(i)
      BY <2>1, <2>2, <3>1, <3>2
    <3>3. CASE ~(ev.type = "handlerTriggered" /\ ev.path = StepPath(i))
      BY <2>2, <3>1, <3>3
    <3> QED BY <3>2, <3>3
  <2>4. P \in SUBSET (1 .. Len(log))
    BY <1>0
  <2> HIDE DEF P
  <2>5. Cardinality(P \union {Len(log) + 1}) = Cardinality(P) + 1
    BY <1>0, <2>4, CountGrows
  <2> QED BY <1>1, <2>3, <2>5 DEF P
<1> QED BY <1>2, <1>3, OneEntry

(* Who asks keeps its trigger, and every human is called.                  *)
LEMMA CallingNext ==
  ASSUME Ledger, Calling, [Next]_vars
  PROVE  Calling'
PROOF
<1>1. IsProc(proc) /\ IsSequence(log) /\ (proc.at \in Inside => proc.i \in Steps)
  BY LedgerIs
<1>2. \A n \in Requests' : EscalationRequest(log'[n]) => Called(n)'
  <2>1. CASE UNCHANGED << log, ck >>
    <3>1. Requests' = Requests /\ \A n : Called(n)' <=> Called(n)
      BY <2>1 DEF Requests, Called, At
    <3> QED BY <2>1, <3>1 DEF Calling
  <2>2. ASSUME NEW ev, Writes(ev)
        PROVE  \A n \in Requests' : EscalationRequest(log'[n]) => Called(n)'
    <3>1. /\ Write(ev) /\ log'[Len(log) + 1] = ev /\ Len(log) \in Nat
          /\ DOMAIN log = 1 .. Len(log) /\ DOMAIN log' = 1 .. Len(log) + 1
          /\ \A n \in DOMAIN log : log'[n] = log[n]
      BY <2>2, WriteIs, Grows
    <3> SUFFICES ASSUME NEW n \in Requests', EscalationRequest(log'[n])
                 PROVE  Called(n)'
      OBVIOUS
    <3>2. CASE n \in DOMAIN log
      <4>1. n \in Requests /\ EscalationRequest(log[n])
        BY <3>1, <3>2 DEF Requests
      <4> QED BY <1>1, <3>1, <3>2, <4>1, CalledStays DEF Calling
    <3>3. CASE n = Len(log) + 1
      <4>1. ev.type = "humanRequested" /\ EscalationRequest(ev)
        BY <3>1, <3>3 DEF Requests
      <4>2. Asks(ev)
        BY <2>2, <4>1 DEF Writes, Mark, Responds, InStep, Enters, Intends, Settles, Rules,
                          Triggered, Exits
      <4>3. proc.at = "ask"
        <5>1. ~GateRequest(ev)
          BY <4>1 DEF EscalationRequest, HookRequest, GateRequest
        <5>2. ~AdjudicationRequest(ev)
          BY <4>1 DEF EscalationRequest, HookRequest, AdjudicationRequest
        <5> QED BY <4>2, <5>1, <5>2 DEF Asks
      <4>4. AskEscalation
        BY <2>2, <4>1, <4>3, AskIsAsked
      <4>5. PICK e : Wrote("humanRequested",
                           HookPath(proc.i, Hook(proc), Triggers(proc.i, Hook(proc)), "human"), e)
        BY <1>1, <4>4, AskDoes
      <4>6. e = ev
        BY <3>1, <4>5, Grows, <1>1 DEF Wrote
      <4>7. PICK i \in Steps : i = proc.i
        BY <1>1, <4>3 DEF Inside
      <4>8. PICK t \in At("handlerTriggered", i) :
              /\ log[t].disposition = "escalate" /\ log[t].hook = Hook(proc)
              /\ log[t].trigger = Triggers(i, Hook(proc))
        BY <4>3, <4>7 DEF Calling
      <4>9. ev.path = HookPath(i, log[t].hook, log[t].trigger, "human")
        BY <4>5, <4>6, <4>7, <4>8 DEF Wrote
      <4>10. t \in At("handlerTriggered", i)' /\ log'[t] = log[t] /\ t \in 1 .. Len(log)
        BY <1>1, <3>1, AtKeeps
      <4>11. t < n /\ log'[n] = ev
        BY <3>1, <3>3, <4>10
      <4>12. log'[n].path = HookPath(i, log'[t].hook, log'[t].trigger, "human")
        BY <4>9, <4>10, <4>11
      <4> QED BY <4>8, <4>10, <4>11, <4>12 DEF Called, HookPath, StepPath
    <3> QED BY <3>1, <3>2, <3>3 DEF Requests
  <2> QED BY <2>1, <2>2, StepWrites
<1>3. ASSUME NEW i \in Steps, NEW hook \in {Hook(proc')}, proc'.at = "ask", proc'.i = i
      PROVE  \E t \in At("handlerTriggered", i)' :
               /\ log'[t].disposition = "escalate" /\ log'[t].hook = hook
               /\ log'[t].trigger = Triggers(i, hook)'
  <2>1. ASSUME UNCHANGED proc,
               UNCHANGED << log, ck >> \/ \E ev : Writes(ev) /\ Responds(ev)
        PROVE  \E t \in At("handlerTriggered", i)' :
                 /\ log'[t].disposition = "escalate" /\ log'[t].hook = hook
                 /\ log'[t].trigger = Triggers(i, hook)'
    <3>0. hook = Hook(proc)
      BY <1>3, <2>1
    <3>1. PICK t \in At("handlerTriggered", i) :
            /\ log[t].disposition = "escalate" /\ log[t].hook = hook
            /\ log[t].trigger = Triggers(i, hook)
      BY <1>3, <2>1, <3>0 DEF Calling
    <3>2. \A ev : Writes(ev) => ev.type # "handlerTriggered"
      <4>1. CASE UNCHANGED << log, ck >>
        BY <4>1, OneEntry
      <4>2. CASE \E ev : Writes(ev) /\ Responds(ev)
        BY <4>2, OneEntry DEF Responds
      <4> QED BY <2>1, <4>1, <4>2
    <3>3. Triggers(i, hook)' = Triggers(i, hook)
      BY <2>1, <3>2, TriggersMove
    <3>4. t \in At("handlerTriggered", i)' /\ log'[t] = log[t]
      <4>1. CASE UNCHANGED << log, ck >>
        BY <4>1 DEF At
      <4>2. CASE \E ev : Writes(ev)
        BY <1>1, <4>2, WriteIs, AtKeeps
      <4> QED BY <2>1, <4>1, <4>2
    <3> QED BY <3>1, <3>3, <3>4
  <2>2. CASE ConsultHook
    <3>1. proc.at = "consult" /\ proc.i = i
      BY <1>1, <1>3, <2>2, ConsultSays DEF ConsultHook, Inside, SameRound
    <3>2. PICK ev :
            /\ Wrote("handlerTriggered", Here, ev)
            /\ ev.hook = Hook(proc) /\ ev.disposition = "escalate"
            /\ ev.trigger = Triggers(proc.i, Hook(proc)) + 1
            /\ Hook(proc') = Hook(proc)
      BY <1>1, <1>3, <2>2, <3>1, ConsultGrants
    <3>3. Writes(ev) /\ ev.type = "handlerTriggered" /\ ev.path = StepPath(i) /\ Write(ev)
      BY <3>1, <3>2, WroteWrites DEF Wrote, Here
    <3>4. hook = Hook(proc)
      BY <1>3, <3>2
    <3>5. Triggers(i, hook)' = Triggers(i, hook) + 1
      BY <3>2, <3>3, <3>4, TriggersMove
    <3>6. Len(log) + 1 \in At("handlerTriggered", i)' /\ log'[Len(log) + 1] = ev
      BY <1>1, <3>3, AtGrows, Grows
    <3>7. ev.trigger = Triggers(i, hook)' /\ ev.hook = hook
      BY <3>1, <3>2, <3>4, <3>5
    <3> QED BY <3>2, <3>6, <3>7
  <2> QED BY <1>3, <2>1, <2>2, AskComes
<1>4. Hook(proc)' = Hook(proc')
  BY DEF Hook
<1> QED BY <1>2, <1>3, <1>4 DEF Calling

-----------------------------------------------------------------------------
(* The retries in force and the answers used: what an action does to them. *)
SameForce(q, p) == q.inForce = p.inForce /\ q.consumed = p.consumed

(* They are kept by the dispositions.                                      *)
LEMMA ForceStays ==
  ASSUME NEW p, IsProc(p)
  PROVE  /\ \A at : SameForce(Goto(p, at), p)
         /\ \A state, ctl : SameForce(Leave(p, state, ctl), p)
         /\ SameForce(ChainHead(p), p)
         /\ \A status, class : SameForce(Negative(p, status, class), p)
         /\ \A v : SameForce(Seeded(p, v), p)
PROOF
BY DEF IsProc, ProcFields, Goto, Leave, ChainHead, Negative, Seeded, SameForce

(* So does the tail of the act.                                            *)
LEMMA DisposedForce ==
  ASSUME NEW p, IsProc(p), NEW step, NEW outcome
  PROVE  SameForce(Disposed(p, step, outcome), p)
PROOF
<1>1. SameForce([p EXCEPT !.at = "act", !.pos = @ + 1, !.tries = 0], p)
  BY DEF IsProc, ProcFields, SameForce
<1> QED BY <1>1, ForceStays DEF Disposed

(* And the ruling of a round.                                              *)
LEMMA RuledForce ==
  ASSUME NEW p, IsProc(p), NEW v
  PROVE  SameForce(Ruled(p, v), p)
PROOF
<1> DEFINE s == Seeded(p, v)
<1> DEFINE q == [s EXCEPT !.status = v]
<1>1. IsProc(s) /\ SameForce(s, p)
  BY SeededIs, ForceStays DEF SameRound
<1> HIDE DEF s
<1>2. IsProc(q) /\ SameForce(q, s)
  BY <1>1 DEF IsProc, ProcFields, SameForce
<1>3. Ruled(p, v) = IF v = "pass" THEN Leave(q, "judged", "continue")
                    ELSE IF p.plain THEN Leave(q, "judged", "halt")
                    ELSE Goto(q, "consult")
  BY DEF Ruled, s
<1> HIDE DEF q
<1> QED BY <1>1, <1>2, <1>3, ForceStays DEF SameForce

(* Actions inside a step that consult no handler keep them.                *)
LEMMA RoundForce ==
  ASSUME Ledger,
         \/ GateSupervision \/ WriteIntent \/ Dispatch \/ Settle \/ AdoptTerminal
         \/ RecordNegative \/ Supersede \/ \E v \in Judgments : Judge(v)
  PROVE  SameForce(proc', proc)
PROOF
<1>1. IsProc(proc)
  BY LedgerIs
<1>2. CASE GateSupervision
  <2>1. \/ proc' = ChainHead(proc) \/ proc' = Leave(proc, "aborted", "abort")
        \/ proc' = Goto(proc, "suspend")
    BY <1>2 DEF GateSupervision, GateRuled
  <2> QED BY <1>1, <2>1, ForceStays
<1>3. CASE WriteIntent
  <2>1. proc' = [proc EXCEPT !.at = "dispatch", !.call = NextCall, !.tries = @ + 1]
    BY <1>3 DEF WriteIntent
  <2> QED BY <1>1, <2>1 DEF IsProc, ProcFields, SameForce
<1>4. CASE Dispatch
  BY <1>1, <1>4, ForceStays DEF Dispatch
<1>5. CASE Settle \/ AdoptTerminal
  <2> DEFINE again == [proc EXCEPT !.tries = 1]
  <2>1. IsProc(again) /\ SameForce(again, proc)
    BY <1>1 DEF IsProc, ProcFields, SameForce
  <2>2. \/ proc' = Disposed(proc, This, dev[proc.call].outcome)
        \/ proc' = Disposed(again, This, dev[proc.call].outcome)
    BY <1>5 DEF Settle, AdoptTerminal
  <2> HIDE DEF again
  <2> QED BY <1>1, <2>1, <2>2, DisposedForce DEF SameForce
<1>6. ASSUME NEW v \in Judgments, Judge(v)
      PROVE  SameForce(proc', proc)
  <2> DEFINE p == [proc EXCEPT !.class = "none"]
  <2>1. IsProc(p) /\ SameForce(p, proc)
    BY <1>1 DEF IsProc, ProcFields, SameForce
  <2> HIDE DEF p
  <2>2. proc' = Ruled(p, v)
    BY <1>6 DEF Judge, p
  <2> QED BY <2>1, <2>2, RuledForce DEF SameForce
<1>7. CASE RecordNegative
  BY <1>1, <1>7, RuledForce DEF RecordNegative
<1>8. CASE Supersede
  <2> DEFINE s == Seeded(proc, proc.status)
  <2>1. IsProc(s) /\ SameForce(s, proc)
    BY <1>1, SeededIs, ForceStays DEF SameRound
  <2> HIDE DEF s
  <2>2. proc' = Leave(s, "judged", HalfOpen(proc))
    BY <1>8 DEF Supersede, s
  <2> QED BY <2>1, <2>2, ForceStays DEF SameForce
<1> QED BY <1>2, <1>3, <1>4, <1>5, <1>6, <1>7, <1>8

(* ... as does entering a step.                                            *)
LEMMA EnterForce ==
  ASSUME Ledger, EnterStep
  PROVE  SameForce(proc', proc)
PROOF
<1>1. IsProc(proc)
  BY LedgerIs
<1> DEFINE taken == [proc EXCEPT !.work = IF proc.site = proc.i THEN "none" ELSE @]
<1> DEFINE negative == Negative(taken, "fail", "none")
<1> DEFINE plain == [negative EXCEPT !.plain = TRUE]
<1> DEFINE cleared == [taken EXCEPT !.class = "none"]
<1>2. /\ IsProc(taken) /\ SameForce(taken, proc)
      /\ IsProc(cleared) /\ SameForce(cleared, proc)
  BY <1>1 DEF IsProc, ProcFields, SameForce
<1>3. proc' = plain \/ proc' = AfterEntry(taken)
  BY <1>1 DEF EnterStep
<1> HIDE DEF taken
<1>4. IsProc(negative) /\ SameForce(negative, proc)
  BY <1>2, NegativeIs, ForceStays DEF SameRound, SameForce
<1> HIDE DEF negative
<1>5. SameForce(plain, proc)
  BY <1>4 DEF IsProc, ProcFields, SameForce
<1>6. \/ AfterEntry(taken) = Ruled(cleared, RulingOn(Prefix, taken.i))
      \/ AfterEntry(taken) = Leave(taken, "aborted", "abort")
      \/ \E at : AfterEntry(taken) = Goto(taken, at)
  BY DEF AfterEntry
<1> HIDE DEF plain, cleared
<1> QED BY <1>2, <1>3, <1>5, <1>6, ForceStays, RuledForce DEF SameForce

(* No retry is in force in the next step.                                  *)
LEMMA ExitForce ==
  ASSUME Ledger, ExitStep, proc'.at = "walk"
  PROVE  proc'.inForce = 0 /\ proc'.consumed = proc.consumed
PROOF
<1>1. IsProc(proc) /\ Leaving(proc)
  BY LedgerIs DEF Shape, ShapedProc, ExitStep
<1>2. NextStep(proc).inForce = 0 /\ NextStep(proc).consumed = proc.consumed
  BY DEF NextStep, Walking, Down
<1>3. Halted(proc).at = "pairs"
  BY <1>1, HaltedIs
<1>4. LET q == [proc EXCEPT !.at = "finish", !.fold = << >>]
      IN  q.at = "finish"
  BY <1>1 DEF IsProc, ProcFields
<1>5. \/ proc' = NextStep(proc) \/ proc' = Halted(proc)
      \/ proc' = [proc EXCEPT !.at = "finish", !.fold = << >>]
  BY <1>1 DEF ExitStep, Leaving
<1> QED BY <1>2, <1>3, <1>4, <1>5

(* A segment begins without any in force.                                  *)
LEMMA FreshForce ==
  ASSUME StartRun \/ Resume
  PROVE  proc'.inForce = 0
PROOF
<1>1. /\ IsProc(Down) /\ Down.inForce = 0
      /\ \A base, work : Walking(base, work).inForce = 0
  BY DownIs DEF Down, Walking
<1>2. CASE StartRun
  BY <1>1, <1>2, StartDoes
<1>3. CASE Resume
  <2> DEFINE c == ck.frontier.intent
  <2> DEFINE chain == log[Max({ n \in DOMAIN log : /\ log[n].type = "actionIntent"
                                                    /\ log[n].call = c })].chain
  <2> DEFINE kept(work) == [Walking(Len(log), work) EXCEPT
                              !.site = StepAt(ck.frontier.path), !.call = c, !.pos = chain]
  <2>1. PICK work : ResumeWith(work)
    BY <1>3 DEF Resume
  <2>2. \/ proc' = Goto(Down, "adjudicate") \/ proc' = Goto(Down, "suspend")
        \/ proc' = Walking(Len(log), "none") \/ proc' = kept(work)
    <3>1. proc' = CASE work = "ask"     -> Goto(Down, "adjudicate")
                    [] work = "reawait" -> Goto(Down, "suspend")
                    [] work = "none"    -> Walking(Len(log), "none")
                    [] OTHER -> kept(work)
      BY <2>1 DEF ResumeWith
    <3> HIDE DEF kept
    <3> QED BY <3>1
  <2>3. kept(work).inForce = 0
    <3> HIDE DEF c, chain
    <3> QED BY DEF Walking, Down
  <2> HIDE DEF kept
  <2> QED BY <1>1, <2>2, <2>3, ForceStays DEF SameForce
<1> QED BY <1>2, <1>3

(* One retry less is in force.                                             *)
LEMMA RetryForce ==
  ASSUME IsProc(proc), RetryInForce
  PROVE  /\ proc.inForce > 0 /\ proc'.inForce = proc.inForce - 1
         /\ proc'.consumed = proc.consumed
PROOF
<1> DEFINE q == ChainHead(proc)
<1>1. IsProc(q) /\ SameForce(q, proc)
  BY ChainHeadIs, ForceStays DEF SameRound
<1> HIDE DEF q
<1>2. proc' = [q EXCEPT !.inForce = @ - 1] /\ proc.inForce > 0
  BY DEF RetryInForce, q
<1> QED BY <1>1, <1>2 DEF IsProc, ProcFields, SameForce

(* An answer is used, and only `done` comes back to the act.               *)
LEMMA ContinueForce ==
  ASSUME Ledger, ContinueEscalation, proc'.at \in Inside
  PROVE  /\ proc.inForce = 0 /\ proc'.inForce = 0
         /\ \E n \in Asked(proc) :
              /\ proc'.consumed = proc.consumed \union {log[n].req}
              /\ proc'.at = "act" => AnswerTo(Prefix, log[n].req) = "done"
PROOF
<1>1. IsProc(proc)
  BY LedgerIs
<1>2. PICK n \in Asked(proc) : \E answer \in {AnswerTo(Prefix, log[n].req)} :
       LET spent == [proc EXCEPT !.consumed = @ \union {log[n].req}]
       IN  proc' = CASE answer = "done"         -> ChainHead(spent)
                     [] answer = "cannotRepair" -> Leave(spent, "aborted", "abort")
                     [] answer \in {"pass", "fail", "unknown"} ->
                          [spent EXCEPT !.at = "supersede", !.status = answer]
                     [] answer = NoPending /\ log[n].req \in late ->
                          [spent EXCEPT !.at = "supersede", !.status = "unknown"]
                     [] answer = NoPending /\ log[n].req \notin late ->
                          Goto(proc, "suspend")
  BY DEF ContinueEscalation
<1> DEFINE answer == AnswerTo(Prefix, log[n].req)
<1> DEFINE spent == [proc EXCEPT !.consumed = @ \union {log[n].req}]
<1> DEFINE over(status) == [spent EXCEPT !.at = "supersede", !.status = status]
<1>3. /\ IsProc(spent) /\ spent.inForce = proc.inForce
      /\ spent.consumed = proc.consumed \union {log[n].req}
  BY <1>1 DEF IsProc, ProcFields
<1>4. answer \in Rulings
  BY AskedRulings, LedgerIs
<1>5. proc.inForce = 0
  BY DEF ContinueEscalation
<1> HIDE DEF spent
<1>6. \A status : SameForce(over(status), spent) /\ over(status).at = "supersede"
  BY <1>3 DEF IsProc, ProcFields, SameForce
<1>7. \/ proc' = ChainHead(spent) /\ answer = "done"
      \/ proc' = Leave(spent, "aborted", "abort")
      \/ proc' = over(answer) \/ proc' = over("unknown") \/ proc' = Goto(proc, "suspend")
  <2> HIDE DEF answer
  <2>1. proc' = CASE answer = "done"         -> ChainHead(spent)
                   [] answer = "cannotRepair" -> Leave(spent, "aborted", "abort")
                   [] answer \in {"pass", "fail", "unknown"} -> over(answer)
                   [] answer = NoPending /\ log[n].req \in late -> over("unknown")
                   [] answer = NoPending /\ log[n].req \notin late ->
                        Goto(proc, "suspend")
    BY <1>2 DEF answer, spent
  <2> HIDE DEF over
  <2> QED BY <1>4, <2>1 DEF Rulings
<1> HIDE DEF over
<1>8. Goto(proc, "suspend").at \notin Inside /\ Leave(spent, "aborted", "abort").at = "exit"
  BY <1>1, <1>3, GotoIs, LeaveIs DEF Inside
<1>9. SameForce(proc', spent) /\ (proc'.at = "act" => answer = "done")
  BY <1>3, <1>6, <1>7, <1>8, ForceStays
<1> QED BY <1>3, <1>5, <1>9 DEF SameForce

(* A consultation that does not come back to the act changes nothing.      *)
LEMMA ConsultForce ==
  ASSUME Ledger, ConsultHook, proc'.at # "act"
  PROVE  SameForce(proc', proc)
PROOF
<1>1. IsProc(proc) /\ proc.i \in Steps
  BY LedgerIs DEF ConsultHook, Inside
<1> DEFINE head == [ChainHead(proc) EXCEPT !.inForce = InForce(BindingFor(proc))]
<1>2. head.at = "act"
  BY <1>1, ChainHeadIs DEF SameRound, IsProc, ProcFields
<1> DEFINE b == BindingFor(proc)
<1>3. b.action \in {"retry", "continue", "abort", "escalate"} \/ Matching(proc) = { }
  BY <1>1, BindingIs DEF HandlerBindings
<1>4. \/ proc' = NotHandled(proc) \/ proc' = head
      \/ proc' = Leave(proc, "judged", "continue")
      \/ proc' = Leave(proc, "aborted", "abort") \/ proc' = Goto(proc, "ask")
  <2> HIDE DEF b
  <2> QED BY <1>3 DEF ConsultHook, b
<1> HIDE DEF head
<1> QED BY <1>1, <1>2, <1>4, ForceStays DEF NotHandled

(* A concluded step is passed with them.                                   *)
LEMMA WalkForce ==
  ASSUME Ledger, AdoptStep
  PROVE  SameForce(proc', proc)
PROOF
<1> DEFINE fold == Adopted(proc.fold, RecordOf(proc.i).verdict)
<1> HIDE DEF fold
<1>1. proc' = [proc EXCEPT !.i = proc.i + 1, !.fold = fold]
  BY DEF AdoptStep, fold
<1> QED BY <1>1, LedgerIs DEF IsProc, ProcFields, SameForce

-----------------------------------------------------------------------------
(* How a step of the system treats what the handlers granted: the process  *)
(* rests, goes on without a new re-entry, begins, or re-enters its act     *)
(* from a consultation.                                                    *)
Rests == proc'.at \notin Inside \union {"walk"}
Proceeds ==
  /\ proc.at \in Inside \union {"walk"} /\ proc'.at \in Inside \union {"walk"}
  /\ proc'.base = proc.base /\ proc.consumed \subseteq proc'.consumed
  /\ proc'.at = "walk" => proc'.inForce = 0
  /\ \/ proc'.inForce = 0
     \/ proc'.inForce = proc.inForce /\ proc'.i = proc.i /\ proc.at \in Inside
  /\ \A i \in Steps : proc'.at = "act" /\ proc'.i = i => ~Due(i)'
Starts == proc'.at = "walk" /\ proc'.base = Len(log) /\ proc'.inForce = 0
Returns ==
  /\ proc.at = "consult" /\ proc'.at = "act"
  /\ proc'.i = proc.i /\ proc'.base = proc.base
  /\ RetryInForce \/ ContinueEscalation \/ ConsultHook

(* A process that takes a pending call up re-enters nothing.               *)
LEMMA TakenNotDue ==
  ASSUME Ledger, Framed, Unsettled, EnterStep, proc'.at = "act",
         NEW i \in Steps, proc.i = i
  PROVE  ~Due(i)'
PROOF
<1>1. IsProc(proc)
  BY LedgerIs
<1>2. WorkHere = "replay"
  BY <1>1, EnterStepDoes
<1>3. proc.site = proc.i /\ proc.work = "replay"
  BY <1>2 DEF WorkHere
<1>4. /\ ck.frontier.intent # NoIntent /\ OpenIn(ck, i)
      /\ dev[ck.frontier.intent].step = i
  BY <1>3, TakesWork DEF Framed
<1>5. UNCHANGED << log, ck >>
  BY <1>1, <1>4, EnterStepDoes, BridgeIs
<1> QED BY <1>4, <1>5, PendingNotDue, DueStays DEF Framed

(* A step that clears its gate re-enters nothing.                          *)
LEMMA ClearedNotDue ==
  ASSUME Ledger, Ungated, GateSupervision, proc'.at = "act", NEW i \in Steps, proc.i = i
  PROVE  ~Due(i)'
PROOF
<1>1. proc.at = "gate" /\ UNCHANGED << log, ck >>
  BY LedgerIs, GateDoes DEF Silent
<1>2. At("verdictRecorded", i) = { } \/ At("actionSettled", i) = { }
  BY <1>1 DEF Ungated
<1>3. ~Due(i)
  BY <1>2, DueIs
<1> QED BY <1>1, <1>3, DueStays

(* Every step of the system is one of these.                               *)
LEMMA GrantMoves ==
  ASSUME Ledger, Ledger', Framed, Licences, Unsettled, Ungated, Forced, [Next]_vars
  PROVE  Listens \/ Rests \/ Proceeds \/ Starts \/ Returns
PROOF
<1>1. IsProc(proc) /\ ShapedProc /\ (proc.at \in Inside => proc.i \in Steps)
  BY LedgerIs DEF Shape
<1>2. ASSUME Within, SameForce(proc', proc), proc.at \in Inside, proc'.at \in Inside,
             \A i \in Steps : proc'.at = "act" /\ proc.i = i => ~Due(i)'
      PROVE  Proceeds
  BY <1>2 DEF Within, SameRound, SameForce, Proceeds, Inside
<1>3. CASE GateSupervision
  <2>1. /\ proc.at = "gate" /\ Within /\ SameForce(proc', proc)
        /\ proc'.at \in {"act", "exit", "suspend"}
    BY <1>1, <1>3, GateDoes, RoundForce DEF Leaves
  <2>2. \A i \in Steps : proc'.at = "act" /\ proc.i = i => ~Due(i)'
    BY <1>3, ClearedNotDue
  <2> QED BY <1>2, <2>1, <2>2 DEF Rests, Inside
<1>4. CASE WriteIntent
  <2>1. /\ proc.at = "act" /\ SameForce(proc', proc) /\ proc'.at = "dispatch"
        /\ proc'.i = proc.i /\ proc'.base = proc.base
    BY <1>1, <1>4, WriteIntentDoes, RoundForce
  <2> QED BY <2>1 DEF Proceeds, SameForce, Inside
<1>5. CASE Dispatch
  <2>1. /\ proc.at = "dispatch" /\ Within /\ SameForce(proc', proc) /\ proc'.at = "wait"
    BY <1>1, <1>5, DispatchDoes, RoundForce
  <2> QED BY <1>2, <2>1 DEF Inside
<1>6. CASE Settle \/ AdoptTerminal
  <2>1. /\ proc.at \in {"wait", "adoptSettle"} /\ Within /\ SameForce(proc', proc)
        /\ proc'.at \in {"judge", "act", "confirm", "record", "exit"}
    BY <1>1, <1>6, SettleDoes, RoundForce DEF Leaves
  <2>2. PICK ev : Wrote("actionSettled", Here, ev)
    BY <1>1, <1>6, SettleDoes
  <2>3. Writes(ev) /\ ev.type = "actionSettled"
    BY <2>2, WroteWrites DEF Wrote
  <2>4. \A i \in Steps : proc'.at = "act" /\ proc.i = i => ~Due(i)'
    BY <2>3, SettledNotDue DEF Framed
  <2> QED BY <1>2, <2>1, <2>4 DEF Inside
<1>7. CASE RecordNegative \/ Supersede \/ \E v \in Judgments : Judge(v)
  <2>1. /\ proc.at \in {"judge", "confirm", "record", "supersede"} /\ Within
        /\ SameForce(proc', proc) /\ proc'.at \in {"consult", "exit"}
    BY <1>1, <1>7, VerdictDoes, RoundForce DEF Leaves
  <2> QED BY <1>2, <2>1 DEF Inside
<1>8. CASE RetryInForce
  <2>1. proc.at = "consult" /\ Within /\ proc'.at = "act"
    BY <1>1, <1>8, RetryDoes
  <2> QED BY <1>8, <2>1 DEF Returns, Within, SameRound
<1>9. CASE ContinueEscalation
  <2>1. /\ proc.at = "consult" /\ Within
        /\ proc'.at \in {"act", "exit", "supersede", "suspend"}
    BY <1>1, <1>9, ContinueDoes, AskedRulings, LedgerIs DEF Leaves
  <2>2. CASE proc'.at = "act"
    BY <1>9, <2>1, <2>2 DEF Returns, Within, SameRound
  <2>3. CASE proc'.at = "suspend"
    BY <2>3 DEF Rests, Inside
  <2>4. CASE proc'.at \in {"exit", "supersede"}
    <3>1. proc'.inForce = 0 /\ proc.consumed \subseteq proc'.consumed
      BY <1>9, <2>4, ContinueForce DEF Inside
    <3> QED BY <2>1, <2>4, <3>1 DEF Proceeds, Within, SameRound, Inside
  <2> QED BY <2>1, <2>2, <2>3, <2>4
<1>10. CASE ConsultHook
  <2>1. proc.at = "consult" /\ proc.i \in Steps
    BY <1>1, <1>10 DEF ConsultHook, Inside
  <2>2. Within /\ proc'.at \in {"act", "ask", "exit"}
    BY <1>1, <1>10, <2>1, ConsultDoes DEF Leaves
  <2>3. CASE proc'.at = "act"
    BY <1>10, <2>1, <2>2, <2>3 DEF Returns, Within, SameRound
  <2>4. CASE proc'.at # "act"
    BY <1>2, <1>10, <2>1, <2>2, <2>4, ConsultForce DEF Inside
  <2> QED BY <2>3, <2>4
<1>11. CASE AskEscalation \/ AskAdjudication
  BY <1>1, <1>11, AskDoes, AdjudicateDoes DEF Rests, Inside
<1>12. CASE FinishRun \/ SuspendRun \/ Crash
  BY <1>12, FinishDoes, SuspendDoes, DownIs DEF Crash, Rests, Inside
<1>13. CASE StartRun
  <2>1. proc' = Walking(0, "none") /\ log = << >>
    BY <1>13, StartDoes
  <2> QED BY <1>13, <2>1, WalkingIs, FreshForce, EmptyIs DEF Starts
<1>14. CASE Resume
  <2>1. \/ proc' = Walking(Len(log), "none")
        \/ proc'.at \in {"adjudicate", "suspend"}
        \/ proc'.at = "walk" /\ proc'.base = Len(log)
    BY <1>14, ResumeDoes
  <2> QED BY <1>14, <2>1, WalkingIs, FreshForce DEF Starts, Rests, Inside
<1>15. CASE StopRequested \/ NoTerminal
  BY <1>1, <1>15, DisruptionDoes DEF Rests, Inside
<1>16. CASE AdoptStep
  <2>1. proc.at = "walk" /\ proc'.at = "walk" /\ proc'.base = proc.base
    BY <1>1, <1>16, AdoptDoes
  <2>2. SameForce(proc', proc) /\ proc.inForce = 0
    BY <1>16, <2>1, WalkForce DEF Forced
  <2> QED BY <2>1, <2>2 DEF Proceeds, SameForce
<1>17. CASE EnterStep
  <2>1. /\ proc.at = "walk" /\ proc'.i = proc.i /\ proc'.base = proc.base
        /\ proc'.at \in {"record", "adoptSettle", "act", "confirm", "exit", "consult", "gate"}
    BY <1>1, <1>17, EnterStepDoes
  <2>2. SameForce(proc', proc) /\ proc.inForce = 0
    BY <1>17, <2>1, EnterForce DEF Forced
  <2>3. \A i \in Steps : proc'.at = "act" /\ proc.i = i => ~Due(i)'
    BY <1>17, TakenNotDue
  <2> QED BY <2>1, <2>2, <2>3 DEF Proceeds, SameForce, Inside
<1>18. CASE ExitStep
  <2>1. proc.ctl \in {"continue", "halt", "abort"}
    BY <1>18 DEF ExitStep, Ledger, ShapedProc, Leaving
  <2>2. /\ proc.at = "exit" /\ proc'.base = proc.base
        /\ proc'.at \in {"walk", "pairs", "finish"}
    BY <1>1, <1>18, <2>1, ExitDoes
  <2>3. CASE proc'.at = "walk"
    BY <1>18, <2>2, <2>3, ExitForce DEF Proceeds, Inside
  <2> QED BY <2>2, <2>3 DEF Rests, Inside
<1>19. CASE RecordBlocked
  <2>1. proc.at = "pairs" /\ (proc' = [proc EXCEPT !.i = @ + 1] \/ proc' = proc)
    BY <1>1, <1>19, PairsDoes
  <2>2. proc'.at = "pairs"
    BY <1>1, <2>1 DEF IsProc, ProcFields
  <2> QED BY <2>2 DEF Rests, Inside
<1>20. CASE \E d \in Answers : Respond(d)
  <2>1. PICK d \in Answers : Respond(d)
    BY <1>20
  <2>2. PICK ev : /\ Wrote("humanResponded", ck.pending.path, ev)
                  /\ ev.req = ck.pending.req /\ ev.purpose = ck.pending.purpose
    BY <2>1, RespondDoes
  <2>3. ck.pending # NoPending /\ UNCHANGED proc
    BY <2>1, RespondDoes
  <2>4. Writes(ev) /\ Responds(ev)
    BY <2>2, <2>3, WroteWrites DEF Wrote, Responds
  <2> QED BY <2>3, <2>4 DEF Listens
<1>21. CASE DeadlinePasses \/ UNCHANGED vars
             \/ \E c \in Calls, o \in Outcomes : DeviceFinishes(c, o)
  BY <1>21 DEF DeviceFinishes, DeadlinePasses, vars, Listens
<1> QED BY <1>3, <1>4, <1>5, <1>6, <1>7, <1>8, <1>9, <1>10, <1>11, <1>12, <1>13, <1>14,
           <1>15, <1>16, <1>17, <1>18, <1>19, <1>20, <1>21
        DEF Next, Engine, Disruption, Environment

(* A retry that is granted has an attempt to make.                         *)
LEMMA TriesAre ==
  ASSUME NEW i \in Steps, NEW hook, NEW b \in BindingsOn(i, hook), b.action = "retry"
  PROVE  b.tries \in Nat /\ b.tries > 0
PROOF
<1>1. b \in HandlerBindings
  BY BindingsAre
<1>2. b \in Range(Flow[i].handlers \o FlowHandlers) /\ i \in DOMAIN Flow
  BY StepsAre DEF BindingsOn, AllBindings, Steps, Range
<1> QED BY <1>1, <1>2, RetryCounts DEF HandlerBindings

(* Retries stay in force inside a step only.                               *)
LEMMA ForcedNext ==
  ASSUME Ledger, Ledger', Framed, Licences, Unsettled, Ungated, Forced, [Next]_vars
  PROVE  Forced'
PROOF
<1>1. CASE Listens \/ Rests \/ Proceeds \/ Starts
  BY <1>1 DEF Listens, Rests, Proceeds, Starts, Forced, Inside
<1>2. CASE Returns
  <2>1. IsProc(proc) /\ proc.i \in Steps /\ proc.inForce \in Nat
    BY <1>2, LedgerIs DEF Returns, Inside, Forced
  <2>2. CASE RetryInForce
    BY <1>2, <2>1, <2>2, RetryForce DEF Returns, Forced
  <2>3. CASE ContinueEscalation
    BY <1>2, <2>1, <2>3, ContinueForce DEF Returns, Forced, Inside
  <2>4. CASE ConsultHook
    <3>1. PICK b \in BindingsOn(proc.i, Hook(proc)) :
            b.action = "retry" /\ proc'.inForce = b.tries - 1
      BY <1>2, <2>1, <2>4, ConsultGrants DEF Returns
    <3>2. b.tries \in Nat /\ b.tries > 0
      BY <2>1, <3>1, TriesAre
    <3> QED BY <1>2, <3>1, <3>2 DEF Returns, Forced
  <2> QED BY <1>2, <2>2, <2>3, <2>4 DEF Returns
<1> QED BY <1>1, <1>2, GrantMoves

-----------------------------------------------------------------------------
(* What the ledger holds it keeps.                                         *)
LEMMA LogKeeps ==
  ASSUME Ledger, [Next]_vars
  PROVE  /\ Len(log) \in Nat /\ DOMAIN log = 1 .. Len(log)
         /\ IsSequence(log) /\ IsSequence(log')
         /\ \A n \in DOMAIN log : n \in DOMAIN log' /\ log'[n] = log[n]
         /\ \A n \in DOMAIN log' : n \in DOMAIN log \/ n = Len(log) + 1
         /\ \A type, i : /\ At(type, i) \in SUBSET DOMAIN log
                         /\ At(type, i) \subseteq At(type, i)'
                         /\ At(type, i)' \subseteq At(type, i) \union {Len(log) + 1}
PROOF
<1>1. IsSequence(log) /\ Len(log) \in Nat /\ DOMAIN log = 1 .. Len(log)
  BY LedgerIs, SequenceIs
<1>2. \A type, i : At(type, i) \in SUBSET DOMAIN log
  BY DEF At, Entries
<1>3. CASE UNCHANGED << log, ck >>
  BY <1>1, <1>2, <1>3 DEF At
<1>4. ASSUME NEW ev, Writes(ev)
      PROVE  /\ IsSequence(log')
             /\ \A n \in DOMAIN log : n \in DOMAIN log' /\ log'[n] = log[n]
             /\ \A n \in DOMAIN log' : n \in DOMAIN log \/ n = Len(log) + 1
             /\ \A type, i : /\ At(type, i) \subseteq At(type, i)'
                             /\ At(type, i)' \subseteq At(type, i) \union {Len(log) + 1}
  <2>1. /\ IsSequence(log') /\ log' = Append(log, ev)
        /\ DOMAIN log' = 1 .. Len(log) + 1 /\ \A n \in DOMAIN log : log'[n] = log[n]
    BY <1>1, <1>4, WriteIs, Grows
  <2>2. ASSUME NEW type, NEW i
        PROVE  /\ At(type, i) \subseteq At(type, i)'
               /\ At(type, i)' \subseteq At(type, i) \union {Len(log) + 1}
    <3>1. \/ Entries(log', type, StepPath(i)) = Entries(log, type, StepPath(i))
          \/ Entries(log', type, StepPath(i))
               = Entries(log, type, StepPath(i)) \union {Len(log) + 1}
      BY <1>1, <2>1, EntriesGrow
    <3> QED BY <3>1 DEF At
  <2> QED BY <1>1, <2>1, <2>2
<1> QED BY <1>1, <1>2, <1>3, <1>4, StepWrites

(* Grants stay granted.                                                    *)
LEMMA SlotIs ==
  ASSUME NEW i
  PROVE  /\ \A t, g : << t, g >> \in Slots(i) <=>
                        t \in At("handlerTriggered", i) /\ g \in Grants(i, t)
         /\ \A x \in Slots(i) : \E t, g : x = << t, g >>
PROOF
BY DEF Slots

(* A trigger grants what it granted, whatever is appended.                 *)
LEMMA GrantsStay ==
  ASSUME Ledger, [Next]_vars, NEW i \in Steps, NEW t \in At("handlerTriggered", i)
  PROVE  /\ log'[t] = log[t] /\ t \in At("handlerTriggered", i)'
         /\ Attempted(i, t)' = Attempted(i, t)
         /\ HumanPath(i, t)' = HumanPath(i, t)
         /\ Grants(i, t) \subseteq Grants(i, t)'
PROOF
<1>1. /\ \A n \in DOMAIN log : n \in DOMAIN log' /\ log'[n] = log[n]
      /\ DOMAIN log = 1 .. Len(log) /\ Len(log) \in Nat
      /\ t \in DOMAIN log /\ t \in At("handlerTriggered", i)'
  BY LogKeeps
<1>2. log'[t] = log[t]
  BY <1>1
<1>3. /\ Attempted(i, t)' = Attempted(i, t)
      /\ HumanPath(i, t)' = HumanPath(i, t)
  BY <1>2 DEF Attempted, BindingsOn, AllBindings, HumanPath, HookPath, StepPath
<1>4. ASSUME NEW r \in DOMAIN log, Repaired(i, t, r)
      PROVE  Repaired(i, t, r)'
  <2>1. PICK a \in t .. r : /\ log[a].type = "humanResponded" /\ log[a].decision = "done"
                            /\ \E q \in t .. a :
                                 /\ log[q].type = "humanRequested"
                                 /\ log[q].req = log[a].req
                                 /\ log[q].path = HumanPath(i, t)
    BY <1>4 DEF Repaired, HumanPath
  <2>2. PICK q \in t .. a : /\ log[q].type = "humanRequested" /\ log[q].req = log[a].req
                            /\ log[q].path = HumanPath(i, t)
    BY <2>1
  <2>3. a \in DOMAIN log /\ q \in DOMAIN log
    BY <1>1, <2>1, <2>2
  <2>4. log'[a] = log[a] /\ log'[q] = log[q]
    BY <1>1, <2>3
  <2>5. \E b \in t .. r : /\ log'[b].type = "humanResponded" /\ log'[b].decision = "done"
                          /\ \E m \in t .. b :
                               /\ log'[m].type = "humanRequested"
                               /\ log'[m].req = log'[b].req
                               /\ log'[m].path = HumanPath(i, t)'
    BY <1>3, <2>1, <2>2, <2>4
  <2> QED BY <2>5 DEF Repaired, HumanPath
<1>5. CASE log[t].disposition = "retry"
  <2>1. Grants(i, t) = UNION { 1 .. tries : tries \in Attempted(i, t) }
    BY <1>5 DEF Grants
  <2>2. Grants(i, t)' = UNION { 1 .. tries : tries \in Attempted(i, t)' }
    BY <1>2, <1>5 DEF Grants
  <2> QED BY <1>1, <1>2, <1>3, <2>1, <2>2
<1>6. CASE log[t].disposition = "escalate"
  <2>1. \A r \in Grants(i, t) : r \in DOMAIN log /\ log[r].type = "runResumed"
                                /\ Repaired(i, t, r)
    BY <1>6 DEF Grants
  <2>2. \A r \in DOMAIN log' : log'[r].type = "runResumed" /\ Repaired(i, t, r)' =>
          r \in Grants(i, t)'
    BY <1>2, <1>6 DEF Grants
  <2> QED BY <1>1, <1>2, <1>3, <1>4, <2>1, <2>2
<1>7. CASE log[t].disposition \notin {"retry", "escalate"}
  <2>1. Grants(i, t) = { }
    BY <1>7 DEF Grants
  <2> QED BY <1>1, <1>2, <1>3, <2>1
<1> QED BY <1>5, <1>6, <1>7

(* So no grant is withdrawn.                                               *)
LEMMA SlotsGrow ==
  ASSUME Ledger, [Next]_vars, NEW i \in Steps
  PROVE  Slots(i) \subseteq Slots(i)'
PROOF
<1> SUFFICES ASSUME NEW x \in Slots(i)
             PROVE  x \in Slots(i)'
  OBVIOUS
<1>1. PICK t, g : x = << t, g >>
  BY SlotIs
<1>2. t \in At("handlerTriggered", i) /\ g \in Grants(i, t)
  BY <1>1, SlotIs
<1>3. t \in At("handlerTriggered", i)' /\ g \in Grants(i, t)'
  BY <1>2, GrantsStay
<1> QED BY <1>1, <1>3 DEF Slots

(* They are finitely many.                                                 *)
LEMMA UnionFinite ==
  ASSUME NEW S, IsFiniteSet(S), NEW f, \A s \in S : IsFiniteSet(f[s])
  PROVE  IsFiniteSet(UNION { f[s] : s \in S })
PROOF
<1> DEFINE T == { f[s] : s \in S }
<1> DEFINE g == [s \in S |-> f[s]]
<1>1. g \in Surjection(S, T)
  BY DEF Surjection
<1>2. IsFiniteSet(T)
  <2> HIDE DEF g, T
  <2> QED BY <1>1, FS_Surjection
<1>3. \A X \in T : IsFiniteSet(X)
  OBVIOUS
<1> HIDE DEF T
<1>4. IsFiniteSet(UNION T)
  BY <1>2, <1>3, FS_UNION
<1> QED BY <1>4 DEF T

(* A trigger grants finitely many.                                         *)
LEMMA GrantsFinite ==
  ASSUME Ledger, NEW i \in Steps, NEW t
  PROVE  IsFiniteSet(Grants(i, t))
PROOF
<1>1. CASE log[t].disposition = "retry"
  <2> DEFINE B == AllBindings(i)
  <2> DEFINE K == { k \in DOMAIN B : B[k].hook = log[t].hook /\ B[k].action = "retry" }
  <2> DEFINE f == [k \in K |-> 1 .. B[k].tries]
  <2>1. /\ B \in Seq(HandlerBindings)
    BY StepsAre, FlowShape DEF AllBindings, Steps
  <2>2. /\ Len(B) \in Nat /\ DOMAIN B = 1 .. Len(B)
        /\ \A k \in DOMAIN B : B[k] \in HandlerBindings
    <3> HIDE DEF B
    <3> QED BY <2>1
  <2>3. \A k \in K : B[k].tries \in Nat
    BY <2>2 DEF HandlerBindings
  <2>4. IsFiniteSet(K)
    <3>1. K \in SUBSET (1 .. Len(B))
      BY <2>2
    <3> HIDE DEF K, B
    <3> QED BY <2>2, <3>1, CountIs
  <2>5. \A k \in K : IsFiniteSet(f[k])
    <3>1. \A k \in K : f[k] = 1 .. B[k].tries
      OBVIOUS
    <3> HIDE DEF f, K, B
    <3> QED BY <2>3, <3>1, FS_Interval
  <2>6. IsFiniteSet(UNION { f[k] : k \in K })
    <3> HIDE DEF f, K, B
    <3> QED BY <2>4, <2>5, UnionFinite
  <2>7. Grants(i, t) = UNION { 1 .. tries : tries \in Attempted(i, t) }
    BY <1>1 DEF Grants
  <2>8. Attempted(i, t) = { B[k].tries : k \in K }
    BY DEF Attempted, BindingsOn
  <2>9. \A k \in K : f[k] = 1 .. B[k].tries
    OBVIOUS
  <2>10. UNION { f[k] : k \in K } = UNION { 1 .. tries : tries \in { B[k].tries : k \in K } }
    <3> HIDE DEF f, K, B
    <3> QED BY <2>9
  <2> QED BY <2>6, <2>7, <2>8, <2>10
<1>2. CASE log[t].disposition = "escalate"
  <2>1. Grants(i, t) \in SUBSET (1 .. Len(log)) /\ Len(log) \in Nat
    BY <1>2, LedgerIs, SequenceIs DEF Grants
  <2> QED BY <2>1, CountIs
<1>3. CASE log[t].disposition \notin {"retry", "escalate"}
  BY <1>3, FS_EmptySet DEF Grants
<1> QED BY <1>1, <1>2, <1>3

(* And there are finitely many triggers.                                   *)
LEMMA SlotsFinite ==
  ASSUME Ledger, NEW i \in Steps
  PROVE  IsFiniteSet(Slots(i))
PROOF
<1> DEFINE T == At("handlerTriggered", i)
<1> DEFINE f == [t \in T |-> {t} \X Grants(i, t)]
<1>1. IsFiniteSet(T)
  <2>1. T \in SUBSET (1 .. Len(log)) /\ Len(log) \in Nat
    BY LedgerIs, AtIs
  <2> QED BY <2>1, CountIs
<1>2. \A t \in T : f[t] = {t} \X Grants(i, t)
  OBVIOUS
<1>3. \A t \in T : IsFiniteSet({t} \X Grants(i, t))
  BY GrantsFinite, FS_Singleton, FS_Product
<1>4. Slots(i) = UNION { f[t] : t \in T }
  BY DEF Slots
<1> HIDE DEF f, T
<1>5. IsFiniteSet(UNION { f[t] : t \in T })
  BY <1>1, <1>2, <1>3, UnionFinite
<1> QED BY <1>4, <1>5

-----------------------------------------------------------------------------
(* The re-entries of a step and the one it owes.                           *)
LEMMA OwedIs ==
  ASSUME IsSequence(log), NEW i
  PROVE  /\ IsFiniteSet(Reentries(i)) /\ IsFiniteSet(Owed(i))
         /\ 0 \notin Reentries(i) /\ Reentries(i) \in SUBSET (1 .. Len(log))
         /\ Cardinality(Reentries(i)) \in Nat /\ Len(log) \in Nat
         /\ Cardinality(Owed(i)) = IF Owing(i) THEN Cardinality(Reentries(i)) + 1
                                   ELSE Cardinality(Reentries(i))
PROOF
<1>1. Reentries(i) \in SUBSET (1 .. Len(log)) /\ Len(log) \in Nat
  BY AtIs DEF Reentries
<1>2. 0 \notin Reentries(i)
  BY <1>1
<1>3. IsFiniteSet(Reentries(i)) /\ Cardinality(Reentries(i)) \in Nat
  BY <1>1, CountIs
<1>4. CASE Owing(i)
  BY <1>1, <1>2, <1>3, <1>4, FS_AddElement DEF Owed
<1>5. CASE ~Owing(i)
  <2>1. Owed(i) = Reentries(i)
    BY <1>5 DEF Owed
  <2> QED BY <1>1, <1>2, <1>3, <1>5, <2>1
<1> QED BY <1>4, <1>5

(* The same of the state after an entry.                                   *)
LEMMA OwedNext ==
  ASSUME IsSequence(log'), NEW i
  PROVE  /\ Cardinality(Reentries(i)') \in Nat
         /\ Cardinality(Owed(i)') = IF Owing(i)' THEN Cardinality(Reentries(i)') + 1
                                    ELSE Cardinality(Reentries(i)')
PROOF
<1>1. At("actionIntent", i)' \in SUBSET (1 .. Len(log')) /\ Len(log') \in Nat
  BY SequenceIs DEF At, Entries
<1>2. Reentries(i)' \in SUBSET (1 .. Len(log'))
  BY <1>1 DEF Reentries
<1>3. 0 \notin Reentries(i)'
  BY <1>2
<1>4. IsFiniteSet(Reentries(i)') /\ Cardinality(Reentries(i)') \in Nat
  BY <1>1, <1>2, CountIs
<1>5. CASE Owing(i)'
  <2>1. Owed(i)' = Reentries(i)' \union {0}
    BY <1>5 DEF Owed
  <2> QED BY <1>3, <1>4, <1>5, <2>1, FS_AddElement
<1>6. CASE ~Owing(i)'
  <2>1. Owed(i)' = Reentries(i)'
    BY <1>6 DEF Owed
  <2> QED BY <1>4, <1>6, <2>1
<1> QED BY <1>5, <1>6

(* A dispatch only turns what was owed into an entry; a step of the system *)
(* adds one at most, to the step whose act it comes to.                    *)
LEMMA OwedMoves ==
  ASSUME Ledger, Ledger', [Next]_vars, NEW i \in Steps
  PROVE  /\ Cardinality(Owed(i)) \in Nat /\ Cardinality(Owed(i)') \in Nat
         /\ Cardinality(Owed(i)') <= Cardinality(Owed(i)) + 1
         /\ (Owing(i)' => Owing(i)) => Cardinality(Owed(i)') <= Cardinality(Owed(i))
PROOF
<1>1. IsSequence(log) /\ IsSequence(log')
  BY LogKeeps
<1>2. /\ Cardinality(Reentries(i)) \in Nat
      /\ Cardinality(Owed(i)) = IF Owing(i) THEN Cardinality(Reentries(i)) + 1
                                ELSE Cardinality(Reentries(i))
  BY <1>1, OwedIs
<1>3. /\ Cardinality(Reentries(i)') \in Nat
      /\ Cardinality(Owed(i)') = IF Owing(i)' THEN Cardinality(Reentries(i)') + 1
                                 ELSE Cardinality(Reentries(i)')
  BY <1>1, OwedNext
<1>4. CASE Reentries(i)' = Reentries(i)
  BY <1>2, <1>3, <1>4
<1>5. CASE Reentries(i)' # Reentries(i)
  <2>1. ~UNCHANGED << log, ck >>
    BY <1>5 DEF Reentries, Reenters, Before, At
  <2>2. PICK ev : Writes(ev)
    BY <2>1, StepWrites
  <2>3. /\ ev.type = "actionIntent" /\ proc.i = i /\ Due(i)
        /\ Reentries(i)' = Reentries(i) \union {Len(log) + 1}
    BY <1>5, <2>2, ReentriesMove
  <2>4. proc.at = "act" /\ proc'.at = "dispatch"
    BY <2>2, <2>3, WriteIs DEF InStep, Enters, Intends, Settles, Rules, Triggered, Exits
  <2>5. Owing(i) /\ ~Owing(i)'
    BY <2>3, <2>4 DEF Owing
  <2>6. Cardinality(Reentries(i)') = Cardinality(Reentries(i)) + 1
    BY <1>1, <2>3, OwedIs, CountGrows
  <2> QED BY <1>2, <1>3, <2>5, <2>6
<1> QED BY <1>4, <1>5

-----------------------------------------------------------------------------
(* The requests a segment harvested, and the answers used, stay.           *)
LEMMA ConsumedStays ==
  ASSUME Ledger, [Next]_vars, NEW i \in Steps, NEW t \in At("handlerTriggered", i),
         proc'.base = proc.base, proc.consumed \subseteq proc'.consumed, Consumed(i, t)
  PROVE  Consumed(i, t)'
PROOF
<1> PICK path : path = HumanPath(i, t)
  OBVIOUS
<1> DEFINE Q == RequestsAt(Prefix, path)
<1> DEFINE R == RequestsAt(SubSeq(log', 1, proc.base), path)
<1>1. /\ IsSequence(log) /\ IsSequence(log') /\ proc.base \in 0 .. Len(log)
      /\ Len(log) \in Nat /\ DOMAIN log = 1 .. Len(log)
      /\ \A n \in DOMAIN log : n \in DOMAIN log' /\ log'[n] = log[n]
      /\ \A n \in DOMAIN log' : n \in DOMAIN log \/ n = Len(log) + 1
  BY LogKeeps, LedgerIs
<1>2. proc.base \in 0 .. Len(log')
  <2>1. DOMAIN log' = 1 .. Len(log') /\ Len(log') \in Nat
    BY <1>1, SequenceIs
  <2>2. Len(log) = 0 \/ Len(log) \in DOMAIN log'
    BY <1>1
  <2> QED BY <1>1, <2>1, <2>2
<1>3. Q = { n \in Entries(log, "humanRequested", path) : n <= proc.base }
  BY <1>1, EntriesOfPrefix DEF RequestsAt, Prefix
<1>4. R = { n \in Entries(log', "humanRequested", path) : n <= proc.base }
  BY <1>1, <1>2, EntriesOfPrefix DEF RequestsAt
<1>5. \A n : n \in Entries(log', "humanRequested", path) /\ n <= proc.base <=>
             n \in Entries(log, "humanRequested", path) /\ n <= proc.base
  BY <1>1 DEF Entries
<1>6. R = Q
  BY <1>3, <1>4, <1>5
<1>7. \A n \in Q : n \in DOMAIN log
  BY <1>3 DEF Entries
<1>8. \A n \in Q : n = Latest(Q) => log[n].req \in proc.consumed
  BY DEF Consumed
<1>9. HumanPath(i, t)' = path
  BY GrantsStay
<1>10. Consumed(i, t)' <=> \A n \in R : n = Latest(R) => log'[n].req \in proc'.consumed
  BY <1>9 DEF Consumed, Prefix
<1> HIDE DEF Q, R
<1> QED BY <1>1, <1>6, <1>7, <1>8, <1>10

(* Grants of the past stay spent as they are.                              *)
LEMMA KeptStays ==
  ASSUME Ledger, [Next]_vars, NEW i \in Steps, NEW spent \in SUBSET Slots(i),
         Kept(i, spent), proc.at \in Inside \union {"walk"},
         proc'.base = proc.base, proc.consumed \subseteq proc'.consumed
  PROVE  \A t \in At("handlerTriggered", i)' :
           log'[t].disposition = "escalate" /\ << t, proc'.base + 1 >> \in spent =>
             Consumed(i, t)'
PROOF
<1> SUFFICES ASSUME NEW t \in At("handlerTriggered", i)',
                    log'[t].disposition = "escalate", << t, proc'.base + 1 >> \in spent
             PROVE  Consumed(i, t)'
  OBVIOUS
<1>1. t \in At("handlerTriggered", i)
  BY SlotIs
<1>2. log'[t] = log[t]
  BY <1>1, GrantsStay
<1>3. Consumed(i, t)
  BY <1>1, <1>2 DEF Kept
<1> QED BY <1>1, <1>3, ConsumedStays

(* What a retry has in reserve stays unspent.                              *)
LEMMA ReserveStays ==
  ASSUME Ledger, [Next]_vars, Forced, NEW i \in Steps, NEW spent, Reserve(i, spent),
         \/ proc'.inForce = 0
         \/ proc'.inForce = proc.inForce /\ proc'.i = proc.i /\ proc.at \in Inside
  PROVE  Reserve(i, spent)'
PROOF
<1> SUFFICES ASSUME proc'.at \in Inside, proc'.i = i, proc'.inForce > 0
             PROVE  \E t \in At("handlerTriggered", i)' : \E tries \in Attempted(i, t)' :
                      /\ log'[t].disposition = "retry" /\ proc'.inForce <= tries
                      /\ \A k \in 1 .. proc'.inForce : << t, k >> \notin spent
  BY DEF Reserve
<1>1. proc'.inForce = proc.inForce /\ proc.i = i /\ proc.at \in Inside
  OBVIOUS
<1>2. PICK t \in At("handlerTriggered", i) :
        \E tries \in Attempted(i, t) :
          /\ log[t].disposition = "retry" /\ proc.inForce <= tries
          /\ \A k \in 1 .. proc.inForce : << t, k >> \notin spent
  BY <1>1 DEF Reserve
<1>3. log'[t] = log[t] /\ t \in At("handlerTriggered", i)'
      /\ Attempted(i, t)' = Attempted(i, t)
  BY GrantsStay
<1> QED BY <1>1, <1>2, <1>3

(* A step that comes to no act spends nothing.                             *)
LEMMA QuietCovers ==
  ASSUME Ledger, Ledger', Forced, [Next]_vars, Listens \/ Rests \/ Proceeds \/ Starts,
         NEW i \in Steps, NEW spent \in SUBSET Slots(i), Covers(i, spent)
  PROVE  Covers(i, spent)'
PROOF
<1>1. Cardinality(Owed(i)') <= Cardinality(spent)
  <2>1. Owing(i)' => Owing(i)
    <3>1. CASE Listens
      <4>1. UNCHANGED << log, ck >> \/ \E ev : Writes(ev) /\ ev.type = "humanResponded"
        BY <3>1 DEF Listens, Responds
      <4>2. Due(i)' <=> Due(i)
        BY <4>1, DueStays
      <4> QED BY <3>1, <4>2 DEF Listens, Owing
    <3>2. CASE Rests \/ Starts
      BY <3>2 DEF Rests, Starts, Owing, Inside
    <3>3. CASE Proceeds
      BY <3>3 DEF Proceeds, Owing
    <3> QED BY <3>1, <3>2, <3>3
  <2>2. Cardinality(spent) \in Nat
    BY SlotsFinite, FS_Subset, FS_CardinalityType
  <2> QED BY <2>1, <2>2, OwedMoves DEF Covers
<1>2. Reserve(i, spent)'
  <2>1. CASE Listens \/ Proceeds
    <3>1. CASE proc'.at \notin Inside
      BY <3>1 DEF Reserve
    <3>2. CASE proc'.at \in Inside
      BY <2>1, <3>2, ReserveStays DEF Listens, Proceeds, Covers
    <3> QED BY <3>1, <3>2
  <2>2. CASE Rests \/ Starts
    BY <2>2 DEF Rests, Starts, Reserve, Inside
  <2> QED BY <2>1, <2>2
<1>3. Kept(i, spent)'
  <2>1. CASE Rests
    BY <2>1 DEF Rests, Kept
  <2>2. CASE Listens \/ Proceeds
    <3>1. CASE proc'.at \notin Inside \union {"walk"}
      BY <3>1 DEF Kept
    <3>2. CASE proc'.at \in Inside \union {"walk"}
      <4>1. /\ proc.at \in Inside \union {"walk"} /\ proc'.base = proc.base
            /\ proc.consumed \subseteq proc'.consumed
        BY <2>2, <3>2 DEF Listens, Proceeds
      <4> QED BY <4>1, KeptStays DEF Kept, Covers
    <3> QED BY <3>1, <3>2
  <2>3. CASE Starts
    <3> SUFFICES ASSUME NEW t \in At("handlerTriggered", i)',
                        log'[t].disposition = "escalate",
                        << t, proc'.base + 1 >> \in spent
                 PROVE  FALSE
      BY DEF Kept
    <3>1. << t, Len(log) + 1 >> \in Slots(i)
      BY <2>3 DEF Starts
    <3>2. t \in At("handlerTriggered", i) /\ Len(log) + 1 \in Grants(i, t)
      BY <3>1, SlotIs
    <3>3. log[t].disposition = "escalate"
      BY <3>2, GrantsStay
    <3>4. Len(log) + 1 \in DOMAIN log
      BY <3>2, <3>3 DEF Grants
    <3> QED BY <3>4, LogKeeps
  <2> QED BY <2>1, <2>2, <2>3
<1> QED BY <1>1, <1>2, <1>3 DEF Covers

-----------------------------------------------------------------------------
(* One grant more is spent by a step that comes back to its act.           *)
LEMMA OneMore ==
  ASSUME Ledger, Ledger', [Next]_vars, NEW i \in Steps, NEW spent \in SUBSET Slots(i),
         Cardinality(Owed(i)) <= Cardinality(spent), NEW x, x \notin spent
  PROVE  Cardinality(Owed(i)') <= Cardinality(spent \union {x})
PROOF
<1>1. IsFiniteSet(spent) /\ Cardinality(spent) \in Nat
  BY SlotsFinite, FS_Subset, FS_CardinalityType
<1>2. Cardinality(spent \union {x}) = Cardinality(spent) + 1
  BY <1>1, FS_AddElement
<1> QED BY <1>1, <1>2, OwedMoves

(* A retry in force: the next one of its reserve.                          *)
LEMMA RetrySpends ==
  ASSUME Ledger, Ledger', Forced, [Next]_vars, Returns, RetryInForce,
         NEW i \in Steps, proc.i = i, NEW spent \in SUBSET Slots(i), Covers(i, spent)
  PROVE  \E more \in SUBSET Slots(i)' : Covers(i, more)'
PROOF
<1>1. /\ proc.at = "consult" /\ proc'.i = i /\ proc'.base = proc.base
      /\ IsProc(proc) /\ proc.inForce \in Nat
  BY LedgerIs DEF Returns, Forced, Inside
<1>2. /\ proc.inForce > 0 /\ proc'.inForce = proc.inForce - 1
      /\ proc'.consumed = proc.consumed
  BY <1>1, RetryForce
<1>3. PICK t \in At("handlerTriggered", i) : \E tries \in Attempted(i, t) :
        /\ log[t].disposition = "retry" /\ proc.inForce <= tries
        /\ \A k \in 1 .. proc.inForce : << t, k >> \notin spent
  BY <1>1, <1>2 DEF Covers, Reserve, Inside
<1>4. PICK tries \in Attempted(i, t) :
        /\ log[t].disposition = "retry" /\ proc.inForce <= tries
        /\ \A k \in 1 .. proc.inForce : << t, k >> \notin spent
  BY <1>3
<1>5. tries \in Nat
  BY BindingsAre DEF Attempted, HandlerBindings
<1>6. PICK x : x = << t, proc.inForce >>
  OBVIOUS
<1>7. x \in Slots(i) /\ x \notin spent
  <2>1. Grants(i, t) = UNION { 1 .. n : n \in Attempted(i, t) }
    BY <1>4 DEF Grants
  <2>2. proc.inForce \in 1 .. tries
    BY <1>1, <1>2, <1>4, <1>5
  <2>3. proc.inForce \in Grants(i, t)
    BY <1>4, <2>1, <2>2
  <2> QED BY <1>1, <1>2, <1>4, <1>6, <2>3, SlotIs
<1> PICK more : more = spent \union {x}
  OBVIOUS
<1>8. more \in SUBSET Slots(i)'
  BY <1>7, SlotsGrow
<1>9. Cardinality(Owed(i)') <= Cardinality(more)
  BY <1>7, OneMore DEF Covers
<1>10. /\ log'[t] = log[t] /\ t \in At("handlerTriggered", i)'
       /\ Attempted(i, t)' = Attempted(i, t)
  BY GrantsStay
<1>11. Reserve(i, more)'
  <2>1. \A k \in 1 .. proc'.inForce : << t, k >> \notin more
    <3> SUFFICES ASSUME NEW k \in 1 .. proc'.inForce
                 PROVE  << t, k >> \notin more
      OBVIOUS
    <3>1. k \in 1 .. proc.inForce /\ k # proc.inForce
      BY <1>1, <1>2
    <3>2. << t, k >> # x
      BY <1>6, <3>1
    <3> QED BY <1>4, <3>1, <3>2
  <2>2. proc'.inForce <= tries
    BY <1>1, <1>2, <1>4, <1>5
  <2>3. \E s \in At("handlerTriggered", i)' : \E n \in Attempted(i, s)' :
          /\ log'[s].disposition = "retry" /\ proc'.inForce <= n
          /\ \A k \in 1 .. proc'.inForce : << s, k >> \notin more
    BY <1>4, <1>10, <2>1, <2>2
  <2> QED BY <2>3 DEF Reserve
<1>12. Kept(i, more)'
  <2> SUFFICES ASSUME NEW s \in At("handlerTriggered", i)',
                      log'[s].disposition = "escalate",
                      << s, proc'.base + 1 >> \in more
               PROVE  Consumed(i, s)'
    BY DEF Kept
  <2>1. s # t
    BY <1>4, <1>10
  <2>2. << s, proc'.base + 1 >> \in spent
    BY <1>6, <2>1
  <2> QED BY <1>1, <1>2, <2>2, KeptStays DEF Covers, Inside
<1> QED BY <1>8, <1>9, <1>11, <1>12 DEF Covers

(* A new trigger of a retry: the last one it grants.                       *)
LEMMA ConsultSpends ==
  ASSUME Ledger, Ledger', Forced, [Next]_vars, Returns, ConsultHook,
         NEW i \in Steps, proc.i = i, NEW spent \in SUBSET Slots(i), Covers(i, spent)
  PROVE  \E more \in SUBSET Slots(i)' : Covers(i, more)'
PROOF
<1>1. /\ proc.at = "consult" /\ proc'.i = i /\ proc'.base = proc.base
      /\ proc'.at = "act" /\ IsProc(proc)
  BY LedgerIs DEF Returns
<1>2. proc'.consumed = proc.consumed
  BY <1>1, ConsultGrants
<1>3. PICK ev : \E b \in BindingsOn(i, Hook(proc)) :
        /\ Wrote("handlerTriggered", Here, ev) /\ ev.hook = Hook(proc)
        /\ ev.disposition = "retry" /\ b.action = "retry" /\ proc'.inForce = b.tries - 1
  BY <1>1, ConsultGrants
<1>4. PICK b \in BindingsOn(i, Hook(proc)) :
        /\ Wrote("handlerTriggered", Here, ev) /\ ev.hook = Hook(proc)
        /\ ev.disposition = "retry" /\ b.action = "retry" /\ proc'.inForce = b.tries - 1
  BY <1>3
<1>5. b.tries \in Nat /\ b.tries > 0
  BY <1>4, TriesAre
<1>6. /\ Len(log) \in Nat /\ DOMAIN log = 1 .. Len(log) /\ Write(ev) /\ IsSequence(log)
      /\ ev.path = StepPath(i) /\ ev.type = "handlerTriggered"
  BY <1>1, <1>4, LogKeeps DEF Wrote, Here
<1>7. PICK t : t = Len(log) + 1
  OBVIOUS
<1>8. /\ log'[t] = ev /\ At("handlerTriggered", i)' = At("handlerTriggered", i) \union {t}
  BY <1>6, <1>7, Grows, AtGrows
<1>9. t \notin At("handlerTriggered", i)
  BY <1>6, <1>7, AtIs
<1>10. b.tries \in Attempted(i, t)'
  <2>1. b \in BindingsOn(i, ev.hook)
    BY <1>4
  <2>2. BindingsOn(i, log[t].hook)' = BindingsOn(i, ev.hook)
    BY <1>8 DEF BindingsOn, AllBindings
  <2> QED BY <1>4, <2>1, <2>2 DEF Attempted
<1>11. PICK x : x = << t, b.tries >>
  OBVIOUS
<1>12. x \in Slots(i)' /\ x \notin spent
  <2>1. Grants(i, t)' = UNION { 1 .. n : n \in Attempted(i, t)' }
    BY <1>4, <1>8 DEF Grants
  <2>2. b.tries \in 1 .. b.tries
    BY <1>5
  <2>3. b.tries \in Grants(i, t)'
    BY <1>10, <2>1, <2>2
  <2>4. t \in At("handlerTriggered", i)'
    BY <1>8
  <2>5. x \in Slots(i)'
    BY <1>11, <2>3, <2>4 DEF Slots
  <2> QED BY <1>9, <1>11, <2>5, SlotIs
<1> PICK more : more = spent \union {x}
  OBVIOUS
<1>13. more \in SUBSET Slots(i)'
  BY <1>12, SlotsGrow
<1>14. Cardinality(Owed(i)') <= Cardinality(more)
  BY <1>12, OneMore DEF Covers
<1>15. Reserve(i, more)'
  <2>1. \A k \in 1 .. proc'.inForce : << t, k >> \notin more
    <3> SUFFICES ASSUME NEW k \in 1 .. proc'.inForce
                 PROVE  << t, k >> \notin more
      OBVIOUS
    <3>1. k # b.tries
      BY <1>4, <1>5
    <3>2. << t, k >> \notin spent
      BY <1>9, SlotIs
    <3> QED BY <1>11, <3>1, <3>2
  <2>2. proc'.inForce <= b.tries /\ log'[t].disposition = "retry"
    BY <1>4, <1>5, <1>8
  <2>3. \E s \in At("handlerTriggered", i)' : \E n \in Attempted(i, s)' :
          /\ log'[s].disposition = "retry" /\ proc'.inForce <= n
          /\ \A k \in 1 .. proc'.inForce : << s, k >> \notin more
    BY <1>8, <1>10, <2>1, <2>2
  <2> QED BY <2>3 DEF Reserve
<1>16. Kept(i, more)'
  <2> SUFFICES ASSUME NEW s \in At("handlerTriggered", i)',
                      log'[s].disposition = "escalate",
                      << s, proc'.base + 1 >> \in more
               PROVE  Consumed(i, s)'
    BY DEF Kept
  <2>1. s # t
    BY <1>4, <1>8
  <2>2. << s, proc'.base + 1 >> \in spent
    BY <1>11, <2>1
  <2> QED BY <1>1, <1>2, <2>2, KeptStays DEF Covers, Inside
<1> QED BY <1>13, <1>14, <1>15, <1>16 DEF Covers

-----------------------------------------------------------------------------
(* Paths of humans that name one instance are one.                         *)
LEMMA HumanPathsAre ==
  ASSUME NEW i \in Steps, NEW j \in Steps, NEW g, NEW h, NEW m, NEW n,
         SameInstance(HookPath(j, h, n, "human"), HookPath(i, g, m, "human"))
  PROVE  i = j /\ g = h /\ m = n
PROOF
<1> PICK p, q : p = HookPath(j, h, n, "human") /\ q = HookPath(i, g, m, "human")
  OBVIOUS
<1>1. /\ Len(p) = 4 /\ p[2] = StepFrame(j) /\ p[3].id = << h, n >>
      /\ Len(q) = 4 /\ q[2] = StepFrame(i) /\ q[3].id = << g, m >>
  BY HookPathIs
<1>2. SameSite(p[2], q[2]) /\ SameSite(p[3], q[3])
  BY <1>1 DEF SameInstance, SitePrefix
<1>3. Flow[j].id = Flow[i].id
  BY <1>1, <1>2 DEF SameSite, StepFrame
<1>4. << h, n >> = << g, m >>
  BY <1>1, <1>2 DEF SameSite
<1> QED BY <1>3, <1>4, FlowShape DEF Steps

(* The answer a process acts on is on the ledger before its segment, to a  *)
(* request of an escalation of this step.                                  *)
LEMMA AnswerOnRecord ==
  ASSUME Ledger, Calling, NEW i \in Steps, proc.i = i, NEW n \in Asked(proc),
         AnswerTo(Prefix, log[n].req) = "done"
  PROVE  \E t \in At("handlerTriggered", i) :
           /\ log[t].disposition = "escalate"
           /\ n \in RequestsAt(Prefix, HumanPath(i, t))
           /\ n = Latest(RequestsAt(Prefix, HumanPath(i, t)))
           /\ log[n].req \notin proc.consumed
           /\ proc.base \in 1 .. Len(log) /\ Repaired(i, t, proc.base + 1)
PROOF
<1>1. /\ IsSequence(log) /\ ShapedLedger /\ Answered /\ proc.base \in 0 .. Len(log)
      /\ Len(log) \in Nat /\ DOMAIN log = 1 .. Len(log)
  BY LedgerIs, SequenceIs
<1>2. PICK hook, trigger :
        /\ n \in RequestsAt(Prefix, HookPath(i, hook, trigger, "human"))
        /\ n = Latest(RequestsAt(Prefix, HookPath(i, hook, trigger, "human")))
        /\ log[n].req \notin proc.consumed
  BY DEF Asked
<1>3. PICK path : path = HookPath(i, hook, trigger, "human")
  OBVIOUS
<1>4. /\ n \in Requests /\ SameInstance(log[n].path, path) /\ n <= proc.base
  <2>1. RequestsAt(Prefix, path)
          = { m \in Entries(log, "humanRequested", path) : m <= proc.base }
    BY <1>1, EntriesOfPrefix DEF RequestsAt, Prefix
  <2> QED BY <1>2, <1>3, <2>1 DEF Entries, Requests
<1>5. Len(log[n].path) = 4 /\ log[n].path[4].id = "human"
  BY <1>3, <1>4, HookPathIs DEF SameInstance, SitePrefix, SameSite
<1>6. EscalationRequest(log[n])
  <2>1. GateRequest(log[n]) \/ EscalationRequest(log[n]) \/ AdjudicationRequest(log[n])
    BY <1>1, <1>4 DEF Answered, Declared
  <2>2. ~GateRequest(log[n])
    BY <1>5, StepPathIs DEF GateRequest
  <2>3. ~AdjudicationRequest(log[n])
    BY <1>5 DEF AdjudicationRequest, HookRequest
  <2> QED BY <2>1, <2>2, <2>3
<1>7. PICK j \in Steps : \E t \in At("handlerTriggered", j) :
        /\ t < n /\ log[t].disposition = "escalate"
        /\ log[n].path = HookPath(j, log[t].hook, log[t].trigger, "human")
  BY <1>4, <1>6 DEF Calling, Called
<1>8. PICK t \in At("handlerTriggered", j) :
        /\ t < n /\ log[t].disposition = "escalate"
        /\ log[n].path = HookPath(j, log[t].hook, log[t].trigger, "human")
  BY <1>7
<1>9. i = j /\ hook = log[t].hook /\ trigger = log[t].trigger
  BY <1>3, <1>4, <1>8, HumanPathsAre
<1>10. t \in At("handlerTriggered", i) /\ path = HumanPath(i, t) /\ log[n].path = path
       /\ t \in 1 .. Len(log)
  BY <1>1, <1>3, <1>8, <1>9, AtIs DEF HumanPath
<1>11. PICK a \in Final(log[n].req) :
         a <= proc.base /\ log[a].decision = "done"
  <2>1. /\ IsSequence(Prefix) /\ Len(Prefix) <= Len(log) /\ Len(Prefix) = proc.base
        /\ \A m \in DOMAIN Prefix : Prefix[m] = log[m]
    BY <1>1, PartIs DEF Prefix
  <2>2. "done" # NoPending
    BY Marks DEF Decisions
  <2> QED BY <1>1, <2>1, <2>2, AnswerIs
<1>12. a \in Responses /\ log[a].req = log[n].req
  BY <1>11 DEF Final
<1>13. PICK q \in Requests : AnswersRequest(a, q)
  BY <1>1, <1>12 DEF Answered
<1>14. q = n
  BY <1>1, <1>4, <1>12, <1>13, RequestIsUnique DEF AnswersRequest
<1>15. n < a /\ a \in 1 .. Len(log) /\ log[a].type = "humanResponded"
       /\ n \in 1 .. Len(log) /\ log[n].type = "humanRequested"
  BY <1>1, <1>4, <1>12, <1>13, <1>14 DEF AnswersRequest, Responses, Requests
<1>16. Repaired(i, t, proc.base + 1)
  <2>1. a \in t .. proc.base + 1 /\ n \in t .. a
    BY <1>1, <1>8, <1>10, <1>11, <1>15
  <2> QED BY <1>10, <1>11, <1>12, <1>15, <2>1 DEF Repaired, HumanPath
<1>17. proc.base \in 1 .. Len(log)
  BY <1>1, <1>4, <1>15
<1> QED BY <1>2, <1>3, <1>8, <1>10, <1>16, <1>17

(* A repaired world: what this segment was granted by the answer it found. *)
LEMMA AnswerSpends ==
  ASSUME Ledger, Ledger', Forced, Calling, Based, [Next]_vars, Returns, ContinueEscalation,
         NEW i \in Steps, proc.i = i, NEW spent \in SUBSET Slots(i), Covers(i, spent)
  PROVE  \E more \in SUBSET Slots(i)' : Covers(i, more)'
PROOF
<1>1. /\ proc.at = "consult" /\ proc'.i = i /\ proc'.base = proc.base
      /\ proc'.at = "act" /\ Len(log) \in Nat /\ DOMAIN log = 1 .. Len(log)
  BY LogKeeps DEF Returns
<1>2. PICK n \in Asked(proc) : /\ proc'.consumed = proc.consumed \union {log[n].req}
                               /\ AnswerTo(Prefix, log[n].req) = "done"
                               /\ proc'.inForce = 0
  BY <1>1, ContinueForce DEF Inside
<1>3. PICK t \in At("handlerTriggered", i) :
        /\ log[t].disposition = "escalate"
        /\ n \in RequestsAt(Prefix, HumanPath(i, t))
        /\ n = Latest(RequestsAt(Prefix, HumanPath(i, t)))
        /\ log[n].req \notin proc.consumed
        /\ proc.base \in 1 .. Len(log) /\ Repaired(i, t, proc.base + 1)
  BY <1>2, AnswerOnRecord
<1>4. ~Consumed(i, t)
  BY <1>3 DEF Consumed
<1>5. PICK x : x = << t, proc.base + 1 >>
  OBVIOUS
<1>6. x \notin spent
  BY <1>1, <1>3, <1>4, <1>5 DEF Covers, Kept, Inside
<1>7. x \in Slots(i)
  <2>1. proc.base + 1 \in DOMAIN log /\ log[proc.base + 1].type = "runResumed"
    BY <1>1, <1>3 DEF Based, Inside
  <2>2. proc.base + 1 \in Grants(i, t)
    BY <1>3, <2>1 DEF Grants
  <2> QED BY <1>5, <2>2, SlotIs
<1> PICK more : more = spent \union {x}
  OBVIOUS
<1>8. more \in SUBSET Slots(i)'
  BY <1>7, SlotsGrow
<1>9. Cardinality(Owed(i)') <= Cardinality(more)
  BY <1>6, OneMore DEF Covers
<1>10. Reserve(i, more)'
  BY <1>2 DEF Reserve
<1>11. Kept(i, more)'
  <2> SUFFICES ASSUME NEW s \in At("handlerTriggered", i)',
                      log'[s].disposition = "escalate",
                      << s, proc'.base + 1 >> \in more
               PROVE  Consumed(i, s)'
    BY DEF Kept
  <2>1. CASE << s, proc'.base + 1 >> \in spent
    BY <1>1, <1>2, <2>1, KeptStays DEF Covers, Inside
  <2>2. CASE << s, proc'.base + 1 >> = x
    <3>1. s = t
      BY <1>5, <2>2
    <3>2. /\ HumanPath(i, t)' = HumanPath(i, t) /\ UNCHANGED log
      BY GrantsStay DEF ContinueEscalation
    <3>3. RequestsAt(Prefix, HumanPath(i, t))' = RequestsAt(Prefix, HumanPath(i, t))
      BY <1>1, <3>2 DEF RequestsAt, Entries, Prefix
    <3>4. \A m \in RequestsAt(Prefix, HumanPath(i, t))' :
            m = Latest(RequestsAt(Prefix, HumanPath(i, t))') =>
              log'[m].req \in proc'.consumed
      BY <1>2, <1>3, <3>2, <3>3
    <3>5. Consumed(i, t)'
      BY <3>4 DEF Consumed
    <3> QED BY <3>1, <3>5
  <2> QED BY <2>1, <2>2
<1> QED BY <1>8, <1>9, <1>10, <1>11 DEF Covers

(* A step that returns to its act spends a grant, the others none.         *)
LEMMA ReturnCovers ==
  ASSUME Ledger, Ledger', Forced, Calling, Based, [Next]_vars, Returns,
         NEW i \in Steps, NEW spent \in SUBSET Slots(i), Covers(i, spent)
  PROVE  \E more \in SUBSET Slots(i)' : Covers(i, more)'
PROOF
<1>1. CASE proc.i = i
  BY <1>1, RetrySpends, ConsultSpends, AnswerSpends DEF Returns
<1>2. CASE proc.i # i
  <2>1. /\ proc.at = "consult" /\ proc'.i # i /\ proc'.base = proc.base
        /\ proc'.at = "act" /\ IsProc(proc) /\ proc.i \in Steps
    BY <1>2, LedgerIs DEF Returns, Inside
  <2>2. proc.consumed \subseteq proc'.consumed
    BY <2>1, RetryForce, ContinueForce, ConsultGrants DEF Returns, Inside
  <2>3. Reserve(i, spent)'
    BY <2>1 DEF Reserve
  <2>4. Kept(i, spent)'
    BY <2>1, <2>2, KeptStays DEF Covers, Kept, Inside
  <2>5. ~Owing(i)'
    BY <2>1 DEF Owing
  <2>6. Cardinality(spent) \in Nat
    BY SlotsFinite, FS_Subset, FS_CardinalityType
  <2>7. Cardinality(Owed(i)') <= Cardinality(spent)
    BY <2>5, <2>6, OwedMoves DEF Covers
  <2>8. spent \in SUBSET Slots(i)'
    BY SlotsGrow
  <2> QED BY <2>3, <2>4, <2>7, <2>8 DEF Covers
<1> QED BY <1>1, <1>2

(* Every step of the system leaves the re-entries covered.                 *)
LEMMA GrantingNext ==
  ASSUME Ledger, Ledger', Framed, Licences, Unsettled, Ungated, Forced, Calling, Based,
         Granting, [Next]_vars
  PROVE  Granting'
PROOF
<1> SUFFICES ASSUME NEW i \in Steps
             PROVE  \E more \in SUBSET Slots(i)' : Covers(i, more)'
  BY DEF Granting, Steps
<1> PICK spent \in SUBSET Slots(i) : Covers(i, spent)
  BY DEF Granting
<1>1. CASE Listens \/ Rests \/ Proceeds \/ Starts
  BY <1>1, QuietCovers, SlotsGrow
<1>2. CASE Returns
  BY <1>2, ReturnCovers
<1> QED BY <1>1, <1>2, GrantMoves

(* No act is re-entered more often than the triggers of its handlers       *)
(* granted: not by a retry whose count a crash forgot, not by an answer    *)
(* that one process uses twice, and not without a trigger at all.          *)
THEOREM ReentriesGranted == Spec => []ReentriesAreLicensed
PROOF
<1> DEFINE Inv == /\ Framed /\ Answerable /\ Ruling /\ Based
                  /\ Ahead("verdictRecorded") /\ Ahead("actionSettled")
                  /\ Unsettled /\ Ungated /\ Calling /\ Forced /\ Granting
<1>1. Init => Inv
  <2> SUFFICES ASSUME Init
               PROVE  Inv
    OBVIOUS
  <2>1. /\ log = << >> /\ proc.at = "down" /\ ck.completed = << >> /\ ck.inFlight = << >>
        /\ ck.frontier.intent = NoIntent
    BY SeedIs, DownIs DEF Init
  <2>2. /\ DOMAIN log = { } /\ DOMAIN ck.completed = { } /\ DOMAIN ck.inFlight = { }
        /\ \A type, i : At(type, i) = { }
    BY <2>1, EmptyIs DEF At, Entries
  <2>3. Framed /\ Answerable
    BY FramedInit, AnswerableInit
  <2>4. Granting
    <3> SUFFICES ASSUME NEW i \in Steps
                 PROVE  Covers(i, { })
      BY DEF Granting
    <3>1. Owed(i) = { }
      BY <2>1, <2>2 DEF Owed, Reentries, Owing
    <3>2. Cardinality(Owed(i)) <= Cardinality({ })
      BY <3>1, FS_EmptySet
    <3>3. Reserve(i, { }) /\ Kept(i, { })
      BY <2>1 DEF Reserve, Kept, Inside
    <3> QED BY <3>2, <3>3 DEF Covers
  <2> QED BY <2>1, <2>2, <2>3, <2>4
          DEF Ruling, Based, Ahead, Unsettled, Ungated, Calling, Forced, Requests, Inside
<1>2. Ledger /\ Ledger' /\ Inv /\ [Next]_vars => Inv'
  <2> SUFFICES ASSUME Ledger, Ledger', Inv, [Next]_vars
               PROVE  Inv'
    OBVIOUS
  <2>1. Framed'
    BY FramedNext
  <2>2. Answerable'
    BY <2>1, AnswerableNext
  <2>3. Ruling' /\ Based' /\ Calling'
    BY RulingNext, BasedNext, CallingNext
  <2>4. Ahead("verdictRecorded")' /\ Ahead("actionSettled")'
    BY AheadNext
  <2>5. Unsettled'
    BY UnsettledNext DEF Framed, Answerable
  <2>6. Ungated'
    BY UngatedNext DEF Answerable
  <2>7. Forced' /\ Granting'
    BY ForcedNext, GrantingNext DEF Answerable
  <2> QED BY <2>1, <2>2, <2>3, <2>4, <2>5, <2>6, <2>7
<1>3. Ledger /\ Inv => ReentriesAreLicensed
  <2> SUFFICES ASSUME Ledger, Granting, NEW i \in Steps
               PROVE  Cardinality(Reentries(i)) <= Cardinality(Slots(i))
    BY DEF ReentriesAreLicensed
  <2>1. PICK spent \in SUBSET Slots(i) : Covers(i, spent)
    BY DEF Granting
  <2>2. Cardinality(spent) <= Cardinality(Slots(i)) /\ IsFiniteSet(spent)
    BY <2>1, SlotsFinite, FS_Subset
  <2>3. Cardinality(spent) \in Nat /\ Cardinality(Slots(i)) \in Nat
    BY <2>2, SlotsFinite, FS_CardinalityType
  <2>4. /\ Cardinality(Reentries(i)) \in Nat
        /\ Cardinality(Reentries(i)) <= Cardinality(Owed(i))
        /\ Cardinality(Owed(i)) \in Nat
    BY LedgerIs, OwedIs
  <2>5. Cardinality(Owed(i)) <= Cardinality(spent)
    BY <2>1 DEF Covers
  <2> QED BY <2>2, <2>3, <2>4, <2>5
<1> HIDE DEF Inv
<1>4. Spec => []ReentriesAreLicensed
  BY <1>1, <1>2, <1>3, LedgerHolds, PTL DEF Spec
<1> QED BY <1>4

-----------------------------------------------------------------------------
(* A process that walks has no unresolved arguments; a step whose          *)
(* arguments cannot be resolved only records its failure, and was never    *)
(* dispatched.                                                             *)
Resolving ==
  /\ proc.at = "walk" => ~proc.plain
  /\ proc.at \in Inside /\ This.badArgs => proc.plain /\ proc.at \in {"record", "exit"}
  /\ \A i \in Steps : Flow[i].badArgs => At("actionIntent", i) = { }

(* A consultation is about a negative, the one in force; a human is asked  *)
(* by the binding of an escalation.                                        *)
Escalating == Matching(proc) # { } /\ BindingFor(proc).action = "escalate"
Consulted ==
  /\ proc.at \in {"consult", "ask"} =>
       proc.status \in {"fail", "unknown"} /\ Verdict(proc.i) = proc.status
  /\ proc.at = "ask" => Escalating

(* A request whose deadline passed was not answered and never will be.     *)
Lapsed == \A r \in late : Final(r) = { }

(* Arguments that cannot be resolved are recorded as a failure.            *)
LEMMA UnresolvedIsRecorded ==
  ASSUME IsProc(proc), EnterStep, This.badArgs, WorkHere = "none"
  PROVE  proc'.at = "record" /\ proc'.plain
PROOF
<1> DEFINE taken == [proc EXCEPT !.work = IF proc.site = proc.i THEN "none" ELSE @]
           negative == Negative(taken, "fail", "none")
<1>1. proc' = [negative EXCEPT !.plain = TRUE]
  BY DEF EnterStep
<1>2. IsProc(taken)
  BY DEF IsProc, ProcFields
<1> HIDE DEF taken
<1>3. IsProc(negative) /\ negative.at = "record"
  BY <1>2, NegativeIs DEF SameRound
<1> HIDE DEF negative
<1> QED BY <1>1, <1>3 DEF IsProc, ProcFields

(* Every step of the system resolves so.                                   *)
LEMMA ResolvingNext ==
  ASSUME Ledger, Ledger', Framed, Unsettled, Resolving, [Next]_vars
  PROVE  Resolving'
PROOF
<1>1. /\ IsProc(proc) /\ IsSequence(log) /\ CallsOwned /\ Pursued /\ Carried
      /\ (proc.at \in Inside => proc.i \in Steps)
  BY LedgerIs DEF Framed
<1>2. ASSUME NEW i \in Steps, Flow[i].badArgs
      PROVE  At("actionIntent", i)' = { }
  <2>1. At("actionIntent", i) = { }
    BY <1>2 DEF Resolving
  <2>2. CASE UNCHANGED << log, ck >>
    BY <2>1, <2>2 DEF At
  <2>3. ASSUME NEW ev, Writes(ev)
        PROVE  At("actionIntent", i)' = At("actionIntent", i)
    <3>1. CASE ev.type # "actionIntent"
      BY <1>1, <2>3, <3>1, WriteIs, AtStays
    <3>2. CASE ev.type = "actionIntent"
      <4>1. PICK k \in Steps : InStep(ev, k)
        BY <2>3, <3>2, WriteIs
      <4>2. proc.at = "act" /\ proc.i = k /\ ev.path = StepPath(k) /\ k # i
        BY <1>2, <3>2, <4>1
           DEF InStep, Enters, Intends, Settles, Rules, Triggered, Exits, Resolving, Inside, This
      <4> QED BY <1>1, <2>3, <4>2, AtGrows, WriteIs
    <3> QED BY <3>1, <3>2
  <2> QED BY <2>1, <2>2, <2>3, StepWrites
<1> SUFFICES /\ proc'.at = "walk" => ~proc'.plain
             /\ proc'.at \in Inside /\ Flow[proc'.i].badArgs =>
                  proc'.plain /\ proc'.at \in {"record", "exit"}
  BY <1>2 DEF Resolving, Steps, This
<1>3. CASE Listens
  BY <1>3 DEF Listens, Resolving, This
<1>4. CASE Stops
  BY <1>4 DEF Stops, Inside
<1>5. CASE Turns
  BY <1>5 DEF Turns, Turn, SameRound, Resolving, Inside, This
<1>6. CASE WriteIntent
  BY <1>1, <1>6, WriteIntentDoes DEF Resolving, Inside, This
<1>7. CASE StartRun
  BY <1>7, StartDoes, WalkingIs DEF Inside
<1>8. CASE AdoptStep
  BY <1>1, <1>8, AdoptDoes DEF Resolving, Inside
<1>9. CASE EnterStep
  <2>1. /\ proc.at = "walk" /\ proc'.i = proc.i /\ proc'.at \in Inside
        /\ proc'.at = "record" => proc'.plain
    BY <1>1, <1>9, EnterStepDoes DEF Inside
  <2>2. ASSUME This.badArgs
        PROVE  proc'.at = "record"
    <3>1. CASE WorkHere = "none"
      BY <1>1, <1>9, <2>2, <3>1, UnresolvedIsRecorded
    <3>2. CASE WorkHere # "none"
      <4>1. proc.site = proc.i /\ proc.work # "none"
        BY <3>2 DEF WorkHere
      <4>2. /\ proc.i \in Steps /\ ck.frontier.intent # NoIntent
            /\ dev[ck.frontier.intent].step = proc.i
        BY <1>1, <1>9, <4>1, TakesWork
      <4>3. At("actionIntent", proc.i) # { }
        BY <1>1, <4>2, PendingIs
      <4> QED BY <2>2, <4>2, <4>3 DEF Resolving, This
    <3> QED BY <3>1, <3>2
  <2> QED BY <2>1, <2>2 DEF Inside, This
<1>10. CASE ExitStep
  <2>1. proc.ctl \in {"continue", "halt", "abort"}
    BY <1>10, LedgerIs DEF ExitStep, Shape, ShapedProc, Leaving
  <2> QED BY <1>1, <1>10, <2>1, ExitDoes DEF Inside
<1>11. CASE RecordBlocked
  BY <1>1, <1>11, PairsDoes DEF IsProc, ProcFields, Inside
<1>12. CASE Resume /\ proc'.at = "walk"
  BY <1>12, ResumeDoes DEF Inside
<1> QED BY <1>3, <1>4, <1>5, <1>6, <1>7, <1>8, <1>9, <1>10, <1>11, <1>12, ProcMoves

(* A deadline passes before an answer or not at all.                       *)
LEMMA LapsedNext ==
  ASSUME Ledger, Lapsed, [Next]_vars
  PROVE  Lapsed'
PROOF
<1>1. IsSequence(log) /\ IsProc(proc) /\ Answered /\ ShapedLedger
  BY LedgerIs
<1>2. CASE DeadlinePasses
  <2>1. /\ ck.pending # NoPending /\ late' = late \union {ck.pending.req} /\ UNCHANGED log
    BY <1>2 DEF DeadlinePasses
  <2>2. PICK q \in Requests : Pends(q)
    BY <1>1, <2>1 DEF Answered
  <2>3. Final(ck.pending.req) = { }
    BY <2>2 DEF Pends
  <2>4. \A r : Final(r)' = Final(r)
    BY <2>1 DEF Final, Responses
  <2> QED BY <2>1, <2>3, <2>4 DEF Lapsed
<1>3. ASSUME UNCHANGED late, NEW ev, Write(ev), ev.type = "humanResponded" => ev.req \notin late
      PROVE  Lapsed'
  <2>1. /\ DOMAIN log' = 1 .. Len(log) + 1 /\ DOMAIN log = 1 .. Len(log) /\ Len(log) \in Nat
        /\ log'[Len(log) + 1] = ev /\ \A n \in DOMAIN log : log'[n] = log[n]
    BY <1>1, <1>3, Grows
  <2>2. ASSUME NEW r \in late
        PROVE  Final(r)' = { }
    <3>1. Final(r) = { }
      BY <2>2 DEF Lapsed
    <3> SUFFICES ASSUME NEW a \in Final(r)'
                 PROVE  FALSE
      OBVIOUS
    <3>2. /\ a \in DOMAIN log' /\ log'[a].type = "humanResponded" /\ log'[a].req = r
          /\ ~RetainsRequest(log'[a])
      BY DEF Final, Responses
    <3>3. a # Len(log) + 1
      BY <1>3, <2>1, <2>2, <3>2
    <3>4. a \in DOMAIN log /\ log'[a] = log[a]
      BY <2>1, <3>2, <3>3
    <3> QED BY <3>1, <3>2, <3>4 DEF Final, Responses
  <2> QED BY <1>3, <2>2 DEF Lapsed
<1>4. CASE UNCHANGED << late, log >>
  BY <1>4 DEF Lapsed, Final, Responses
<1>5. CASE \E d \in Answers : Respond(d)
  <2>1. PICK d \in Answers : Respond(d)
    BY <1>5
  <2>2. PICK ev : Write(ev) /\ ev.req = ck.pending.req
    BY <2>1, RespondDoes DEF Wrote
  <2>3. ck.pending.req \notin late /\ UNCHANGED late
    BY <2>1 DEF Respond
  <2> QED BY <1>3, <2>2, <2>3
<1>6. CASE ~(DeadlinePasses \/ \E d \in Answers : Respond(d))
  <2>1. UNCHANGED late
    BY <1>1, <1>6, EnterStepDoes, WriteIntentDoes
       DEF Next, Engine, Disruption, Environment, StartRun, AdoptStep, EnterStep,
           GateSupervision, WriteIntent, Dispatch, Settle, AdoptTerminal, Judge,
           RecordNegative, RetryInForce, ContinueEscalation, ConsultHook, AskEscalation,
           ExitStep, Supersede, RecordBlocked, FinishRun, SuspendRun, AskAdjudication,
           StopRequested, NoTerminal, Resume, Crash, vars, DeviceFinishes
  <2>2. ASSUME NEW ev, Writes(ev), ev.type = "humanResponded"
        PROVE  FALSE
    <3>1. log' # log /\ Write(ev) /\ \A e : Writes(e) => e = ev
      BY <1>1, <2>2, WriteIs, Grows, OneEntry
    <3>2. proc' = proc
      BY <2>2, WriteIs DEF Writes, Mark, Asks, Responds, InStep, Enters, Intends, Settles,
           Rules, Triggered, Exits
    <3>3. ~(GateSupervision \/ Settle \/ AdoptTerminal \/ ConsultHook \/ AskEscalation
             \/ RecordNegative \/ Supersede \/ AskAdjudication
             \/ \E v \in Judgments : Judge(v))
      BY <1>1, <3>2, GateDoes, SettleDoes, VerdictDoes, ConsultDoes, AskDoes, AdjudicateDoes,
         LedgerIs DEF Leaves, ConsultHook, Inside
    <3>4. ~(StartRun \/ EnterStep \/ FinishRun \/ SuspendRun \/ Resume \/ WriteIntent)
      BY <1>1, <3>2, StartDoes, WalkingIs, EnterStepDoes, FinishDoes, SuspendDoes, DownIs,
         ResumeDoes, WriteIntentDoes
    <3>5. ~ExitStep
      <4> SUFFICES ASSUME ExitStep
                   PROVE  FALSE
        OBVIOUS
      <4>1. proc.ctl \in {"continue", "halt", "abort"}
        BY LedgerIs DEF ExitStep, Shape, ShapedProc, Leaving
      <4> QED BY <1>1, <3>2, <4>1, ExitDoes
    <3>6. ~RecordBlocked
      <4> SUFFICES ASSUME RecordBlocked
                   PROVE  FALSE
        OBVIOUS
      <4>1. \E e : Write(e) /\ e.type \in {"stepExited", "stepEntered"}
        BY <1>1, <3>1, PairsDoes DEF Wrote, Silent
      <4>2. \A e : Write(e) => e = ev
        BY <1>1, <3>1, Grows
      <4> QED BY <2>2, <4>1, <4>2
    <3> QED BY <1>6, <3>1, <3>3, <3>4, <3>5, <3>6
            DEF Next, Engine, Disruption, Environment, AdoptStep, Dispatch, RetryInForce,
                ContinueEscalation, StopRequested, NoTerminal, Crash, vars, DeviceFinishes
  <2> QED BY <1>1, <1>3, <1>4, <2>1, <2>2, StepWrites, WriteIs
<1> QED BY <1>2, <1>5, <1>6

(* A ruling a process is consulted about is not a pass.                    *)
LEMMA RuledNegative ==
  ASSUME NEW p, IsProc(p), NEW v, Ruled(p, v).at = "consult"
  PROVE  LET q == Ruled(p, v)
         IN  v # "pass" /\ ~p.plain /\ q.status = v /\ q.class = p.class
PROOF
<1> DEFINE q == [Seeded(p, v) EXCEPT !.status = v]
<1>1. IsProc(Seeded(p, v)) /\ Seeded(p, v).class = p.class
  BY DEF Seeded, IsProc, ProcFields
<1>2. IsProc(q) /\ q.status = v /\ q.class = p.class
  BY <1>1 DEF IsProc, ProcFields
<1>3. Ruled(p, v) = IF v = "pass" THEN Leave(q, "judged", "continue")
                    ELSE IF p.plain THEN Leave(q, "judged", "halt") ELSE Goto(q, "consult")
  BY DEF Ruled
<1> HIDE DEF q
<1>4. /\ Leave(q, "judged", "continue").at = "exit" /\ Leave(q, "judged", "halt").at = "exit"
      /\ Goto(q, "consult").status = q.status /\ Goto(q, "consult").class = q.class
  BY <1>2 DEF Leave, Goto, IsProc, ProcFields
<1> QED BY <1>2, <1>3, <1>4

(* The ruling a step is entered at is the one in force, and none of its    *)
(* class is remembered.                                                    *)
LEMMA EnterRules ==
  ASSUME Ledger, Ruling, Unseen, EnterStep, proc'.at = "consult"
  PROVE  /\ proc'.status \in {"fail", "unknown"} /\ proc'.status = Verdict(proc.i)
         /\ proc'.class = "none"
PROOF
<1> DEFINE unresolved == This.badArgs /\ WorkHere = "none"
           taken == [proc EXCEPT !.work = IF proc.site = proc.i THEN "none" ELSE @]
           cleared == [taken EXCEPT !.class = "none"]
<1>1. /\ IsProc(proc) /\ proc.at = "walk" /\ proc.i \in Steps /\ IsSequence(log)
  BY LedgerIs, EnterStepDoes, StepsAre DEF Shape, ShapedProc
<1>2. IsProc(taken) /\ taken.i = proc.i
  BY <1>1 DEF IsProc, ProcFields
<1>3. IsProc(cleared) /\ cleared.class = "none"
  BY <1>2 DEF IsProc, ProcFields
<1>4. WorkHere = "none" /\ ResumesAtRuling
  BY <1>1, EnterStepDoes DEF ResumesAtRuling
<1>5. ~unresolved
  BY <1>1, UnresolvedIsRecorded
<1>6. proc' = AfterEntry(taken)
  <2> HIDE DEF unresolved
  <2> QED BY <1>5 DEF EnterStep, unresolved
<1> HIDE DEF taken, unresolved
<1>7. proc' = Ruled(cleared, RulingOn(Prefix, proc.i))
  BY <1>2, <1>4, <1>6 DEF AfterEntry
<1> HIDE DEF cleared
<1>8. /\ RulingOn(Prefix, proc.i) # "pass" /\ proc'.status = RulingOn(Prefix, proc.i)
      /\ proc'.class = "none"
  BY <1>3, <1>7, RuledNegative
<1>9. RulingOn(Prefix, proc.i) = Verdict(proc.i)
  BY <1>1, HarvestIs DEF Unseen, Ahead
<1>10. Verdict(proc.i) \in Statuses
  BY <1>1, <1>4, <1>9, UnruledIs, RuledIsStatus DEF ResumesAtRuling
<1> QED BY <1>8, <1>9, <1>10 DEF Statuses

(* A verdict is recorded by the acts that rule.                            *)
LEMMA RulesBy ==
  ASSUME Ledger, [Next]_vars, NEW ev, Writes(ev), ev.type = "verdictRecorded"
  PROVE  RecordNegative \/ Supersede \/ \E v \in Judgments : Judge(v)
PROOF
<1>1. /\ IsSequence(log) /\ log' # log /\ \A e : Write(e) => e = ev
  BY WriteIs, Grows
<1>2. ~Crash /\ ~UNCHANGED vars /\ ~DeadlinePasses
      /\ ~ \E c \in Calls, o \in Outcomes : DeviceFinishes(c, o)
  BY <1>1 DEF Crash, vars, DeadlinePasses, DeviceFinishes
<1>3. ~ \E d \in Answers : Respond(d)
  BY <1>1, RespondDoes DEF Wrote
<1>4. proc.at \in {"judge", "confirm", "record", "supersede"}
  <2>1. PICK k \in Steps : InStep(ev, k)
    BY WriteIs
  <2> QED BY <2>1 DEF InStep, Enters, Intends, Settles, Rules, Triggered, Exits
<1> QED BY <1>2, <1>3, <1>4
        DEF Next, Engine, Disruption, Environment, StartRun, AdoptStep, EnterStep,
            GateSupervision, WriteIntent, Dispatch, Settle, AdoptTerminal,
            RetryInForce, ContinueEscalation, ConsultHook, ExitStep, AskEscalation,
            RecordBlocked, FinishRun, SuspendRun, AskAdjudication,
            StopRequested, NoTerminal, Resume

(* A process comes to a consultation with a negative.                      *)
LEMMA ConsultComes ==
  ASSUME Ledger, Ruling, Unseen, [Next]_vars, proc'.at = "consult"
  PROVE  Listens \/ proc'.status \in {"fail", "unknown"}
PROOF
<1>1. /\ IsProc(proc) /\ (proc.at \in Inside => proc.i \in Steps)
      /\ (proc.at \in {"record", "supersede"} => proc.status \in Statuses)
  BY LedgerIs DEF Shape, ShapedProc
<1>2. CASE Stops
  BY <1>2 DEF Stops
<1>3. CASE Turns
  <2>1. Adds("verdictRecorded")
    BY <1>3 DEF Turns, Turn
  <2>2. RecordNegative \/ Supersede \/ \E v \in Judgments : Judge(v)
    BY <2>1, RulesBy DEF Adds
  <2>3. CASE RecordNegative
    <3>1. proc' = Ruled(proc, proc.status) /\ proc.at = "record"
      BY <2>3 DEF RecordNegative
    <3> QED BY <1>1, <3>1, RuledNegative DEF Statuses
  <2>4. CASE Supersede
    <3>1. proc' = Leave(Seeded(proc, proc.status), "judged", HalfOpen(proc))
      BY <2>4 DEF Supersede
    <3>2. IsProc(Seeded(proc, proc.status))
      BY <1>1, SeededIs DEF SameRound
    <3> QED BY <3>1, <3>2, LeaveIs
  <2>5. CASE \E v \in Judgments : Judge(v)
    <3> DEFINE p == [proc EXCEPT !.class = "none"]
    <3>1. PICK v \in Judgments : proc' = Ruled(p, v)
      BY <2>5 DEF Judge
    <3>2. IsProc(p)
      BY <1>1 DEF IsProc, ProcFields
    <3> HIDE DEF p
    <3> QED BY <3>1, <3>2, RuledNegative, Marks DEF Statuses
  <2> QED BY <2>2, <2>3, <2>4, <2>5
<1>4. CASE WriteIntent
  BY <1>1, <1>4, WriteIntentDoes
<1>5. CASE StartRun
  BY <1>5, StartDoes, WalkingIs
<1>6. CASE AdoptStep
  BY <1>1, <1>6, AdoptDoes
<1>7. CASE EnterStep
  BY <1>7, EnterRules
<1>8. CASE ExitStep
  <2>1. proc.ctl \in {"continue", "halt", "abort"}
    BY <1>8, LedgerIs DEF ExitStep, Shape, ShapedProc, Leaving
  <2> QED BY <1>1, <1>8, <2>1, ExitDoes
<1>9. CASE RecordBlocked
  BY <1>1, <1>9, PairsDoes DEF IsProc, ProcFields
<1> QED BY <1>2, <1>3, <1>4, <1>5, <1>6, <1>7, <1>8, <1>9, ProcMoves

(* A human is asked when the binding that answers the consultation says so.*)
LEMMA AskedByEscalation ==
  ASSUME IsProc(proc), proc.i \in Steps, ConsultHook, proc'.at = "ask"
  PROVE  Escalating /\ proc' = Goto(proc, "ask")
PROOF
<1> DEFINE b == BindingFor(proc)
           head == [ChainHead(proc) EXCEPT !.inForce = InForce(b)]
<1>1. head.at = "act" /\ NotHandled(proc).at = "exit"
      /\ \A state, ctl : Leave(proc, state, ctl).at = "exit"
  BY ChainHeadIs, LeaveIs DEF SameRound, IsProc, ProcFields, NotHandled
<1>2. Matching(proc) # { } =>
        b.action \in {"retry", "continue", "abort", "escalate"}
  BY BindingIs DEF HandlerBindings
<1>3. \/ proc' = NotHandled(proc)
      \/ /\ Matching(proc) # { }
         /\ proc' = CASE b.action = "retry" -> head
                      [] b.action = "continue" -> Leave(proc, "judged", "continue")
                      [] b.action = "abort"    -> Leave(proc, "aborted", "abort")
                      [] b.action = "escalate" -> Goto(proc, "ask")
  BY DEF ConsultHook
<1> HIDE DEF b, head
<1>4. Matching(proc) # { } /\ b.action = "escalate" /\ proc' = Goto(proc, "ask")
  BY <1>1, <1>2, <1>3
<1> QED BY <1>4 DEF Escalating, b

(* Every step of the system keeps what is asked.                           *)
LEMMA ConsultedNext ==
  ASSUME Ledger, Ledger', Ruling, Unseen, Standing, Consulted, [Next]_vars
  PROVE  Consulted'
PROOF
<1>1. IsProc(proc) /\ (proc.at \in Inside => proc.i \in Steps)
  BY LedgerIs
<1>2. ASSUME proc.at \in {"consult", "ask"}, Listens
      PROVE  Verdict(proc.i)' = Verdict(proc.i)
  <2>1. CASE UNCHANGED << log, ck >>
    BY <1>2, <2>1 DEF Verdict, RulingOn, Listens
  <2>2. CASE \E ev : Writes(ev) /\ Responds(ev)
    <3>1. PICK ev : Writes(ev) /\ ev.type = "humanResponded"
      BY <2>2 DEF Responds
    <3>2. PICK k \in Steps : k = proc.i
      BY <1>1, <1>2 DEF Inside
    <3>3. Verdict(k)' = Verdict(k)
      BY <3>1, VerdictMoves
    <3> QED BY <1>2, <3>2, <3>3 DEF Listens
  <2> QED BY <1>2, <2>1, <2>2 DEF Listens
<1>3. CASE proc'.at = "consult"
  <2>1. Verdict(proc.i)' = proc'.status
    BY <1>3, StandingNext DEF Standing
  <2>2. proc'.status \in {"fail", "unknown"}
    BY <1>3, ConsultComes DEF Consulted, Listens
  <2> QED BY <1>3, <2>1, <2>2 DEF Consulted
<1>4. CASE proc'.at = "ask" /\ Listens
  <2>1. UNCHANGED proc /\ proc.at = "ask"
    BY <1>4 DEF Listens
  <2>2. Verdict(proc.i)' = Verdict(proc.i)
    BY <1>2, <1>4, <2>1
  <2>3. Escalating'
    BY <2>1 DEF Consulted, Escalating, Matching, BindingFor, Hook, AllBindings
  <2> QED BY <2>1, <2>2, <2>3 DEF Consulted
<1>5. CASE proc'.at = "ask" /\ ConsultHook
  <2>1. proc.at = "consult" /\ proc.i \in Steps
    BY <1>1, <1>5 DEF ConsultHook, Inside
  <2>2. Escalating /\ proc' = Goto(proc, "ask")
    BY <1>1, <1>5, <2>1, AskedByEscalation
  <2>3. /\ proc'.i = proc.i /\ proc'.status = proc.status /\ proc'.class = proc.class
    BY <1>1, <2>2 DEF Goto, IsProc, ProcFields
  <2>4. Escalating'
    BY <2>2, <2>3 DEF Escalating, Matching, BindingFor, Hook, AllBindings
  <2>5. PICK k \in Steps : k = proc.i
    BY <2>1
  <2>6. PICK ev : Wrote("handlerTriggered", Here, ev)
    BY <1>1, <1>5, <2>1, ConsultGrants
  <2>7. Verdict(k)' = Verdict(k)
    BY <2>6, WroteWrites, VerdictMoves DEF Wrote
  <2> QED BY <1>5, <2>1, <2>3, <2>4, <2>5, <2>7 DEF Consulted
<1>6. CASE proc'.at \notin {"consult", "ask"}
  BY <1>6 DEF Consulted
<1> QED BY <1>3, <1>4, <1>5, <1>6, AskComes DEF Listens

-----------------------------------------------------------------------------
(* What an escalation put to a human at q, the handlers that put it, and   *)
(* what was ruled on it before position n: an answer, or unknown when the  *)
(* deadline passed.                                                        *)
HookOf(q) == log[q].path[3].id[1]
HookFor(v) == IF v = "fail" THEN "onFail" ELSE "onUnknown"
On(i, hook) == { k \in DOMAIN AllBindings(i) : AllBindings(i)[k].hook = hook }
Escalates(i, hook) ==
  On(i, hook) # { } /\ AllBindings(i)[Min(On(i, hook))].action = "escalate"
Says(q, n, v) ==
  \/ \E a \in Final(log[q].req) : a < n /\ log[a].decision = v
  \/ log[q].req \in late /\ v = "unknown"

Told(i, q) == \A v \in At("verdictRecorded", i) : v > q => Says(q, v, log[v].verdict)

(* Nothing disturbed the question so far.                                  *)
Calm(i, q) == Undisturbed(i, q, Len(log) + 1)

(* While it stands the step is open and due, its handlers still put the    *)
(* question of q and no later one, and what was ruled since is what was    *)
(* answered.                                                               *)
Stands(i, q) ==
  /\ Due(i) /\ ~AdoptableIn(ck, i)
  /\ log[q].path = HookPath(i, HookOf(q), Triggers(i, HookOf(q)), "human")
  /\ \A m \in Requests : m > q => ~SameInstance(log[m].path, log[q].path)
  /\ Escalates(i, HookOf(q))
  /\ At("verdictRecorded", i) \subseteq 1 .. q =>
       Verdict(i) \in {"fail", "unknown"} /\ HookFor(Verdict(i)) = HookOf(q)
  /\ Told(i, q)

(* A process comes to the step without having used the answer, consults    *)
(* about the verdict in force, and takes the ruling.                       *)
Fresh(i, q) == At("verdictRecorded", i) \subseteq 1 .. q /\ log[q].req \notin proc.consumed
Heeds(i, q) ==
  proc.at \in Inside \union {"walk"} =>
    /\ proc.i <= i
    /\ proc.i < i \/ proc.at = "walk" => Fresh(i, q)
    /\ proc.i = i /\ proc.at # "walk" =>
         \/ /\ proc.at = "consult" /\ proc.class = "none" /\ proc.inForce = 0
            /\ Fresh(i, q)
         \/ proc.at = "supersede" /\ Says(q, Len(log) + 1, proc.status)
         \/ proc.at = "exit" /\ ~(At("verdictRecorded", i) \subseteq 1 .. q)

Heeding ==
  \A i \in Steps : \A q \in Escalations(i, Len(log) + 1) :
    Calm(i, q) => Stands(i, q) /\ Heeds(i, q)

(* An escalation a human judges.                                           *)
LEMMA EscalationIs ==
  ASSUME Ledger, NEW i \in Steps, NEW n \in 1 .. Len(log) + 1, NEW q \in Escalations(i, n)
  PROVE  /\ q \in Requests /\ q \in 1 .. Len(log) /\ q < n
         /\ log[q].decisions = {"pass", "fail", "unknown"}
         /\ \E hook \in {"onFail", "onUnknown"} : \E t \in 1 .. q :
              log[q].path = HookPath(i, hook, t, "human") /\ HookOf(q) = hook
PROOF
<1>1. /\ Len(log) \in Nat /\ DOMAIN log = 1 .. Len(log) /\ Answered
  BY LedgerIs, SequenceIs
<1>2. /\ q \in 1 .. n - 1 /\ log[q].type = "humanRequested" /\ "pass" \in log[q].decisions
      /\ \E hook \in {"onFail", "onUnknown"} : \E t \in 1 .. q :
           log[q].path = HookPath(i, hook, t, "human")
  BY DEF Escalations
<1>3. q \in 1 .. Len(log) /\ q < n /\ q \in Requests
  BY <1>1, <1>2 DEF Requests
<1>4. log[q].decisions = {"pass", "fail", "unknown"}
  <2>1. Declared(q)
    BY <1>1, <1>3 DEF Answered
  <2> QED BY <1>2, <2>1 DEF Declared, GateRequest, EscalationRequest, AdjudicationRequest
<1>5. PICK hook \in {"onFail", "onUnknown"}, t \in 1 .. q :
        log[q].path = HookPath(i, hook, t, "human")
  BY <1>2
<1>6. HookOf(q) = hook
  <2>1. log[q].path[3].id = << hook, t >>
    BY <1>5, HookPathIs
  <2> QED BY <2>1 DEF HookOf
<1> QED BY <1>3, <1>4, <1>5, <1>6

(* Escalations stay where they are, and so does what lies between one and  *)
(* a position.                                                             *)
LEMMA EscalationStays ==
  ASSUME IsSequence(log), NEW ev, Write(ev), NEW i \in Steps,
         NEW n \in 1 .. Len(log) + 1, NEW q \in 1 .. n - 1
  PROVE  /\ q \in Escalations(i, n)' <=> q \in Escalations(i, n)
         /\ Undisturbed(i, q, n)' <=> Undisturbed(i, q, n)
PROOF
<1>1. /\ Len(log) \in Nat /\ DOMAIN log = 1 .. Len(log)
      /\ \A m \in DOMAIN log : log'[m] = log[m]
  BY Grows
<1>2. /\ q \in 1 .. Len(log) /\ q \in 1 .. Len(log) + 1 /\ log'[q] = log[q]
      /\ \A r \in 1 .. n - 1 : log'[r] = log[r]
  BY <1>1
<1>3. q \in Escalations(i, n)' <=> q \in Escalations(i, n)
  BY <1>2 DEF Escalations
<1>4. Reenters(i, q)' <=> Reenters(i, q)
  BY <1>2, ReentersStays
<1>5. /\ Before(At("handlerTriggered", i), n)' = Before(At("handlerTriggered", i), n)
      /\ Before(At("stepExited", i), n)' = Before(At("stepExited", i), n)
      /\ Before(At("verdictRecorded", i), n)' = Before(At("verdictRecorded", i), n)
      /\ Before(At("verdictRecorded", i), n) \in SUBSET (1 .. Len(log))
      /\ Before(At("stepEntered", i), n)' = Before(At("stepEntered", i), n)
      /\ \A m \in Before(At("stepEntered", i), n) : log'[m] = log[m]
  BY BeforeStays
<1>6. InBlockedSpan(i, n)' <=> InBlockedSpan(i, n)
  BY <1>5 DEF InBlockedSpan
<1>7. Relapsed(i, q, n)' <=> Relapsed(i, q, n)
  <2>1. \A v \in Before(At("verdictRecorded", i), n) : \A r \in v .. n - 1 : log'[r] = log[r]
    BY <1>1, <1>2, <1>5
  <2> QED BY <1>5, <2>1 DEF Relapsed
<1> QED BY <1>3, <1>4, <1>5, <1>6, <1>7 DEF Undisturbed

(* A calm question was calm before, and no trigger, exit or null span came *)
(* to its step.                                                            *)
LEMMA CalmBefore ==
  ASSUME Ledger, NEW ev, Writes(ev), NEW i \in Steps, NEW q \in 1 .. Len(log),
         q \in Escalations(i, Len(log) + 1)', Calm(i, q)'
  PROVE  /\ q \in Escalations(i, Len(log) + 1) /\ Calm(i, q)
         /\ At("handlerTriggered", i)' \subseteq 1 .. q
         /\ At("stepExited", i)' \subseteq 1 .. q
         /\ \A v \in At("verdictRecorded", i) : \A r \in v .. Len(log) + 1 :
              v > q => log'[r].type # "runResumed"
PROOF
<1>1. /\ IsSequence(log) /\ Write(ev) /\ Len(log) \in Nat /\ DOMAIN log = 1 .. Len(log)
      /\ Len(log') = Len(log) + 1 /\ DOMAIN log' = 1 .. Len(log) + 1
      /\ \A m \in DOMAIN log : log'[m] = log[m]
  BY WriteIs, Grows
<1>2. q \in Escalations(i, Len(log) + 1)
  <2>1. log'[q] = log[q] /\ q \in 1 .. Len(log) + 1 - 1
    BY <1>1
  <2> QED BY <2>1 DEF Escalations
<1> DEFINE n == Len(log) + 2
<1>3. /\ Reenters(i, q)'
      /\ \A v \in At("verdictRecorded", i)' : v < n =>
           \A r \in v .. n - 1 : ~(q < v /\ log'[r].type = "runResumed")
      /\ \A e \in At("stepEntered", i)' : e < n => log'[e].resolved
      /\ \A m \in At("handlerTriggered", i)' : m < n => m \in 1 .. q
      /\ \A m \in At("stepExited", i)' : m < n => m \in 1 .. q
  <2>1. Len(log') + 1 = n
    BY <1>1
  <2> QED BY <2>1 DEF Calm, Undisturbed, Relapsed, InBlockedSpan, Before
<1>4. ASSUME NEW type, NEW m \in At(type, i)'
      PROVE  m < n
  BY <1>1, <1>4 DEF At, Entries
<1>5. /\ At("handlerTriggered", i)' \subseteq 1 .. q
      /\ At("stepExited", i)' \subseteq 1 .. q
  BY <1>3, <1>4
<1>6. ASSUME NEW type, NEW m \in At(type, i)
      PROVE  m \in At(type, i)' /\ log'[m] = log[m] /\ m \in 1 .. Len(log)
  BY <1>1, AtKeeps
<1>7. Reenters(i, q)
  <2>1. q \in 1 .. Len(log) + 1
    BY <1>1
  <2> QED BY <1>1, <1>3, <2>1, ReentersStays
<1>8. \A v \in At("verdictRecorded", i) : \A r \in v .. Len(log) + 1 :
        v > q => log'[r].type # "runResumed"
  <2> SUFFICES ASSUME NEW v \in At("verdictRecorded", i), NEW r \in v .. Len(log) + 1, v > q
               PROVE  log'[r].type # "runResumed"
    OBVIOUS
  <2>1. v \in At("verdictRecorded", i)' /\ v < n /\ v \in 1 .. Len(log)
    BY <1>1, <1>6
  <2>2. r \in v .. n - 1 /\ q < v
    BY <1>1, <2>1
  <2> QED BY <1>3, <2>1, <2>2
<1>9. ~Relapsed(i, q, Len(log) + 1)
  <2> SUFFICES ASSUME NEW v \in At("verdictRecorded", i),
                      NEW r \in v .. Len(log) + 1 - 1, q < v, log[r].type = "runResumed"
               PROVE  FALSE
    BY DEF Relapsed, Before
  <2>1. v \in 1 .. Len(log)
    BY <1>6
  <2>2. r \in v .. Len(log) + 1 /\ r \in DOMAIN log /\ v > q
    BY <1>1, <2>1
  <2> QED BY <1>1, <1>8, <2>1, <2>2
<1>10. ~InBlockedSpan(i, Len(log) + 1)
  <2> SUFFICES ASSUME NEW e \in At("stepEntered", i), ~log[e].resolved
               PROVE  FALSE
    BY DEF InBlockedSpan, Before
  <2>1. e \in At("stepEntered", i)' /\ ~log'[e].resolved
    BY <1>6
  <2> QED BY <1>3, <1>4, <2>1
<1>11. /\ Before(At("handlerTriggered", i), Len(log) + 1) \subseteq 1 .. q
       /\ Before(At("stepExited", i), Len(log) + 1) \subseteq 1 .. q
  BY <1>5, <1>6 DEF Before
<1> QED BY <1>2, <1>5, <1>7, <1>8, <1>9, <1>10, <1>11 DEF Calm, Undisturbed

(* A path is the instance it names.                                        *)
LEMMA SameItself ==
  ASSUME NEW i, NEW hook, NEW t
  PROVE  SameInstance(HookPath(i, hook, t, "human"), HookPath(i, hook, t, "human"))
PROOF
<1> PICK p : p = HookPath(i, hook, t, "human")
  OBVIOUS
<1>1. Len(p) = 4
  BY HookPathIs
<1> QED BY <1>1 DEF SameInstance, SitePrefix, SameSite

(* What is told of a question, told at each of its verdicts.               *)
LEMMA TellsNext ==
  ASSUME NEW i, NEW q,
         \A v \in At("verdictRecorded", i)' : \A w : v > q /\ w = log'[v].verdict => Says(q, v, w)'
  PROVE  Told(i, q)'
PROOF
<1> SUFFICES ASSUME NEW v \in At("verdictRecorded", i)', v > q
             PROVE  Says(q, v, log[v].verdict)'
  BY DEF Told
<1> PICK w : w = log'[v].verdict
  OBVIOUS
<1>1. Says(q, v, w)'
  OBVIOUS
<1> QED BY <1>1 DEF Says

(* The bindings that answer a consultation about a verdict.                *)
LEMMA EscalatingIs ==
  ASSUME proc.class = "none", NEW i \in Steps, proc.i = i
  PROVE  /\ Hook(proc) = HookFor(proc.status) /\ Hook(proc) # "onError"
         /\ Matching(proc) = On(i, Hook(proc))
         /\ BindingFor(proc) = AllBindings(i)[Min(On(i, Hook(proc)))]
         /\ Escalating <=> Escalates(i, Hook(proc))
PROOF
<1>1. Hook(proc) = HookFor(proc.status) /\ Hook(proc) # "onError"
  BY DEF Hook, HookFor
<1>2. Matching(proc) = On(i, Hook(proc))
  BY <1>1 DEF Matching, On
<1> QED BY <1>1, <1>2 DEF BindingFor, Escalating, Escalates

(* An escalation is asked about the verdict in force, by its bindings.     *)
LEMMA EscalationComes ==
  ASSUME Ledger, Consulted, [Next]_vars, NEW ev, Writes(ev), NEW i \in Steps,
         NEW q \in Nat, q = Len(log) + 1, q \in Escalations(i, Len(log) + 1)'
  PROVE  /\ AskEscalation /\ proc.at = "ask" /\ proc.i = i
         /\ log'[q] = ev /\ ev.type = "humanRequested"
         /\ ev.path = HookPath(i, Hook(proc), Triggers(i, Hook(proc)), "human")
         /\ Hook(proc) \in {"onFail", "onUnknown"} /\ Escalates(i, Hook(proc))
         /\ Verdict(i) \in {"fail", "unknown"} /\ HookFor(Verdict(i)) = Hook(proc)
PROOF
<1>1. /\ IsSequence(log) /\ IsProc(proc) /\ log'[q] = ev
      /\ \A e : Write(e) => e = ev
  BY LedgerIs, WriteIs, Grows
<1>2. /\ ev.type = "humanRequested" /\ "pass" \in ev.decisions
      /\ \E hook \in {"onFail", "onUnknown"} : \E t \in 1 .. q :
           ev.path = HookPath(i, hook, t, "human")
  BY <1>1 DEF Escalations
<1>3. PICK hook \in {"onFail", "onUnknown"}, t \in 1 .. q :
        ev.path = HookPath(i, hook, t, "human")
  BY <1>2
<1>4. proc.at = "ask"
  <2>1. Asks(ev)
    BY <1>2 DEF Writes, Mark, Responds, InStep, Enters, Intends, Settles, Rules, Triggered,
                Exits
  <2>2. ~GateRequest(ev) /\ ~AdjudicationRequest(ev)
    BY <1>2 DEF GateRequest, AdjudicationRequest
  <2> QED BY <2>1, <2>2 DEF Asks
<1>5. AskEscalation
  BY <1>2, <1>4, AskIsAsked
<1>6. PICK k \in Steps : k = proc.i
  BY <1>4, LedgerIs DEF Inside
<1>7. ev.path = HookPath(k, Hook(proc), Triggers(k, Hook(proc)), "human")
  BY <1>1, <1>5, <1>6, AskDoes DEF Wrote
<1>8. k = i /\ Hook(proc) = hook
  <2>1. SameInstance(HookPath(k, Hook(proc), Triggers(k, Hook(proc)), "human"),
                     HookPath(i, hook, t, "human"))
    BY <1>3, <1>7, SameItself
  <2> QED BY <1>6, <2>1, HumanPathsAre
<1>9. proc.class = "none"
  BY <1>8 DEF Hook
<1>10. proc.status \in {"fail", "unknown"} /\ Verdict(i) = proc.status /\ Escalating
  BY <1>4, <1>6, <1>8 DEF Consulted
<1> QED BY <1>1, <1>2, <1>4, <1>5, <1>6, <1>7, <1>8, <1>9, <1>10, EscalatingIs

(* What was just asked stands.                                             *)
LEMMA AskedStands ==
  ASSUME Ledger, Ledger', Consulted, [Next]_vars, NEW ev, Writes(ev), NEW i \in Steps,
         NEW q \in Nat, q = Len(log) + 1, q \in Escalations(i, Len(log) + 1)', Calm(i, q)'
  PROVE  Stands(i, q)' /\ Heeds(i, q)'
PROOF
<1>1. /\ IsSequence(log) /\ IsProc(proc) /\ Write(ev) /\ Len(log) \in Nat
      /\ DOMAIN log' = 1 .. q /\ Len(log') = q
  BY LedgerIs, WriteIs, Grows
<1>2. /\ AskEscalation /\ proc.at = "ask" /\ proc.i = i
      /\ log'[q] = ev /\ ev.type = "humanRequested"
      /\ Hook(proc) \in {"onFail", "onUnknown"}
      /\ Verdict(i) \in {"fail", "unknown"}
  BY EscalationComes
<1> PICK hook : hook = Hook(proc)
  OBVIOUS
<1>3. /\ ev.path = HookPath(i, hook, Triggers(i, hook), "human")
      /\ Escalates(i, hook) /\ HookFor(Verdict(i)) = hook
  BY EscalationComes
<1>4. HookOf(q)' = hook
  <2>1. ev.path[3].id = << hook, Triggers(i, hook) >>
    BY <1>3, HookPathIs
  <2> QED BY <1>2, <2>1 DEF HookOf
<1>5. Due(i)'
  <2>1. Reenters(i, q)'
    BY DEF Calm, Undisturbed
  <2>2. Due(i)
    BY <1>1, <2>1, ReentersStays DEF Due
  <2> QED BY <1>2, <2>2, DueStays
<1>6. ~AdoptableIn(ck', i)
  BY <1>2, LedgerIs, WriteRecords DEF SameRecords, Inside
<1>7. Triggers(i, hook)' = Triggers(i, hook)
  BY <1>1, <1>2, OneEntry, TriggersMove
<1>8. Escalates(i, hook)'
  BY <1>3 DEF Escalates, On, AllBindings
<1>9. /\ At("verdictRecorded", i)' \subseteq 1 .. q
      /\ Verdict(i)' = Verdict(i)
  <2>1. At("verdictRecorded", i)' \subseteq 1 .. q
    BY <1>1 DEF At, Entries
  <2> QED BY <1>2, <2>1, VerdictMoves
<1>10. Requests' \subseteq 1 .. q
  BY <1>1 DEF Requests
<1>11. Stands(i, q)'
  BY <1>1, <1>2, <1>3, <1>4, <1>5, <1>6, <1>7, <1>8, <1>9, <1>10 DEF Stands, Told, HookFor
<1>12. proc'.at = "suspend"
  BY <1>1, <1>2, AskDoes
<1> QED BY <1>11, <1>12 DEF Heeds, Inside

(* Deadlines that passed have passed.                                      *)
LEMMA LateGrows ==
  ASSUME Ledger, [Next]_vars
  PROVE  late \subseteq late'
PROOF
<1>1. IsProc(proc)
  BY LedgerIs
<1>2. CASE DeadlinePasses
  BY <1>2 DEF DeadlinePasses
<1>3. CASE ~DeadlinePasses
  <2>1. UNCHANGED late
    BY <1>1, <1>3, EnterStepDoes, WriteIntentDoes
       DEF Next, Engine, Disruption, Environment, StartRun, AdoptStep, EnterStep,
           GateSupervision, WriteIntent, Dispatch, Settle, AdoptTerminal, Judge,
           RecordNegative, RetryInForce, ContinueEscalation, ConsultHook, AskEscalation,
           ExitStep, Supersede, RecordBlocked, FinishRun, SuspendRun, AskAdjudication,
           StopRequested, NoTerminal, Resume, Crash, vars, DeviceFinishes, Respond
  <2> QED BY <2>1
<1> QED BY <1>2, <1>3

(* What was ruled on a question stays ruled.                               *)
LEMMA SaysStays ==
  ASSUME Ledger, [Next]_vars, NEW q \in DOMAIN log, NEW n, NEW v, Says(q, n, v)
  PROVE  Says(q, n, v)'
PROOF
<1>1. /\ \A m \in DOMAIN log : m \in DOMAIN log' /\ log'[m] = log[m]
      /\ late \subseteq late'
  BY LogKeeps, LateGrows
<1>2. log'[q].req = log[q].req
  BY <1>1
<1>3. CASE log[q].req \in late /\ v = "unknown"
  BY <1>1, <1>2, <1>3 DEF Says
<1>4. CASE \E a \in Final(log[q].req) : a < n /\ log[a].decision = v
  <2>1. PICK a \in Final(log[q].req) : a < n /\ log[a].decision = v
    BY <1>4
  <2>2. /\ a \in DOMAIN log /\ log[a].type = "humanResponded" /\ log[a].req = log[q].req
        /\ ~RetainsRequest(log[a])
    BY <2>1 DEF Final, Responses
  <2>3. a \in DOMAIN log' /\ log'[a] = log[a]
    BY <1>1, <2>2
  <2>4. a \in Final(log[q].req)'
    BY <1>2, <2>2, <2>3 DEF Final, Responses
  <2> QED BY <2>1, <2>3, <2>4 DEF Says
<1> QED BY <1>3, <1>4 DEF Says

(* What was due stays due while only others work, or a verdict is added.   *)
LEMMA DueKept ==
  ASSUME Ledger, NEW ev, Writes(ev), NEW i \in Steps, Due(i),
         ev.type \in {"actionIntent", "actionSettled"} => proc.i # i
  PROVE  Due(i)'
PROOF
<1>1. /\ IsSequence(log) /\ Write(ev) /\ Len(log) \in Nat
      /\ \A n \in DOMAIN log : log'[n] = log[n]
  BY WriteIs, Grows
<1>2. CASE ev.type \notin {"verdictRecorded", "actionIntent", "actionSettled"}
  BY <1>2, DueStays
<1>3. CASE ev.type \in {"verdictRecorded", "actionIntent", "actionSettled"}
  <2> DEFINE V == At("verdictRecorded", i)
             N == At("actionIntent", i)
             S == At("actionSettled", i)
  <2>1. PICK k \in Steps : k = proc.i /\ ev.path = StepPath(k)
    BY <1>3, WriteIs
  <2>2. /\ N' = N /\ S' = S
        /\ V' = V \/ V' = V \union {Len(log) + 1}
    BY <1>1, <1>3, <2>1, AtGrows
  <2>3. /\ V # { } /\ N # { } /\ Max(N) < Max(V)
        /\ \E s \in S : s < Max(V) /\ log[s].call = log[Max(N)].call
    BY DueIs
  <2>4. /\ V \in SUBSET (1 .. Len(log)) /\ N \in SUBSET (1 .. Len(log))
        /\ S \in SUBSET (1 .. Len(log)) /\ DOMAIN log = 1 .. Len(log)
    BY <1>1, AtIs, SequenceIs
  <2>5. /\ Max(V) \in 1 .. Len(log) /\ Max(N) \in 1 .. Len(log)
        /\ Max(V \union {Len(log) + 1}) = Len(log) + 1
    <3> HIDE DEF V, N
    <3> QED BY <1>1, <2>3, <2>4, MaxIs, MaxGrows
  <2>6. Max(V') \in Nat /\ Max(V) <= Max(V')
    <3>1. CASE V' = V
      <4>1. Max(V') = Max(V)
        BY <3>1, Zenon
      <4> QED BY <2>5, <4>1
    <3>2. CASE V' = V \union {Len(log) + 1}
      <4>1. Max(V') = Max(V \union {Len(log) + 1})
        BY <3>2, Zenon
      <4> QED BY <1>1, <2>5, <4>1
    <3> QED BY <2>2, <3>1, <3>2
  <2>7. \E s \in S' : s < Max(V') /\ log'[s].call = log'[Max(N')].call
    <3>1. PICK s \in S : s < Max(V) /\ log[s].call = log[Max(N)].call
      BY <2>3
    <3>2. s \in S' /\ s < Max(V') /\ log'[s] = log[s] /\ log'[Max(N')] = log[Max(N)]
      BY <1>1, <2>2, <2>4, <2>5, <2>6, <3>1
    <3> QED BY <3>1, <3>2
  <2>8. V' # { } /\ N' # { } /\ Max(N') < Max(V')
    BY <2>2, <2>3, <2>5, <2>6
  <2> HIDE DEF V, N, S
  <2> QED BY <1>1, <2>7, <2>8, DueNext DEF V, N, S
<1> QED BY <1>2, <1>3

(* A request of another act names another instance.                        *)
LEMMA AskedElsewhere ==
  ASSUME Ledger, NEW ev, Writes(ev), ev.type = "humanRequested", NEW i \in Steps,
         NEW hook, NEW t, proc.at = "ask" => proc.i # i
  PROVE  ~SameInstance(ev.path, HookPath(i, hook, t, "human"))
PROOF
<1> SUFFICES ASSUME SameInstance(ev.path, HookPath(i, hook, t, "human"))
             PROVE  FALSE
  OBVIOUS
<1> PICK p : p = HookPath(i, hook, t, "human")
  OBVIOUS
<1>1. Len(p) = 4 /\ p[4].id = "human"
  BY HookPathIs
<1>2. /\ Len(ev.path) = 4
      /\ \A n \in 1 .. 4 : SameSite(ev.path[n], p[n])
  BY <1>1 DEF SameInstance, SitePrefix
<1>3. Asks(ev)
  BY DEF Writes, Mark, Responds, InStep, Enters, Intends, Settles, Rules, Triggered, Exits
<1>4. CASE proc.at = "gate" /\ ev.path = StepPath(proc.i)
  BY <1>2, <1>4, StepPathIs
<1>5. CASE proc.at = "adjudicate" /\ AdjudicationRequest(ev)
  <2>1. ev.path[4].id = "adjudicate"
    BY <1>5 DEF AdjudicationRequest, HookRequest
  <2> QED BY <1>1, <1>2, <2>1 DEF SameSite
<1>6. CASE proc.at = "ask" /\ \E h, n : ev.path = HookPath(proc.i, h, n, "human")
  <2>1. PICK h, n : ev.path = HookPath(proc.i, h, n, "human")
    BY <1>6
  <2>2. PICK k \in Steps : k = proc.i
    BY <1>6, LedgerIs DEF Inside
  <2>3. SameInstance(HookPath(k, h, n, "human"), HookPath(i, hook, t, "human"))
    BY <2>1, <2>2
  <2> QED BY <1>6, <2>2, <2>3, HumanPathsAre
<1> QED BY <1>3, <1>4, <1>5, <1>6 DEF Asks

(* A verdict on a question that is heeded is its ruling.                   *)
LEMMA RulingIsSaid ==
  ASSUME Ledger, [Next]_vars, NEW ev, Writes(ev), ev.type = "verdictRecorded",
         NEW i \in Steps, proc.i = i, NEW q, Heeds(i, q)
  PROVE  proc.at = "supersede" /\ Supersede /\ Says(q, Len(log) + 1, ev.verdict)
PROOF
<1>1. IsProc(proc) /\ IsSequence(log) /\ \A e : Write(e) => e = ev
  BY LedgerIs, WriteIs, Grows
<1>2. RecordNegative \/ Supersede \/ \E v \in Judgments : Judge(v)
  BY RulesBy
<1>3. PICK e : /\ Wrote("verdictRecorded", Here, e)
               /\ IF proc.at \in {"judge", "confirm"} THEN e.verdict \in Statuses
                  ELSE e.verdict = proc.status
  BY <1>1, <1>2, VerdictDoes
<1>4. proc.at \in {"judge", "confirm", "record", "supersede"}
  BY <1>1, <1>2, VerdictDoes
<1>5. proc.at = "supersede" /\ Says(q, Len(log) + 1, proc.status)
  BY <1>4 DEF Heeds, Inside
<1> QED BY <1>1, <1>2, <1>3, <1>5 DEF Wrote, RecordNegative, Judge

(* What stands keeps standing while nothing is written,                    *)
LEMMA StandsQuietly ==
  ASSUME Ledger, [Next]_vars, UNCHANGED << log, ck >>, NEW i \in Steps,
         NEW q \in DOMAIN log, Stands(i, q)
  PROVE  Stands(i, q)'
PROOF
<1>1. HookOf(q)' = HookOf(q) /\ log'[q] = log[q]
  BY DEF HookOf
<1> PICK hook : hook = HookOf(q)
  OBVIOUS
<1>2. /\ At("verdictRecorded", i)' = At("verdictRecorded", i)
      /\ Verdict(i)' = Verdict(i) /\ Triggers(i, hook)' = Triggers(i, hook)
      /\ Requests' = Requests
  BY DEF At, Verdict, RulingOn, Triggers, Requests
<1>3. Due(i)'
  BY DueStays DEF Stands
<1>4. Escalates(i, hook)' <=> Escalates(i, hook)
  BY DEF Escalates, On, AllBindings
<1>5. Told(i, q)'
  BY <1>2, SaysStays, TellsNext DEF Stands, Told
<1>6. /\ ~AdoptableIn(ck, i)
      /\ log[q].path = HookPath(i, hook, Triggers(i, hook), "human")
      /\ \A m \in Requests : m > q => ~SameInstance(log[m].path, log[q].path)
      /\ Escalates(i, hook)
      /\ At("verdictRecorded", i) \subseteq 1 .. q =>
           Verdict(i) \in {"fail", "unknown"} /\ HookFor(Verdict(i)) = hook
  BY DEF Stands
<1>7. /\ ~AdoptableIn(ck', i)
      /\ log'[q].path = HookPath(i, hook, Triggers(i, hook)', "human")
      /\ \A m \in Requests' : m > q => ~SameInstance(log'[m].path, log'[q].path)
      /\ Escalates(i, hook)'
      /\ At("verdictRecorded", i)' \subseteq 1 .. q =>
           Verdict(i)' \in {"fail", "unknown"} /\ HookFor(Verdict(i)') = hook
  BY <1>1, <1>2, <1>4, <1>6
<1> QED BY <1>1, <1>3, <1>5, <1>7 DEF Stands, HookFor

(* ... and while what is written leaves it calm.                           *)
LEMMA StandsStays ==
  ASSUME Ledger, Ledger', [Next]_vars, NEW ev, Writes(ev), NEW i \in Steps,
         NEW q \in 1 .. Len(log), q \in Escalations(i, Len(log) + 1)', Calm(i, q)',
         Stands(i, q), Heeds(i, q)
  PROVE  Stands(i, q)'
PROOF
<1>1. /\ IsSequence(log) /\ IsProc(proc) /\ Write(ev) /\ Len(log) \in Nat
      /\ DOMAIN log = 1 .. Len(log) /\ DOMAIN log' = 1 .. Len(log) + 1
      /\ q \in DOMAIN log
      /\ log'[Len(log) + 1] = ev /\ \A m \in DOMAIN log : log'[m] = log[m]
      /\ \A e : Writes(e) => e = ev
  BY LedgerIs, WriteIs, Grows, OneEntry
<1>2. /\ At("handlerTriggered", i)' \subseteq 1 .. q
      /\ At("stepExited", i)' \subseteq 1 .. q
  BY CalmBefore
<1>3. HookOf(q)' = HookOf(q) /\ log'[q] = log[q]
  BY <1>1 DEF HookOf
<1> PICK hook : hook = HookOf(q)
  OBVIOUS
<1>4. /\ Due(i) /\ ~AdoptableIn(ck, i)
      /\ log[q].path = HookPath(i, hook, Triggers(i, hook), "human")
      /\ \A m \in Requests : m > q => ~SameInstance(log[m].path, log[q].path)
      /\ Escalates(i, hook)
      /\ At("verdictRecorded", i) \subseteq 1 .. q =>
           Verdict(i) \in {"fail", "unknown"} /\ HookFor(Verdict(i)) = hook
      /\ \A v \in At("verdictRecorded", i) : v > q => Says(q, v, log[v].verdict)
  BY DEF Stands, Told
<1>5. /\ ev.type = "handlerTriggered" => ev.path # StepPath(i)
      /\ ev.type = "stepExited" => proc.i # i
  <2>1. ASSUME ev.type \in {"handlerTriggered", "stepExited"}, ev.path = StepPath(i)
        PROVE  FALSE
    <3>1. Len(log) + 1 \in At(ev.type, i)'
      BY <1>1, <2>1, AtGrows
    <3> QED BY <1>1, <1>2, <2>1, <3>1
  <2> QED BY <2>1, WriteIs
<1>6. Due(i)'
  <2>1. ev.type \in {"actionIntent", "actionSettled"} => proc.i # i
    <3> SUFFICES ASSUME ev.type \in {"actionIntent", "actionSettled"}, proc.i = i
                 PROVE  FALSE
      OBVIOUS
    <3>1. proc.at \in {"act", "wait", "adoptSettle"}
      <4>1. PICK k \in Steps : InStep(ev, k)
        BY WriteIs
      <4> QED BY <4>1 DEF InStep, Enters, Intends, Settles, Rules, Triggered, Exits
    <3> QED BY <3>1 DEF Heeds, Inside
  <2> QED BY <1>4, <2>1, DueKept
<1>7. ~AdoptableIn(ck', i)
  <2>1. CASE ev.type # "stepExited"
    BY <1>4, <2>1, WriteRecords DEF SameRecords
  <2>2. CASE ev.type = "stepExited"
    <3>1. PICK k \in Steps : InStep(ev, k) /\ k = proc.i
      BY <2>2, WriteIs
    <3> QED BY <1>4, <1>5, <2>2, <3>1, WriteRecords
  <2> QED BY <2>1, <2>2
<1>8. Triggers(i, hook)' = Triggers(i, hook)
  BY <1>1, <1>5, TriggersMove
<1>9. \A m \in Requests' : m > q => ~SameInstance(log'[m].path, log[q].path)
  <2> SUFFICES ASSUME NEW m \in Requests', m > q
               PROVE  ~SameInstance(log'[m].path, log[q].path)
    OBVIOUS
  <2>1. CASE m \in DOMAIN log
    <3>1. m \in Requests /\ log'[m] = log[m]
      BY <1>1, <2>1 DEF Requests
    <3> QED BY <1>4, <3>1
  <2>2. CASE m = Len(log) + 1
    <3>1. ev.type = "humanRequested" /\ log'[m] = ev
      BY <1>1, <2>2 DEF Requests
    <3>2. proc.at = "ask" => proc.i # i
      BY DEF Heeds, Inside
    <3>3. ~SameInstance(ev.path, HookPath(i, hook, Triggers(i, hook), "human"))
      BY <3>1, <3>2, AskedElsewhere
    <3> QED BY <1>4, <3>1, <3>3
  <2> QED BY <1>1, <2>1, <2>2 DEF Requests
<1>10. Escalates(i, hook)'
  BY <1>4 DEF Escalates, On, AllBindings
<1>11. /\ At("verdictRecorded", i)' \subseteq 1 .. q =>
            Verdict(i)' \in {"fail", "unknown"} /\ HookFor(Verdict(i)') = hook
       /\ Told(i, q)'
  <2>1. ASSUME NEW v \in At("verdictRecorded", i), NEW w, v > q, w = log'[v].verdict
        PROVE  Says(q, v, w)'
    <3>1. v \in DOMAIN log /\ log'[v] = log[v]
      BY <1>1 DEF At, Entries
    <3>2. Says(q, v, w)
      BY <1>4, <2>1, <3>1
    <3> QED BY <1>1, <3>2, SaysStays
  <2>2. CASE ~(ev.type = "verdictRecorded" /\ i = proc.i)
    <3>1. /\ At("verdictRecorded", i)' = At("verdictRecorded", i)
          /\ Verdict(i)' = Verdict(i)
      BY <2>2, VerdictMoves
    <3>2. Told(i, q)'
      BY <2>1, <3>1, TellsNext
    <3> QED BY <1>4, <3>1, <3>2
  <2>3. CASE ev.type = "verdictRecorded" /\ i = proc.i
    <3> PICK n : n = Len(log) + 1
      OBVIOUS
    <3>1. At("verdictRecorded", i)' = At("verdictRecorded", i) \union {n}
      BY <2>3, VerdictMoves
    <3>2. Says(q, n, ev.verdict)'
      <4>1. Says(q, n, ev.verdict)
        BY <2>3, RulingIsSaid
      <4> QED BY <1>1, <4>1, SaysStays
    <3>3. ~(At("verdictRecorded", i)' \subseteq 1 .. q)
      BY <1>1, <3>1
    <3>4. Told(i, q)'
      BY <1>1, <2>1, <3>1, <3>2, TellsNext
    <3> QED BY <3>3, <3>4
  <2> QED BY <2>2, <2>3
<1> QED BY <1>3, <1>4, <1>6, <1>7, <1>8, <1>9, <1>10, <1>11 DEF Stands, HookFor

(* What was said before a position was said before a later one.            *)
LEMMA SaysLater ==
  ASSUME Ledger, NEW q, NEW v, NEW n \in Nat, NEW m \in Nat, n <= m, Says(q, n, v)
  PROVE  Says(q, m, v)
PROOF
<1>1. Responses \subseteq Nat
  BY LedgerIs, RequestsArePositions
<1>2. \A a \in Final(log[q].req) : a < n => a < m
  BY <1>1 DEF Final
<1> QED BY <1>2 DEF Says

(* A segment that begins has used no answer.                               *)
LEMMA FreshConsumed ==
  ASSUME Resume, proc'.at = "walk"
  PROVE  proc'.consumed = { }
PROOF
<1>1. /\ IsProc(Down) /\ Down.consumed = { }
      /\ \A base, work : Walking(base, work).consumed = { }
  BY DownIs DEF Down, Walking
<1> DEFINE c == ck.frontier.intent
<1> DEFINE chain == log[Max({ n \in DOMAIN log : /\ log[n].type = "actionIntent"
                                                  /\ log[n].call = c })].chain
<1> DEFINE kept(work) == [Walking(Len(log), work) EXCEPT
                            !.site = StepAt(ck.frontier.path), !.call = c, !.pos = chain]
<1>2. PICK work : ResumeWith(work)
  BY DEF Resume
<1>3. \/ proc' = Goto(Down, "adjudicate") \/ proc' = Goto(Down, "suspend")
      \/ proc' = Walking(Len(log), "none") \/ proc' = kept(work)
  <2>1. proc' = CASE work = "ask"     -> Goto(Down, "adjudicate")
                  [] work = "reawait" -> Goto(Down, "suspend")
                  [] work = "none"    -> Walking(Len(log), "none")
                  [] OTHER -> kept(work)
    BY <1>2 DEF ResumeWith
  <2> HIDE DEF kept
  <2> QED BY <2>1
<1>4. kept(work).consumed = { }
  <2> HIDE DEF c, chain
  <2> QED BY DEF Walking, Down
<1> HIDE DEF kept
<1> QED BY <1>1, <1>3, <1>4, ForceStays DEF SameForce

(* A process uses an answer when it continues an escalation.               *)
LEMMA UsesAnswers ==
  ASSUME Ledger, [Next]_vars, proc.at # "down", proc'.at \in Inside \union {"walk"}
  PROVE  \/ proc'.consumed = proc.consumed
         \/ /\ ContinueEscalation
            /\ \E n \in Asked(proc) : proc'.consumed = proc.consumed \union {log[n].req}
PROOF
<1>1. IsProc(proc) /\ (proc.at \in Inside => proc.i \in Steps)
  BY LedgerIs
<1>2. CASE \/ GateSupervision \/ WriteIntent \/ Dispatch \/ Settle \/ AdoptTerminal
           \/ RecordNegative \/ Supersede \/ \E v \in Judgments : Judge(v)
  BY <1>2, RoundForce DEF SameForce
<1>3. CASE RetryInForce
  BY <1>1, <1>3, RetryForce
<1>4. CASE ContinueEscalation
  <2>1. proc'.at \in Inside
    <3>1. \A n \in Asked(proc) : AnswerTo(Prefix, log[n].req) \in Rulings
      BY AskedRulings, LedgerIs
    <3> QED BY <1>1, <1>4, <3>1, ContinueDoes DEF Leaves, Inside
  <2> QED BY <1>4, <2>1, ContinueForce
<1>5. CASE ConsultHook
  <2>1. proc.i \in Steps
    BY <1>1, <1>5 DEF ConsultHook, Inside
  <2> QED BY <1>1, <1>5, <2>1, ConsultForce, ConsultGrants DEF SameForce
<1>6. CASE EnterStep
  BY <1>6, EnterForce DEF SameForce
<1>7. CASE AdoptStep
  BY <1>7, WalkForce DEF SameForce
<1>8. CASE ExitStep
  <2>1. proc.ctl \in {"continue", "halt", "abort"}
    BY <1>8, LedgerIs DEF ExitStep, Shape, ShapedProc, Leaving
  <2>2. proc'.at = "walk"
    BY <1>1, <1>8, <2>1, ExitDoes DEF Inside
  <2> QED BY <1>8, <2>2, ExitForce
<1>9. CASE Resume \/ StartRun
  BY <1>9 DEF Resume, StartRun
<1>10. CASE RecordBlocked
  BY <1>1, <1>10, PairsDoes DEF IsProc, ProcFields, Inside
<1>11. CASE FinishRun \/ SuspendRun \/ Crash
  BY <1>11, FinishDoes, SuspendDoes, DownIs DEF Crash, Inside
<1>12. CASE AskEscalation \/ AskAdjudication \/ StopRequested \/ NoTerminal
  BY <1>1, <1>12, AskDoes, AdjudicateDoes, DisruptionDoes DEF Inside
<1>13. CASE \/ DeadlinePasses \/ UNCHANGED vars \/ \E d \in Answers : Respond(d)
            \/ \E c \in Calls, o \in Outcomes : DeviceFinishes(c, o)
  BY <1>13 DEF DeadlinePasses, vars, Respond, DeviceFinishes
<1> QED BY <1>2, <1>3, <1>4, <1>5, <1>6, <1>7, <1>8, <1>9, <1>10, <1>11, <1>12, <1>13
        DEF Next, Engine, Disruption, Environment

(* Another step's handlers do not use the answer of this one.              *)
LEMMA AnswersElsewhere ==
  ASSUME Ledger, NEW i \in Steps, NEW k \in Steps, proc.i = k, k # i,
         NEW q \in Requests, Stands(i, q), NEW n \in Asked(proc)
  PROVE  log[n].req # log[q].req
PROOF
<1> SUFFICES ASSUME log[n].req = log[q].req
             PROVE  FALSE
  OBVIOUS
<1>1. /\ IsSequence(log) /\ ShapedLedger /\ Answered /\ proc.base \in 0 .. Len(log)
  BY LedgerIs
<1>2. PICK hook, trigger : n \in RequestsAt(Prefix, HookPath(k, hook, trigger, "human"))
  BY DEF Asked
<1>3. PICK path : path = HookPath(k, hook, trigger, "human")
  OBVIOUS
<1>4. n \in Requests /\ SameInstance(log[n].path, path)
  <2>1. RequestsAt(Prefix, path)
          = { m \in Entries(log, "humanRequested", path) : m <= proc.base }
    BY <1>1, EntriesOfPrefix DEF RequestsAt, Prefix
  <2> QED BY <1>2, <1>3, <2>1 DEF Entries, Requests
<1>5. n = q
  BY <1>1, <1>4, RequestIsUnique
<1>6. PICK h, t : log[q].path = HookPath(i, h, t, "human")
  BY DEF Stands
<1>7. SameInstance(HookPath(i, h, t, "human"), HookPath(k, hook, trigger, "human"))
  BY <1>3, <1>4, <1>5, <1>6
<1> QED BY <1>7, HumanPathsAre

(* The question the handlers put is the one a consultation finds.          *)
LEMMA AskedIs ==
  ASSUME Ledger, Gates, Consulted, NEW i \in Steps, proc.i = i, proc.at = "consult",
         proc.class = "none", NEW q \in Requests, Stands(i, q), Fresh(i, q)
  PROVE  /\ Asked(proc) = {q} /\ q <= proc.base
         /\ Matching(proc) # { } /\ BindingFor(proc).action = "escalate"
PROOF
<1>1. /\ IsSequence(log) /\ proc.base \in 0 .. Len(log) /\ Len(log) \in Nat
      /\ DOMAIN log = 1 .. Len(log)
  BY LedgerIs, SequenceIs
<1> PICK hook : hook = Hook(proc)
  OBVIOUS
<1>2. /\ Verdict(i) = proc.status /\ HookFor(Verdict(i)) = HookOf(q)
      /\ Hook(proc) = HookFor(proc.status)
  BY EscalatingIs DEF Consulted, Stands, Fresh
<1>3. hook = HookOf(q)
  BY <1>2
<1>4. Matching(proc) # { } /\ BindingFor(proc).action = "escalate"
  BY <1>3, EscalatingIs DEF Stands, Escalating
<1> PICK path : path = HookPath(i, hook, Triggers(i, hook), "human")
  OBVIOUS
<1>5. log[q].path = path /\ \A m \in Requests : m > q => ~SameInstance(log[m].path, path)
  BY <1>3 DEF Stands
<1>6. SameInstance(path, path)
  BY SameItself
<1>7. q <= proc.base
  BY DEF Gates
<1> PICK Q : Q = RequestsAt(Prefix, path)
  OBVIOUS
<1>8. Q = { m \in Entries(log, "humanRequested", path) : m <= proc.base }
  BY <1>1, EntriesOfPrefix DEF RequestsAt, Prefix
<1>9. /\ q \in Q /\ Q \in SUBSET (1 .. Len(log)) /\ Q \subseteq Requests
      /\ \A m \in Q : ~(m > q)
  BY <1>1, <1>5, <1>6, <1>7, <1>8 DEF Entries, Requests
<1>10. Latest(Q) = q
  <2>1. Latest(Q) \in Q /\ \A y \in Q : y <= Latest(Q)
    BY <1>1, <1>9, LatestIs
  <2> PICK l : l = Latest(Q)
    OBVIOUS
  <2> QED BY <1>1, <1>9, <2>1
<1>11. Asked(proc) = { n \in Q : n = Latest(Q) /\ log[n].req \notin proc.consumed }
  BY DEF Asked
<1> QED BY <1>4, <1>7, <1>9, <1>10, <1>11 DEF Fresh

(* What was answered to a question that stands is what it declares.        *)
LEMMA DecisionIs ==
  ASSUME Ledger, NEW q \in Requests, NEW a \in Final(log[q].req)
  PROVE  q < a /\ a \in 1 .. Len(log) /\ log[a].decision \in log[q].decisions
PROOF
<1>1. a \in Responses /\ log[a].req = log[q].req /\ Answered /\ ShapedLedger
  BY LedgerIs DEF Final
<1>2. PICK m \in Requests : AnswersRequest(a, m)
  BY <1>1 DEF Answered
<1>3. m = q
  BY <1>1, <1>2, RequestIsUnique DEF AnswersRequest
<1> QED BY <1>1, <1>2, <1>3, RequestsArePositions DEF AnswersRequest

(* A consultation about the question takes what was ruled on it, or waits. *)
LEMMA RulingIsTaken ==
  ASSUME Ledger, Gates, Consulted, ContinueEscalation,
         NEW i \in Steps, proc.i = i, proc.at = "consult",
         proc.class = "none", NEW q \in Escalations(i, Len(log) + 1),
         Stands(i, q), Fresh(i, q)
  PROVE  \/ proc'.at = "suspend"
         \/ proc'.at = "supersede" /\ proc'.i = i /\ Says(q, Len(log) + 1, proc'.status)
PROOF
<1>1. /\ IsSequence(log) /\ IsProc(proc) /\ proc.base \in 0 .. Len(log) /\ Len(log) \in Nat
      /\ ShapedLedger /\ Answered
  BY LedgerIs, SequenceIs
<1>2. q \in Requests /\ log[q].decisions = {"pass", "fail", "unknown"}
  <2> PICK n : n = Len(log) + 1
    OBVIOUS
  <2> QED BY <1>1, EscalationIs
<1>3. Asked(proc) = {q}
  BY <1>2, AskedIs
<1> PICK answer : answer = AnswerTo(Prefix, log[q].req)
  OBVIOUS
<1> DEFINE spent == [proc EXCEPT !.consumed = @ \union {log[q].req}]
<1> DEFINE over(status) == [spent EXCEPT !.at = "supersede", !.status = status]
<1>4. proc' = CASE answer = "done"         -> ChainHead(spent)
                [] answer = "cannotRepair" -> Leave(spent, "aborted", "abort")
                [] answer \in {"pass", "fail", "unknown"} -> over(answer)
                [] answer = NoPending /\ log[q].req \in late -> over("unknown")
                [] answer = NoPending /\ log[q].req \notin late -> Goto(proc, "suspend")
  BY <1>3 DEF ContinueEscalation
<1>5. /\ IsProc(spent) /\ spent.i = proc.i
      /\ \A s : over(s).at = "supersede" /\ over(s).i = proc.i /\ over(s).status = s
  BY <1>1 DEF IsProc, ProcFields
<1> HIDE DEF spent
<1>6. Goto(proc, "suspend").at = "suspend"
  BY <1>1, GotoIs
<1>7. \/ answer = NoPending
      \/ answer \in {"pass", "fail", "unknown"} /\ Says(q, Len(log) + 1, answer)
  <2>1. /\ IsSequence(Prefix) /\ Len(Prefix) <= Len(log)
        /\ \A n \in DOMAIN Prefix : Prefix[n] = log[n]
    BY <1>1, PartIs DEF Prefix
  <2>2. \/ answer = NoPending
        \/ \E a \in Final(log[q].req) : a <= Len(Prefix) /\ answer = log[a].decision
    BY <1>1, <2>1, AnswerIs
  <2>3. ASSUME NEW a \in Final(log[q].req), answer = log[a].decision
        PROVE  answer \in {"pass", "fail", "unknown"} /\ Says(q, Len(log) + 1, answer)
    <3>1. a \in 1 .. Len(log) /\ log[a].decision \in log[q].decisions
      BY <1>2, DecisionIs
    <3>2. a < Len(log) + 1
      BY <1>1, <3>1
    <3> QED BY <1>2, <2>3, <3>1, <3>2 DEF Says
  <2> QED BY <2>2, <2>3
<1>8. NoPending \notin {"done", "cannotRepair", "pass", "fail", "unknown"}
  BY Marks DEF Decisions, Statuses
<1>9. log[q].req \in late => Says(q, Len(log) + 1, "unknown")
  BY DEF Says
<1> HIDE DEF over
<1> QED BY <1>4, <1>5, <1>6, <1>7, <1>8, <1>9

(* A step whose question stands is entered at its consultation.            *)
LEMMA EntersAtQuestion ==
  ASSUME Ledger, Framed, Unsettled, Forced, Ruling, Unseen, Ahead("actionSettled"),
         Resolving, EnterStep, NEW i \in Steps, proc.i = i,
         NEW q, Stands(i, q), Fresh(i, q)
  PROVE  /\ UNCHANGED << log, ck >> /\ proc'.i = i /\ proc'.at = "consult"
         /\ proc'.class = "none" /\ proc'.inForce = 0 /\ proc'.consumed = proc.consumed
PROOF
<1>1. /\ IsSequence(log) /\ IsProc(proc) /\ proc.base \in 0 .. Len(log) /\ Len(log) \in Nat
      /\ proc.at = "walk" /\ WalkedLedger
  BY LedgerIs, SequenceIs, EnterStepDoes
<1>2. /\ Due(i) /\ ~AdoptableIn(ck, i) /\ Verdict(i) \in {"fail", "unknown"}
  BY DEF Stands, Fresh
<1>3. /\ At("verdictRecorded", i) # { } /\ At("actionIntent", i) # { }
      /\ At("actionSettled", i) # { }
  BY <1>2, DueIs
<1>4. WorkHere = "none"
  <2>1. ck.frontier.intent # NoIntent => dev[ck.frontier.intent].step # i
    BY <1>2, PendingNotDue DEF Framed
  <2> QED BY <2>1, TakesWork DEF Framed, WorkHere
<1>5. ~This.badArgs
  BY <1>3 DEF Resolving, This
<1>6. OpenSpan(i)
  <2>1. Worked(i)
    BY <1>3 DEF Worked
  <2> QED BY <1>1, <1>2, <2>1, BridgeIs DEF WalkedLedger
<1>7. SettledOn(Prefix, i)
  <2>1. \A n \in At("actionSettled", i) : n <= proc.base
    BY <1>1 DEF Ahead
  <2>2. Entries(Prefix, "actionSettled", StepPath(i))
          = { n \in At("actionSettled", i) : n <= proc.base }
    BY <1>1, EntriesOfPrefix DEF Prefix, At
  <2> QED BY <1>3, <2>1, <2>2 DEF SettledOn
<1>8. RulingOn(Prefix, i) = Verdict(i)
  BY <1>1, HarvestIs DEF Unseen, Ahead
<1>9. ResumesAtRuling
  BY <1>2, <1>4, <1>6, <1>7, <1>8, Marks DEF ResumesAtRuling, Statuses
<1> DEFINE taken == [proc EXCEPT !.work = IF proc.site = proc.i THEN "none" ELSE @]
           cleared == [taken EXCEPT !.class = "none"]
           p == [Seeded(cleared, Verdict(i)) EXCEPT !.status = Verdict(i)]
<1>10. IsProc(taken) /\ taken.i = i /\ taken.plain = proc.plain
  BY <1>1 DEF IsProc, ProcFields
<1>11. IsProc(cleared) /\ cleared.plain = proc.plain
  BY <1>10 DEF IsProc, ProcFields
<1>12. proc' = AfterEntry(taken)
  <2> HIDE DEF taken
  <2> QED BY <1>4, <1>5 DEF EnterStep, taken
<1> HIDE DEF taken
<1>13. proc' = Ruled(cleared, Verdict(i))
  BY <1>4, <1>8, <1>9, <1>10, <1>12 DEF AfterEntry
<1> HIDE DEF cleared
<1>14. ~cleared.plain
  BY <1>1, <1>11 DEF Resolving
<1>15. proc' = Goto(p, "consult")
  BY <1>2, <1>13, <1>14 DEF Ruled
<1>16. IsProc(p)
  BY <1>11, SeededIs DEF SameRound, IsProc, ProcFields
<1> HIDE DEF p
<1>17. proc'.at = "consult"
  BY <1>15, <1>16, GotoIs
<1>18. UNCHANGED << log, ck >> /\ proc'.i = i
  BY <1>1, <1>6, EnterStepDoes
<1>19. SameForce(proc', proc) /\ proc.inForce = 0
  BY <1>1, EnterForce DEF Forced
<1> QED BY <1>17, <1>18, <1>19, EnterRules DEF SameForce

(* A process that has not come to the step uses no answer of it.           *)
LEMMA FreshBefore ==
  ASSUME Ledger, [Next]_vars, NEW i \in Steps, NEW q \in Requests,
         Stands(i, q), Fresh(i, q), proc.at \in Inside \union {"walk"}, proc.i # i,
         proc'.at \in Inside \union {"walk"}
  PROVE  Fresh(i, q)'
PROOF
<1>1. /\ IsSequence(log) /\ (proc.at \in Inside => proc.i \in Steps)
  BY LedgerIs
<1>2. At("verdictRecorded", i)' = At("verdictRecorded", i)
  <2>1. CASE UNCHANGED << log, ck >>
    BY <2>1 DEF At
  <2>2. ASSUME NEW ev, Writes(ev)
        PROVE  At("verdictRecorded", i)' = At("verdictRecorded", i)
    BY <2>2, VerdictMoves
  <2> QED BY <2>1, <2>2, StepWrites
<1>3. log'[q] = log[q]
  BY LogKeeps DEF Requests
<1>4. log[q].req \notin proc'.consumed
  <2>1. proc.at # "down"
    BY DEF Inside
  <2>2. CASE proc'.consumed = proc.consumed
    BY <2>2 DEF Fresh
  <2>3. ASSUME ContinueEscalation, NEW n \in Asked(proc),
               proc'.consumed = proc.consumed \union {log[n].req}
        PROVE  log[q].req \notin proc'.consumed
    <3>1. PICK k \in Steps : k = proc.i
      BY <1>1, <2>3 DEF ContinueEscalation, Inside
    <3>2. log[n].req # log[q].req
      BY <2>3, <3>1, AnswersElsewhere
    <3> QED BY <2>3, <3>2 DEF Fresh
  <2> QED BY <2>1, <2>2, <2>3, UsesAnswers
<1> QED BY <1>2, <1>3, <1>4 DEF Fresh

(* Heeding, while the process is at the step itself.                       *)
LEMMA HeedsHere ==
  ASSUME Ledger, Gates, Consulted, [Next]_vars, Turns,
         NEW i \in Steps, proc.i = i, NEW q \in Escalations(i, Len(log) + 1),
         Stands(i, q), Heeds(i, q)
  PROVE  Heeds(i, q)'
PROOF
<1>1. /\ IsSequence(log) /\ IsProc(proc) /\ Len(log) \in Nat
      /\ proc.at \in Inside /\ proc'.i = i /\ i \in Nat
  BY LedgerIs, SequenceIs, StepsAre DEF Turns, SameRound
<1>2. q \in Requests /\ q \in DOMAIN log /\ q <= Len(log) /\ q \in Nat
  <2> PICK n : n = Len(log) + 1
    OBVIOUS
  <2> QED BY <1>1, EscalationIs DEF Requests
<1>3. CASE proc.at = "consult"
  <2>1. proc.class = "none" /\ proc.inForce = 0 /\ Fresh(i, q)
    BY <1>1, <1>3 DEF Heeds, Inside
  <2>2. ContinueEscalation
    <3>1. ~ConsultHook
      <4>1. Asked(proc) # { } /\ Matching(proc) # { } /\ BindingFor(proc).action = "escalate"
        BY <1>2, <1>3, <2>1, AskedIs
      <4> QED BY <4>1 DEF ConsultHook
    <3>3. ~RetryInForce
      BY <2>1 DEF RetryInForce
    <3>2. proc' # proc /\ proc'.at \notin {"down", "suspend", "consult"}
      BY <1>1, <1>3 DEF Turns, Turn, Inside
    <3> QED BY <1>3, <3>1, <3>2, <3>3, DownIs
            DEF Next, Engine, Disruption, Environment, StartRun, AdoptStep, EnterStep,
                GateSupervision, WriteIntent, Dispatch, Settle, AdoptTerminal, Judge,
                RecordNegative, AskEscalation, Supersede, ExitStep, RecordBlocked,
                FinishRun, SuspendRun, AskAdjudication, StopRequested, NoTerminal, Resume,
                Crash, vars, DeviceFinishes, Respond, DeadlinePasses
  <2>3. /\ proc'.at = "supersede" /\ Says(q, Len(log) + 1, proc'.status)
    <3>1. proc'.at # "suspend"
      BY <1>1, <1>3 DEF Turns, Turn
    <3> QED BY <1>3, <2>1, <2>2, <3>1, RulingIsTaken
  <2>4. Len(log') = Len(log)
    BY <2>2 DEF ContinueEscalation
  <2> PICK n, v : n = Len(log) + 1 /\ v = proc'.status
    OBVIOUS
  <2>5. Says(q, n, v)'
    BY <1>2, <2>3, SaysStays
  <2>6. Says(q, Len(log) + 1, proc.status)'
    BY <2>4, <2>5 DEF Says
  <2> QED BY <1>1, <2>3, <2>6 DEF Heeds, Inside
<1>4. CASE proc.at = "supersede"
  <2>1. PICK ev : Writes(ev) /\ ev.type = "verdictRecorded"
    BY <1>4 DEF Turns, Turn, Adds
  <2>2. Supersede
    BY <2>1, RulingIsSaid
  <2>3. proc'.at = "exit"
    <3>1. proc' = Leave(Seeded(proc, proc.status), "judged", HalfOpen(proc))
      BY <2>2 DEF Supersede
    <3>2. IsProc(Seeded(proc, proc.status))
      BY <1>1, SeededIs DEF SameRound
    <3> QED BY <3>1, <3>2, LeaveIs
  <2>4. At("verdictRecorded", i)' = At("verdictRecorded", i) \union {Len(log) + 1}
    BY <2>1, VerdictMoves
  <2>5. ~(At("verdictRecorded", i)' \subseteq 1 .. q)
    BY <1>1, <1>2, <2>4
  <2> QED BY <1>1, <2>3, <2>5 DEF Heeds, Inside
<1>5. CASE proc.at = "exit"
  BY <1>5 DEF Turns, Turn
<1>6. proc.at \in {"consult", "supersede", "exit"}
  BY <1>1 DEF Heeds, Inside
<1> QED BY <1>3, <1>4, <1>5, <1>6

(* What is heeded is heeded by every step that leaves the step open.       *)
LEMMA HeedsKept ==
  ASSUME Ledger, Ledger', Framed, Gates, Unsettled, Forced, Ruling, Unseen,
         Ahead("actionSettled"), Resolving, Consulted, [Next]_vars,
         NEW i \in Steps, NEW q \in Escalations(i, Len(log) + 1),
         Stands(i, q), Heeds(i, q), At("stepExited", i)' \subseteq 1 .. q,
         \A ev : Writes(ev) /\ ev.type = "runResumed" => At("verdictRecorded", i) \subseteq 1 .. q
  PROVE  Heeds(i, q)'
PROOF
<1>1. /\ IsSequence(log) /\ IsProc(proc) /\ Len(log) \in Nat /\ ShapedProc
      /\ (proc.at \in Inside => proc.i \in Steps) /\ Steps \subseteq Nat
      /\ proc.i \in Nat /\ i > 0 /\ i <= Len(Flow)
  BY LedgerIs, SequenceIs, StepsAre DEF Shape, ShapedProc
<1>2. q \in Requests /\ q \in DOMAIN log /\ q <= Len(log) /\ q \in Nat
  <2> PICK n : n = Len(log) + 1
    OBVIOUS
  <2> QED BY <1>1, EscalationIs DEF Requests
<1> SUFFICES ASSUME proc'.at \in Inside \union {"walk"}
             PROVE  Heeds(i, q)'
  BY DEF Heeds
<1>3. ASSUME proc.at \in Inside \union {"walk"}, proc.i # i, proc'.i <= i,
             proc'.i = i => proc'.at = "walk"
      PROVE  Heeds(i, q)'
  <2>1. Fresh(i, q)
    BY <1>1, <1>3 DEF Heeds
  <2>2. Fresh(i, q)'
    BY <1>2, <1>3, <2>1, FreshBefore
  <2> QED BY <1>3, <2>2 DEF Heeds
<1>4. CASE Listens
  <2>1. PICK n : n = Len(log) + 1
    OBVIOUS
  <2>2. proc' = proc /\ Len(log') + 1 \in Nat /\ n \in Nat /\ n <= Len(log') + 1
    <3>1. Len(log') = Len(log) \/ Len(log') = Len(log) + 1
      <4>1. ASSUME NEW ev, Writes(ev)
            PROVE  Len(log') = Len(log) + 1
        BY <1>1, <4>1, Grows, WriteIs
      <4> QED BY <1>4, <4>1 DEF Listens
    <3> QED BY <1>1, <1>4, <2>1, <3>1 DEF Listens
  <2>3. At("verdictRecorded", i)' = At("verdictRecorded", i)
    <3>1. CASE UNCHANGED << log, ck >>
      BY <3>1 DEF At
    <3>2. ASSUME NEW ev, Writes(ev), Responds(ev)
          PROVE  At("verdictRecorded", i)' = At("verdictRecorded", i)
      BY <3>2, VerdictMoves DEF Responds
    <3> QED BY <1>4, <3>1, <3>2 DEF Listens
  <2>4. Fresh(i, q)' <=> Fresh(i, q)
    <3>1. log'[q] = log[q]
      BY <1>2, LogKeeps
    <3> QED BY <2>2, <2>3, <3>1 DEF Fresh
  <2>5. ASSUME Says(q, n, proc.status)
        PROVE  Says(q, Len(log) + 1, proc.status)'
    <3> PICK v, m : v = proc.status /\ m = Len(log') + 1
      OBVIOUS
    <3>1. Says(q, m, v)
      BY <2>2, <2>5, SaysLater
    <3>2. Says(q, m, v)'
      BY <1>2, <3>1, SaysStays
    <3> QED BY <2>2, <3>2 DEF Says
  <2> QED BY <2>1, <2>2, <2>3, <2>4, <2>5 DEF Heeds
<1>5. CASE Turns
  <2>1. CASE proc.i = i
    BY <1>5, <2>1, HeedsHere
  <2>2. CASE proc.i # i
    <3>1. proc.i <= i
      BY <1>5 DEF Heeds, Turns
    <3> QED BY <1>1, <1>3, <1>5, <2>2, <3>1 DEF Turns, SameRound
  <2> QED BY <2>1, <2>2
<1>6. CASE WriteIntent
  <2>1. proc.at = "act" /\ proc'.i = proc.i
    BY <1>1, <1>6, WriteIntentDoes
  <2>2. proc.i # i /\ proc.i <= i
    BY <2>1 DEF Heeds, Inside
  <2> QED BY <1>1, <1>3, <2>1, <2>2 DEF Inside
<1>7. CASE StartRun
  BY <1>2, <1>7, StartDoes, EmptyIs
<1>8. CASE AdoptStep
  <2>1. proc.at = "walk" /\ proc'.at = "walk" /\ proc'.i = proc.i + 1 /\ proc.i # i
    BY <1>1, <1>8, AdoptDoes, BridgeIs DEF Stands
  <2>2. proc.i <= i
    BY <2>1 DEF Heeds
  <2> QED BY <1>1, <1>3, <2>1, <2>2
<1>9. CASE EnterStep
  <2>1. proc.at = "walk" /\ proc'.i = proc.i /\ proc.i <= i
    BY <1>1, <1>9, EnterStepDoes DEF Heeds
  <2>2. CASE proc.i # i
    BY <1>1, <1>3, <2>1, <2>2
  <2>3. CASE proc.i = i
    <3>1. Fresh(i, q)
      BY <2>1, <2>3 DEF Heeds
    <3>2. /\ UNCHANGED << log, ck >> /\ proc'.i = i /\ proc'.at = "consult"
          /\ proc'.class = "none" /\ proc'.inForce = 0 /\ proc'.consumed = proc.consumed
      BY <1>9, <2>3, <3>1, EntersAtQuestion
    <3>3. Fresh(i, q)'
      BY <3>1, <3>2 DEF Fresh, At
    <3> QED BY <1>1, <3>2, <3>3 DEF Heeds, Inside
  <2> QED BY <2>2, <2>3
<1>10. CASE ExitStep
  <2>1. proc.ctl \in {"continue", "halt", "abort"}
    BY <1>10, LedgerIs DEF ExitStep, Shape, ShapedProc, Leaving
  <2>2. /\ proc.at = "exit" /\ proc'.at = "walk" /\ proc'.i = proc.i + 1
    BY <1>1, <1>10, <2>1, ExitDoes DEF Inside
  <2>3. proc.i # i
    <3> SUFFICES ASSUME proc.i = i
                 PROVE  FALSE
      OBVIOUS
    <3>1. PICK ev : Write(ev) /\ ev.type = "stepExited" /\ ev.path = StepPath(i)
      BY <1>1, <1>10, <2>1, ExitDoes DEF Wrote, Here
    <3>2. Len(log) + 1 \in At("stepExited", i)'
      BY <1>1, <3>1, AtGrows
    <3> QED BY <1>1, <1>2, <3>2
  <2>4. proc.i <= i
    BY <2>2 DEF Heeds, Inside
  <2> QED BY <1>1, <1>3, <2>2, <2>3, <2>4 DEF Inside
<1>11. CASE RecordBlocked
  BY <1>1, <1>11, PairsDoes DEF IsProc, ProcFields, Inside
<1>12. CASE Resume /\ proc'.at = "walk"
  <2>1. proc'.i = 1 /\ proc'.consumed = { }
    BY <1>12, ResumeDoes, FreshConsumed
  <2>2. PICK ev : Wrote("runResumed", RootPath(MetaHash), ev)
    BY <1>12, ResumeDoes
  <2>3. Writes(ev) /\ ev.type = "runResumed"
    BY <1>12, <2>2, StepWrites, WroteWrites DEF Wrote
  <2>4. At("verdictRecorded", i)' \subseteq 1 .. q
    <3>1. At("verdictRecorded", i)' = At("verdictRecorded", i)
      BY <2>3, VerdictMoves
    <3> QED BY <2>3, <3>1
  <2>5. Fresh(i, q)'
    BY <2>1, <2>4 DEF Fresh
  <2> QED BY <1>1, <1>12, <2>1, <2>5 DEF Heeds
<1> QED BY <1>4, <1>5, <1>6, <1>7, <1>8, <1>9, <1>10, <1>11, <1>12, ProcMoves DEF Stops, Inside

(* Nothing disturbs a question while the ledger rests.                     *)
LEMMA QuestionRests ==
  ASSUME UNCHANGED log, NEW i, NEW q, NEW n
  PROVE  /\ q \in Escalations(i, n)' <=> q \in Escalations(i, n)
         /\ Undisturbed(i, q, n)' <=> Undisturbed(i, q, n)
PROOF
<1>1. \A type : At(type, i)' = At(type, i)
  BY DEF At
<1>2. \A type, m : Before(At(type, i), m)' = Before(At(type, i), m)
  BY <1>1
<1>3. q \in Escalations(i, n)' <=> q \in Escalations(i, n)
  BY DEF Escalations
<1>4. Reenters(i, q)' <=> Reenters(i, q)
  BY <1>2 DEF Reenters
<1>5. Relapsed(i, q, n)' <=> Relapsed(i, q, n)
  BY <1>2 DEF Relapsed
<1>6. InBlockedSpan(i, n)' <=> InBlockedSpan(i, n)
  BY <1>2 DEF InBlockedSpan
<1> QED BY <1>2, <1>3, <1>4, <1>5, <1>6 DEF Undisturbed

(* A question that stands is heeded after every step of the system.        *)
LEMMA HeedingNext ==
  ASSUME Ledger, Ledger', Framed, Gates, Unsettled, Forced, Ruling, Unseen,
         Ahead("actionSettled"), Resolving, Consulted, Heeding, [Next]_vars
  PROVE  Heeding'
PROOF
<1> SUFFICES ASSUME NEW i \in Steps, NEW q, q \in Escalations(i, Len(log) + 1)', Calm(i, q)'
             PROVE  Stands(i, q)' /\ Heeds(i, q)'
  BY DEF Heeding, Steps
<1>1. IsSequence(log) /\ Len(log) \in Nat /\ DOMAIN log = 1 .. Len(log)
  BY LedgerIs, SequenceIs
<1>2. CASE UNCHANGED << log, ck >>
  <2>1. q \in Escalations(i, Len(log) + 1) /\ Calm(i, q)
    <3> PICK n : n = Len(log) + 1
      OBVIOUS
    <3>1. Len(log') + 1 = n
      BY <1>2
    <3>2. q \in Escalations(i, n)' /\ Undisturbed(i, q, n)'
      BY <1>2, <3>1 DEF Calm
    <3> QED BY <1>2, <3>2, QuestionRests DEF Calm
  <2>2. Stands(i, q) /\ Heeds(i, q)
    BY <2>1 DEF Heeding
  <2>3. q \in DOMAIN log
    <3> PICK n : n = Len(log) + 1
      OBVIOUS
    <3> QED BY <1>1, <2>1, EscalationIs
  <2>4. Stands(i, q)'
    BY <1>2, <2>2, <2>3, StandsQuietly
  <2>5. At("stepExited", i)' \subseteq 1 .. q
    <3>1. At("stepExited", i)' = At("stepExited", i)
      BY <1>2 DEF At
    <3>2. \A m \in At("stepExited", i) : m < Len(log) + 1
      BY <1>1 DEF At, Entries
    <3> QED BY <2>1, <3>1, <3>2 DEF Calm, Undisturbed, Before
  <2>6. \A ev : ~Writes(ev)
    BY <1>2, OneEntry
  <2> QED BY <2>1, <2>2, <2>4, <2>5, <2>6, HeedsKept
<1>3. ASSUME NEW ev, Writes(ev)
      PROVE  Stands(i, q)' /\ Heeds(i, q)'
  <2>1. /\ Len(log') = Len(log) + 1
        /\ \A e : Writes(e) => e = ev
        /\ log'[Len(log) + 1] = ev
    BY <1>1, <1>3, Grows, WriteIs, OneEntry
  <2>2. q \in 1 .. Len(log) + 1
    BY <1>1, <2>1 DEF Escalations
  <2>3. CASE q = Len(log) + 1
    <3>1. q \in Nat
      BY <1>1, <2>3
    <3> QED BY <1>3, <2>3, <3>1, AskedStands
  <2>4. CASE q \in 1 .. Len(log)
    <3>1. /\ q \in Escalations(i, Len(log) + 1) /\ Calm(i, q)
          /\ At("stepExited", i)' \subseteq 1 .. q
          /\ \A v \in At("verdictRecorded", i) : \A r \in v .. Len(log) + 1 :
               v > q => log'[r].type # "runResumed"
      BY <1>3, <2>4, CalmBefore
    <3>2. Stands(i, q) /\ Heeds(i, q)
      BY <3>1 DEF Heeding
    <3>3. Stands(i, q)'
      BY <1>3, <2>4, <3>2, StandsStays
    <3>4. ASSUME ev.type = "runResumed"
          PROVE  At("verdictRecorded", i) \subseteq 1 .. q
      <4> SUFFICES ASSUME NEW v \in At("verdictRecorded", i), v \notin 1 .. q
                   PROVE  FALSE
        OBVIOUS
      <4>1. v \in 1 .. Len(log)
        BY <1>1 DEF At, Entries
      <4>2. v > q /\ Len(log) + 1 \in v .. Len(log) + 1
        BY <1>1, <2>4, <4>1
      <4> QED BY <2>1, <3>1, <3>4, <4>2
    <3> QED BY <2>1, <3>1, <3>2, <3>3, <3>4, HeedsKept
  <2> QED BY <1>1, <2>2, <2>3, <2>4
<1> QED BY <1>2, <1>3, StepWrites

(* What was ruled on a question is the one answer it received.             *)
LEMMA RulingIsAnswer ==
  ASSUME Ledger, Lapsed, NEW q \in Requests, log[q].decisions = {"pass", "fail", "unknown"},
         NEW a \in Responses, log[a].req = log[q].req, NEW m, NEW v, Says(q, m, v)
  PROVE  a < m /\ log[a].decision = v
PROOF
<1>1. Answered /\ ShapedLedger
  BY LedgerIs
<1>2. PICK p \in Requests : AnswersRequest(a, p)
  BY <1>1 DEF Answered
<1>3. p = q
  BY <1>1, <1>2, RequestIsUnique DEF AnswersRequest
<1>4. log[a].decision # "suspend"
  BY <1>2, <1>3 DEF AnswersRequest
<1>5. a \in Final(log[q].req)
  BY <1>4 DEF Final, RetainsRequest
<1>6. \A b \in Final(log[q].req) : b = a
  BY <1>1, <1>5 DEF Answered, AnsweredOnce
<1>7. log[q].req \notin late
  BY <1>5 DEF Lapsed
<1> QED BY <1>6, <1>7 DEF Says

(* A step that leaves after its question was answered leaves with the      *)
(* answer.                                                                 *)
LEMMA AnswerIsHeeded ==
  ASSUME Ledger, Lapsed, NEW i \in Steps, NEW q \in Escalations(i, Len(log) + 1),
         Stands(i, q), Heeds(i, q), proc.at = "exit", proc.i = i,
         NEW a \in Responses, log[a].req = log[q].req
  PROVE  LET V == At("verdictRecorded", i)
         IN  Max(V) > a /\ log[Max(V)].verdict = log[a].decision
PROOF
<1>1. Len(log) \in Nat /\ DOMAIN log = 1 .. Len(log) /\ a \in 1 .. Len(log)
  BY LedgerIs, SequenceIs DEF Responses
<1>2. q \in Requests /\ q \in 1 .. Len(log) /\ log[q].decisions = {"pass", "fail", "unknown"}
  <2> PICK n : n = Len(log) + 1
    OBVIOUS
  <2> QED BY <1>1, EscalationIs
<1> PICK V : V = At("verdictRecorded", i)
  OBVIOUS
<1>3. V \in SUBSET (1 .. Len(log)) /\ ~(V \subseteq 1 .. q)
  BY <1>1 DEF Heeds, Inside, At, Entries
<1> PICK m : m = Max(V)
  OBVIOUS
<1>4. m \in V /\ \A v \in V : v <= m
  BY <1>1, <1>3, MaxIs
<1>5. m > q /\ m \in Nat
  BY <1>1, <1>2, <1>3, <1>4
<1>6. Says(q, m, log[m].verdict)
  BY <1>4, <1>5 DEF Stands, Told
<1>7. a < m /\ log[a].decision = log[m].verdict
  BY <1>2, <1>6, RulingIsAnswer
<1> QED BY <1>1, <1>5, <1>7

(* The judgement stands after every step of the system.                    *)
LEMMA JudgementNext ==
  ASSUME Ledger, Lapsed, Heeding, JudgementStands, [Next]_vars
  PROVE  JudgementStands'
PROOF
<1>1. IsSequence(log) /\ Len(log) \in Nat /\ DOMAIN log = 1 .. Len(log)
  BY LedgerIs, SequenceIs
<1>2. CASE UNCHANGED << log, ck >>
  <2> SUFFICES ASSUME NEW i \in Steps, NEW n \in At("stepExited", i)',
                      NEW q, q \in Escalations(i, n)', NEW a, a \in Answering(q, n)',
                      log'[n].state = "judged", Undisturbed(i, q, n)'
               PROVE  LET V == Before(At("verdictRecorded", i), n)'
                      IN  Max(V) > a /\ log'[Max(V)].verdict = log'[a].decision
    BY DEF JudgementStands, Steps
  <2>1. q \in Escalations(i, n) /\ Undisturbed(i, q, n)
    BY <1>2, QuestionRests
  <2>2. /\ n \in At("stepExited", i) /\ a \in Answering(q, n)
        /\ Before(At("verdictRecorded", i), n)' = Before(At("verdictRecorded", i), n)
    BY <1>2 DEF At, Answering
  <2> QED BY <1>2, <2>1, <2>2 DEF JudgementStands
<1>3. ASSUME NEW ev, Writes(ev)
      PROVE  JudgementStands'
  <2>1. /\ Write(ev) /\ Len(log') = Len(log) + 1 /\ DOMAIN log' = 1 .. Len(log) + 1
        /\ log'[Len(log) + 1] = ev /\ \A k \in DOMAIN log : log'[k] = log[k]
    BY <1>1, <1>3, Grows, WriteIs
  <2> SUFFICES ASSUME NEW i \in Steps, NEW n \in At("stepExited", i)',
                      NEW q, q \in Escalations(i, n)', NEW a, a \in Answering(q, n)',
                      log'[n].state = "judged", Undisturbed(i, q, n)'
               PROVE  LET V == Before(At("verdictRecorded", i), n)'
                      IN  Max(V) > a /\ log'[Max(V)].verdict = log'[a].decision
    BY DEF JudgementStands, Steps
  <2>2. \/ /\ n \in At("stepExited", i) /\ n \in 1 .. Len(log)
        \/ n = Len(log) + 1 /\ ev.type = "stepExited" /\ proc.i = i
    <3>1. CASE n \in At("stepExited", i)
      BY <1>1, <3>1, AtIs
    <3>2. CASE n \notin At("stepExited", i)
      <4>1. ev.type = "stepExited"
        BY <1>1, <2>1, <3>2, AtStays
      <4>2. PICK k \in Steps : InStep(ev, k)
        BY <1>3, <4>1, WriteIs
      <4>3. k = proc.i /\ ev.path = StepPath(k)
        BY <4>2 DEF InStep
      <4> QED BY <1>1, <1>3, <2>1, <3>2, <4>1, <4>3, AtGrows
    <3> QED BY <3>1, <3>2
  <2>3. q \in 1 .. n - 1
    BY DEF Escalations
  <2>4. q \in Escalations(i, n) /\ Undisturbed(i, q, n)
    BY <1>1, <2>1, <2>2, <2>3, EscalationStays
  <2>5. /\ q \in 1 .. Len(log) /\ a \in 1 .. Len(log) /\ a \in q .. n - 1
        /\ log'[a] = log[a] /\ log'[q] = log[q]
        /\ log[a].type = "humanResponded" /\ log[a].req = log[q].req
    <3>1. a \in q .. n - 1 /\ log'[a].type = "humanResponded" /\ log'[a].req = log'[q].req
      BY DEF Answering
    <3>2. q \in 1 .. Len(log) /\ a \in 1 .. Len(log)
      BY <1>1, <2>2, <2>3, <3>1
    <3> QED BY <1>1, <2>1, <3>1, <3>2
  <2> PICK V : V = Before(At("verdictRecorded", i), n)
    OBVIOUS
  <2>6. /\ V = Before(At("verdictRecorded", i), n)'
        /\ V \in SUBSET (1 .. Len(log))
        /\ \A m \in V : log'[m] = log[m]
    BY <1>1, <2>1, <2>2, BeforeStays
  <2>7. Max(V) > a /\ log[Max(V)].verdict = log[a].decision
    <3>1. CASE n \in At("stepExited", i) /\ n \in 1 .. Len(log)
      <4>1. log'[n] = log[n]
        BY <1>1, <2>1, <3>1
      <4>2. a \in Answering(q, n)
        BY <2>5 DEF Answering
      <4> QED BY <2>4, <3>1, <4>1, <4>2 DEF JudgementStands
    <3>2. CASE n = Len(log) + 1 /\ ev.type = "stepExited" /\ proc.i = i
      <4>1. proc.at = "exit" /\ proc.i = i
        <5>1. ev.state = "judged"
          BY <2>1, <3>2
        <5>2. PICK k \in Steps : InStep(ev, k)
          BY <1>3, <3>2, WriteIs
        <5>3. Exits(ev, k)
          BY <3>2, <5>2 DEF InStep, Enters, Intends, Settles, Rules, Triggered
        <5> QED BY <3>2, <5>1, <5>3 DEF Exits
      <4>2. q \in Escalations(i, Len(log) + 1) /\ Calm(i, q)
        BY <2>4, <3>2 DEF Calm
      <4>3. Stands(i, q) /\ Heeds(i, q)
        BY <4>2 DEF Heeding
      <4>4. a \in Responses
        BY <1>1, <2>5 DEF Responses
      <4>5. V = At("verdictRecorded", i)
        BY <1>1, <3>2, BeforeIs DEF At
      <4>6. LET W == At("verdictRecorded", i)
            IN  Max(W) > a /\ log[Max(W)].verdict = log[a].decision
        BY <2>5, <4>1, <4>2, <4>3, <4>4, AnswerIsHeeded
      <4> QED BY <4>5, <4>6
    <3> QED BY <2>2, <3>1, <3>2
  <2>8. V # { }
    <3>1. Reenters(i, q)
      BY <2>4 DEF Undisturbed
    <3>2. Before(At("verdictRecorded", i), q) # { }
      BY <3>1 DEF Reenters
    <3>3. PICK v \in At("verdictRecorded", i) : v < q
      BY <3>2 DEF Before
    <3>4. v \in Nat /\ n \in Nat /\ q \in Nat /\ q < n
      BY <1>1, <2>2, <2>3, AtIs
    <3>5. v < n
      BY <3>3, <3>4
    <3> QED BY <3>5 DEF Before
  <2>9. Max(V) \in V
    BY <1>1, <2>6, <2>8, MaxIs
  <2> QED BY <2>5, <2>6, <2>7, <2>9
<1> QED BY <1>2, <1>3, StepWrites

(* However long a run waits for the ruling of a human and however often it *)
(* is resumed, the step whose act was judged leaves with that ruling as    *)
(* its verdict: the question is found again, its answer is taken, and no   *)
(* process that lives until the exit judges anew.                          *)
THEOREM JudgementsStand == Spec => []JudgementStands
PROOF
<1> DEFINE Inv == /\ Framed /\ Answerable /\ Ruling /\ Gates
                  /\ Ahead("verdictRecorded") /\ Ahead("actionSettled")
                  /\ Unsettled /\ Ungated /\ Forced /\ Standing
                  /\ Resolving /\ Consulted /\ Lapsed /\ Heeding /\ JudgementStands
<1>1. Init => Inv
  <2> SUFFICES ASSUME Init
               PROVE  Inv
    OBVIOUS
  <2>1. /\ log = << >> /\ proc.at = "down" /\ ck.completed = << >> /\ ck.inFlight = << >>
        /\ ck.frontier.intent = NoIntent /\ late = { }
    BY SeedIs, DownIs DEF Init
  <2>2. /\ DOMAIN log = { } /\ DOMAIN ck.completed = { } /\ DOMAIN ck.inFlight = { }
        /\ \A type, i : At(type, i) = { }
    BY <2>1, EmptyIs DEF At, Entries
  <2>3. Framed /\ Answerable
    BY FramedInit, AnswerableInit
  <2>4. Gates
    BY <2>1, <2>2 DEF Gates, Requests, Behind, Inside
  <2>5. Standing
    BY <2>1 DEF Standing, GoesOn
  <2>6. Heeding
    <3>1. \A q, n : q \in 1 .. n => q \notin DOMAIN log
      BY <2>2
    <3>2. \A i \in Steps : \A q \in Escalations(i, Len(log) + 1) : FALSE
      BY <2>1, <2>2, EmptyIs DEF Escalations
    <3> QED BY <3>2 DEF Heeding
  <2>7. JudgementStands
    BY <2>2 DEF JudgementStands
  <2> QED BY <2>1, <2>2, <2>3, <2>4, <2>5, <2>6, <2>7
          DEF Ruling, Ahead, Unsettled, Ungated, Forced, Requests, Inside, Resolving,
              Consulted, Lapsed
<1>2. Ledger /\ Ledger' /\ Inv /\ [Next]_vars => Inv'
  <2> SUFFICES ASSUME Ledger, Ledger', Inv, [Next]_vars
               PROVE  Inv'
    OBVIOUS
  <2>1. Framed'
    BY FramedNext
  <2>2. Answerable'
    BY <2>1, AnswerableNext
  <2>3. Ruling' /\ Gates' /\ Standing'
    BY RulingNext, GatesNext, StandingNext DEF Unseen
  <2>4. Ahead("verdictRecorded")' /\ Ahead("actionSettled")'
    BY AheadNext
  <2>5. Unsettled'
    BY UnsettledNext DEF Framed, Answerable
  <2>6. Ungated'
    BY UngatedNext DEF Answerable
  <2>7. Forced'
    BY ForcedNext DEF Answerable
  <2>8. Resolving' /\ Lapsed'
    BY ResolvingNext, LapsedNext
  <2>9. Consulted'
    BY ConsultedNext DEF Unseen
  <2>10. Heeding'
    BY HeedingNext DEF Unseen
  <2>11. JudgementStands'
    BY JudgementNext
  <2> QED BY <2>1, <2>2, <2>3, <2>4, <2>5, <2>6, <2>7, <2>8, <2>9, <2>10, <2>11
<1>3. Inv => JudgementStands
  OBVIOUS
<1> HIDE DEF Inv
<1>4. Spec => []JudgementStands
  BY <1>1, <1>2, <1>3, LedgerHolds, PTL DEF Spec
<1> QED BY <1>4
=============================================================================
