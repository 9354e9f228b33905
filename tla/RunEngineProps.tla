--------------------------- MODULE RunEngineProps ---------------------------
(***************************************************************************)
(* What RunEngine promises, stated over the ledger, its fold and the       *)
(* device side.                                                            *)
(***************************************************************************)
EXTENDS RunEngine

(* Ledger positions: entries of a type at the instance of step i, and      *)
(* whether an entry of a type, about call c, lies before position n.       *)
At(type, i) == Entries(log, type, StepPath(i))
Before(S, n) == { m \in S : m < n }
SettledBefore(c, n) ==
  \E m \in 1 .. n - 1 : log[m].type = "actionSettled" /\ log[m].call = c

(* The answers the adjudications of call c received before position n.     *)
AnswersOn(c, n) ==
  { a \in 1 .. n - 1 :
      /\ log[a].type = "humanResponded"
      /\ \E q \in 1 .. a : /\ log[q].type = "humanRequested"
                           /\ log[q].call = c
                           /\ log[q].req = log[a].req }

Steps == DOMAIN Flow
BindingsOn(i, hook) ==
  { AllBindings(i)[k] : k \in { k \in DOMAIN AllBindings(i) :
                                  AllBindings(i)[k].hook = hook } }

(* The shape of the state.                                                 *)
TypeOK ==
  /\ proc.at \in {"down", "walk", "gate", "act", "dispatch", "wait", "adoptSettle",
                  "judge", "confirm", "record", "consult", "ask", "supersede",
                  "exit", "pairs", "finish", "suspend", "adjudicate"}
  /\ proc.i \in 1 .. Len(Flow) + 1
  /\ proc.base \in 0 .. Len(log)
  /\ proc.call \in 0 .. Len(dev)
  /\ proc.fold \in Seq(Statuses)
  /\ budget \in 0 .. Disruptions
  /\ ck # Unfoldable => ck.frontier.intent \in {NoIntent} \union Calls

(* Nothing the engine appends is refused by the fold: verdicts find their  *)
(* span, exits their entry, answers their request, across any crash.       *)
LedgerNeverRefuses == ck # Unfoldable

(* A blocked pair a crash interrupted leaves its span open, its arguments  *)
(* null for ever; a resume that lost the halt executes in that span.       *)
InBlockedSpan(i, n) == \E e \in Before(At("stepEntered", i), n) : ~log[e].resolved

(* What licenses a dispatch at position n of the ledger after call c: c is *)
(* settled, or provably never left, or a human ruled `redo` on that very   *)
(* call, or `adopt` and its effect was then judged.                        *)
Licensed(c, i, n) ==
  \/ SettledBefore(c, n)
  \/ dev[c].fate = "unsent"
  \/ \E a \in AnswersOn(c, n) :
       \/ log[a].decision = "redo"
       \/ /\ log[a].decision = "adopt"
          /\ \E v \in Before(At("verdictRecorded", i), n) : v > a

(* I2: a mutating, non-idempotent act is dispatched anew only under a      *)
(* license from every earlier call of it.                                  *)
ReplayIsLicensed ==
  \A i \in Steps : Gated(i) =>
    \A n \in At("actionIntent", i) : \A m \in Before(At("actionIntent", i), n) :
      Licensed(log[m].call, i, n)

(* ... and only what runs in the span of an interrupted blocked pair can   *)
(* escape that: its frontier may name another step, its abort is no        *)
(* history (README, known departures).                                     *)
NoBlindReplay ==
  \A i \in Steps : Gated(i) =>
    \A n \in At("actionIntent", i) : \A m \in Before(At("actionIntent", i), n) :
      Licensed(log[m].call, i, n) \/ InBlockedSpan(i, n)

(* A call that left for the device is never forgotten: it is settled, or   *)
(* it is the pending intent a resume will reconcile, or a human ruled; the *)
(* same spans excepted.                                                    *)
NoLostOutcome ==
  \A c \in Calls :
    Gated(dev[c].step) /\ dev[c].fate # "unsent" =>
      \/ SettledBefore(c, Len(log) + 1)
      \/ ck.frontier.intent = c
      \/ AnswersOn(c, Len(log) + 1) # { }
      \/ InBlockedSpan(dev[c].step, Len(log) + 1)

(* R13: under a supervise policy no intent of a governed step is durable   *)
(* before a human's `proceed` is, and none follows an `abort`.             *)
SupervisedDispatch ==
  \A i \in Steps : \A n \in At("actionIntent", i) :
    LET rulings == { log[m].decision : m \in Before(At("humanResponded", i), n) }
    IN  /\ Supervise = "all" \/ (Supervise = "mutating" /\ Flow[i].mutating)
             => "proceed" \in rulings
        /\ "abort" \notin rulings

(* Attempt numbers of one instance ascend across segments, so no two       *)
(* attempts share a path.                                                  *)
AttemptsAscend ==
  \A i \in Steps : \A n \in At("actionIntent", i) :
    \A m \in Before(At("actionIntent", i), n) : log[m].attempt < log[n].attempt

(* A judged instance never dispatches again, whatever resumes follow, nor  *)
(* does an aborted one, unless it ran in the span of an interrupted        *)
(* blocked pair.                                                           *)
ConcludedNeverRedispatches ==
  \A i \in Steps : \A n \in At("stepExited", i) :
    (\/ log[n].state = "judged"
     \/ log[n].state = "aborted" /\ ~InBlockedSpan(i, n))
      => At("actionIntent", i) \subseteq 1 .. n

(* The triggers of a hook on one instance are numbered consecutively       *)
(* across segments and stay within the binding's maxTriggers.              *)
TriggersWithinBudget ==
  \A i \in Steps : \A n \in At("handlerTriggered", i) :
    LET hook == log[n].hook
        earlier == { m \in Before(At("handlerTriggered", i), n) : log[m].hook = hook }
    IN  /\ log[n].trigger = Cardinality(earlier) + 1
        /\ \E b \in BindingsOn(i, hook) : log[n].trigger <= b.triggers

(* A dispatch at n re-enters the act of step i when what was tried last    *)
(* before it had been settled, and ruled on since.                         *)
Reenters(i, n) ==
  LET V == Before(At("verdictRecorded", i), n)
      N == Before(At("actionIntent", i), n)
  IN  /\ V # { } /\ N # { } /\ Max(N) < Max(V)
      /\ \E s \in Before(At("actionSettled", i), Max(V)) : log[s].call = log[Max(N)].call
Reentries(i) == { n \in At("actionIntent", i) : Reenters(i, n) }

(* What trigger t granted: a retry as many re-entries as its policy has    *)
(* attempts; an escalation one to each segment that found it answered with *)
(* `done`, which no segment remembers having acted on (README, known       *)
(* departures); any other disposition none.                                *)
Attempted(i, t) ==
  { b.tries : b \in { b \in BindingsOn(i, log[t].hook) : b.action = "retry" } }
Repaired(i, t, r) ==
  \E a \in t .. r : /\ log[a].type = "humanResponded" /\ log[a].decision = "done"
                    /\ \E q \in t .. a :
                         /\ log[q].type = "humanRequested" /\ log[q].req = log[a].req
                         /\ log[q].path = HookPath(i, log[t].hook, log[t].trigger, "human")
Grants(i, t) ==
  CASE log[t].disposition = "retry"    -> UNION { 1 .. tries : tries \in Attempted(i, t) }
    [] log[t].disposition = "escalate" ->
         { r \in DOMAIN log : log[r].type = "runResumed" /\ Repaired(i, t, r) }
    [] OTHER -> { }
Slots(i) == UNION { {t} \X Grants(i, t) : t \in At("handlerTriggered", i) }

(* No act is re-entered more often than the triggers of its handlers, over *)
(* all segments and crashes, have granted.                                 *)
ReentriesAreLicensed ==
  \A i \in Steps : Cardinality(Reentries(i)) <= Cardinality(Slots(i))

(* A finished run left no open span and recorded every step of the body;   *)
(* one whose last exit aborted it left at most the spans of interrupted    *)
(* blocked pairs open (README, known departures).                          *)
FinishedIsComplete ==
  ck.status = "finished" =>
    \/ /\ log[Max({ n \in DOMAIN log : log[n].type = "stepExited" })].state = "aborted"
       /\ \A i \in Steps : OpenSpan(i) => InBlockedSpan(i, Len(log) + 1)
    \/ ck.inFlight = << >> /\ \A i \in Steps : Recorded(i)

(* A segment between positions a and b began without its predecessor       *)
(* having suspended: the process died.                                     *)
DiedBetween(a, b) ==
  \E n \in a + 1 .. b - 1 :
    /\ log[n].type = "runResumed"
    /\ log[Max({ m \in 1 .. n - 1 : log[m].type # "humanResponded" })].type
         # "runSuspended"

(* A step leaves with a verdict older than its last settled attempt only   *)
(* when the process died between that settlement and the exit: otherwise   *)
(* no verdict speaks for an attempt it did not see.  Without assertions no *)
(* verdict sees a success, and in the span of an interrupted blocked pair  *)
(* a settlement may be lost (README, known departures).                    *)
Overtaken(n) ==
  LET i == StepAt(log[n].path)
      V == Before(At("verdictRecorded", i), n)
      S == Before(At("actionSettled", i), n)
  IN  log[n].state = "judged" /\ V # { } /\ S # { } /\ Max(V) < Max(S)
OnlyDeathOvertakes ==
  \A i \in Steps : \A n \in At("stepExited", i) :
    Flow[i].asserts /\ ~InBlockedSpan(i, n) /\ Overtaken(n) =>
      DiedBetween(Max(Before(At("actionSettled", i), n)), n)

(* The verdict a run finishes with is the worst of the verdicts its        *)
(* records carry, adopted ones included; an aborted run claims none.  It   *)
(* may miss one: the verdict of an earlier round of a step without         *)
(* assertions whose next round a resume found done (README, known          *)
(* departures).                                                            *)
RecordedVerdicts ==
  { ck.completed[k].verdict : k \in DOMAIN ck.completed } \ {NoVerdict}
Severity == [ pass |-> 0, unknown |-> 1, fail |-> 2 ]
WorstIn(V) ==
  IF V = { } THEN NoVerdict
  ELSE CHOOSE v \in V : \A w \in V : Severity[w] <= Severity[v]
Unheard(n) ==
  LET i == StepAt(log[n].path)
      V == Before(At("verdictRecorded", i), n)
  IN  /\ log[n].type = "stepExited" /\ Overtaken(n) /\ ~Flow[i].asserts
      /\ \E r \in Max(V) + 1 .. n - 1 : log[r].type = "runResumed"
FinishMatchesRecords ==
  [][ log' # log /\ Last(log').type = "runFinished"
        /\ (\A n \in DOMAIN log : ~Unheard(n)) =>
        Last(log').verdict = IF proc.at = "finish" THEN NoVerdict
                             ELSE WorstIn(RecordedVerdicts) ]_vars

(* Once a step failed and was not released by a `continue`, or aborted, no *)
(* step dispatches any more.  A later success of a step without assertions *)
(* releases it too: no verdict takes the fail's place.                     *)
HaltingExit(n) ==
  LET i == StepAt(log[n].path)
      V == Before(At("verdictRecorded", i), n)
  IN  /\ log[n].type = "stepExited"
      /\ \/ log[n].state = "aborted"
         \/ /\ log[n].state = "judged"
            /\ V # { } /\ log[Max(V)].verdict = "fail"
            /\ Flow[i].asserts \/ ~Overtaken(n)
            /\ \A t \in Before(At("handlerTriggered", i), n) :
                 log[t].disposition # "continue"
Intents == { m \in DOMAIN log : log[m].type = "actionIntent" }
HaltHolds ==
  \A n \in DOMAIN log : HaltingExit(n) => Intents \subseteq 1 .. n

(* ... and only a process that dies after the exit can lose the halt: no   *)
(* suspension, answer or resume does.                                      *)
OnlyDeathLosesHalt ==
  \A n \in DOMAIN log : HaltingExit(n) =>
    \A m \in Intents : m > n => DiedBetween(n, m)

(* The escalations of step i a human was asked to judge before position n, *)
(* those of onFail and onUnknown: a resume never finds that of an onError  *)
(* again (README, known departures).                                       *)
Escalations(i, n) ==
  { q \in 1 .. n - 1 :
      /\ log[q].type = "humanRequested" /\ "pass" \in log[q].decisions
      /\ log[q].path \in { HookPath(i, hook, t, "human") :
                             hook \in {"onFail", "onUnknown"}, t \in 1 .. q } }
Answering(q, n) ==
  { a \in q .. n - 1 : log[a].type = "humanResponded" /\ log[a].req = log[q].req }

(* A verdict after position q was there when a segment began before n: the *)
(* process that took the ruling died before its step left.                 *)
Relapsed(i, q, n) ==
  \E v \in Before(At("verdictRecorded", i), n) :
    \E r \in v .. n - 1 : q < v /\ log[r].type = "runResumed"

(* What was asked at q is still the question at n: the act under judgment  *)
(* was settled and ruled on, and nothing was triggered or left since.      *)
Undisturbed(i, q, n) ==
  /\ Reenters(i, q) /\ ~Relapsed(i, q, n) /\ ~InBlockedSpan(i, n)
  /\ Before(At("handlerTriggered", i), n) \subseteq 1 .. q
  /\ Before(At("stepExited", i), n) \subseteq 1 .. q

(* When a human judges a failed or unknown step, in the same segment or    *)
(* after any number of resumes, the step leaves with that judgement as its *)
(* verdict.  A process that dies between the two may lose it, and so does  *)
(* an intent no settlement closed: the resume takes up its work before it  *)
(* looks for a ruling (README, known departures).                          *)
JudgementStands ==
  \A i \in Steps : \A n \in At("stepExited", i) : \A q \in Escalations(i, n) :
    \A a \in Answering(q, n) :
      LET V == Before(At("verdictRecorded", i), n)
      IN  log[n].state = "judged" /\ Undisturbed(i, q, n)
            => Max(V) > a /\ log[Max(V)].verdict = log[a].decision

(* A mutating, non-idempotent act whose success is on the ledger is not    *)
(* dispatched again unless a handler consulted about it asked for that.    *)
SettledNeverRedispatches ==
  \A i \in Steps : Gated(i) =>
    \A n \in At("actionIntent", i) : \A m \in Before(At("actionSettled", i), n) :
      log[m].outcome = "succeeded" => Before(At("handlerTriggered", i), n) # { }

(* The run reaches its end.                                                *)
EventuallyFinished == <>(ck.status = "finished")
=============================================================================
