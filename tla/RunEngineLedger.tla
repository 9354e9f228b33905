--------------------------- MODULE RunEngineLedger --------------------------
(***************************************************************************)
(* The ledger stays foldable. First what the operators of RunEngine        *)
(* compute: paths and the instances they name, the entries of a growing    *)
(* ledger, the process records, the effect of one entry on the spans and   *)
(* records of a step. Then what each action writes and where it leaves the *)
(* process, and the invariant of the ledger - the shape of the state, the  *)
(* spans in the order of the body, requests and their answers - through    *)
(* every action. Then what follows it: concluded steps stay concluded, a   *)
(* finish is complete, attempts ascend, triggers stay within their         *)
(* binding.                                                                *)
(***************************************************************************)
EXTENDS RunEngineProps, FoldLemmas


-----------------------------------------------------------------------------
(* The path of a step names its flow and the step; a hook path adds two    *)
(* frames to it.                                                           *)
StepFrame(i) == [k |-> "step", id |-> Flow[i].id, h |-> NoHash]

(* The two frames of a step's path.                                        *)
LEMMA StepPathIs ==
  ASSUME NEW i
  PROVE  /\ StepPath(i) = << FlowFrame(RootFlow, MetaHash), StepFrame(i) >>
         /\ Len(StepPath(i)) = 2 /\ DOMAIN StepPath(i) = 1 .. 2
         /\ StepPath(i)[1] = FlowFrame(RootFlow, MetaHash)
         /\ StepPath(i)[2] = StepFrame(i)
PROOF
<1> DEFINE x == FlowFrame(RootFlow, MetaHash)
<1> DEFINE y == StepFrame(i)
<1>1. StepPath(i) = Append(<< x >>, y)
  BY DEF StepPath, RootPath, StepFrame
<1> HIDE DEF x, y
<1>2. StepPath(i) = << x, y >>
  BY <1>1, PairIs, Zenon
<1>3. Len(StepPath(i)) = 2 /\ StepPath(i)[1] = x /\ StepPath(i)[2] = y
  BY <1>2
<1>4. DOMAIN StepPath(i) = 1 .. 2
  BY <1>2
<1> QED BY <1>2, <1>3, <1>4 DEF x, y

(* The four frames of a path inside a handler.                             *)
LEMMA HookPathIs ==
  ASSUME NEW i, NEW hook, NEW trigger, NEW leaf
  PROVE  LET p == HookPath(i, hook, trigger, leaf)
         IN  /\ Len(p) = 4 /\ p[2] = StepFrame(i)
             /\ p[3].id = << hook, trigger >> /\ p[4].id = leaf
PROOF
<1> DEFINE a == [k |-> "hook", id |-> << hook, trigger >>, h |-> NoHash]
<1> DEFINE b == [k |-> "step", id |-> leaf, h |-> NoHash]
<1>1. HookPath(i, hook, trigger, leaf)
        = << FlowFrame(RootFlow, MetaHash), StepFrame(i) >> \o << a, b >>
  BY StepPathIs DEF HookPath
<1> HIDE DEF a, b
<1>2. LET p == << FlowFrame(RootFlow, MetaHash), StepFrame(i) >> \o << a, b >>
      IN  Len(p) = 4 /\ p[2] = StepFrame(i) /\ p[3] = a /\ p[4] = b
  BY FourIs
<1>3. a.id = << hook, trigger >> /\ b.id = leaf
  BY DEF a, b
<1> QED BY <1>1, <1>2, <1>3

(* Two steps of a sealed flow are never the same instance.                 *)
LEMMA SameStep ==
  ASSUME NEW i \in Steps, NEW j \in Steps
  PROVE  SameInstance(StepPath(i), StepPath(j)) <=> i = j
PROOF
<1>1. SameInstance(StepPath(i), StepPath(j)) <=> Flow[i].id = Flow[j].id
  <2> DEFINE p == StepPath(i)
  <2> DEFINE q == StepPath(j)
  <2>1. /\ Len(p) = 2 /\ Len(q) = 2 /\ p[1] = q[1]
        /\ p[2] = StepFrame(i) /\ q[2] = StepFrame(j)
    BY StepPathIs
  <2>2. 1 .. 2 = {1, 2}
    OBVIOUS
  <2> HIDE DEF p, q
  <2>3. SameInstance(p, q) <=> SameSite(p[1], q[1]) /\ SameSite(p[2], q[2])
    BY <2>1, <2>2 DEF SameInstance, SitePrefix
  <2>4. SameSite(p[1], q[1])
    BY <2>1 DEF SameSite
  <2>5. SameSite(p[2], q[2]) <=> Flow[i].id = Flow[j].id
    BY <2>1 DEF SameSite, StepFrame
  <2> QED BY <2>3, <2>4, <2>5 DEF p, q
<1> QED BY <1>1, FlowShape DEF Steps

(* A step is found by its path.                                            *)
LEMMA StepAtIs ==
  ASSUME NEW i \in Steps
  PROVE  StepAt(StepPath(i)) = i
PROOF
BY SameStep DEF StepAt, Steps

(* Steps with one path are one step.                                       *)
LEMMA PathsDiffer ==
  ASSUME NEW i \in Steps, NEW j \in Steps, StepPath(i) = StepPath(j)
  PROVE  i = j
PROOF
<1>1. SameInstance(StepPath(i), StepPath(i))
  BY SameStep
<1> QED BY <1>1, SameStep

(* What is asked inside a handler is no entry of the step.                 *)
LEMMA HookIsNoStep ==
  ASSUME NEW i, NEW hook, NEW trigger, NEW leaf, NEW j
  PROVE  ~SameInstance(HookPath(i, hook, trigger, leaf), StepPath(j))
PROOF
BY HookPathIs, StepPathIs DEF SameInstance

(* The steps of a flow are numbered from one.                              *)
LEMMA StepsAre ==
  /\ Len(Flow) \in Nat \ {0} /\ Steps = 1 .. Len(Flow) /\ Steps \subseteq Nat
PROOF
BY FlowShape DEF Steps

-----------------------------------------------------------------------------
(* A ledger that grows by one entry.                                       *)
LEMMA EntriesGrow ==
  ASSUME NEW h, IsSequence(h), NEW ev, NEW type, NEW path
  PROVE  Entries(Append(h, ev), type, path) =
           IF ev.type = type /\ SameInstance(ev.path, path)
           THEN Entries(h, type, path) \union {Len(h) + 1}
           ELSE Entries(h, type, path)
PROOF
<1> DEFINE t == Append(h, ev)
<1>1. /\ Len(h) \in Nat /\ DOMAIN h = 1 .. Len(h) /\ DOMAIN t = 1 .. Len(h) + 1
      /\ \A n \in 1 .. Len(h) : t[n] = h[n]
      /\ t[Len(h) + 1] = ev
  BY AppendIs
<1> HIDE DEF t
<1>2. DOMAIN t = DOMAIN h \union {Len(h) + 1} /\ Len(h) + 1 \notin DOMAIN h
  BY <1>1
<1>3. Entries(t, type, path) =
        { n \in DOMAIN h : h[n].type = type /\ SameInstance(h[n].path, path) }
          \union { n \in {Len(h) + 1} : ev.type = type /\ SameInstance(ev.path, path) }
  BY <1>1, <1>2 DEF Entries
<1> QED BY <1>3 DEF Entries, t

(* Entries are positions of the history they are taken from.               *)
LEMMA EntriesArePositions ==
  ASSUME NEW h, IsSequence(h), NEW type, NEW path
  PROVE  /\ Entries(h, type, path) \in SUBSET (1 .. Len(h)) /\ Len(h) \in Nat
         /\ \A n \in Entries(h, type, path) :
              n \in Nat /\ n \in DOMAIN h /\ h[n].type = type
PROOF
BY SequenceIs DEF Entries

(* The entries a segment starts from are those up to its base.             *)
LEMMA EntriesOfPrefix ==
  ASSUME NEW h, IsSequence(h), NEW b \in 0 .. Len(h), NEW type, NEW path
  PROVE  Entries(SubSeq(h, 1, b), type, path) =
           { n \in Entries(h, type, path) : n <= b }
PROOF
<1> DEFINE t == SubSeq(h, 1, b)
<1>1. /\ DOMAIN t = 1 .. b /\ \A n \in 1 .. b : t[n] = h[n]
      /\ DOMAIN h = 1 .. Len(h) /\ Len(h) \in Nat
  BY PrefixIs, SequenceIs
<1>2. \A n \in 1 .. Len(h) : n <= b <=> n \in 1 .. b
  BY <1>1
<1> HIDE DEF t
<1>3. Entries(t, type, path) \subseteq { n \in Entries(h, type, path) : n <= b }
  BY <1>1, <1>2 DEF Entries
<1>4. { n \in Entries(h, type, path) : n <= b } \subseteq Entries(t, type, path)
  BY <1>1, <1>2 DEF Entries
<1>5. Entries(t, type, path) = { n \in Entries(h, type, path) : n <= b }
  BY <1>3, <1>4
<1> QED BY <1>5 DEF t

(* All entries of a history lie before its end.                            *)
LEMMA BeforeIs ==
  ASSUME NEW h, IsSequence(h), NEW type, NEW path
  PROVE  Before(Entries(h, type, path), Len(h) + 1) = Entries(h, type, path)
PROOF
BY EntriesArePositions DEF Before

-----------------------------------------------------------------------------
(* Where the process goes: every disposition keeps the step, the segment   *)
(* and the pending work of the process it starts from.                     *)
ProcFields == {"at", "i", "base", "work", "site", "call", "pos", "tries", "status",
               "class", "inForce", "seeded", "plain", "fold", "consumed", "exitAs",
               "ctl"}
IsProc(p) == DOMAIN p = ProcFields
SameRound(q, p) ==
  /\ IsProc(q)
  /\ q.i = p.i /\ q.base = p.base /\ q.work = p.work /\ q.site = p.site
  /\ q.call = p.call /\ q.plain = p.plain

(* What Goto changes.                                                      *)
LEMMA GotoIs ==
  ASSUME NEW p, IsProc(p), NEW at
  PROVE  /\ SameRound(Goto(p, at), p) /\ Goto(p, at).at = at
         /\ Goto(p, at).exitAs = p.exitAs /\ Goto(p, at).status = p.status
PROOF
BY DEF Goto, SameRound, IsProc, ProcFields

(* What Leave changes.                                                     *)
LEMMA LeaveIs ==
  ASSUME NEW p, IsProc(p), NEW state, NEW ctl
  PROVE  LET q == Leave(p, state, ctl)
         IN  SameRound(q, p) /\ q.at = "exit" /\ q.exitAs = state /\ q.ctl = ctl
PROOF
BY DEF Leave, SameRound, IsProc, ProcFields

(* What ChainHead changes.                                                 *)
LEMMA ChainHeadIs ==
  ASSUME NEW p, IsProc(p)
  PROVE  SameRound(ChainHead(p), p) /\ ChainHead(p).at = "act"
PROOF
BY DEF ChainHead, SameRound, IsProc, ProcFields

(* What Negative changes.                                                  *)
LEMMA NegativeIs ==
  ASSUME NEW p, IsProc(p), NEW status, NEW class
  PROVE  LET q == Negative(p, status, class)
         IN  SameRound(q, p) /\ q.at = "record" /\ q.status = status
PROOF
BY DEF Negative, SameRound, IsProc, ProcFields

(* What Seeded changes.                                                    *)
LEMMA SeededIs ==
  ASSUME NEW p, IsProc(p), NEW v
  PROVE  /\ SameRound(Seeded(p, v), p) /\ Seeded(p, v).at = p.at
         /\ Seeded(p, v).exitAs = p.exitAs
PROOF
BY DEF Seeded, SameRound, IsProc, ProcFields

(* Where a judged round goes on to.                                        *)
LEMMA RuledIs ==
  ASSUME NEW p, IsProc(p), NEW v
  PROVE  LET q == Ruled(p, v)
         IN  /\ SameRound(q, p) /\ q.at \in {"exit", "consult"}
             /\ q.at = "exit" => q.exitAs = "judged" /\ q.ctl \in {"continue", "halt"}
             /\ q.at = "consult" => ~p.plain
PROOF
<1> DEFINE s == [Seeded(p, v) EXCEPT !.status = v]
<1>1. IsProc(s) /\ SameRound(s, p)
  BY SeededIs DEF SameRound, IsProc, ProcFields
<1> HIDE DEF s
<1>2. Ruled(p, v) = IF v = "pass" THEN Leave(s, "judged", "continue")
                    ELSE IF p.plain THEN Leave(s, "judged", "halt")
                    ELSE Goto(s, "consult")
  BY DEF Ruled, s
<1>3. \A q : SameRound(q, s) => SameRound(q, p)
  BY <1>1 DEF SameRound
<1>4. CASE v = "pass"
  BY <1>1, <1>2, <1>3, <1>4, LeaveIs
<1>5. CASE v # "pass" /\ p.plain
  BY <1>1, <1>2, <1>3, <1>5, LeaveIs
<1>6. CASE v # "pass" /\ ~p.plain
  BY <1>1, <1>2, <1>3, <1>6, GotoIs
<1> QED BY <1>4, <1>5, <1>6

(* Where a settled outcome goes on to.                                     *)
LEMMA DisposedIs ==
  ASSUME NEW p, IsProc(p), NEW step, NEW outcome
  PROVE  LET q == Disposed(p, step, outcome)
         IN  /\ SameRound(q, p)
             /\ q.at \in {"judge", "exit", "act", "confirm", "record"}
             /\ q.at = "exit" => \/ q.exitAs = "judged" /\ q.ctl = "continue"
                                 \/ q.exitAs = "aborted" /\ q.ctl = "abort"
             /\ q.at = "record" => q.status \in {"fail", "unknown"}
PROOF
<1> DEFINE s == [p EXCEPT !.at = "act", !.pos = @ + 1, !.tries = 0]
<1>1. SameRound(s, p) /\ s.at = "act"
  BY DEF SameRound, IsProc, ProcFields
<1> HIDE DEF s
<1> DEFINE q == Disposed(p, step, outcome)
<1>2. \/ q = Goto(p, "judge") \/ q = Leave(p, "judged", "continue")
      \/ q = Leave(p, "aborted", "abort") \/ q = Goto(p, "act") \/ q = s
      \/ q = Goto(p, "confirm") \/ q = Negative(p, "unknown", "none")
      \/ q = Negative(p, "unknown", outcome) \/ q = Negative(p, "fail", outcome)
  BY DEF Disposed, s
<1> HIDE DEF q
<1>3. SameRound(q, p)
  BY <1>1, <1>2, GotoIs, LeaveIs, NegativeIs
<1>4. q.at \in {"judge", "exit", "act", "confirm", "record"}
  BY <1>1, <1>2, GotoIs, LeaveIs, NegativeIs
<1>5. q.at = "exit" => \/ q.exitAs = "judged" /\ q.ctl = "continue"
                       \/ q.exitAs = "aborted" /\ q.ctl = "abort"
  BY <1>1, <1>2, GotoIs, LeaveIs, NegativeIs
<1>6. q.at = "record" => q.status \in {"fail", "unknown"}
  BY <1>1, <1>2, GotoIs, LeaveIs, NegativeIs
<1> QED BY <1>3, <1>4, <1>5, <1>6 DEF q

(* A process that begins to walk the body.                                 *)
LEMMA WalkingIs ==
  ASSUME NEW base, NEW work
  PROVE  LET q == Walking(base, work)
         IN  /\ IsProc(q) /\ q.at = "walk" /\ q.i = 1 /\ q.base = base
             /\ q.work = work /\ q.site = 0 /\ q.call = 0 /\ ~q.plain
PROOF
BY DEF Walking, Down, IsProc, ProcFields

(* A process that is not there.                                            *)
LEMMA DownIs ==
  /\ IsProc(Down) /\ Down.at = "down" /\ Down.i = 1 /\ Down.base = 0
  /\ Down.work = "none" /\ Down.site = 0 /\ Down.call = 0
PROOF
BY DEF Down, IsProc, ProcFields

(* A process that goes on to the next step.                                *)
LEMMA NextStepIs ==
  ASSUME NEW p, IsProc(p)
  PROVE  LET q == NextStep(p)
         IN  /\ IsProc(q) /\ q.at = "walk" /\ q.i = p.i + 1 /\ q.base = p.base
             /\ q.work = p.work /\ q.site = p.site /\ q.call = 0
             /\ ~q.plain
PROOF
<1> DEFINE w == Walking(p.base, p.work)
<1>1. /\ IsProc(w) /\ w.at = "walk" /\ w.base = p.base /\ w.work = p.work
      /\ w.site = 0 /\ w.call = 0 /\ ~w.plain
  BY WalkingIs
<1> HIDE DEF w
<1>2. NextStep(p) = [w EXCEPT !.i = p.i + 1, !.site = p.site, !.fold = p.fold,
                              !.consumed = p.consumed]
  BY DEF NextStep, w
<1> QED BY <1>1, <1>2 DEF IsProc, ProcFields

(* A process that goes on to record the rest as blocked.                   *)
LEMMA HaltedIs ==
  ASSUME NEW p, IsProc(p)
  PROVE  LET q == Halted(p)
         IN  IsProc(q) /\ q.at = "pairs" /\ q.i = p.i + 1 /\ q.base = p.base
PROOF
BY NextStepIs, GotoIs DEF Halted, SameRound

-----------------------------------------------------------------------------
(* The spans and records of a step: its span is open, the open span is     *)
(* already history, the step is recorded, its record is history.           *)
OpenIn(st, k) == InFlightAt(st, StepPath(k)) # { }
RipeIn(st, k) == \E a \in InFlightAt(st, StepPath(k)) : IsHistory(st.inFlight[a])
RecordedIn(st, k) == CompletedAt(st, StepPath(k)) # { }
AdoptableIn(st, k) ==
  RecordedIn(st, k) /\ IsHistory(st.completed[Latest(CompletedAt(st, StepPath(k)))])

(* Spans open from the last step down to the first: the innermost span is  *)
(* that of the earliest open step.                                         *)
TopIs(st, i) ==
  st.inFlight # << >> /\ st.inFlight[Len(st.inFlight)].path = StepPath(i)
Stacked(st) ==
  /\ \A a \in DOMAIN st.inFlight : \E k \in Steps : st.inFlight[a].path = StepPath(k)
  /\ \A a, b \in DOMAIN st.inFlight : \A j, k \in Steps :
       /\ st.inFlight[a].path = StepPath(j)
       /\ st.inFlight[b].path = StepPath(k)
       /\ a < b
       => j > k

(* A step is open when some span names it.                                 *)
LEMMA OpenMeans ==
  ASSUME NEW st, Stacked(st), NEW k \in Steps
  PROVE  InFlightAt(st, StepPath(k))
           = { a \in DOMAIN st.inFlight : st.inFlight[a].path = StepPath(k) }
PROOF
<1>1. ASSUME NEW a \in DOMAIN st.inFlight
      PROVE  SameInstance(st.inFlight[a].path, StepPath(k))
               <=> st.inFlight[a].path = StepPath(k)
  <2>1. PICK j \in Steps : st.inFlight[a].path = StepPath(j)
    BY DEF Stacked
  <2> QED BY <2>1, SameStep, PathsDiffer
<1> QED BY <1>1 DEF InFlightAt

(* Each open step has one span; that of the top step is the last.          *)
LEMMA SpanIsUnique ==
  ASSUME NEW st, IsFold(st), Stacked(st), NEW k \in Steps,
         NEW a \in InFlightAt(st, StepPath(k)), NEW b \in InFlightAt(st, StepPath(k))
  PROVE  a = b
PROOF
<1>1. /\ a \in DOMAIN st.inFlight /\ b \in DOMAIN st.inFlight
      /\ st.inFlight[a].path = StepPath(k) /\ st.inFlight[b].path = StepPath(k)
  BY OpenMeans
<1>2. a \in Int /\ b \in Int /\ k \in Int
  BY <1>1, SequenceIs, StepsAre DEF IsFold
<1>3. ~ (a < b) /\ ~ (b < a)
  BY <1>1, <1>2 DEF Stacked
<1> QED BY <1>2, <1>3

(* The span on top is open.                                                *)
LEMMA TopIsOpen ==
  ASSUME NEW st, IsFold(st), Stacked(st), NEW i \in Steps, TopIs(st, i)
  PROVE  /\ OpenIn(st, i)
         /\ InFlightAt(st, StepPath(i)) = {Len(st.inFlight)}
         /\ Latest(InFlightAt(st, StepPath(i))) = Len(st.inFlight)
         /\ \A k \in Steps : OpenIn(st, k) => i <= k
         /\ RipeIn(st, i) <=> IsHistory(st.inFlight[Len(st.inFlight)])
PROOF
<1> DEFINE n == Len(st.inFlight)
<1>1. n \in DOMAIN st.inFlight /\ n \in Nat /\ DOMAIN st.inFlight = 1 .. n
  BY SequenceIs DEF IsFold, TopIs
<1>2. n \in InFlightAt(st, StepPath(i))
  BY <1>1, OpenMeans DEF TopIs
<1>3. InFlightAt(st, StepPath(i)) = {n}
  BY <1>2, SpanIsUnique
<1>4. Latest({n}) = n
  BY <1>1 DEF Latest
<1>5. ASSUME NEW k \in Steps, OpenIn(st, k) PROVE i <= k
  <2>1. PICK a \in DOMAIN st.inFlight : st.inFlight[a].path = StepPath(k)
    BY <1>5, OpenMeans DEF OpenIn
  <2>2. a \in 1 .. n /\ i \in Int /\ k \in Int
    BY <1>1, StepsAre
  <2>3. CASE a = n
    BY <2>1, <2>2, <2>3, PathsDiffer DEF TopIs
  <2>4. CASE a < n
    BY <1>1, <2>1, <2>2, <2>4 DEF Stacked, TopIs
  <2> QED BY <1>1, <2>2, <2>3, <2>4
<1> QED BY <1>2, <1>3, <1>4, <1>5 DEF OpenIn, RipeIn

(* What is open with nothing open before it is on top.                     *)
LEMMA FirstOpenIsTop ==
  ASSUME NEW st, IsFold(st), Stacked(st), NEW i \in Steps, OpenIn(st, i),
         \A k \in Steps : OpenIn(st, k) => i <= k
  PROVE  TopIs(st, i)
PROOF
<1> DEFINE n == Len(st.inFlight)
<1>1. PICK a \in DOMAIN st.inFlight : st.inFlight[a].path = StepPath(i)
  BY OpenMeans DEF OpenIn
<1>2. st.inFlight # << >> /\ n \in DOMAIN st.inFlight /\ DOMAIN st.inFlight = 1 .. n
  BY <1>1, SequenceIs DEF IsFold
<1>3. PICK k \in Steps : st.inFlight[n].path = StepPath(k)
  BY <1>2 DEF Stacked
<1>4. OpenIn(st, k)
  BY <1>2, <1>3, OpenMeans DEF OpenIn
<1>5. i <= k /\ a \in 1 .. n /\ i \in Int /\ k \in Int
  BY <1>1, <1>2, <1>4, StepsAre
<1>6. CASE a = n
  BY <1>1, <1>2, <1>6 DEF TopIs
<1>7. CASE a < n
  <2>1. i > k
    BY <1>1, <1>2, <1>3, <1>7 DEF Stacked
  <2> QED BY <1>5, <2>1
<1> QED BY <1>5, <1>6, <1>7

(* With no span there is no open step.                                     *)
LEMMA NoneOpen ==
  ASSUME NEW st, IsFold(st), Stacked(st), \A k \in Steps : ~OpenIn(st, k)
  PROVE  st.inFlight = << >>
PROOF
<1> SUFFICES ASSUME st.inFlight # << >> PROVE FALSE
  OBVIOUS
<1>1. Len(st.inFlight) \in DOMAIN st.inFlight
  BY SequenceIs DEF IsFold
<1>2. PICK k \in Steps : st.inFlight[Len(st.inFlight)].path = StepPath(k)
  BY <1>1 DEF Stacked
<1> QED BY <1>1, <1>2, OpenMeans DEF OpenIn

-----------------------------------------------------------------------------
(* One entry seen in these terms.                                          *)
SameSpans(n, st) ==
  /\ Stacked(n)
  /\ \A k \in Steps : /\ OpenIn(n, k) <=> OpenIn(st, k)
                      /\ TopIs(n, k) <=> TopIs(st, k)
SameRecords(n, st) ==
  \A k \in Steps : /\ RecordedIn(n, k) <=> RecordedIn(st, k)
                   /\ AdoptableIn(n, k) <=> AdoptableIn(st, k)

(* An entry that leaves spans and records leaves what they mean.           *)
LEMMA KeptEffect ==
  ASSUME NEW st, NEW n, Stacked(st), Keeps(n, st)
  PROVE  /\ SameSpans(n, st) /\ SameRecords(n, st)
         /\ \A k \in Steps : RipeIn(n, k) <=> RipeIn(st, k)
PROOF
BY DEF Keeps, SameSpans, SameRecords, Stacked, OpenIn, TopIs, RipeIn, RecordedIn,
       AdoptableIn, InFlightAt, CompletedAt

(* The same records mean the same.                                         *)
LEMMA SameCompleted ==
  ASSUME NEW st, NEW n, n.completed = st.completed
  PROVE  SameRecords(n, st)
PROOF
BY DEF SameRecords, RecordedIn, AdoptableIn, CompletedAt

(* What opening a span means for every step.                               *)
LEMMA EnteredEffect ==
  ASSUME NEW st, IsFold(st), st.started, Stacked(st),
         NEW i \in Steps, \A k \in Steps : OpenIn(st, k) => i < k,
         NEW ev, ev.type = "stepEntered", ev.path = StepPath(i)
  PROVE  LET n == FoldStep(st, ev)
         IN  /\ Stacked(n) /\ TopIs(n, i) /\ SameRecords(n, st)
             /\ \A k \in Steps : /\ OpenIn(n, k) <=> OpenIn(st, k) \/ k = i
                                 /\ RipeIn(n, k) <=> RipeIn(st, k) \/ (k = i /\ ev.resolved)
PROOF
<1> DEFINE n == FoldStep(st, ev)
<1> DEFINE old == st.inFlight
<1> DEFINE new == n.inFlight
<1> DEFINE len == Len(old)
<1>1. PICK span : /\ new = Append(old, span)
                  /\ span.path = ev.path /\ span.resolved = ev.resolved
                  /\ span.attempts = << >> /\ span.verdict = NoVerdict
  BY StepEnteredIs
<1>2. SameRecords(n, st)
  BY StepEnteredIs, SameCompleted
<1>3. /\ new # << >> /\ len \in Nat /\ Len(new) = len + 1
      /\ DOMAIN old = 1 .. len /\ DOMAIN new = 1 .. len + 1
      /\ \A a \in DOMAIN old : new[a] = old[a]
      /\ new[len + 1] = span
  BY <1>1, AppendIs DEF IsFold
<1>4. TopIs(n, i)
  BY <1>1, <1>3 DEF TopIs
<1>5. IsHistory(span) <=> ev.resolved
  BY <1>1 DEF IsHistory
<1> HIDE DEF n, new
<1>6. \A a \in DOMAIN old : \A k \in Steps : old[a].path = StepPath(k) => i < k
  BY OpenMeans DEF OpenIn
<1>7. Stacked(n)
  <2>1. ASSUME NEW a \in DOMAIN new PROVE \E k \in Steps : new[a].path = StepPath(k)
    <3>1. a \in DOMAIN old \/ a = len + 1
      BY <1>3
    <3> QED BY <1>1, <1>3, <3>1 DEF Stacked
  <2>2. ASSUME NEW a \in DOMAIN new, NEW b \in DOMAIN new, NEW j \in Steps, NEW k \in Steps,
               new[a].path = StepPath(j), new[b].path = StepPath(k), a < b
        PROVE  j > k
    <3>1. a \in DOMAIN old
      BY <1>3, <2>2
    <3>2. CASE b \in DOMAIN old
      BY <1>3, <2>2, <3>1, <3>2 DEF Stacked
    <3>3. CASE b = len + 1
      <4>1. k = i
        BY <1>1, <1>3, <2>2, <3>3, PathsDiffer
      <4>2. i < j
        BY <1>3, <1>6, <2>2, <3>1
      <4> QED BY <4>1, <4>2, StepsAre
    <3> QED BY <1>3, <3>2, <3>3
  <2> QED BY <2>1, <2>2 DEF Stacked, new
<1>8. ASSUME NEW k \in Steps
      PROVE  /\ OpenIn(n, k) <=> OpenIn(st, k) \/ k = i
             /\ RipeIn(n, k) <=> RipeIn(st, k) \/ (k = i /\ ev.resolved)
  <2> DEFINE A == InFlightAt(st, StepPath(k))
  <2> DEFINE B == InFlightAt(n, StepPath(k))
  <2>1. A = { a \in DOMAIN old : old[a].path = StepPath(k) }
        /\ B = { a \in DOMAIN new : new[a].path = StepPath(k) }
    BY <1>7, OpenMeans DEF new
  <2>9. /\ OpenIn(n, k) <=> B # { }
        /\ OpenIn(st, k) <=> A # { }
        /\ RipeIn(n, k) <=> \E a \in B : IsHistory(new[a])
        /\ RipeIn(st, k) <=> \E a \in A : IsHistory(old[a])
    BY DEF OpenIn, RipeIn, new
  <2> HIDE DEF A, B, old, len
  <2>2. CASE k = i
    <3>1. B = A \union {len + 1}
      BY <1>1, <1>3, <2>1, <2>2
    <3>2. \A a \in A : new[a] = old[a]
      BY <1>3, <2>1
    <3> QED BY <1>3, <1>5, <2>2, <2>9, <3>1, <3>2
  <2>3. CASE k # i
    <3>1. StepPath(k) # StepPath(i)
      BY <2>3, PathsDiffer
    <3>2. B = A
      BY <1>1, <1>3, <2>1, <3>1
    <3>3. \A a \in A : new[a] = old[a]
      BY <1>3, <2>1
    <3> QED BY <2>3, <2>9, <3>2, <3>3
  <2> QED BY <2>2, <2>3
<1> QED BY <1>2, <1>4, <1>7, <1>8 DEF n

(* A span replaced by one of the same step.                                *)
LEMMA TouchedEffect ==
  ASSUME NEW st, IsFold(st), Stacked(st), NEW i \in Steps, TopIs(st, i),
         NEW n, NEW span, n.inFlight = Put(st.inFlight, Len(st.inFlight), span),
         span.path = st.inFlight[Len(st.inFlight)].path, IsHistory(span)
  PROVE  /\ SameSpans(n, st)
         /\ \A k \in Steps : RipeIn(n, k) <=> RipeIn(st, k) \/ k = i
PROOF
<1> DEFINE old == st.inFlight
<1> DEFINE new == n.inFlight
<1> DEFINE len == Len(old)
<1>1. /\ len \in DOMAIN old /\ new # << >> /\ old # << >>
      /\ Len(new) = len /\ DOMAIN new = DOMAIN old
      /\ \A a \in DOMAIN old : new[a] = IF a = len THEN span ELSE old[a]
  BY SequenceIs, PutIs DEF IsFold, TopIs, Put
<1>2. \A a \in DOMAIN old : new[a].path = old[a].path
  BY <1>1
<1>3. Stacked(n)
  BY <1>1, <1>2 DEF Stacked
<1>4. ASSUME NEW k \in Steps
      PROVE  InFlightAt(n, StepPath(k)) = InFlightAt(st, StepPath(k))
  BY <1>1, <1>2 DEF InFlightAt
<1>5. SameSpans(n, st)
  BY <1>1, <1>2, <1>3, <1>4 DEF SameSpans, OpenIn, TopIs
<1>6. ASSUME NEW k \in Steps
      PROVE  RipeIn(n, k) <=> RipeIn(st, k) \/ k = i
  <2>1. \A a \in InFlightAt(st, StepPath(k)) : a \in DOMAIN old
    BY DEF InFlightAt
  <2>2. InFlightAt(st, StepPath(i)) = {len}
    BY TopIsOpen
  <2>3. CASE k = i
    BY <1>1, <1>4, <2>2, <2>3 DEF RipeIn
  <2>4. CASE k # i
    <3>1. len \notin InFlightAt(st, StepPath(k))
      BY <2>4, OpenMeans, PathsDiffer DEF TopIs
    <3> QED BY <1>1, <1>4, <2>1, <2>4, <3>1 DEF RipeIn
  <2> QED BY <2>3, <2>4
<1> QED BY <1>5, <1>6

(* What settling in the top span means for every step.                     *)
LEMMA SettledEffect ==
  ASSUME NEW st, IsFold(st), st.started, Stacked(st), NEW i \in Steps, TopIs(st, i),
         NEW ev, ev.type = "actionSettled"
  PROVE  LET n == FoldStep(st, ev)
         IN  /\ SameSpans(n, st) /\ SameRecords(n, st)
             /\ \A k \in Steps : RipeIn(n, k) <=> RipeIn(st, k) \/ k = i
PROOF
<1> DEFINE n == FoldStep(st, ev)
<1>1. st.inFlight # << >>
  BY DEF TopIs
<1>2. PICK span : /\ n.inFlight = Put(st.inFlight, Len(st.inFlight), span)
                  /\ span.path = st.inFlight[Len(st.inFlight)].path
                  /\ span.attempts # << >>
  BY <1>1, ActionSettledIs
<1>3. SameRecords(n, st)
  BY <1>1, ActionSettledIs, SameCompleted
<1>4. IsHistory(span)
  BY <1>2 DEF IsHistory
<1> HIDE DEF n
<1> QED BY <1>2, <1>3, <1>4, TouchedEffect DEF n

(* What ruling on a span means for every step.                             *)
LEMMA VerdictEffect ==
  ASSUME NEW st, IsFold(st), st.started, Stacked(st), NEW i \in Steps, TopIs(st, i),
         NEW ev, ev.type = "verdictRecorded", ev.path = StepPath(i), ev.verdict # NoVerdict
  PROVE  LET n == FoldStep(st, ev)
         IN  /\ SameSpans(n, st) /\ SameRecords(n, st)
             /\ \A k \in Steps : RipeIn(n, k) <=> RipeIn(st, k) \/ k = i
PROOF
<1> DEFINE n == FoldStep(st, ev)
<1> DEFINE k == Len(st.inFlight)
<1>1. k \in InFlightAt(st, ev.path) /\ k = Latest(InFlightAt(st, ev.path))
  BY TopIsOpen
<1>2. PICK span : /\ n.inFlight = Put(st.inFlight, k, span)
                  /\ span.path = st.inFlight[k].path
                  /\ span.verdict = ev.verdict
  BY <1>1, VerdictRecordedIs
<1>3. SameRecords(n, st)
  BY <1>1, VerdictRecordedIs, SameCompleted
<1>4. IsHistory(span)
  BY <1>2 DEF IsHistory
<1> HIDE DEF n
<1> QED BY <1>2, <1>3, <1>4, TouchedEffect DEF n

(* What closing the top span means for every step.                         *)
LEMMA ExitedEffect ==
  ASSUME NEW st, IsFold(st), st.started, Stacked(st), NEW i \in Steps, TopIs(st, i),
         NEW ev, ev.type = "stepExited"
  PROVE  LET n == FoldStep(st, ev)
         IN  /\ Stacked(n)
             /\ \A k \in Steps :
                  /\ OpenIn(n, k) <=> OpenIn(st, k) /\ k # i
                  /\ RipeIn(n, k) <=> RipeIn(st, k) /\ k # i
                  /\ RecordedIn(n, k) <=> RecordedIn(st, k) \/ k = i
                  /\ AdoptableIn(n, k) <=> IF k = i THEN RipeIn(st, i)
                                           ELSE AdoptableIn(st, k)
PROOF
<1> DEFINE n == FoldStep(st, ev)
<1> DEFINE old == st.inFlight
<1> DEFINE new == n.inFlight
<1> DEFINE len == Len(old)
<1>1. old # << >>
  BY DEF TopIs
<1>2. PICK record : /\ n.completed = Append(st.completed, record)
                    /\ record.path = old[len].path /\ record.verdict = old[len].verdict
                    /\ record.resolved = old[len].resolved
                    /\ record.attempts = old[len].attempts
  BY <1>1, StepExitedIs
<1>3. new = Front(old)
  BY <1>1, StepExitedIs
<1>4. /\ len \in Nat \ {0} /\ DOMAIN old = 1 .. len /\ DOMAIN new = 1 .. len - 1
      /\ \A a \in DOMAIN new : new[a] = old[a]
  BY <1>1, <1>3, FrontIs DEF IsFold
<1> HIDE DEF n
<1>5. \A a \in DOMAIN new : a \in DOMAIN old /\ a < len
  BY <1>4
<1>6. Stacked(n)
  BY <1>4, <1>5 DEF Stacked
<1>7. ASSUME NEW k \in Steps
      PROVE  /\ OpenIn(n, k) <=> OpenIn(st, k) /\ k # i
             /\ RipeIn(n, k) <=> RipeIn(st, k) /\ k # i
  <2> DEFINE A == InFlightAt(st, StepPath(k))
  <2> DEFINE B == InFlightAt(n, StepPath(k))
  <2>1. /\ A = { a \in DOMAIN old : old[a].path = StepPath(k) }
        /\ B = { a \in DOMAIN new : new[a].path = StepPath(k) }
    BY <1>6, OpenMeans
  <2>2. B = A \ {len}
    BY <1>4, <2>1
  <2>3. CASE k = i
    <3>1. A = {len}
      BY <2>3, TopIsOpen
    <3> QED BY <2>2, <2>3, <3>1 DEF OpenIn, RipeIn
  <2>4. CASE k # i
    <3>1. len \notin A
      BY <2>1, <2>4, PathsDiffer DEF TopIs
    <3>2. B = A /\ \A a \in A : new[a] = old[a]
      BY <1>4, <2>1, <2>2, <3>1
    <3> HIDE DEF A, B
    <3> QED BY <2>4, <3>2 DEF OpenIn, RipeIn, A, B
  <2> QED BY <2>3, <2>4
<1>8. ASSUME NEW k \in Steps
      PROVE  /\ RecordedIn(n, k) <=> RecordedIn(st, k) \/ k = i
             /\ AdoptableIn(n, k) <=> IF k = i THEN RipeIn(st, i) ELSE AdoptableIn(st, k)
  <2> DEFINE done == st.completed
  <2> DEFINE A == CompletedAt(st, StepPath(k))
  <2> DEFINE B == CompletedAt(n, StepPath(k))
  <2>1. /\ IsSequence(done) /\ Len(done) \in Nat /\ DOMAIN done = 1 .. Len(done)
        /\ DOMAIN n.completed = 1 .. Len(done) + 1
        /\ \A a \in DOMAIN done : n.completed[a] = done[a]
        /\ n.completed[Len(done) + 1] = record
    BY <1>2, AppendIs DEF IsFold
  <2>2. SameInstance(record.path, StepPath(k)) <=> k = i
    BY <1>2, SameStep DEF TopIs
  <2>3. A \in SUBSET (1 .. Len(done))
    BY <2>1 DEF CompletedAt
  <2>4. CASE k = i
    <3>1. B = A \union {Len(done) + 1}
      BY <2>1, <2>2, <2>4 DEF CompletedAt
    <3>2. Latest(B) = Len(done) + 1
      BY <2>1, <2>3, <3>1 DEF Latest
    <3>3. IsHistory(record) <=> IsHistory(old[len])
      BY <1>2 DEF IsHistory
    <3>4. RipeIn(st, i) <=> IsHistory(old[len])
      BY TopIsOpen
    <3> QED BY <2>1, <2>4, <3>1, <3>2, <3>3, <3>4 DEF RecordedIn, AdoptableIn
  <2>5. CASE k # i
    <3>1. B = A
      BY <2>1, <2>2, <2>5 DEF CompletedAt
    <3>2. A # { } => Latest(A) \in A
      BY <2>1, <2>3, LatestIs
    <3>3. A # { } => n.completed[Latest(A)] = done[Latest(A)]
      BY <2>1, <2>3, <3>2
    <3> QED BY <2>5, <3>1, <3>3 DEF RecordedIn, AdoptableIn
  <2> QED BY <2>4, <2>5
<1> QED BY <1>6, <1>7, <1>8 DEF n

-----------------------------------------------------------------------------

(* Acts of a process inside a step, and all of them.                       *)
Inside == {"gate", "act", "dispatch", "wait", "adoptSettle", "judge", "confirm",
           "record", "consult", "ask", "supersede", "exit"}
Acts == Inside \union {"down", "walk", "pairs", "finish", "suspend", "adjudicate"}

(* An entry of a type, at a path, is appended and folded.                  *)
Wrote(type, path, ev) == Write(ev) /\ ev.type = type /\ ev.path = path
Silent == UNCHANGED << log, ck, dev >>

-----------------------------------------------------------------------------
(* What the actions do, in those terms.                                    *)
LEMMA EnterStepDoes ==
  ASSUME IsProc(proc), EnterStep
  PROVE  /\ proc.at = "walk" /\ proc.i <= Len(Flow) /\ ~Adoptable(proc.i)
         /\ IsProc(proc') /\ proc'.i = proc.i /\ proc'.base = proc.base
         /\ proc'.site = proc.site /\ proc'.call = proc.call
         /\ proc'.work = IF proc.site = proc.i THEN "none" ELSE proc.work
         /\ \/ /\ proc'.at = "record" /\ proc'.plain /\ proc'.status = "fail"
               /\ WorkHere = "none"
            \/ WorkHere = "adopt" /\ proc'.at = "adoptSettle"
            \/ WorkHere = "replay" /\ proc'.at = "act"
            \/ WorkHere = "confirm" /\ proc'.at = "confirm"
            \/ /\ WorkHere = "abortRuled"
               /\ proc'.at = "exit" /\ proc'.exitAs = "aborted" /\ proc'.ctl = "abort"
            \/ /\ ResumesAtRuling /\ proc'.at \in {"exit", "consult"}
               /\ proc'.at = "exit" => /\ proc'.exitAs = "judged"
                                       /\ proc'.ctl \in {"continue", "halt"}
            \/ /\ WorkHere \notin {"adopt", "replay", "confirm", "abortRuled"}
               /\ proc'.at = "gate"
         /\ proc'.at # "record" => (proc'.plain <=> proc.plain)
         /\ \/ OpenSpan(proc.i) /\ UNCHANGED << log, ck >>
            \/ /\ ~OpenSpan(proc.i)
               /\ \E ev : /\ Wrote("stepEntered", Here, ev)
                          /\ ev.resolved <=> proc'.at # "record"
         /\ UNCHANGED << dev, late, budget >>
PROOF
<1> DEFINE unresolved == This.badArgs /\ WorkHere = "none"
<1> DEFINE taken == [proc EXCEPT !.work = IF proc.site = proc.i THEN "none" ELSE @]
<1> DEFINE plain == [Negative(taken, "fail", "none") EXCEPT !.plain = TRUE]
<1>1. /\ IsProc(taken) /\ taken.i = proc.i /\ taken.base = proc.base
      /\ taken.site = proc.site /\ taken.call = proc.call
      /\ taken.work = IF proc.site = proc.i THEN "none" ELSE proc.work
      /\ taken.plain = proc.plain
  BY DEF IsProc, ProcFields
<1>2. /\ proc' = IF unresolved THEN plain ELSE AfterEntry(taken)
      /\ IF OpenSpan(proc.i) THEN UNCHANGED << log, ck >>
         ELSE Write([type |-> "stepEntered", path |-> Here, asVar |-> NoVar,
                     resolved |-> ~unresolved])
      /\ proc.at = "walk" /\ proc.i <= Len(Flow) /\ ~Adoptable(proc.i)
      /\ UNCHANGED << dev, late, budget >>
  BY DEF EnterStep
<1>3. unresolved \in BOOLEAN
  OBVIOUS
<1> HIDE DEF taken, plain
<1>4. /\ SameRound(Negative(taken, "fail", "none"), taken)
      /\ Negative(taken, "fail", "none").at = "record"
      /\ Negative(taken, "fail", "none").status = "fail"
  BY <1>1, NegativeIs
<1>5. /\ IsProc(plain) /\ plain.i = proc.i /\ plain.base = proc.base
      /\ plain.site = proc.site /\ plain.call = proc.call /\ plain.work = taken.work
      /\ plain.at = "record" /\ plain.plain /\ plain.status = "fail"
  BY <1>1, <1>4 DEF plain, IsProc, ProcFields, SameRound
<1> DEFINE q == AfterEntry(taken)
<1> DEFINE cleared == [taken EXCEPT !.class = "none"]
<1> DEFINE ruled == Ruled(cleared, RulingOn(Prefix, taken.i))
<1>6. SameRound(cleared, taken)
  BY <1>1 DEF SameRound, IsProc, ProcFields
<1> HIDE DEF cleared
<1>7. /\ SameRound(ruled, taken) /\ ruled.at \in {"exit", "consult"}
      /\ ruled.at = "exit" => ruled.exitAs = "judged" /\ ruled.ctl \in {"continue", "halt"}
  BY <1>6, RuledIs DEF SameRound
<1>8. q = CASE WorkHere = "adopt"      -> Goto(taken, "adoptSettle")
            [] WorkHere = "replay"     -> Goto(taken, "act")
            [] WorkHere = "confirm"    -> Goto(taken, "confirm")
            [] WorkHere = "abortRuled" -> Leave(taken, "aborted", "abort")
            [] OTHER -> IF ResumesAtRuling THEN ruled ELSE Goto(taken, "gate")
  BY DEF AfterEntry, cleared
<1> HIDE DEF q, ruled
<1>9. /\ SameRound(q, taken)
      /\ \/ WorkHere = "adopt" /\ q.at = "adoptSettle"
         \/ WorkHere = "replay" /\ q.at = "act"
         \/ WorkHere = "confirm" /\ q.at = "confirm"
         \/ /\ WorkHere = "abortRuled"
            /\ q.at = "exit" /\ q.exitAs = "aborted" /\ q.ctl = "abort"
         \/ /\ ResumesAtRuling /\ q.at \in {"exit", "consult"}
            /\ q.at = "exit" => q.exitAs = "judged" /\ q.ctl \in {"continue", "halt"}
         \/ /\ WorkHere \notin {"adopt", "replay", "confirm", "abortRuled"}
            /\ q.at = "gate"
  BY <1>1, <1>7, <1>8, GotoIs, LeaveIs
<1>10. q.at # "record"
  BY <1>9
<1>11. OpenSpan(proc.i) \/ \E ev : /\ Wrote("stepEntered", Here, ev)
                                   /\ ev.resolved <=> ~unresolved
  <2> SUFFICES ASSUME ~OpenSpan(proc.i)
               PROVE  \E ev : /\ Wrote("stepEntered", Here, ev)
                              /\ ev.resolved <=> ~unresolved
    OBVIOUS
  <2> DEFINE ev == [type |-> "stepEntered", path |-> Here, asVar |-> NoVar,
                    resolved |-> ~unresolved]
  <2>1. Write(ev) /\ ev.type = "stepEntered" /\ ev.path = Here
    BY <1>2
  <2>2. ev.resolved <=> ~unresolved
    OBVIOUS
  <2> HIDE DEF ev, unresolved
  <2> QED BY <2>1, <2>2 DEF Wrote
<1>12. CASE unresolved
  <2>1. proc' = plain
    BY <1>2, <1>12
  <2>2. WorkHere = "none"
    BY <1>12
  <2> HIDE DEF unresolved
  <2> QED BY <1>1, <1>2, <1>5, <1>11, <1>12, <2>1, <2>2
<1>13. CASE ~unresolved
  <2>1. proc' = q
    BY <1>2, <1>13 DEF q
  <2>2. /\ IsProc(proc') /\ proc'.i = proc.i /\ proc'.base = proc.base
        /\ proc'.site = proc.site /\ proc'.call = proc.call
        /\ proc'.work = IF proc.site = proc.i THEN "none" ELSE proc.work
        /\ proc'.plain = proc.plain
    BY <1>1, <1>9, <2>1 DEF SameRound
  <2> HIDE DEF unresolved
  <2> QED BY <1>2, <1>9, <1>10, <1>11, <1>13, <2>1, <2>2
<1> QED BY <1>12, <1>13

Supervised(i) == Supervise = "all" \/ (Supervise = "mutating" /\ Flow[i].mutating)

(* A process that leaves its step, and how; one that goes on inside it.    *)
Leaves(state, ctls) == proc'.at = "exit" /\ proc'.exitAs = state /\ proc'.ctl \in ctls
Within == SameRound(proc', proc) /\ UNCHANGED << late, budget >>

(* The supervision gate.                                                   *)
LEMMA GateDoes ==
  ASSUME IsProc(proc), GateSupervision
  PROVE  /\ proc.at = "gate" /\ Within
         /\ \/ /\ RequestsAt(Prefix, Here) # { } /\ Silent
               /\ LET answer == AnswerTo(Prefix, Governing(Prefix, Here).req)
                  IN  \/ answer = "proceed" /\ proc'.at = "act"
                      \/ answer = "abort" /\ Leaves("aborted", {"abort"})
                      \/ proc'.at = "suspend"
            \/ /\ RequestsAt(Prefix, Here) = { } /\ Supervised(proc.i)
               /\ \E ev : /\ Wrote("humanRequested", Here, ev)
                          /\ ev = Request(Here, "supervision", 0, FALSE,
                                          {"proceed", "abort", "suspend"})
               /\ UNCHANGED dev /\ proc'.at = "suspend"
            \/ /\ RequestsAt(Prefix, Here) = { } /\ ~Supervised(proc.i)
               /\ Silent /\ proc'.at = "act"
PROOF
<1> DEFINE answer == AnswerTo(Prefix, Governing(Prefix, Here).req)
<1> DEFINE ruled == GateRuled(proc, answer)
<1> HIDE DEF answer
<1>1. /\ SameRound(ruled, proc)
      /\ \/ answer = "proceed" /\ ruled.at = "act"
         \/ /\ answer = "abort"
            /\ ruled.at = "exit" /\ ruled.exitAs = "aborted" /\ ruled.ctl = "abort"
         \/ ruled.at = "suspend"
  BY GotoIs, LeaveIs, ChainHeadIs DEF GateRuled
<1> HIDE DEF ruled
<1>2. /\ SameRound(Goto(proc, "suspend"), proc) /\ Goto(proc, "suspend").at = "suspend"
      /\ SameRound(ChainHead(proc), proc) /\ ChainHead(proc).at = "act"
  BY GotoIs, ChainHeadIs
<1> DEFINE ev == Request(Here, "supervision", 0, FALSE, {"proceed", "abort", "suspend"})
<1>3. ev.type = "humanRequested" /\ ev.path = Here
  BY DEF Request
<1> HIDE DEF ev
<1>4. CASE /\ RequestsAt(Prefix, Here) # { } /\ proc' = ruled /\ UNCHANGED << log, ck >>
  BY <1>1, <1>4 DEF GateSupervision, Within, Silent, Leaves, answer
<1>5. CASE /\ RequestsAt(Prefix, Here) = { }
           /\ Supervise = "all" \/ (Supervise = "mutating" /\ This.mutating)
           /\ Write(ev) /\ proc' = Goto(proc, "suspend")
  <2>1. Supervised(proc.i)
    BY <1>5 DEF Supervised, This
  <2>2. Wrote("humanRequested", Here, ev)
    BY <1>3, <1>5 DEF Wrote
  <2>3. proc.at = "gate" /\ UNCHANGED << dev, late, budget >>
    BY DEF GateSupervision
  <2> QED BY <1>2, <1>5, <2>1, <2>2, <2>3 DEF Within, ev
<1>6. CASE /\ RequestsAt(Prefix, Here) = { }
           /\ Supervise = "none" \/ (Supervise = "mutating" /\ ~This.mutating)
           /\ proc' = ChainHead(proc) /\ UNCHANGED << log, ck >>
  <2>1. ~Supervised(proc.i)
    BY <1>6 DEF Supervised, This
  <2>2. proc.at = "gate" /\ UNCHANGED << dev, late, budget >>
    BY DEF GateSupervision
  <2> QED BY <1>2, <1>6, <2>1, <2>2 DEF Within, Silent
<1> QED BY <1>4, <1>5, <1>6 DEF GateSupervision, ruled, answer, ev

(* The intent of a call.                                                   *)
LEMMA WriteIntentDoes ==
  ASSUME IsProc(proc), WriteIntent
  PROVE  /\ proc.at = "act"
         /\ \E ev : /\ Wrote("actionIntent", Here, ev)
                    /\ ev.call = NextCall /\ ev.attempt = NextAttempt(proc.i)
         /\ \E d : dev' = Append(dev, d) /\ d.step = proc.i /\ d.fate = "unsent"
         /\ IsProc(proc') /\ proc'.i = proc.i /\ proc'.base = proc.base
         /\ proc'.work = proc.work /\ proc'.site = proc.site
         /\ proc'.plain = proc.plain
         /\ proc'.at = "dispatch" /\ proc'.call = NextCall
         /\ UNCHANGED << late, budget >>
PROOF
<1> DEFINE ev == [type |-> "actionIntent", path |-> Here, call |-> NextCall,
                  chain |-> proc.pos, attempt |-> NextAttempt(proc.i)]
<1> DEFINE d == [step |-> proc.i, fate |-> "unsent", outcome |-> "none"]
<1>1. /\ ev.type = "actionIntent" /\ ev.path = Here
      /\ ev.call = NextCall /\ ev.attempt = NextAttempt(proc.i)
      /\ d.step = proc.i /\ d.fate = "unsent"
  OBVIOUS
<1> HIDE DEF ev, d
<1>2. /\ proc.at = "act" /\ Write(ev) /\ dev' = Append(dev, d)
      /\ proc' = [proc EXCEPT !.at = "dispatch", !.call = NextCall, !.tries = @ + 1]
      /\ UNCHANGED << late, budget >>
  BY DEF WriteIntent, ev, d
<1>3. /\ IsProc(proc') /\ proc'.i = proc.i /\ proc'.base = proc.base
      /\ proc'.work = proc.work /\ proc'.site = proc.site
      /\ proc'.plain = proc.plain
      /\ proc'.at = "dispatch" /\ proc'.call = NextCall
  BY <1>2 DEF IsProc, ProcFields
<1> QED BY <1>1, <1>2, <1>3 DEF Wrote

(* The call leaves for the device.                                         *)
LEMMA DispatchDoes ==
  ASSUME IsProc(proc), Dispatch
  PROVE  /\ proc.at = "dispatch" /\ proc'.at = "wait" /\ Within
         /\ dev' = [dev EXCEPT ![proc.call].fate = "started"]
         /\ UNCHANGED << log, ck >>
PROOF
BY GotoIs DEF Dispatch, Within

(* A settlement, of a call of this process or of one reconciled.           *)
LEMMA SettleDoes ==
  ASSUME IsProc(proc), Settle \/ AdoptTerminal
  PROVE  /\ proc.at \in {"wait", "adoptSettle"} /\ Within
         /\ proc.at = "wait" => dev[proc.call].fate = "done"
         /\ \E ev : Wrote("actionSettled", Here, ev) /\ ev.call = proc.call
         /\ UNCHANGED dev
         /\ \/ proc'.at \in {"judge", "act", "confirm"}
            \/ proc'.at = "record" /\ proc'.status \in {"fail", "unknown"}
            \/ Leaves("judged", {"continue"})
            \/ Leaves("aborted", {"abort"})
PROOF
<1> DEFINE ev == [type |-> "actionSettled", path |-> Here, call |-> proc.call,
                  outcome |-> dev[proc.call].outcome]
<1> DEFINE again == [proc EXCEPT !.tries = 1]
<1>1. ev.type = "actionSettled" /\ ev.path = Here /\ ev.call = proc.call
  OBVIOUS
<1> HIDE DEF ev
<1>2. SameRound(again, proc) /\ SameRound(proc, proc)
  BY DEF SameRound, IsProc, ProcFields
<1> HIDE DEF again
<1>3. PICK p : /\ SameRound(p, proc) /\ IsProc(p)
               /\ proc' = Disposed(p, This, dev[proc.call].outcome)
  BY <1>2 DEF Settle, AdoptTerminal, again, SameRound
<1>4. /\ SameRound(proc', proc)
      /\ \/ proc'.at \in {"judge", "act", "confirm"}
         \/ proc'.at = "record" /\ proc'.status \in {"fail", "unknown"}
         \/ Leaves("judged", {"continue"})
         \/ Leaves("aborted", {"abort"})
  <2> DEFINE q == Disposed(p, This, dev[proc.call].outcome)
  <2>1. /\ SameRound(q, p)
        /\ q.at \in {"judge", "exit", "act", "confirm", "record"}
        /\ q.at = "exit" => \/ q.exitAs = "judged" /\ q.ctl = "continue"
                            \/ q.exitAs = "aborted" /\ q.ctl = "abort"
        /\ q.at = "record" => q.status \in {"fail", "unknown"}
    BY <1>3, DisposedIs
  <2> HIDE DEF q
  <2>2. proc' = q
    BY <1>3 DEF q
  <2> QED BY <1>3, <2>1, <2>2 DEF Leaves, SameRound
<1>5. /\ proc.at \in {"wait", "adoptSettle"} /\ Write(ev)
      /\ proc.at = "wait" => dev[proc.call].fate = "done"
      /\ UNCHANGED << dev, late, budget >>
  BY DEF Settle, AdoptTerminal, ev
<1> QED BY <1>1, <1>4, <1>5 DEF Within, Wrote

(* A verdict, of an assertion fold, of a negative, or of a human.          *)
LEMMA VerdictDoes ==
  ASSUME IsProc(proc),
         RecordNegative \/ Supersede \/ \E v \in Judgments : Judge(v)
  PROVE  /\ proc.at \in {"judge", "confirm", "record", "supersede"} /\ Within
         /\ \E ev : /\ Wrote("verdictRecorded", Here, ev)
                    /\ IF proc.at \in {"judge", "confirm"} THEN ev.verdict \in Statuses
                       ELSE ev.verdict = proc.status
         /\ UNCHANGED dev
         /\ \/ proc'.at = "consult" /\ ~proc.plain
            \/ Leaves("judged", {"continue", "halt"})
PROOF
<1>1. ASSUME NEW p, NEW v, SameRound(p, proc), proc' = Ruled(p, v)
      PROVE  /\ SameRound(proc', proc)
             /\ \/ proc'.at = "consult" /\ ~proc.plain
                \/ Leaves("judged", {"continue", "halt"})
  <2> DEFINE q == Ruled(p, v)
  <2>1. /\ SameRound(q, p) /\ q.at \in {"exit", "consult"}
        /\ q.at = "exit" => q.exitAs = "judged" /\ q.ctl \in {"continue", "halt"}
        /\ q.at = "consult" => ~p.plain
    BY <1>1, RuledIs DEF SameRound
  <2> HIDE DEF q
  <2>2. proc' = q
    BY <1>1 DEF q
  <2> QED BY <1>1, <2>1, <2>2 DEF Leaves, SameRound
<1>2. ASSUME NEW v, RecordVerdict(v)
      PROVE  \E ev : Wrote("verdictRecorded", Here, ev) /\ ev.verdict = v
  <2> DEFINE ev == [type |-> "verdictRecorded", path |-> Here, verdict |-> v,
                    evidence |-> << >>]
  <2>1. Write(ev) /\ ev.type = "verdictRecorded" /\ ev.path = Here /\ ev.verdict = v
    BY <1>2 DEF RecordVerdict
  <2> HIDE DEF ev
  <2> QED BY <2>1 DEF Wrote
<1>3. CASE RecordNegative
  <2>1. /\ SameRound(proc, proc) /\ proc' = Ruled(proc, proc.status)
        /\ proc.at = "record" /\ RecordVerdict(proc.status)
        /\ UNCHANGED << dev, late, budget >>
    BY <1>3 DEF RecordNegative, SameRound
  <2> QED BY <1>1, <1>2, <2>1 DEF Within
<1>4. CASE Supersede
  <2> DEFINE s == Seeded(proc, proc.status)
  <2> DEFINE q == Leave(s, "judged", HalfOpen(proc))
  <2>1. SameRound(s, proc) /\ IsProc(s)
    BY SeededIs DEF SameRound
  <2> HIDE DEF s
  <2>2. SameRound(q, s) /\ q.at = "exit" /\ q.exitAs = "judged"
        /\ q.ctl \in {"continue", "halt"}
    BY <2>1, LeaveIs DEF HalfOpen
  <2> HIDE DEF q
  <2>3. /\ proc' = q /\ proc.at = "supersede" /\ RecordVerdict(proc.status)
        /\ UNCHANGED << dev, late, budget >>
    BY <1>4 DEF Supersede, q, s
  <2> QED BY <1>2, <2>1, <2>2, <2>3 DEF Within, Leaves, SameRound
<1>5. ASSUME NEW v \in Judgments, Judge(v)
      PROVE  /\ proc.at \in {"judge", "confirm"} /\ Within /\ UNCHANGED dev
             /\ \E ev : /\ Wrote("verdictRecorded", Here, ev)
                        /\ ev.verdict \in Statuses
             /\ \/ proc'.at = "consult" /\ ~proc.plain
                \/ Leaves("judged", {"continue", "halt"})
  <2> DEFINE p == [proc EXCEPT !.class = "none"]
  <2>1. SameRound(p, proc)
    BY DEF SameRound, IsProc, ProcFields
  <2> HIDE DEF p
  <2>2. /\ proc' = Ruled(p, v) /\ RecordVerdict(v)
        /\ proc.at \in {"judge", "confirm"} /\ UNCHANGED << dev, late, budget >>
    BY <1>5 DEF Judge, p
  <2>3. v \in Statuses
    BY Marks
  <2> QED BY <1>1, <1>2, <2>1, <2>2, <2>3 DEF Within
<1> QED BY <1>3, <1>4, <1>5

(* The binding consulted is one of the step's or the flow's.               *)
LEMMA BindingIs ==
  ASSUME NEW p, p.i \in Steps, Matching(p) # { }
  PROVE  /\ BindingFor(p) \in HandlerBindings
         /\ BindingFor(p).hook = Hook(p)
         /\ BindingFor(p) \in BindingsOn(p.i, Hook(p))
PROOF
<1> DEFINE s == AllBindings(p.i)
<1>1. s \in Seq(HandlerBindings)
  BY FlowShape, ConcatProperties DEF AllBindings, Steps
<1>2. DOMAIN s = 1 .. Len(s) /\ \A k \in DOMAIN s : s[k] \in HandlerBindings
  BY <1>1
<1>3. Matching(p) \subseteq DOMAIN s /\ Matching(p) \subseteq Nat
  BY <1>2 DEF Matching
<1> DEFINE k == Min(Matching(p))
<1>4. k \in Matching(p)
  BY <1>3, MinIs
<1> HIDE DEF k
<1>5. s[k] \in HandlerBindings /\ s[k].hook = Hook(p) /\ k \in DOMAIN s
  BY <1>2, <1>3, <1>4 DEF Matching
<1> QED BY <1>5 DEF BindingFor, k, BindingsOn

(* A consultation: an in-force re-entry, the continuation of an escalation *)
(* asked before, or a fresh look at the bindings.                          *)
LEMMA RetryDoes ==
  ASSUME IsProc(proc), RetryInForce
  PROVE  proc.at = "consult" /\ Within /\ Silent /\ proc'.at = "act"
PROOF
<1> DEFINE q == ChainHead(proc)
<1>1. SameRound(q, proc) /\ q.at = "act"
  BY ChainHeadIs
<1> HIDE DEF q
<1>2. proc' = [q EXCEPT !.inForce = proc.inForce - 1] \/
      proc' = [q EXCEPT !.inForce = @ - 1]
  BY DEF RetryInForce, q
<1>3. SameRound(proc', proc) /\ proc'.at = "act"
  BY <1>1, <1>2 DEF SameRound, IsProc, ProcFields
<1> QED BY <1>3 DEF RetryInForce, Within, Silent

(* What an escalated human may have answered.                              *)
Rulings == {"done", "cannotRepair", "pass", "fail", "unknown", NoPending}

(* The answer of an escalation is taken, or awaited.                       *)
LEMMA ContinueDoes ==
  ASSUME IsProc(proc), ContinueEscalation,
         \A n \in Asked(proc) : AnswerTo(Prefix, log[n].req) \in Rulings
  PROVE  /\ proc.at = "consult" /\ Within /\ Silent
         /\ \E n \in Asked(proc) :
              LET answer == AnswerTo(Prefix, log[n].req)
              IN  \/ answer = "done" /\ proc'.at = "act"
                  \/ answer = "cannotRepair" /\ Leaves("aborted", {"abort"})
                  \/ proc'.at = "supersede" /\ proc'.status \in Statuses
                  \/ proc'.at = "suspend"
PROOF
<1>1. PICK n \in Asked(proc) : \E answer \in {AnswerTo(Prefix, log[n].req)} :
       LET spent == [proc EXCEPT !.consumed = @ \union {log[n].req}]
       IN  proc' = CASE answer = "done"         -> ChainHead(spent)
                     [] answer = "cannotRepair" -> Leave(spent, "aborted", "abort")
                     [] answer \in {"pass", "fail", "unknown"} ->
                          [spent EXCEPT !.at = "supersede", !.status = answer]
                     [] answer = NoPending /\ log[n].req \in late ->
                          [spent EXCEPT !.at = "supersede", !.status = "unknown"]
                     [] answer = NoPending /\ log[n].req \notin late ->
                          Goto(proc, "suspend")
  BY DEF ContinueEscalation
<1> DEFINE answer == AnswerTo(Prefix, log[n].req)
<1> DEFINE spent == [proc EXCEPT !.consumed = @ \union {log[n].req}]
<1> DEFINE over(status) == [spent EXCEPT !.at = "supersede", !.status = status]
<1>2. SameRound(spent, proc)
  BY DEF SameRound, IsProc, ProcFields
<1>3. \A status : /\ SameRound(over(status), proc) /\ over(status).at = "supersede"
                  /\ over(status).status = status
  BY DEF SameRound, IsProc, ProcFields
<1>4. answer \in Rulings
  BY DEF Asked
<1> HIDE DEF answer, spent
<1>5. IsProc(spent)
  BY <1>2 DEF SameRound
<1> DEFINE head == ChainHead(spent)
<1> DEFINE left == Leave(spent, "aborted", "abort")
<1> DEFINE wait == Goto(proc, "suspend")
<1>6. /\ SameRound(head, proc) /\ head.at = "act"
      /\ SameRound(left, proc) /\ left.at = "exit" /\ left.exitAs = "aborted"
      /\ left.ctl = "abort" /\ SameRound(wait, proc) /\ wait.at = "suspend"
  BY <1>2, <1>5, ChainHeadIs, LeaveIs, GotoIs DEF SameRound
<1> HIDE DEF head, left, wait, over
<1>7. /\ \/ answer = "done" /\ proc' = head
         \/ answer = "cannotRepair" /\ proc' = left
         \/ proc' = over(answer) /\ answer \in Statuses
         \/ proc' = over("unknown")
         \/ proc' = wait
  <2>1. proc' = CASE answer = "done"         -> head
                  [] answer = "cannotRepair" -> left
                  [] answer \in {"pass", "fail", "unknown"} -> over(answer)
                  [] answer = NoPending /\ log[n].req \in late -> over("unknown")
                  [] answer = NoPending /\ log[n].req \notin late -> wait
    BY <1>1 DEF answer, spent, over, head, left, wait
  <2>2. NoPending \notin {"done", "cannotRepair", "pass", "fail", "unknown"}
    BY Marks DEF Decisions, Statuses
  <2> QED BY <1>4, <2>1, <2>2 DEF Rulings, Statuses
<1>8. "unknown" \in Statuses
  BY DEF Statuses
<1>9. /\ SameRound(proc', proc)
      /\ \/ answer = "done" /\ proc'.at = "act"
         \/ answer = "cannotRepair" /\ Leaves("aborted", {"abort"})
         \/ proc'.at = "supersede" /\ proc'.status \in Statuses
         \/ proc'.at = "suspend"
  <2>1. CASE answer = "done" /\ proc' = head
    BY <1>6, <2>1
  <2>2. CASE answer = "cannotRepair" /\ proc' = left
    BY <1>6, <2>2 DEF Leaves
  <2>3. CASE proc' = over(answer) /\ answer \in Statuses
    BY <1>3, <2>3
  <2>4. CASE proc' = over("unknown")
    BY <1>3, <1>8, <2>4
  <2>5. CASE proc' = wait
    BY <1>6, <2>5
  <2> QED BY <1>7, <2>1, <2>2, <2>3, <2>4, <2>5
<1> QED BY <1>9 DEF ContinueEscalation, Within, Silent, answer

(* A handler is consulted.                                                 *)
LEMMA ConsultDoes ==
  ASSUME IsProc(proc), proc.i \in Steps, ConsultHook
  PROVE  /\ proc.at = "consult" /\ Within /\ UNCHANGED dev
         /\ \/ Silent /\ Leaves("judged", {"continue", "halt"})
            \/ /\ \E ev : \E b \in BindingsOn(proc.i, Hook(proc)) :
                    /\ Wrote("handlerTriggered", Here, ev)
                    /\ ev.hook = Hook(proc) /\ ev.disposition = b.action
                    /\ ev.trigger = Triggers(proc.i, Hook(proc)) + 1
                    /\ Triggers(proc.i, Hook(proc)) < b.triggers
               /\ \/ proc'.at \in {"act", "ask"}
                  \/ Leaves("judged", {"continue"})
                  \/ Leaves("aborted", {"abort"})
PROOF
<1> DEFINE b == BindingFor(proc)
<1> DEFINE t == Triggers(proc.i, Hook(proc))
<1> DEFINE ev == [type |-> "handlerTriggered", path |-> Here, hook |-> b.hook,
                  trigger |-> t + 1, disposition |-> b.action]
<1>1. /\ ev.type = "handlerTriggered" /\ ev.path = Here /\ ev.hook = b.hook
      /\ ev.trigger = t + 1 /\ ev.disposition = b.action
  OBVIOUS
<1> HIDE DEF ev
<1> DEFINE stays == NotHandled(proc)
<1> DEFINE head == [ChainHead(proc) EXCEPT !.inForce = InForce(b)]
<1> DEFINE release == Leave(proc, "judged", "continue")
<1> DEFINE abort == Leave(proc, "aborted", "abort")
<1> DEFINE ask == Goto(proc, "ask")
<1>2. /\ SameRound(stays, proc) /\ stays.at = "exit" /\ stays.exitAs = "judged"
      /\ stays.ctl \in {"continue", "halt"}
  BY LeaveIs DEF NotHandled, HalfOpen
<1>3. SameRound(head, proc) /\ head.at = "act"
  BY ChainHeadIs DEF SameRound, IsProc, ProcFields
<1>4. /\ SameRound(release, proc) /\ release.at = "exit" /\ release.exitAs = "judged"
      /\ release.ctl = "continue"
      /\ SameRound(abort, proc) /\ abort.at = "exit" /\ abort.exitAs = "aborted"
      /\ abort.ctl = "abort" /\ SameRound(ask, proc) /\ ask.at = "ask"
  BY LeaveIs, GotoIs
<1>5. /\ proc.at = "consult" /\ UNCHANGED << dev, late, budget >>
      /\ \/ proc' = stays /\ UNCHANGED << log, ck >>
         \/ /\ Matching(proc) # { } /\ t < b.triggers /\ Write(ev)
            /\ proc' = CASE b.action = "retry" -> head
                         [] b.action = "continue" -> release
                         [] b.action = "abort"    -> abort
                         [] b.action = "escalate" -> ask
  BY DEF ConsultHook, ev
<1> HIDE DEF stays, head, release, abort, ask, t
<1>6. CASE proc' = stays /\ UNCHANGED << log, ck >>
  BY <1>2, <1>5, <1>6 DEF Within, Silent, Leaves
<1>7. CASE /\ Matching(proc) # { } /\ t < b.triggers /\ Write(ev)
           /\ proc' = CASE b.action = "retry" -> head
                        [] b.action = "continue" -> release
                        [] b.action = "abort"    -> abort
                        [] b.action = "escalate" -> ask
  <2>1. /\ b \in HandlerBindings /\ b.hook = Hook(proc)
        /\ b \in BindingsOn(proc.i, Hook(proc))
    BY <1>7, BindingIs
  <2>2. b.action \in {"retry", "continue", "abort", "escalate"}
    BY <2>1 DEF HandlerBindings
  <2> HIDE DEF b
  <2>3. proc' \in {head, release, abort, ask}
    BY <1>7, <2>2
  <2>4. /\ SameRound(proc', proc)
        /\ \/ proc'.at \in {"act", "ask"}
           \/ Leaves("judged", {"continue"})
           \/ Leaves("aborted", {"abort"})
    BY <1>3, <1>4, <2>3 DEF Leaves
  <2>5. Wrote("handlerTriggered", Here, ev)
    BY <1>1, <1>7 DEF Wrote
  <2>6. \E e : \E x \in BindingsOn(proc.i, Hook(proc)) :
          /\ Wrote("handlerTriggered", Here, e)
          /\ e.hook = Hook(proc) /\ e.disposition = x.action
          /\ e.trigger = Triggers(proc.i, Hook(proc)) + 1
          /\ Triggers(proc.i, Hook(proc)) < x.triggers
    <3>1. /\ Wrote("handlerTriggered", Here, ev)
          /\ ev.hook = Hook(proc) /\ ev.disposition = b.action
          /\ ev.trigger = Triggers(proc.i, Hook(proc)) + 1
          /\ Triggers(proc.i, Hook(proc)) < b.triggers
      BY <1>1, <1>7, <2>1, <2>5 DEF t
    <3> QED BY <2>1, <3>1
  <2> QED BY <1>5, <2>4, <2>6 DEF Within
<1> QED BY <1>5, <1>6, <1>7

(* The request of an escalation.                                           *)
LEMMA AskDoes ==
  ASSUME IsProc(proc), AskEscalation
  PROVE  /\ proc.at = "ask" /\ Within /\ UNCHANGED dev /\ proc'.at = "suspend"
         /\ \E ev, path, decisions :
              /\ path = HookPath(proc.i, Hook(proc), Triggers(proc.i, Hook(proc)), "human")
              /\ Wrote("humanRequested", path, ev)
              /\ ev = Request(path, "step", 0, TRUE, decisions)
              /\ decisions \in {{"pass", "fail", "unknown"}, {"done", "cannotRepair"}}
PROOF
<1> DEFINE path == HookPath(proc.i, Hook(proc), Triggers(proc.i, Hook(proc)), "human")
<1> DEFINE decisions == IF BindingFor(proc).mode = "judge" THEN {"pass", "fail", "unknown"}
                        ELSE {"done", "cannotRepair"}
<1> DEFINE ev == Request(path, "step", 0, TRUE, decisions)
<1> HIDE DEF path
<1>1. decisions \in {{"pass", "fail", "unknown"}, {"done", "cannotRepair"}}
  OBVIOUS
<1> HIDE DEF decisions
<1>2. ev.type = "humanRequested" /\ ev.path = path
  BY DEF Request
<1> HIDE DEF ev
<1>3. /\ proc.at = "ask" /\ Write(ev) /\ proc' = Goto(proc, "suspend")
      /\ UNCHANGED << dev, late, budget >>
  BY DEF AskEscalation, ev, decisions, path
<1>4. Within /\ proc'.at = "suspend"
  BY <1>3, GotoIs DEF Within
<1>5. Wrote("humanRequested", path, ev)
  BY <1>2, <1>3 DEF Wrote
<1> QED BY <1>1, <1>3, <1>4, <1>5 DEF ev, path

(* A step is left.                                                         *)
LEMMA ExitDoes ==
  ASSUME IsProc(proc), proc.ctl \in {"continue", "halt", "abort"}, ExitStep
  PROVE  /\ proc.at = "exit"
         /\ \E ev : Wrote("stepExited", Here, ev) /\ ev.state = proc.exitAs
         /\ UNCHANGED << dev, late, budget >>
         /\ IsProc(proc') /\ proc'.base = proc.base
         /\ \/ /\ proc.ctl \in {"continue", "halt"} /\ proc'.i = proc.i + 1
               /\ proc'.at = IF proc.ctl = "continue" THEN "walk" ELSE "pairs"
               /\ proc'.work = proc.work /\ proc'.site = proc.site /\ proc'.call = 0
               /\ ~proc'.plain
            \/ proc.ctl = "abort" /\ proc'.at = "finish" /\ proc'.i = proc.i
               /\ proc'.call = proc.call
PROOF
<1> DEFINE ev == [type |-> "stepExited", path |-> Here, state |-> proc.exitAs,
                  output |-> NoOutput, evidence |-> << >>]
<1>1. ev.type = "stepExited" /\ ev.path = Here /\ ev.state = proc.exitAs
  OBVIOUS
<1> HIDE DEF ev
<1>2. /\ proc.at = "exit" /\ Write(ev) /\ UNCHANGED << dev, late, budget >>
      /\ proc' = CASE proc.ctl = "continue" -> NextStep(proc)
                   [] proc.ctl = "halt"     -> Halted(proc)
                   [] proc.ctl = "abort"    -> [proc EXCEPT !.at = "finish", !.fold = << >>]
  BY DEF ExitStep, Exited, ev
<1> DEFINE next == NextStep(proc)
<1> DEFINE halted == Halted(proc)
<1> DEFINE over == [proc EXCEPT !.at = "finish", !.fold = << >>]
<1>3. /\ IsProc(next) /\ next.at = "walk" /\ next.i = proc.i + 1 /\ next.base = proc.base
      /\ next.work = proc.work /\ next.site = proc.site /\ next.call = 0
      /\ ~next.plain
  BY NextStepIs
<1>4. SameRound(halted, next) /\ halted.at = "pairs"
  BY <1>3, GotoIs DEF Halted
<1>5. /\ IsProc(over) /\ over.at = "finish" /\ over.i = proc.i /\ over.base = proc.base
      /\ over.call = proc.call
  BY DEF IsProc, ProcFields
<1> HIDE DEF next, halted, over
<1>6. proc' = CASE proc.ctl = "continue" -> next
                [] proc.ctl = "halt"     -> halted
                [] proc.ctl = "abort"    -> over
  BY <1>2 DEF next, halted, over
<1>7. CASE proc.ctl = "continue"
  BY <1>1, <1>2, <1>3, <1>6, <1>7 DEF Wrote
<1>8. CASE proc.ctl = "halt"
  BY <1>1, <1>2, <1>3, <1>4, <1>6, <1>8 DEF Wrote, SameRound
<1>9. CASE proc.ctl = "abort"
  BY <1>1, <1>2, <1>5, <1>6, <1>9 DEF Wrote
<1> QED BY <1>7, <1>8, <1>9

(* The rest of the body is recorded blocked.                               *)
LEMMA PairsDoes ==
  ASSUME IsProc(proc), RecordBlocked
  PROVE  /\ proc.at = "pairs" /\ proc.i <= Len(Flow)
         /\ UNCHANGED << dev, late, budget >>
         /\ \/ Recorded(proc.i) /\ Silent /\ proc' = [proc EXCEPT !.i = @ + 1]
            \/ /\ ~Recorded(proc.i) /\ OpenSpan(proc.i)
               /\ \E ev : Wrote("stepExited", Here, ev) /\ ev.state = "blocked"
               /\ proc' = [proc EXCEPT !.i = @ + 1]
            \/ /\ ~Recorded(proc.i) /\ ~OpenSpan(proc.i)
               /\ \E ev : Wrote("stepEntered", Here, ev) /\ ~ev.resolved
               /\ proc' = proc
PROOF
<1> DEFINE exit == [type |-> "stepExited", path |-> Here, state |-> "blocked",
                    output |-> NoOutput, evidence |-> << >>]
<1> DEFINE enter == [type |-> "stepEntered", path |-> Here, asVar |-> NoVar,
                     resolved |-> FALSE]
<1>1. /\ exit.type = "stepExited" /\ exit.path = Here /\ exit.state = "blocked"
      /\ enter.type = "stepEntered" /\ enter.path = Here /\ ~enter.resolved
  OBVIOUS
<1> HIDE DEF exit, enter
<1>2. /\ proc.at = "pairs" /\ proc.i <= Len(Flow)
      /\ UNCHANGED << dev, late, budget >>
      /\ \/ /\ Recorded(proc.i)
            /\ proc' = [proc EXCEPT !.i = @ + 1]
            /\ UNCHANGED << log, ck >>
         \/ /\ ~Recorded(proc.i) /\ OpenSpan(proc.i)
            /\ Write(exit)
            /\ proc' = [proc EXCEPT !.i = @ + 1]
         \/ /\ ~Recorded(proc.i) /\ ~OpenSpan(proc.i)
            /\ Write(enter) /\ UNCHANGED proc
  BY DEF RecordBlocked, Exited, exit, enter
<1> QED BY <1>1, <1>2 DEF Wrote, Silent

(* A concluded step is passed over.                                        *)
LEMMA AdoptDoes ==
  ASSUME IsProc(proc), AdoptStep
  PROVE  /\ proc.at = "walk" /\ proc.i <= Len(Flow) /\ Adoptable(proc.i)
         /\ IsProc(proc') /\ proc'.at = "walk" /\ proc'.i = proc.i + 1
         /\ proc'.base = proc.base /\ proc'.work = proc.work /\ proc'.site = proc.site
         /\ proc'.call = proc.call /\ proc'.plain = proc.plain
         /\ proc'.fold = Adopted(proc.fold, RecordOf(proc.i).verdict)
         /\ Silent /\ UNCHANGED << late, budget >>
PROOF
<1> DEFINE fold == Adopted(proc.fold, RecordOf(proc.i).verdict)
<1> HIDE DEF fold
<1>1. proc' = [proc EXCEPT !.i = proc.i + 1, !.fold = fold]
  BY DEF AdoptStep, fold
<1>2. /\ proc.at = "walk" /\ proc.i <= Len(Flow) /\ Adoptable(proc.i)
      /\ UNCHANGED << log, ck, dev, late, budget >>
  BY DEF AdoptStep
<1> QED BY <1>1, <1>2 DEF IsProc, ProcFields, Silent, fold

(* The run starts.                                                         *)
LEMMA StartDoes ==
  ASSUME StartRun
  PROVE  /\ proc.at = "down" /\ log = << >> /\ proc' = Walking(0, "none")
         /\ \E ev : Wrote("runStarted", RootPath(MetaHash), ev)
         /\ UNCHANGED << dev, late, budget >>
PROOF
<1> DEFINE ev == [type |-> "runStarted", path |-> RootPath(MetaHash), hash |-> MetaHash]
<1>1. ev.type = "runStarted" /\ ev.path = RootPath(MetaHash)
  OBVIOUS
<1> HIDE DEF ev
<1>2. Write(ev)
  BY DEF StartRun, ev
<1> QED BY <1>1, <1>2 DEF StartRun, Wrote

(* The ends of a segment: finished, suspended, or dead.                    *)
LEMMA FinishDoes ==
  ASSUME FinishRun
  PROVE  /\ \/ proc.at = "finish"
            \/ proc.at \in {"walk", "pairs"} /\ proc.i > Len(Flow)
         /\ proc' = Down
         /\ \E ev : Wrote("runFinished", RootPath(MetaHash), ev)
         /\ UNCHANGED << dev, late, budget >>
PROOF
<1> DEFINE ev == [type |-> "runFinished", path |-> RootPath(MetaHash),
                  verdict |-> WorstOf(proc.fold)]
<1>1. ev.type = "runFinished" /\ ev.path = RootPath(MetaHash)
  OBVIOUS
<1> HIDE DEF ev
<1>2. Write(ev)
  BY DEF FinishRun, ev
<1> QED BY <1>1, <1>2 DEF FinishRun, Wrote

(* The segment suspends.                                                   *)
LEMMA SuspendDoes ==
  ASSUME SuspendRun
  PROVE  /\ proc.at = "suspend" /\ proc' = Down
         /\ \E ev : Wrote("runSuspended", RootPath(MetaHash), ev)
         /\ UNCHANGED << dev, late, budget >>
PROOF
<1> DEFINE ev == [type |-> "runSuspended", path |-> RootPath(MetaHash)]
<1>1. ev.type = "runSuspended" /\ ev.path = RootPath(MetaHash)
  OBVIOUS
<1> HIDE DEF ev
<1>2. Write(ev)
  BY DEF SuspendRun, ev
<1> QED BY <1>1, <1>2 DEF SuspendRun, Wrote

(* A stop or a transport error sends the process to its suspension.        *)
LEMMA DisruptionDoes ==
  ASSUME IsProc(proc), StopRequested \/ NoTerminal
  PROVE  /\ proc.at \in {"walk", "dispatch", "wait"} /\ SameRound(proc', proc)
         /\ proc'.at = "suspend" /\ Silent /\ UNCHANGED late
         /\ budget > 0 /\ budget' = budget - 1
PROOF
<1>1. proc' = Goto(proc, "suspend")
  BY DEF StopRequested, NoTerminal
<1>2. SameRound(proc', proc) /\ proc'.at = "suspend"
  BY <1>1, GotoIs
<1> QED BY <1>2 DEF StopRequested, NoTerminal, Silent

(* A resumed segment: nothing pending, a wait, or work on the call the     *)
(* frontier names.                                                         *)
LEMMA ResumeDoes ==
  ASSUME Resume
  PROVE  /\ proc.at = "down" /\ log # << >> /\ UNCHANGED << dev, late >>
         /\ IF NothingNew THEN budget > 0 /\ budget' = budget - 1 ELSE UNCHANGED budget
         /\ \E ev : Wrote("runResumed", RootPath(MetaHash), ev)
         /\ IsProc(proc') /\ proc'.i = 1 /\ ~proc'.plain
         /\ \/ /\ ck.frontier.intent = NoIntent
               /\ proc' = Walking(Len(log), "none")
            \/ /\ ck.frontier.intent # NoIntent
               /\ \E fate \in Reconciled(ck.frontier.intent) : \E work :
                    /\ work = FrontierWork(ck.frontier.intent, fate)
                    /\ \/ /\ work = "ask" /\ proc'.at = "adjudicate"
                          /\ proc'.base = 0 /\ proc'.call = 0
                       \/ /\ work = "reawait" /\ proc'.at = "suspend"
                          /\ proc'.base = 0 /\ proc'.call = 0
                       \/ /\ work = "none"
                          /\ proc' = Walking(Len(log), "none")
                       \/ /\ work \notin {"ask", "reawait", "none"}
                          /\ proc'.at = "walk" /\ proc'.base = Len(log)
                          /\ proc'.work = work /\ proc'.call = ck.frontier.intent
                          /\ proc'.site = StepAt(ck.frontier.path)
PROOF
<1> DEFINE c == ck.frontier.intent
<1> DEFINE ev == [type |-> "runResumed", path |-> RootPath(MetaHash), session |-> NoSession]
<1> DEFINE chain == log[Max({ n \in DOMAIN log : /\ log[n].type = "actionIntent"
                                                  /\ log[n].call = c })].chain
<1>1. ev.type = "runResumed" /\ ev.path = RootPath(MetaHash)
  OBVIOUS
<1> HIDE DEF ev, chain
<1> DEFINE kept(work) == [Walking(Len(log), work) EXCEPT
                            !.site = StepAt(ck.frontier.path), !.call = c, !.pos = chain]
<1>2. ASSUME NEW work
      PROVE  /\ IsProc(kept(work)) /\ kept(work).at = "walk" /\ kept(work).i = 1
             /\ kept(work).base = Len(log) /\ kept(work).work = work
             /\ kept(work).call = c /\ kept(work).site = StepAt(ck.frontier.path)
             /\ ~kept(work).plain
  <2> DEFINE w == Walking(Len(log), work)
  <2>1. IsProc(w) /\ w.at = "walk" /\ w.i = 1 /\ w.base = Len(log) /\ w.work = work
        /\ ~w.plain
    BY WalkingIs
  <2> HIDE DEF w
  <2>2. kept(work) = [w EXCEPT !.site = StepAt(ck.frontier.path), !.call = c, !.pos = chain]
    BY DEF w
  <2> HIDE DEF kept
  <2> QED BY <2>1, <2>2 DEF IsProc, ProcFields
<1>3. ASSUME NEW at
      PROVE  /\ IsProc(Goto(Down, at)) /\ Goto(Down, at).at = at /\ Goto(Down, at).i = 1
             /\ Goto(Down, at).base = 0 /\ Goto(Down, at).call = 0
             /\ ~Goto(Down, at).plain
  BY DEF Goto, Down, IsProc, ProcFields
<1>4. ASSUME NEW work, ResumeWith(work)
      PROVE  /\ Wrote("runResumed", RootPath(MetaHash), ev)
             /\ proc' = CASE work = "ask"     -> Goto(Down, "adjudicate")
                          [] work = "reawait" -> Goto(Down, "suspend")
                          [] work = "none"    -> Walking(Len(log), "none")
                          [] OTHER -> kept(work)
  BY <1>1, <1>4 DEF ResumeWith, Wrote, ev, chain
<1> HIDE DEF kept
<1>5. ASSUME NEW work, ResumeWith(work)
      PROVE  /\ \E e : Wrote("runResumed", RootPath(MetaHash), e)
             /\ IsProc(proc') /\ proc'.i = 1 /\ ~proc'.plain
             /\ \/ /\ work = "ask" /\ proc'.at = "adjudicate"
                   /\ proc'.base = 0 /\ proc'.call = 0
                \/ /\ work = "reawait" /\ proc'.at = "suspend"
                   /\ proc'.base = 0 /\ proc'.call = 0
                \/ /\ work = "none"
                   /\ proc' = Walking(Len(log), "none")
                \/ /\ work \notin {"ask", "reawait", "none"}
                   /\ proc'.at = "walk" /\ proc'.base = Len(log)
                   /\ proc'.work = work /\ proc'.call = c
                   /\ proc'.site = StepAt(ck.frontier.path)
  <2>1. \/ work = "ask" /\ proc' = Goto(Down, "adjudicate")
        \/ work = "reawait" /\ proc' = Goto(Down, "suspend")
        \/ work = "none" /\ proc' = Walking(Len(log), "none")
        \/ work \notin {"ask", "reawait", "none"} /\ proc' = kept(work)
    BY <1>4, <1>5
  <2>2. IsProc(Walking(Len(log), "none")) /\ Walking(Len(log), "none").i = 1
        /\ ~Walking(Len(log), "none").plain
    BY WalkingIs
  <2>3. \E e : Wrote("runResumed", RootPath(MetaHash), e)
    BY <1>4, <1>5
  <2>4. CASE work = "ask" /\ proc' = Goto(Down, "adjudicate")
    BY <1>3, <2>3, <2>4
  <2>5. CASE work = "reawait" /\ proc' = Goto(Down, "suspend")
    BY <1>3, <2>3, <2>5
  <2>6. CASE work = "none" /\ proc' = Walking(Len(log), "none")
    BY <2>2, <2>3, <2>6
  <2>7. CASE work \notin {"ask", "reawait", "none"} /\ proc' = kept(work)
    BY <1>2, <2>3, <2>7
  <2> QED BY <2>1, <2>4, <2>5, <2>6, <2>7
<1>6. /\ proc.at = "down" /\ log # << >> /\ UNCHANGED << dev, late >>
      /\ IF NothingNew THEN budget > 0 /\ budget' = budget - 1 ELSE UNCHANGED budget
  BY DEF Resume
<1>7. CASE c = NoIntent /\ ResumeWith("none")
  <2>1. proc' = Walking(Len(log), "none")
    BY <1>5, <1>7
  <2>2. /\ \E e : Wrote("runResumed", RootPath(MetaHash), e)
        /\ IsProc(proc') /\ proc'.i = 1 /\ ~proc'.plain
    BY <1>5, <1>7
  <2> QED BY <1>6, <1>7, <2>1, <2>2
<1>8. CASE c # NoIntent /\ \E fate \in Reconciled(c) : ResumeWith(FrontierWork(c, fate))
  <2>1. PICK fate \in Reconciled(c) : ResumeWith(FrontierWork(c, fate))
    BY <1>8
  <2>2. PICK work : work = FrontierWork(c, fate)
    OBVIOUS
  <2> QED BY <1>5, <1>6, <1>8, <2>1, <2>2
<1> QED BY <1>7, <1>8 DEF Resume

(* The request about an uncertain call.                                    *)
LEMMA AdjudicateDoes ==
  ASSUME IsProc(proc), AskAdjudication
  PROVE  /\ proc.at = "adjudicate" /\ Within /\ UNCHANGED dev /\ proc'.at = "suspend"
         /\ \E ev : /\ Wrote("humanRequested", AdjudicatePath, ev)
                    /\ ev = Request(AdjudicatePath, "step", ck.frontier.intent, FALSE,
                                    {"adopt", "redo", "abort"})
PROOF
<1> DEFINE ev == Request(AdjudicatePath, "step", ck.frontier.intent, FALSE,
                         {"adopt", "redo", "abort"})
<1>1. ev.type = "humanRequested" /\ ev.path = AdjudicatePath
  BY DEF Request
<1> HIDE DEF ev
<1>2. /\ proc.at = "adjudicate" /\ Write(ev) /\ proc' = Goto(proc, "suspend")
      /\ UNCHANGED << dev, late, budget >>
  BY DEF AskAdjudication, ev
<1>3. Wrote("humanRequested", AdjudicatePath, ev)
  BY <1>1, <1>2 DEF Wrote
<1>4. SameRound(proc', proc) /\ proc'.at = "suspend"
  BY <1>2, GotoIs
<1> QED BY <1>2, <1>3, <1>4 DEF Within, ev

(* A human's answer.                                                       *)
LEMMA RespondDoes ==
  ASSUME NEW decision, Respond(decision)
  PROVE  /\ ck.pending # NoPending /\ UNCHANGED << dev, late, proc >>
         /\ budget' \in {budget, budget - 1} /\ budget' # budget => budget > 0
         /\ \E ev : /\ Wrote("humanResponded", ck.pending.path, ev)
                    /\ ev.req = ck.pending.req /\ ev.purpose = ck.pending.purpose
                    /\ ev.decision = decision
         /\ \E n \in DOMAIN log : /\ log[n].type = "humanRequested"
                                   /\ log[n].req = ck.pending.req
                                   /\ decision \in log[n].decisions
PROOF
<1> DEFINE ev == [type |-> "humanResponded", path |-> ck.pending.path,
                  req |-> ck.pending.req, purpose |-> ck.pending.purpose,
                  decision |-> decision]
<1>1. /\ ev.type = "humanResponded" /\ ev.path = ck.pending.path
      /\ ev.req = ck.pending.req /\ ev.purpose = ck.pending.purpose
      /\ ev.decision = decision
  OBVIOUS
<1> HIDE DEF ev
<1>2. Write(ev)
  BY DEF Respond, ev
<1>3. Wrote("humanResponded", ck.pending.path, ev)
  BY <1>1, <1>2 DEF Wrote
<1> QED BY <1>1, <1>3 DEF Respond

-----------------------------------------------------------------------------
-----------------------------------------------------------------------------
(* The shape of the state: the ledger with its fold, the process.          *)
ShapedLedger ==
  /\ IsSequence(log) /\ IsSequence(dev)
  /\ IsFold(ck) /\ ck.frontier.intent \in {NoIntent} \union Calls
  /\ ck.started <=> log # << >>
Leaving(p) ==
  \/ p.exitAs = "judged" /\ p.ctl \in {"continue", "halt"}
  \/ p.exitAs = "aborted" /\ p.ctl = "abort"
ShapedProc ==
  /\ IsProc(proc) /\ proc.at \in Acts /\ proc.i \in 1 .. Len(Flow) + 1
  /\ proc.at \in Inside => proc.i \in Steps
  /\ proc.base \in 0 .. Len(log) /\ proc.call \in 0 .. Len(dev)
  /\ proc.at \in {"dispatch", "wait"} => proc.call \in Calls
  /\ proc.at \in {"record", "supersede"} => proc.status \in Statuses
  /\ proc.at = "exit" => Leaving(proc)
  /\ proc.at = "adjudicate" => ck.frontier.intent \in Calls
  /\ proc.at # "down" => log # << >>

(* Requests are numbered as they are asked, each answer names one and      *)
(* decides what it offers; the pending one is unanswered.                  *)
Requests == { n \in DOMAIN log : log[n].type = "humanRequested" }
Responses == { a \in DOMAIN log : log[a].type = "humanResponded" }
Final(r) == { a \in Responses : log[a].req = r /\ ~RetainsRequest(log[a]) }

(* Gate requests are asked at the path of a governed step; the others      *)
(* inside a handler of one, by an escalation or about an uncertain call.   *)
GateRequest(q) ==
  /\ q.purpose = "supervision" /\ q.call = 0
  /\ q.decisions = {"proceed", "abort", "suspend"}
  /\ \E k \in Steps : q.path = StepPath(k) /\ Supervised(k)
HookRequest(q, leaf) == q.purpose = "step" /\ Len(q.path) = 4 /\ q.path[4].id = leaf
EscalationRequest(q) ==
  /\ HookRequest(q, "human") /\ q.call = 0
  /\ q.decisions \in {{"pass", "fail", "unknown"}, {"done", "cannotRepair"}}
AdjudicationRequest(q) ==
  /\ HookRequest(q, "adjudicate") /\ q.call \in Calls
  /\ q.decisions = {"adopt", "redo", "abort"}

AnswersRequest(a, q) ==
  /\ q < a /\ log[q].req = log[a].req /\ log[q].path = log[a].path
  /\ log[q].purpose = log[a].purpose /\ log[a].decision \in log[q].decisions
Pends(q) ==
  /\ ck.pending.req = log[q].req /\ ck.pending.path = log[q].path
  /\ ck.pending.purpose = log[q].purpose /\ Final(log[q].req) = { }

Ranked(n) == log[n].req = Cardinality({ m \in Requests : m <= n })
Declared(n) ==
  GateRequest(log[n]) \/ EscalationRequest(log[n]) \/ AdjudicationRequest(log[n])
AnsweredOnce(n) == \A a, b \in Final(log[n].req) : a = b
Answered ==
  /\ \A n \in Requests : Ranked(n) /\ Declared(n) /\ AnsweredOnce(n)
  /\ \A a \in Responses : \E q \in Requests : AnswersRequest(a, q)
  /\ ck.pending # NoPending => \E q \in Requests : Pends(q)

(* A step whose span was opened without arguments, and one that settled a  *)
(* call or was ruled on.                                                   *)
NullSpan(k) == \E e \in At("stepEntered", k) : ~log[e].resolved
Worked(k) == At("actionSettled", k) \union At("verdictRecorded", k) # { }

(* Spans: what is recorded for good is closed; an open step has nothing    *)
(* unrecorded before it, and nothing to redo before it unless its span was *)
(* opened for a blocked pair; what worked is history.                      *)
WalkedLedger ==
  /\ Stacked(ck)
  /\ \A k \in Steps :
       /\ AdoptableIn(ck, k) => ~OpenIn(ck, k)
       /\ Worked(k) => AdoptableIn(ck, k) \/ OpenIn(ck, k)
       /\ OpenIn(ck, k) /\ (Worked(k) \/ ~NullSpan(k)) => RipeIn(ck, k)
       /\ \A m \in Steps : OpenIn(ck, k) /\ m < k =>
            /\ RecordedIn(ck, m)
            /\ ~NullSpan(k) \/ RecordedIn(ck, k) => AdoptableIn(ck, m)

(* The process walks behind what is adopted, inside the innermost span;    *)
(* it is ruled on, consulted or judged only when it has something to show. *)
Ripening(p) ==
  \/ p.at \in {"judge", "consult", "ask", "supersede"}
  \/ p.at = "exit" /\ p.exitAs = "judged"
WalkedProc ==
  /\ proc.at \in Inside \union {"walk"} =>
       \A m \in Steps : m < proc.i => AdoptableIn(ck, m)
  /\ proc.at \in Inside => ~AdoptableIn(ck, proc.i) /\ TopIs(ck, proc.i)
  /\ Ripening(proc) => RipeIn(ck, proc.i)
  /\ proc.at = "pairs" =>
       /\ \A m \in Steps : m < proc.i => RecordedIn(ck, m)
       /\ \A k \in Steps : OpenIn(ck, k) =>
            proc.i <= k /\ ~RecordedIn(ck, k) /\ NullSpan(k)

Ledger == ShapedLedger /\ ShapedProc /\ Answered /\ WalkedLedger /\ WalkedProc

-----------------------------------------------------------------------------
-----------------------------------------------------------------------------
(* What the operators of the model say of spans and records.               *)
LEMMA BridgeIs ==
  ASSUME NEW k
  PROVE  /\ OpenSpan(k) <=> OpenIn(ck, k)
         /\ Recorded(k) <=> RecordedIn(ck, k)
         /\ Adoptable(k) <=> AdoptableIn(ck, k)
PROOF
BY DEF OpenSpan, OpenIn, Recorded, RecordedIn, Adoptable, AdoptableIn, RecordOf

(* The ledger grows by what is written.                                    *)
LEMMA Grows ==
  ASSUME IsSequence(log), NEW ev, Write(ev)
  PROVE  /\ IsSequence(log') /\ log' # << >> /\ log' = Append(log, ev)
         /\ Len(log) \in Nat /\ Len(log') = Len(log) + 1
         /\ DOMAIN log = 1 .. Len(log) /\ DOMAIN log' = 1 .. Len(log) + 1
         /\ \A n \in DOMAIN log : log'[n] = log[n]
         /\ log'[Len(log) + 1] = ev
         /\ ck' = FoldStep(ck, ev)
PROOF
<1>1. log' = Append(log, ev) /\ ck' = FoldStep(ck, ev)
  BY DEF Write
<1> QED BY <1>1, AppendIs

(* An entry joins the entries of its own type and step only.               *)
LEMMA AtGrows ==
  ASSUME IsSequence(log), NEW ev, Write(ev), NEW i \in Steps, ev.path = StepPath(i),
         NEW type, NEW k \in Steps
  PROVE  At(type, k)' = IF ev.type = type /\ k = i THEN At(type, k) \union {Len(log) + 1}
                        ELSE At(type, k)
PROOF
<1>1. log' = Append(log, ev)
  BY Grows
<1>2. Entries(log', type, StepPath(k)) =
           IF ev.type = type /\ SameInstance(ev.path, StepPath(k))
           THEN Entries(log, type, StepPath(k)) \union {Len(log) + 1}
           ELSE Entries(log, type, StepPath(k))
  BY <1>1, EntriesGrow
<1>3. SameInstance(ev.path, StepPath(k)) <=> k = i
  BY SameStep
<1> QED BY <1>2, <1>3 DEF At

(* Entries stay where no entry is written.                                 *)
LEMMA AtStays ==
  ASSUME IsSequence(log), NEW ev, Write(ev), NEW type, ev.type # type, NEW k
  PROVE  At(type, k)' = At(type, k)
PROOF
<1>1. log' = Append(log, ev)
  BY Grows
<1>2. Entries(log', type, StepPath(k)) = Entries(log, type, StepPath(k))
  BY <1>1, EntriesGrow
<1> QED BY <1>2 DEF At

(* Entries of a step are positions of the ledger.                          *)
LEMMA AtIs ==
  ASSUME IsSequence(log), NEW type, NEW k
  PROVE  /\ At(type, k) \in SUBSET (1 .. Len(log)) /\ Len(log) \in Nat
         /\ \A n \in At(type, k) : n \in Nat /\ n \in DOMAIN log /\ log[n].type = type
PROOF
BY EntriesArePositions DEF At

(* What an entry leaves of the null spans and of the worked steps.         *)
LEMMA NullGrows ==
  ASSUME IsSequence(log), NEW ev, Write(ev), NEW i \in Steps, ev.path = StepPath(i),
         ev.type = "stepEntered", NEW k \in Steps
  PROVE  /\ NullSpan(k)' <=> NullSpan(k) \/ (k = i /\ ~ev.resolved)
         /\ Worked(k)' <=> Worked(k)
PROOF
<1> DEFINE E == At("stepEntered", k)
<1>1. /\ \A n \in E : n \in DOMAIN log
      /\ Len(log) + 1 \notin DOMAIN log
  BY AtIs, SequenceIs
<1>2. E' = IF k = i THEN E \union {Len(log) + 1} ELSE E
  BY AtGrows
<1>3. /\ \A n \in DOMAIN log : log'[n] = log[n]
      /\ log'[Len(log) + 1] = ev
  BY Grows
<1>4. NullSpan(k)' <=> \E e \in E' : ~log'[e].resolved
  BY DEF NullSpan
<1>5. NullSpan(k) <=> \E e \in E : ~log[e].resolved
  BY DEF NullSpan
<1>6. At("actionSettled", k)' = At("actionSettled", k)
      /\ At("verdictRecorded", k)' = At("verdictRecorded", k)
  BY AtStays
<1> HIDE DEF E
<1>7. NullSpan(k)' <=> NullSpan(k) \/ (k = i /\ ~ev.resolved)
  BY <1>1, <1>2, <1>3, <1>4, <1>5
<1> QED BY <1>6, <1>7 DEF Worked

(* A null span stays one while the spans do.                               *)
LEMMA NullStays ==
  ASSUME IsSequence(log), NEW ev, Write(ev), ev.type # "stepEntered", NEW k
  PROVE  NullSpan(k)' <=> NullSpan(k)
PROOF
<1>1. At("stepEntered", k)' = At("stepEntered", k)
  BY AtStays
<1>2. \A n \in At("stepEntered", k) : log'[n] = log[n]
  BY Grows, AtIs
<1> QED BY <1>1, <1>2 DEF NullSpan

(* Worked steps stay so while the ledger does.                             *)
LEMMA WorkedStays ==
  ASSUME IsSequence(log), NEW ev, Write(ev), NEW k,
         ev.type \notin {"actionSettled", "verdictRecorded"}
  PROVE  Worked(k)' <=> Worked(k)
PROOF
<1>1. At("actionSettled", k)' = At("actionSettled", k)
      /\ At("verdictRecorded", k)' = At("verdictRecorded", k)
  BY AtStays
<1> QED BY <1>1 DEF Worked

(* An entry of another type works on no step.                              *)
LEMMA WorkedGrows ==
  ASSUME IsSequence(log), NEW ev, Write(ev), NEW i \in Steps, ev.path = StepPath(i),
         ev.type \in {"actionSettled", "verdictRecorded"}, NEW k \in Steps
  PROVE  Worked(k)' <=> Worked(k) \/ k = i
PROOF
<1>1. At("actionSettled", k)' = IF ev.type = "actionSettled" /\ k = i
                                THEN At("actionSettled", k) \union {Len(log) + 1}
                                ELSE At("actionSettled", k)
  BY AtGrows
<1>2. At("verdictRecorded", k)' = IF ev.type = "verdictRecorded" /\ k = i
                                  THEN At("verdictRecorded", k) \union {Len(log) + 1}
                                  ELSE At("verdictRecorded", k)
  BY AtGrows
<1>3. Worked(k)' <=> At("actionSettled", k)' \union At("verdictRecorded", k)' # { }
  BY DEF Worked
<1>4. Worked(k) <=> At("actionSettled", k) \union At("verdictRecorded", k) # { }
  BY DEF Worked
<1> QED BY <1>1, <1>2, <1>3, <1>4

-----------------------------------------------------------------------------
(* A step of the engine that opens and closes nothing.                     *)
InPlace ==
  /\ SameSpans(ck', ck) /\ SameRecords(ck', ck)
  /\ \A k \in Steps :
       /\ RipeIn(ck, k) => RipeIn(ck', k)
       /\ NullSpan(k)' <=> NullSpan(k)
       /\ Worked(k)' => Worked(k) \/ (OpenIn(ck, k) /\ RipeIn(ck', k))

(* What keeps spans and records keeps the walk's invariant of the ledger.  *)
LEMMA InPlaceLedger ==
  ASSUME WalkedLedger, InPlace
  PROVE  WalkedLedger'
PROOF
BY DEF WalkedLedger, InPlace, SameSpans, SameRecords

(* What goes on inside a step keeps the walk's invariant of the process.   *)
LEMMA InPlaceProc ==
  ASSUME ShapedProc, WalkedProc, InPlace, proc'.i = proc.i,
         proc.at \in Inside \union {"walk", "adjudicate"},
         proc'.at \in Inside => proc.at \in Inside,
         proc'.at \in Inside \union {"suspend"},
         Ripening(proc') => RipeIn(ck', proc.i)
  PROVE  WalkedProc'
PROOF
<1>1. proc'.i = proc.i
  OBVIOUS
<1>2. CASE proc'.at \in Inside
  <2>1. proc.at \in Inside
    BY <1>2
  <2>2. PICK i \in Steps : i = proc.i
    BY <2>1 DEF ShapedProc
  <2>3. \A m \in Steps : m < i => AdoptableIn(ck', m)
    BY <2>1, <2>2 DEF WalkedProc, InPlace, SameRecords
  <2>4. ~AdoptableIn(ck', i) /\ TopIs(ck', i)
    BY <2>1, <2>2 DEF WalkedProc, InPlace, SameRecords, SameSpans
  <2>5. proc'.at # "pairs"
    BY <1>2 DEF Inside
  <2> QED BY <1>1, <2>2, <2>3, <2>4, <2>5 DEF WalkedProc
<1>3. CASE proc'.at = "suspend"
  BY <1>3 DEF WalkedProc, Inside, Ripening
<1> QED BY <1>2, <1>3

(* A silent step keeps spans and records.                                  *)
LEMMA SilentInPlace ==
  ASSUME WalkedLedger, UNCHANGED << log, ck >>
  PROVE  InPlace
PROOF
<1>1. Stacked(ck)
  BY DEF WalkedLedger
<1> QED BY <1>1 DEF InPlace, SameSpans, SameRecords, NullSpan, Worked, At

(* An entry that opens and closes nothing keeps them.                      *)
LEMMA KeptInPlace ==
  ASSUME ShapedLedger, WalkedLedger, NEW ev, Write(ev), Keeps(ck', ck),
         ev.type \notin {"stepEntered", "actionSettled", "verdictRecorded"}
  PROVE  InPlace
PROOF
<1>1. /\ SameSpans(ck', ck) /\ SameRecords(ck', ck)
      /\ \A k \in Steps : RipeIn(ck', k) <=> RipeIn(ck, k)
  BY KeptEffect DEF WalkedLedger
<1>2. ASSUME NEW k \in Steps
      PROVE  (NullSpan(k)' <=> NullSpan(k)) /\ (Worked(k)' <=> Worked(k))
  BY NullStays, WorkedStays DEF ShapedLedger
<1> QED BY <1>1, <1>2 DEF InPlace

(* A verdict keeps them.                                                   *)
LEMMA RuledInPlace ==
  ASSUME ShapedLedger, WalkedLedger, NEW ev, Write(ev), NEW i \in Steps,
         ev.path = StepPath(i), TopIs(ck, i), log # << >>,
         \/ ev.type = "actionSettled"
         \/ ev.type = "verdictRecorded" /\ ev.verdict # NoVerdict
  PROVE  InPlace /\ RipeIn(ck', i)
PROOF
<1>1. /\ IsFold(ck) /\ ck.started /\ Stacked(ck) /\ ck' = FoldStep(ck, ev)
      /\ IsSequence(log)
  BY Grows DEF ShapedLedger, WalkedLedger
<1>2. /\ SameSpans(ck', ck) /\ SameRecords(ck', ck)
      /\ \A k \in Steps : RipeIn(ck', k) <=> RipeIn(ck, k) \/ k = i
  <2>1. CASE ev.type = "actionSettled"
    BY <1>1, <2>1, SettledEffect
  <2>2. CASE ev.type = "verdictRecorded" /\ ev.verdict # NoVerdict
    BY <1>1, <2>2, VerdictEffect
  <2> QED BY <2>1, <2>2
<1>3. OpenIn(ck, i)
  BY <1>1, TopIsOpen
<1>4. ASSUME NEW k \in Steps
      PROVE  (NullSpan(k)' <=> NullSpan(k)) /\ (Worked(k)' <=> Worked(k) \/ k = i)
  BY <1>1, NullStays, WorkedGrows
<1> QED BY <1>2, <1>3, <1>4 DEF InPlace

-----------------------------------------------------------------------------
(* The shape of a ledger that grows.                                       *)
LEMMA ShapedGrows ==
  ASSUME ShapedLedger, NEW ev, Write(ev), IsFold(ck'), ck'.started,
         IsSequence(dev'), ck'.frontier.intent \in {NoIntent} \union DOMAIN dev'
  PROVE  ShapedLedger'
PROOF
BY Grows DEF ShapedLedger, Calls

(* The walk's invariant after an entry.                                    *)
LEMMA EnteredLedger ==
  ASSUME ShapedLedger, WalkedLedger, log # << >>, UNCHANGED dev,
         NEW i \in Steps, ~OpenIn(ck, i), ~AdoptableIn(ck, i),
         \A k \in Steps : OpenIn(ck, k) => i <= k,
         \A m \in Steps : m < i => RecordedIn(ck, m),
         NEW ev, Wrote("stepEntered", StepPath(i), ev),
         ev.resolved \/ RecordedIn(ck, i) =>
           \A m \in Steps : m < i => AdoptableIn(ck, m)
  PROVE  /\ ShapedLedger' /\ WalkedLedger'
         /\ TopIs(ck', i) /\ SameRecords(ck', ck)
         /\ \A k \in Steps : OpenIn(ck', k) <=> OpenIn(ck, k) \/ k = i
         /\ \A k \in Steps : NullSpan(k)' <=> NullSpan(k) \/ (k = i /\ ~ev.resolved)
PROOF
<1>1. /\ IsFold(ck) /\ ck.started /\ Stacked(ck) /\ IsSequence(log)
      /\ Write(ev) /\ ev.type = "stepEntered" /\ ev.path = StepPath(i)
  BY DEF ShapedLedger, WalkedLedger, Wrote
<1>2. ck' = FoldStep(ck, ev)
  BY <1>1, Grows
<1>3. \A k \in Steps : OpenIn(ck, k) => i < k
  <2> TAKE k \in Steps
  <2>1. k = i => ~OpenIn(ck, k)
    OBVIOUS
  <2> QED BY <2>1, StepsAre
<1>4. /\ Stacked(ck') /\ TopIs(ck', i) /\ SameRecords(ck', ck)
      /\ \A k \in Steps : /\ OpenIn(ck', k) <=> OpenIn(ck, k) \/ k = i
                          /\ RipeIn(ck', k) <=> RipeIn(ck, k) \/ (k = i /\ ev.resolved)
  BY <1>1, <1>2, <1>3, EnteredEffect
<1>5. IsFold(ck') /\ ck'.started /\ ck'.frontier.intent = NoIntent
  BY <1>1, <1>2, StepEnteredIs
<1>6. ShapedLedger'
  BY <1>1, <1>5, ShapedGrows DEF ShapedLedger
<1>7. ASSUME NEW k \in Steps
      PROVE  /\ NullSpan(k)' <=> NullSpan(k) \/ (k = i /\ ~ev.resolved)
             /\ Worked(k)' <=> Worked(k)
  BY <1>1, NullGrows
<1>8. ASSUME NEW k \in Steps
      PROVE  /\ AdoptableIn(ck', k) => ~OpenIn(ck', k)
             /\ Worked(k)' => AdoptableIn(ck', k) \/ OpenIn(ck', k)
             /\ OpenIn(ck', k) /\ (Worked(k)' \/ ~NullSpan(k)') => RipeIn(ck', k)
             /\ \A m \in Steps : OpenIn(ck', k) /\ m < k =>
                  /\ RecordedIn(ck', m)
                  /\ ~NullSpan(k)' \/ RecordedIn(ck', k) => AdoptableIn(ck', m)
  <2>1. /\ AdoptableIn(ck', k) <=> AdoptableIn(ck, k)
        /\ \A m \in Steps : /\ RecordedIn(ck', m) <=> RecordedIn(ck, m)
                            /\ AdoptableIn(ck', m) <=> AdoptableIn(ck, m)
    BY <1>4 DEF SameRecords
  <2>2. /\ AdoptableIn(ck, k) => ~OpenIn(ck, k)
        /\ Worked(k) => AdoptableIn(ck, k) \/ OpenIn(ck, k)
        /\ OpenIn(ck, k) /\ (Worked(k) \/ ~NullSpan(k)) => RipeIn(ck, k)
        /\ \A m \in Steps : OpenIn(ck, k) /\ m < k =>
             /\ RecordedIn(ck, m)
             /\ ~NullSpan(k) \/ RecordedIn(ck, k) => AdoptableIn(ck, m)
    BY DEF WalkedLedger
  <2>3. CASE k = i
    BY <1>4, <1>7, <2>1, <2>2, <2>3
  <2>4. CASE k # i
    BY <1>4, <1>7, <2>1, <2>2, <2>4
  <2> QED BY <2>3, <2>4
<1>9. WalkedLedger'
  BY <1>4, <1>8 DEF WalkedLedger
<1> QED BY <1>4, <1>6, <1>7, <1>9

(* The walk's invariant after an exit.                                     *)
LEMMA ExitedLedger ==
  ASSUME ShapedLedger, WalkedLedger, log # << >>, UNCHANGED dev,
         NEW i \in Steps, TopIs(ck, i), NEW ev, Wrote("stepExited", StepPath(i), ev)
  PROVE  /\ ShapedLedger' /\ WalkedLedger'
         /\ \A k \in Steps :
              /\ OpenIn(ck', k) <=> OpenIn(ck, k) /\ k # i
              /\ RecordedIn(ck', k) <=> RecordedIn(ck, k) \/ k = i
              /\ AdoptableIn(ck', k) <=> IF k = i THEN RipeIn(ck, i) ELSE AdoptableIn(ck, k)
              /\ NullSpan(k)' <=> NullSpan(k)
         /\ OpenIn(ck, i) /\ \A k \in Steps : OpenIn(ck, k) => i <= k
PROOF
<1>1. /\ IsFold(ck) /\ ck.started /\ Stacked(ck) /\ IsSequence(log)
      /\ Write(ev) /\ ev.type = "stepExited" /\ ck.inFlight # << >>
  BY DEF ShapedLedger, WalkedLedger, Wrote, TopIs
<1>2. ck' = FoldStep(ck, ev)
  BY <1>1, Grows
<1>3. /\ Stacked(ck')
      /\ \A k \in Steps :
           /\ OpenIn(ck', k) <=> OpenIn(ck, k) /\ k # i
           /\ RipeIn(ck', k) <=> RipeIn(ck, k) /\ k # i
           /\ RecordedIn(ck', k) <=> RecordedIn(ck, k) \/ k = i
           /\ AdoptableIn(ck', k) <=> IF k = i THEN RipeIn(ck, i) ELSE AdoptableIn(ck, k)
  BY <1>1, <1>2, ExitedEffect
<1>4. IsFold(ck') /\ ck'.started /\ ck'.frontier.intent = NoIntent
  BY <1>1, <1>2, StepExitedIs
<1>5. ShapedLedger'
  BY <1>1, <1>4, ShapedGrows DEF ShapedLedger
<1>6. ASSUME NEW k \in Steps
      PROVE  (NullSpan(k)' <=> NullSpan(k)) /\ (Worked(k)' <=> Worked(k))
  BY <1>1, NullStays, WorkedStays
<1>7. OpenIn(ck, i) /\ \A k \in Steps : OpenIn(ck, k) => i <= k
  BY <1>1, TopIsOpen
<1>8. ASSUME NEW k \in Steps
      PROVE  /\ AdoptableIn(ck', k) => ~OpenIn(ck', k)
             /\ Worked(k)' => AdoptableIn(ck', k) \/ OpenIn(ck', k)
             /\ OpenIn(ck', k) /\ (Worked(k)' \/ ~NullSpan(k)') => RipeIn(ck', k)
             /\ \A m \in Steps : OpenIn(ck', k) /\ m < k =>
                  /\ RecordedIn(ck', m)
                  /\ ~NullSpan(k)' \/ RecordedIn(ck', k) => AdoptableIn(ck', m)
  <2>1. /\ AdoptableIn(ck, k) => ~OpenIn(ck, k)
        /\ AdoptableIn(ck, i) => ~OpenIn(ck, i)
        /\ Worked(k) => AdoptableIn(ck, k) \/ OpenIn(ck, k)
        /\ OpenIn(ck, k) /\ (Worked(k) \/ ~NullSpan(k)) => RipeIn(ck, k)
        /\ \A m \in Steps : OpenIn(ck, k) /\ m < k =>
             /\ RecordedIn(ck, m)
             /\ ~NullSpan(k) \/ RecordedIn(ck, k) => AdoptableIn(ck, m)
    BY DEF WalkedLedger
  <2>2. CASE k = i
    BY <1>3, <1>6, <1>7, <2>1, <2>2
  <2>3. CASE k # i
    BY <1>3, <1>6, <1>7, <2>1, <2>3
  <2> QED BY <2>2, <2>3
<1>9. WalkedLedger'
  BY <1>3, <1>8 DEF WalkedLedger
<1> QED BY <1>3, <1>5, <1>6, <1>7, <1>9

(* A process that stays in its round keeps its shape.                      *)
LEMMA WithinShape ==
  ASSUME ShapedProc, SameRound(proc', proc),
         proc.at \in Inside \union {"walk", "adjudicate"},
         proc'.at \in Inside \union {"suspend"},
         proc'.at \in Inside => proc.at \in Inside,
         Len(log) \in Nat, Len(log') \in {Len(log), Len(log) + 1}, log' # << >>,
         UNCHANGED dev \/ (Len(dev') = Len(dev) /\ Calls' = Calls),
         proc'.at \in {"dispatch", "wait"} => proc.call \in Calls,
         proc'.at \in {"record", "supersede"} => proc'.status \in Statuses,
         proc'.at = "exit" => Leaving(proc')
  PROVE  ShapedProc'
PROOF
<1>1. Len(dev') = Len(dev) /\ Calls' = Calls
  BY DEF Calls
<1>2. 0 .. Len(log) \subseteq 0 .. Len(log')
  OBVIOUS
<1>3. proc'.at \in Acts
  BY DEF Acts
<1> QED BY <1>1, <1>2, <1>3 DEF ShapedProc, SameRound, Inside

-----------------------------------------------------------------------------
Shape == ShapedLedger /\ ShapedProc /\ WalkedLedger /\ WalkedProc

(* An act that stays in its step, and what it owes of the place it goes.   *)
Stays ==
  /\ SameRound(proc', proc)
  /\ proc.at \in Inside \union {"walk", "adjudicate"}
  /\ proc'.at \in Inside \union {"suspend"}
  /\ proc'.at \in Inside => proc.at \in Inside
  /\ proc'.at \in {"dispatch", "wait"} => proc.call \in Calls
  /\ proc'.at \in {"record", "supersede"} => proc'.status \in Statuses
  /\ proc'.at = "exit" => Leaving(proc')

(* The shape of the state after an act inside a step.                      *)
LEMMA StaysShape ==
  ASSUME Shape, Stays, InPlace, ShapedLedger',
         Len(log) \in Nat, Len(log') \in {Len(log), Len(log) + 1}, log' # << >>,
         UNCHANGED dev \/ (Len(dev') = Len(dev) /\ Calls' = Calls),
         Ripening(proc') => RipeIn(ck', proc.i)
  PROVE  Shape'
PROOF
<1>1. ShapedProc'
  BY WithinShape DEF Shape, Stays
<1>2. WalkedLedger'
  BY InPlaceLedger DEF Shape
<1>3. WalkedProc'
  <2>1. proc'.i = proc.i
    BY DEF Stays, SameRound
  <2> QED BY <2>1, InPlaceProc DEF Shape, Stays
<1> QED BY <1>1, <1>2, <1>3 DEF Shape

(* The shape of the state after a silent act.                              *)
LEMMA SilentShape ==
  ASSUME Shape, Stays, Silent, Ripening(proc') => RipeIn(ck, proc.i)
  PROVE  Shape'
PROOF
<1>1. InPlace
  BY SilentInPlace DEF Shape, Silent
<1>2. ShapedLedger'
  BY DEF Shape, ShapedLedger, Silent, Calls
<1>3. Len(log) \in Nat /\ Len(log') = Len(log) /\ log' # << >>
  <2>1. log # << >>
    BY DEF Shape, ShapedProc, Stays, Inside
  <2> QED BY <2>1, SequenceIs DEF Shape, ShapedLedger, Silent
<1>4. UNCHANGED << dev, ck >>
  BY DEF Silent
<1> QED BY <1>1, <1>2, <1>3, <1>4, StaysShape

(* An entry that opens, settles and rules nothing.                         *)
LEMMA MarkShape ==
  ASSUME Shape, Stays, NEW ev, Write(ev), Keeps(ck', ck), UNCHANGED dev,
         ck'.frontier.intent = ck.frontier.intent,
         ev.type \notin {"stepEntered", "actionSettled", "verdictRecorded"},
         Ripening(proc') => RipeIn(ck, proc.i)
  PROVE  Shape'
PROOF
<1>1. InPlace
  BY KeptInPlace DEF Shape
<1>2. ShapedLedger'
  <2>1. IsFold(ck') /\ ck'.started
    BY DEF Keeps
  <2> QED BY <2>1, ShapedGrows DEF Shape, ShapedLedger, Calls
<1>3. Len(log) \in Nat /\ Len(log') = Len(log) + 1 /\ log' # << >>
  BY Grows DEF Shape, ShapedLedger
<1>4. Ripening(proc') => RipeIn(ck', proc.i)
  <2>1. proc'.at # "suspend" => proc.i \in Steps
    BY DEF Stays, Shape, ShapedProc
  <2>2. Ripening(proc') => proc'.at # "suspend"
    BY DEF Ripening
  <2> QED BY <2>1, <2>2, <1>1 DEF InPlace
<1> QED BY <1>1, <1>2, <1>3, <1>4, StaysShape

(* The shape of the state after a request.                                 *)
LEMMA AskShape ==
  ASSUME Shape, Stays, NEW path, NEW ev, Wrote("humanRequested", path, ev),
         UNCHANGED dev, proc'.at = "suspend"
  PROVE  Shape'
PROOF
<1>1. Write(ev) /\ ev.type = "humanRequested"
  BY DEF Wrote
<1>2. IsFold(ck) /\ ck.started /\ IsSequence(log)
  BY DEF Shape, ShapedLedger, ShapedProc, Stays, Inside
<1>3. ck' = FoldStep(ck, ev)
  BY <1>1, <1>2, Grows
<1>4. Still(ck', ck)
  BY <1>1, <1>2, <1>3, HumanRequestedIs
<1>5. ~Ripening(proc')
  BY DEF Ripening
<1> QED BY <1>1, <1>4, <1>5, MarkShape DEF Still

(* An entry that settles a call of the step or rules on it.                *)
LEMMA WorkShape ==
  ASSUME Shape, Stays, proc.at \in Inside, NEW ev,
         UNCHANGED dev,
         \/ Wrote("actionSettled", Here, ev)
         \/ Wrote("verdictRecorded", Here, ev) /\ ev.verdict # NoVerdict
  PROVE  Shape'
PROOF
<1> PICK i \in Steps : i = proc.i
  BY DEF Shape, ShapedProc
<1>1. /\ Write(ev) /\ ev.path = StepPath(i)
      /\ \/ ev.type = "actionSettled"
         \/ ev.type = "verdictRecorded" /\ ev.verdict # NoVerdict
  BY DEF Wrote, Here
<1>2. /\ IsFold(ck) /\ ck.started /\ IsSequence(log) /\ log # << >>
      /\ Stacked(ck) /\ TopIs(ck, i) /\ ck.inFlight # << >>
  BY DEF Shape, ShapedLedger, ShapedProc, WalkedLedger, WalkedProc, TopIs, Inside
<1>3. InPlace /\ RipeIn(ck', i)
  BY <1>1, <1>2, RuledInPlace DEF Shape
<1>4. ck' = FoldStep(ck, ev)
  BY <1>1, <1>2, Grows
<1>5. IsFold(ck') /\ ck'.started /\ ck'.frontier.intent \in {NoIntent, ck.frontier.intent}
  <2>1. CASE ev.type = "actionSettled"
    BY <1>2, <1>4, <2>1, ActionSettledIs
  <2>2. CASE ev.type = "verdictRecorded"
    <3>1. Latest(InFlightAt(ck, ev.path)) \in InFlightAt(ck, ev.path)
      BY <1>1, <1>2, TopIsOpen
    <3> QED BY <1>2, <1>4, <2>2, <3>1, VerdictRecordedIs
  <2> QED BY <1>1, <2>1, <2>2
<1>6. ShapedLedger'
  BY <1>1, <1>5, ShapedGrows DEF Shape, ShapedLedger, Calls
<1>7. Len(log) \in Nat /\ Len(log') = Len(log) + 1 /\ log' # << >>
  BY <1>1, <1>2, Grows
<1> QED BY <1>3, <1>6, <1>7, StaysShape

-----------------------------------------------------------------------------
(* The parts of the shape.                                                 *)
LEMMA ShapeIs ==
  ASSUME Shape
  PROVE  /\ IsProc(proc)
         /\ proc.at \in Inside => proc.i \in Steps
         /\ IsFold(ck) /\ IsSequence(log) /\ Len(log) \in Nat
         /\ Ripening(proc) => RipeIn(ck, proc.i)
PROOF
BY SequenceIs DEF Shape, ShapedProc, ShapedLedger, WalkedProc

(* The shape of the state after the gate.                                  *)
LEMMA GateShape ==
  ASSUME Shape, GateSupervision
  PROVE  Shape'
PROOF
<1>1. /\ proc.at = "gate" /\ SameRound(proc', proc)
      /\ ~Ripening(proc)
      /\ \/ Silent /\ (proc'.at \in {"act", "suspend"} \/ Leaves("aborted", {"abort"}))
         \/ /\ \E ev : Wrote("humanRequested", Here, ev)
            /\ UNCHANGED dev /\ proc'.at = "suspend"
  BY ShapeIs, GateDoes DEF Within, Ripening
<1>2. Stays
  BY <1>1 DEF Stays, Inside, Leaves, Leaving
<1>3. CASE Silent /\ (proc'.at \in {"act", "suspend"} \/ Leaves("aborted", {"abort"}))
  <2>1. ~Ripening(proc')
    BY <1>3 DEF Ripening, Leaves
  <2> QED BY <1>2, <1>3, <2>1, SilentShape
<1>4. CASE /\ \E ev : Wrote("humanRequested", Here, ev)
           /\ UNCHANGED dev /\ proc'.at = "suspend"
  BY <1>2, <1>4, AskShape
<1> QED BY <1>1, <1>3, <1>4

(* The shape of the state after a dispatch.                                *)
LEMMA DispatchShape ==
  ASSUME Shape, Dispatch
  PROVE  Shape' /\ Calls' = Calls
PROOF
<1>1. /\ proc.at = "dispatch" /\ proc'.at = "wait" /\ SameRound(proc', proc)
      /\ dev' = [dev EXCEPT ![proc.call].fate = "started"] /\ UNCHANGED << log, ck >>
      /\ proc.call \in Calls
  <2>1. IsProc(proc)
    BY ShapeIs
  <2>2. /\ proc.at = "dispatch" /\ proc'.at = "wait" /\ Within
        /\ dev' = [dev EXCEPT ![proc.call].fate = "started"] /\ UNCHANGED << log, ck >>
    BY <2>1, DispatchDoes
  <2>3. proc.call \in Calls
    <3>1. proc.at \in {"dispatch", "wait"} => proc.call \in Calls
      BY DEF Shape, ShapedProc
    <3> QED BY <2>2, <3>1
  <2> QED BY <2>2, <2>3 DEF Within
<1>2. Stays
  BY <1>1 DEF Stays, Inside
<1>3. PICK d : dev' = Put(dev, proc.call, d)
  BY <1>1 DEF Put
<1>4. IsSequence(dev') /\ DOMAIN dev' = DOMAIN dev /\ Len(dev') = Len(dev)
  <2>1. IsSequence(dev) /\ proc.call \in DOMAIN dev
    BY <1>1 DEF Shape, ShapedLedger, Calls
  <2>2. LET t == [dev EXCEPT ![proc.call] = d]
        IN  IsSequence(t) /\ Len(t) = Len(dev) /\ DOMAIN t = DOMAIN dev
    BY <2>1, PutIs
  <2> QED BY <1>3, <2>2 DEF Put
<1>5. ShapedLedger'
  BY <1>1, <1>4 DEF Shape, ShapedLedger, Calls
<1>6. InPlace
  BY <1>1, SilentInPlace DEF Shape
<1>7. ~Ripening(proc')
  BY <1>1 DEF Ripening
<1>8. Len(log) \in Nat /\ Len(log') = Len(log) /\ log' # << >>
  BY <1>1, ShapeIs DEF Shape, ShapedProc
<1> QED BY <1>2, <1>4, <1>5, <1>6, <1>7, <1>8, StaysShape DEF Calls

(* The shape of the state after a settlement.                              *)
LEMMA SettleShape ==
  ASSUME Shape, Settle \/ AdoptTerminal
  PROVE  Shape'
PROOF
<1>1. /\ proc.at \in {"wait", "adoptSettle"} /\ SameRound(proc', proc) /\ UNCHANGED dev
      /\ \E ev : Wrote("actionSettled", Here, ev)
      /\ \/ proc'.at \in {"judge", "act", "confirm"}
         \/ proc'.at = "record" /\ proc'.status \in {"fail", "unknown"}
         \/ Leaves("judged", {"continue"})
         \/ Leaves("aborted", {"abort"})
  BY ShapeIs, SettleDoes DEF Within
<1>2. Stays
  BY <1>1 DEF Stays, Inside, Leaves, Leaving, Statuses
<1> QED BY <1>1, <1>2, WorkShape DEF Inside

(* The shape of the state after a verdict.                                 *)
LEMMA VerdictShape ==
  ASSUME Shape, RecordNegative \/ Supersede \/ \E v \in Judgments : Judge(v)
  PROVE  Shape'
PROOF
<1>1. /\ proc.at \in {"judge", "confirm", "record", "supersede"}
      /\ SameRound(proc', proc) /\ UNCHANGED dev
      /\ \E ev : /\ Wrote("verdictRecorded", Here, ev)
                 /\ IF proc.at \in {"judge", "confirm"} THEN ev.verdict \in Statuses
                    ELSE ev.verdict = proc.status
      /\ \/ proc'.at = "consult" /\ ~proc.plain
         \/ Leaves("judged", {"continue", "halt"})
  BY ShapeIs, VerdictDoes DEF Within
<1>2. Stays
  BY <1>1 DEF Stays, Inside, Leaves, Leaving
<1>3. proc.at \in {"record", "supersede"} => proc.status # NoVerdict
  BY Marks DEF Shape, ShapedProc
<1>4. \E ev : Wrote("verdictRecorded", Here, ev) /\ ev.verdict # NoVerdict
  BY <1>1, <1>3, Marks
<1> QED BY <1>1, <1>2, <1>4, WorkShape DEF Inside

(* The shape of the state after a retry in force.                          *)
LEMMA RetryShape ==
  ASSUME Shape, RetryInForce
  PROVE  Shape'
PROOF
<1>1. /\ proc.at = "consult" /\ SameRound(proc', proc) /\ Silent /\ proc'.at = "act"
  BY ShapeIs, RetryDoes DEF Within
<1>2. Stays /\ ~Ripening(proc')
  BY <1>1 DEF Stays, Inside, Ripening
<1> QED BY <1>1, <1>2, SilentShape

(* The shape of the state after an escalation is continued.                *)
LEMMA ContinueShape ==
  ASSUME Shape, ContinueEscalation,
         \A n \in Asked(proc) : AnswerTo(Prefix, log[n].req) \in Rulings
  PROVE  Shape'
PROOF
<1>1. /\ proc.at = "consult" /\ SameRound(proc', proc) /\ Silent
      /\ \/ proc'.at \in {"act", "suspend"}
         \/ Leaves("aborted", {"abort"})
         \/ proc'.at = "supersede" /\ proc'.status \in Statuses
  BY ShapeIs, ContinueDoes DEF Within
<1>2. Stays
  BY <1>1 DEF Stays, Inside, Leaves, Leaving
<1>3. RipeIn(ck, proc.i)
  BY <1>1, ShapeIs DEF Ripening
<1> QED BY <1>1, <1>2, <1>3, SilentShape

(* The shape of the state after a consultation.                            *)
LEMMA ConsultShape ==
  ASSUME Shape, ConsultHook
  PROVE  Shape'
PROOF
<1>1. proc.at = "consult" /\ proc.i \in Steps
  BY ShapeIs DEF ConsultHook, Inside
<1>2. /\ SameRound(proc', proc) /\ UNCHANGED dev
      /\ \/ Silent /\ Leaves("judged", {"continue", "halt"})
         \/ /\ \E ev : Wrote("handlerTriggered", Here, ev)
            /\ \/ proc'.at \in {"act", "ask"}
               \/ Leaves("judged", {"continue"})
               \/ Leaves("aborted", {"abort"})
  BY <1>1, ShapeIs, ConsultDoes DEF Within
<1>3. Stays
  BY <1>1, <1>2 DEF Stays, Inside, Leaves, Leaving
<1>4. RipeIn(ck, proc.i)
  BY <1>1, ShapeIs DEF Ripening
<1>5. CASE Silent
  BY <1>3, <1>4, <1>5, SilentShape
<1>6. ASSUME NEW ev, Wrote("handlerTriggered", Here, ev)
      PROVE  Shape'
  <2>1. Write(ev) /\ ev.type = "handlerTriggered"
    BY <1>6 DEF Wrote
  <2>2. ck.started /\ ck' = FoldStep(ck, ev)
    BY <1>1, <2>1, ShapeIs, Grows DEF Shape, ShapedLedger, ShapedProc
  <2>3. Still(ck', ck)
    BY <2>1, <2>2, ShapeIs, RunMarkIs
  <2> QED BY <1>2, <1>3, <1>4, <2>1, <2>3, MarkShape DEF Still
<1> QED BY <1>2, <1>5, <1>6

(* The shape of the state after an escalation asks.                        *)
LEMMA AskEscalationShape ==
  ASSUME Shape, AskEscalation \/ AskAdjudication
  PROVE  Shape'
PROOF
<1>1. /\ proc.at \in {"ask", "adjudicate"} /\ SameRound(proc', proc) /\ UNCHANGED dev
      /\ proc'.at = "suspend" /\ \E path, ev : Wrote("humanRequested", path, ev)
  BY ShapeIs, AskDoes, AdjudicateDoes DEF Within
<1>2. Stays
  BY <1>1 DEF Stays, Inside
<1> QED BY <1>1, <1>2, AskShape

(* The shape of the state after a disruption.                              *)
LEMMA DisruptionShape ==
  ASSUME Shape, StopRequested \/ NoTerminal
  PROVE  Shape'
PROOF
<1>1. /\ proc.at \in {"walk", "dispatch", "wait"} /\ SameRound(proc', proc)
      /\ proc'.at = "suspend" /\ Silent
  BY ShapeIs, DisruptionDoes
<1>2. Stays /\ ~Ripening(proc')
  BY <1>1 DEF Stays, Inside, Ripening
<1> QED BY <1>1, <1>2, SilentShape

(* The shape of the state after an intent.                                 *)
LEMMA IntentShape ==
  ASSUME Shape, WriteIntent
  PROVE  Shape'
PROOF
<1>1. PICK ev, d :
        /\ proc.at = "act" /\ Wrote("actionIntent", Here, ev) /\ ev.call = NextCall
        /\ dev' = Append(dev, d)
        /\ IsProc(proc') /\ proc'.i = proc.i /\ proc'.base = proc.base
        /\ proc'.at = "dispatch" /\ proc'.call = NextCall
  BY ShapeIs, WriteIntentDoes
<1>2. /\ Write(ev) /\ ev.type = "actionIntent" /\ log # << >>
      /\ ck.started /\ proc.i \in Steps /\ IsSequence(dev)
      /\ proc.base \in 0 .. Len(log) /\ proc.i \in 1 .. Len(Flow) + 1
  BY <1>1 DEF Wrote, Shape, ShapedProc, ShapedLedger, Inside
<1>3. /\ IsSequence(dev') /\ DOMAIN dev' = 1 .. Len(dev) + 1
      /\ Len(dev') = Len(dev) + 1 /\ Len(dev) \in Nat
  BY <1>1, <1>2, AppendIs
<1>4. /\ log' # << >> /\ Len(log') = Len(log) + 1 /\ Len(log) \in Nat
      /\ ck' = FoldStep(ck, ev)
  BY <1>2, ShapeIs, Grows
<1>5. Keeps(ck', ck) /\ ck'.frontier.intent = NextCall
  BY <1>1, <1>2, <1>4, ShapeIs, ActionIntentIs
<1>6. NextCall \in Calls'
  BY <1>3 DEF NextCall, Calls
<1>7. ShapedLedger'
  BY <1>2, <1>3, <1>5, <1>6, ShapedGrows DEF Shape, Keeps, Calls
<1>8. InPlace
  BY <1>2, <1>5, KeptInPlace DEF Shape
<1>9. WalkedLedger'
  BY <1>8, InPlaceLedger DEF Shape
<1>10. WalkedProc'
  BY <1>1, <1>8, InPlaceProc DEF Shape, Inside, Ripening
<1>11. ShapedProc'
  <2>1. proc'.base \in 0 .. Len(log') /\ proc'.call \in 0 .. Len(dev')
    BY <1>1, <1>2, <1>3, <1>4 DEF NextCall
  <2> QED BY <1>1, <1>2, <1>4, <1>6, <2>1 DEF ShapedProc, Acts, Inside
<1> QED BY <1>7, <1>9, <1>10, <1>11 DEF Shape

-----------------------------------------------------------------------------
(* Steps that leave the ledger alone, or append what folds to the same     *)
(* spans, and send the process elsewhere.                                  *)
LEMMA SilentLedger ==
  ASSUME Shape, Silent
  PROVE  /\ ShapedLedger' /\ WalkedLedger' /\ InPlace
         /\ Len(log') = Len(log) /\ Len(log) \in Nat /\ Len(dev') = Len(dev)
PROOF
<1>1. InPlace
  BY SilentInPlace DEF Shape, Silent
<1>2. ShapedLedger'
  BY DEF Shape, ShapedLedger, Silent, Calls
<1>3. WalkedLedger'
  BY <1>1, InPlaceLedger DEF Shape
<1>4. Len(log') = Len(log) /\ Len(log) \in Nat /\ Len(dev') = Len(dev)
  BY ShapeIs DEF Silent
<1> QED BY <1>1, <1>2, <1>3, <1>4

(* The walk's invariant after a mark of the run.                           *)
LEMMA MarkLedger ==
  ASSUME Shape, NEW ev, Write(ev), UNCHANGED dev, Keeps(ck', ck),
         ck'.frontier.intent \in {NoIntent, ck.frontier.intent},
         ev.type \notin {"stepEntered", "actionSettled", "verdictRecorded"}
  PROVE  /\ ShapedLedger' /\ WalkedLedger' /\ InPlace
         /\ Len(log') = Len(log) + 1 /\ Len(log) \in Nat /\ log' # << >>
         /\ Len(dev') = Len(dev)
PROOF
<1>1. InPlace
  BY KeptInPlace DEF Shape
<1>2. ShapedLedger'
  <2>1. IsFold(ck') /\ ck'.started
    BY DEF Keeps
  <2> QED BY <2>1, ShapedGrows DEF Shape, ShapedLedger, Calls
<1>3. WalkedLedger'
  BY <1>1, InPlaceLedger DEF Shape
<1>4. Len(log') = Len(log) + 1 /\ Len(log) \in Nat /\ log' # << >>
  BY Grows, ShapeIs
<1> QED BY <1>1, <1>2, <1>3, <1>4

(* Where nothing is asked of the process but its numbers.                  *)
LEMMA RestShape ==
  ASSUME ShapedLedger', WalkedLedger', IsProc(proc'),
         proc'.at \in {"down", "walk", "finish", "suspend", "adjudicate"},
         proc'.i \in 1 .. Len(Flow) + 1,
         proc'.at = "walk" => \A m \in Steps : m < proc'.i => AdoptableIn(ck', m),
         proc'.base \in 0 .. Len(log'), proc'.call \in 0 .. Len(dev'),
         proc'.at = "adjudicate" => ck'.frontier.intent \in Calls',
         proc'.at # "down" => log' # << >>
  PROVE  Shape'
PROOF
<1>1. ShapedProc'
  BY DEF ShapedProc, Acts, Inside
<1>2. WalkedProc'
  BY DEF WalkedProc, Inside, Ripening
<1> QED BY <1>1, <1>2 DEF Shape

(* There is a first step.                                                  *)
LEMMA FirstStep ==
  /\ 1 \in 1 .. Len(Flow) + 1
  /\ \A m \in Steps : ~(m < 1)
PROOF
BY StepsAre

(* A process that is not there has the shape of one.                       *)
LEMMA DownShape ==
  ASSUME ShapedLedger', WalkedLedger', proc' = Down
  PROVE  Shape'
PROOF
<1>1. Len(log') \in Nat /\ Len(dev') \in Nat
  BY SequenceIs DEF ShapedLedger
<1>2. /\ IsProc(proc') /\ proc'.at = "down" /\ proc'.i = 1 /\ proc'.base = 0
      /\ proc'.call = 0
  BY DownIs
<1> QED BY <1>1, <1>2, FirstStep, RestShape

(* A mark of the run opens, closes and rules on nothing.                   *)
LEMMA MarkIs ==
  ASSUME Shape, NEW path, NEW ev, log # << >>,
         \/ Wrote("runFinished", path, ev)
         \/ Wrote("runSuspended", path, ev)
         \/ Wrote("runResumed", path, ev)
  PROVE  Write(ev) /\ Keeps(ck', ck) /\ ck'.frontier.intent = ck.frontier.intent
         /\ ev.type \in {"runFinished", "runSuspended", "runResumed"}
PROOF
<1>1. /\ Write(ev) /\ ev.type \in {"runSuspended", "runResumed", "runFinished"}
  BY DEF Wrote
<1>2. ck' = FoldStep(ck, ev) /\ IsFold(ck) /\ ck.started
  BY <1>1, ShapeIs, Grows DEF Shape, ShapedLedger
<1>3. Still(ck', ck)
  BY <1>1, <1>2, RunMarkIs
<1> QED BY <1>1, <1>3 DEF Still

(* The shape of the state after the start.                                 *)
LEMMA StartShape ==
  ASSUME Shape, StartRun
  PROVE  Shape'
PROOF
<1>1. PICK ev : /\ Wrote("runStarted", RootPath(MetaHash), ev) /\ log = << >>
                /\ UNCHANGED dev /\ proc' = Walking(0, "none")
  BY StartDoes
<1>2. /\ Write(ev) /\ ev.type = "runStarted" /\ ~ck.started
  BY <1>1 DEF Wrote, Shape, ShapedLedger
<1>3. ck' = FoldStep(ck, ev)
  BY <1>2, ShapeIs, Grows
<1>4. Keeps(ck', ck) /\ ck'.frontier.intent = NoIntent
  BY <1>2, <1>3, ShapeIs, RunStartedIs
<1>5. /\ ShapedLedger' /\ WalkedLedger' /\ Len(log') \in Nat /\ log' # << >>
  BY <1>1, <1>2, <1>4, MarkLedger
<1>6. Len(dev') \in Nat
  BY <1>5, SequenceIs DEF ShapedLedger
<1>7. /\ IsProc(proc') /\ proc'.at = "walk" /\ proc'.i = 1 /\ proc'.base = 0
      /\ proc'.call = 0
  BY <1>1, WalkingIs
<1> QED BY <1>5, <1>6, <1>7, FirstStep, RestShape

(* The shape of the state after the end of a segment.                      *)
LEMMA EndShape ==
  ASSUME Shape, FinishRun \/ SuspendRun \/ Crash
  PROVE  Shape'
PROOF
<1>1. CASE FinishRun \/ SuspendRun
  <2>1. /\ log # << >> /\ proc' = Down /\ UNCHANGED dev
        /\ \E ev : \/ Wrote("runFinished", RootPath(MetaHash), ev)
                   \/ Wrote("runSuspended", RootPath(MetaHash), ev)
    BY <1>1, FinishDoes, SuspendDoes DEF Shape, ShapedProc
  <2> QED BY <2>1, MarkIs, MarkLedger, DownShape
<1>2. CASE Crash
  BY <1>2, SilentLedger, DownShape DEF Crash, Silent
<1> QED BY <1>1, <1>2

(* The shape of the state after a resume.                                  *)
LEMMA ResumeShape ==
  ASSUME Shape, Resume
  PROVE  Shape'
PROOF
<1>1. PICK ev : /\ Wrote("runResumed", RootPath(MetaHash), ev) /\ log # << >>
                /\ UNCHANGED dev
  BY ResumeDoes
<1>5. /\ proc'.at = "adjudicate" => ck.frontier.intent # NoIntent
      /\ ck'.frontier.intent = ck.frontier.intent
  BY <1>1, ResumeDoes, WalkingIs, MarkIs
<1>6. proc'.at = "adjudicate" => ck'.frontier.intent \in Calls'
  BY <1>1, <1>5 DEF Shape, ShapedLedger, Calls
<1>2. /\ ShapedLedger' /\ WalkedLedger' /\ Len(log') = Len(log) + 1
      /\ Len(log) \in Nat /\ log' # << >> /\ Len(dev') = Len(dev)
  BY <1>1, MarkIs, MarkLedger
<1>3. /\ IsProc(proc') /\ proc'.i = 1
      /\ proc'.at \in {"walk", "suspend", "adjudicate"}
      /\ proc'.base \in {0, Len(log)}
      /\ \/ proc'.call = 0
         \/ proc'.call = ck.frontier.intent /\ ck.frontier.intent # NoIntent
  BY ResumeDoes, WalkingIs
<1>4. proc'.call \in 0 .. Len(dev')
  <2>1. Len(dev) \in Nat /\ DOMAIN dev = 1 .. Len(dev)
    BY SequenceIs DEF Shape, ShapedLedger
  <2> QED BY <1>2, <1>3, <2>1 DEF Shape, ShapedLedger, Calls
<1> QED BY <1>2, <1>3, <1>4, <1>6, FirstStep, RestShape

(* The shape of the state after an adoption.                               *)
LEMMA AdoptShape ==
  ASSUME Shape, AdoptStep
  PROVE  Shape'
PROOF
<1>1. /\ proc.at = "walk" /\ proc.i <= Len(Flow) /\ AdoptableIn(ck, proc.i)
      /\ IsProc(proc') /\ proc'.at = "walk" /\ proc'.i = proc.i + 1
      /\ proc'.base = proc.base /\ proc'.call = proc.call /\ Silent
  BY ShapeIs, AdoptDoes, BridgeIs
<1>2. /\ ShapedLedger' /\ WalkedLedger' /\ Len(log') = Len(log) /\ Len(dev') = Len(dev)
  BY <1>1, SilentLedger
<1>3. /\ proc.i \in 1 .. Len(Flow) + 1 /\ proc.base \in 0 .. Len(log)
      /\ proc.call \in 0 .. Len(dev) /\ log # << >>
      /\ \A m \in Steps : m < proc.i => AdoptableIn(ck, m)
  BY <1>1 DEF Shape, ShapedProc, WalkedProc
<1>4. proc'.i \in 1 .. Len(Flow) + 1
  BY <1>1, <1>3, StepsAre
<1>5. \A m \in Steps : m < proc'.i => AdoptableIn(ck, m)
  <2> TAKE m \in Steps
  <2>1. m < proc'.i => m < proc.i \/ m = proc.i
    BY <1>1, <1>3, StepsAre
  <2> QED BY <1>1, <1>3, <2>1
<1>6. ck' = ck /\ log' = log
  BY <1>1 DEF Silent
<1> QED BY <1>1, <1>2, <1>3, <1>4, <1>5, <1>6, RestShape

(* The environment.                                                        *)
LEMMA SameProcShape ==
  ASSUME Shape, UNCHANGED proc, ShapedLedger', InPlace,
         Len(log') \in {Len(log), Len(log) + 1}, log # << >> => log' # << >>,
         Len(dev') = Len(dev), Calls' = Calls,
         ck'.frontier.intent = ck.frontier.intent
  PROVE  Shape'
PROOF
<1>1. WalkedLedger'
  BY InPlaceLedger DEF Shape
<1>2. ShapedProc'
  <2>1. 0 .. Len(log) \subseteq 0 .. Len(log')
    BY ShapeIs
  <2> QED BY <2>1 DEF Shape, ShapedProc
<1>3. WalkedProc'
  <2>1. \A k \in Steps :
          /\ OpenIn(ck', k) <=> OpenIn(ck, k)
          /\ TopIs(ck', k) <=> TopIs(ck, k)
          /\ RecordedIn(ck', k) <=> RecordedIn(ck, k)
          /\ AdoptableIn(ck', k) <=> AdoptableIn(ck, k)
          /\ RipeIn(ck, k) => RipeIn(ck', k)
          /\ NullSpan(k)' <=> NullSpan(k)
    BY DEF InPlace, SameSpans, SameRecords
  <2>2. proc.at \in Inside => proc.i \in Steps
    BY ShapeIs
  <2>3. Ripening(proc) => proc.at \in Inside
    BY DEF Ripening, Inside
  <2> QED BY <2>1, <2>2, <2>3 DEF Shape, WalkedProc
<1> QED BY <1>1, <1>2, <1>3 DEF Shape

(* The shape of the state after the environment moves.                     *)
LEMMA EnvironmentShape ==
  ASSUME Shape,
         \/ \E c \in Calls, o \in Outcomes : DeviceFinishes(c, o)
         \/ DeadlinePasses
  PROVE  Shape' /\ Calls' = Calls
PROOF
<1>1. CASE DeadlinePasses
  <2>1. Silent /\ UNCHANGED proc
    BY <1>1 DEF DeadlinePasses, Silent
  <2> QED BY <2>1, SilentLedger, SameProcShape DEF Silent, Calls
<1>2. ASSUME NEW c \in Calls, NEW o \in Outcomes, DeviceFinishes(c, o)
      PROVE  Shape' /\ Calls' = Calls
  <2>1. UNCHANGED << log, ck, proc >>
    BY <1>2 DEF DeviceFinishes
  <2>2. DOMAIN dev' = DOMAIN dev /\ Len(dev') = Len(dev) /\ IsSequence(dev')
    <3>1. PICK d, e : dev' = Put(Put(dev, c, d), c, e)
      BY <1>2 DEF DeviceFinishes, Put
    <3>2. IsSequence(dev) /\ c \in DOMAIN dev
      BY <1>2 DEF Shape, ShapedLedger, Calls
    <3>3. LET t == [dev EXCEPT ![c] = d]
          IN  IsSequence(t) /\ Len(t) = Len(dev) /\ DOMAIN t = DOMAIN dev
      BY <3>2, PutIs
    <3> DEFINE t == Put(dev, c, d)
    <3>4. IsSequence(t) /\ Len(t) = Len(dev) /\ DOMAIN t = DOMAIN dev
      BY <3>3 DEF Put
    <3> HIDE DEF t
    <3>5. LET u == [t EXCEPT ![c] = e]
          IN  IsSequence(u) /\ Len(u) = Len(t) /\ DOMAIN u = DOMAIN t
      BY <3>2, <3>4, PutIs
    <3>6. dev' = [t EXCEPT ![c] = e]
      BY <3>1 DEF Put, t
    <3> QED BY <3>4, <3>5, <3>6
  <2>3. ShapedLedger'
    BY <2>1, <2>2 DEF Shape, ShapedLedger, Calls
  <2>4. InPlace
    BY <2>1, SilentInPlace DEF Shape
  <2> QED BY <2>1, <2>2, <2>3, <2>4, SameProcShape DEF Calls
<1> QED BY <1>1, <1>2

(* The shape of the state after an answer.                                 *)
LEMMA RespondShape ==
  ASSUME Shape, ck.pending # NoPending => log # << >>, NEW decision, Respond(decision)
  PROVE  Shape'
PROOF
<1>1. PICK ev : /\ Wrote("humanResponded", ck.pending.path, ev)
                /\ ev.req = ck.pending.req /\ ck.pending # NoPending
                /\ UNCHANGED << dev, proc >>
  BY RespondDoes
<1>2. /\ Write(ev) /\ ev.type = "humanResponded" /\ ck.started
  BY <1>1 DEF Wrote, Shape, ShapedLedger
<1>3. ck' = FoldStep(ck, ev)
  BY <1>2, ShapeIs, Grows
<1>4. Still(ck', ck)
  BY <1>1, <1>2, <1>3, ShapeIs, HumanRespondedIs
<1>5. /\ ShapedLedger' /\ InPlace /\ Len(log') = Len(log) + 1 /\ log' # << >>
      /\ Len(dev') = Len(dev) /\ ck'.frontier.intent = ck.frontier.intent
  BY <1>1, <1>2, <1>4, MarkLedger DEF Still
<1> QED BY <1>1, <1>5, SameProcShape DEF Calls

-----------------------------------------------------------------------------
(* What was worked on before a position is worked on after it.             *)
LEMMA WorkedBefore ==
  ASSUME Shape, NEW i, SettledOn(Prefix, i)
  PROVE  Worked(i)
PROOF
<1>1. IsSequence(log) /\ proc.base \in 0 .. Len(log)
  BY DEF Shape, ShapedLedger, ShapedProc
<1>2. Entries(Prefix, "actionSettled", StepPath(i))
        = { n \in Entries(log, "actionSettled", StepPath(i)) : n <= proc.base }
  BY <1>1, EntriesOfPrefix DEF Prefix
<1> QED BY <1>2 DEF SettledOn, Worked, At

(* The shape of the state after a step is entered.                         *)
LEMMA EnterShape ==
  ASSUME Shape, EnterStep
  PROVE  Shape'
PROOF
<1>1. PICK i \in Steps : i = proc.i /\ proc.at = "walk"
  <2>1. proc.at = "walk" /\ proc.i <= Len(Flow)
    BY ShapeIs, EnterStepDoes
  <2> QED BY <2>1, StepsAre DEF Shape, ShapedProc
<1>2. /\ ~AdoptableIn(ck, i) /\ log # << >>
      /\ \A m \in Steps : m < i => AdoptableIn(ck, m)
  BY <1>1, ShapeIs, EnterStepDoes, BridgeIs DEF Shape, ShapedProc, WalkedProc
<1>3. /\ IsProc(proc') /\ proc'.i = i /\ proc'.base = proc.base
      /\ proc'.call = proc.call /\ UNCHANGED << dev, late, budget >>
      /\ \/ OpenIn(ck, i) /\ UNCHANGED << log, ck >>
         \/ /\ ~OpenIn(ck, i)
            /\ \E ev : /\ Wrote("stepEntered", StepPath(i), ev)
                       /\ ev.resolved <=> proc'.at # "record"
  BY <1>1, ShapeIs, EnterStepDoes, BridgeIs DEF Here
<1>4. /\ proc'.at \in {"record", "adoptSettle", "act", "confirm", "exit", "consult", "gate"}
      /\ proc'.at = "record" => proc'.status = "fail"
      /\ proc'.at = "exit" => Leaving(proc')
      /\ Ripening(proc') => ResumesAtRuling
  BY ShapeIs, EnterStepDoes DEF Leaving, Ripening
<1>5. \A k \in Steps : OpenIn(ck, k) => i <= k
  <2> TAKE k \in Steps
  <2>1. AdoptableIn(ck, k) => ~OpenIn(ck, k)
    BY DEF Shape, WalkedLedger
  <2> QED BY <1>2, <2>1, StepsAre
<1>6. /\ ShapedLedger' /\ WalkedLedger' /\ TopIs(ck', i) /\ SameRecords(ck', ck)
      /\ Len(log') \in {Len(log), Len(log) + 1} /\ Len(log) \in Nat /\ log' # << >>
  <2>1. CASE OpenIn(ck, i) /\ UNCHANGED << log, ck >>
    <3>1. TopIs(ck, i)
      BY <1>5, <2>1, FirstOpenIsTop DEF Shape, ShapedLedger, WalkedLedger
    <3>2. Silent
      BY <1>3, <2>1 DEF Silent
    <3> QED BY <1>2, <2>1, <3>1, <3>2, SilentLedger DEF SameRecords
  <2>2. CASE /\ ~OpenIn(ck, i)
             /\ \E ev : Wrote("stepEntered", StepPath(i), ev)
    <3>1. PICK ev : Wrote("stepEntered", StepPath(i), ev)
      BY <2>2
    <3>2. /\ \A m \in Steps : m < i => RecordedIn(ck, m)
          /\ ShapedLedger /\ WalkedLedger
      BY <1>2 DEF AdoptableIn, Shape
    <3>3. ShapedLedger' /\ WalkedLedger' /\ TopIs(ck', i) /\ SameRecords(ck', ck)
      BY <1>2, <1>3, <1>5, <2>2, <3>1, <3>2, EnteredLedger
    <3>4. Write(ev)
      BY <3>1 DEF Wrote
    <3> QED BY <3>3, <3>4, ShapeIs, Grows
  <2> QED BY <1>3, <2>1, <2>2
<1>7. ShapedProc'
  <2>1. proc.base \in 0 .. Len(log) /\ proc.call \in 0 .. Len(dev)
        /\ proc.i \in 1 .. Len(Flow) + 1
    BY DEF Shape, ShapedProc
  <2>2. proc'.base \in 0 .. Len(log')
    BY <1>3, <1>6, <2>1
  <2> QED BY <1>1, <1>3, <1>4, <1>6, <2>1, <2>2 DEF ShapedProc, Acts, Inside, Statuses
<1>8. WalkedProc'
  <2>1. Ripening(proc') => RipeIn(ck', i)
    <3>1. SUFFICES ASSUME Ripening(proc') PROVE RipeIn(ck', i)
      OBVIOUS
    <3>2. OpenIn(ck, i) /\ SettledOn(Prefix, i)
      BY <1>1, <1>4, <3>1, BridgeIs DEF ResumesAtRuling
    <3>3. RipeIn(ck, i)
      BY <3>2, WorkedBefore DEF Shape, WalkedLedger
    <3> QED BY <1>3, <3>2, <3>3
  <2>2. /\ \A m \in Steps : m < i => AdoptableIn(ck', m)
        /\ ~AdoptableIn(ck', i)
    BY <1>2, <1>6 DEF SameRecords
  <2>3. proc'.at # "pairs"
    BY <1>4
  <2> QED BY <1>3, <1>6, <2>1, <2>2, <2>3 DEF WalkedProc
<1> QED BY <1>6, <1>7, <1>8 DEF Shape

(* The shape of the state after a step is left.                            *)
LEMMA ExitShape ==
  ASSUME Shape, ExitStep
  PROVE  Shape'
PROOF
<1>1. PICK i \in Steps : i = proc.i /\ proc.at = "exit"
  BY ShapeIs DEF ExitStep, Inside
<1>2. /\ Leaving(proc) /\ log # << >> /\ TopIs(ck, i) /\ ~AdoptableIn(ck, i)
      /\ \A m \in Steps : m < i => AdoptableIn(ck, m)
      /\ proc.exitAs = "judged" => RipeIn(ck, i)
      /\ proc.base \in 0 .. Len(log) /\ proc.call \in 0 .. Len(dev)
  BY <1>1 DEF Shape, ShapedProc, WalkedProc, Inside, Ripening
<1>3. proc.ctl \in {"continue", "halt", "abort"}
  BY <1>2 DEF Leaving
<1>4. PICK ev : Wrote("stepExited", StepPath(i), ev)
  BY <1>1, <1>3, ShapeIs, ExitDoes DEF Here
<1>5. /\ UNCHANGED dev /\ IsProc(proc') /\ proc'.base = proc.base
      /\ \/ /\ proc.ctl \in {"continue", "halt"} /\ proc'.i = i + 1
            /\ proc'.at = IF proc.ctl = "continue" THEN "walk" ELSE "pairs"
            /\ proc'.call = 0
         \/ proc.ctl = "abort" /\ proc'.at = "finish" /\ proc'.i = i
            /\ proc'.call = proc.call
  BY <1>1, <1>3, ShapeIs, ExitDoes
<1>6. /\ ShapedLedger' /\ WalkedLedger'
      /\ \A k \in Steps :
           /\ OpenIn(ck', k) <=> OpenIn(ck, k) /\ k # i
           /\ RecordedIn(ck', k) <=> RecordedIn(ck, k) \/ k = i
           /\ AdoptableIn(ck', k) <=> IF k = i THEN RipeIn(ck, i) ELSE AdoptableIn(ck, k)
           /\ NullSpan(k)' <=> NullSpan(k)
      /\ \A k \in Steps : OpenIn(ck, k) => i <= k
  BY <1>2, <1>4, <1>5, ExitedLedger DEF Shape
<1>7. /\ Len(log') = Len(log) + 1 /\ log' # << >> /\ Len(log) \in Nat
      /\ Len(dev) \in Nat
  BY <1>4, ShapeIs, Grows, SequenceIs DEF Wrote, Shape, ShapedLedger
<1>8. /\ proc'.base \in 0 .. Len(log') /\ proc'.call \in 0 .. Len(dev')
      /\ proc'.i \in 1 .. Len(Flow) + 1
  BY <1>2, <1>5, <1>7, StepsAre
<1>9. ShapedProc'
  BY <1>5, <1>7, <1>8 DEF ShapedProc, Acts, Inside
<1>10. WalkedProc'
  <2>1. proc'.at = "walk" => \A m \in Steps : m < proc'.i => AdoptableIn(ck', m)
    <3>1. SUFFICES ASSUME proc'.at = "walk", NEW m \in Steps, m < proc'.i
                   PROVE  AdoptableIn(ck', m)
      OBVIOUS
    <3>2. proc'.i = i + 1 /\ RipeIn(ck, i)
      BY <1>2, <1>5, <3>1 DEF Leaving
    <3>3. m < i \/ m = i
      BY <3>1, <3>2, StepsAre
    <3> QED BY <1>2, <1>6, <3>2, <3>3
  <2>2. ASSUME proc'.at = "pairs"
        PROVE  /\ \A m \in Steps : m < proc'.i => RecordedIn(ck', m)
               /\ \A k \in Steps : OpenIn(ck', k) =>
                    proc'.i <= k /\ ~RecordedIn(ck', k) /\ NullSpan(k)'
    <3>1. proc'.i = i + 1
      BY <1>5, <2>2
    <3>2. \A m \in Steps : m < i => RecordedIn(ck, m)
      BY <1>2 DEF AdoptableIn
    <3>3. \A m \in Steps : m < proc'.i => m < i \/ m = i
      BY <3>1, StepsAre
    <3>4. ASSUME NEW k \in Steps, OpenIn(ck', k)
          PROVE  proc'.i <= k /\ ~RecordedIn(ck', k) /\ NullSpan(k)'
      <4>1. OpenIn(ck, k) /\ k # i /\ i <= k
        BY <1>6, <3>4
      <4>2. i < k /\ i + 1 <= k
        BY <4>1, StepsAre
      <4>3. ~NullSpan(k) \/ RecordedIn(ck, k) => AdoptableIn(ck, i)
        BY <4>1, <4>2 DEF Shape, WalkedLedger
      <4> QED BY <1>2, <1>6, <3>1, <4>1, <4>2, <4>3
    <3> QED BY <1>6, <3>2, <3>3, <3>4
  <2>3. proc'.at \notin Inside /\ ~Ripening(proc')
    BY <1>5 DEF Inside, Ripening
  <2> QED BY <2>1, <2>2, <2>3 DEF WalkedProc
<1> QED BY <1>6, <1>9, <1>10 DEF Shape

(* The shape of the state after a blocked pair.                            *)
LEMMA PairsShape ==
  ASSUME Shape, RecordBlocked
  PROVE  Shape'
PROOF
<1>1. PICK i \in Steps : i = proc.i /\ proc.at = "pairs" /\ UNCHANGED dev
  <2>1. proc.at = "pairs" /\ proc.i <= Len(Flow) /\ UNCHANGED dev
    BY ShapeIs, PairsDoes
  <2> QED BY <2>1, StepsAre DEF Shape, ShapedProc
<1>2. /\ IsProc(proc) /\ log # << >>
      /\ \A m \in Steps : m < i => RecordedIn(ck, m)
      /\ \A k \in Steps : OpenIn(ck, k) =>
           i <= k /\ ~RecordedIn(ck, k) /\ NullSpan(k)
      /\ proc.base \in 0 .. Len(log) /\ proc.call \in 0 .. Len(dev)
      /\ proc.i \in 1 .. Len(Flow) + 1
  BY <1>1 DEF Shape, ShapedProc, WalkedProc
<1>3. \/ RecordedIn(ck, i) /\ Silent /\ proc' = [proc EXCEPT !.i = @ + 1]
      \/ /\ ~RecordedIn(ck, i) /\ OpenIn(ck, i)
         /\ \E ev : Wrote("stepExited", StepPath(i), ev)
         /\ proc' = [proc EXCEPT !.i = @ + 1]
      \/ /\ ~RecordedIn(ck, i) /\ ~OpenIn(ck, i)
         /\ \E ev : Wrote("stepEntered", StepPath(i), ev) /\ ~ev.resolved
         /\ proc' = proc
  BY <1>1, <1>2, PairsDoes, BridgeIs DEF Here
<1>4. ASSUME proc' = [proc EXCEPT !.i = @ + 1]
      PROVE  /\ IsProc(proc') /\ proc'.at = "pairs" /\ proc'.i = i + 1
             /\ proc'.base = proc.base /\ proc'.call = proc.call
             /\ proc'.i \in 1 .. Len(Flow) + 1
  BY <1>1, <1>2, <1>4, StepsAre DEF IsProc, ProcFields
<1>5. ASSUME ShapedLedger', WalkedLedger', IsProc(proc'), proc'.at = "pairs",
             proc'.base = proc.base, proc'.call = proc.call,
             proc'.i \in 1 .. Len(Flow) + 1,
             Len(log') \in {Len(log), Len(log) + 1}, log' # << >>,
             \A m \in Steps : m < proc'.i => RecordedIn(ck', m),
             \A k \in Steps : OpenIn(ck', k) =>
               proc'.i <= k /\ ~RecordedIn(ck', k) /\ NullSpan(k)'
      PROVE  Shape'
  <2>1. proc'.base \in 0 .. Len(log') /\ proc'.call \in 0 .. Len(dev')
    BY <1>1, <1>2, <1>5, ShapeIs
  <2>2. ShapedProc'
    BY <1>5, <2>1 DEF ShapedProc, Acts, Inside
  <2>3. WalkedProc'
    BY <1>5 DEF WalkedProc, Inside, Ripening
  <2> QED BY <1>5, <2>2, <2>3 DEF Shape
<1>6. CASE RecordedIn(ck, i) /\ Silent /\ proc' = [proc EXCEPT !.i = @ + 1]
  <2>1. ShapedLedger' /\ WalkedLedger' /\ InPlace /\ Len(log') = Len(log)
        /\ log' # << >> /\ ck' = ck
    BY <1>2, <1>6, SilentLedger DEF Silent
  <2>2. \A k \in Steps : NullSpan(k)' <=> NullSpan(k)
    BY <2>1 DEF InPlace
  <2>3. /\ IsProc(proc') /\ proc'.at = "pairs" /\ proc'.i = i + 1
        /\ proc'.base = proc.base /\ proc'.call = proc.call
        /\ proc'.i \in 1 .. Len(Flow) + 1
    BY <1>4, <1>6
  <2>4. \A m \in Steps : m < i + 1 => RecordedIn(ck, m)
    <3> TAKE m \in Steps
    <3>1. m < i + 1 => m < i \/ m = i
      BY StepsAre
    <3> QED BY <1>2, <1>6, <3>1
  <2>5. \A k \in Steps : OpenIn(ck, k) => i + 1 <= k
    <3> TAKE k \in Steps
    <3>1. OpenIn(ck, k) => i <= k /\ k # i
      BY <1>2, <1>6
    <3> QED BY <3>1, StepsAre
  <2> QED BY <1>2, <1>5, <2>1, <2>2, <2>3, <2>4, <2>5
<1>7. ASSUME OpenIn(ck, i), NEW ev, Wrote("stepExited", StepPath(i), ev),
             proc' = [proc EXCEPT !.i = @ + 1]
      PROVE  Shape'
  <2>1. TopIs(ck, i)
    BY <1>2, <1>7, FirstOpenIsTop DEF Shape, ShapedLedger, WalkedLedger
  <2>2. /\ ShapedLedger' /\ WalkedLedger'
        /\ \A k \in Steps :
             /\ OpenIn(ck', k) <=> OpenIn(ck, k) /\ k # i
             /\ RecordedIn(ck', k) <=> RecordedIn(ck, k) \/ k = i
             /\ NullSpan(k)' <=> NullSpan(k)
    BY <1>1, <1>2, <1>7, <2>1, ExitedLedger DEF Shape
  <2>3. /\ IsProc(proc') /\ proc'.at = "pairs" /\ proc'.i = i + 1
        /\ proc'.base = proc.base /\ proc'.call = proc.call
        /\ proc'.i \in 1 .. Len(Flow) + 1
    BY <1>4, <1>7
  <2>4. \A m \in Steps : m < i + 1 => RecordedIn(ck', m)
    <3> TAKE m \in Steps
    <3>1. m < i + 1 => m < i \/ m = i
      BY StepsAre
    <3> QED BY <1>2, <2>2, <3>1
  <2>5. \A k \in Steps : OpenIn(ck', k) => i + 1 <= k /\ ~RecordedIn(ck', k) /\ NullSpan(k)'
    <3> TAKE k \in Steps
    <3>1. OpenIn(ck', k) => /\ OpenIn(ck, k) /\ i <= k /\ k # i
                            /\ ~RecordedIn(ck, k) /\ NullSpan(k)
      BY <1>2, <2>2
    <3>2. i <= k /\ k # i => i + 1 <= k
      BY StepsAre
    <3> QED BY <2>2, <3>1, <3>2
  <2>6. Len(log') = Len(log) + 1 /\ log' # << >>
    BY <1>7, ShapeIs, Grows DEF Wrote
  <2> QED BY <1>5, <2>2, <2>3, <2>4, <2>5, <2>6
<1>8. ASSUME ~RecordedIn(ck, i), ~OpenIn(ck, i), NEW ev,
             Wrote("stepEntered", StepPath(i), ev), ~ev.resolved, proc' = proc
      PROVE  Shape'
  <2>1. ~AdoptableIn(ck, i)
    BY <1>8 DEF AdoptableIn
  <2>2. /\ ShapedLedger' /\ WalkedLedger' /\ SameRecords(ck', ck)
        /\ \A k \in Steps : OpenIn(ck', k) <=> OpenIn(ck, k) \/ k = i
        /\ \A k \in Steps : NullSpan(k)' <=> NullSpan(k) \/ (k = i /\ ~ev.resolved)
    BY <1>1, <1>2, <1>8, <2>1, EnteredLedger DEF Shape
  <2>3. \A m \in Steps : m < i => RecordedIn(ck', m)
    BY <1>2, <2>2 DEF SameRecords
  <2>4. \A k \in Steps : OpenIn(ck', k) => i <= k /\ ~RecordedIn(ck', k) /\ NullSpan(k)'
    BY <1>2, <1>8, <2>2, StepsAre DEF SameRecords
  <2>5. Len(log') = Len(log) + 1 /\ log' # << >>
    BY <1>8, ShapeIs, Grows DEF Wrote
  <2> QED BY <1>1, <1>2, <1>5, <1>8, <2>2, <2>3, <2>4, <2>5
<1> QED BY <1>3, <1>6, <1>7, <1>8

-----------------------------------------------------------------------------
(* Requests and responses are positions of the ledger.                     *)
LEMMA RequestsArePositions ==
  ASSUME ShapedLedger
  PROVE  /\ Requests \in SUBSET (1 .. Len(log)) /\ Responses \in SUBSET (1 .. Len(log))
         /\ Len(log) \in Nat
         /\ DOMAIN log = 1 .. Len(log)
PROOF
BY SequenceIs DEF ShapedLedger, Requests, Responses

(* The number of a request tells where it was asked.                       *)
LEMMA RequestIsUnique ==
  ASSUME ShapedLedger, Answered, NEW m \in Requests, NEW n \in Requests,
         log[m].req = log[n].req
  PROVE  m = n
PROOF
<1> DEFINE C(k) == Cardinality({ j \in Requests : j <= k })
<1>1. \A k \in Requests : log[k].req = C(k)
  BY DEF Answered, Ranked
<1>2. ASSUME NEW a \in Requests, NEW b \in Requests, a < b
      PROVE  C(a) # C(b)
  <2>1. a \in Nat /\ Requests \in SUBSET (1 .. Len(log)) /\ Len(log) \in Nat
    BY RequestsArePositions
  <2>2. /\ Cardinality({ j \in Requests : j <= a }) \in Nat
        /\ Cardinality({ j \in Requests : j <= b }) \in Nat
    <3>1. a \in Int /\ b \in Int
      BY <2>1
    <3> QED BY <2>1, <3>1, CountBelow
  <2>3. Cardinality({ j \in Requests : j <= a }) < Cardinality({ j \in Requests : j <= b })
    BY <1>2, <2>1, CountAscends
  <2> QED BY <2>2, <2>3
<1>3. m \in Nat /\ n \in Nat
  BY RequestsArePositions
<1> HIDE DEF C
<1> QED BY <1>1, <1>2, <1>3

(* What answers a request in a part of the ledger.                         *)
LEMMA AnswerIs ==
  ASSUME ShapedLedger, NEW h, IsSequence(h), Len(h) <= Len(log),
         \A n \in DOMAIN h : h[n] = log[n], NEW r
  PROVE  \/ /\ AnswerTo(h, r) = NoPending
            /\ \A a \in Final(r) : a > Len(h)
         \/ \E a \in Final(r) : a <= Len(h) /\ AnswerTo(h, r) = log[a].decision
PROOF
<1> DEFINE A == { n \in DOMAIN h : /\ h[n].type = "humanResponded"
                                   /\ h[n].req = r
                                   /\ ~RetainsRequest(h[n]) }
<1>1. /\ Len(h) \in Nat /\ DOMAIN h = 1 .. Len(h)
      /\ Len(log) \in Nat /\ DOMAIN log = 1 .. Len(log)
  BY SequenceIs DEF ShapedLedger
<1>2. A = { a \in Final(r) : a <= Len(h) }
  BY <1>1 DEF Final, Responses
<1>3. AnswerTo(h, r) = IF A = { } THEN NoPending ELSE h[Max(A)].decision
  BY DEF AnswerTo
<1>4. A \in SUBSET (1 .. Len(h))
  BY <1>1
<1>5. \A a \in Final(r) : a \in Nat
  BY <1>1 DEF Final, Responses
<1> HIDE DEF A
<1>6. CASE A = { }
  BY <1>1, <1>2, <1>3, <1>5, <1>6
<1>7. CASE A # { }
  <2>1. Max(A) \in A
    BY <1>1, <1>4, <1>7, MaxIs
  <2>2. h[Max(A)] = log[Max(A)]
    BY <1>1, <1>4, <2>1
  <2> QED BY <1>2, <1>3, <1>7, <2>1, <2>2
<1> QED BY <1>6, <1>7

(* The requests of a part of the ledger.                                   *)
LEMMA PartIs ==
  ASSUME ShapedLedger, NEW b \in 0 .. Len(log)
  PROVE  LET h == SubSeq(log, 1, b)
         IN  /\ IsSequence(h) /\ Len(h) = b /\ Len(h) <= Len(log)
             /\ \A n \in DOMAIN h : h[n] = log[n]
PROOF
<1>1. IsSequence(log) /\ Len(log) \in Nat
  BY SequenceIs DEF ShapedLedger
<1>2. LET h == SubSeq(log, 1, b)
      IN  /\ IsSequence(h) /\ Len(h) = b /\ DOMAIN h = 1 .. b
          /\ \A n \in 1 .. b : h[n] = log[n]
  BY <1>1, PrefixIs
<1> QED BY <1>1, <1>2

(* The human asked by an escalation answers in the vocabulary of rulings.  *)
LEMMA AskedRulings ==
  ASSUME ShapedLedger, proc.base \in 0 .. Len(log), Answered, NEW n \in Asked(proc)
  PROVE  AnswerTo(Prefix, log[n].req) \in Rulings
PROOF
<1> PICK path, hook, trigger :
      /\ path = HookPath(proc.i, hook, trigger, "human")
      /\ n \in RequestsAt(Prefix, path)
  BY DEF Asked
<1>1. IsSequence(log)
  BY DEF ShapedLedger
<1>2. n \in Requests /\ SameInstance(log[n].path, path)
  <2>1. RequestsAt(Prefix, path)
          = { m \in Entries(log, "humanRequested", path) : m <= proc.base }
    BY <1>1, EntriesOfPrefix DEF RequestsAt, Prefix
  <2> QED BY <2>1 DEF Entries, Requests
<1>3. Len(path) = 4 /\ path[4].id = "human"
  BY HookPathIs
<1>4. Len(log[n].path) = 4 /\ log[n].path[4].id = "human"
  BY <1>2, <1>3 DEF SameInstance, SitePrefix, SameSite
<1>5. EscalationRequest(log[n])
  <2>1. GateRequest(log[n]) \/ EscalationRequest(log[n]) \/ AdjudicationRequest(log[n])
    BY <1>2 DEF Answered, Declared
  <2>2. ~GateRequest(log[n])
    BY <1>4, StepPathIs DEF GateRequest
  <2>3. ~AdjudicationRequest(log[n])
    BY <1>4 DEF AdjudicationRequest, HookRequest
  <2> QED BY <2>1, <2>2, <2>3
<1>6. CASE AnswerTo(Prefix, log[n].req) = NoPending
  BY <1>6 DEF Rulings
<1>7. ASSUME NEW a \in Final(log[n].req),
             AnswerTo(Prefix, log[n].req) = log[a].decision
      PROVE  log[a].decision \in Rulings
  <2>1. a \in Responses /\ log[a].req = log[n].req
    BY <1>7 DEF Final
  <2>2. PICK q \in Requests : AnswersRequest(a, q)
    BY <2>1 DEF Answered
  <2>3. q = n
    BY <1>2, <2>1, <2>2, RequestIsUnique DEF AnswersRequest
  <2> QED BY <1>5, <2>2, <2>3 DEF AnswersRequest, EscalationRequest, Rulings
<1>8. \/ AnswerTo(Prefix, log[n].req) = NoPending
      \/ \E a \in Final(log[n].req) : AnswerTo(Prefix, log[n].req) = log[a].decision
  <2>1. /\ IsSequence(Prefix) /\ Len(Prefix) <= Len(log)
        /\ \A m \in DOMAIN Prefix : Prefix[m] = log[m]
    BY PartIs DEF Prefix
  <2> QED BY <2>1, AnswerIs
<1> QED BY <1>6, <1>7, <1>8

-----------------------------------------------------------------------------
(* Requests and answers, step by step.                                     *)
LEMMA AnsweredQuietly ==
  ASSUME Answered, UNCHANGED << log, ck >>, Calls \subseteq Calls'
  PROVE  Answered'
PROOF
<1>1. Requests' = Requests /\ Responses' = Responses
  BY DEF Requests, Responses
<1>2. ASSUME NEW n \in Requests
      PROVE  Ranked(n)' /\ Declared(n)' /\ AnsweredOnce(n)'
  <2>1. Ranked(n) /\ Declared(n) /\ AnsweredOnce(n)
    BY DEF Answered
  <2>2. Ranked(n)'
    BY <1>1, <2>1 DEF Ranked
  <2>3. Declared(n)'
    BY <2>1 DEF Declared, GateRequest, EscalationRequest, AdjudicationRequest, HookRequest
  <2>4. AnsweredOnce(n)'
    BY <1>1, <2>1 DEF AnsweredOnce, Final
  <2> QED BY <2>2, <2>3, <2>4
<1>3. \A a \in Responses : \E q \in Requests : AnswersRequest(a, q)'
  BY DEF Answered, AnswersRequest
<1>4. ck'.pending # NoPending => \E q \in Requests : Pends(q)'
  BY <1>1 DEF Answered, Pends, Final
<1> QED BY <1>1, <1>2, <1>3, <1>4 DEF Answered

(* An entry neither asks nor answers.                                      *)
LEMMA AnsweredApart ==
  ASSUME ShapedLedger, Answered, NEW ev, Write(ev),
         ev.type \notin {"humanRequested", "humanResponded"},
         ck'.pending \in {ck.pending, NoPending}, Calls \subseteq Calls'
  PROVE  Answered'
PROOF
<1>1. /\ \A n \in DOMAIN log : log'[n] = log[n]
      /\ Requests' = Requests /\ Responses' = Responses
      /\ Requests \subseteq DOMAIN log /\ Responses \subseteq DOMAIN log
  <2>1. /\ DOMAIN log = 1 .. Len(log) /\ DOMAIN log' = 1 .. Len(log) + 1
        /\ \A n \in DOMAIN log : log'[n] = log[n]
        /\ log'[Len(log) + 1] = ev /\ Len(log) \in Nat
    BY Grows DEF ShapedLedger
  <2> QED BY <2>1 DEF Requests, Responses
<1>2. \A r : Final(r)' = Final(r)
  BY <1>1 DEF Final
<1>3. ASSUME NEW n \in Requests
      PROVE  Ranked(n)' /\ Declared(n)' /\ AnsweredOnce(n)'
  <2>1. log'[n] = log[n] /\ Ranked(n) /\ Declared(n) /\ AnsweredOnce(n)
    BY <1>1 DEF Answered
  <2>2. Ranked(n)'
    BY <1>1, <2>1 DEF Ranked
  <2>3. Declared(n)'
    BY <2>1 DEF Declared, GateRequest, EscalationRequest, AdjudicationRequest, HookRequest
  <2>4. AnsweredOnce(n)'
    BY <1>1, <2>1 DEF AnsweredOnce, Final
  <2> QED BY <2>2, <2>3, <2>4
<1>4. \A a \in Responses : \E q \in Requests : AnswersRequest(a, q)'
  BY <1>1 DEF Answered, AnswersRequest
<1>5. ck'.pending # NoPending => \E q \in Requests : Pends(q)'
  BY <1>1, <1>2 DEF Answered, Pends
<1> QED BY <1>1, <1>3, <1>4, <1>5 DEF Answered

-----------------------------------------------------------------------------
(* The numbers of requests rise.                                           *)
LEMMA RequestsRise ==
  ASSUME ShapedLedger, Answered, NEW n \in Requests
  PROVE  log[n].req < NextRequest
PROOF
<1>1. Requests \in SUBSET (1 .. Len(log)) /\ Len(log) \in Nat /\ n \in Int
  BY RequestsArePositions
<1>2. /\ Cardinality({ j \in Requests : j <= n }) \in Nat
      /\ Cardinality({ j \in Requests : j <= n }) <= Cardinality(Requests)
      /\ Cardinality(Requests) \in Nat
  BY <1>1, CountBelow, CountIs
<1>3. log[n].req = Cardinality({ j \in Requests : j <= n })
  BY DEF Answered, Ranked
<1>4. NextRequest = 1 + Cardinality(Requests)
  BY DEF NextRequest, Requests
<1> QED BY <1>2, <1>3, <1>4

(* Requests stay numbered and answered when one is asked.                  *)
LEMMA AnsweredAsk ==
  ASSUME ShapedLedger, Answered, NEW ev, Write(ev), UNCHANGED dev,
         ev.type = "humanRequested", ev.req = NextRequest,
         GateRequest(ev) \/ EscalationRequest(ev) \/ AdjudicationRequest(ev),
         ck'.pending.req = ev.req, ck'.pending.path = ev.path,
         ck'.pending.purpose = ev.purpose
  PROVE  Answered'
PROOF
<1> PICK L \in Nat : L = Len(log) + 1
  BY RequestsArePositions
<1>1. /\ DOMAIN log = 1 .. Len(log) /\ DOMAIN log' = 1 .. L
      /\ \A n \in DOMAIN log : log'[n] = log[n]
      /\ log'[L] = ev /\ Len(log) \in Nat
  BY Grows DEF ShapedLedger
<1>2. /\ Requests' = Requests \union {L} /\ Responses' = Responses
      /\ Requests \subseteq DOMAIN log /\ Responses \subseteq DOMAIN log
  BY <1>1 DEF Requests, Responses
<1>3. \A r : Final(r)' = Final(r)
  BY <1>1, <1>2 DEF Final
<1>4. ASSUME NEW n \in Requests
      PROVE  Ranked(n)' /\ Declared(n)' /\ AnsweredOnce(n)'
  <2>1. /\ log'[n] = log[n] /\ n \in 1 .. Len(log)
        /\ Ranked(n) /\ Declared(n) /\ AnsweredOnce(n)
    BY <1>1, <1>2 DEF Answered
  <2>2. { m \in Requests' : m <= n } = { m \in Requests : m <= n }
    <3>1. ~(L <= n)
      BY <1>1, <2>1
    <3> QED BY <1>2, <3>1, Zenon
  <2>3. Ranked(n)'
    BY <2>1, <2>2 DEF Ranked
  <2>4. Declared(n)'
    BY <2>1 DEF Declared, GateRequest, EscalationRequest, AdjudicationRequest,
                HookRequest, Calls
  <2>5. AnsweredOnce(n)'
    BY <1>1, <1>2, <2>1 DEF AnsweredOnce, Final
  <2> QED BY <2>3, <2>4, <2>5
<1>5. Final(ev.req) = { }
  <2>1. SUFFICES ASSUME NEW a \in Final(ev.req) PROVE FALSE
    OBVIOUS
  <2>2. a \in Responses /\ log[a].req = ev.req
    BY <2>1 DEF Final
  <2>3. PICK q \in Requests : log[q].req = ev.req
    BY <2>2 DEF Answered, AnswersRequest
  <2>4. log[q].req < NextRequest
    BY RequestsRise
  <2>5. log[q].req \in Nat
    <3>1. q \in Int /\ Requests \in SUBSET (1 .. Len(log))
      BY RequestsArePositions
    <3>2. Cardinality({ m \in Requests : m <= q }) \in Nat
      BY <1>1, <3>1, CountBelow
    <3> QED BY <3>2 DEF Answered, Ranked
  <2> QED BY <2>3, <2>4, <2>5
<1>6. Ranked(L)' /\ Declared(L)' /\ AnsweredOnce(L)'
  <2>1. { m \in Requests' : m <= L } = Requests \union {L}
    <3>1. \A m \in Requests \union {L} : m <= L
      BY <1>1, <1>2
    <3> QED BY <1>2, <3>1, Zenon
  <2>2. Cardinality(Requests \union {L}) = Cardinality(Requests) + 1
        /\ Cardinality(Requests) \in Nat
    BY <1>1, <1>2, CountGrows, CountIs
  <2>3. NextRequest = 1 + Cardinality(Requests)
    BY DEF NextRequest, Requests
  <2>4. log'[L].req = Cardinality(Requests \union {L})
    BY <1>1, <2>2, <2>3
  <2>5. Ranked(L)'
    BY <2>1, <2>4, Zenon DEF Ranked
  <2>6. Declared(L)'
    BY <1>1 DEF Declared, GateRequest, EscalationRequest, AdjudicationRequest,
                HookRequest, Calls
  <2>7. AnsweredOnce(L)'
    BY <1>1, <1>2, <1>5 DEF AnsweredOnce, Final
  <2> QED BY <2>5, <2>6, <2>7
<1>7. \A a \in Responses : \E q \in Requests : AnswersRequest(a, q)'
  BY <1>1, <1>2 DEF Answered, AnswersRequest
<1>8. Pends(L)'
  <2>1. Final(log[L].req)' = { }
    <3>1. Final(log[L].req)' = { a \in Responses' : log'[a].req = log'[L].req
                                                    /\ ~RetainsRequest(log'[a]) }
      BY DEF Final
    <3> QED BY <1>1, <1>2, <1>5, <3>1 DEF Final
  <2> QED BY <1>1, <2>1 DEF Pends
<1> QED BY <1>2, <1>4, <1>6, <1>7, <1>8 DEF Answered

(* Requests stay numbered and answered when one is answered.               *)
LEMMA AnsweredRespond ==
  ASSUME ShapedLedger, Answered, NEW ev, Write(ev), UNCHANGED dev,
         ck.pending # NoPending, ev.type = "humanResponded",
         ev.path = ck.pending.path, ev.req = ck.pending.req,
         ev.purpose = ck.pending.purpose,
         \E n \in DOMAIN log : /\ log[n].type = "humanRequested"
                               /\ log[n].req = ck.pending.req
                               /\ ev.decision \in log[n].decisions,
         ck'.pending = IF RetainsRequest(ev) THEN ck.pending ELSE NoPending
  PROVE  Answered'
PROOF
<1> PICK L \in Nat : L = Len(log) + 1
  BY RequestsArePositions
<1>1. /\ DOMAIN log = 1 .. Len(log) /\ DOMAIN log' = 1 .. L
      /\ \A n \in DOMAIN log : log'[n] = log[n]
      /\ log'[L] = ev /\ Len(log) \in Nat
  BY Grows DEF ShapedLedger
<1>2. /\ Requests' = Requests /\ Responses' = Responses \union {L}
      /\ Requests \subseteq DOMAIN log /\ Responses \subseteq DOMAIN log
  BY <1>1 DEF Requests, Responses
<1>3. PICK q \in Requests : Pends(q)
  BY DEF Answered
<1>4. ev.decision \in log[q].decisions
  <2>1. PICK n \in Requests : log[n].req = ck.pending.req /\ ev.decision \in log[n].decisions
    BY DEF Requests
  <2>2. n = q
    BY <1>3, <2>1, RequestIsUnique DEF Pends
  <2> QED BY <2>1, <2>2
<1>5. ASSUME NEW r
      PROVE  { a \in Responses' : log'[a].req = r /\ ~RetainsRequest(log'[a]) }
               = IF r = ev.req /\ ~RetainsRequest(ev) THEN Final(r) \union {L} ELSE Final(r)
  <2>1. \A a \in Responses : log'[a] = log[a]
    BY <1>1, <1>2
  <2>2. log'[L] = ev
    BY <1>1
  <2> QED BY <1>2, <2>1, <2>2 DEF Final
<1>6. Final(ev.req) = { }
  BY <1>3 DEF Pends
<1>7. ASSUME NEW n \in Requests
      PROVE  Ranked(n)' /\ Declared(n)' /\ AnsweredOnce(n)'
  <2>1. log'[n] = log[n] /\ Ranked(n) /\ Declared(n) /\ AnsweredOnce(n)
    BY <1>1, <1>2 DEF Answered
  <2>2. Ranked(n)'
    BY <1>2, <2>1 DEF Ranked
  <2>3. Declared(n)'
    BY <2>1 DEF Declared, GateRequest, EscalationRequest, AdjudicationRequest,
                HookRequest, Calls
  <2>4. Final(log[n].req)' = { a \in Responses' : log'[a].req = log'[n].req
                                                  /\ ~RetainsRequest(log'[a]) }
    BY DEF Final
  <2>5. Final(log[n].req)' = IF log[n].req = ev.req /\ ~RetainsRequest(ev)
                             THEN {L} ELSE Final(log[n].req)
    BY <1>5, <1>6, <2>1, <2>4
  <2>6. AnsweredOnce(n)'
    BY <2>1, <2>5 DEF AnsweredOnce
  <2> QED BY <2>2, <2>3, <2>6
<1>8. \A a \in Responses' : \E p \in Requests' : AnswersRequest(a, p)'
  <2>1. AnswersRequest(L, q)'
    <3>1. log'[q] = log[q] /\ log'[L] = ev /\ q < L
      BY <1>1, <1>2
    <3> QED BY <1>3, <1>4, <3>1 DEF AnswersRequest, Pends
  <2>2. \A a \in Responses : \E p \in Requests : AnswersRequest(a, p)'
    BY <1>1, <1>2 DEF Answered, AnswersRequest
  <2> QED BY <1>2, <2>1, <2>2
<1>9. ck'.pending # NoPending => Pends(q)'
  <2>1. SUFFICES ASSUME ck'.pending # NoPending PROVE Pends(q)'
    OBVIOUS
  <2>2. RetainsRequest(ev) /\ ck'.pending = ck.pending
    BY <2>1
  <2>3. log'[q] = log[q]
    BY <1>1, <1>2
  <2>4. Final(log[q].req)' = { a \in Responses' : log'[a].req = log'[q].req
                                                  /\ ~RetainsRequest(log'[a]) }
    BY DEF Final
  <2>5. Final(log[q].req)' = { }
    BY <1>3, <1>5, <2>2, <2>3, <2>4 DEF Pends
  <2> QED BY <1>3, <2>2, <2>3, <2>5 DEF Pends
<1> QED BY <1>2, <1>3, <1>7, <1>8, <1>9 DEF Answered

-----------------------------------------------------------------------------
Apart == {"runStarted", "stepEntered", "actionIntent", "actionSettled",
          "verdictRecorded", "stepExited", "handlerTriggered", "runSuspended",
          "runResumed", "runFinished"}

(* What neither asks nor answers leaves the pending request, or drops it.  *)
LEMMA PendingKept ==
  ASSUME NEW st, IsFold(st), NEW ev, IsFold(FoldStep(st, ev)), ev.type \in Apart
  PROVE  FoldStep(st, ev).pending \in {st.pending, NoPending}
PROOF
<1>1. FoldStep(st, ev) = Apply(st, ev)
  BY FoldIsSome DEF FoldStep
<1>2. DOMAIN st = StateFields
  BY DEF IsFold
<1>3. CASE ev.type = "runStarted"
  BY <1>1, <1>2, <1>3 DEF Apply, RunStartedArm, StateFields
<1>4. CASE ev.type = "stepEntered"
  BY <1>1, <1>2, <1>4 DEF Apply, StepEnteredArm, StateFields
<1>5. CASE ev.type = "actionIntent"
  BY <1>1, <1>2, <1>5 DEF Apply, ActionIntentArm, StateFields
<1>6. CASE ev.type = "actionSettled"
  BY <1>1, <1>2, <1>6 DEF Apply, ActionSettledArm, StateFields
<1>7. CASE ev.type = "verdictRecorded"
  BY <1>1, <1>2, <1>7 DEF Apply, VerdictRecordedArm, StateFields
<1>8. CASE ev.type = "stepExited"
  BY <1>1, <1>2, <1>8 DEF Apply, StepExitedArm, StateFields
<1>9. CASE ev.type = "handlerTriggered"
  BY <1>1, <1>9 DEF Apply
<1>10. CASE ev.type = "runSuspended"
  BY <1>1, <1>2, <1>10 DEF Apply, RunSuspendedArm, StateFields
<1>11. CASE ev.type = "runResumed"
  BY <1>1, <1>2, <1>11 DEF Apply, RunResumedArm, StateFields
<1>12. CASE ev.type = "runFinished"
  BY <1>1, <1>2, <1>12 DEF Apply, RunFinishedArm, StateFields
<1> QED BY <1>3, <1>4, <1>5, <1>6, <1>7, <1>8, <1>9, <1>10, <1>11, <1>12 DEF Apart

(* The ledger's invariant after an entry that neither asks nor answers.    *)
LEMMA ApartAnswered ==
  ASSUME Ledger, Shape', NEW ev, Write(ev), ev.type \in Apart, Calls \subseteq Calls'
  PROVE  Ledger'
PROOF
<1>1. /\ ShapedLedger /\ Answered /\ IsFold(ck) /\ IsFold(ck') /\ IsSequence(log)
  BY DEF Ledger, Shape, ShapedLedger
<1>2. ck' = FoldStep(ck, ev)
  BY <1>1, Grows
<1>3. ck'.pending \in {ck.pending, NoPending}
  BY <1>1, <1>2, PendingKept
<1>4. Answered'
  BY <1>1, <1>3, AnsweredApart DEF Apart
<1> QED BY <1>4 DEF Ledger, Shape

(* The ledger's invariant when nothing is written.                         *)
LEMMA QuietAnswered ==
  ASSUME Ledger, Shape', UNCHANGED << log, ck >>, Calls \subseteq Calls'
  PROVE  Ledger'
PROOF
BY AnsweredQuietly DEF Ledger, Shape

(* The ledger's invariant after a request.                                 *)
LEMMA AskAnswered ==
  ASSUME Ledger, Shape', NEW path, NEW ev, Wrote("humanRequested", path, ev),
         ev.req = NextRequest, UNCHANGED dev,
         GateRequest(ev) \/ EscalationRequest(ev) \/ AdjudicationRequest(ev)
  PROVE  Ledger'
PROOF
<1>1. Write(ev) /\ ev.type = "humanRequested" /\ ev.path = path
  BY DEF Wrote
<1>2. ShapedLedger /\ Answered /\ IsFold(ck) /\ IsSequence(log)
  BY DEF Ledger, ShapedLedger
<1>3. ck' = FoldStep(ck, ev)
  BY <1>1, <1>2, Grows
<1>4. ck.started
  <2>1. IsFold(FoldStep(ck, ev))
    BY <1>3 DEF Shape, ShapedLedger
  <2>2. ApplyError(ck, ev) = "none"
    BY <1>2, <2>1, FoldIsSome DEF FoldStep
  <2> QED BY <1>1, <2>2 DEF ApplyError
<1>5. /\ ck'.pending.req = ev.req /\ ck'.pending.path = ev.path
      /\ ck'.pending.purpose = ev.purpose
  <2>1. ck'.pending = [ path |-> ev.path, req |-> ev.req,
                        purpose |-> ev.purpose, deadline |-> ev.deadline ]
    BY <1>1, <1>2, <1>3, <1>4, HumanRequestedIs
  <2> QED BY <2>1
<1>6. Answered'
  BY <1>1, <1>2, <1>5, AnsweredAsk
<1> QED BY <1>6 DEF Ledger, Shape

-----------------------------------------------------------------------------
(* One lemma per action that asks or answers.                              *)
LEMMA GateLedger ==
  ASSUME Ledger, GateSupervision
  PROVE  Ledger'
PROOF
<1>1. Shape /\ Shape'
  BY GateShape DEF Ledger, Shape
<1>2. /\ proc.at = "gate"
      /\ \/ Silent
         \/ /\ Supervised(proc.i) /\ UNCHANGED dev
            /\ \E ev : /\ Wrote("humanRequested", Here, ev)
                       /\ ev = Request(Here, "supervision", 0, FALSE,
                                       {"proceed", "abort", "suspend"})
  BY <1>1, ShapeIs, GateDoes
<1>3. CASE Silent
  BY <1>1, <1>3, QuietAnswered DEF Silent, Calls
<1>4. ASSUME Supervised(proc.i), UNCHANGED dev, NEW ev,
             Wrote("humanRequested", Here, ev),
             ev = Request(Here, "supervision", 0, FALSE, {"proceed", "abort", "suspend"})
      PROVE  Ledger'
  <2>1. /\ ev.path = Here /\ ev.req = NextRequest /\ ev.purpose = "supervision"
        /\ ev.call = 0 /\ ev.decisions = {"proceed", "abort", "suspend"}
    BY <1>4 DEF Request
  <2>2. proc.i \in Steps
    BY <1>1, <1>2, ShapeIs DEF Inside
  <2>3. GateRequest(ev)
    BY <1>4, <2>1, <2>2 DEF GateRequest, Here
  <2> QED BY <1>1, <1>4, <2>1, <2>3, AskAnswered
<1> QED BY <1>2, <1>3, <1>4

(* ... of an escalation.                                                   *)
LEMMA AskLedger ==
  ASSUME Ledger, AskEscalation
  PROVE  Ledger'
PROOF
<1>1. Shape /\ Shape'
  BY AskEscalationShape DEF Ledger, Shape
<1>2. PICK ev, path, decisions :
        /\ path = HookPath(proc.i, Hook(proc), Triggers(proc.i, Hook(proc)), "human")
        /\ Wrote("humanRequested", path, ev)
        /\ ev = Request(path, "step", 0, TRUE, decisions)
        /\ decisions \in {{"pass", "fail", "unknown"}, {"done", "cannotRepair"}}
  BY <1>1, ShapeIs, AskDoes
<1>3. UNCHANGED dev
  BY <1>1, ShapeIs, AskDoes
<1>4. /\ ev.path = path /\ ev.req = NextRequest /\ ev.purpose = "step"
      /\ ev.call = 0 /\ ev.decisions = decisions
  BY <1>2 DEF Request
<1>5. Len(path) = 4 /\ path[4].id = "human"
  BY <1>2, HookPathIs
<1>6. EscalationRequest(ev)
  BY <1>2, <1>4, <1>5 DEF EscalationRequest, HookRequest
<1> QED BY <1>1, <1>2, <1>3, <1>4, <1>6, AskAnswered

(* ... of an adjudication.                                                 *)
LEMMA AdjudicateLedger ==
  ASSUME Ledger, AskAdjudication
  PROVE  Ledger'
PROOF
<1>1. Shape /\ Shape'
  BY AskEscalationShape DEF Ledger, Shape
<1>2. PICK ev : /\ Wrote("humanRequested", AdjudicatePath, ev)
                /\ ev = Request(AdjudicatePath, "step", ck.frontier.intent, FALSE,
                                {"adopt", "redo", "abort"})
  BY <1>1, ShapeIs, AdjudicateDoes
<1>3. UNCHANGED dev /\ ck.frontier.intent \in Calls
  BY <1>1, ShapeIs, AdjudicateDoes DEF Shape, ShapedProc
<1>4. /\ ev.path = AdjudicatePath /\ ev.req = NextRequest /\ ev.purpose = "step"
      /\ ev.call = ck.frontier.intent /\ ev.decisions = {"adopt", "redo", "abort"}
  BY <1>2 DEF Request
<1>5. Len(AdjudicatePath) = 4 /\ AdjudicatePath[4].id = "adjudicate"
  BY HookPathIs DEF AdjudicatePath
<1>6. AdjudicationRequest(ev)
  BY <1>3, <1>4, <1>5 DEF AdjudicationRequest, HookRequest
<1> QED BY <1>1, <1>2, <1>3, <1>4, <1>6, AskAnswered

(* The ledger's invariant after an answer.                                 *)
LEMMA RespondLedger ==
  ASSUME Ledger, NEW decision, Respond(decision)
  PROVE  Ledger'
PROOF
<1>1. Shape /\ Answered /\ ShapedLedger
  BY DEF Ledger, Shape
<1>2. PICK ev : /\ Wrote("humanResponded", ck.pending.path, ev)
                /\ ev.req = ck.pending.req /\ ev.purpose = ck.pending.purpose
                /\ ev.decision = decision
  BY RespondDoes
<1>3. /\ ck.pending # NoPending /\ UNCHANGED << dev, late, proc >>
      /\ \E n \in DOMAIN log : /\ log[n].type = "humanRequested"
                               /\ log[n].req = ck.pending.req
                               /\ decision \in log[n].decisions
  BY RespondDoes
<1>4. log # << >>
  BY <1>3, EmptyIs
<1>5. Shape'
  BY <1>1, <1>4, RespondShape
<1>6. /\ Write(ev) /\ ev.type = "humanResponded" /\ ck.started /\ IsFold(ck)
      /\ ck' = FoldStep(ck, ev) /\ ev.path = ck.pending.path
  BY <1>1, <1>2, <1>4, Grows DEF Wrote, ShapedLedger
<1>7. ck'.pending = IF RetainsRequest(ev) THEN ck.pending ELSE NoPending
  BY <1>2, <1>3, <1>6, HumanRespondedIs
<1>8. Answered'
  BY <1>1, <1>2, <1>3, <1>6, <1>7, AnsweredRespond
<1> QED BY <1>5, <1>8 DEF Ledger, Shape

-----------------------------------------------------------------------------
(* The ledger's invariant holds at first.                                  *)
LEMMA LedgerInit ==
  ASSUME Init
  PROVE  Ledger
PROOF
<1>1. /\ log = << >> /\ dev = << >> /\ proc = Down
      /\ ck = Seed(MetaHash, NoSession)
  BY DEF Init
<1>2. /\ IsFold(ck) /\ ~ck.started /\ ck.inFlight = << >> /\ ck.completed = << >>
      /\ ck.frontier.intent = NoIntent /\ ck.pending = NoPending
  BY <1>1, SeedIs
<1>3. ShapedLedger
  BY <1>1, <1>2, EmptyIs DEF ShapedLedger
<1>4. ShapedProc
  <2>1. /\ IsProc(proc) /\ proc.at = "down" /\ proc.i = 1 /\ proc.base = 0
        /\ proc.call = 0
    BY <1>1, DownIs
  <2>2. Len(log) = 0 /\ Len(dev) = 0
    BY <1>1, EmptyIs
  <2> QED BY <2>1, <2>2, FirstStep DEF ShapedProc, Acts, Inside
<1>5. Answered
  <2>1. Requests = { } /\ Responses = { }
    BY <1>1, EmptyIs DEF Requests, Responses
  <2> QED BY <1>2, <2>1 DEF Answered
<1>6. WalkedLedger
  <2>1. DOMAIN ck.inFlight = { } /\ DOMAIN ck.completed = { } /\ DOMAIN log = { }
    BY <1>1, <1>2, EmptyIs
  <2>2. Stacked(ck)
    BY <2>1 DEF Stacked
  <2>3. ASSUME NEW k \in Steps
        PROVE  ~OpenIn(ck, k) /\ ~AdoptableIn(ck, k) /\ ~Worked(k)
    BY <2>1 DEF OpenIn, InFlightAt, AdoptableIn, RecordedIn, CompletedAt, Worked, At,
                Entries
  <2> QED BY <2>2, <2>3 DEF WalkedLedger
<1>7. WalkedProc
  BY <1>1, DownIs DEF WalkedProc, Inside, Ripening
<1> QED BY <1>3, <1>4, <1>5, <1>6, <1>7 DEF Ledger

(* What the actions that neither ask nor answer write.                     *)
LEMMA OtherLedger ==
  ASSUME Ledger, Shape', Calls \subseteq Calls',
         \/ UNCHANGED << log, ck >>
         \/ \E ev : Write(ev) /\ ev.type \in Apart
  PROVE  Ledger'
PROOF
BY ApartAnswered, QuietAnswered

(* The walk keeps the ledger's invariant.                                  *)
LEMMA WalkLedgerNext ==
  ASSUME Ledger,
         StartRun \/ AdoptStep \/ EnterStep \/ ExitStep \/ RecordBlocked
           \/ FinishRun \/ SuspendRun \/ Crash \/ Resume
  PROVE  Ledger'
PROOF
<1>1. Shape /\ IsProc(proc)
  BY ShapeIs DEF Ledger, Shape
<1>2. Shape'
  BY <1>1, StartShape, AdoptShape, EnterShape, ExitShape, PairsShape, EndShape, ResumeShape
<1>3. UNCHANGED dev
  BY DEF StartRun, AdoptStep, EnterStep, ExitStep, RecordBlocked, FinishRun, SuspendRun,
         Crash, Resume
<1>4. \/ UNCHANGED << log, ck >>
      \/ \E ev : Write(ev) /\ ev.type \in Apart
  <2>1. CASE StartRun
    BY <2>1, StartDoes DEF Wrote, Apart
  <2>2. CASE AdoptStep
    BY <2>2 DEF AdoptStep
  <2>3. CASE EnterStep
    BY <1>1, <2>3, EnterStepDoes DEF Wrote, Apart
  <2>4. CASE ExitStep
    <3>1. proc.ctl \in {"continue", "halt", "abort"}
      BY <1>1, <2>4 DEF ExitStep, Shape, ShapedProc, Leaving
    <3> QED BY <1>1, <2>4, <3>1, ExitDoes DEF Wrote, Apart
  <2>5. CASE RecordBlocked
    BY <1>1, <2>5, PairsDoes DEF Wrote, Apart, Silent
  <2>6. CASE FinishRun \/ SuspendRun
    BY <2>6, FinishDoes, SuspendDoes DEF Wrote, Apart
  <2>7. CASE Crash
    BY <2>7 DEF Crash
  <2>8. CASE Resume
    BY <2>8, ResumeDoes DEF Wrote, Apart
  <2> QED BY <2>1, <2>2, <2>3, <2>4, <2>5, <2>6, <2>7, <2>8
<1> QED BY <1>2, <1>3, <1>4, OtherLedger DEF Calls

(* The acts inside a step keep it.                                         *)
LEMMA ActLedgerNext ==
  ASSUME Ledger,
         WriteIntent \/ Dispatch \/ Settle \/ AdoptTerminal
           \/ (\E v \in Judgments : Judge(v)) \/ RecordNegative \/ Supersede
           \/ RetryInForce \/ ContinueEscalation \/ ConsultHook
           \/ StopRequested \/ NoTerminal
  PROVE  Ledger'
PROOF
<1>1. /\ Shape /\ IsProc(proc) /\ Answered /\ ShapedLedger
      /\ proc.base \in 0 .. Len(log)
  BY ShapeIs DEF Ledger, Shape, ShapedProc
<1>2. Shape' /\ Calls \subseteq Calls'
  <2>1. CASE WriteIntent
    <3>1. PICK d : dev' = Append(dev, d)
      BY <1>1, <2>1, WriteIntentDoes
    <3>2. IsSequence(dev)
      BY <1>1 DEF ShapedLedger
    <3>3. Calls \subseteq Calls'
      BY <3>1, <3>2, AppendIs DEF Calls
    <3> QED BY <1>1, <2>1, <3>3, IntentShape
  <2>2. CASE Dispatch
    BY <1>1, <2>2, DispatchShape
  <2>3. CASE \/ Settle \/ AdoptTerminal \/ RecordNegative \/ Supersede
             \/ \E v \in Judgments : Judge(v)
    <3>1. UNCHANGED dev
      BY <1>1, <2>3, SettleDoes, VerdictDoes
    <3> QED BY <1>1, <2>3, <3>1, SettleShape, VerdictShape DEF Calls
  <2>4. CASE RetryInForce \/ ContinueEscalation \/ ConsultHook \/ StopRequested \/ NoTerminal
    <3>1. UNCHANGED dev
      BY <2>4 DEF RetryInForce, ContinueEscalation, ConsultHook, StopRequested, NoTerminal
    <3>2. \A n \in Asked(proc) : AnswerTo(Prefix, log[n].req) \in Rulings
      BY <1>1, AskedRulings
    <3> QED BY <1>1, <2>4, <3>1, <3>2, RetryShape, ContinueShape, ConsultShape,
               DisruptionShape DEF Calls
  <2> QED BY <2>1, <2>2, <2>3, <2>4
<1>3. \/ UNCHANGED << log, ck >>
      \/ \E ev : Write(ev) /\ ev.type \in Apart
  <2>1. CASE WriteIntent
    BY <1>1, <2>1, WriteIntentDoes DEF Wrote, Apart
  <2>2. CASE Dispatch
    BY <2>2 DEF Dispatch
  <2>3. CASE Settle \/ AdoptTerminal
    BY <1>1, <2>3, SettleDoes DEF Wrote, Apart
  <2>4. CASE RecordNegative \/ Supersede \/ \E v \in Judgments : Judge(v)
    BY <1>1, <2>4, VerdictDoes DEF Wrote, Apart
  <2>5. CASE RetryInForce \/ ContinueEscalation \/ StopRequested \/ NoTerminal
    BY <2>5 DEF RetryInForce, ContinueEscalation, StopRequested, NoTerminal
  <2>6. CASE ConsultHook
    <3>1. proc.i \in Steps
      BY <1>1, <2>6, ShapeIs DEF ConsultHook, Inside
    <3> QED BY <1>1, <2>6, <3>1, ConsultDoes DEF Wrote, Apart, Silent
  <2> QED BY <2>1, <2>2, <2>3, <2>4, <2>5, <2>6
<1> QED BY <1>2, <1>3, OtherLedger

(* Every step keeps it.                                                    *)
LEMMA LedgerNext ==
  ASSUME Ledger, [Next]_vars
  PROVE  Ledger'
PROOF
<1>1. Shape
  BY DEF Ledger, Shape
<1>2. CASE Engine
  BY <1>2, WalkLedgerNext, ActLedgerNext, GateLedger, AskLedger, AdjudicateLedger DEF Engine
<1>3. CASE Resume
  BY <1>3, WalkLedgerNext
<1>4. CASE Environment
  <2>1. CASE \E d \in Answers : Respond(d)
    BY <2>1, RespondLedger
  <2>2. CASE (\E c \in Calls, o \in Outcomes : DeviceFinishes(c, o)) \/ DeadlinePasses
    <3>1. Shape' /\ Calls' = Calls
      BY <1>1, <2>2, EnvironmentShape
    <3>2. UNCHANGED << log, ck >>
      BY <2>2 DEF DeviceFinishes, DeadlinePasses
    <3> QED BY <3>1, <3>2, QuietAnswered
  <2> QED BY <1>4, <2>1, <2>2 DEF Environment
<1>5. CASE Disruption
  BY <1>5, WalkLedgerNext, ActLedgerNext DEF Disruption
<1>6. CASE UNCHANGED vars
  <2>1. UNCHANGED << log, ck, dev, proc >>
    BY <1>6 DEF vars
  <2>2. Silent
    BY <2>1 DEF Silent
  <2>3. Shape'
    BY <1>1, <2>1, <2>2, SilentLedger, SameProcShape DEF Calls
  <2> QED BY <2>1, <2>3, QuietAnswered DEF Calls
<1> QED BY <1>2, <1>3, <1>4, <1>5, <1>6 DEF Next

(* The ledger's invariant: in every reachable state, across any crash, the *)
(* fold is sound, its spans stand in the order of the body, and every      *)
(* request is numbered and answered once.                                  *)
THEOREM LedgerHolds == Spec => []Ledger
PROOF
<1>1. Init => Ledger
  BY LedgerInit
<1>2. Ledger /\ [Next]_vars => Ledger'
  BY LedgerNext
<1> QED BY <1>1, <1>2, PTL DEF Spec

(* The fold refuses nothing the engine appends.                            *)
THEOREM NeverRefuses == Spec => []LedgerNeverRefuses
PROOF
<1>1. Ledger => LedgerNeverRefuses
  BY FoldIsSome DEF Ledger, ShapedLedger, LedgerNeverRefuses
<1> QED BY <1>1, LedgerHolds, PTL

-----------------------------------------------------------------------------
(* What one step may append: a mark of the run, a request, an answer, or   *)
(* an entry of the step the process is at.                                 *)
Mark(ev) ==
  /\ ev.type \in {"runStarted", "runSuspended", "runResumed", "runFinished"}
  /\ ev.path = RootPath(MetaHash)
  /\ ev.type = "runStarted" <=> log = << >>
  /\ \/ /\ ev.type \in {"runStarted", "runResumed"} /\ proc.at = "down"
        /\ proc'.at \in {"walk", "adjudicate", "suspend"}
     \/ ev.type = "runSuspended" /\ proc.at = "suspend" /\ proc' = Down
     \/ /\ ev.type = "runFinished" /\ proc' = Down
        /\ \/ proc.at = "finish"
           \/ proc.at \in {"walk", "pairs"} /\ proc.i > Len(Flow)
Asks(ev) ==
  /\ ev.type = "humanRequested"
  /\ \/ proc.at = "gate" /\ GateRequest(ev) /\ ev.path = StepPath(proc.i)
        /\ proc.i \in Steps /\ RequestsAt(Prefix, StepPath(proc.i)) = { }
     \/ proc.at = "ask" /\ EscalationRequest(ev)
        /\ \E hook, trigger : ev.path = HookPath(proc.i, hook, trigger, "human")
     \/ proc.at = "adjudicate" /\ AdjudicationRequest(ev) /\ ev.path = AdjudicatePath
        /\ ev.call = ck.frontier.intent
Responds(ev) ==
  /\ ev.type = "humanResponded" /\ ck.pending # NoPending
  /\ ev.path = ck.pending.path /\ ev.req = ck.pending.req
  /\ ev.purpose = ck.pending.purpose /\ UNCHANGED proc
Enters(ev, i) ==
  /\ ev.type = "stepEntered" /\ ~OpenIn(ck, i) /\ ~AdoptableIn(ck, i)
  /\ \/ proc.at = "walk"
     \/ proc.at = "pairs" /\ ~ev.resolved
Intends(ev, i) ==
  /\ ev.type = "actionIntent" /\ proc.at = "act" /\ proc'.at = "dispatch"
  /\ ev.call = NextCall /\ ev.attempt = NextAttempt(i) /\ proc'.call = NextCall
  /\ \E d : dev' = Append(dev, d) /\ d.step = i /\ d.fate = "unsent"
Settles(ev, i) ==
  /\ ev.type = "actionSettled" /\ proc.at \in {"wait", "adoptSettle"}
  /\ ev.call = proc.call
Rules(ev, i) ==
  /\ ev.type = "verdictRecorded" /\ proc.at \in {"judge", "confirm", "record", "supersede"}
  /\ ev.verdict \in Statuses
Triggered(ev, i) ==
  /\ ev.type = "handlerTriggered" /\ proc.at = "consult"
  /\ ev.trigger = Triggers(i, ev.hook) + 1
  /\ \E b \in BindingsOn(i, ev.hook) :
       Triggers(i, ev.hook) < b.triggers /\ ev.disposition = b.action
Exits(ev, i) ==
  /\ ev.type = "stepExited" /\ TopIs(ck, i) /\ ~AdoptableIn(ck, i)
  /\ \/ proc.at = "exit" /\ ev.state = proc.exitAs
     \/ proc.at = "pairs" /\ ev.state = "blocked" /\ ~RecordedIn(ck, i)
InStep(ev, i) ==
  /\ ev.path = StepPath(i) /\ i = proc.i
  /\ \/ Enters(ev, i) \/ Intends(ev, i) \/ Settles(ev, i) \/ Rules(ev, i)
     \/ Triggered(ev, i) \/ Exits(ev, i)

Writes(ev) ==
  Write(ev) /\ (Mark(ev) \/ Asks(ev) \/ Responds(ev) \/ \E i \in Steps : InStep(ev, i))

(* The facts of the invariant that the proofs below cite.                  *)
LEMMA LedgerIs ==
  ASSUME Ledger
  PROVE  /\ Shape /\ IsProc(proc) /\ IsFold(ck) /\ IsSequence(log) /\ Answered
         /\ ShapedLedger /\ WalkedLedger /\ Stacked(ck)
         /\ proc.at \in Inside => proc.i \in Steps
         /\ proc.at \in Inside => ~AdoptableIn(ck, proc.i) /\ TopIs(ck, proc.i)
         /\ proc.base \in 0 .. Len(log)
PROOF
BY ShapeIs DEF Ledger, Shape, ShapedProc, WalkedProc, WalkedLedger

(* What the actions of the walk append.                                    *)
LEMMA WalkWrites ==
  ASSUME Ledger,
         StartRun \/ AdoptStep \/ EnterStep \/ ExitStep \/ RecordBlocked
           \/ FinishRun \/ SuspendRun \/ Crash \/ Resume
  PROVE  UNCHANGED << log, ck >> \/ \E ev : Writes(ev)
PROOF
<1>1. Shape /\ IsProc(proc) /\ ShapedProc
  BY LedgerIs DEF Shape
<1>2. CASE StartRun \/ FinishRun \/ SuspendRun \/ Resume
  <2>1. log = << >> <=> StartRun
    BY <1>1, <1>2, StartDoes, FinishDoes, SuspendDoes, ResumeDoes DEF ShapedProc
  <2>2. CASE StartRun
    <3>1. proc.at = "down" /\ proc'.at = "walk"
      BY <2>2, StartDoes, WalkingIs
    <3> QED BY <2>1, <2>2, <3>1, StartDoes DEF Wrote, Writes, Mark
  <2>3. CASE ~StartRun /\ FinishRun
    BY <2>1, <2>3, FinishDoes DEF Wrote, Writes, Mark
  <2>4. CASE ~StartRun /\ SuspendRun
    BY <2>1, <2>4, SuspendDoes DEF Wrote, Writes, Mark
  <2>5. CASE ~StartRun /\ Resume
    <3>1. proc.at = "down" /\ proc'.at \in {"walk", "adjudicate", "suspend"}
      BY <2>5, ResumeDoes, WalkingIs
    <3> QED BY <2>1, <2>5, <3>1, ResumeDoes DEF Wrote, Writes, Mark
  <2> QED BY <1>2, <2>2, <2>3, <2>4, <2>5
<1>3. CASE AdoptStep \/ Crash
  BY <1>3 DEF AdoptStep, Crash
<1>4. CASE EnterStep
  <2>1. /\ proc.at = "walk" /\ proc.i <= Len(Flow) /\ ~AdoptableIn(ck, proc.i)
        /\ \/ UNCHANGED << log, ck >>
           \/ /\ ~OpenIn(ck, proc.i)
              /\ \E ev : Wrote("stepEntered", Here, ev)
    BY <1>1, <1>4, EnterStepDoes, BridgeIs
  <2>2. proc.i \in Steps
    BY <1>1, <2>1, StepsAre DEF ShapedProc
  <2>3. ASSUME ~OpenIn(ck, proc.i), NEW ev, Wrote("stepEntered", Here, ev)
        PROVE  Writes(ev)
    BY <2>1, <2>2, <2>3 DEF Wrote, Writes, InStep, Enters, Here
  <2> QED BY <2>1, <2>3
<1>5. CASE ExitStep
  <2>1. proc.ctl \in {"continue", "halt", "abort"}
    BY <1>1, <1>5 DEF ExitStep, ShapedProc, Leaving
  <2>2. PICK ev : proc.at = "exit" /\ Wrote("stepExited", Here, ev) /\ ev.state = proc.exitAs
    BY <1>1, <1>5, <2>1, ExitDoes
  <2>3. proc.i \in Steps /\ ~AdoptableIn(ck, proc.i) /\ TopIs(ck, proc.i)
    BY <2>2, LedgerIs DEF Inside
  <2> QED BY <2>2, <2>3 DEF Wrote, Writes, InStep, Exits, Here
<1>6. CASE RecordBlocked
  <2>1. /\ proc.at = "pairs" /\ proc.i <= Len(Flow)
        /\ \/ UNCHANGED << log, ck >>
           \/ /\ ~RecordedIn(ck, proc.i) /\ OpenIn(ck, proc.i)
              /\ \E ev : Wrote("stepExited", Here, ev) /\ ev.state = "blocked"
           \/ /\ ~RecordedIn(ck, proc.i) /\ ~OpenIn(ck, proc.i)
              /\ \E ev : Wrote("stepEntered", Here, ev) /\ ~ev.resolved
    BY <1>1, <1>6, PairsDoes, BridgeIs DEF Silent
  <2>2. proc.i \in Steps
    BY <1>1, <2>1, StepsAre DEF ShapedProc
  <2>3. ASSUME ~RecordedIn(ck, proc.i), OpenIn(ck, proc.i),
               NEW ev, Wrote("stepExited", Here, ev), ev.state = "blocked"
        PROVE  Writes(ev)
    <3>1. \A k \in Steps : OpenIn(ck, k) => proc.i <= k
      BY <2>1 DEF Ledger, WalkedProc
    <3>2. TopIs(ck, proc.i)
      BY <2>2, <2>3, <3>1, LedgerIs, FirstOpenIsTop
    <3>3. ~AdoptableIn(ck, proc.i)
      BY <2>3 DEF AdoptableIn
    <3> QED BY <2>1, <2>2, <2>3, <3>2, <3>3 DEF Wrote, Writes, InStep, Exits, Here
  <2>4. ASSUME ~RecordedIn(ck, proc.i), ~OpenIn(ck, proc.i),
               NEW ev, Wrote("stepEntered", Here, ev), ~ev.resolved
        PROVE  Writes(ev)
    <3>1. ~AdoptableIn(ck, proc.i)
      BY <2>4 DEF AdoptableIn
    <3> QED BY <2>1, <2>2, <2>4, <3>1 DEF Wrote, Writes, InStep, Enters, Here
  <2> QED BY <2>1, <2>3, <2>4
<1> QED BY <1>2, <1>3, <1>4, <1>5, <1>6

(* What the acts inside a step append.                                     *)
LEMMA ActWrites ==
  ASSUME Ledger,
         WriteIntent \/ Dispatch \/ Settle \/ AdoptTerminal
           \/ (\E v \in Judgments : Judge(v)) \/ RecordNegative \/ Supersede
           \/ RetryInForce \/ ContinueEscalation \/ ConsultHook
           \/ StopRequested \/ NoTerminal
  PROVE  UNCHANGED << log, ck >> \/ \E ev : Writes(ev)
PROOF
<1>1. Shape /\ IsProc(proc) /\ ShapedProc
  BY LedgerIs DEF Shape
<1>2. CASE Dispatch \/ RetryInForce \/ ContinueEscalation \/ StopRequested \/ NoTerminal
  BY <1>2 DEF Dispatch, RetryInForce, ContinueEscalation, StopRequested, NoTerminal
<1>3. CASE WriteIntent
  <2>1. PICK ev : /\ proc.at = "act" /\ Wrote("actionIntent", Here, ev)
                  /\ ev.call = NextCall /\ ev.attempt = NextAttempt(proc.i)
                  /\ proc'.at = "dispatch" /\ proc'.call = NextCall
                  /\ \E d : dev' = Append(dev, d) /\ d.step = proc.i /\ d.fate = "unsent"
    BY <1>1, <1>3, WriteIntentDoes
  <2>2. proc.i \in Steps
    BY <2>1, LedgerIs DEF Inside
  <2> QED BY <2>1, <2>2 DEF Wrote, Writes, InStep, Intends, Here
<1>4. CASE Settle \/ AdoptTerminal
  <2>1. PICK ev : /\ proc.at \in {"wait", "adoptSettle"} /\ Wrote("actionSettled", Here, ev)
                  /\ ev.call = proc.call
    BY <1>1, <1>4, SettleDoes
  <2>2. proc.i \in Steps
    BY <2>1, LedgerIs DEF Inside
  <2> QED BY <2>1, <2>2 DEF Wrote, Writes, InStep, Settles, Here
<1>5. CASE (\E v \in Judgments : Judge(v)) \/ RecordNegative \/ Supersede
  <2>1. PICK ev : /\ proc.at \in {"judge", "confirm", "record", "supersede"}
                  /\ Wrote("verdictRecorded", Here, ev)
                  /\ IF proc.at \in {"judge", "confirm"} THEN ev.verdict \in Statuses
                     ELSE ev.verdict = proc.status
    BY <1>1, <1>5, VerdictDoes
  <2>2. proc.i \in Steps
    BY <2>1, LedgerIs DEF Inside
  <2>3. ev.verdict \in Statuses
    BY <1>1, <2>1 DEF ShapedProc
  <2> QED BY <2>1, <2>2, <2>3 DEF Wrote, Writes, InStep, Rules, Here
<1>6. CASE ConsultHook
  <2>1. proc.at = "consult" /\ proc.i \in Steps
    BY <1>6, LedgerIs DEF ConsultHook, Inside
  <2>2. \/ Silent
        \/ \E ev : \E b \in BindingsOn(proc.i, Hook(proc)) :
             /\ Wrote("handlerTriggered", Here, ev)
             /\ ev.hook = Hook(proc) /\ ev.disposition = b.action
             /\ ev.trigger = Triggers(proc.i, Hook(proc)) + 1
             /\ Triggers(proc.i, Hook(proc)) < b.triggers
    BY <1>1, <1>6, <2>1, ConsultDoes
  <2>3. ASSUME NEW ev, NEW b \in BindingsOn(proc.i, Hook(proc)),
               Wrote("handlerTriggered", Here, ev),
               ev.hook = Hook(proc), ev.disposition = b.action,
               ev.trigger = Triggers(proc.i, Hook(proc)) + 1,
               Triggers(proc.i, Hook(proc)) < b.triggers
        PROVE  Writes(ev)
    BY <2>1, <2>3 DEF Wrote, Writes, InStep, Triggered, Here
  <2> QED BY <2>2, <2>3 DEF Silent
<1> QED BY <1>2, <1>3, <1>4, <1>5, <1>6

(* What asking and answering append.                                       *)
LEMMA HumanWrites ==
  ASSUME Ledger, GateSupervision \/ AskEscalation \/ AskAdjudication
                   \/ \E d \in Answers : Respond(d)
  PROVE  UNCHANGED << log, ck >> \/ \E ev : Writes(ev)
PROOF
<1>1. Shape /\ IsProc(proc)
  BY LedgerIs
<1>2. CASE GateSupervision
  <2>1. /\ proc.at = "gate"
        /\ \/ Silent
           \/ /\ RequestsAt(Prefix, Here) = { } /\ Supervised(proc.i)
              /\ \E ev : /\ Wrote("humanRequested", Here, ev)
                         /\ ev = Request(Here, "supervision", 0, FALSE,
                                         {"proceed", "abort", "suspend"})
    BY <1>1, <1>2, GateDoes
  <2>2. proc.i \in Steps
    BY <2>1, LedgerIs DEF Inside
  <2>3. ASSUME RequestsAt(Prefix, Here) = { }, Supervised(proc.i), NEW ev,
               Wrote("humanRequested", Here, ev),
               ev = Request(Here, "supervision", 0, FALSE, {"proceed", "abort", "suspend"})
        PROVE  Writes(ev)
    <3>1. GateRequest(ev) /\ ev.path = StepPath(proc.i)
      BY <2>2, <2>3 DEF GateRequest, Request, Here
    <3> QED BY <2>1, <2>2, <2>3, <3>1 DEF Writes, Asks, Wrote, Here
  <2> QED BY <2>1, <2>3 DEF Silent
<1>3. CASE AskEscalation
  <2>1. PICK ev, path, decisions :
          /\ path = HookPath(proc.i, Hook(proc), Triggers(proc.i, Hook(proc)), "human")
          /\ Wrote("humanRequested", path, ev)
          /\ ev = Request(path, "step", 0, TRUE, decisions)
          /\ decisions \in {{"pass", "fail", "unknown"}, {"done", "cannotRepair"}}
    BY <1>1, <1>3, AskDoes
  <2>2. proc.at = "ask"
    BY <1>1, <1>3, AskDoes
  <2>3. Len(path) = 4 /\ path[4].id = "human"
    BY <2>1, HookPathIs
  <2>4. EscalationRequest(ev)
    BY <2>1, <2>3 DEF EscalationRequest, HookRequest, Request
  <2>5. ev.path = path
    BY <2>1 DEF Request
  <2> QED BY <2>1, <2>2, <2>4, <2>5 DEF Writes, Asks, Wrote
<1>4. CASE AskAdjudication
  <2>1. PICK ev : /\ Wrote("humanRequested", AdjudicatePath, ev)
                  /\ ev = Request(AdjudicatePath, "step", ck.frontier.intent, FALSE,
                                  {"adopt", "redo", "abort"})
    BY <1>1, <1>4, AdjudicateDoes
  <2>2. proc.at = "adjudicate" /\ ck.frontier.intent \in Calls
    BY <1>1, <1>4, AdjudicateDoes DEF Shape, ShapedProc
  <2>3. Len(AdjudicatePath) = 4 /\ AdjudicatePath[4].id = "adjudicate"
    BY HookPathIs DEF AdjudicatePath
  <2>4. AdjudicationRequest(ev)
    BY <2>1, <2>2, <2>3 DEF AdjudicationRequest, HookRequest, Request
  <2>5. ev.path = AdjudicatePath /\ ev.call = ck.frontier.intent
    BY <2>1 DEF Request
  <2> QED BY <2>1, <2>2, <2>4, <2>5 DEF Writes, Asks, Wrote
<1>5. CASE \E d \in Answers : Respond(d)
  <2>1. PICK d \in Answers : Respond(d)
    BY <1>5
  <2>2. PICK ev : /\ Wrote("humanResponded", ck.pending.path, ev)
                  /\ ev.req = ck.pending.req /\ ev.purpose = ck.pending.purpose
    BY <2>1, RespondDoes
  <2>3. ck.pending # NoPending /\ UNCHANGED proc
    BY <2>1, RespondDoes
  <2> QED BY <2>2, <2>3 DEF Writes, Responds, Wrote
<1> QED BY <1>2, <1>3, <1>4, <1>5

(* A step of the system appends nothing, or one of these.                  *)
LEMMA StepWrites ==
  ASSUME Ledger, [Next]_vars
  PROVE  UNCHANGED << log, ck >> \/ \E ev : Writes(ev)
PROOF
<1>1. CASE Engine
  BY <1>1, WalkWrites, ActWrites, HumanWrites DEF Engine
<1>2. CASE Resume
  BY <1>2, WalkWrites
<1>3. CASE Environment
  BY <1>3, HumanWrites DEF Environment, DeviceFinishes, DeadlinePasses
<1>4. CASE Disruption
  BY <1>4, WalkWrites, ActWrites DEF Disruption
<1>5. CASE UNCHANGED vars
  BY <1>5 DEF vars
<1> QED BY <1>1, <1>2, <1>3, <1>4, <1>5 DEF Next

-----------------------------------------------------------------------------
(* What one entry leaves of the records and of the status.                 *)
LEMMA RecordsKept ==
  ASSUME NEW st, IsFold(st), NEW ev, IsFold(FoldStep(st, ev)),
         ev.type \in (Apart \union {"humanRequested", "humanResponded"})
                       \ {"verdictRecorded", "stepExited"}
  PROVE  FoldStep(st, ev).completed = st.completed
PROOF
<1>1. FoldStep(st, ev) = Apply(st, ev)
  BY FoldIsSome DEF FoldStep
<1>2. DOMAIN st = StateFields
  BY DEF IsFold
<1>3. CASE ev.type = "runStarted"
  BY <1>1, <1>2, <1>3 DEF Apply, RunStartedArm, StateFields
<1>4. CASE ev.type = "stepEntered"
  BY <1>1, <1>2, <1>4 DEF Apply, StepEnteredArm, StateFields
<1>5. CASE ev.type = "actionIntent"
  BY <1>1, <1>2, <1>5 DEF Apply, ActionIntentArm, StateFields
<1>6. CASE ev.type = "actionSettled"
  BY <1>1, <1>2, <1>6 DEF Apply, ActionSettledArm, StateFields
<1>7. CASE ev.type = "handlerTriggered"
  BY <1>1, <1>7 DEF Apply
<1>8. CASE ev.type \in {"runSuspended", "runResumed", "runFinished"}
  BY <1>1, <1>2, <1>8 DEF Apply, RunSuspendedArm, RunResumedArm, RunFinishedArm, StateFields
<1>9. CASE ev.type \in {"humanRequested", "humanResponded"}
  BY <1>1, <1>2, <1>9 DEF Apply, HumanRequestedArm, HumanRespondedArm, StateFields
<1> QED BY <1>3, <1>4, <1>5, <1>6, <1>7, <1>8, <1>9 DEF Apart

(* A verdict that stands alone is never consulted about.                   *)
LEMMA PlainKept ==
  ASSUME NEW st, IsFold(st), NEW ev, IsFold(FoldStep(st, ev)),
         ev.type \in {"runStarted", "actionIntent", "humanRequested", "handlerTriggered",
                     "humanResponded", "runSuspended", "runResumed", "runFinished"}
  PROVE  /\ FoldStep(st, ev).inFlight = st.inFlight
         /\ FoldStep(st, ev).completed = st.completed
PROOF
<1>1. FoldStep(st, ev) = Apply(st, ev)
  BY FoldIsSome DEF FoldStep
<1>2. DOMAIN st = StateFields
  BY DEF IsFold
<1>3. CASE ev.type = "runStarted"
  BY <1>1, <1>2, <1>3 DEF Apply, RunStartedArm, StateFields
<1>4. CASE ev.type = "actionIntent"
  BY <1>1, <1>2, <1>4 DEF Apply, ActionIntentArm, StateFields
<1>5. CASE ev.type = "handlerTriggered"
  BY <1>1, <1>5 DEF Apply
<1>6. CASE ev.type \in {"runSuspended", "runResumed", "runFinished"}
  BY <1>1, <1>2, <1>6 DEF Apply, RunSuspendedArm, RunResumedArm, RunFinishedArm, StateFields
<1>7. CASE ev.type \in {"humanRequested", "humanResponded"}
  BY <1>1, <1>2, <1>7 DEF Apply, HumanRequestedArm, HumanRespondedArm, StateFields
<1> QED BY <1>3, <1>4, <1>5, <1>6, <1>7

(* A finished run stays so through what a process inside a step writes.    *)
LEMMA StatusKept ==
  ASSUME NEW st, IsFold(st), NEW ev, IsFold(FoldStep(st, ev)),
         ev.type \in Apart \union {"humanRequested", "humanResponded"},
         FoldStep(st, ev).status = "finished", ev.type # "runFinished"
  PROVE  /\ st.status = "finished"
         /\ ev.type \notin {"runStarted", "runSuspended", "runResumed",
                            "humanRequested", "humanResponded"}
PROOF
<1>1. FoldStep(st, ev) = Apply(st, ev)
  BY FoldIsSome DEF FoldStep
<1>2. DOMAIN st = StateFields
  BY DEF IsFold
<1>3. ev.type # "runStarted"
  BY <1>1, <1>2 DEF Apply, RunStartedArm, StateFields
<1>4. CASE ev.type = "stepEntered"
  BY <1>1, <1>2, <1>4 DEF Apply, StepEnteredArm, StateFields
<1>5. CASE ev.type = "actionIntent"
  BY <1>1, <1>2, <1>5 DEF Apply, ActionIntentArm, StateFields
<1>6. CASE ev.type = "actionSettled"
  BY <1>1, <1>2, <1>6 DEF Apply, ActionSettledArm, StateFields
<1>7. CASE ev.type = "handlerTriggered"
  BY <1>1, <1>7 DEF Apply
<1>8. ev.type \notin {"runSuspended", "runResumed"}
  BY <1>1, <1>2 DEF Apply, RunSuspendedArm, RunResumedArm, StateFields
<1>9. ev.type \notin {"humanRequested", "humanResponded"}
  BY <1>1, <1>2 DEF Apply, HumanRequestedArm, HumanRespondedArm, StateFields
<1>10. CASE ev.type = "verdictRecorded"
  BY <1>1, <1>2, <1>10 DEF Apply, VerdictRecordedArm, StateFields
<1>11. CASE ev.type = "stepExited"
  BY <1>1, <1>2, <1>11 DEF Apply, StepExitedArm, StateFields
<1> QED BY <1>3, <1>4, <1>5, <1>6, <1>7, <1>8, <1>9, <1>10, <1>11 DEF Apart

(* Whose entry it is, by its type.                                         *)
LEMMA WriteIs ==
  ASSUME Ledger, NEW ev, Writes(ev)
  PROVE  /\ Write(ev) /\ IsSequence(log) /\ IsFold(ck)
         /\ ev.type \in Apart \union {"humanRequested", "humanResponded"}
         /\ \A i \in Steps : InStep(ev, i) =>
              i = proc.i /\ ev.path = StepPath(i)
         /\ (\E i \in Steps : InStep(ev, i)) <=>
              ev.type \in {"stepEntered", "actionIntent", "actionSettled",
                           "verdictRecorded", "handlerTriggered", "stepExited"}
         /\ ev.type # "runStarted" => ck.started
PROOF
<1>1. Write(ev) /\ IsSequence(log) /\ IsFold(ck)
  BY LedgerIs DEF Writes
<1>2. \A i \in Steps : InStep(ev, i) =>
        /\ i = proc.i /\ ev.path = StepPath(i)
        /\ ev.type \in {"stepEntered", "actionIntent", "actionSettled",
                        "verdictRecorded", "handlerTriggered", "stepExited"}
        /\ proc.at # "down"
  BY DEF InStep, Enters, Intends, Settles, Rules, Triggered, Exits
<1>3. Mark(ev) => /\ ev.type \in {"runStarted", "runSuspended", "runResumed", "runFinished"}
                  /\ ev.type # "runStarted" => log # << >>
  BY DEF Mark
<1>4. Asks(ev) => ev.type = "humanRequested" /\ proc.at # "down"
  BY DEF Asks
<1>5. Responds(ev) => ev.type = "humanResponded" /\ Requests # { }
  BY LedgerIs DEF Responds, Answered
<1>6. Requests # { } => log # << >>
  BY EmptyIs DEF Requests
<1>7. proc.at # "down" => log # << >>
  BY LedgerIs DEF Shape, ShapedProc
<1>8. ck.started <=> log # << >>
  BY LedgerIs DEF ShapedLedger
<1> QED BY <1>1, <1>2, <1>3, <1>4, <1>5, <1>6, <1>7, <1>8 DEF Writes, Apart

(* Records only grow, and a record that is history stays so.               *)
LEMMA WriteRecords ==
  ASSUME Ledger, Ledger', NEW ev, Writes(ev)
  PROVE  /\ ev.type # "stepExited" => SameRecords(ck', ck)
         /\ \A i \in Steps : ev.type = "stepExited" /\ InStep(ev, i) =>
              \A k \in Steps :
                  /\ OpenIn(ck', k) <=> OpenIn(ck, k) /\ k # i
                  /\ RecordedIn(ck', k) <=> RecordedIn(ck, k) \/ k = i
                  /\ AdoptableIn(ck', k) <=> IF k = i THEN RipeIn(ck, i)
                                             ELSE AdoptableIn(ck, k)
         /\ \A k \in Steps : /\ RecordedIn(ck, k) => RecordedIn(ck', k)
                             /\ AdoptableIn(ck, k) => AdoptableIn(ck', k)
PROOF
<1>1. /\ Write(ev) /\ IsSequence(log) /\ IsFold(ck) /\ Stacked(ck)
      /\ ev.type # "runStarted" => ck.started
  BY LedgerIs, WriteIs
<1>2. ck' = FoldStep(ck, ev)
  BY <1>1 DEF Write
<1>3. IsFold(ck')
  BY DEF Ledger, ShapedLedger
<1>4. CASE ev.type \notin {"verdictRecorded", "stepExited"}
  <2>1. ck'.completed = ck.completed
    BY <1>1, <1>2, <1>3, <1>4, WriteIs, RecordsKept
  <2>2. SameRecords(ck', ck)
    BY <2>1, SameCompleted
  <2> QED BY <1>4, <2>2 DEF SameRecords
<1>5. CASE ev.type = "verdictRecorded"
  <2>1. PICK i \in Steps : InStep(ev, i)
    BY <1>5, WriteIs
  <2>2. ev.path = StepPath(i) /\ proc.at \in Inside /\ i = proc.i /\ ev.verdict \in Statuses
    BY <1>5, <2>1 DEF InStep, Enters, Intends, Settles, Rules, Triggered, Exits, Inside
  <2>3. TopIs(ck, i) /\ ck.started
    BY <1>1, <1>5, <2>2, LedgerIs
  <2>4. ev.verdict # NoVerdict
    BY <2>2, Marks
  <2>5. SameRecords(ck', ck)
    BY <1>1, <1>2, <1>5, <2>2, <2>3, <2>4, VerdictEffect
  <2> QED BY <1>5, <2>5 DEF SameRecords
<1>6. CASE ev.type = "stepExited"
  <2>1. ASSUME NEW i \in Steps, InStep(ev, i)
        PROVE  /\ ~AdoptableIn(ck, i)
               /\ \A k \in Steps :
                    /\ OpenIn(ck', k) <=> OpenIn(ck, k) /\ k # i
                    /\ RecordedIn(ck', k) <=> RecordedIn(ck, k) \/ k = i
                    /\ AdoptableIn(ck', k) <=> IF k = i THEN RipeIn(ck, i)
                                               ELSE AdoptableIn(ck, k)
    <3>1. TopIs(ck, i) /\ ~AdoptableIn(ck, i)
      BY <1>6, <2>1 DEF InStep, Enters, Intends, Settles, Rules, Triggered, Exits
    <3> QED BY <1>1, <1>2, <1>6, <3>1, ExitedEffect
  <2>2. PICK i \in Steps : InStep(ev, i)
    BY <1>6, WriteIs
  <2>3. \A k \in Steps : /\ RecordedIn(ck, k) => RecordedIn(ck', k)
                         /\ AdoptableIn(ck, k) => AdoptableIn(ck', k)
    BY <2>1, <2>2
  <2> QED BY <1>6, <2>1, <2>3
<1> QED BY <1>4, <1>5, <1>6

-----------------------------------------------------------------------------

(* An exit that concludes its step.                                        *)
Concludes(i, n) ==
  \/ log[n].state = "judged"
  \/ log[n].state = "aborted" /\ ~InBlockedSpan(i, n)

(* What has concluded is adopted, and has no intent after it.              *)
Concluded ==
  \A i \in Steps : \A n \in At("stepExited", i) : Concludes(i, n) =>
    AdoptableIn(ck, i) /\ At("actionIntent", i) \subseteq 1 .. n

(* What was so of an earlier position stays so.                            *)
LEMMA ConcludesStays ==
  ASSUME IsSequence(log), NEW ev, Write(ev), NEW i \in Steps,
         NEW n \in At("stepExited", i)
  PROVE  Concludes(i, n)' <=> Concludes(i, n)
PROOF
<1> DEFINE E == At("stepEntered", i)
<1>1. /\ n \in 1 .. Len(log) /\ Len(log) \in Nat /\ E \subseteq 1 .. Len(log)
      /\ DOMAIN log = 1 .. Len(log)
  BY AtIs, SequenceIs
<1>2. \A m \in DOMAIN log : log'[m] = log[m]
  BY Grows
<1>3. E' = E \/ E' = E \union {Len(log) + 1}
  <2>1. log' = Append(log, ev)
    BY Grows
  <2>2. \/ Entries(log', "stepEntered", StepPath(i)) = Entries(log, "stepEntered", StepPath(i))
        \/ Entries(log', "stepEntered", StepPath(i))
             = Entries(log, "stepEntered", StepPath(i)) \union {Len(log) + 1}
    BY <2>1, EntriesGrow
  <2> QED BY <2>2 DEF At
<1>4. InBlockedSpan(i, n) <=> \E e \in E : e < n /\ ~log[e].resolved
  BY DEF InBlockedSpan, Before
<1>5. InBlockedSpan(i, n)' <=> \E e \in E' : e < n /\ ~log'[e].resolved
  BY DEF InBlockedSpan, Before
<1> HIDE DEF E
<1>6. \A e : e \in E' /\ e < n <=> e \in E /\ e < n
  BY <1>1, <1>3
<1>7. \A e \in E : log'[e] = log[e]
  BY <1>1, <1>2
<1>8. InBlockedSpan(i, n)' <=> InBlockedSpan(i, n)
  BY <1>4, <1>5, <1>6, <1>7
<1> QED BY <1>1, <1>2, <1>8 DEF Concludes

(* Conclusions are kept by every step.                                     *)
LEMMA ConcludedNext ==
  ASSUME Ledger, Ledger', Concluded, [Next]_vars
  PROVE  Concluded'
PROOF
<1>1. CASE UNCHANGED << log, ck >>
  BY <1>1 DEF Concluded, Concludes, InBlockedSpan, Before, At
<1>2. ASSUME NEW ev, Writes(ev)
      PROVE  Concluded'
  <2>1. /\ Write(ev) /\ IsSequence(log) /\ Len(log) \in Nat
        /\ \A n \in DOMAIN log : log'[n] = log[n]
        /\ log'[Len(log) + 1] = ev
    BY <1>2, WriteIs, Grows
  <2> SUFFICES ASSUME NEW i \in Steps, NEW n \in At("stepExited", i)', Concludes(i, n)'
               PROVE  AdoptableIn(ck', i) /\ At("actionIntent", i)' \subseteq 1 .. n
    BY DEF Concluded
  <2>2. CASE n \in At("stepExited", i)
    <3>1. Concludes(i, n)
      BY <2>1, <2>2, ConcludesStays
    <3>2. AdoptableIn(ck, i) /\ At("actionIntent", i) \subseteq 1 .. n
      BY <2>2, <3>1 DEF Concluded
    <3>3. AdoptableIn(ck', i)
      BY <1>2, <3>2, WriteRecords
    <3>4. At("actionIntent", i)' = At("actionIntent", i)
      <4>1. CASE ev.type # "actionIntent"
        BY <2>1, <4>1, AtStays
      <4>2. CASE ev.type = "actionIntent"
        <5>1. PICK j \in Steps : InStep(ev, j)
          BY <1>2, <4>2, WriteIs
        <5>2. ev.path = StepPath(j) /\ ~AdoptableIn(ck, j)
          BY <4>2, <5>1, LedgerIs DEF InStep, Enters, Intends, Settles, Rules, Triggered,
                                      Exits, Inside
        <5> QED BY <2>1, <3>2, <5>2, AtGrows
      <4> QED BY <4>1, <4>2
    <3> QED BY <3>2, <3>3, <3>4
  <2>3. CASE n \notin At("stepExited", i)
    <3>1. ev.type = "stepExited"
      BY <2>1, <2>3, AtStays
    <3>2. PICK j \in Steps : InStep(ev, j)
      BY <1>2, <3>1, WriteIs
    <3>3. /\ ev.path = StepPath(j) /\ j = proc.i /\ TopIs(ck, j) /\ ~AdoptableIn(ck, j)
          /\ \/ proc.at = "exit" /\ ev.state = proc.exitAs
             \/ proc.at = "pairs" /\ ev.state = "blocked"
      BY <3>1, <3>2 DEF InStep, Enters, Intends, Settles, Rules, Triggered, Exits
    <3>4. j = i /\ n = Len(log) + 1
      BY <2>1, <2>3, <3>1, <3>3, AtGrows
    <3>5. At("actionIntent", i)' = At("actionIntent", i)
      BY <2>1, <3>1, AtStays
    <3>6. At("actionIntent", i) \subseteq 1 .. n
      BY <3>4, AtIs, <2>1
    <3>7. log'[n] = ev
      BY <2>1, <3>4
    <3>8. CASE ev.state = "judged"
      <4>1. Ripening(proc)
        BY <3>3, <3>8 DEF Ripening
      <4> QED BY <1>2, <3>1, <3>2, <3>3, <3>4, <3>5, <3>6, <4>1, WriteRecords
              DEF Ledger, WalkedProc
    <3>9. CASE ev.state # "judged"
      <4>1. ~InBlockedSpan(i, n)'
        <5>1. log'[n].state = "judged" \/ ~InBlockedSpan(i, n)'
          BY DEF Concludes
        <5> QED BY <3>7, <3>9, <5>1
      <4>2. At("stepEntered", i)' = At("stepEntered", i)
        BY <2>1, <3>1, AtStays
      <4>3. At("stepEntered", i) \subseteq 1 .. Len(log)
        BY <2>1, AtIs
      <4>4. ~NullSpan(i)
        <5>1. \A e \in At("stepEntered", i)' : e < n => log'[e].resolved
          BY <4>1 DEF InBlockedSpan, Before
        <5>2. \A e \in At("stepEntered", i) : log[e].resolved
          BY <2>1, <3>4, <4>2, <4>3, <5>1, SequenceIs
        <5> QED BY <5>2 DEF NullSpan
      <4>5. OpenIn(ck, i)
        BY <3>3, <3>4, LedgerIs, TopIsOpen
      <4>6. RipeIn(ck, i)
        BY <4>4, <4>5 DEF Ledger, WalkedLedger
      <4> QED BY <1>2, <3>1, <3>2, <3>4, <3>5, <3>6, <4>6, WriteRecords
    <3> QED BY <3>8, <3>9
  <2> QED BY <2>2, <2>3
<1> QED BY <1>1, <1>2, StepWrites

(* What the run has concluded it never dispatches again.                   *)
THEOREM NeverRedispatches == Spec => []ConcludedNeverRedispatches
PROOF
<1>1. Init => Concluded
  <2>1. Init => \A i \in Steps : At("stepExited", i) = { }
    BY EmptyIs DEF Init, At, Entries
  <2> QED BY <2>1 DEF Concluded
<1>2. Ledger /\ Ledger' /\ Concluded /\ [Next]_vars => Concluded'
  BY ConcludedNext
<1>3. Concluded => ConcludedNeverRedispatches
  BY DEF Concluded, Concludes, ConcludedNeverRedispatches
<1> QED BY <1>1, <1>2, <1>3, LedgerHolds, PTL DEF Spec

-----------------------------------------------------------------------------
(* A finished run is complete: whoever finishes it is behind every step,   *)
(* or behind the exit that aborted it.                                     *)
AllExits == { n \in DOMAIN log : log[n].type = "stepExited" }
LastAborted == AllExits # { } /\ log[Max(AllExits)].state = "aborted"
OnlyBlocked == \A k \in Steps : OpenIn(ck, k) => NullSpan(k)
Aborted == LastAborted /\ OnlyBlocked
Complete == ck.inFlight = << >> /\ \A i \in Steps : Recorded(i)
Finishing ==
  /\ proc.at = "finish" => Aborted
  /\ ck.status = "finished" => proc.at = "down" /\ (Aborted \/ Complete)

(* The last exit stays the last.                                           *)
LEMMA LastAbortedStays ==
  ASSUME IsSequence(log), NEW ev, Write(ev), ev.type # "stepExited", LastAborted
  PROVE  LastAborted'
PROOF
<1>1. AllExits' = AllExits
  BY Grows DEF AllExits
<1>2. AllExits \in SUBSET (1 .. Len(log)) /\ Len(log) \in Nat
  BY SequenceIs DEF AllExits
<1>3. Max(AllExits) \in DOMAIN log
  BY <1>2, MaxIs, SequenceIs DEF LastAborted
<1>4. log'[Max(AllExits)] = log[Max(AllExits)]
  BY <1>3, Grows
<1> QED BY <1>1, <1>4 DEF LastAborted

(* An aborting exit is the last.                                           *)
LEMMA LastAbortedNow ==
  ASSUME IsSequence(log), NEW ev, Write(ev), ev.type = "stepExited", ev.state = "aborted"
  PROVE  LastAborted'
PROOF
<1>1. /\ Len(log) \in Nat /\ DOMAIN log' = 1 .. Len(log) + 1
      /\ log'[Len(log) + 1] = ev
  BY Grows
<1>2. AllExits' \in SUBSET (1 .. Len(log) + 1) /\ Len(log) + 1 \in AllExits'
  BY <1>1 DEF AllExits
<1>3. PICK L \in Nat : L = Len(log) + 1
  BY <1>1
<1> DEFINE S == AllExits'
<1> HIDE DEF S
<1>4. S \in SUBSET (1 .. L) /\ L \in S
  BY <1>2, <1>3 DEF S
<1>5. Max(S) = Len(log) + 1
  <2>1. Max(S) \in S /\ \A y \in S : y <= Max(S)
    BY <1>4, MaxIs
  <2>2. Max(S) \in 1 .. L /\ L <= Max(S)
    BY <1>4, <2>1
  <2> QED BY <1>3, <2>2
<1> QED BY <1>1, <1>2, <1>3, <1>5 DEF LastAborted, S

(* It leaves open what lay above its span: blocked pairs.                  *)
LEMMA AbortLeaves ==
  ASSUME Ledger, Ledger', NEW ev, Writes(ev), ev.type = "stepExited", ev.state = "aborted"
  PROVE  OnlyBlocked'
PROOF
<1>1. PICK i \in Steps : InStep(ev, i)
  BY WriteIs
<1>2. i = proc.i /\ proc.at = "exit" /\ proc.at \in Inside /\ ~AdoptableIn(ck, i)
  BY <1>1 DEF InStep, Enters, Intends, Settles, Rules, Triggered, Exits, Inside
<1>3. \A k \in Steps : OpenIn(ck', k) => OpenIn(ck, k) /\ k # i
  BY <1>1, WriteRecords
<1> SUFFICES ASSUME NEW k \in Steps, OpenIn(ck', k)
             PROVE  NullSpan(k)'
  BY DEF OnlyBlocked
<1>4. OpenIn(ck, k) /\ k # i
  BY <1>3
<1>5. ~(k < i)
  BY <1>2, <1>4 DEF Ledger, WalkedLedger, WalkedProc
<1>6. i < k
  BY <1>4, <1>5, StepsAre
<1>7. NullSpan(k)
  BY <1>2, <1>4, <1>6 DEF Ledger, WalkedLedger
<1> QED BY <1>7, WriteIs, NullStays

(* What is written behind it disturbs neither.                             *)
LEMMA AbortedStays ==
  ASSUME Ledger, Ledger', NEW ev, Writes(ev), proc.at = "finish", Aborted
  PROVE  Aborted'
PROOF
<1>1. /\ Write(ev) /\ IsSequence(log) /\ IsFold(ck) /\ ck' = FoldStep(ck, ev)
      /\ ev.type # "runStarted" => ck.started
  BY WriteIs DEF Write
<1>2. ev.type \in {"runFinished", "humanResponded"}
  BY WriteIs DEF Writes, Mark, Asks, Responds, InStep, Enters, Intends, Settles, Rules,
                 Triggered, Exits
<1>3. ev.type = "humanResponded" => ck.pending # NoPending /\ ck.pending.req = ev.req
  BY <1>2 DEF Writes, Mark, Asks, Responds, InStep, Enters, Intends, Settles, Rules,
              Triggered, Exits
<1>4. Keeps(ck', ck)
  BY <1>1, <1>2, <1>3, HumanRespondedIs, RunMarkIs DEF Still
<1>5. OnlyBlocked'
  <2> SUFFICES ASSUME NEW k \in Steps, OpenIn(ck', k)
               PROVE  NullSpan(k)'
    BY DEF OnlyBlocked
  <2>1. OpenIn(ck, k)
    BY <1>4 DEF Keeps, OpenIn, InFlightAt
  <2> QED BY <1>1, <1>2, <2>1, NullStays DEF Aborted, OnlyBlocked
<1> QED BY <1>1, <1>2, <1>5, LastAbortedStays DEF Aborted

(* How a process comes to finish, and what stirs one that is down.         *)
LEMMA FinishComes ==
  ASSUME Ledger, [Next]_vars, proc'.at = "finish"
  PROVE  \/ proc.at = "finish"
         \/ \E ev : Write(ev) /\ ev.type = "stepExited" /\ ev.state = "aborted"
PROOF
<1>1. Shape /\ IsProc(proc) /\ ShapedProc
  BY LedgerIs DEF Shape
<1>2. ~StartRun /\ ~AdoptStep /\ ~EnterStep
  BY <1>1, StartDoes, WalkingIs, AdoptDoes, EnterStepDoes
<1>3. ~GateSupervision
  BY <1>1, GateDoes DEF Leaves
<1>4. ~WriteIntent /\ ~Dispatch
  BY <1>1, WriteIntentDoes, DispatchDoes
<1>5. ~Settle /\ ~AdoptTerminal
  BY <1>1, SettleDoes DEF Leaves
<1>6. ~RecordNegative /\ ~Supersede /\ ~ \E v \in Judgments : Judge(v)
  BY <1>1, VerdictDoes DEF Leaves
<1>7. ~RetryInForce
  BY <1>1, RetryDoes
<1>8. ~ContinueEscalation
  BY <1>1, ContinueDoes, AskedRulings, LedgerIs DEF Leaves
<1>9. ~ConsultHook
  BY <1>1, ConsultDoes, LedgerIs DEF Leaves, ConsultHook, Inside
<1>10. ~AskEscalation /\ ~AskAdjudication
  BY <1>1, AskDoes, AdjudicateDoes
<1>11. CASE ExitStep
  <2>1. proc.ctl \in {"continue", "halt", "abort"} /\ proc.at = "exit" /\ Leaving(proc)
    BY <1>1, <1>11 DEF ExitStep, ShapedProc, Leaving
  <2>2. proc.ctl = "abort"
    BY <1>1, <1>11, <2>1, ExitDoes
  <2>3. proc.exitAs = "aborted"
    BY <2>1, <2>2 DEF Leaving
  <2> QED BY <1>1, <1>11, <2>1, <2>3, ExitDoes DEF Wrote
<1>12. ~RecordBlocked
  BY <1>1, PairsDoes DEF IsProc, ProcFields
<1>13. ~FinishRun /\ ~SuspendRun /\ ~Crash
  BY FinishDoes, SuspendDoes, DownIs DEF Crash
<1>14. ~Resume
  BY ResumeDoes, WalkingIs
<1>15. ~StopRequested /\ ~NoTerminal
  BY <1>1, DisruptionDoes
<1>16. CASE Environment \/ UNCHANGED vars
  BY <1>16 DEF Environment, Respond, DeviceFinishes, DeadlinePasses, vars
<1> QED BY <1>2, <1>3, <1>4, <1>5, <1>6, <1>7, <1>8, <1>9, <1>10, <1>11, <1>12, <1>13,
           <1>14, <1>15, <1>16 DEF Next, Engine, Disruption

(* A process that is down only starts or resumes.                          *)
LEMMA DownRests ==
  ASSUME [Next]_vars, proc.at = "down"
  PROVE  \/ UNCHANGED proc
         \/ \E ev : Write(ev) /\ ev.type \in {"runStarted", "runResumed"}
PROOF
<1>1. CASE StartRun \/ Resume
  BY <1>1, StartDoes, ResumeDoes DEF Wrote
<1>2. CASE Environment \/ UNCHANGED vars
  BY <1>2 DEF Environment, Respond, DeviceFinishes, DeadlinePasses, vars
<1> QED BY <1>1, <1>2
        DEF Next, Engine, Disruption, AdoptStep, EnterStep, GateSupervision, WriteIntent,
            Dispatch, Settle, AdoptTerminal, Judge, RecordNegative, RetryInForce,
            ContinueEscalation, ConsultHook, AskEscalation, Supersede, ExitStep,
            RecordBlocked, FinishRun, SuspendRun, AskAdjudication, StopRequested,
            NoTerminal, Crash

(* Finishing is kept by every step.                                        *)
LEMMA FinishingNext ==
  ASSUME Ledger, Ledger', Finishing, [Next]_vars
  PROVE  Finishing'
PROOF
<1>1. /\ IsSequence(log) /\ IsFold(ck) /\ IsFold(ck') /\ Stacked(ck)
      /\ IsProc(proc) /\ ShapedProc
  BY LedgerIs DEF Ledger, ShapedLedger, Shape
<1>2. ASSUME proc'.at = "finish"
      PROVE  Aborted'
  <2>1. ASSUME NEW ev, Write(ev), ev.type = "stepExited", ev.state = "aborted"
        PROVE  Aborted'
    <3>1. LastAborted'
      BY <1>1, <2>1, LastAbortedNow
    <3>2. /\ Len(log) \in Nat /\ Len(log') = Len(log) + 1
          /\ log'[Len(log) + 1] = ev
      BY <1>1, <2>1, Grows
    <3>3. ~UNCHANGED log
      BY <3>2
    <3>4. PICK e : Writes(e)
      BY <3>3, StepWrites
    <3>5. e = ev
      BY <1>1, <3>2, <3>4, WriteIs, Grows
    <3> QED BY <2>1, <3>1, <3>4, <3>5, AbortLeaves DEF Aborted
  <2>2. CASE proc.at = "finish"
    <3>1. Aborted
      BY <2>2 DEF Finishing
    <3>2. CASE UNCHANGED << log, ck >>
      BY <3>1, <3>2 DEF Aborted, LastAborted, AllExits, OnlyBlocked, NullSpan, At
    <3>3. ASSUME NEW ev, Writes(ev)
          PROVE  Aborted'
      BY <2>2, <3>1, <3>3, AbortedStays
    <3> QED BY <3>2, <3>3, StepWrites
  <2> QED BY <1>2, <2>1, <2>2, FinishComes
<1>3. ASSUME ck'.status = "finished"
      PROVE  proc'.at = "down" /\ (Aborted' \/ Complete')
  <2>1. CASE UNCHANGED << log, ck >>
    <3>1. proc.at = "down" /\ (Aborted \/ Complete)
      BY <1>3, <2>1 DEF Finishing
    <3>2. ~ \E ev : Write(ev)
      <4>1. ASSUME NEW ev, Write(ev) PROVE FALSE
        <5>1. Len(log) \in Nat /\ Len(log') = Len(log) + 1
          BY <1>1, <4>1, Grows
        <5> QED BY <2>1, <5>1
      <4> QED BY <4>1
    <3>3. UNCHANGED proc
      BY <3>1, <3>2, DownRests
    <3> QED BY <2>1, <3>1, <3>3
            DEF Aborted, LastAborted, AllExits, OnlyBlocked, NullSpan, At, Complete, Recorded
  <2>2. ASSUME NEW ev, Writes(ev)
        PROVE  proc'.at = "down" /\ (Aborted' \/ Complete')
    <3>1. /\ Write(ev) /\ ck' = FoldStep(ck, ev)
          /\ ev.type \in Apart \union {"humanRequested", "humanResponded"}
      BY <2>2, WriteIs DEF Write
    <3>2. ev.type = "runFinished"
      <4> SUFFICES ASSUME ev.type # "runFinished" PROVE FALSE
        OBVIOUS
      <4>1. /\ ck.status = "finished"
            /\ ev.type \notin {"runStarted", "runSuspended", "runResumed",
                               "humanRequested", "humanResponded"}
        BY <1>1, <1>3, <3>1, StatusKept
      <4>2. proc.at = "down"
        BY <4>1 DEF Finishing
      <4>3. \E i \in Steps : InStep(ev, i)
        BY <2>2, <3>1, <4>1, WriteIs DEF Apart
      <4> QED BY <4>2, <4>3 DEF InStep, Enters, Intends, Settles, Rules, Triggered, Exits
    <3>3. /\ proc' = Down /\ ck.started
          /\ \/ proc.at = "finish"
             \/ proc.at \in {"walk", "pairs"} /\ proc.i > Len(Flow)
      BY <2>2, <3>2, WriteIs DEF Writes, Mark, Asks, Responds
    <3>4. proc'.at = "down"
      BY <3>3, DownIs
    <3>5. CASE proc.at = "finish"
      BY <2>2, <3>4, <3>5, AbortedStays DEF Finishing
    <3>6. CASE proc.at \in {"walk", "pairs"} /\ proc.i > Len(Flow)
      <4>1. \A k \in Steps : k < proc.i /\ k \in Nat
        BY <1>1, <3>6, StepsAre DEF ShapedProc
      <4>2. \A k \in Steps : RecordedIn(ck, k) /\ ~OpenIn(ck, k)
        <5>1. CASE proc.at = "walk"
          BY <4>1, <5>1 DEF Ledger, WalkedProc, WalkedLedger, AdoptableIn
        <5>2. CASE proc.at = "pairs"
          <6>1. \A k \in Steps : RecordedIn(ck, k) /\ (OpenIn(ck, k) => proc.i <= k)
            BY <4>1, <5>2 DEF Ledger, WalkedProc
          <6> QED BY <1>1, <3>6, <6>1, StepsAre DEF ShapedProc
        <5> QED BY <3>6, <5>1, <5>2
      <4>3. Keeps(ck', ck)
        BY <1>1, <3>1, <3>2, <3>3, RunMarkIs DEF Still
      <4>4. ck.inFlight = << >>
        BY <1>1, <4>2, NoneOpen
      <4>5. Complete'
        BY <4>2, <4>3, <4>4 DEF Complete, Keeps, Recorded, RecordedIn, CompletedAt
      <4> QED BY <3>4, <4>5
    <3> QED BY <3>3, <3>5, <3>6
  <2> QED BY <2>1, <2>2, StepWrites
<1> QED BY <1>2, <1>3 DEF Finishing

(* A finished run left nothing open and nothing out, an aborted one no     *)
(* span open but those of interrupted blocked pairs.                       *)
THEOREM FinishesComplete == Spec => []FinishedIsComplete
PROOF
<1>1. Init => Finishing
  BY DownIs, SeedIs DEF Init, Finishing
<1>2. Ledger /\ Ledger' /\ Finishing /\ [Next]_vars => Finishing'
  BY FinishingNext
<1>3. Ledger /\ Finishing => FinishedIsComplete
  <2> SUFFICES ASSUME Ledger, Finishing
               PROVE  FinishedIsComplete
    OBVIOUS
  <2>1. IsSequence(log) /\ Len(log) \in Nat
    BY LedgerIs, SequenceIs
  <2>2. ASSUME OnlyBlocked, NEW i \in Steps, OpenSpan(i)
        PROVE  InBlockedSpan(i, Len(log) + 1)
    <3>1. NullSpan(i)
      BY <2>2 DEF OnlyBlocked, OpenIn, OpenSpan
    <3>2. At("stepEntered", i) \subseteq 1 .. Len(log)
      BY <2>1, AtIs
    <3> QED BY <2>1, <3>1, <3>2 DEF NullSpan, InBlockedSpan, Before
  <2> QED BY <2>2 DEF Finishing, Aborted, LastAborted, AllExits, Complete, FinishedIsComplete
<1> QED BY <1>1, <1>2, <1>3, LedgerHolds, PTL DEF Spec

-----------------------------------------------------------------------------
(* Attempts are numbered as they are intended, triggers as they are pulled. *)
Attempts(i) == At("actionIntent", i)
UpTo(S, n) == { m \in S : m <= n }
Numbered ==
  \A i \in Steps : \A n \in Attempts(i) :
    log[n].attempt = Cardinality(UpTo(Attempts(i), n))

(* The largest of the counts up to each member is the count of all.        *)
LEMMA LargestCount ==
  ASSUME NEW L \in Nat, NEW S \in SUBSET (1 .. L), S # { },
         NEW f, \A n \in S : f[n] = Cardinality(UpTo(S, n))
  PROVE  Max({ f[n] : n \in S }) = Cardinality(S)
PROOF
<1>1. Cardinality(S) \in Nat
  BY CountIs
<1>2. ASSUME NEW n \in S
      PROVE  f[n] \in 1 .. Cardinality(S)
  <2>1. n \in Nat /\ 0 < n /\ n \in Int
    OBVIOUS
  <2>2. Cardinality({ j \in S : j <= 0 }) < Cardinality({ j \in S : j <= n })
    BY <2>1, CountAscends
  <2>3. /\ Cardinality({ j \in S : j <= 0 }) \in Nat
        /\ Cardinality({ j \in S : j <= n }) \in Nat
        /\ Cardinality({ j \in S : j <= n }) <= Cardinality(S)
    <3>1. \A k \in Int : /\ Cardinality({ j \in S : j <= k }) \in Nat
                         /\ Cardinality({ j \in S : j <= k }) <= Cardinality(S)
      BY CountBelow
    <3>2. 0 \in Int
      OBVIOUS
    <3> QED BY <2>1, <3>1, <3>2
  <2>4. f[n] = Cardinality({ j \in S : j <= n })
    BY DEF UpTo
  <2> DEFINE a == Cardinality({ j \in S : j <= 0 })
  <2> DEFINE b == Cardinality({ j \in S : j <= n })
  <2> DEFINE c == Cardinality(S)
  <2>5. a < b /\ a \in Nat /\ b \in Nat /\ c \in Nat /\ b <= c /\ f[n] = b
    BY <1>1, <2>2, <2>3, <2>4
  <2> HIDE DEF a, b, c
  <2>6. f[n] \in 1 .. c
    BY <2>5
  <2> QED BY <2>6 DEF c
<1>3. PICK x \in S : \A y \in S : y <= x
  BY LargestExists
<1>4. UpTo(S, x) = S
  BY <1>3 DEF UpTo
<1>5. f[x] = Cardinality(S)
  BY <1>4
<1> DEFINE T == { f[n] : n \in S }
<1>6. T \in SUBSET (1 .. Cardinality(S)) /\ Cardinality(S) \in T
  BY <1>2, <1>3, <1>5
<1> HIDE DEF T
<1>7. Max(T) \in T /\ \A y \in T : y <= Max(T)
  BY <1>1, <1>6, MaxIs
<1>8. Max(T) \in 1 .. Cardinality(S) /\ Cardinality(S) <= Max(T)
  BY <1>6, <1>7
<1>9. Max(T) = Cardinality(S)
  BY <1>1, <1>8
<1> QED BY <1>9 DEF T

(* The next attempt of a step is one more than those there are.            *)
LEMMA NextAttemptIs ==
  ASSUME IsSequence(log), proc.base \in 0 .. Len(log), Numbered, NEW i \in Steps
  PROVE  NextAttempt(i) = Cardinality(Attempts(i)) + 1
PROOF
<1> DEFINE S == Attempts(i)
<1> DEFINE B == { n \in S : n <= proc.base }
<1>1. S \in SUBSET (1 .. Len(log)) /\ Len(log) \in Nat /\ proc.base \in Int
  BY AtIs DEF Attempts
<1>2. Entries(Prefix, "actionIntent", StepPath(i)) = B
  BY EntriesOfPrefix DEF Prefix, Attempts, At
<1>3. Cardinality(S) = Cardinality(B) + Cardinality({ n \in S : n > proc.base })
  BY <1>1, CountSplits
<1>4. AttemptBase(i) = Cardinality(B)
  <2>1. AttemptBase(i) = IF B = { } THEN 0 ELSE Max({ log[n].attempt : n \in B })
    BY <1>2 DEF AttemptBase
  <2>2. CASE B = { }
    BY <2>1, <2>2, FS_EmptySet
  <2>3. CASE B # { }
    <3> DEFINE f == [n \in B |-> log[n].attempt]
    <3>1. B \in SUBSET (1 .. Len(log))
      BY <1>1
    <3>2. ASSUME NEW n \in B
          PROVE  f[n] = Cardinality(UpTo(B, n))
      <4>1. UpTo(B, n) = UpTo(S, n)
        BY <1>1 DEF UpTo
      <4>2. log[n].attempt = Cardinality(UpTo(S, n))
        BY DEF Numbered
      <4> QED BY <4>1, <4>2
    <3>3. { f[n] : n \in B } = { log[n].attempt : n \in B }
      OBVIOUS
    <3> HIDE DEF f, B
    <3>4. Max({ f[n] : n \in B }) = Cardinality(B)
      BY <1>1, <2>3, <3>1, <3>2, LargestCount
    <3> QED BY <2>1, <2>3, <3>3, <3>4
  <2> QED BY <2>2, <2>3
<1>5. { n \in Entries(log, "actionIntent", StepPath(i)) : n > proc.base }
        = { n \in S : n > proc.base }
  BY DEF Attempts, At
<1>6. Cardinality(B) \in Nat /\ Cardinality({ n \in S : n > proc.base }) \in Nat
  <2>1. B \in SUBSET (1 .. Len(log)) /\ { n \in S : n > proc.base } \in SUBSET (1 .. Len(log))
    BY <1>1
  <2> HIDE DEF B, S
  <2> QED BY <1>1, <2>1, CountIs
<1>7. NextAttempt(i) = Cardinality(B) + 1 + Cardinality({ n \in S : n > proc.base })
  BY <1>4, <1>5 DEF NextAttempt
<1> DEFINE b == Cardinality(B)
<1> DEFINE c == Cardinality({ n \in S : n > proc.base })
<1>8. b \in Nat /\ c \in Nat /\ NextAttempt(i) = b + 1 + c /\ Cardinality(S) = b + c
  BY <1>3, <1>6, <1>7
<1> HIDE DEF b, c
<1> QED BY <1>8

(* Attempt numbers ascend through every step.                              *)
LEMMA NumberedNext ==
  ASSUME Ledger, Numbered, [Next]_vars
  PROVE  Numbered'
PROOF
<1>1. CASE UNCHANGED << log, ck >>
  BY <1>1 DEF Numbered, Attempts, UpTo, At
<1>2. ASSUME NEW ev, Writes(ev)
      PROVE  Numbered'
  <2>1. /\ Write(ev) /\ IsSequence(log) /\ Len(log) \in Nat
        /\ \A n \in DOMAIN log : log'[n] = log[n]
        /\ log'[Len(log) + 1] = ev /\ DOMAIN log = 1 .. Len(log)
        /\ proc.base \in 0 .. Len(log)
    BY <1>2, WriteIs, Grows, LedgerIs
  <2>2. PICK L \in Nat : L = Len(log) + 1
    BY <2>1
  <2> SUFFICES ASSUME NEW i \in Steps, NEW n \in Attempts(i)'
               PROVE  log'[n].attempt = Cardinality(UpTo(Attempts(i)', n))
    BY DEF Numbered, UpTo
  <2> DEFINE S == Attempts(i)
  <2>3. S \in SUBSET (1 .. Len(log)) /\ \A m \in S : m \in DOMAIN log
    BY <2>1, AtIs DEF Attempts
  <2>4. \/ S' = S
        \/ /\ S' = S \union {L} /\ InStep(ev, i) /\ ev.type = "actionIntent"
    <3>1. CASE ev.type # "actionIntent"
      BY <2>1, <3>1, AtStays DEF Attempts
    <3>2. CASE ev.type = "actionIntent"
      <4>1. PICK j \in Steps : InStep(ev, j) /\ ev.path = StepPath(j)
        BY <1>2, <3>2, WriteIs
      <4>2. S' = IF j = i THEN S \union {L} ELSE S
        BY <2>1, <2>2, <3>2, <4>1, AtGrows DEF Attempts
      <4> QED BY <3>2, <4>1, <4>2
    <3> QED BY <3>1, <3>2
  <2>5. CASE n \in S
    <3>1. UpTo(S', n) = UpTo(S, n)
      BY <2>2, <2>3, <2>4, <2>5 DEF UpTo
    <3>2. log[n].attempt = Cardinality(UpTo(S, n))
      BY <2>5 DEF Numbered
    <3> QED BY <2>1, <2>3, <2>5, <3>1, <3>2
  <2>6. CASE n \notin S
    <3>1. /\ S' = S \union {L} /\ n = L /\ InStep(ev, i) /\ ev.type = "actionIntent"
      BY <2>4, <2>6
    <3>2. ev.attempt = Cardinality(S) + 1
      <4>1. ev.attempt = NextAttempt(i)
        BY <3>1 DEF InStep, Enters, Intends, Settles, Rules, Triggered, Exits
      <4> QED BY <2>1, <4>1, NextAttemptIs
    <3>3. UpTo(S', n) = S \union {Len(log) + 1}
      BY <2>1, <2>2, <2>3, <3>1 DEF UpTo
    <3>4. Cardinality(S \union {Len(log) + 1}) = Cardinality(S) + 1
      BY <2>1, <2>3, CountGrows
    <3> QED BY <2>1, <2>2, <3>1, <3>2, <3>3, <3>4
  <2> QED BY <2>5, <2>6
<1> QED BY <1>1, <1>2, StepWrites

(* No two attempts of an instance share a number, whatever segment they    *)
(* ran in.                                                                 *)
THEOREM AttemptsRise == Spec => []AttemptsAscend
PROOF
<1>1. Init => Numbered
  <2>1. Init => \A i \in Steps : Attempts(i) = { }
    BY EmptyIs DEF Init, Attempts, At, Entries
  <2> QED BY <2>1 DEF Numbered
<1>2. Ledger /\ Numbered /\ [Next]_vars => Numbered'
  BY NumberedNext
<1>3. Ledger /\ Numbered => AttemptsAscend
  <2> SUFFICES ASSUME Ledger, Numbered, NEW i \in Steps, NEW n \in Attempts(i),
                      NEW m \in Before(Attempts(i), n)
               PROVE  log[m].attempt < log[n].attempt
    BY DEF AttemptsAscend, Attempts
  <2>1. Attempts(i) \in SUBSET (1 .. Len(log)) /\ Len(log) \in Nat
    BY LedgerIs, AtIs DEF Attempts
  <2>2. m \in Attempts(i) /\ m < n /\ m \in Nat
    BY <2>1 DEF Before
  <2>3. Cardinality({ j \in Attempts(i) : j <= m }) < Cardinality({ j \in Attempts(i) : j <= n })
    BY <2>1, <2>2, CountAscends
  <2> QED BY <2>2, <2>3 DEF Numbered, UpTo
<1> QED BY <1>1, <1>2, <1>3, LedgerHolds, PTL DEF Spec

-----------------------------------------------------------------------------
(* Bindings are well formed.                                               *)
LEMMA BindingsAre ==
  ASSUME NEW i \in Steps, NEW hook, NEW b \in BindingsOn(i, hook)
  PROVE  b \in HandlerBindings
PROOF
<1> DEFINE s == AllBindings(i)
<1>1. s \in Seq(HandlerBindings)
  BY FlowShape, ConcatProperties DEF AllBindings, Steps
<1>2. \A k \in DOMAIN s : s[k] \in HandlerBindings
  BY <1>1
<1>3. PICK k \in DOMAIN s : b = s[k]
  BY DEF BindingsOn
<1> QED BY <1>2, <1>3

(* The triggers of a hook, and the same before a position.                 *)
Pulls(i, hook) == { m \in At("handlerTriggered", i) : log[m].hook = hook }
Earlier(i, hook, n) ==
  { m \in Before(At("handlerTriggered", i), n) : log[m].hook = hook }
Counted(i, n) ==
  /\ log[n].trigger = Cardinality(Earlier(i, log[n].hook, n)) + 1
  /\ \E b \in BindingsOn(i, log[n].hook) : log[n].trigger <= b.triggers

(* Counted triggers stay counted.                                          *)
LEMMA CountedStays ==
  ASSUME IsSequence(log), NEW ev, Write(ev), NEW i \in Steps,
         NEW n \in At("handlerTriggered", i), Counted(i, n)
  PROVE  Counted(i, n)'
PROOF
<1> DEFINE T == At("handlerTriggered", i)
<1>1. T \subseteq 1 .. Len(log) /\ Len(log) \in Nat /\ DOMAIN log = 1 .. Len(log)
  BY AtIs, SequenceIs
<1>2. /\ \A m \in DOMAIN log : log'[m] = log[m]
      /\ log' = Append(log, ev)
  BY Grows
<1>3. T' = T \/ T' = T \union {Len(log) + 1}
  <2>1. \/ Entries(log', "handlerTriggered", StepPath(i))
             = Entries(log, "handlerTriggered", StepPath(i))
        \/ Entries(log', "handlerTriggered", StepPath(i))
             = Entries(log, "handlerTriggered", StepPath(i)) \union {Len(log) + 1}
    BY <1>2, EntriesGrow
  <2> QED BY <2>1 DEF At
<1>4. log'[n] = log[n] /\ n \in 1 .. Len(log)
  BY <1>1, <1>2
<1>5. PICK h : h = log[n].hook
  OBVIOUS
<1>6. Earlier(i, h, n)' = Earlier(i, h, n)
  <2> HIDE DEF T
  <2>1. \A m : m \in T' /\ m < n <=> m \in T /\ m < n
    BY <1>1, <1>3, <1>4
  <2>2. \A m \in T : log'[m] = log[m]
    BY <1>1, <1>2
  <2>3. Earlier(i, h, n) = { m \in T : m < n /\ log[m].hook = h }
    BY DEF Earlier, Before, T
  <2>4. Earlier(i, h, n)' = { m \in T' : m < n /\ log'[m].hook = h }
    BY DEF Earlier, Before, T
  <2> QED BY <2>1, <2>2, <2>3, <2>4
<1> QED BY <1>4, <1>5, <1>6 DEF Counted

(* Triggers stay within budget through every step.                         *)
LEMMA CountedNext ==
  ASSUME Ledger, TriggersWithinBudget, [Next]_vars
  PROVE  TriggersWithinBudget'
PROOF
<1>1. CASE UNCHANGED << log, ck >>
  BY <1>1 DEF TriggersWithinBudget, At, Before
<1>2. ASSUME NEW ev, Writes(ev)
      PROVE  TriggersWithinBudget'
  <2>1. /\ Write(ev) /\ IsSequence(log) /\ Len(log) \in Nat
        /\ \A n \in DOMAIN log : log'[n] = log[n]
        /\ log'[Len(log) + 1] = ev /\ DOMAIN log = 1 .. Len(log)
    BY <1>2, WriteIs, Grows
  <2>2. \A i \in Steps : \A n \in At("handlerTriggered", i) : Counted(i, n)
    BY DEF TriggersWithinBudget, Counted, Earlier
  <2> SUFFICES ASSUME NEW i \in Steps, NEW n \in At("handlerTriggered", i)'
               PROVE  Counted(i, n)'
    BY DEF TriggersWithinBudget, Counted, Earlier
  <2>3. CASE n \in At("handlerTriggered", i)
    BY <2>1, <2>2, <2>3, CountedStays
  <2>4. CASE n \notin At("handlerTriggered", i)
    <3> DEFINE T == At("handlerTriggered", i)
    <3>1. ev.type = "handlerTriggered"
      BY <2>1, <2>4, AtStays
    <3>2. PICK j \in Steps : InStep(ev, j) /\ ev.path = StepPath(j)
      BY <1>2, <3>1, WriteIs
    <3>3. j = i /\ n = Len(log) + 1 /\ T' = T \union {Len(log) + 1}
      BY <2>1, <2>4, <3>1, <3>2, AtGrows
    <3>4. /\ ev.trigger = Triggers(i, ev.hook) + 1
          /\ \E b \in BindingsOn(i, ev.hook) : Triggers(i, ev.hook) < b.triggers
      BY <3>1, <3>2, <3>3 DEF InStep, Enters, Intends, Settles, Rules, Triggered, Exits
    <3>5. T \in SUBSET (1 .. Len(log))
      BY <2>1, AtIs
    <3>6. Triggers(i, ev.hook) = Cardinality(Pulls(i, ev.hook))
      BY DEF Triggers, Pulls, At
    <3>7. Pulls(i, ev.hook) \in SUBSET (1 .. Len(log))
      BY <3>5 DEF Pulls
    <3>8. Triggers(i, ev.hook) \in Nat
      BY <2>1, <3>6, <3>7, CountIs
    <3>9. PICK h : h = ev.hook
      OBVIOUS
    <3>10. Earlier(i, h, n)' = Pulls(i, h)
      <4> HIDE DEF T
      <4>0. /\ T \subseteq 1 .. Len(log) /\ Len(log) \in Nat /\ n = Len(log) + 1
            /\ T' = T \union {Len(log) + 1}
        BY <2>1, <3>3, <3>5 DEF T
      <4>1. \A m : m \in T' /\ m < n <=> m \in T
        <5>1. \A m \in T : m \in Nat /\ m < n /\ m \in T'
          BY <4>0
        <5>2. \A m \in T' : m < n => m \in T
          <6>1. ~ (n < n)
            BY <4>0
          <6> QED BY <4>0, <6>1
        <5> QED BY <5>1, <5>2
      <4>2. \A m \in T : log'[m] = log[m]
        BY <2>1, <3>5
      <4>3. Pulls(i, h) = { m \in T : log[m].hook = h }
        BY DEF Pulls, T
      <4>4. Earlier(i, h, n)' = { m \in T' : m < n /\ log'[m].hook = h }
        BY DEF Earlier, Before, T
      <4> QED BY <4>1, <4>2, <4>3, <4>4
    <3>11. PICK b \in BindingsOn(i, ev.hook) : Triggers(i, ev.hook) < b.triggers
      BY <3>4
    <3>12. b.triggers \in Nat
      BY BindingsAre DEF HandlerBindings
    <3>13. ev.trigger <= b.triggers
      BY <3>4, <3>8, <3>11, <3>12
    <3>14. log'[n] = ev /\ BindingsOn(i, h)' = BindingsOn(i, h)
      BY <2>1, <3>3 DEF BindingsOn, AllBindings
    <3> QED BY <3>4, <3>6, <3>9, <3>10, <3>11, <3>13, <3>14 DEF Counted
  <2> QED BY <2>3, <2>4
<1> QED BY <1>1, <1>2, StepWrites

(* Triggers are numbered without a gap and never exceed their binding.     *)
THEOREM TriggersBounded == Spec => []TriggersWithinBudget
PROOF
<1>1. Init => TriggersWithinBudget
  <2>1. Init => \A i \in Steps : At("handlerTriggered", i) = { }
    BY EmptyIs DEF Init, At, Entries
  <2> QED BY <2>1 DEF TriggersWithinBudget
<1>2. Ledger /\ TriggersWithinBudget /\ [Next]_vars => TriggersWithinBudget'
  BY CountedNext
<1> QED BY <1>1, <1>2, LedgerHolds, PTL DEF Spec

-----------------------------------------------------------------------------
(* Every verdict there is is one of the three.                             *)
Verdicts == Statuses \union {NoVerdict}
Ruling ==
  /\ \A n \in DOMAIN log : log[n].type = "verdictRecorded" => log[n].verdict \in Statuses
  /\ \A a \in DOMAIN ck.inFlight : ck.inFlight[a].verdict \in Verdicts
  /\ \A a \in DOMAIN ck.completed : ck.completed[a].verdict \in Verdicts
Folded == proc.fold \in Seq(Statuses)

(* The verdicts a process carries are kept by Goto and Leave.              *)
LEMMA FoldKept ==
  ASSUME NEW p, IsProc(p)
  PROVE  /\ \A at : Goto(p, at).fold = p.fold
         /\ \A state, ctl : Leave(p, state, ctl).fold = p.fold
         /\ ChainHead(p).fold = p.fold
         /\ \A status, class : Negative(p, status, class).fold = p.fold
PROOF
BY DEF IsProc, ProcFields, Goto, Leave, ChainHead, Negative

(* ... by Disposed,                                                        *)
LEMMA DisposedFold ==
  ASSUME NEW p, IsProc(p), NEW step, NEW outcome
  PROVE  Disposed(p, step, outcome).fold = p.fold
PROOF
<1>1. [p EXCEPT !.at = "act", !.pos = @ + 1, !.tries = 0].fold = p.fold
  BY DEF IsProc, ProcFields
<1> QED BY <1>1, FoldKept DEF Disposed

(* ... by dropping the last,                                               *)
LEMMA FrontTyped ==
  ASSUME NEW S, NEW s \in Seq(S)
  PROVE  Front(s) \in Seq(S)
PROOF
BY DEF Front

(* ... by Seeded,                                                          *)
LEMMA SeededFold ==
  ASSUME NEW p, IsProc(p), p.fold \in Seq(Statuses), NEW v \in Statuses
  PROVE  Seeded(p, v).fold \in Seq(Statuses)
PROOF
<1> DEFINE kept == IF p.seeded THEN Front(p.fold) ELSE p.fold
<1>1. kept \in Seq(Statuses)
  BY FrontTyped
<1> HIDE DEF kept
<1>2. Append(kept, v) \in Seq(Statuses)
  BY <1>1
<1>3. Seeded(p, v).fold = Append(kept, v)
  BY DEF Seeded, IsProc, ProcFields, kept
<1> QED BY <1>2, <1>3

(* ... and by Ruled.                                                       *)
LEMMA RuledFold ==
  ASSUME NEW p, IsProc(p), p.fold \in Seq(Statuses), NEW v \in Statuses
  PROVE  Ruled(p, v).fold \in Seq(Statuses)
PROOF
<1> DEFINE s == Seeded(p, v)
<1> DEFINE q == [s EXCEPT !.status = v]
<1>1. IsProc(s) /\ s.fold \in Seq(Statuses)
  BY SeededIs, SeededFold DEF SameRound
<1> HIDE DEF s
<1>2. IsProc(q) /\ q.fold \in Seq(Statuses)
  BY <1>1 DEF IsProc, ProcFields
<1>3. Ruled(p, v) = IF v = "pass" THEN Leave(q, "judged", "continue")
                    ELSE IF p.plain THEN Leave(q, "judged", "halt")
                    ELSE Goto(q, "consult")
  BY DEF Ruled, s
<1> HIDE DEF q
<1> QED BY <1>2, <1>3, FoldKept

(* No verdicts yet.                                                        *)
LEMMA EmptyFold == << >> \in Seq(Statuses)
PROOF
OBVIOUS

(* The verdicts a process carries are statuses, through every step.        *)
LEMMA FoldedNext ==
  ASSUME Ledger, Ruling, Folded, [Next]_vars
  PROVE  Folded'
PROOF
<1>1. Shape /\ IsProc(proc) /\ ShapedProc /\ proc.fold \in Seq(Statuses)
  BY LedgerIs DEF Shape, Folded
<1>2. /\ Down.fold = << >>
      /\ \A base, work : Walking(base, work).fold = << >>
  BY DEF Down, Walking
<1>3. CASE StartRun \/ FinishRun \/ SuspendRun \/ Crash
  BY <1>2, <1>3, StartDoes, FinishDoes, SuspendDoes, EmptyFold DEF Crash, Folded
<1>4. CASE AdoptStep
  <2> DEFINE v == RecordOf(proc.i).verdict
  <2>1. proc'.fold = Adopted(proc.fold, v) /\ Adoptable(proc.i)
    BY <1>1, <1>4, AdoptDoes
  <2>2. v \in Verdicts
    <3>1. CompletedAt(ck, StepPath(proc.i)) \in SUBSET (1 .. Len(ck.completed))
          /\ CompletedAt(ck, StepPath(proc.i)) # { } /\ Len(ck.completed) \in Nat
          /\ CompletedAt(ck, StepPath(proc.i)) \subseteq DOMAIN ck.completed
      BY <2>1, SequenceIs, LedgerIs DEF Adoptable, Recorded, CompletedAt, IsFold
    <3>2. Latest(CompletedAt(ck, StepPath(proc.i))) \in DOMAIN ck.completed
      BY <3>1, LatestIs
    <3> QED BY <3>2 DEF Ruling, RecordOf
  <2> HIDE DEF v
  <2>3. v \in Statuses => Append(proc.fold, v) \in Seq(Statuses)
    BY <1>1
  <2> QED BY <1>1, <2>1, <2>2, <2>3 DEF Adopted, Verdicts, Folded
<1>5. CASE EnterStep
  <2> DEFINE taken == [proc EXCEPT !.work = IF proc.site = proc.i THEN "none" ELSE @]
  <2> DEFINE plain == [Negative(taken, "fail", "none") EXCEPT !.plain = TRUE]
  <2> DEFINE cleared == [taken EXCEPT !.class = "none"]
  <2> DEFINE v == RulingOn(Prefix, taken.i)
  <2>1. /\ IsProc(taken) /\ taken.fold = proc.fold /\ taken.i = proc.i
        /\ IsProc(cleared) /\ cleared.fold = proc.fold
    BY <1>1 DEF IsProc, ProcFields
  <2>2. proc' = plain \/ proc' = AfterEntry(taken)
    BY <1>5 DEF EnterStep
  <2> HIDE DEF taken
  <2>3. plain.fold = proc.fold
    <3> DEFINE n == Negative(taken, "fail", "none")
    <3>1. n.fold = proc.fold /\ IsProc(n)
      BY <2>1, FoldKept, NegativeIs DEF SameRound
    <3> HIDE DEF n
    <3>2. [n EXCEPT !.plain = TRUE].fold = proc.fold
      BY <3>1 DEF IsProc, ProcFields
    <3> QED BY <3>2 DEF n
  <2>4. ResumesAtRuling => v \in Statuses
    <3> SUFFICES ASSUME ResumesAtRuling PROVE v \in Statuses
      OBVIOUS
    <3> DEFINE V == Entries(Prefix, "verdictRecorded", StepPath(proc.i))
    <3>1. v # NoVerdict /\ v = IF V = { } THEN NoVerdict ELSE Prefix[Latest(V)].verdict
      BY <2>1 DEF ResumesAtRuling, RulingOn
    <3>2. /\ IsSequence(Prefix) /\ Len(Prefix) = proc.base /\ DOMAIN Prefix = 1 .. proc.base
          /\ \A n \in 1 .. proc.base : Prefix[n] = log[n]
          /\ proc.base \in Nat /\ 1 .. proc.base \subseteq DOMAIN log
      <4>1. /\ IsSequence(log) /\ proc.base \in 0 .. Len(log)
            /\ Len(log) \in Nat /\ DOMAIN log = 1 .. Len(log)
        BY LedgerIs, SequenceIs
      <4>2. /\ IsSequence(Prefix) /\ Len(Prefix) = proc.base /\ DOMAIN Prefix = 1 .. proc.base
            /\ \A n \in 1 .. proc.base : Prefix[n] = log[n]
        BY <4>1, PrefixIs DEF Prefix
      <4> QED BY <4>1, <4>2
    <3>3. V \in SUBSET (1 .. proc.base) /\ \A n \in V : Prefix[n].type = "verdictRecorded"
      BY <3>2, EntriesArePositions
    <3> HIDE DEF V
    <3>4. V # { }
      BY <3>1
    <3>5. Latest(V) \in V
      BY <3>2, <3>3, <3>4, LatestIs
    <3>6. /\ Prefix[Latest(V)] = log[Latest(V)] /\ Latest(V) \in DOMAIN log
          /\ log[Latest(V)].type = "verdictRecorded"
      BY <3>2, <3>3, <3>5
    <3> QED BY <3>1, <3>4, <3>6 DEF Ruling
  <2>5. AfterEntry(taken).fold \in Seq(Statuses)
    <3> DEFINE ruled == Ruled(cleared, v)
    <3>1. ResumesAtRuling => ruled.fold \in Seq(Statuses)
      BY <1>1, <2>1, <2>4, RuledFold
    <3>2. AfterEntry(taken)
            = CASE WorkHere = "adopt"      -> Goto(taken, "adoptSettle")
                [] WorkHere = "replay"     -> Goto(taken, "act")
                [] WorkHere = "confirm"    -> Goto(taken, "confirm")
                [] WorkHere = "abortRuled" -> Leave(taken, "aborted", "abort")
                [] OTHER -> IF ResumesAtRuling THEN ruled ELSE Goto(taken, "gate")
      BY DEF AfterEntry
    <3> HIDE DEF ruled
    <3> QED BY <1>1, <2>1, <3>1, <3>2, FoldKept
  <2> QED BY <1>1, <2>2, <2>3, <2>5 DEF Folded
<1>6. CASE GateSupervision
  <2>1. \/ proc' = ChainHead(proc) \/ proc' = Leave(proc, "aborted", "abort")
        \/ proc' = Goto(proc, "suspend")
    BY <1>6 DEF GateSupervision, GateRuled
  <2> QED BY <1>1, <2>1, FoldKept DEF Folded
<1>7. CASE WriteIntent
  <2>1. proc' = [proc EXCEPT !.at = "dispatch", !.call = NextCall, !.tries = @ + 1]
    BY <1>7 DEF WriteIntent
  <2>2. proc'.fold = proc.fold
    BY <1>1, <2>1 DEF IsProc, ProcFields
  <2> QED BY <1>1, <2>2 DEF Folded
<1>8. CASE Dispatch \/ AskEscalation \/ AskAdjudication \/ StopRequested \/ NoTerminal
  <2>1. \E at : proc' = Goto(proc, at)
    BY <1>8 DEF Dispatch, AskEscalation, AskAdjudication, StopRequested, NoTerminal
  <2> QED BY <1>1, <2>1, FoldKept DEF Folded
<1>9. CASE Settle \/ AdoptTerminal
  <2> DEFINE again == [proc EXCEPT !.tries = 1]
  <2>1. IsProc(again) /\ again.fold = proc.fold
    BY <1>1 DEF IsProc, ProcFields
  <2>2. \/ proc' = Disposed(proc, This, dev[proc.call].outcome)
        \/ proc' = Disposed(again, This, dev[proc.call].outcome)
    BY <1>9 DEF Settle, AdoptTerminal
  <2> HIDE DEF again
  <2> QED BY <1>1, <2>1, <2>2, DisposedFold DEF Folded
<1>10. ASSUME NEW v \in Judgments, Judge(v)
       PROVE  Folded'
  <2> DEFINE p == [proc EXCEPT !.class = "none"]
  <2>1. IsProc(p) /\ p.fold = proc.fold
    BY <1>1 DEF IsProc, ProcFields
  <2> HIDE DEF p
  <2>2. proc' = Ruled(p, v) /\ v \in Statuses
    BY <1>10, Marks DEF Judge, p
  <2>3. Ruled(p, v).fold \in Seq(Statuses)
    BY <1>1, <2>1, <2>2, RuledFold
  <2> QED BY <2>2, <2>3 DEF Folded
<1>11. CASE RecordNegative
  <2>1. proc' = Ruled(proc, proc.status) /\ proc.status \in Statuses
    BY <1>1, <1>11 DEF RecordNegative, ShapedProc
  <2>2. Ruled(proc, proc.status).fold \in Seq(Statuses)
    BY <1>1, <2>1, RuledFold
  <2> QED BY <2>1, <2>2 DEF Folded
<1>12. CASE Supersede
  <2> DEFINE s == Seeded(proc, proc.status)
  <2>1. proc.status \in Statuses
    BY <1>1, <1>12 DEF Supersede, ShapedProc
  <2>2. IsProc(s) /\ s.fold \in Seq(Statuses)
    BY <1>1, <2>1, SeededIs, SeededFold DEF SameRound
  <2> HIDE DEF s
  <2>3. proc' = Leave(s, "judged", HalfOpen(proc))
    BY <1>12 DEF Supersede, s
  <2> QED BY <2>2, <2>3, FoldKept DEF Folded
<1>13. CASE RetryInForce
  <2> DEFINE q == ChainHead(proc)
  <2>1. IsProc(q) /\ q.fold = proc.fold
    BY <1>1, ChainHeadIs, FoldKept DEF SameRound
  <2> HIDE DEF q
  <2>2. proc' = [q EXCEPT !.inForce = @ - 1]
    BY <1>13 DEF RetryInForce, q
  <2>3. proc'.fold = q.fold
    BY <2>1, <2>2 DEF IsProc, ProcFields
  <2> QED BY <1>1, <2>1, <2>3 DEF Folded
<1>14. CASE ContinueEscalation
  <2>1. PICK n \in Asked(proc) : \E answer \in {AnswerTo(Prefix, log[n].req)} :
       LET spent == [proc EXCEPT !.consumed = @ \union {log[n].req}]
       IN  proc' = CASE answer = "done"         -> ChainHead(spent)
                     [] answer = "cannotRepair" -> Leave(spent, "aborted", "abort")
                     [] answer \in {"pass", "fail", "unknown"} ->
                          [spent EXCEPT !.at = "supersede", !.status = answer]
                     [] answer = NoPending /\ log[n].req \in late ->
                          [spent EXCEPT !.at = "supersede", !.status = "unknown"]
                     [] answer = NoPending /\ log[n].req \notin late ->
                          Goto(proc, "suspend")
    BY <1>14 DEF ContinueEscalation
  <2> DEFINE answer == AnswerTo(Prefix, log[n].req)
  <2> DEFINE spent == [proc EXCEPT !.consumed = @ \union {log[n].req}]
  <2> DEFINE over(status) == [spent EXCEPT !.at = "supersede", !.status = status]
  <2>2. IsProc(spent) /\ spent.fold = proc.fold /\ \A status : over(status).fold = proc.fold
    BY <1>1 DEF IsProc, ProcFields
  <2>3. answer \in Rulings
    BY <1>1, AskedRulings, LedgerIs
  <2>4. \/ proc' = ChainHead(spent) \/ proc' = Leave(spent, "aborted", "abort")
        \/ proc' = over(answer) \/ proc' = over("unknown") \/ proc' = Goto(proc, "suspend")
    <3> HIDE DEF answer
    <3>1. proc' = CASE answer = "done"         -> ChainHead(spent)
                     [] answer = "cannotRepair" -> Leave(spent, "aborted", "abort")
                     [] answer \in {"pass", "fail", "unknown"} -> over(answer)
                     [] answer = NoPending /\ log[n].req \in late -> over("unknown")
                     [] answer = NoPending /\ log[n].req \notin late ->
                          Goto(proc, "suspend")
      BY <2>1 DEF answer
    <3> HIDE DEF spent, over
    <3> QED BY <2>3, <3>1 DEF Rulings
  <2> HIDE DEF spent, over
  <2> QED BY <1>1, <2>2, <2>4, FoldKept DEF Folded
<1>15. CASE ConsultHook
  <2> DEFINE q == ChainHead(proc)
  <2>1. IsProc(q) /\ q.fold = proc.fold
    BY <1>1, ChainHeadIs, FoldKept DEF SameRound
  <2> DEFINE again(k) == [q EXCEPT !.inForce = k]
  <2>2. \A k : again(k).fold = proc.fold
    BY <2>1 DEF IsProc, ProcFields
  <2> DEFINE b == BindingFor(proc)
  <2>3. b.action \in {"retry", "continue", "abort", "escalate"} \/ Matching(proc) = { }
    BY <1>15, BindingIs, LedgerIs DEF HandlerBindings, ConsultHook, Inside
  <2>4. \/ proc' = NotHandled(proc) \/ proc' = again(InForce(b))
        \/ proc' = Leave(proc, "judged", "continue")
        \/ proc' = Leave(proc, "aborted", "abort") \/ proc' = Goto(proc, "ask")
    <3> HIDE DEF b
    <3> QED BY <1>15, <2>3 DEF ConsultHook, b
  <2> HIDE DEF q, b, again
  <2>5. proc'.fold = proc.fold
    BY <1>1, <2>2, <2>4, FoldKept DEF NotHandled
  <2> QED BY <1>1, <2>5 DEF Folded
<1>16. CASE ExitStep
  <2>1. NextStep(proc).fold = proc.fold /\ IsProc(NextStep(proc))
    <3>1. NextStep(proc).fold = proc.fold
      BY DEF NextStep, Walking, Down
    <3> QED BY <1>1, <3>1, NextStepIs
  <2>2. Halted(proc).fold = proc.fold
    BY <2>1, FoldKept DEF Halted
  <2>3. [proc EXCEPT !.at = "finish", !.fold = << >>].fold = << >>
    BY <1>1 DEF IsProc, ProcFields
  <2>4. proc.ctl \in {"continue", "halt", "abort"}
    BY <1>1, <1>16 DEF ExitStep, ShapedProc, Leaving
  <2>5. \/ proc' = NextStep(proc) \/ proc' = Halted(proc)
        \/ proc' = [proc EXCEPT !.at = "finish", !.fold = << >>]
    BY <1>16, <2>4 DEF ExitStep
  <2> QED BY <1>1, <2>1, <2>2, <2>3, <2>5, EmptyFold DEF Folded
<1>17. CASE RecordBlocked
  <2>1. proc' = proc \/ proc' = [proc EXCEPT !.i = @ + 1]
    BY <1>1, <1>17, PairsDoes
  <2>2. proc'.fold = proc.fold
    BY <1>1, <2>1 DEF IsProc, ProcFields
  <2> QED BY <1>1, <2>2 DEF Folded
<1>18. CASE Resume
  <2> DEFINE c == ck.frontier.intent
  <2> DEFINE chain == log[Max({ n \in DOMAIN log : /\ log[n].type = "actionIntent"
                                                    /\ log[n].call = c })].chain
  <2> DEFINE kept(work) == [Walking(Len(log), work) EXCEPT
                              !.site = StepAt(ck.frontier.path), !.call = c, !.pos = chain]
  <2>1. PICK work : ResumeWith(work)
    BY <1>18 DEF Resume
  <2>2. \/ proc' = Goto(Down, "adjudicate") \/ proc' = Goto(Down, "suspend")
        \/ proc' = Walking(Len(log), "none") \/ proc' = kept(work)
    <3>1. proc' = CASE work = "ask"     -> Goto(Down, "adjudicate")
                    [] work = "reawait" -> Goto(Down, "suspend")
                    [] work = "none"    -> Walking(Len(log), "none")
                    [] OTHER -> kept(work)
      BY <2>1 DEF ResumeWith
    <3> HIDE DEF kept
    <3> QED BY <3>1
  <2>3. kept(work).fold = << >>
    <3> HIDE DEF c, chain
    <3> QED BY DEF Walking, Down
  <2> HIDE DEF kept
  <2>4. \A at : Goto(Down, at).fold = << >>
    BY <1>2, DownIs, FoldKept
  <2> QED BY <1>2, <2>2, <2>3, <2>4, EmptyFold DEF Folded
<1>19. CASE Environment \/ UNCHANGED vars
  BY <1>1, <1>19 DEF Environment, Respond, DeviceFinishes, DeadlinePasses, vars, Folded
<1> QED BY <1>3, <1>4, <1>5, <1>6, <1>7, <1>8, <1>9, <1>10, <1>11, <1>12, <1>13, <1>14,
           <1>15, <1>16, <1>17, <1>18, <1>19 DEF Next, Engine, Disruption

-----------------------------------------------------------------------------
(* The verdicts of a fold stay verdicts.                                   *)
VerdictsOf(s) == \A a \in DOMAIN s : s[a].verdict \in Verdicts

(* A span's verdict replaced.                                              *)
LEMMA PutVerdict ==
  ASSUME NEW s, IsSequence(s), VerdictsOf(s), NEW k \in DOMAIN s, NEW x,
         x.verdict \in Verdicts
  PROVE  VerdictsOf(Put(s, k, x))
PROOF
<1> DEFINE t == Put(s, k, x)
<1>1. DOMAIN t = DOMAIN s /\ \A i \in DOMAIN s : t[i] = IF i = k THEN x ELSE s[i]
  BY PutIs DEF Put
<1> HIDE DEF t
<1>2. \A i \in DOMAIN t : t[i].verdict \in Verdicts
  BY <1>1 DEF VerdictsOf
<1> QED BY <1>2 DEF VerdictsOf, t

(* A span pushed without a verdict.                                        *)
LEMMA AppendVerdict ==
  ASSUME NEW s, IsSequence(s), VerdictsOf(s), NEW x, x.verdict \in Verdicts
  PROVE  VerdictsOf(Append(s, x))
PROOF
<1> DEFINE t == Append(s, x)
<1>1. /\ DOMAIN s = 1 .. Len(s) /\ DOMAIN t = 1 .. Len(t) /\ Len(t) = Len(s) + 1
      /\ Len(s) \in Nat /\ t[Len(t)] = x /\ \A i \in DOMAIN s : t[i] = s[i]
  BY AppendIs
<1> HIDE DEF t
<1>2. ASSUME NEW i \in DOMAIN t PROVE t[i].verdict \in Verdicts
  <2>1. CASE i \in DOMAIN s
    BY <1>1, <2>1 DEF VerdictsOf
  <2>2. CASE i \notin DOMAIN s
    <3>1. i = Len(t)
      BY <1>1, <2>2
    <3> QED BY <1>1, <3>1
  <2> QED BY <2>1, <2>2
<1> QED BY <1>2 DEF VerdictsOf, t

(* A span popped.                                                          *)
LEMMA FrontVerdict ==
  ASSUME NEW s, IsSequence(s), s # << >>, VerdictsOf(s)
  PROVE  VerdictsOf(Front(s))
PROOF
<1> DEFINE t == Front(s)
<1>1. DOMAIN s = 1 .. Len(s) /\ DOMAIN t = 1 .. Len(s) - 1 /\ Len(s) \in Nat
      /\ \A i \in DOMAIN t : t[i] = s[i]
  BY FrontIs
<1> HIDE DEF t
<1>2. DOMAIN t \subseteq DOMAIN s
  BY <1>1
<1> QED BY <1>1, <1>2 DEF VerdictsOf, t

(* The verdicts of the ledger and the fold are statuses, through every     *)
(* step.                                                                   *)
LEMMA RulingNext ==
  ASSUME Ledger, Ledger', Ruling, [Next]_vars
  PROVE  Ruling'
PROOF
<1>1. CASE UNCHANGED << log, ck >>
  BY <1>1 DEF Ruling
<1>2. ASSUME NEW ev, Writes(ev)
      PROVE  Ruling'
  <2>1. /\ Write(ev) /\ IsSequence(log) /\ IsFold(ck) /\ ck' = FoldStep(ck, ev)
        /\ ev.type \in Apart \union {"humanRequested", "humanResponded"}
        /\ ev.type # "runStarted" => ck.started
        /\ VerdictsOf(ck.inFlight) /\ VerdictsOf(ck.completed)
        /\ IsSequence(ck.inFlight) /\ IsSequence(ck.completed)
        /\ NoVerdict \in Verdicts
    BY <1>2, WriteIs DEF Write, Ruling, VerdictsOf, IsFold, Verdicts
  <2>2. \A i \in Steps : InStep(ev, i) =>
          /\ ev.type = "verdictRecorded" => ev.verdict \in Statuses
          /\ ev.type \in {"actionSettled", "verdictRecorded", "stepExited"} => TopIs(ck, i)
    BY LedgerIs DEF InStep, Enters, Intends, Settles, Rules, Triggered, Exits, Inside
  <2>3. \A n \in DOMAIN log' : log'[n].type = "verdictRecorded" => log'[n].verdict \in Statuses
    <3>1. ev.type = "verdictRecorded" => ev.verdict \in Statuses
      BY <1>2, <2>2, WriteIs
    <3>2. /\ DOMAIN log = 1 .. Len(log) /\ DOMAIN log' = 1 .. Len(log) + 1
          /\ Len(log) \in Nat
          /\ \A n \in DOMAIN log : log'[n] = log[n]
          /\ log'[Len(log) + 1] = ev
      BY <2>1, Grows
    <3> QED BY <3>1, <3>2 DEF Ruling
  <2>4. VerdictsOf(ck'.inFlight) /\ VerdictsOf(ck'.completed)
    <3>1. CASE ev.type \in {"runStarted", "actionIntent", "humanRequested", "handlerTriggered",
                            "humanResponded", "runSuspended", "runResumed", "runFinished"}
      <4>1. ck'.inFlight = ck.inFlight /\ ck'.completed = ck.completed
        BY <1>2, <2>1, <3>1, PlainKept DEF Ledger, ShapedLedger
      <4> QED BY <2>1, <4>1
    <3>2. CASE ev.type = "stepEntered"
      <4>1. PICK span : /\ ck'.inFlight = Append(ck.inFlight, span)
                        /\ span.verdict = NoVerdict /\ ck'.completed = ck.completed
        BY <2>1, <3>2, StepEnteredIs
      <4> QED BY <2>1, <4>1, AppendVerdict
    <3>3. CASE ev.type \in {"actionSettled", "verdictRecorded", "stepExited"}
      <4>1. PICK i \in Steps : InStep(ev, i) /\ ev.path = StepPath(i)
        BY <1>2, <3>3, WriteIs
      <4>2. TopIs(ck, i) /\ ck.started
        BY <2>1, <2>2, <3>3, <4>1
      <4>3. ck.inFlight # << >> /\ Len(ck.inFlight) \in DOMAIN ck.inFlight
        BY <2>1, <4>2, SequenceIs DEF TopIs
      <4>4. ck.inFlight[Len(ck.inFlight)].verdict \in Verdicts
        BY <2>1, <4>3 DEF VerdictsOf
      <4>5. CASE ev.type = "actionSettled"
        <5>1. PICK span : /\ ck'.inFlight = Put(ck.inFlight, Len(ck.inFlight), span)
                          /\ span.verdict = ck.inFlight[Len(ck.inFlight)].verdict
                          /\ ck'.completed = ck.completed
          BY <2>1, <4>2, <4>3, <4>5, ActionSettledIs
        <5> QED BY <2>1, <4>3, <4>4, <5>1, PutVerdict
      <4>6. CASE ev.type = "verdictRecorded"
        <5>1. /\ Len(ck.inFlight) \in InFlightAt(ck, ev.path)
              /\ Len(ck.inFlight) = Latest(InFlightAt(ck, ev.path))
          BY <2>1, <4>1, <4>2, LedgerIs, TopIsOpen
        <5>2. PICK k : k = Len(ck.inFlight)
          OBVIOUS
        <5>3. PICK span : /\ ck'.inFlight = Put(ck.inFlight, k, span)
                          /\ span.verdict = ev.verdict
                          /\ ck'.completed = ck.completed
          BY <2>1, <4>2, <4>6, <5>1, <5>2, VerdictRecordedIs
        <5>4. ev.verdict \in Verdicts
          BY <2>2, <4>1, <4>6 DEF Verdicts
        <5> QED BY <2>1, <4>3, <5>2, <5>3, <5>4, PutVerdict
      <4>7. CASE ev.type = "stepExited"
        <5>1. PICK record : /\ ck'.completed = Append(ck.completed, record)
                            /\ record.verdict = ck.inFlight[Len(ck.inFlight)].verdict
                            /\ ck'.inFlight = Front(ck.inFlight)
          BY <2>1, <4>2, <4>3, <4>7, StepExitedIs
        <5> QED BY <2>1, <4>3, <4>4, <5>1, AppendVerdict, FrontVerdict
      <4> QED BY <3>3, <4>5, <4>6, <4>7
    <3> QED BY <2>1, <3>1, <3>2, <3>3 DEF Apart
  <2> QED BY <2>3, <2>4 DEF Ruling, VerdictsOf
<1> QED BY <1>1, <1>2, StepWrites

(* The budget only shrinks.                                                *)
LEMMA BudgetNext ==
  ASSUME budget \in 0 .. Disruptions, [Next]_vars
  PROVE  budget' \in 0 .. Disruptions
PROOF
<1>1. Disruptions \in Nat
  BY FlowShape
<1>2. UNCHANGED budget \/ (budget > 0 /\ budget' = budget - 1)
  BY DEF Next, Engine, Environment, Disruption, vars, StartRun, AdoptStep, EnterStep,
         GateSupervision, WriteIntent, Dispatch, Settle, AdoptTerminal, Judge,
         RecordNegative, RetryInForce, ContinueEscalation, ConsultHook, AskEscalation,
         Supersede, ExitStep, RecordBlocked, FinishRun, SuspendRun, AskAdjudication,
         StopRequested, NoTerminal, Crash, Resume, Respond, DeviceFinishes, DeadlinePasses
<1> QED BY <1>1, <1>2

Typed == Ruling /\ Folded /\ budget \in 0 .. Disruptions

(* The shape of the state holds at first.                                  *)
LEMMA TypedInit ==
  ASSUME Init
  PROVE  Typed
PROOF
<1>1. DOMAIN log = { } /\ DOMAIN ck.inFlight = { } /\ DOMAIN ck.completed = { }
  BY EmptyIs, SeedIs DEF Init
<1>2. proc.fold = << >>
  BY DEF Init, Down
<1>3. budget \in 0 .. Disruptions
  BY FlowShape DEF Init
<1> QED BY <1>1, <1>2, <1>3, EmptyFold DEF Typed, Ruling, Folded

(* The shape of every reachable state.                                     *)
THEOREM Types == Spec => []TypeOK
PROOF
<1>1. Init => Typed
  BY TypedInit
<1>2. Ledger /\ Ledger' /\ Typed /\ [Next]_vars => Typed'
  BY RulingNext, FoldedNext, BudgetNext DEF Typed
<1>3. Ledger /\ Typed => TypeOK
  BY DEF Ledger, ShapedLedger, ShapedProc, Acts, Inside, Typed, Folded, TypeOK
<1> QED BY <1>1, <1>2, <1>3, LedgerHolds, PTL DEF Spec

=============================================================================
