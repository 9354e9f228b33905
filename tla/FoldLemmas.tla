----------------------------- MODULE FoldLemmas -----------------------------
(***************************************************************************)
(* What one entry does to the fold of a ledger, arm by arm, for the proofs *)
(* about the components that keep one.  First, sequences of values without *)
(* a common type, as ledgers and stacks of spans are, and finite sets of   *)
(* positions in them.                                                      *)
(***************************************************************************)
EXTENDS CheckpointFold, FiniteSetTheorems, SequenceTheorems, WellFoundedInduction,
        TLAPS

IsSequence(s) == s \in Seq(Range(s))

(* The domain of a sequence, and when it is not empty.                     *)
LEMMA SequenceIs ==
  ASSUME NEW s, IsSequence(s)
  PROVE  /\ Len(s) \in Nat /\ DOMAIN s = 1 .. Len(s)
         /\ s # << >> <=> Len(s) # 0
         /\ s # << >> => Len(s) \in 1 .. Len(s)
PROOF
<1>1. s \in Seq(Range(s))
  BY DEF IsSequence
<1>2. s = << >> => Len(s) = 0
  OBVIOUS
<1>3. s # << >> => Len(s) \in Nat \ {0}
  BY <1>1, EmptySeq
<1> QED BY <1>1, <1>2, <1>3

(* The empty sequence.                                                     *)
LEMMA EmptyIs == IsSequence(<< >>) /\ Len(<< >>) = 0 /\ DOMAIN << >> = { }
PROOF
BY DEF IsSequence

(* What appending leaves and adds.                                         *)
LEMMA AppendIs ==
  ASSUME NEW s, IsSequence(s), NEW x
  PROVE  LET t == Append(s, x)
         IN  /\ IsSequence(t) /\ t # << >>
             /\ Len(s) \in Nat /\ Len(t) = Len(s) + 1
             /\ DOMAIN s = 1 .. Len(s) /\ DOMAIN t = 1 .. Len(t)
             /\ \A i \in DOMAIN s : t[i] = s[i]
             /\ t[Len(t)] = x
PROOF
<1> DEFINE S == Range(s) \union {x}
<1> DEFINE t == Append(s, x)
<1>1. s \in Seq(S)
  BY SeqMonotonic DEF IsSequence
<1>2. /\ t \in Seq(S) /\ Len(t) = Len(s) + 1 /\ Len(s) \in Nat
      /\ \A i \in 1 .. Len(s) : t[i] = s[i]
      /\ t[Len(t)] = x /\ DOMAIN s = 1 .. Len(s) /\ DOMAIN t = 1 .. Len(t)
  BY <1>1
<1>3. t \in Seq(Range(t))
  BY <1>2, SeqOfRange DEF Range
<1> QED BY <1>2, <1>3 DEF IsSequence

(* What dropping the last element leaves.                                  *)
LEMMA FrontIs ==
  ASSUME NEW s, IsSequence(s), s # << >>
  PROVE  /\ IsSequence(Front(s))
         /\ Len(s) \in Nat \ {0} /\ Len(Front(s)) = Len(s) - 1
         /\ DOMAIN s = 1 .. Len(s) /\ DOMAIN Front(s) = 1 .. Len(s) - 1
         /\ \A i \in DOMAIN Front(s) : Front(s)[i] = s[i]
PROOF
<1> DEFINE t == Front(s)
<1>1. /\ s \in Seq(Range(s)) /\ Len(s) \in Nat \ {0} /\ DOMAIN s = 1 .. Len(s)
  BY DEF IsSequence
<1>2. /\ t \in Seq(Range(s)) /\ Len(t) = Len(s) - 1 /\ DOMAIN t = 1 .. Len(s) - 1
      /\ \A i \in 1 .. Len(s) - 1 : t[i] = s[i]
  BY <1>1 DEF Front
<1>3. t \in Seq(Range(t))
  BY <1>2, SeqOfRange DEF Range
<1> QED BY <1>1, <1>2, <1>3 DEF IsSequence

(* One element replaced.                                                   *)
LEMMA PutIs ==
  ASSUME NEW s, IsSequence(s), NEW k \in DOMAIN s, NEW x
  PROVE  LET t == [s EXCEPT ![k] = x]
         IN  /\ IsSequence(t) /\ t # << >>
             /\ Len(t) = Len(s) /\ DOMAIN t = DOMAIN s /\ DOMAIN s = 1 .. Len(s)
             /\ \A i \in DOMAIN s : t[i] = IF i = k THEN x ELSE s[i]
PROOF
<1> DEFINE S == Range(s) \union {x}
<1> DEFINE t == [s EXCEPT ![k] = x]
<1>1. s \in Seq(S) /\ x \in S
  BY SeqMonotonic DEF IsSequence
<1>2. k \in 1 .. Len(s) /\ Len(s) \in Nat /\ DOMAIN s = 1 .. Len(s)
  BY SequenceIs
<1>3. /\ t \in Seq(S) /\ Len(t) = Len(s)
      /\ \A i \in 1 .. Len(s) : t[i] = IF i = k THEN x ELSE s[i]
  <2> HIDE DEF S
  <2> QED BY <1>1, <1>2, ExceptSeq
<1>4. t \in Seq(Range(t))
  <2> HIDE DEF S, t
  <2> QED BY <1>3, SeqOfRange DEF Range
<1>5. t # << >>
  <2> HIDE DEF S, t
  <2> QED BY <1>2, <1>3
<1> QED BY <1>2, <1>3, <1>4, <1>5 DEF IsSequence

(* A prefix of a sequence.                                                 *)
LEMMA PrefixIs ==
  ASSUME NEW s, IsSequence(s), NEW n \in 0 .. Len(s)
  PROVE  LET t == SubSeq(s, 1, n)
         IN  /\ IsSequence(t)
             /\ Len(t) = n /\ DOMAIN t = 1 .. n
             /\ \A i \in 1 .. n : t[i] = s[i]
PROOF
<1> DEFINE t == SubSeq(s, 1, n)
<1>1. s \in Seq(Range(s)) /\ n \in Nat /\ Len(s) \in Nat /\ DOMAIN s = 1 .. Len(s)
  BY SequenceIs DEF IsSequence
<1>2. /\ t \in Seq(Range(s)) /\ Len(t) = n
      /\ \A i \in 1 .. n : t[i] = s[i]
  BY <1>1 
<1>3. DOMAIN t = 1 .. n
  BY <1>2
<1>4. t \in Seq(Range(t))
  BY <1>2, SeqOfRange DEF Range
<1> QED BY <1>2, <1>3, <1>4 DEF IsSequence

(* Pairs, and two of them put together.                                    *)
LEMMA PairIs ==
  ASSUME NEW a, NEW b
  PROVE  /\ Append(<< a >>, b) = << a, b >>
         /\ Len(<< a, b >>) = 2 /\ DOMAIN << a, b >> = 1 .. 2
         /\ << a, b >>[1] = a /\ << a, b >>[2] = b
PROOF
<1> DEFINE t == Append(<< a >>, b)
<1>1. Len(<< a, b >>) = 2 /\ << a, b >>[1] = a /\ << a, b >>[2] = b
  OBVIOUS
<1>2. DOMAIN << a, b >> = 1 .. 2
  OBVIOUS
<1>3. << a >> \in Seq({a, b}) /\ << a, b >> \in Seq({a, b})
  OBVIOUS
<1>4. t \in Seq({a, b}) /\ Len(t) = 2 /\ t[1] = a /\ t[2] = b
  BY <1>3
<1> HIDE DEF t
<1>5. t = << a, b >>
  BY <1>1, <1>3, <1>4, SeqEqual
<1> QED BY <1>1, <1>2, <1>5 DEF t

(* A path of two frames extended by two.                                   *)
LEMMA FourIs ==
  ASSUME NEW a, NEW b, NEW c, NEW d
  PROVE  LET s == << a, b >> \o << c, d >>
         IN  Len(s) = 4 /\ s[1] = a /\ s[2] = b /\ s[3] = c /\ s[4] = d
PROOF
<1>1. << a, b >> \in Seq({a, b, c, d}) /\ << c, d >> \in Seq({a, b, c, d})
  OBVIOUS
<1>2. Len(<< a, b >>) = 2 /\ Len(<< c, d >>) = 2
  OBVIOUS
<1> DEFINE s == << a, b >> \o << c, d >>
<1>3. Len(s) = 4
  BY <1>1, <1>2, ConcatProperties
<1>4. s[1] = << a, b >>[1] /\ s[2] = << a, b >>[2]
      /\ s[3] = << c, d >>[3 - 2] /\ s[4] = << c, d >>[4 - 2]
  BY <1>1, <1>2, ConcatProperties
<1> QED BY <1>3, <1>4

-----------------------------------------------------------------------------
(* Positions: a nonempty set of them has a last and a first.               *)
LEMMA SmallestExists ==
  ASSUME NEW S \in SUBSET Nat, S # { }
  PROVE  \E x \in S : \A y \in S : x <= y
PROOF
<1>1. IsWellFoundedOn(OpToRel(<, Nat), Nat)
  BY NatLessThanWellFounded
<1>2. \E x \in S : \A y \in S : ~ (<< y, x >> \in OpToRel(<, Nat))
  BY <1>1, WFMin
<1>3. PICK x \in S : \A y \in S : ~ (<< y, x >> \in OpToRel(<, Nat))
  BY <1>2
<1>4. \A y \in S : x <= y
  <2> TAKE y \in S
  <2>1. y \in Nat /\ x \in Nat
    OBVIOUS
  <2>2. ~ (y < x)
    BY <1>3, <2>1 DEF OpToRel
  <2> QED BY <2>1, <2>2
<1> QED BY <1>4

(* A non-empty set of positions has a largest.                             *)
LEMMA LargestExists ==
  ASSUME NEW n \in Nat, NEW S \in SUBSET (1 .. n), S # { }
  PROVE  \E x \in S : \A y \in S : y <= x
PROOF
<1> DEFINE T == { n - x : x \in S }
<1>1. T \in SUBSET Nat /\ T # { }
  <2>1. \A x \in S : x \in 1 .. n
    OBVIOUS
  <2>2. \A x \in S : n - x \in Nat
    BY <2>1
  <2>3. PICK x \in S : TRUE
    OBVIOUS
  <2>4. n - x \in T
    BY <2>3
  <2> QED BY <2>2, <2>4
<1>2. PICK t \in T : \A y \in T : t <= y
  <2> HIDE DEF T
  <2> QED BY <1>1, SmallestExists
<1>3. PICK x \in S : t = n - x
  BY <1>2
<1>4. \A y \in S : y <= x
  <2> TAKE y \in S
  <2>1. n - y \in T
    OBVIOUS
  <2>2. n - x <= n - y
    <3> HIDE DEF T
    <3> QED BY <1>2, <1>3, <2>1
  <2> QED BY <2>2
<1> QED BY <1>4

(* Max of a non-empty set of positions is its largest.                     *)
LEMMA MaxIs ==
  ASSUME NEW n \in Nat, NEW S \in SUBSET (1 .. n), S # { }
  PROVE  Max(S) \in S /\ \A y \in S : y <= Max(S)
PROOF
<1>1. PICK x \in S : \A y \in S : y <= x
  BY LargestExists
<1>2. \A y \in S : x >= y
  BY <1>1
<1>3. Max(S) \in S /\ \A y \in S : Max(S) >= y
  BY <1>1, <1>2 DEF Max
<1>4. \A y \in S : y \in Int
  OBVIOUS
<1> QED BY <1>3, <1>4

(* Min of a non-empty set of positions is its smallest.                    *)
LEMMA MinIs ==
  ASSUME NEW S \in SUBSET Nat, S # { }
  PROVE  Min(S) \in S /\ \A y \in S : Min(S) <= y
PROOF
BY SmallestExists DEF Min

(* How many positions a set holds.                                         *)
LEMMA CountIs ==
  ASSUME NEW n \in Nat, NEW S \in SUBSET (1 .. n)
  PROVE  IsFiniteSet(S) /\ Cardinality(S) \in Nat
PROOF
<1>1. IsFiniteSet(1 .. n)
  BY FS_Interval
<1>2. IsFiniteSet(S)
  BY <1>1, FS_Subset
<1> QED BY <1>2, FS_CardinalityType

(* The cardinality of a set of positions that one position joins.          *)
LEMMA CountGrows ==
  ASSUME NEW n \in Nat, NEW S \in SUBSET (1 .. n)
  PROVE  Cardinality(S \union {n + 1}) = Cardinality(S) + 1
PROOF
<1>1. n + 1 \notin S
  OBVIOUS
<1> QED BY <1>1, CountIs, FS_AddElement

(* Counting up to a position and beyond it.                                *)
LEMMA CountSplits ==
  ASSUME NEW n \in Nat, NEW S \in SUBSET (1 .. n), NEW k \in Int
  PROVE  Cardinality(S) = Cardinality({ m \in S : m <= k })
                            + Cardinality({ m \in S : m > k })
PROOF
<1> DEFINE A == { m \in S : m <= k }
<1> DEFINE B == { m \in S : m > k }
<1>1. /\ A \in SUBSET (1 .. n) /\ B \in SUBSET (1 .. n)
      /\ S = A \union B /\ A \cap B = { }
  <2>1. \A m \in S : m \in Int /\ m \in 1 .. n
    OBVIOUS
  <2>2. /\ \A m \in S : m <= k \/ m > k
        /\ \A m \in S : ~ (m <= k /\ m > k)
    BY <2>1
  <2>3. A \in SUBSET (1 .. n) /\ B \in SUBSET (1 .. n)
    BY Zenon
  <2>4. S = A \union B
    BY <2>2, Zenon
  <2>5. A \cap B = { }
    BY <2>2, Zenon
  <2> QED BY <2>3, <2>4, <2>5
<1> HIDE DEF A, B
<1>2. /\ IsFiniteSet(A) /\ IsFiniteSet(B)
      /\ Cardinality(A) \in Nat /\ Cardinality(B) \in Nat
  BY <1>1, CountIs
<1>3. Cardinality(A \union B) = Cardinality(A) + Cardinality(B) - Cardinality(A \cap B)
  BY <1>2, FS_Union
<1>4. Cardinality(A \cap B) = 0
  BY <1>1, FS_EmptySet
<1>5. Cardinality(S) = Cardinality(A) + Cardinality(B)
  BY <1>1, <1>2, <1>3, <1>4
<1> QED BY <1>5 DEF A, B

(* A count up to a position grows with it and stays below the whole.       *)
LEMMA CountAscends ==
  ASSUME NEW n \in Nat, NEW S \in SUBSET (1 .. n), NEW a \in Nat, NEW b \in S, a < b
  PROVE  Cardinality({ j \in S : j <= a }) < Cardinality({ j \in S : j <= b })
PROOF
<1> DEFINE T == { j \in S : j <= b }
<1> DEFINE U == { j \in T : j > a }
<1>1. T \in SUBSET (1 .. n) /\ b \in U /\ U \in SUBSET (1 .. n) /\ a \in Int
  <2>1. b <= b /\ b > a /\ a \in Int
    OBVIOUS
  <2>2. T \in SUBSET (1 .. n) /\ U \in SUBSET (1 .. n)
    BY Zenon
  <2> QED BY <2>1, <2>2
<1>2. { j \in S : j <= a } = { j \in T : j <= a }
  <2>1. \A j \in S : j <= a => j <= b
    OBVIOUS
  <2> QED BY <2>1, Zenon
<1> HIDE DEF T
<1>3. Cardinality(T) = Cardinality({ j \in T : j <= a }) + Cardinality(U)
  BY <1>1, CountSplits
<1>4. Cardinality({ j \in T : j <= a }) \in Nat
  <2>1. { j \in T : j <= a } \in SUBSET (1 .. n)
    BY <1>1
  <2> QED BY <2>1, CountIs
<1> HIDE DEF U
<1>5. IsFiniteSet(U) /\ Cardinality(U) \in Nat
  BY <1>1, CountIs
<1>6. Cardinality(U) # 0
  BY <1>1, <1>5, FS_EmptySet
<1> QED BY <1>2, <1>3, <1>4, <1>5, <1>6 DEF T

(* Elements up to a position, counted, are a natural number.               *)
LEMMA CountBelow ==
  ASSUME NEW n \in Nat, NEW S \in SUBSET (1 .. n), NEW k \in Int
  PROVE  /\ Cardinality({ j \in S : j <= k }) \in Nat
         /\ Cardinality({ j \in S : j <= k }) <= Cardinality(S)
PROOF
<1> DEFINE T == { j \in S : j <= k }
<1> DEFINE U == { j \in S : j > k }
<1>1. T \in SUBSET (1 .. n) /\ U \in SUBSET (1 .. n)
  OBVIOUS
<1>2. Cardinality(S) = Cardinality(T) + Cardinality(U)
  BY CountSplits
<1> HIDE DEF T, U
<1>3. Cardinality(T) \in Nat /\ Cardinality(U) \in Nat
  BY <1>1, CountIs
<1>4. Cardinality(T) <= Cardinality(S)
  BY <1>2, <1>3
<1> QED BY <1>3, <1>4 DEF T

-----------------------------------------------------------------------------
(* One entry folded: what it leaves of the spans, the records, the frontier  *)
(* and the pending request.                                                *)
(* The fields of a fold, a span and a frontier; spans are kept in order.   *)
StateFields == {"started", "status", "irHash", "frames", "framePaths", "frontier",
                "inFlight", "dispatch", "completed", "pending", "lineage"}
SpanFields == {"path", "attempts", "asVar", "resolved", "output", "evidence",
               "verdict"}
IsSpan(s) == DOMAIN s = SpanFields /\ IsSequence(s.attempts)
IsFold(st) ==
  /\ DOMAIN st = StateFields
  /\ DOMAIN st.frontier = {"path", "state", "intent"}
  /\ IsSequence(st.inFlight) /\ \A a \in DOMAIN st.inFlight : IsSpan(st.inFlight[a])
  /\ IsSequence(st.completed) /\ \A a \in DOMAIN st.completed : IsSpan(st.completed[a])

Put(s, k, x) == [s EXCEPT ![k] = x]

(* An entry that opens, closes and rules on nothing.                       *)
Keeps(n, st) ==
  /\ IsFold(n) /\ n.started
  /\ n.inFlight = st.inFlight /\ n.completed = st.completed

(* A fold is not the mark of a refusal.                                    *)
LEMMA FoldIsSome ==
  ASSUME NEW st, IsFold(st)
  PROVE  st # Unfoldable
PROOF
<1>1. "started" \in DOMAIN st
  BY DEF IsFold, StateFields
<1>2. DOMAIN Unfoldable = {"refused"}
  BY DEF Unfoldable
<1> QED BY <1>1, <1>2

(* The fields of a frontier.                                               *)
LEMMA FrontierIs ==
  ASSUME NEW path, NEW state, NEW intent
  PROVE  LET f == Frontier(path, state, intent)
         IN  DOMAIN f = {"path", "state", "intent"} /\ f.path = path /\ f.intent = intent
PROOF
BY DEF Frontier

(* The fold of the empty ledger.                                           *)
LEMMA SeedIs ==
  ASSUME NEW hash, NEW session
  PROVE  LET st == Seed(hash, session)
         IN  /\ IsFold(st) /\ ~st.started /\ st.inFlight = << >> /\ st.completed = << >>
             /\ st.frontier.intent = NoIntent /\ st.pending = NoPending
             /\ st.status = "running"
PROOF
<1> DEFINE st == Seed(hash, session)
<1> DEFINE f == Frontier(RootPath(hash), "pending", NoIntent)
<1>1. DOMAIN f = {"path", "state", "intent"} /\ f.intent = NoIntent
  BY FrontierIs
<1> HIDE DEF f
<1>2. /\ DOMAIN st = StateFields /\ ~st.started /\ st.inFlight = << >>
      /\ st.completed = << >> /\ st.frontier = f /\ st.pending = NoPending
      /\ st.status = "running"
  BY DEF Seed, StateFields, f
<1> HIDE DEF st
<1> QED BY <1>1, <1>2, EmptyIs DEF IsFold, st

(* The fold of a run's start.                                              *)
LEMMA RunStartedIs ==
  ASSUME NEW st, IsFold(st), ~st.started, NEW ev, ev.type = "runStarted"
  PROVE  LET n == FoldStep(st, ev)
         IN  Keeps(n, st) /\ n.frontier.intent = NoIntent /\ n.pending = st.pending
             /\ n.status = "running"
PROOF
<1>1. st # Unfoldable
  BY FoldIsSome
<1>2. ApplyError(st, ev) = "none"
  BY DEF ApplyError
<1>3. FoldStep(st, ev) = RunStartedArm(st, ev)
  BY <1>1, <1>2 DEF FoldStep, Apply
<1> DEFINE f == Frontier(RootPath(ev.hash), "pending", NoIntent)
<1>4. DOMAIN f = {"path", "state", "intent"} /\ f.intent = NoIntent
  BY FrontierIs
<1> HIDE DEF f
<1>5. /\ DOMAIN RunStartedArm(st, ev) = StateFields
      /\ RunStartedArm(st, ev).started
      /\ RunStartedArm(st, ev).inFlight = st.inFlight
      /\ RunStartedArm(st, ev).completed = st.completed
      /\ RunStartedArm(st, ev).pending = st.pending
      /\ RunStartedArm(st, ev).frontier = f
      /\ RunStartedArm(st, ev).status = "running"
  BY DEF RunStartedArm, IsFold, StateFields, f
<1> QED BY <1>3, <1>4, <1>5 DEF Keeps, IsFold

(* The fold of an entry: a span is opened on top.                          *)
LEMMA StepEnteredIs ==
  ASSUME NEW st, IsFold(st), st.started, NEW ev, ev.type = "stepEntered"
  PROVE  LET n == FoldStep(st, ev)
         IN  /\ IsFold(n) /\ n.started /\ n.completed = st.completed
             /\ \E span : /\ n.inFlight = Append(st.inFlight, span)
                          /\ span.path = ev.path /\ span.resolved = ev.resolved
                          /\ span.attempts = << >> /\ span.verdict = NoVerdict
             /\ n.frontier.path = ev.path /\ n.frontier.intent = NoIntent
             /\ n.pending = st.pending /\ n.status = st.status
PROOF
<1>1. st # Unfoldable
  BY FoldIsSome
<1>2. ApplyError(st, ev) = "none"
  BY DEF ApplyError
<1> DEFINE n == FoldStep(st, ev)
<1>3. n = StepEnteredArm(st, ev)
  BY <1>1, <1>2 DEF FoldStep, Apply
<1> DEFINE f == Frontier(ev.path, "ready", NoIntent)
<1> DEFINE s == [ path     |-> ev.path,     attempts |-> << >>,
                  asVar    |-> ev.asVar,    resolved |-> ev.resolved,
                  output   |-> NoOutput,
                  evidence |-> << >>,       verdict  |-> NoVerdict ]
<1>4. DOMAIN f = {"path", "state", "intent"} /\ f.intent = NoIntent /\ f.path = ev.path
  BY FrontierIs
<1>5. /\ IsSpan(s) /\ s.path = ev.path /\ s.resolved = ev.resolved
      /\ s.attempts = << >> /\ s.verdict = NoVerdict
  BY EmptyIs DEF IsSpan, SpanFields
<1> HIDE DEF f, s, n
<1>6. /\ DOMAIN n = StateFields /\ n.started
      /\ n.inFlight = Append(st.inFlight, s) /\ n.completed = st.completed
      /\ n.frontier = f /\ n.pending = st.pending /\ n.status = st.status
  BY <1>3 DEF StepEnteredArm, IsFold, StateFields, f, s
<1>7. /\ IsSequence(n.inFlight)
      /\ \A a \in DOMAIN n.inFlight : IsSpan(n.inFlight[a])
  BY <1>5, <1>6, AppendIs DEF IsFold
<1>8. IsFold(n)
  BY <1>4, <1>6, <1>7 DEF IsFold
<1> QED BY <1>4, <1>5, <1>6, <1>8 DEF n

(* Nothing opened, closed or ruled, and the frontier where it was.         *)
Still(n, st) ==
  Keeps(n, st) /\ n.frontier.path = st.frontier.path
               /\ n.frontier.intent = st.frontier.intent

(* The fold of an intent: the frontier names the call.                     *)
LEMMA ActionIntentIs ==
  ASSUME NEW st, IsFold(st), st.started, NEW ev, ev.type = "actionIntent"
  PROVE  LET n == FoldStep(st, ev)
         IN  /\ Keeps(n, st) /\ n.frontier.path = st.frontier.path
             /\ n.frontier.intent = ev.call
             /\ n.pending = st.pending /\ n.status = st.status
PROOF
<1>1. st # Unfoldable
  BY FoldIsSome
<1>2. ApplyError(st, ev) = "none"
  BY DEF ApplyError
<1> DEFINE n == FoldStep(st, ev)
<1>3. n = ActionIntentArm(st, ev)
  BY <1>1, <1>2 DEF FoldStep, Apply
<1> DEFINE f == Frontier(st.frontier.path, "acting", ev.call)
<1> DEFINE d == { x \in st.dispatch : x.call # ev.call }
                  \union { [call |-> ev.call, chain |-> ev.chain] }
<1>4. DOMAIN f = {"path", "state", "intent"} /\ f.intent = ev.call
      /\ f.path = st.frontier.path
  BY FrontierIs
<1> HIDE DEF f, d, n
<1>5. n = [st EXCEPT !.dispatch = d, !.frontier = f]
  BY <1>3 DEF ActionIntentArm, f, d
<1>6. /\ DOMAIN n = StateFields /\ n.started
      /\ n.inFlight = st.inFlight /\ n.completed = st.completed
      /\ n.frontier = f /\ n.pending = st.pending /\ n.status = st.status
  BY <1>5 DEF IsFold, StateFields
<1> QED BY <1>4, <1>6 DEF n, Keeps, IsFold

(* The fold of a settlement: the top span gains an attempt.                *)
LEMMA ActionSettledIs ==
  ASSUME NEW st, IsFold(st), st.started, st.inFlight # << >>,
         NEW ev, ev.type = "actionSettled"
  PROVE  LET n == FoldStep(st, ev)
             last == st.inFlight[Len(st.inFlight)]
         IN  /\ IsFold(n) /\ n.started /\ n.completed = st.completed
             /\ \E span : /\ n.inFlight = Put(st.inFlight, Len(st.inFlight), span)
                          /\ span.path = last.path /\ span.resolved = last.resolved
                          /\ span.attempts # << >> /\ span.verdict = last.verdict
             /\ n.frontier.path = st.frontier.path
             /\ n.frontier.intent = IF st.frontier.intent = ev.call THEN NoIntent
                                    ELSE st.frontier.intent
             /\ n.pending = st.pending /\ n.status = st.status
PROOF
<1>1. st # Unfoldable
  BY FoldIsSome
<1>2. ApplyError(st, ev) = "none"
  BY DEF ApplyError
<1> DEFINE n == FoldStep(st, ev)
<1> DEFINE k == Len(st.inFlight)
<1> DEFINE last == st.inFlight[k]
<1>3. n = ActionSettledArm(st, ev)
  BY <1>1, <1>2 DEF FoldStep, Apply
<1>4. k \in DOMAIN st.inFlight /\ IsSpan(last)
  BY SequenceIs DEF IsFold
<1> DEFINE mine == { d \in st.dispatch : d.call = ev.call }
<1> DEFINE chain == IF mine = { } THEN 0 ELSE (CHOOSE d \in mine : TRUE).chain
<1> DEFINE intent == IF st.frontier.intent = ev.call THEN NoIntent
                     ELSE st.frontier.intent
<1> DEFINE f == Frontier(st.frontier.path, "settling", intent)
<1>5. DOMAIN f = {"path", "state", "intent"} /\ f.intent = intent
      /\ f.path = st.frontier.path
  BY FrontierIs
<1> DEFINE a == AttemptRecord(ev.call, ev.outcome, chain)
<1> HIDE DEF a
<1> DEFINE span == [last EXCEPT !.attempts = Append(@, a)]
<1> DEFINE stack == [st.inFlight EXCEPT ![k] = span]
<1>6. /\ IsSpan(span) /\ span.path = last.path /\ span.resolved = last.resolved
      /\ span.attempts # << >> /\ span.verdict = last.verdict
  <2>1. IsSequence(Append(last.attempts, a)) /\ Append(last.attempts, a) # << >>
    BY <1>4, AppendIs DEF IsSpan
  <2> QED BY <1>4, <2>1 DEF IsSpan, SpanFields
<1>7. stack = [st.inFlight EXCEPT ![Len(st.inFlight)].attempts = Append(@, a)]
  OBVIOUS
<1> DEFINE rest == st.dispatch \ mine
<1> HIDE DEF n, f, rest, intent, chain, stack
<1>8. n = [st EXCEPT !.inFlight = stack, !.dispatch = rest, !.frontier = f]
  BY <1>3, <1>7 DEF ActionSettledArm, f, rest, a, intent, chain
<1> HIDE DEF span
<1>9. /\ IsSequence(stack) /\ \A b \in DOMAIN stack : IsSpan(stack[b])
  BY <1>4, <1>6, PutIs DEF stack, IsFold
<1>10. /\ DOMAIN n = StateFields /\ n.started
       /\ n.inFlight = stack /\ n.completed = st.completed
       /\ n.frontier = f /\ n.pending = st.pending /\ n.status = st.status
  BY <1>8 DEF IsFold, StateFields
<1>11. IsFold(n)
  BY <1>5, <1>9, <1>10 DEF IsFold
<1> QED BY <1>5, <1>6, <1>10, <1>11 DEF n, stack, intent, Put

(* The fold of a verdict: it lands on the open span of its instance.       *)
LEMMA VerdictRecordedIs ==
  ASSUME NEW st, IsFold(st), st.started, NEW ev, ev.type = "verdictRecorded",
         NEW k \in InFlightAt(st, ev.path), k = Latest(InFlightAt(st, ev.path))
  PROVE  LET n == FoldStep(st, ev)
             old == st.inFlight[k]
         IN  /\ IsFold(n) /\ n.started /\ n.completed = st.completed
             /\ \E span : /\ n.inFlight = Put(st.inFlight, k, span)
                          /\ span.path = old.path /\ span.resolved = old.resolved
                          /\ span.attempts = old.attempts /\ span.verdict = ev.verdict
             /\ n.frontier.path = st.frontier.path
             /\ n.frontier.intent = st.frontier.intent
             /\ n.pending = st.pending /\ n.status = st.status
PROOF
<1>1. st # Unfoldable
  BY FoldIsSome
<1>2. ApplyError(st, ev) = "none"
  BY DEF ApplyError
<1> DEFINE n == FoldStep(st, ev)
<1> DEFINE old == st.inFlight[k]
<1>3. n = VerdictRecordedArm(st, ev)
  BY <1>1, <1>2 DEF FoldStep, Apply
<1>4. k \in DOMAIN st.inFlight /\ IsSpan(old)
  BY DEF IsFold, InFlightAt
<1> DEFINE ev2 == MergeEvidence(old.evidence, ev.evidence)
<1> HIDE DEF ev2
<1> DEFINE span == [old EXCEPT !.verdict = ev.verdict, !.evidence = ev2]
<1> DEFINE stack == [st.inFlight EXCEPT ![k] = span]
<1> DEFINE f == [st.frontier EXCEPT !.state = "judged"]
<1>5. /\ IsSpan(span) /\ span.path = old.path /\ span.resolved = old.resolved
      /\ span.attempts = old.attempts /\ span.verdict = ev.verdict
  BY <1>4 DEF IsSpan, SpanFields
<1>6. DOMAIN f = {"path", "state", "intent"} /\ f.intent = st.frontier.intent
      /\ f.path = st.frontier.path
  BY DEF IsFold
<1> DEFINE half == [old EXCEPT !.verdict = ev.verdict]
<1> DEFINE stack1 == [st.inFlight EXCEPT ![k] = half]
<1> DEFINE st1 == [st EXCEPT !.inFlight = stack1]
<1>7. /\ half.evidence = old.evidence /\ DOMAIN half = SpanFields
      /\ span = [half EXCEPT !.evidence = ev2]
      /\ ev2 = MergeEvidence(old.evidence, ev.evidence)
  BY <1>4 DEF IsSpan, SpanFields, ev2
<1>71. /\ stack1[k] = half /\ DOMAIN stack1 = DOMAIN st.inFlight
       /\ [stack1 EXCEPT ![k] = span] = stack
  BY <1>4
<1>72. DOMAIN st1 = StateFields /\ st1.inFlight = stack1 /\ st1.frontier = st.frontier
  BY DEF IsFold, StateFields
<1>73. [st1 EXCEPT !.inFlight = stack] = [st EXCEPT !.inFlight = stack]
  BY DEF IsFold, StateFields
<1> HIDE DEF half, span
<1>74. [st1 EXCEPT !.inFlight[k].evidence = MergeEvidence(@, ev.evidence)]
         = [st1 EXCEPT !.inFlight = stack]
  <2> HIDE DEF st1, stack1, stack
  <2> QED BY <1>7, <1>71, <1>72
<1>75. n = [[st1 EXCEPT !.inFlight[k].evidence = MergeEvidence(@, ev.evidence)]
              EXCEPT !.frontier.state = "judged"]
  <2>1. n = [st EXCEPT !.inFlight[k].verdict  = ev.verdict,
                       !.inFlight[k].evidence = MergeEvidence(@, ev.evidence),
                       !.frontier.state       = "judged"]
    BY <1>3 DEF VerdictRecordedArm
  <2>2. st1 = [st EXCEPT !.inFlight[k].verdict  = ev.verdict]
    BY DEF st1, stack1, half
  <2>3. n = [[[st EXCEPT !.inFlight[k].verdict  = ev.verdict]
              EXCEPT !.inFlight[k].evidence = MergeEvidence(@, ev.evidence)]
              EXCEPT !.frontier.state = "judged"]
    <3> HIDE DEF n
    <3>1. /\ "inFlight" \in DOMAIN st /\ "frontier" \in DOMAIN st
          /\ "state" \in DOMAIN st.frontier
      BY DEF IsFold, StateFields
    <3> QED BY <2>1, <3>1
  <2> HIDE DEF st1, stack1, half, n
  <2> QED BY <2>2, <2>3
<1> HIDE DEF n, stack, f
<1>8. n = [st EXCEPT !.inFlight = stack, !.frontier = f]
  BY <1>75, <1>74, <1>73 DEF f, IsFold, StateFields
<1>9. /\ IsSequence(stack) /\ \A b \in DOMAIN stack : IsSpan(stack[b])
  BY <1>4, <1>5, PutIs DEF stack, IsFold
<1>10. /\ DOMAIN n = StateFields /\ n.started
       /\ n.inFlight = stack /\ n.completed = st.completed
       /\ n.frontier = f /\ n.pending = st.pending /\ n.status = st.status
  BY <1>8 DEF IsFold, StateFields
<1>11. IsFold(n)
  BY <1>6, <1>9, <1>10 DEF IsFold
<1> QED BY <1>5, <1>6, <1>10, <1>11 DEF n, stack, Put

(* The fold of an exit: the top span becomes a record.                     *)
LEMMA StepExitedIs ==
  ASSUME NEW st, IsFold(st), st.started, st.inFlight # << >>,
         NEW ev, ev.type = "stepExited"
  PROVE  LET n == FoldStep(st, ev)
             last == st.inFlight[Len(st.inFlight)]
         IN  /\ IsFold(n) /\ n.started /\ n.inFlight = Front(st.inFlight)
             /\ \E record : /\ n.completed = Append(st.completed, record)
                            /\ record.path = last.path /\ record.verdict = last.verdict
                            /\ record.resolved = last.resolved
                            /\ record.attempts = last.attempts
             /\ n.frontier.path = ev.path /\ n.frontier.intent = NoIntent
             /\ n.pending = IF SettlesRequest(st.pending, ev.path) THEN NoPending
                            ELSE st.pending
             /\ n.status = st.status
PROOF
<1>1. st # Unfoldable
  BY FoldIsSome
<1>2. ApplyError(st, ev) = "none"
  BY DEF ApplyError
<1> DEFINE n == FoldStep(st, ev)
<1> DEFINE last == st.inFlight[Len(st.inFlight)]
<1>3. n = StepExitedArm(st, ev)
  BY <1>1, <1>2 DEF FoldStep, Apply
<1>4. IsSpan(last) /\ Last(st.inFlight) = last
  BY SequenceIs DEF IsFold, Last
<1> DEFINE f == Frontier(ev.path, ev.state, NoIntent)
<1>5. DOMAIN f = {"path", "state", "intent"} /\ f.intent = NoIntent /\ f.path = ev.path
  BY FrontierIs
<1> DEFINE evidence == MergeEvidence(last.evidence, ev.evidence)
<1> DEFINE output == IF ev.output # NoOutput THEN ev.output ELSE last.output
<1> HIDE DEF evidence, output
<1> DEFINE record == [last EXCEPT !.evidence = evidence, !.output = output]
<1>6. /\ IsSpan(record) /\ record.path = last.path /\ record.verdict = last.verdict
      /\ record.resolved = last.resolved /\ record.attempts = last.attempts
  BY <1>4 DEF IsSpan, SpanFields
<1> DEFINE pending == IF SettlesRequest(st.pending, ev.path) THEN NoPending ELSE st.pending
<1> DEFINE top == Len(st.frames)
<1> DEFINE next == IF DirectBodyChild(st.framePaths[top], ev.path)
                   THEN st.frames[top].next + 1 ELSE st.frames[top].next
<1> DEFINE frames == [st.frames EXCEPT ![top].next = next]
<1>7. frames = [st.frames EXCEPT ![top].next =
                   IF DirectBodyChild(st.framePaths[top], ev.path) THEN @ + 1 ELSE @]
  OBVIOUS
<1> HIDE DEF n, f, pending, next
<1>8. n = [st EXCEPT !.inFlight = Front(st.inFlight), !.pending = pending,
                     !.completed = Append(st.completed, record),
                     !.frames = frames, !.frontier = f]
  <2>1. n = [st EXCEPT
         !.inFlight  = Front(@),
         !.pending   = IF SettlesRequest(@, ev.path) THEN NoPending ELSE @,
         !.completed = Append(@,
            [last EXCEPT !.evidence = MergeEvidence(@, ev.evidence),
                         !.output   = IF ev.output # NoOutput THEN ev.output ELSE @]),
         !.frames[top].next =
            IF DirectBodyChild(st.framePaths[top], ev.path) THEN @ + 1 ELSE @,
         !.frontier  = Frontier(ev.path, ev.state, NoIntent)]
    BY <1>3, <1>4 DEF StepExitedArm
  <2>2. [last EXCEPT !.evidence = MergeEvidence(@, ev.evidence),
                     !.output   = IF ev.output # NoOutput THEN ev.output ELSE @] = record
    BY DEF evidence, output
  <2>3. [last EXCEPT !.evidence = MergeEvidence(@, ev.evidence),
                     !.output   = IF ev.output # NoOutput THEN ev.output ELSE @]
          = record /\ {"inFlight", "pending", "completed", "frames", "frontier"}
                         \subseteq DOMAIN st
    BY <2>2 DEF IsFold, StateFields
  <2>4. n = [st EXCEPT
         !.inFlight  = Front(st.inFlight),
         !.pending   = pending,
         !.completed = Append(st.completed, record),
         !.frames[top].next = next,
         !.frontier  = f]
    BY <2>1, <2>3 DEF pending, next, f
  <2> HIDE DEF record, last
  <2> QED BY <2>3, <2>4
<1> HIDE DEF record, last, frames
<1>9. /\ DOMAIN n = StateFields /\ n.started
      /\ n.inFlight = Front(st.inFlight) /\ n.completed = Append(st.completed, record)
      /\ n.frontier = f /\ n.pending = pending /\ n.status = st.status
  BY <1>8 DEF IsFold, StateFields
<1>10. /\ IsSequence(n.inFlight) /\ \A a \in DOMAIN n.inFlight : IsSpan(n.inFlight[a])
  <2> DEFINE q == st.inFlight
  <2>1. IsSequence(q) /\ q # << >> /\ \A a \in DOMAIN q : IsSpan(q[a])
    BY DEF IsFold
  <2> HIDE DEF q
  <2>2. /\ IsSequence(Front(q)) /\ DOMAIN Front(q) \subseteq DOMAIN q
        /\ \A a \in DOMAIN Front(q) : Front(q)[a] = q[a]
    BY <2>1, FrontIs
  <2>3. \A a \in DOMAIN Front(q) : IsSpan(Front(q)[a])
    BY <2>1, <2>2
  <2> QED BY <1>9, <2>2, <2>3 DEF q
<1>11. /\ IsSequence(n.completed)
       /\ \A a \in DOMAIN n.completed : IsSpan(n.completed[a])
  BY <1>6, <1>9, AppendIs DEF IsFold
<1>12. IsFold(n)
  BY <1>5, <1>9, <1>10, <1>11 DEF IsFold
<1> QED BY <1>5, <1>6, <1>9, <1>12 DEF n, last, pending

(* The fold of a request: it is pending.                                   *)
LEMMA HumanRequestedIs ==
  ASSUME NEW st, IsFold(st), st.started, NEW ev, ev.type = "humanRequested"
  PROVE  LET n == FoldStep(st, ev)
         IN  /\ Still(n, st) /\ n.status = "awaitingHuman"
             /\ n.pending = [ path |-> ev.path, req |-> ev.req,
                              purpose |-> ev.purpose, deadline |-> ev.deadline ]
PROOF
<1>1. st # Unfoldable
  BY FoldIsSome
<1>2. ApplyError(st, ev) = "none"
  BY DEF ApplyError
<1> DEFINE n == FoldStep(st, ev)
<1> DEFINE q == [ path |-> ev.path, req |-> ev.req,
                  purpose |-> ev.purpose, deadline |-> ev.deadline ]
<1> DEFINE f == [st.frontier EXCEPT !.state = "awaitingHuman"]
<1>3. n = HumanRequestedArm(st, ev)
  BY <1>1, <1>2 DEF FoldStep, Apply
<1>4. DOMAIN f = {"path", "state", "intent"} /\ f.intent = st.frontier.intent
      /\ f.path = st.frontier.path
  BY DEF IsFold
<1> HIDE DEF n, q
<1>5. n = [st EXCEPT !.pending = q, !.frontier = f, !.status = "awaitingHuman"]
  BY <1>3 DEF HumanRequestedArm, q, IsFold, StateFields
<1> HIDE DEF f
<1>6. /\ DOMAIN n = StateFields /\ n.started
      /\ n.inFlight = st.inFlight /\ n.completed = st.completed
      /\ n.frontier = f /\ n.pending = q /\ n.status = "awaitingHuman"
  BY <1>5 DEF IsFold, StateFields
<1> QED BY <1>4, <1>6 DEF n, q, Still, Keeps, IsFold

(* The fold of an answer: it settles the pending request.                  *)
LEMMA HumanRespondedIs ==
  ASSUME NEW st, IsFold(st), st.started, NEW ev, ev.type = "humanResponded",
         st.pending # NoPending, st.pending.req = ev.req
  PROVE  LET n == FoldStep(st, ev)
         IN  /\ Still(n, st)
             /\ n.pending = IF RetainsRequest(ev) THEN st.pending ELSE NoPending
             /\ n.status = IF RetainsRequest(ev) THEN "awaitingHuman" ELSE "running"
PROOF
<1>1. st # Unfoldable
  BY FoldIsSome
<1>2. ApplyError(st, ev) = "none"
  BY DEF ApplyError
<1> DEFINE n == FoldStep(st, ev)
<1>3. n = HumanRespondedArm(st, ev)
  BY <1>1, <1>2 DEF FoldStep, Apply
<1>4. CASE RetainsRequest(ev)
  <2>1. n = [st EXCEPT !.status = "awaitingHuman"]
    BY <1>3, <1>4 DEF HumanRespondedArm
  <2> QED BY <1>4, <2>1 DEF Still, Keeps, IsFold, StateFields
<1>5. CASE ~RetainsRequest(ev)
  <2>1. n = [st EXCEPT !.pending = NoPending, !.status = "running"]
    BY <1>3, <1>5 DEF HumanRespondedArm
  <2> QED BY <1>5, <2>1 DEF Still, Keeps, IsFold, StateFields
<1> QED BY <1>4, <1>5

(* Marks of the run itself, and triggers, move no step.                    *)
LEMMA RunMarkIs ==
  ASSUME NEW st, IsFold(st), st.started, NEW ev,
         ev.type \in {"runSuspended", "runResumed", "runFinished", "handlerTriggered"}
  PROVE  LET n == FoldStep(st, ev)
         IN  /\ Still(n, st) /\ n.pending = st.pending
             /\ ev.type = "runFinished" => n.status = "finished"
             /\ ev.type = "handlerTriggered" => n.status = st.status
             /\ ev.type \in {"runSuspended", "runResumed"} => n.status # "finished"
PROOF
<1>1. st # Unfoldable
  BY FoldIsSome
<1>2. ApplyError(st, ev) = "none"
  BY DEF ApplyError
<1> DEFINE n == FoldStep(st, ev)
<1>3. n = CASE ev.type = "runSuspended" -> RunSuspendedArm(st, ev)
            [] ev.type = "runResumed" -> RunResumedArm(st, ev)
            [] ev.type = "runFinished" -> RunFinishedArm(st, ev)
            [] ev.type = "handlerTriggered" -> st
  BY <1>1, <1>2 DEF FoldStep, Apply
<1> HIDE DEF n
<1>4. CASE ev.type = "runSuspended"
  BY <1>3, <1>4 DEF RunSuspendedArm, Still, Keeps, IsFold, StateFields, n
<1>5. CASE ev.type = "runResumed"
  <2> DEFINE lineage == IF ev.session = NoSession \/ IsSuffix(<< ev.session >>, st.lineage)
                        THEN st.lineage ELSE Append(st.lineage, ev.session)
  <2> HIDE DEF lineage
  <2>1. n = [st EXCEPT !.status = "running", !.lineage = lineage]
    BY <1>3, <1>5 DEF RunResumedArm, lineage
  <2> QED BY <1>5, <2>1 DEF Still, Keeps, IsFold, StateFields, n
<1>6. CASE ev.type = "runFinished"
  BY <1>3, <1>6 DEF RunFinishedArm, Still, Keeps, IsFold, StateFields, n
<1>7. CASE ev.type = "handlerTriggered"
  BY <1>3, <1>7 DEF Still, Keeps, IsFold, StateFields, n
<1> QED BY <1>4, <1>5, <1>6, <1>7

(* The latest of a non-empty set of positions is its largest.              *)
LEMMA LatestIs ==
  ASSUME NEW n \in Nat, NEW S \in SUBSET (1 .. n), S # { }
  PROVE  Latest(S) \in S /\ \A y \in S : y <= Latest(S)
PROOF
BY LargestExists DEF Latest

(* The fold of a verdict about a step that has left: its latest record is  *)
(* rewritten.                                                              *)
LEMMA LateVerdictIs ==
  ASSUME NEW st, IsFold(st), st.started, NEW ev, ev.type = "verdictRecorded",
         InFlightAt(st, ev.path) = { },
         NEW k \in CompletedAt(st, ev.path), k = Latest(CompletedAt(st, ev.path))
  PROVE  LET n == FoldStep(st, ev)
         IN  /\ IsFold(n) /\ n.started /\ n.inFlight = st.inFlight
             /\ \E record : n.completed = Put(st.completed, k, record)
             /\ n.dispatch = st.dispatch
PROOF
<1>1. st # Unfoldable
  BY FoldIsSome
<1>2. ApplyError(st, ev) = "none"
  BY DEF ApplyError
<1> DEFINE n == FoldStep(st, ev)
<1> DEFINE old == st.completed[k]
<1>3. n = VerdictRecordedArm(st, ev)
  BY <1>1, <1>2 DEF FoldStep, Apply
<1>4. k \in DOMAIN st.completed /\ IsSpan(old)
  BY DEF IsFold, CompletedAt
<1> DEFINE ev2 == MergeEvidence(old.evidence, ev.evidence)
<1> HIDE DEF ev2
<1> DEFINE half == [old EXCEPT !.verdict = ev.verdict]
<1> DEFINE record == [half EXCEPT !.evidence = ev2]
<1> DEFINE past1 == [st.completed EXCEPT ![k] = half]
<1> DEFINE past == [st.completed EXCEPT ![k] = record]
<1> DEFINE st1 == [st EXCEPT !.completed = past1]
<1>5. /\ half.evidence = old.evidence /\ IsSpan(half) /\ IsSpan(record)
      /\ ev2 = MergeEvidence(old.evidence, ev.evidence)
  BY <1>4 DEF IsSpan, SpanFields, ev2
<1>6. /\ past1[k] = half /\ [past1 EXCEPT ![k] = record] = past
  BY <1>4
<1>7. /\ DOMAIN st1 = StateFields /\ st1.completed = past1
      /\ [st1 EXCEPT !.completed = past] = [st EXCEPT !.completed = past]
  BY DEF IsFold, StateFields
<1>8. n = [st1 EXCEPT !.completed[k].evidence = MergeEvidence(@, ev.evidence)]
  <2>1. n = [st EXCEPT !.completed[k].verdict  = ev.verdict,
                       !.completed[k].evidence = MergeEvidence(@, ev.evidence)]
    BY <1>3 DEF VerdictRecordedArm
  <2>2. st1 = [st EXCEPT !.completed[k].verdict  = ev.verdict]
    BY DEF st1, past1, half
  <2>3. n = [[st EXCEPT !.completed[k].verdict  = ev.verdict]
               EXCEPT !.completed[k].evidence = MergeEvidence(@, ev.evidence)]
    <3> HIDE DEF n
    <3> QED BY <2>1
  <2> HIDE DEF st1, n
  <2> QED BY <2>2, <2>3
<1> HIDE DEF half, record
<1>9. [st1 EXCEPT !.completed[k].evidence = MergeEvidence(@, ev.evidence)]
        = [st1 EXCEPT !.completed = [past1 EXCEPT ![k] = [half EXCEPT !.evidence = ev2]]]
  <2> HIDE DEF st1, past1, past
  <2> QED BY <1>5, <1>6, <1>7
<1>10. n = [st EXCEPT !.completed = past]
  BY <1>6, <1>7, <1>8, <1>9 DEF record
<1>11. /\ IsSequence(past) /\ \A b \in DOMAIN past : IsSpan(past[b])
  BY <1>4, <1>5, PutIs DEF IsFold
<1> HIDE DEF past, n
<1>12. /\ DOMAIN n = StateFields /\ n.started
       /\ n.completed = past /\ n.inFlight = st.inFlight
       /\ n.frontier = st.frontier /\ n.dispatch = st.dispatch
  BY <1>10 DEF IsFold, StateFields
<1> QED BY <1>11, <1>12 DEF n, past, Put, IsFold

(* The arms that leave the records of steps alone, but for the evidence or *)
(* the output of the innermost span.                                       *)
LEMMA CarryingArms ==
  ASSUME NEW st, IsFold(st), NEW ev, FoldStep(st, ev) # Unfoldable,
         ev.type \in {"preflightProbed", "observationRecorded", "assertionEvaluated",
                      "callFramePushed", "callFramePopped"}
  PROVE  LET n == FoldStep(st, ev)
         IN  IsFold(n) /\ n.dispatch = st.dispatch
PROOF
<1>1. st # Unfoldable
  BY FoldIsSome
<1>2. ApplyError(st, ev) = "none"
  BY <1>1 DEF FoldStep
<1>3. st.started
  BY <1>2 DEF ApplyError
<1> DEFINE n == FoldStep(st, ev)
<1>4. n = Apply(st, ev)
  BY <1>1, <1>2 DEF FoldStep
<1> DEFINE top == Len(st.inFlight)
<1>5. st.inFlight # << >> => top \in DOMAIN st.inFlight /\ IsSpan(st.inFlight[top])
  BY SequenceIs DEF IsFold
<1>6. ASSUME st.inFlight # << >>, NEW span, IsSpan(span)
      PROVE  LET stack == [st.inFlight EXCEPT ![top] = span]
             IN  IsSequence(stack) /\ \A b \in DOMAIN stack : IsSpan(stack[b])
  BY <1>5, <1>6, PutIs DEF IsFold
<1> HIDE DEF n
<1>7. CASE ev.type = "preflightProbed"
  <2>1. n = PreflightProbedArm(st, ev)
    BY <1>4, <1>7 DEF Apply
  <2> DEFINE f(s) == [st.frontier EXCEPT !.state = s]
  <2>2. \A s : DOMAIN f(s) = {"path", "state", "intent"}
    BY DEF IsFold
  <2>3. n = st \/ \E s : n = [st EXCEPT !.frontier = f(s)]
    BY <2>1 DEF PreflightProbedArm
  <2> HIDE DEF f
  <2> QED BY <2>2, <2>3 DEF IsFold, StateFields, n
<1>8. CASE ev.type = "assertionEvaluated"
  <2> DEFINE f == [st.frontier EXCEPT !.state = "asserting"]
  <2>1. n = [st EXCEPT !.frontier = f]
    BY <1>4, <1>8 DEF Apply, AssertionEvaluatedArm
  <2>2. DOMAIN f = {"path", "state", "intent"}
    BY DEF IsFold
  <2> HIDE DEF f
  <2> QED BY <2>1, <2>2 DEF IsFold, StateFields, n
<1>9. CASE ev.type = "observationRecorded"
  <2>1. st.inFlight # << >>
    BY <1>2, <1>3, <1>9 DEF ApplyError
  <2> DEFINE span == [st.inFlight[top] EXCEPT !.evidence = @ \o ev.evidence]
  <2> DEFINE stack == [st.inFlight EXCEPT ![top] = span]
  <2> DEFINE f == [st.frontier EXCEPT !.state = "observing"]
  <2>2. IsSpan(span) /\ DOMAIN f = {"path", "state", "intent"}
    BY <1>5, <2>1 DEF IsSpan, SpanFields, IsFold
  <2>3. IsSequence(stack) /\ \A b \in DOMAIN stack : IsSpan(stack[b])
    BY <1>6, <2>1, <2>2
  <2>4. n = [st EXCEPT !.inFlight = stack, !.frontier = f]
    BY <1>4, <1>9 DEF Apply, ObservationRecordedArm, IsFold, StateFields
  <2> HIDE DEF span, stack, f
  <2> QED BY <2>2, <2>3, <2>4 DEF IsFold, StateFields, n
<1>10. CASE ev.type = "callFramePushed"
  <2>1. n = CallFramePushedArm(st, ev)
    BY <1>4, <1>10 DEF Apply
  <2>2. \E a, b : n = [st EXCEPT !.frames = a, !.framePaths = b]
    <3>1. CASE ev.rebase
      <4> DEFINE a == [st.frames EXCEPT ![CallDepth(ev.path) + 1].hash = ev.hash]
      <4>1. n = [st EXCEPT !.frames = a]
        BY <2>1, <3>1 DEF CallFramePushedArm
      <4> HIDE DEF a
      <4>2. n = [st EXCEPT !.frames = a, !.framePaths = st.framePaths]
        BY <4>1 DEF IsFold, StateFields
      <4> QED BY <4>2
    <3>2. CASE ~ev.rebase
      BY <2>1, <3>2 DEF CallFramePushedArm
    <3> QED BY <3>1, <3>2
  <2> QED BY <2>2 DEF IsFold, StateFields, n
<1>11. CASE ev.type = "callFramePopped"
  <2>1. n = CallFramePoppedArm(st, ev)
    BY <1>4, <1>11 DEF Apply
  <2> DEFINE span == [st.inFlight[top] EXCEPT !.output = ev.output]
  <2> DEFINE stack == IF st.inFlight = << >> THEN st.inFlight
                      ELSE [st.inFlight EXCEPT ![top] = span]
  <2>2. IsSequence(stack) /\ \A b \in DOMAIN stack : IsSpan(stack[b])
    <3>1. CASE st.inFlight = << >>
      BY <3>1 DEF IsFold
    <3>2. CASE st.inFlight # << >>
      <4>1. IsSpan(span)
        BY <1>5, <3>2 DEF IsSpan, SpanFields
      <4> QED BY <1>6, <3>2, <4>1
    <3> QED BY <3>1, <3>2
  <2>3. n = [st EXCEPT !.frames = Front(@), !.framePaths = Front(@), !.inFlight = stack]
    BY <2>1 DEF CallFramePoppedArm
  <2> HIDE DEF span, stack
  <2> QED BY <2>2, <2>3 DEF IsFold, StateFields, n
<1> QED BY <1>7, <1>8, <1>9, <1>10, <1>11 DEF n

(* The first entry of a fold, and every later one, leaves a fold.          *)
LEMMA FoldStaysFold ==
  ASSUME NEW st, IsFold(st), NEW ev, ev.type \in EventTypes,
         FoldStep(st, ev) # Unfoldable
  PROVE  IsFold(FoldStep(st, ev))
PROOF
<1>1. ApplyError(st, ev) = "none"
  BY FoldIsSome DEF FoldStep
<1>2. CASE ~st.started
  <2>1. ev.type = "runStarted"
    BY <1>1, <1>2 DEF ApplyError
  <2> QED BY <1>2, <2>1, RunStartedIs DEF Keeps
<1>3. CASE st.started /\ ev.type \in {"stepEntered", "actionIntent", "humanRequested"}
  BY <1>3, StepEnteredIs, ActionIntentIs, HumanRequestedIs DEF Still, Keeps
<1>4. CASE st.started /\ ev.type \in {"runSuspended", "runResumed", "runFinished",
                                      "handlerTriggered"}
  BY <1>4, RunMarkIs DEF Still, Keeps
<1>5. CASE st.started /\ ev.type \in {"actionSettled", "stepExited"}
  <2>1. st.inFlight # << >>
    BY <1>1, <1>5 DEF ApplyError
  <2> QED BY <1>5, <2>1, ActionSettledIs, StepExitedIs
<1>6. CASE st.started /\ ev.type = "humanResponded"
  <2>1. st.pending # NoPending /\ st.pending.req = ev.req
    BY <1>1, <1>6 DEF ApplyError
  <2> QED BY <1>6, <2>1, HumanRespondedIs DEF Still, Keeps
<1>7. CASE st.started /\ ev.type = "verdictRecorded"
  <2> DEFINE S == InFlightAt(st, ev.path)
  <2> DEFINE R == CompletedAt(st, ev.path)
  <2>1. S # { } \/ R # { }
    BY <1>1, <1>7 DEF ApplyError
  <2>2. S \in SUBSET (1 .. Len(st.inFlight)) /\ Len(st.inFlight) \in Nat
    BY SequenceIs DEF IsFold, InFlightAt
  <2>3. R \in SUBSET (1 .. Len(st.completed)) /\ Len(st.completed) \in Nat
    BY SequenceIs DEF IsFold, CompletedAt
  <2>4. CASE S # { }
    <3>1. Latest(S) \in S
      <4> HIDE DEF S
      <4> QED BY <2>2, <2>4, LatestIs
    <3> QED BY <1>7, <3>1, VerdictRecordedIs
  <2>5. CASE S = { }
    <3>1. Latest(R) \in R
      <4> HIDE DEF R
      <4> QED BY <2>1, <2>3, <2>5, LatestIs
    <3> QED BY <1>7, <2>5, <3>1, LateVerdictIs
  <2> QED BY <2>4, <2>5
<1>8. CASE st.started /\ ev.type = "runStarted"
  BY <1>1, <1>8 DEF ApplyError
<1>9. CASE ev.type \in {"preflightProbed", "observationRecorded", "assertionEvaluated",
                        "callFramePushed", "callFramePopped"}
  BY <1>9, CarryingArms
<1> QED BY <1>2, <1>3, <1>4, <1>5, <1>6, <1>7, <1>8, <1>9 DEF EventTypes

(* A verdict rewrites spans and records of its own instance only.          *)
LEMMA VerdictRewrites ==
  ASSUME NEW st, IsFold(st), NEW ev, ev.type = "verdictRecorded",
         FoldStep(st, ev) # Unfoldable
  PROVE  LET n == FoldStep(st, ev)
         IN  /\ DOMAIN n.inFlight = DOMAIN st.inFlight
             /\ DOMAIN n.completed = DOMAIN st.completed
             /\ \A i \in DOMAIN st.inFlight :
                  n.inFlight[i] # st.inFlight[i]
                    => SameInstance(st.inFlight[i].path, ev.path)
             /\ \A i \in DOMAIN st.completed :
                  n.completed[i] # st.completed[i]
                    => SameInstance(st.completed[i].path, ev.path)
PROOF
<1>1. ApplyError(st, ev) = "none"
  BY FoldIsSome DEF FoldStep
<1> DEFINE S == InFlightAt(st, ev.path)
<1> DEFINE R == CompletedAt(st, ev.path)
<1> DEFINE n == FoldStep(st, ev)
<1>2. st.started /\ (S # { } \/ R # { })
  BY <1>1 DEF ApplyError
<1>3. S \in SUBSET (1 .. Len(st.inFlight)) /\ Len(st.inFlight) \in Nat
  BY SequenceIs DEF IsFold, InFlightAt
<1>4. R \in SUBSET (1 .. Len(st.completed)) /\ Len(st.completed) \in Nat
  BY SequenceIs DEF IsFold, CompletedAt
<1>5. CASE S # { }
  <2>1. PICK k \in S : k = Latest(S)
    <3> HIDE DEF S
    <3> QED BY <1>3, <1>5, LatestIs
  <2>2. PICK span : /\ n.inFlight = Put(st.inFlight, k, span)
                    /\ n.completed = st.completed
    BY <1>2, <2>1, VerdictRecordedIs
  <2>3. k \in DOMAIN st.inFlight /\ SameInstance(st.inFlight[k].path, ev.path)
    BY <2>1 DEF InFlightAt
  <2> QED BY <2>2, <2>3 DEF Put
<1>6. CASE S = { }
  <2>1. PICK k \in R : k = Latest(R)
    <3> HIDE DEF R
    <3> QED BY <1>2, <1>4, <1>6, LatestIs
  <2>2. PICK record : /\ n.completed = Put(st.completed, k, record)
                      /\ n.inFlight = st.inFlight
    BY <1>2, <1>6, <2>1, LateVerdictIs
  <2>3. k \in DOMAIN st.completed /\ SameInstance(st.completed[k].path, ev.path)
    BY <2>1 DEF CompletedAt
  <2> QED BY <2>2, <2>3 DEF Put
<1> QED BY <1>5, <1>6

(* The announced positions of calls not settled yet.                       *)
LEMMA DispatchIs ==
  ASSUME NEW st, IsFold(st), NEW ev, ev.type \in EventTypes,
         FoldStep(st, ev) # Unfoldable
  PROVE  FoldStep(st, ev).dispatch =
           IF ev.type = "actionIntent"
           THEN { d \in st.dispatch : d.call # ev.call }
                  \union { [call |-> ev.call, chain |-> ev.chain] }
           ELSE IF ev.type = "actionSettled"
           THEN { d \in st.dispatch : d.call # ev.call }
           ELSE st.dispatch
PROOF
<1>1. FoldStep(st, ev) = Apply(st, ev) /\ ApplyError(st, ev) = "none"
  BY FoldIsSome DEF FoldStep
<1>2. CASE ev.type = "runStarted"
  BY <1>1, <1>2 DEF Apply, RunStartedArm, IsFold, StateFields
<1>3. CASE ev.type = "stepEntered"
  BY <1>1, <1>3 DEF Apply, StepEnteredArm, IsFold, StateFields
<1>4. CASE ev.type = "actionIntent"
  BY <1>1, <1>4 DEF Apply, ActionIntentArm, IsFold, StateFields
<1>5. CASE ev.type = "actionSettled"
  <2>1. ActionSettledArm(st, ev).dispatch = st.dispatch \ { d \in st.dispatch : d.call = ev.call }
    BY DEF ActionSettledArm, IsFold, StateFields
  <2> QED BY <1>1, <1>5, <2>1 DEF Apply
<1>6. CASE ev.type = "verdictRecorded"
  <2>1. VerdictRecordedArm(st, ev).dispatch = st.dispatch
    BY DEF VerdictRecordedArm, IsFold, StateFields
  <2> QED BY <1>1, <1>6, <2>1 DEF Apply
<1>7. CASE ev.type = "stepExited"
  <2>1. StepExitedArm(st, ev).dispatch = st.dispatch
    BY DEF StepExitedArm, IsFold, StateFields
  <2> QED BY <1>1, <1>7, <2>1 DEF Apply
<1>8. CASE ev.type = "handlerTriggered"
  BY <1>1, <1>8 DEF Apply
<1>9. CASE ev.type = "humanRequested"
  BY <1>1, <1>9 DEF Apply, HumanRequestedArm, IsFold, StateFields
<1>10. CASE ev.type = "humanResponded"
  BY <1>1, <1>10 DEF Apply, HumanRespondedArm, IsFold, StateFields
<1>11. CASE ev.type = "runSuspended"
  BY <1>1, <1>11 DEF Apply, RunSuspendedArm, IsFold, StateFields
<1>12. CASE ev.type = "runResumed"
  BY <1>1, <1>12 DEF Apply, RunResumedArm, IsFold, StateFields
<1>13. CASE ev.type = "runFinished"
  BY <1>1, <1>13 DEF Apply, RunFinishedArm, IsFold, StateFields
<1>14. CASE ev.type \in {"preflightProbed", "observationRecorded", "assertionEvaluated",
                         "callFramePushed", "callFramePopped"}
  BY <1>14, CarryingArms
<1> QED
  BY <1>2, <1>3, <1>4, <1>5, <1>6, <1>7, <1>8, <1>9, <1>10, <1>11, <1>12, <1>13, <1>14
  DEF EventTypes

(* A settlement appends to the innermost span an attempt at the position   *)
(* its call was announced at.                                              *)
LEMMA AttemptIs ==
  ASSUME NEW st, IsFold(st), NEW ev, ev.type = "actionSettled",
         FoldStep(st, ev) # Unfoldable
  PROVE  LET n == FoldStep(st, ev)
             mine == { d \in st.dispatch : d.call = ev.call }
         IN  Last(Last(n.inFlight).attempts).chain =
               IF mine = { } THEN 0 ELSE (CHOOSE d \in mine : TRUE).chain
PROOF
<1>1. ApplyError(st, ev) = "none" /\ FoldStep(st, ev) = Apply(st, ev)
  BY FoldIsSome DEF FoldStep
<1>2. st.started /\ st.inFlight # << >>
  BY <1>1 DEF ApplyError
<1> DEFINE mine == { d \in st.dispatch : d.call = ev.call }
<1> DEFINE chain == IF mine = { } THEN 0 ELSE (CHOOSE d \in mine : TRUE).chain
<1> DEFINE k == Len(st.inFlight)
<1> DEFINE last == st.inFlight[k]
<1> DEFINE a == AttemptRecord(ev.call, ev.outcome, chain)
<1>3. a.chain = chain
  BY DEF AttemptRecord
<1> HIDE DEF mine, a
<1> DEFINE more == Append(last.attempts, a)
<1> DEFINE span == [last EXCEPT !.attempts = more]
<1> DEFINE stack == [st.inFlight EXCEPT ![k] = span]
<1>4. ActionSettledArm(st, ev).inFlight = stack
  BY DEF ActionSettledArm, IsFold, StateFields, mine, a
<1>5. k \in DOMAIN st.inFlight /\ IsSpan(last)
  BY <1>2, SequenceIs DEF IsFold
<1>6. IsSequence(more) /\ more # << >> /\ Len(more) \in Nat /\ more[Len(more)] = a
  <2> DEFINE s == last.attempts
  <2>1. IsSequence(s)
    BY <1>5 DEF IsSpan
  <2> HIDE DEF s
  <2>2. LET t == Append(s, a)
        IN  IsSequence(t) /\ t # << >> /\ Len(t) \in Nat /\ t[Len(t)] = a
    BY <2>1, AppendIs, SequenceIs
  <2> QED BY <2>2 DEF s
<1>7. Last(more) = a
  BY <1>6 DEF Last
<1>8. span.attempts = more
  BY <1>5 DEF IsSpan, SpanFields
<1> HIDE DEF more, span
<1>9. Len(stack) = k /\ stack[k] = span
  <2>1. IsSequence(st.inFlight)
    BY DEF IsFold
  <2> QED BY <1>5, <2>1, PutIs
<1>10. Last(stack) = span
  BY <1>9 DEF Last
<1>11. FoldStep(st, ev).inFlight = stack
  BY <1>1, <1>4 DEF Apply
<1> QED BY <1>3, <1>7, <1>8, <1>10, <1>11 DEF mine
=============================================================================
