--------------------------- MODULE RunStoreProofs ---------------------------
(***************************************************************************)
(* The checkpoint row is the fold of the ledger, for every set of handles, *)
(* every set of entries and every ledger length: caching the fold is       *)
(* exact, whatever the fold computes. The last part opens the fold, for    *)
(* what a ledger appended through any handles keeps of verdicts and        *)
(* attempts.                                                               *)
(***************************************************************************)
EXTENDS RunStore, FoldLemmas

(* The state's shape, and a run row that exists before any of its entries. *)
TypeOK ==
  /\ runRow \in BOOLEAN
  /\ log \in Seq(Event)
  /\ refold \in Seq(Range(refold)) /\ Len(refold) = Len(log)
  /\ open \subseteq Handle
  /\ DOMAIN cache = Handle
  /\ \A h \in Handle : cache[h] # NoCache => cache[h].seq \in Nat
  /\ ~runRow => log = << >>

(* A handle a failed commit left ahead is the only live one.               *)
AheadAlone == \A g \in Handle : Ahead(g) => open = {g}

ClosedForgets == \A h \in Handle \ open : cache[h] = NoCache

(* A failed commit leaves a cache one row ahead of the ledger, no further. *)
CacheNotAhead ==
  \A h \in Handle : cache[h] # NoCache => cache[h].seq <= Len(log) + 1

StoreInv ==
  /\ TypeOK
  /\ AheadAlone
  /\ ClosedForgets
  /\ CacheNotAhead
  /\ CacheCoherent
  /\ CheckpointIsRefold

-----------------------------------------------------------------------------
(* Appending to the history keeps every earlier fold and adds the new one. *)
LEMMA RefoldGrows ==
  ASSUME TypeOK, NEW ev \in Event, NEW state,
         log' = Append(log, ev), refold' = Append(refold, state)
  PROVE  /\ log' \in Seq(Event) /\ Len(log') = Len(log) + 1
         /\ refold' \in Seq(Range(refold)') /\ Len(refold') = Len(log')
         /\ Len(log) \in Nat /\ log' # << >>
         /\ refold'[Len(log')] = state
         /\ \A n \in 1 .. Len(log) : refold'[n] = refold[n]
PROOF
<1> DEFINE S == Range(refold) \union {state}
<1>1. /\ refold \in Seq(Range(refold)) /\ Len(refold) = Len(log)
      /\ log \in Seq(Event)
  BY DEF TypeOK
<1>2. refold \in Seq(S)
  BY <1>1, SeqMonotonic
<1>3. /\ log' \in Seq(Event) /\ Len(log') = Len(log) + 1 /\ Len(log) \in Nat
      /\ log' # << >>
  BY <1>1
<1>4. /\ refold' \in Seq(S) /\ Len(refold') = Len(refold) + 1
      /\ refold'[Len(refold) + 1] = state
      /\ \A n \in 1 .. Len(refold) : refold'[n] = refold[n]
  BY <1>2
<1>5. refold' \in Seq(Range(refold)')
  BY <1>4, SeqOfRange DEF Range
<1> QED BY <1>1, <1>3, <1>4, <1>5

(* Whichever way an append gets at the folded prefix, it is the same.      *)
LEMMA FoldBaseExact ==
  ASSUME StoreInv, NEW h \in Handle
  PROVE  FoldBase(h) = FoldOfPrefix(Len(log))
PROOF
<1>1. CASE CacheHit(h)
  <2>1. cache[h] # NoCache /\ cache[h].seq = Len(log)
    BY <1>1 DEF CacheHit, StoreInv, TypeOK
  <2>2. cache[h].state = FoldOfPrefix(cache[h].seq)
    BY <2>1 DEF StoreInv, CacheCoherent, TypeOK
  <2> QED BY <1>1, <2>1, <2>2 DEF FoldBase
<1>2. CASE ~CacheHit(h)
  BY <1>2 DEF FoldBase
<1> QED BY <1>1, <1>2

(* An append moves the fold, the row and the cache of its handle together. *)
LEMMA AppendKeeps ==
  ASSUME StoreInv, NEW h \in Handle, NEW ev \in Event,
         AppendEvent(h, ev)
  PROVE  StoreInv'
PROOF
<1> DEFINE state == FoldStep(FoldOfPrefix(Len(log)), ev)
<1>0. FoldBase(h) = FoldOfPrefix(Len(log))
  BY FoldBaseExact
<1>1. /\ h \in open /\ runRow /\ state # Unfoldable
      /\ log' = Append(log, ev)
      /\ refold' = Append(refold, state)
      /\ cache' = [cache EXCEPT ![h] = [seq |-> Len(log) + 1, state |-> state]]
      /\ checkpoint' = [seq |-> Len(log) + 1, view |-> FinishView(state)]
      /\ runStatus' = state.status
      /\ runRow' = runRow /\ open' = open
  BY <1>0 DEF AppendEvent, Materialize
<1> HIDE DEF state
<1>2. /\ log' \in Seq(Event) /\ Len(log') = Len(log) + 1
      /\ refold' \in Seq(Range(refold)') /\ Len(refold') = Len(log')
      /\ Len(log) \in Nat /\ log' # << >>
      /\ refold'[Len(log')] = state
      /\ \A n \in 1 .. Len(log) : refold'[n] = refold[n]
  BY <1>1, RefoldGrows DEF StoreInv
<1>3. /\ DOMAIN cache' = Handle
      /\ cache'[h] = [seq |-> Len(log) + 1, state |-> state]
      /\ \A g \in Handle \ {h} : cache'[g] = cache[g]
  BY <1>1 DEF StoreInv, TypeOK
<1>4. \A g \in Handle \ {h} : cache[g] # NoCache => cache[g].seq <= Len(log)
  <2> SUFFICES ASSUME NEW g \in Handle \ {h}, Ahead(g)
               PROVE  FALSE
    BY <1>2 DEF Ahead, StoreInv, TypeOK
  <2>1. open = {g}
    BY DEF StoreInv, AheadAlone
  <2> QED BY <1>1, <2>1
<1>5. TypeOK'
  BY <1>1, <1>2, <1>3 DEF StoreInv, TypeOK
<1>6. \A g \in Handle : cache'[g] # NoCache => cache'[g].seq <= Len(log')
  <2> SUFFICES ASSUME NEW g \in Handle, cache'[g] # NoCache
               PROVE  cache'[g].seq <= Len(log')
    OBVIOUS
  <2>1. CASE g = h
    BY <1>2, <1>3, <2>1
  <2>2. CASE g # h
    BY <1>2, <1>3, <1>4, <2>2 DEF StoreInv, TypeOK
  <2> QED BY <2>1, <2>2
<1>7. AheadAlone' /\ ClosedForgets'
  <2>1. AheadAlone'
    BY <1>2, <1>6, <1>5 DEF AheadAlone, Ahead, TypeOK
  <2>2. ClosedForgets'
    BY <1>1, <1>3 DEF StoreInv, ClosedForgets
  <2> QED BY <2>1, <2>2
<1>8. CacheNotAhead'
  BY <1>2, <1>6, <1>5 DEF CacheNotAhead, TypeOK
<1>9. CacheCoherent'
  <2> SUFFICES ASSUME NEW g \in Handle, cache'[g] # NoCache
               PROVE  cache'[g].state = FoldOfPrefix(cache[g].seq)'
    BY DEF CacheCoherent
  <2>1. CASE g = h
    <3>1. cache'[g].seq = Len(log') /\ cache'[g].state = state
      BY <1>2, <1>3, <2>1
    <3> QED BY <1>2, <3>1 DEF FoldOfPrefix
  <2>2. CASE g # h
    <3>1. /\ cache'[g] = cache[g] /\ cache[g] # NoCache
          /\ cache[g].seq \in 0 .. Len(log)
      BY <1>2, <1>3, <1>4, <2>2 DEF StoreInv, TypeOK
    <3>2. cache[g].state = FoldOfPrefix(cache[g].seq)
      BY <3>1 DEF StoreInv, CacheCoherent
    <3>3. cache[g].seq # 0 => refold'[cache[g].seq] = refold[cache[g].seq]
      BY <1>2, <3>1
    <3> QED BY <3>1, <3>2, <3>3 DEF FoldOfPrefix, MetaSeed
  <2> QED BY <2>1, <2>2
<1>10. CheckpointIsRefold'
  BY <1>1, <1>2 DEF CheckpointIsRefold
<1> QED BY <1>5, <1>7, <1>8, <1>9, <1>10 DEF StoreInv

(* Steps that write no row disturb only the caches and the set of handles. *)
LEMMA NoRowKeeps ==
  ASSUME StoreInv, UNCHANGED rows,
         DOMAIN cache' = Handle, open' \subseteq Handle,
         AheadAlone', ClosedForgets',
         \A h \in Handle : cache'[h] \notin {NoCache, cache[h]} =>
           cache'[h].seq = Len(log) + 1
  PROVE  StoreInv'
PROOF
<1>1. /\ log' = log /\ refold' = refold /\ runRow' = runRow
      /\ checkpoint' = checkpoint /\ runStatus' = runStatus
  BY DEF rows
<1>2. Len(log) \in Nat
  BY DEF StoreInv, TypeOK
<1>3. TypeOK'
  BY <1>1, <1>2 DEF StoreInv, TypeOK, Range
<1>4. CacheNotAhead'
  BY <1>1, <1>2 DEF StoreInv, CacheNotAhead, TypeOK
<1>5. CacheCoherent'
  <2> SUFFICES ASSUME NEW h \in Handle, cache'[h] # NoCache,
                      cache'[h].seq <= Len(log)
               PROVE  cache'[h].state = FoldOfPrefix(cache'[h].seq)
    BY <1>1 DEF CacheCoherent, FoldOfPrefix, MetaSeed
  <2>1. cache'[h] = cache[h]
    BY <1>2
  <2> QED BY <2>1 DEF StoreInv, CacheCoherent
<1>6. CheckpointIsRefold'
  BY <1>1 DEF StoreInv, CheckpointIsRefold
<1> QED BY <1>3, <1>4, <1>5, <1>6 DEF StoreInv

(* An empty store shows the empty fold.                                    *)
LEMMA StoreInvInitially == Init => StoreInv
PROOF
<1> SUFFICES ASSUME Init PROVE StoreInv
  OBVIOUS
<1>1. << >> \in Seq(Event) /\ << >> \in Seq(Range(refold)) /\ Len(<< >>) = 0
  OBVIOUS
<1>2. TypeOK
  BY <1>1 DEF Init, TypeOK
<1>3. AheadAlone /\ ClosedForgets /\ CacheNotAhead /\ CacheCoherent
  BY DEF Init, AheadAlone, Ahead, ClosedForgets, CacheNotAhead, CacheCoherent
<1>4. CheckpointIsRefold
  BY DEF Init, CheckpointIsRefold
<1> QED BY <1>2, <1>3, <1>4 DEF StoreInv

(* Every action appends and folds one entry, or writes no row.             *)
LEMMA StoreInvInductive ==
  ASSUME StoreInv, [Next]_vars
  PROVE  StoreInv'
PROOF
<1>1. ASSUME NEW h \in Handle, OpenStore(h)
      PROVE  StoreInv'
  <2>1. /\ open' = open \union {h} /\ UNCHANGED rows
        /\ cache' = [cache EXCEPT ![h] = NoCache]
        /\ \A g \in open : ~Ahead(g)
    BY <1>1 DEF OpenStore
  <2>2. /\ ClosedForgets' /\ DOMAIN cache' = Handle /\ open' \subseteq Handle
        /\ cache'[h] = NoCache
        /\ \A g \in Handle \ {h} : cache'[g] = cache[g]
    BY <2>1 DEF StoreInv, TypeOK, ClosedForgets
  <2>3. AheadAlone'
    BY <2>1, <2>2 DEF StoreInv, AheadAlone, Ahead, rows
  <2> QED BY <2>1, <2>2, <2>3, NoRowKeeps
<1>2. ASSUME NEW h \in Handle, DropStore(h)
      PROVE  StoreInv'
  <2>1. /\ h \in open /\ open' = open \ {h} /\ UNCHANGED rows
        /\ cache' = [cache EXCEPT ![h] = NoCache]
    BY <1>2 DEF DropStore
  <2>2. /\ ClosedForgets' /\ DOMAIN cache' = Handle /\ open' \subseteq Handle
        /\ cache'[h] = NoCache
        /\ \A g \in Handle \ {h} : cache'[g] = cache[g]
    BY <2>1 DEF StoreInv, TypeOK, ClosedForgets
  <2>3. AheadAlone'
    BY <2>1, <2>2 DEF StoreInv, AheadAlone, Ahead, rows
  <2> QED BY <2>1, <2>2, <2>3, NoRowKeeps
<1>3. ASSUME NEW h \in Handle, BeginRun(h)
      PROVE  StoreInv'
  <2>1. /\ ~runRow /\ runRow' = TRUE /\ runStatus' = "running"
        /\ log' = log /\ checkpoint' = checkpoint /\ refold' = refold
        /\ open' = open /\ cache' = cache
    BY <1>3 DEF BeginRun
  <2>2. log = << >>
    BY <2>1 DEF StoreInv, TypeOK
  <2>3. CheckpointIsRefold'
    BY <2>1, <2>2 DEF StoreInv, CheckpointIsRefold
  <2>4. TypeOK' /\ CacheNotAhead'
    BY <2>1 DEF StoreInv, TypeOK, CacheNotAhead, Range
  <2>5. CacheCoherent' /\ AheadAlone' /\ ClosedForgets'
    BY <2>1 DEF StoreInv, CacheCoherent, AheadAlone, Ahead, ClosedForgets,
                FoldOfPrefix, MetaSeed
  <2> QED BY <2>3, <2>4, <2>5 DEF StoreInv
<1>4. ASSUME NEW h \in Handle, NEW ev \in Event, AppendEvent(h, ev)
      PROVE  StoreInv'
  BY <1>4, AppendKeeps
<1>5. ASSUME NEW h \in Handle, NEW ev \in Event, AppendRefused(h, ev)
      PROVE  StoreInv'
  <2>1. /\ h \in open /\ open' = open /\ UNCHANGED rows
        /\ cache' \in {cache, [cache EXCEPT ![h] = NoCache]}
    BY <1>5 DEF AppendRefused
  <2>2. /\ DOMAIN cache' = Handle
        /\ \A g \in Handle : cache'[g] \in {NoCache, cache[g]}
    BY <2>1 DEF StoreInv, TypeOK
  <2>3. AheadAlone' /\ ClosedForgets' /\ open' \subseteq Handle
    BY <2>1, <2>2 DEF StoreInv, TypeOK, AheadAlone, Ahead, ClosedForgets, rows
  <2> QED BY <2>1, <2>2, <2>3, NoRowKeeps
<1>6. ASSUME NEW h \in Handle, NEW ev \in Event, AppendNotCommitted(h, ev)
      PROVE  StoreInv'
  <2> DEFINE entry == [ seq   |-> Len(log) + 1,
                        state |-> FoldStep(FoldBase(h), ev) ]
  <2>1. /\ open = {h} /\ open' = open /\ UNCHANGED rows
        /\ cache' = [cache EXCEPT ![h] = entry]
    BY <1>6 DEF AppendNotCommitted
  <2>2. entry.seq = Len(log) + 1
    OBVIOUS
  <2> HIDE DEF entry
  <2>3. /\ DOMAIN cache' = Handle /\ cache'[h] = entry
        /\ \A g \in Handle \ {h} : cache'[g] = cache[g]
    BY <2>1 DEF StoreInv, TypeOK
  <2>4. AheadAlone' /\ ClosedForgets' /\ open' \subseteq Handle
    BY <2>1, <2>3 DEF StoreInv, TypeOK, AheadAlone, Ahead, ClosedForgets, rows
  <2>5. \A g \in Handle : cache'[g] \notin {NoCache, cache[g]} =>
          cache'[g].seq = Len(log) + 1
    BY <2>1, <2>2, <2>3
  <2> QED BY <2>1, <2>3, <2>4, <2>5, NoRowKeeps
<1>7. ASSUME UNCHANGED vars
      PROVE  StoreInv'
  <2>1. /\ UNCHANGED rows /\ open' = open /\ cache' = cache
    BY <1>7 DEF vars, rows
  <2>2. /\ DOMAIN cache' = Handle /\ open' \subseteq Handle
        /\ AheadAlone' /\ ClosedForgets'
    BY <2>1 DEF StoreInv, TypeOK, AheadAlone, Ahead, ClosedForgets, rows
  <2> QED BY <2>1, <2>2, NoRowKeeps
<1> QED
  BY <1>1, <1>2, <1>3, <1>4, <1>5, <1>6, <1>7 DEF Next

(* StoreInv holds of every behaviour of the store.                         *)
THEOREM StoreInvariant == Spec => []StoreInv
PROOF
<1>1. Init => StoreInv
  BY StoreInvInitially
<1>2. StoreInv /\ [Next]_vars => StoreInv'
  BY StoreInvInductive
<1> QED BY <1>1, <1>2, PTL DEF Spec

(* I1: whatever handles appended the ledger, with warm, cold, refused or   *)
(* uncommitted caches, the checkpoint row is the fold of the ledger from   *)
(* scratch and stands at its head (what verify_checkpoint compares).       *)
THEOREM CheckpointIsAlwaysRefold == Spec => []CheckpointIsRefold
PROOF
<1>1. StoreInv => CheckpointIsRefold
  BY DEF StoreInv
<1> QED BY <1>1, StoreInvariant, PTL

-----------------------------------------------------------------------------
(* A committed append is the ledger's Accept; every other step is Begin or *)
(* is not seen.                                                            *)
LEMMA StoreStepSimulates ==
  ASSUME StoreInv, [Next]_vars
  PROVE  [Ledger!Next]_(Ledger!vars)
PROOF
<1>1. ASSUME NEW h \in Handle, NEW ev \in Event, AppendEvent(h, ev)
      PROVE  Ledger!Next
  <2> DEFINE state == FoldStep(Folded, ev)
  <2>1. FoldBase(h) = Folded
    BY FoldBaseExact DEF Folded
  <2>2. /\ runRow /\ state # Unfoldable /\ runRow' = runRow
        /\ log' = Append(log, ev) /\ refold' = Append(refold, state)
        /\ checkpoint' = [seq |-> Len(log) + 1, view |-> FinishView(state)]
        /\ runStatus' = state.status
    BY <1>1, <2>1 DEF AppendEvent, Materialize, Folded
  <2> HIDE DEF state
  <2>3. Len(log') \in Nat /\ log' # << >> /\ Len(log') # 0 /\ refold'[Len(log')] = state
    BY <2>2, RefoldGrows DEF StoreInv
  <2>4. Folded' = state
    BY <2>3 DEF Folded, FoldOfPrefix
  <2>5. Ledger!Accept(ev)
    BY <2>2, <2>4 DEF Ledger!Accept, state
  <2> QED BY <2>5 DEF Ledger!Next
<1>2. ASSUME NEW h \in Handle, BeginRun(h)
      PROVE  Ledger!Next
  <2>1. /\ ~runRow /\ runRow' = TRUE /\ runStatus' = "running"
        /\ log' = log /\ checkpoint' = checkpoint /\ refold' = refold
    BY <1>2 DEF BeginRun
  <2>2. log = << >> /\ runStatus = "running"
    BY <2>1 DEF StoreInv, TypeOK, CheckpointIsRefold
  <2>3. Folded' = Folded
    BY <2>1 DEF Folded, FoldOfPrefix, MetaSeed
  <2>4. Ledger!Begin
    BY <2>1, <2>2, <2>3 DEF Ledger!Begin
  <2> QED BY <2>4 DEF Ledger!Next
<1>3. ASSUME UNCHANGED rows
      PROVE  UNCHANGED Ledger!vars
  BY <1>3 DEF rows, Ledger!vars, Folded, FoldOfPrefix, MetaSeed
<1>4. \A h \in Handle, ev \in Event :
        OpenStore(h) \/ DropStore(h) \/ AppendRefused(h, ev) \/ AppendNotCommitted(h, ev)
          => UNCHANGED rows
  BY DEF OpenStore, DropStore, AppendRefused, AppendNotCommitted
<1>5. UNCHANGED vars => UNCHANGED rows
  BY DEF vars, rows
<1>6. \A h \in Handle : OpenStore(h) \/ DropStore(h) => UNCHANGED rows
  BY DEF OpenStore, DropStore
<1> QED BY <1>1, <1>2, <1>3, <1>4, <1>5, <1>6 DEF Next

(* The store implements the ledger its readers are promised, whatever the  *)
(* handles do: entries are accepted one by one and what is shown is always *)
(* their fold.                                                             *)
THEOREM StoreImplementsLedger == Spec => ImplementsLedger
PROOF
<1>1. Init => Ledger!Init
  <2> SUFFICES ASSUME Init PROVE Ledger!Init
    OBVIOUS
  <2>1. Folded = MetaSeed
    BY DEF Init, Folded, FoldOfPrefix
  <2> QED BY <2>1 DEF Init, Ledger!Init
<1>2. StoreInv /\ [Next]_vars => [Ledger!Next]_(Ledger!vars)
  BY StoreStepSimulates
<1> QED BY <1>1, <1>2, StoreInvariant, PTL DEF Spec, ImplementsLedger, Ledger!Spec

-----------------------------------------------------------------------------
(* What the fold of a ledger keeps of its intents.                         *)
Intents(c) == { n \in DOMAIN log : log[n].type = "actionIntent" /\ log[n].call = c }
Settlements(c) ==
  { n \in DOMAIN log : log[n].type = "actionSettled" /\ log[n].call = c }
Unsettled(c) == { n \in Intents(c) : \A m \in Settlements(c) : m < n }
Announced(c) == { d \in Folded.dispatch : d.call = c }

(* The carrier of the fold names, of each call, the position of its latest *)
(* intent without a settlement after it.                                   *)
DispatchExact ==
  \A c : Announced(c) =
           IF Unsettled(c) = { } THEN { }
           ELSE {[call |-> c, chain |-> log[Latest(Unsettled(c))].chain]}

HistoryInv == StoreInv /\ IsFold(Folded) /\ DispatchExact

(* To a reader, a step of the store is an entry folded, or nothing.        *)
LEMMA ReaderSees ==
  ASSUME StoreInv, [Next]_vars
  PROVE  \/ log' = log /\ Folded' = Folded
         \/ \E ev \in Event : /\ log' = Append(log, ev)
                              /\ Folded' = FoldStep(Folded, ev)
                              /\ Folded' # Unfoldable
PROOF
<1>1. ASSUME NEW h \in Handle, NEW ev \in Event, AppendEvent(h, ev)
      PROVE  /\ log' = Append(log, ev)
             /\ Folded' = FoldStep(Folded, ev)
             /\ Folded' # Unfoldable
  <2> DEFINE state == FoldStep(Folded, ev)
  <2>1. FoldBase(h) = Folded
    BY FoldBaseExact DEF Folded
  <2>2. /\ state # Unfoldable
        /\ log' = Append(log, ev) /\ refold' = Append(refold, state)
    BY <1>1, <2>1 DEF AppendEvent, Folded
  <2> HIDE DEF state
  <2>3. Len(log') \in Nat /\ Len(log') # 0 /\ refold'[Len(log')] = state
    BY <2>2, RefoldGrows DEF StoreInv
  <2>4. Folded' = state
    BY <2>3 DEF Folded, FoldOfPrefix
  <2> QED BY <2>2, <2>4 DEF state
<1>2. ASSUME log' = log, refold' = refold
      PROVE  Folded' = Folded
  BY <1>2 DEF Folded, FoldOfPrefix, MetaSeed
<1>3. \A h \in Handle, ev \in Event :
        OpenStore(h) \/ DropStore(h) \/ BeginRun(h) \/ AppendRefused(h, ev)
          \/ AppendNotCommitted(h, ev) => log' = log /\ refold' = refold
  BY DEF OpenStore, DropStore, BeginRun, AppendRefused, AppendNotCommitted, rows
<1>4. UNCHANGED vars => log' = log /\ refold' = refold
  BY DEF vars
<1>5. \A h \in Handle : OpenStore(h) \/ DropStore(h) \/ BeginRun(h)
                          => log' = log /\ refold' = refold
  BY DEF OpenStore, DropStore, BeginRun, rows
<1> QED BY <1>1, <1>2, <1>3, <1>4, <1>5 DEF Next

(* The entry a step appends is the last of the ledger.                     *)
LEMMA LastIs ==
  ASSUME TypeOK, NEW ev \in Event, log' = Append(log, ev)
  PROVE  /\ Len(log) \in Nat /\ Len(log') = Len(log) + 1 /\ Last(log') = ev
         /\ DOMAIN log = 1 .. Len(log) /\ DOMAIN log' = 1 .. Len(log) + 1
         /\ log'[Len(log) + 1] = ev
         /\ \A n \in DOMAIN log : log'[n] = log[n]
PROOF
<1>1. log \in Seq(Event)
  BY DEF TypeOK
<1>2. /\ Len(log) \in Nat /\ Len(log') = Len(log) + 1
      /\ DOMAIN log = 1 .. Len(log) /\ DOMAIN log' = 1 .. Len(log) + 1
      /\ log'[Len(log) + 1] = ev
      /\ \A n \in DOMAIN log : log'[n] = log[n]
  BY <1>1
<1>3. Last(log') = ev
  BY <1>2 DEF Last
<1> QED BY <1>2, <1>3

(* An entry folded keeps the carrier exact: an intent replaces what its    *)
(* call had announced, a settlement removes it.                            *)
LEMMA HistoryGrows ==
  ASSUME HistoryInv, NEW ev \in Event, log' = Append(log, ev),
         Folded' = FoldStep(Folded, ev), Folded' # Unfoldable
  PROVE  IsFold(Folded') /\ DispatchExact'
PROOF
<1>1. IsFold(Folded) /\ ev.type \in EventTypes /\ TypeOK
  BY EventsAreKnown DEF HistoryInv, StoreInv
<1>2. IsFold(Folded')
  BY <1>1, FoldStaysFold
<1> PICK L \in Nat : L = Len(log) + 1
  BY <1>1, LastIs
<1>3. /\ DOMAIN log = 1 .. L - 1 /\ DOMAIN log' = 1 .. L /\ log'[L] = ev
      /\ \A n \in DOMAIN log : log'[n] = log[n] /\ n < L
  BY <1>1, LastIs
<1>4. DispatchExact'
  <2> SUFFICES ASSUME NEW c
               PROVE  Announced(c)' =
                        IF Unsettled(c)' = { } THEN { }
                        ELSE {[call |-> c, chain |-> log'[Latest(Unsettled(c)')].chain]}
    BY DEF DispatchExact
  <2>1. Announced(c) = IF Unsettled(c) = { } THEN { }
                       ELSE {[call |-> c, chain |-> log[Latest(Unsettled(c))].chain]}
    BY DEF HistoryInv, DispatchExact
  <2>2. Folded'.dispatch =
           IF ev.type = "actionIntent"
           THEN { d \in Folded.dispatch : d.call # ev.call }
                  \union { [call |-> ev.call, chain |-> ev.chain] }
           ELSE IF ev.type = "actionSettled"
           THEN { d \in Folded.dispatch : d.call # ev.call }
           ELSE Folded.dispatch
    BY <1>1, DispatchIs
  <2>3. /\ Unsettled(c) \in SUBSET (1 .. L - 1)
        /\ Intents(c) \subseteq DOMAIN log /\ Settlements(c) \subseteq DOMAIN log
    BY <1>3 DEF Unsettled, Intents, Settlements
  <2>4. CASE ev.type \notin {"actionIntent", "actionSettled"} \/ ev.call # c
    <3>1. Intents(c)' = Intents(c) /\ Settlements(c)' = Settlements(c)
      BY <1>3, <2>4 DEF Intents, Settlements
    <3>2. Unsettled(c)' = Unsettled(c)
      BY <3>1 DEF Unsettled
    <3>3. Announced(c)' = Announced(c)
      BY <2>2, <2>4 DEF Announced
    <3>4. Unsettled(c) # { } => Latest(Unsettled(c)) \in DOMAIN log
      <4> DEFINE S == Unsettled(c)
      <4>1. L - 1 \in Nat
        BY <1>1, LastIs
      <4> HIDE DEF S
      <4>2. S \in SUBSET (1 .. L - 1)
        BY <2>3 DEF S
      <4>3. S # { } => Latest(S) \in S
        BY <4>1, <4>2, LatestIs
      <4> QED BY <1>3, <4>2, <4>3 DEF S
    <3> QED BY <1>3, <2>1, <3>2, <3>3, <3>4
  <2>5. CASE ev.type = "actionIntent" /\ ev.call = c
    <3>1. Intents(c)' = Intents(c) \union {L} /\ Settlements(c)' = Settlements(c)
      BY <1>3, <2>5 DEF Intents, Settlements
    <3>2. Unsettled(c)' = Unsettled(c) \union {L}
      BY <1>3, <2>3, <3>1 DEF Unsettled
    <3>3. Latest(Unsettled(c)') = L
      <4> DEFINE S == Unsettled(c)'
      <4>1. S \in SUBSET (1 .. L) /\ L \in S
        BY <2>3, <3>2
      <4> HIDE DEF S
      <4>2. Latest(S) \in 1 .. L /\ L <= Latest(S)
        BY <4>1, LatestIs
      <4> QED BY <4>2 DEF S
    <3>4. Announced(c)' = {[call |-> c, chain |-> ev.chain]}
      BY <2>2, <2>5 DEF Announced
    <3> QED BY <1>3, <3>2, <3>3, <3>4
  <2>6. CASE ev.type = "actionSettled" /\ ev.call = c
    <3>1. Intents(c)' = Intents(c) /\ Settlements(c)' = Settlements(c) \union {L}
      BY <1>3, <2>6 DEF Intents, Settlements
    <3>2. \A n \in Intents(c) : ~(L < n)
      BY <1>3, <2>3
    <3>3. Unsettled(c)' = { }
      BY <3>1, <3>2 DEF Unsettled
    <3>4. Announced(c)' = { }
      BY <2>2, <2>6 DEF Announced
    <3> QED BY <3>3, <3>4
  <2> QED BY <2>4, <2>5, <2>6
<1> QED BY <1>2, <1>4

(* Every action is an entry folded, or unseen by readers.                  *)
LEMMA HistoryInductive ==
  ASSUME HistoryInv, [Next]_vars
  PROVE  HistoryInv'
PROOF
<1>1. StoreInv'
  BY StoreInvInductive DEF HistoryInv
<1>2. CASE log' = log /\ Folded' = Folded
  <2>1. \A c : Unsettled(c)' = Unsettled(c) /\ Announced(c)' = Announced(c)
    BY <1>2 DEF Announced, Unsettled, Intents, Settlements
  <2>2. DispatchExact'
    BY <1>2, <2>1 DEF HistoryInv, DispatchExact
  <2> QED BY <1>1, <1>2, <2>2 DEF HistoryInv
<1>3. ASSUME NEW ev \in Event, log' = Append(log, ev),
             Folded' = FoldStep(Folded, ev), Folded' # Unfoldable
      PROVE  HistoryInv'
  BY <1>1, <1>3, HistoryGrows DEF HistoryInv
<1> QED BY <1>2, <1>3, ReaderSees DEF HistoryInv

(* HistoryInv holds of every behaviour of the store.                       *)
THEOREM HistoryInvariant == Spec => []HistoryInv
PROOF
<1>1. Init => HistoryInv
  <2> SUFFICES ASSUME Init PROVE HistoryInv
    OBVIOUS
  <2>1. log = << >> /\ StoreInv /\ DOMAIN log = { }
    BY StoreInvInitially, EmptyIs DEF Init
  <2>2. Folded = Seed(MetaHash, MetaSession)
    BY <2>1 DEF Folded, FoldOfPrefix, MetaSeed
  <2>3. IsFold(Folded)
    BY <2>2, SeedIs
  <2>4. Folded.dispatch = { }
    BY <2>2 DEF Seed
  <2>5. \A c : Announced(c) = { } /\ Unsettled(c) = { }
    BY <2>1, <2>4 DEF Announced, Unsettled, Intents
  <2> QED BY <2>1, <2>3, <2>5 DEF HistoryInv, DispatchExact
<1>2. HistoryInv /\ [Next]_vars => HistoryInv'
  BY HistoryInductive
<1> QED BY <1>1, <1>2, PTL DEF Spec

(* A cache entry never misstates the prefix of the ledger it stands at,    *)
(* whether it was advanced by an append, kept over appends of other        *)
(* handles, or left over by a commit that failed (fold_cache).             *)
THEOREM CachesAreCoherent == Spec => []CacheCoherent
PROOF
<1>1. StoreInv => CacheCoherent
  BY DEF StoreInv
<1> QED BY <1>1, StoreInvariant, PTL

(* A verdict appended through any handle and any cache rewrites the spans  *)
(* and records of the instance its path names; the innermost open span, of *)
(* another step, is left alone (fold.rs, VerdictRecorded).                 *)
THEOREM VerdictsTouchOneInstance == Spec => VerdictTouchesOneInstance
PROOF
<1>1. ASSUME HistoryInv, [Next]_vars, Len(log') > Len(log),
             Last(log').type = "verdictRecorded"
      PROVE  /\ RewrittenAt(Last(log').path, Folded.inFlight, Folded'.inFlight)
             /\ RewrittenAt(Last(log').path, Folded.completed, Folded'.completed)
  <2>1. StoreInv /\ IsFold(Folded) /\ TypeOK
    BY <1>1 DEF HistoryInv, StoreInv
  <2>2. CASE log' = log
    BY <1>1, <2>1, <2>2 DEF TypeOK
  <2>3. ASSUME NEW ev \in Event, log' = Append(log, ev),
               Folded' = FoldStep(Folded, ev), Folded' # Unfoldable
        PROVE  /\ RewrittenAt(Last(log').path, Folded.inFlight, Folded'.inFlight)
               /\ RewrittenAt(Last(log').path, Folded.completed, Folded'.completed)
    <3>1. Last(log') = ev
      BY <2>1, <2>3, LastIs
    <3> QED BY <1>1, <2>1, <2>3, <3>1, VerdictRewrites DEF RewrittenAt
  <2> QED BY <1>1, <2>1, <2>2, <2>3, ReaderSees
<1> QED BY <1>1, HistoryInvariant, PTL DEF Spec, VerdictTouchesOneInstance

(* However many calls are in flight and in whatever order they settle, an  *)
(* attempt is recorded at the chain position of its own latest intent      *)
(* (fold.rs, ActionIntent and ActionSettled).                              *)
THEOREM AttemptsFollowTheirIntents == Spec => AttemptsNameTheirIntents
PROOF
<1> DEFINE call == Last(log').call
<1> DEFINE intents == { n \in DOMAIN log : log[n].type = "actionIntent"
                                           /\ log[n].call = call }
<1> DEFINE settled == { n \in DOMAIN log : log[n].type = "actionSettled"
                                           /\ log[n].call = call }
<1> DEFINE unsettled == { n \in intents : \A m \in settled : m < n }
<1> DEFINE Named == Len(log') > Len(log) /\ Last(log').type = "actionSettled"
                      => Last(Last(Folded'.inFlight).attempts).chain
                           = IF unsettled = { } THEN 0 ELSE log[Latest(unsettled)].chain
<1>1. HistoryInv /\ [Next]_vars => Named
  <2> SUFFICES ASSUME HistoryInv, [Next]_vars, Len(log') > Len(log),
                      Last(log').type = "actionSettled"
               PROVE  Last(Last(Folded'.inFlight).attempts).chain
                        = IF unsettled = { } THEN 0 ELSE log[Latest(unsettled)].chain
    OBVIOUS
  <2>1. StoreInv /\ IsFold(Folded) /\ TypeOK
    BY DEF HistoryInv, StoreInv
  <2>2. log' # log
    BY <2>1 DEF TypeOK
  <2>3. PICK ev \in Event : /\ log' = Append(log, ev)
                            /\ Folded' = FoldStep(Folded, ev)
                            /\ Folded' # Unfoldable
    BY <2>1, <2>2, ReaderSees
  <2>4. Last(log') = ev
    BY <2>1, <2>3, LastIs
  <2>5. unsettled = Unsettled(ev.call)
    BY <2>4 DEF Unsettled, Intents, Settlements
  <2> DEFINE mine == Announced(ev.call)
  <2> DEFINE one == [call |-> ev.call, chain |-> log[Latest(Unsettled(ev.call))].chain]
  <2>6. mine = IF Unsettled(ev.call) = { } THEN { } ELSE {one}
    BY DEF HistoryInv, DispatchExact
  <2>7. Last(Last(Folded'.inFlight).attempts).chain =
          IF mine = { } THEN 0 ELSE (CHOOSE d \in mine : TRUE).chain
    BY <2>1, <2>3, <2>4, AttemptIs DEF Announced
  <2>8. mine = {one} => (CHOOSE d \in mine : TRUE) = one
    <3> HIDE DEF mine, one
    <3> QED OBVIOUS
  <2>9. one.chain = log[Latest(Unsettled(ev.call))].chain
    OBVIOUS
  <2> HIDE DEF mine, one, unsettled
  <2> QED BY <2>5, <2>6, <2>7, <2>8, <2>9
<1> QED BY <1>1, HistoryInvariant, PTL DEF Spec, AttemptsNameTheirIntents
=============================================================================
