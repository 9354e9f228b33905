------------------------------ MODULE RunStore ------------------------------
(***************************************************************************)
(* The append path of the single-writer SQLite store                       *)
(* (crates/pointlock-store/src/store.rs): one run's ledger, the checkpoint *)
(* row and run status materialized in the transaction of every append, and *)
(* the per-handle cache that lets an append fold one entry instead of the  *)
(* whole ledger.                                                           *)
(*                                                                         *)
(* A handle is a `Store` value of some process.  Every append is one       *)
(* IMMEDIATE transaction, so appends of different handles never overlap;   *)
(* a transaction may fail to commit after the cache was already advanced,  *)
(* and a process may die at any moment.                                    *)
(*                                                                         *)
(* Other runs of the same store touch other rows and other cache keys, so  *)
(* one run is modelled.  `refold` is a history variable: refold[n] is what *)
(* folding the first n rows from scratch yields.  The fold being a pure    *)
(* function of the rows, it is also what a full refold reads off them.     *)
(***************************************************************************)
EXTENDS CheckpointFold

CONSTANTS
  Handle,          \* Store values of the processes that ever open the store
  Event,           \* ledger entries a writer may try to append
  MetaHash,        \* irHash of the run row
  MetaSession,     \* session of the run row's binding
  NoCheckpoint,    \* no checkpoint row yet
  NoCache,         \* the handle caches nothing for the run
  MaxLog           \* bound: rows of the ledger

ASSUME LedgerBound == MaxLog \in Nat
ASSUME EventsAreKnown == \A ev \in Event : ev.type \in EventTypes

VARIABLES
  runRow,      \* does the `run` row exist?
  log,         \* the run_log rows, in seq order; seq = position
  checkpoint,  \* the checkpoint row: [seq, view]
  runStatus,   \* run.status
  open,        \* the handles held by live processes
  cache,       \* cache[h]: fold_cache entry of the run: [seq, state]
  refold       \* history: refold[n] is the fold of log[1..n]

rows == << runRow, log, checkpoint, runStatus, refold >>
vars == << runRow, log, checkpoint, runStatus, refold, open, cache >>

MetaSeed == Seed(MetaHash, MetaSession)

FoldOfPrefix(n) == IF n = 0 THEN MetaSeed ELSE refold[n]

Init ==
  /\ runRow = FALSE
  /\ log = << >>
  /\ checkpoint = NoCheckpoint
  /\ runStatus = "running"
  /\ open = { }
  /\ cache = [h \in Handle |-> NoCache]
  /\ refold = << >>

-----------------------------------------------------------------------------
(* A failed commit leaves the cache of its handle at a row that is not     *)
(* there.                                                                  *)
Ahead(h) == cache[h] # NoCache /\ cache[h].seq > Len(log)

(* Store::open: a fresh handle has an empty cache.  Handles of several     *)
(* processes coexist (a runner and an answering terminal), except beside   *)
(* one left ahead by a failed commit: there, "exactly one Store instance   *)
(* must perform writes for a given store directory" is relied upon.        *)
OpenStore(h) ==
  /\ h \notin open
  /\ \A g \in open : ~Ahead(g)
  /\ open' = open \union {h}
  /\ cache' = [cache EXCEPT ![h] = NoCache]
  /\ UNCHANGED rows

(* The process ends, or dies; an open transaction is rolled back.          *)
DropStore(h) ==
  /\ h \in open
  /\ open' = open \ {h}
  /\ cache' = [cache EXCEPT ![h] = NoCache]
  /\ UNCHANGED rows

BeginRun(h) ==
  /\ h \in open
  /\ ~runRow
  /\ runRow' = TRUE
  /\ runStatus' = "running"
  /\ UNCHANGED << log, checkpoint, refold, open, cache >>

(* Mutant of CacheHit: the continuity of seq is not tested.                *)
CacheHitAny(h) == cache[h] # NoCache

(* The cache is used only when it stands at the row below the new one.     *)
CacheHit(h) == cache[h] # NoCache /\ cache[h].seq + 1 = Len(log) + 1

FoldBase(h) == IF CacheHit(h) THEN cache[h].state ELSE FoldOfPrefix(Len(log))

(* What the transaction leaves behind once it commits.                     *)
Materialize(state) ==
  /\ checkpoint' = [seq |-> Len(log) + 1, view |-> FinishView(state)]
  /\ runStatus' = state.status

AppendEvent(h, ev) ==
  LET state == FoldStep(FoldBase(h), ev)
  IN  /\ h \in open
      /\ runRow
      /\ Len(log) < MaxLog
      /\ state # Unfoldable
      /\ log' = Append(log, ev)
      /\ refold' = Append(refold, FoldStep(FoldOfPrefix(Len(log)), ev))
      /\ cache' = [cache EXCEPT ![h] = [seq |-> Len(log) + 1, state |-> state]]
      /\ Materialize(state)
      /\ UNCHANGED << runRow, open >>

(* The fold refuses the entry: the transaction is rolled back.  The        *)
(* incremental path also drops its half-mutated cache entry.               *)
AppendRefused(h, ev) ==
  /\ h \in open
  /\ runRow
  /\ FoldStep(FoldBase(h), ev) = Unfoldable
  /\ cache' = IF CacheHit(h) THEN [cache EXCEPT ![h] = NoCache] ELSE cache
  /\ UNCHANGED << rows, open >>

(* The fold succeeds, then a statement after it or the commit fails: no    *)
(* row changes but the cache already stands at the row that is not there.  *)
(* The single writer is alone when that happens.                           *)
AppendNotCommitted(h, ev) ==
  LET state == FoldStep(FoldBase(h), ev)
  IN  /\ open = {h}
      /\ runRow
      /\ state # Unfoldable
      /\ cache' = [cache EXCEPT ![h] = [seq |-> Len(log) + 1, state |-> state]]
      /\ UNCHANGED << rows, open >>

Next ==
  \E h \in Handle :
    \/ OpenStore(h)
    \/ DropStore(h)
    \/ BeginRun(h)
    \/ \E ev \in Event :
         \/ AppendEvent(h, ev)
         \/ AppendRefused(h, ev)
         \/ AppendNotCommitted(h, ev)

Spec == Init /\ [][Next]_vars

-----------------------------------------------------------------------------
(* I1, the check verify_checkpoint makes: the checkpoint row stands at the *)
(* head of the ledger and is what refolding the whole ledger yields, run   *)
(* status included, whichever handles appended it and however their caches *)
(* were warmed, lost or left behind by a failed commit.                    *)
CheckpointIsRefold ==
  IF log = << >>
  THEN checkpoint = NoCheckpoint /\ runStatus = "running"
  ELSE /\ refold[Len(log)] # Unfoldable
       /\ checkpoint = [ seq  |-> Len(log),
                         view |-> FinishView(refold[Len(log)]) ]
       /\ runStatus = refold[Len(log)].status

(* A cache entry that stands at a committed row holds the fold of the      *)
(* ledger up to that row.                                                  *)
CacheCoherent ==
  \A h \in Handle :
    cache[h] # NoCache /\ cache[h].seq <= Len(log)
      => cache[h].state = FoldOfPrefix(cache[h].seq)

Folded == FoldOfPrefix(Len(log))

(* The records of the instance at path are rewritten in place; no other    *)
(* record changes, comes or goes.                                          *)
RewrittenAt(path, before, after) ==
  /\ DOMAIN after = DOMAIN before
  /\ \A i \in DOMAIN before :
       after[i] # before[i] => SameInstance(before[i].path, path)

(* A verdict re-projects the step instance its path names and no other:    *)
(* not the step that happens to be in flight (a span a crash left open),   *)
(* and not a record of another site.                                       *)
VerdictTouchesOneInstance ==
  [][ Len(log') > Len(log) /\ Last(log').type = "verdictRecorded"
        => LET p == Last(log').path
           IN  /\ RewrittenAt(p, Folded.inFlight, Folded'.inFlight)
               /\ RewrittenAt(p, Folded.completed, Folded'.completed) ]_vars

(* Every attempt of a record stands at the chain position announced by the *)
(* latest intent of its call that precedes its settlement, however many    *)
(* intents were in flight and in whatever order they settled.              *)
AttemptsNameTheirIntents ==
  [][ Len(log') > Len(log) /\ Last(log').type = "actionSettled"
        => LET call    == Last(log').call
               intents == { n \in DOMAIN log : log[n].type = "actionIntent"
                                               /\ log[n].call = call }
               settled == { n \in DOMAIN log : log[n].type = "actionSettled"
                                               /\ log[n].call = call }
               unsettled == { n \in intents : \A m \in settled : m < n }
               attempt == Last(Last(Folded'.inFlight).attempts)
           IN  attempt.chain = IF unsettled = { } THEN 0
                               ELSE log[Latest(unsettled)].chain
    ]_vars

(* The caching append path promises its readers no less than a store that  *)
(* folds every accepted entry in one step: opening and dropping handles,   *)
(* refusals and failed commits are not seen at all, whichever cache an     *)
(* append was served from.                                                 *)
Ledger == INSTANCE RunLedger WITH
            Entry <- Event, Step <- FoldStep, View <- FinishView,
            Seed0 <- MetaSeed, Refused <- Unfoldable, Nothing <- NoCheckpoint,
            begun <- runRow, entries <- log, folded <- Folded,
            shown <- checkpoint, status <- runStatus
ImplementsLedger == Ledger!Spec
=============================================================================
