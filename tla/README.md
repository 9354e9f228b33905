# Pointlock, specified

TLA+ models of Pointlock: the ledger and the store that keeps it, the engine that
walks a flow against a device, the resume of a run after a crash or an edit of its
flow, the durable wait for a human, the compiler and linker that make a flow, and the
provider session that executes it. TLC checks them on small instances; TLAPS proves
the central invariants of the store, the engine, the human wait, the linker and the
provider session for every instance.

Paths below are relative to the repository; `runner/` stands for
`crates/pointlock-runner/src/`, `store/` for `crates/pointlock-store/src/`,
`compiler/` for `crates/pointlock-compiler/src/`, `devicerail/` for
`crates/pointlock-provider-devicerail/src/`.

## 1. The system

Pointlock runs UI test flows. A flow is authored in YAML, compiled to a sealed IR
whose canonical hash (`irHash`) names it, and executed step by step against a
device through a provider. Everything a run does is an entry of an append-only
ledger in SQLite; the checkpoint is a pure fold of that ledger, and whatever a
later process decides, it decides from the ledger alone.

### Inventory

| Part | State it keeps | Operations | Where it is hard | What makes it correct |
|---|---|---|---|---|
| Ledger fold, `store/fold.rs` | `FoldState`: call frames, frontier with the pending intent, in-flight spans, completed records, pending human request, session lineage | `seed`, `apply` (one arm per event), `finish` | events of nested spans in any order; identity of a step across recompilations | a refused entry refuses the append; a verdict, an attempt, an exit reach the record they are about |
| Store, `store/store.rs` | `run`, `run_log`, `checkpoint`, evidence rows; per handle `fold_cache` | `open`, `begin_run`, `append_event`, `write_action_intent`, `submit_human_response`, `put_evidence`, `verify_checkpoint` | a cache advanced inside a transaction that may fail; several handles on one file | checkpoint = fold of the ledger, always (I1) |
| Engine, `runner/engine.rs`, `judge.rs` | `Execution`: frames, seeded verdicts, retry counters, frontier work | walk, gate, intent, dispatch, settle, judge, consult, exit, suspend | a crash at every append; four nested loops (attempt, chain, handler retry, escalation) whose state must be found again | no double dispatch, no lost outcome, verdicts about what really happened, halting |
| Resume, `runner/runner.rs`, `align.rs` | harvested facts | harvest, reconcile the pending intent, align an edited flow | the device answers late, never, or has lost its log | replay only by declaration or by a human's ruling |
| Human requests, `engine.rs`, `store.rs`, `pointlock-human-cli` | the pending request on the ledger, the deadline | ask, re-await, collect, arbitrate, settle, time out | several terminals, a deadline, a runner that resumes meanwhile | first response wins, late ones lose, asked once |
| Alignment, `align.rs` | none; reads the fold and the harvest | flatten both walks, classify, re-judge, gate | an edit may move, change or drop any step; containers, calls and rounds are only walked as far as the records vouch for them | nothing the device did is silently done again; what is adopted is a prefix |
| Calls, containers, repair flows, `engine.rs` | call frames, foreach rounds, hook frames | push, pop, rebase, adopt, tear down | teardown on every way out, exits pair with entries by position | frames balanced, the decision on record is the one walked |
| Loading, `runner/load.rs` | the loaded flow and its registry | `load`, `resolve_step` | the compiler and the runner each have rules for the same shape | what compiles loads |
| Compiler, `normalize.rs`, `check.rs`, `bind.rs`, `seal.rs` | none | normalize, expand macros, check references and types, bind to a lockfile, seal | scopes of branches, loops and macros; what a step needs of the device | accepted references resolve; no capability is found missing at run time |
| Linker, `subflow.rs`, `lib.rs` | compile stack, cache, registry of flow ids | compile a callee, return its pin | cycles, depth, one id with two contents, cached callees | the closure is sound and its recursion ends |
| DeviceRail provider, `devicerail/` | session, cursor, dispatched ids | open with attestation, execute, reconcile, end | the world may change before the session opens; the daemon goes on after the runner dies; a log is read in pages | a session has what the flow needs; answers of `reconcile` are true |
| Evidence, `store.rs` | files and rows | put, link | file, row, entry written one after another | an entry names evidence that exists |
| Projections, `store/projection` | none | inspect, report, inbox | | pure functions of the ledger |
| Provider kit | traits, lockfile, conformance suite, fake | | | a lockfile's digest covers its content |
| IR, hashes, expressions | none at run time | parse, type, hash, evaluate | | determinism |
| CLI, `serve`, reports, vision, TypeScript packages | none of a run | | `serve` polls a revision | |

### How the parts interact

The runner owns one `Store` handle and calls it for every entry; the append folds
the entry, rewrites the checkpoint row and the run status in the same transaction,
and only then does the engine act on it (the write-ahead intent is durable before
`ProviderSession::execute` is called). A terminal answering a human request is
another process with another handle: it shares nothing with the runner but the
ledger. On resume the runner reads the fold and the ledger once, asks the provider
what became of the pending intent, and walks the body again, adopting what is
recorded; when the flow was edited it first aligns the new walk with the records.
Providers and verifiers are reached by awaited calls; no callback re-enters the engine.

Before any of that a compile takes a root file and a lockfile, links the files the root
calls or repairs with, and seals one flow per file; the runner loads the root with the
registry of those flows and opens a session whose attestation must equal the digest the
flows were bound against. From then on the compiler plays no part.

### What is hard, and where it is listed

`PROJECT.json` lists the hazards, each at its line. In short: the process may die
at any append; a device may finish a call nobody waits for any more; a human may
answer, be late, or never answer; budgets live partly in memory and partly on the
ledger; a resumed segment decides from what it read at its start; a flow may be
edited under a waiting run; a device may change between lock, compile and run; the
log that tells what became of a call grows while it is read.

## 2. The modules

| Module | Models | State and its counterpart |
|---|---|---|
| `CheckpointFold` | `fold.rs`: every arm of `apply` with its refusals, `seed`, `finish` | pure operators over a fold record; `Unfoldable` is `FoldError` |
| `RunStore` | the append path of `store.rs` | `log`, `checkpoint`, `runStatus`, `runRow`: the rows of one run; `open`: live handles; `cache[h]`: `fold_cache` of a handle; `refold`: history |
| `RunLedger` | what the store promises: entries accepted one at a time, checkpoint and status the fold of exactly those | `entries`, `folded`, `shown`, `status`; no handles, caches or transactions |
| `RunEngine` | `engine.rs` over one flow of action steps, same-IR resume of `runner.rs`, the arbitration as seen from it | `log`/`ck`: ledger and fold; `proc`: the process (`at` is its program point, `base` the length of the ledger it harvested); `dev`: the device side of each call; `late`: requests whose deadline passed; `budget` |
| `RunEngineProps` | what the engine promises | |
| `HumanArbitration` | one human step: `exec_human`, `submit_human_response`, `collect` | `run`: the runner segment; `term[t]`: a collecting terminal between its reads and its append; `clock` |
| `FlowIR` | steps, bodies, paths, the three hashes, resolution (`ir/hash.rs`, `load.rs`) | operators; a hash is the part of the step it covers |
| `Alignment` | `align.rs`: harvest, flatten, classify, re-judge, gate | operators over a fold and two flows |
| `FlowWalk` | the nested walk of `engine.rs` and both resumes of `runner.rs` | `proc.stack`: one activation per recursive call, `proc.todo`: entries still to be written, `proc.adopt`/`spans`/`live`: what the resume found; `versions`: the edits to come |
| `FlowWalkProps` | what the walk promises of an edited and resumed run | |
| `Normalize`, `Check`, `Bind`, `Seal`, and `NormalForm` between them | the compiler's phases of one document | operators; a document is a tree of maps, lists, scalars and texts with the references they contain |
| `Scopes` | how the engine evaluates references while it walks (`expr/scope.rs`, `engine.rs`) | `Walks(flow)`: every walk with what each reference found |
| `Linker` | `subflow.rs`, `lib.rs`: the recursion over files | `stack`, `cache`, `registry`, `compiled`, `result` |
| `Loader` | every refusal of `load.rs` | operators over sealed flows |
| `Lockfile` | lockfile, handshake, digest | operators; a digest is the content it covers |
| `Session` | `devicerail/` with the daemon behind it | `world`, `session`, `wire`, `events`, `cursor`, `issued`, `scan`, `answer` |
| `Capabilities` | from files to an open session: linker, binding, handshake and session composed, what check and the loader accept being given | the linker's and the session's variables, and `held`, what of a loaded flow the run asks for |
| `Provision` | the same with all phases of the compiler, the loader and the evaluator in their places | nothing more |
| `RunStoreProofs`, `HumanArbitrationProofs`, `RunEngineProofs` | theorems about the module they are named for | |
| `CapabilityProofs`, `DriftProofs` | theorems about `Linker` and `Session`, and about `Capabilities` | |
| `FoldLemmas` | what the proofs that open the fold rest on: sequences of anything, and each arm of `apply` | |
| `RunEngineLedger` | what `RunEngineProofs` rests on: the operators of `RunEngine`; what each action writes and where it leaves the process, and the invariant `Ledger` through each | |
| `RunEngineReentries` | the proofs of `ReentriesAreLicensed` and `JudgementStands`, on top of `RunEngineProofs` | |
| `MC...` | instances | |

`RunEngine`, `HumanArbitration` and (through `Alignment`) `FlowWalk` EXTEND
`CheckpointFold` and append through it, so the checkpoint they decide from is the one
`RunStore` shows the store to keep. That is the composition argument: `RunStore`
implements `RunLedger` (checked and proved), in which an entry and its fold are one
step, and the others take their write to be that step.

`RunEngine` and `FlowWalk` divide the engine: `RunEngine` has flat flows and everything
that can happen to one action step (chain, retries, gate, escalation, uncertain calls);
`FlowWalk` has nesting, edits, repair flows and preflight, with one attempt per step.

`Capabilities` and `Provision` chain components: the linker calls the phases for each
file, the loader decides on the sealed closure, and a session opens with what the loaded
flow pinned and needs. `Capabilities` has the actions and takes what check and the loader
decide as parameters; `Provision` defines both, over documents. The cut is where the
prover's reach ends: documents are trees that recursive operators walk, and nothing in
`Capabilities` depends on how. What the run then asks of its session is read off the flow by `Asks`, from
`engine.rs` and not from the compiler, so that compiler and engine are two accounts of
the same thing and `NoDriftOnceOpen` compares them. `SealedFlowsLoad` (compiler against
loader) and `SealedReadsResolve` (checker against evaluator) are built the same way.

Each action stands for a whole handler up to its next append or await: the
program points between which a crash may fall are the appends. In `RunEngine`
`proc.at` names the point, in `FlowWalk` the entries of a handler are written one by one
from `proc.todo`; `Crash` resets `proc` and nothing else.

Next to some definitions stands a mutated form of it ("Mutant of ..."): a plausible
slip in the code, used to see that a property notices it. They are not part of the
model.

### Abstractions

- Payload is dropped: outputs, observations, assertion outcomes, expressions,
  wording. Evidence is its deduplication key. A path is a sequence of frames, and
  whether two paths name the same step instance (blind to flow hashes) or are
  equal (hashes included) is kept apart, because the code does.
- A verdict is `pass`, `fail` or `unknown`. Degraded verdicts and the strict policy
  are left out.
- In `RunEngine`: no `observationRecorded` and `assertionEvaluated` entries (no
  resume fact is read from them), no preflight probes, no repair flows, no
  containers and calls, no backoff delays, no output projection and its errors. An
  argument error is modelled at the first chain position only. The issuing cursor
  of an intent is taken to be known: when it is not, the code joins the branch of
  an uncertain call, which is modelled. `reconcile` itself does not fail.
- In `HumanArbitration`: `judge` mode, no handlers, no response evidence.
- In `FlowWalk` and `FlowIR`: a step has the value its expression yields this time
  (`vals`), which may differ from segment to segment; `eff`, `jdg` and `pf` are what the
  effect, judge and preflight hashes cover. One bound attempt, no in-place retry, no
  supervision, no human step; a pending call the device cannot tell about is
  `RunEngine`'s. A re-judgement may come out any way.
- In the compiler modules: one refusal stands for every diagnostic, so the order of
  diagnostics and the recovery after one are dropped; a schema, selector or type is what
  the phases tell apart of it; the YAML parser is outside.
- In `Session`: what the daemon answers a call itself, observations, evidence and
  budgets. A refused opening changes nothing.
- One run. Other runs of a store touch other rows and other cache keys.

## 3. What is checked

Every run is complete (the whole state space of its instance). Deadlock checking is
off where the system may stop: a finished run, a flow that does not compile, sessions
used up. `store` is checked for deadlock.

| Run | Configuration | Shows |
|---|---|---|
| `store` | `MCRunStore.cfg` | I1 and the fold's aim, with two handles, deaths, refusals and lost commits |
| `engine_crash` | `MCRunEngineCrash.cfg` | dispatch safety under two disruptions |
| `engine_ladder` | `MCRunEngineLadder.cfg` | the handler ladder under one disruption |
| `engine_live` | `MCRunEngineLive.cfg` | the run finishes |
| `human` | `MCHumanArbitration.cfg` | arbitration of answers, deadlines, repairs |
| `repair` | `MCFlowWalk.cfg` | nested flows edited and resumed, crashes in between |
| `provision` | `MCProvision.cfg` | compiler, linker, loader and session against each other |
| `settled_then_crash`, `misnamed_frontier`, `halt_lost`, `overruled`, `unrecorded_container` | | known departures, section 5 |

**store.** Invariants: `CheckpointIsRefold` (I1, what `verify_checkpoint` compares),
`CacheCoherent`. `ImplementsLedger` is the refinement: under the mapping of `RunStore`
every step is a step of `RunLedger` or none. Action properties:
`VerdictTouchesOneInstance` (a verdict re-projects the instance its path names although
another span is in flight), `AttemptsNameTheirIntents` (an attempt keeps the chain position of its own
intent whatever the order of settlements). The runner is not modelled here: any of
the thirteen entries may be tried at any moment and the fold decides. Five rows
suffice to open two spans, put two intents in flight and settle the older one, and
to have a cache miss, a cache hit and a hit after a refusal behind each other.
Two handles are enough: what matters to a handle is whether somebody else appended.
A failed commit leaves the cache of its handle one row ahead of the ledger; the
store documents that "exactly one Store instance must perform writes", and the
guards of `OpenStore` and `AppendNotCommitted` use that just there: no other handle
is open beside one left ahead. Without it the other handle's row can fill the gap,
and the stale cache passes the continuity test.

**engine_crash.** A supervised mutating step, a read, and a step whose arguments do
not resolve; two disruptions. `NoBlindReplay` (I2: a mutating, non-idempotent act is
dispatched anew only when each earlier call is settled, provably never left, or was
ruled on by a human; spans left open by interrupted blocked pairs excepted, see F34),
`NoLostOutcome`, `SupervisedDispatch` (R13), `AttemptsAscend`,
`ConcludedNeverRedispatches` (no intent follows an exit that judged its step, with a
verdict or without one, nor one that aborted it, the latter outside spans left open by
interrupted blocked pairs, F35), `LedgerNeverRefuses`, `FinishedIsComplete` (every step
recorded and no span open; after an abort, no span open but those of interrupted blocked
pairs, F12). Two disruptions are what it takes for
a second uncertain call after a first one was adjudicated, and for a suspension
while a gate is open followed by a crash.

**engine_ladder.** A step with an onFail retry of two tries and an onUnknown
escalation, then a step with two chain positions whose errors the flow releases; one
disruption. `TriggersWithinBudget` and `ReentriesAreLicensed` relate re-dispatches
to what handler triggers on the ledger granted (a retry its attempts, an escalation one
for each segment that found it answered `done`, which is F9 counted); `JudgementStands`: a step
whose fail or unknown a human was asked to judge leaves with the judgement, in the same
segment or after any number of resumes, which have to find the question by its path and
trigger count, take the answer, and neither judge anew nor ask the handlers again. It speaks
of acts that were settled before they were judged (F37) and of rulings whose process lived
until the exit (F13); adoptions are among the answers of this run, so both occur in it. `OnlyDeathOvertakes` and
`OnlyDeathLosesHalt` say that suspensions, answers and resumes never make a step
leave with a verdict older than its last attempt, nor release the steps behind a
failed one: only a process that dies does (section 5). `FinishMatchesRecords`: the run
finishes with the worst verdict of its records, adopted ones included. `OnlyDeathOvertakes` is about steps with
assertions, outside the spans that interrupted blocked pairs left open (F34), `OnlyDeathLosesHalt`
leaves out the failed step without assertions that a later success overtook (F10).

**engine_live.** One supervised step, retried in place, whose fails go to a human who
judges and whose unknowns go to one who repairs: `ReentriesAreLicensed` where the grants
are answers, and `EventuallyFinished` under `FairSpec`. Weak fairness of: the runner's
own steps (its loop awaits nothing but device, store and provider); a dispatched
call reaching a terminal (the provider contract); `Resume` (an operator, or `serve`,
resumes a stopped run); a human answering or, for requests with a deadline, the
deadline passing. Crashes, stops, transport errors, `suspend` answers and resumes
with nothing to act on are not fair and cost `budget`: without a bound a run can be
suspended for ever, by right. An adjudication and a gate have no deadline in the
code, so their liveness rests on the human.

**human.** Two terminals, two irHashes, one crash, three segments, a clock of three
ticks with a deadline after one (before, at, after, and once more). `OneFinalAnswer`,
`AskedAndSettledOnce`, `JudgementHasAnAuthor`, `SettledMeansClosed` (where the step
leaves under the hash it asked under; see F6 in section 5).

**repair.** Ten histories of a flow and its edit; each starts a run and interrupts or
resumes it twice, under the old flow or the new one, with a step authorised by name or
not. They are: a payment whose judgement changes; two steps that change places; a
branch; a loop of two rounds whose body changes; a call whose callee changes and whose
arguments may fail the gate; a call whose arguments change; a call in each round of a
loop; a failed payment repaired by a flow that may itself be cancelled; a drifted step
repaired, and one aborted, then edited out. `NoUnauthorisedReplay` (an effect on
record is repeated only by name), `AdoptionIsAPrefix`, `DecisionOnRecord`,
`FramesFollowWalk`, `ExitsPairWithEntries`, `FinishIsBalanced` and
`FinishMatchesRecords`. Each history is there for one case of the walk or of the
alignment. Some properties exclude what
section 5 lists; the exclusions are named (`Orderly`, `Hole`, `proc.leaked`,
`LateVerdict`) and say what they stand for.

**provision.** Some six hundred documents: every kind of reference from every place of
a skeleton with a branch and a loop; lets; macros nested, recursive, looping, reading
their own steps; every handler on every kind of step; requests of every mode; 27 files
that link each other (chains up to the bound and one beyond, rings, diamonds, two files
with one id and the same or another text, callees that do not compile, repairs); and
forms of selectors and channels, each against lockfiles of four worlds, an edited one,
an outdated one and none. `ClosureIsSound`, `SealedFlowsLoad` (a sealed flow loads; the
refusals left are `KnownGap`, section 5), `SealedReadsResolve` (a reference `check.rs`
accepts resolves whenever the engine evaluates it, or on some walk where its step is in
a branch), `NoDriftOnceOpen` (after a session opened, no step, callee, repair or verdict
needs a feature or action it lacks, whatever happened to the world), and
`AnswersAreTruthful`. The depth bounds of linker and loader are 3 instead of 8, equal as
in the code; two calls, two sessions and pages of two events give a scan of several
pages, a foreign call and a log that grows under the scan.

**unrecorded_container.** `NoRecordedEffectRepeats` is `NoUnauthorisedReplay` without
the exclusion of `Hole`; see F14.

Bounds: `MaxLog` (rows), `Disruptions`, `MaxClock`, `Segments`, `Crashes`, `MaxSessions`;
`MaxMacroDepth`, `MaxLinkDepth` and `MaxCallDepth` are bounds of the code. No other
definition is bounded.

## 4. What is proved

Every invariant and action property of `RunStore` and `HumanArbitration` that a run
checks, all those of `RunEngine`, `Linker` and `Session`: for every value of the constants, from the assumptions named.

### The store

`RunStoreProofs`, for every set of handles and entries, every seed and every ledger
length:

- `CheckpointIsAlwaysRefold`: `Spec => []CheckpointIsRefold`;
- `CachesAreCoherent`: `Spec => []CacheCoherent`;
- `StoreImplementsLedger`: `Spec => ImplementsLedger`, the refinement of `RunLedger`;
- `VerdictsTouchOneInstance`: `Spec => VerdictTouchesOneInstance`;
- `AttemptsFollowTheirIntents`: `Spec => AttemptsNameTheirIntents`.

Assumptions: `LedgerBound` (`MaxLog` is a natural number) and, for the last two,
`EventsAreKnown` (an entry is of one of the seventeen types). In the first three the
fold stays opaque: caching it is exact, whatever it computes.

`CheckpointIsRefold` is not inductive: an append from a wrong cache would break it.
The inductive invariant `StoreInv` adds the shape of the state (`TypeOK`), `CacheCoherent` (a cache entry at a committed
row holds the fold up to that row) and, because a cache ahead of the ledger says
nothing, three facts that keep such a cache from ever being believed: it is at most
one row ahead (`CacheNotAhead`), its handle is then the only live one (`AheadAlone`),
and a dead handle's cache is gone (`ClosedForgets`). `FoldBaseExact` then says that
either way of getting at the folded prefix yields the same; `AppendKeeps` and
`NoRowKeeps` cover the steps that write a row and those that do not. The theorem also
shows why the code may leave its cache untouched on a failed commit: the next append
of the same handle finds the sequence discontinuous and refolds.

`StoreImplementsLedger` needs no new invariant: an append that commits folds from
`FoldBase`, which `FoldBaseExact` shows to be the fold of the ledger, so it is an `Accept`;
every other step leaves the rows alone.

For the two action properties the fold is opened. `HistoryInv` adds that the fold has
the fields it was seeded with and that its carrier of intents names exactly, for each
call, the position of the latest intent without a settlement after it
(`DispatchExact`): a second intent of a call replaces the first, a settlement removes
it, no other entry touches it. Without that the arm of `ActionSettled` could read the
position of another attempt.

### The human wait

`HumanArbitrationProofs`, for any number of terminals, answers, segments, crashes and
hashes:

- `FirstResponseWins`: `Spec => []OneFinalAnswer`;
- `WaitTypes`: `Spec => []TypeOK`, which says that the fold refuses no entry;
- `AskedOnceAndSettledOnce`: `Spec => []AskedAndSettledOnce`;
- `SettledIsClosed`: `Spec => []SettledMeansClosed`;
- `JudgementsHaveAuthors`: `Spec => []JudgementHasAnAuthor`.

Arbitration and append are two steps of a terminal, so `Arbitrable` alone does not
give the first. The inductive invariant `ArbitrationInv` says that whoever is waited for was
asked and has not answered (`PendingUnanswered`), that answers name requests that were
asked (`AnswersAsked`), so a new request has a number no answer bears, and that a fold
that has refused nothing has a pending field (`PendingKept`). Four lemmas give what an
entry does to that field; `AnswerClears` is the refusal of `HumanResponded`, on which
all of it rests. One lemma per kind of entry preserves the invariant.

The other four need the step around the wait: `WaitInv` adds that the one span is
opened before anybody is asked and closed into a record by the exit (`StepSpans`), and
what a segment knows (`SegmentKnows`): while it walks it has read every request there
is, when it asks there is none, when it rules there is one and nothing has left, and
what it is about to record was answered or has timed out (`Authored`). That a segment
decides from an old ledger does no harm because the only entries others append
meanwhile are answers. Assumption: `WaitShape`.

### The engine

`RunEngineLedger`, `RunEngineProofs` and `RunEngineReentries`, for every flow of action steps (any length,
chains, retry policies, handlers of steps and flow), every supervision policy, device,
judge and human, and any number of crashes, stops and resumes:

- `NeverRefuses`: `Spec => []LedgerNeverRefuses`;
- `NeverRedispatches`: `Spec => []ConcludedNeverRedispatches`;
- `FinishesComplete`: `Spec => []FinishedIsComplete`;
- `AttemptsRise`: `Spec => []AttemptsAscend`;
- `TriggersBounded`: `Spec => []TriggersWithinBudget`;
- `SupervisionHolds`: `Spec => []SupervisedDispatch`;
- `OutcomesAreKept`: `Spec => []NoLostOutcome`;
- `ReplaysAreLicensed`: `Spec => []NoBlindReplay` (I2);
- `HaltsAreKept`: `Spec => []OnlyDeathLosesHalt`;
- `VerdictsKeepUp`: `Spec => []OnlyDeathOvertakes`;
- `VerdictsAddUp`: `Spec => FinishMatchesRecords`;
- `ReentriesGranted`: `Spec => []ReentriesAreLicensed`;
- `JudgementsStand`: `Spec => []JudgementStands`;
- `Types`: `Spec => []TypeOK`;
- `LedgerHolds` and `FramedHolds`, the inductive invariants below.

Assumptions: `FlowShape` (a flow is a sequence of steps with distinct ids, as the
compiler seals them; chains are not empty), `Marks` (the marks for "none" are none
of the values they stand beside) and, for `ReentriesGranted`, `RetryCounts` (a retry has at
least one attempt: `compiler/normalize.rs:3448` refuses any other).

None of these is inductive. They rest on seven layers, each inductive on top of those
before it that it names or needs.

1. `Ledger`, the ledger and the process at it. `Answered`: requests are numbered as they
   are asked, each has at most one final answer, one it offers, and the pending one has
   none. `WalkedLedger`: open spans are steps of the body in its order; what is adopted is
   never open; before an open step everything is recorded, and everything is adopted
   unless the span was opened without arguments, for a blocked pair; a step with a
   settlement or a verdict is open or adopted. `WalkedProc`: what lies behind the process
   is adopted, the step it is at is not, and its span is on top. This is what makes
   every entry acceptable to the fold: an exit closes the top, a verdict finds its span,
   an answer its request. A halting process needs a clause of its own (`pairs`), because
   its spans are opened for steps nobody walks.
2. `Framed`, the calls. `CallsOwned`: each call was made by an intent of its step, later
   intents make later calls. `Pursued`: the pending intent is of the lowest step that is
   not concluded, and that step is open. `Fronted`: the frontier path names the step on
   top or, when that span was opened for a blocked pair, an earlier one (F34: the code
   relies on the first alternative). `Carried`: the work a resume takes up reaches the
   step it was found on, or a step that is concluded and takes none.
3. `Gates` for the supervision gate: asked once per step over all segments, since a
   segment past its start knows every request there is, and whatever worked was cleared.
   `Answerable` for the replays: no call is left behind (`Remembered`: it may be repeated,
   or it is the pending one, or a human answered for it and its step is concluded), and
   every point of a segment from which an intent can be written is reached with the
   pending call settled, never sent, or ruled on (`Licences`).
4. What a process that dies can lose, as history. For a halt: what is harvested of a
   step not yet reached is what the ledger says of it (`Unseen`), so a consultation is
   about the verdict in force and a process that goes on leaves a released step
   (`Standing`); `Halts` then says that since a halting exit only the halt was carried
   out, or a process died. For a verdict: `Awaited` says that a settlement no verdict
   has answered is in the hands of a round (`InRound`), or its intent is pending
   (`PendsAt`), or its process is down without having suspended, or has died since, or its
   step is closed. `Carrying` (a walk past a pending intent carries the work on it to
   its step) leads from the second to the first after a suspension, and `Working` (while
   a process runs no suspension is the last word) tells a suspension from a death.
5. The verdict of the run. `Attested` says that records and open spans carry the last
   verdict the ledger has of their step; `Heard` that the verdicts a segment has folded
   are, as a set, those of the steps behind it, whichever way each got there: judged,
   adopted, or taken up again at its ruling. What seeds that fold when a segment starts
   (`Seeding`, `Based`) is where the failed round of a step without assertions can be
   missed, and such a round is `Unheard` (F36). The fold over a sequence is reduced to
   the set of its members, of which it is the worst.
6. Which grant each re-entry spends. The bound is a count, and a count is not kept by a
   step that re-enters unless something was left to spend. `Granting` says that for each
   step there is a set of spent grants, at least as many as the re-entries on the ledger
   and the one the process is about to make (`Covers`), which leaves unspent the retries
   in force (`Reserve`) and, of what this segment may get from answers, everything but
   the answers the process has consumed (`Kept`). A crash forgets both: the retries in
   force are lost, which only makes the bound looser, and the consumed answers count
   again, but to the next segment, which has a grant of its own. That a re-entry happens
   at no other place needs that a settled and judged step passes its gate only out of a
   consultation (`Ungated`), that a pending intent is unsettled (`Unsettled`), and that
   a request of an escalation was made by its trigger (`Calling`).
7. Which question a consultation is about. `Heeding` says of every question a human was
   asked about a step and that nothing disturbed since: it stands (`Stands`: the step is
   open, settled and ruled on, the binding in force for its verdict still escalates, the
   trigger count still spells the path of this very request and no later request has it,
   and every verdict recorded since is an answer to it or the lapse of its deadline), and
   the process heeds it (`Heeds`: on its way to the step it has not used the answer; at the
   step it consults about the verdict in force, or supersedes it with what was answered, or
   leaves after it did). That a consultation is about a negative, the one in force, and
   asks by an escalation is `Consulted`; that arguments which cannot be resolved never lead
   to an act, so a settled step is entered again at its ruling, is `Resolving`; that a request whose
   deadline passed has no answer, so the two ways of ruling exclude each other, is `Lapsed`.
   A step that writes an entry is then either one that disturbs the question or one that
   leaves `Stands` alone (`StandsStays`), and every move of the process keeps `Heeds`
   (`HeedsKept`): the resumed one enters the step at its ruling, not at its gate.

The step from an action to an entry is made once: `StepWrites` and `ProcMoves` say what
each action appends and where it leaves the process, so the invariants are proved per
kind of entry and per kind of move rather than per action.
`ConcludedNeverRedispatches` then follows from `WalkedProc` (an intent is written for a step
that is not adopted) once exits are known to conclude (`Concluded`); `AttemptsAscend` from
the counter a segment harvests being the number of attempts on record (`Numbered`).
`NoLostOutcome` and `NoBlindReplay` state the exception of F34 themselves.

### Linker and session

`CapabilityProofs`, for every set of files, every graph of links with cycles, every bound, and
whatever the other phases accept and need:

- `ClosureIsAlwaysSound`: `LinkSpec => []ClosureIsSound`;
- `ChainsAreBounded`: `LinkSpec => []ChainInv`: the files being compiled are different
  ones and at most `MaxLinkDepth + 1`.

`ClosureIsSound` speaks of what is compiled; the invariant `ClosureInv` adds that whatever
a link has returned on the stack, and whatever the cache holds, is the pin of something
compiled (`PinsReturned`, `CachePins`), and that the registry holds exactly the content of
each flow id (`Registered`), which is what the conflict check establishes and a cached
link may rely on. Assumptions: `SitesAreFiles`, `DepthIsNatural`.

For any calls, worlds, sessions and page size, the session opened with any
lockfile:

- `ReconcileIsTruthful`: `SessionSpec => AnswersAreTruthful`.

The answer is given about a log that has been read in pages while it grew. `SessionInv`
says that everything logged or on the wire of a call lies in the session it was issued
in and after its cursor (`WireIsIssued`, `LogFollowsCursor`), so neither the part below
the floor nor another session's log can hold it, and that the scan knows its log exactly
up to where it has read (`ScanIsExact`). The refusal of foreign calls (`Foreign`) is where
the session of a call and the log that is scanned are tied together. Assumptions:
`PagesHoldEvents`, `SessionsAreBounded`.

`DriftProofs`, for `Capabilities`: every set of files and documents, every lockfile and
world, whatever check and the loader accept:

- `TogetherTheyKeep`: `Spec => []ClosureIsSound /\ AnswersAreTruthful`, the two above in
  their places;
- `NothingDriftsOnceOpen`: `Spec => []NoDriftOnceOpen`.

The second is an argument through four components, and each has its part of the
invariant:

1. *Binding* counts per step what the engine asks per step (`StepIsBound`,
   `AsksAreBound`): every attempt of a verb's chain, every snapshot an assertion reads, the
   record of the verdict; and each action is one the lockfile has.
2. *Linking* (`CoverInv`): what was compiled is needed by some pin still on the stack, or
   a link has failed, which leaves a `NoPin` on the stack that no caller returns from
   successfully. So the needs of a root that was sealed cover its whole closure, the
   callees reached through the cache and the repairs included.
3. *Loading* (`HeldInv`): only digest and needs are kept; they suffice for what is asked
   (`Sufficient`).
4. *Opening* (`FitInv`): the handshake enables what is required, and the lockfile attested
   by then has the digest the flow was sealed with. A digest covers the actions, so they
   are the ones binding saw, whatever the world has become since.

Assumptions: those above, `RootsAreFiles`, and `NoDigestIsNone`: a flow sealed without a
lockfile opens no session. The linker has the phases as parameters; `PhasesAsGiven`, the
hypothesis of the theorem, says that they are the ones `Capabilities` defines, which is
what `MCProvision.cfg` gives them (`Needs <- PhasesNeed`, `Accepts <- PhasesAccept`).

### Not proved

- Of `FlowWalk`: everything; of `Provision`: `SealedFlowsLoad` and `SealedReadsResolve`.
  Their modules recurse over flows and documents with RECURSIVE operators, which the
  prover does not handle, and what they say of every document needs induction over its
  tree. No module reachable from a theorem declares one; `AllSteps`, which `Capabilities`
  needs, is written with recursive functions, and nothing is proved of what it computes.
- Liveness and ENABLED, and what a fold over a ledger computes for every ledger (induction
  over data): out of the prover's reach, left to TLC.

## 5. Where the code departs from what it says

Met while modelling and reproduced by the models. Those with a run have its
counterexample as their scenario.

| | What happens | Run |
|---|---|---|
| F1 | Crash between `actionSettled` and `verdictRecorded` (`engine.rs:1622`): the resume finds neither frontier work nor a ruling and dispatches the settled mutating act again | `settled_then_crash` |
| F2 | Crash after a retry round settled, before it was judged (`align.rs:643`): the step leaves with the verdict of the earlier round | - |
| F3 | Crash between the exit of a failed step and the blocked pairs (`engine.rs:1126`): adoption answers Continue, the steps behind the failed one run | `halt_lost` |
| F4 | An answer accepted in time after the resumed segment read the ledger (`runner.rs:277`, `engine.rs:2616`): settled as a timeout over it | `overruled` |
| F5 | `collect_interactive` stamps the receipt time before prompting (`commands.rs:281`): an answer typed after the deadline is accepted, against "the store-receipt clock is the only timeout judge" (`store.rs:458`) | - |
| F6 | The settlement of a request compares paths hash included (`fold.rs:555`): a step asked under one irHash and timed out under another leaves its request pending | - |
| F7 | The timeout of an escalate human never settles its request, whose path no exit carries (`engine.rs:3203`): a finished run with a pending request | - |
| F8 | A resumed ruling has no error class (`engine.rs:1775`): an onError escalation is looked up under onFail, its answer never read | - |
| F9 | A `done` answer is consumed in memory only (`engine.rs:3183`): after a crash it re-enters the act again without a trigger | - |
| F10 | A step without assertions that fails and is then retried with success (`engine.rs:1865`): nothing supersedes the recorded fail | - |
| F11 | The unconfirmed path folds no assertions to a pass (`engine.rs:1937`): an adjudicated adopt of an unasserted step passes | - |
| F12 | A crash in the middle of the blocked pairs followed by an abort in the resumed body: the run finishes with a span open | - |
| F13 | A crash after the verdict of an escalated human and before the exit (`engine.rs:2160`): the ladder is consulted about the human's own ruling and may re-enter the act | - |
| F14 | The alignment does not descend into a container without a record (`align.rs:242`): a crash inside a branch or loop leaves recorded effects inside it ungated, and an edit of the container repeats them unasked | `unrecorded_container` |
| F15 | A settlement with no record, span open, is a new step to the alignment: not gated under an edit (same cause as F14) | - |
| F16 | The `frontierUnknown` refusal of `reconcile_frontier` (`runner.rs:1303`) does not consult `allow_mutating_reexec`: authorising the step does not help | - |
| F17 | The fold's `RunResumed` never updates the flow hash of the checkpoint (`fold.rs:746`) | - |
| F18 | `enter_step` on a span that is open keeps the hashes and inputs archived under the old flow (`engine.rs:1312`) | - |
| F19 | A drift handler `abort` leaves its span and hook frame open (`engine.rs:1490`); exits above it close the wrong span, by position | - |
| F20 | A re-execution cut short by a crash is forgotten: the next edited resume adopts the older record | - |
| F21 | `adopt` with a new verdict changes only a verdict that is there (`align.rs:1530`): a record without one stays without, against "carries its NEW verdict on the adopted record" (`align.rs:740`) | - |
| F22 | An authorised step whose span was open at the crash is re-entered at the ruling of its old facts (`engine.rs:1622`) | - |
| F23 | Archived call inputs that failed the inbound gate are reused as gated on resume | - |
| F24 | A step open at a crash and dropped by the edit leaves its span in flight for ever | - |
| F25 | Linker and loader both say 8 call edges; the linker lets a chain of 8 edges pass (`subflow.rs:155`), the loader 7 (`load.rs:169`); a cached callee is not measured at all | - |
| F26 | The compiler accepts retry and repair on call and human steps, confirmations without two decisions, judge requests with foreign decisions, escalations that ask for input; the loader refuses them, and says "the compiler check phase refuses these first" (`load.rs:270`) | - |
| F27 | A driver action with the name of a synthetic one is said to make bind refuse as ambiguous (`manifest.rs:455`); bind takes the driver's (`bind.rs:287`) | - |
| F28 | The cached link is said to "still pass the closure-global conflict check" (`subflow.rs:148`) and is returned without one; the root's flow id is in no registry | - |
| F29 | Later bindings of a `let` may, says `check.rs`, read earlier ones; `exec_let` evaluates all in the scope before (`engine.rs:3936`), where they are missing | - |
| F30 | A `let` inside a `foreach` compiles and fails in its second round ("rebinds", `engine.rs:3943`) | - |
| F31 | Arguments of a macro use that read other steps escape the scan for cross-step references; `expect_schema` on a macro use is dropped without a word | - |
| F32 | References to outputs and verdicts of steps of kinds that never have one compile and never resolve | - |
| F33 | In a loop, a reference to a step of a branch not taken this round reads the value of an earlier round | - |
| F34 | The step of a pending intent is taken from the frontier path (`runner.rs:547`), which a step does not move when it runs in a span that interrupted blocked pairs left open: after a crash among the pairs and a resume that lost the halt, the reconcile work of an uncertain call goes to an earlier step, and the call is made again without a ruling | `misnamed_frontier` |
| F35 | A step that runs in such a span and is then aborted by a human leaves a record that is no history (`engine.rs:683`, its arguments are null): the next resume runs it again | - |
| F36 | A step without assertions fails, the fail is recorded, the process dies in its retry round and the resume finds that call completed (`engine.rs:1866`, `engine.rs:1995`): the run finishes with a pass and the record of the step says fail | - |
| F37 | An adjudicated `adopt` leaves the intent pending (`engine.rs:1705`, `fold.rs:427`); a human asked about the adopted effect rules on it, and the next resume takes up the pending work before it looks for a ruling (`engine.rs:1582`): the step is judged anew, over the human's ruling | - |

F14 to F24 are about `repair`, F25 to F33 about `provision`. Crash or suspension inside a
repair flow makes a run unresumable by design (the resume refuses live hook frames), and
in today's runner every resume opens a new session, so every call a dead runner left is
foreign to it and `logUnavailable`.

The properties of the passing runs are stated where these do not apply, and say so:
`OnlyDeathOvertakes`, `OnlyDeathLosesHalt`, `SettledMeansClosed`, `JudgementStands` (F8, F13, F37),
`Grants` (F9), `InBlockedSpan` (F12, F34, F35), `Unheard` (F36), the
choice of bindings in `Ladder`; `Orderly`, `Hole` and `LateVerdict` in `FlowWalkProps` (F14, F18 to F22, F24); `KnownGap`, `NeverProduced` and the
second disjunct of `ReadsResolve` in `Provision` (F25, F26, F30, F32, F33).

## 6. What is not modelled, and the plan

Left to do, in this order:

1. The supervision gate, human steps and the handler ladder inside containers and calls:
   `RunEngine`'s action step under `FlowWalk`'s stack. Either alone fills its run; the
   composition needs a smaller ladder.
2. Evidence: `put_evidence`, `link_evidence` and crashes between file, row and entry.
3. Expression evaluation and verdict folding against reference definitions; projections
   as functions of the ledger.
4. Proofs about `FlowWalk`, once its operators recurse as functions:
   `ExitsPairWithEntries` and `FramesFollowWalk` first.

Not planned: canonical JSON and hashing (a hash is its content here), the YAML parser,
wire conversion of the provider, the conformance suite and the fake provider, CLI
rendering, `serve` (it polls a revision and starts the resumes modelled here), the
vision client and the TypeScript packages: sequential or pure I/O, without state of a
run.
