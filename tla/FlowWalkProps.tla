----------------------------- MODULE FlowWalkProps -----------------------------
(***************************************************************************)
(* What FlowWalk promises of a run that is edited and resumed, over the    *)
(* ledger, its fold, the walker's stack and what the device was asked.     *)
(***************************************************************************)
EXTENDS FlowWalk

Appended(type) == log' # log /\ Last(log').type = type
Entry == Last(log')

(* The flow walked is not the one the run was started with.                *)
Repaired == Running /\ proc.resumed /\ proc.stack[1].flow.hash # ck.irHash

FrameStack(p) ==
  SelectSeq(p.stack, LAMBDA a : a.kind \in {"flow", "call", "repair"})

(* The checkpoint a resume decided on, and what it may adopt from.         *)
Before(n) ==
  FoldLeft(FoldStep, Seed(ck.irHash, NoSession), SubSeq(log, 1, n))
Archive == RecordsByInstance(Before(proc.base))

(* What an interrupted segment leaves is orderly when its open spans nest  *)
(* and none has an older record: a re-execution that is cut short breaks   *)
(* both, and the next resume then goes by the older record.                *)
Orderly ==
  LET open == Before(proc.base).inFlight
      key(i) == Key(open[i].path)
  IN  \A i \in DOMAIN open : /\ key(i) \notin DOMAIN Archive
                             /\ \A j \in 1 .. i - 1 : Inside(key(j), key(i))

Ids(path) == { path[i].id : i \in { j \in DOMAIN path : path[j].k \in {"step", "call"} } }

(* Exits pair with entries: what an exit closes in the fold, which goes by *)
(* position, is the span of the step that exits, through every unwinding,  *)
(* teardown and re-entry; except above a span the walk left open: one an   *)
(* abort leaked, or one of a step the edit took out of the flow.           *)
ExitsPairWithEntries ==
  [][ Appended("stepExited") =>
        \/ proc.leaked \/ ~Orderly
        \/ \E k \in DOMAIN proc.spans : Inside(Key(Entry.path), k)
        \/ ck.inFlight # << >> /\ Key(Last(ck.inFlight).path) = Key(Entry.path) ]_vars

(* The frames of the checkpoint are those of the walk, callee by callee,   *)
(* and those an earlier segment left that the walk has yet to re-enter;    *)
(* only the root's hash is the one the run was started with.               *)
FramesFollowWalk ==
  /\ Running /\ proc.todo = << >> /\ proc.at # "ended"
  /\ proc.ctl \notin {"suspend", "blocked"} /\ ~proc.leaked
  /\ log # << >>
  => LET walk == FrameStack(proc)
     IN  /\ Len(ck.frames) = Len(walk) + Cardinality(DOMAIN proc.live)
         /\ \A i \in 2 .. Len(walk) : ck.frames[i].hash = walk[i].flow.hash

(* Gated effects are not repeated behind the operator's back: a mutating   *)
(* step whose record shows that the device may have obeyed is dispatched   *)
(* again by a resume only when that step, or something around it, was      *)
(* authorised by name.  Exempt is what lies inside a container that was    *)
(* itself still open without a record (for a call: with its frame already  *)
(* popped): the walk of the alignment stops there and protects nothing.    *)
Hole(path) ==
  \E i \in 2 .. Len(path) - 1 :
    Key(SubSeq(path, 1, i)) \notin
      DOMAIN Archive \union DOMAIN LivePins(Harvest(SubSeq(log, 1, proc.base)))
Repeats(path) ==
  LET k == Key(path)
  IN  k \in DOMAIN Archive /\ HasEffect(Archive[k]) /\ proc.cur.step.mutating
NoUnauthorisedReplay ==
  [][ Appended("actionIntent") /\ proc.resumed /\ Repeats(Entry.path) =>
        Ids(Entry.path) \intersect proc.authorized # { } \/ Hole(Entry.path) ]_vars

(* ... as align.rs promises it, branch and loop bodies included.           *)
NoRecordedEffectRepeats ==
  [][ Appended("actionIntent") /\ proc.resumed /\ Repeats(Entry.path) =>
        Ids(Entry.path) \intersect proc.authorized # { } ]_vars

(* Adoption is a prefix: once a repaired segment has acted, no archived    *)
(* result stands for a step any more, its premises may be gone.            *)
AdoptionIsAPrefix ==
  [][ AdoptStep /\ Repaired => ~proc.acted ]_vars

(* A run that finishes has left every call and closed every span but as    *)
(* many as the walk never came back to: after an edit, or an abort.         *)
FinishIsBalanced ==
  [][ Appended("runFinished") /\ ~proc.leaked /\ Orderly =>
        /\ Len(ck.frames) = 1
        /\ Len(ck.inFlight) = Cardinality(DOMAIN proc.spans)
        /\ proc.spans # << >> => Repaired \/ proc.ctl = "abort" ]_vars

(* The decision on record stands: the branch that is being walked, and the *)
(* number of rounds, are those the entry of the container announced, in    *)
(* whichever segment that was and whatever the condition says by now.      *)
Announced(host) ==
  LET open == { i \in DOMAIN ck.inFlight : Key(ck.inFlight[i].path) = Key(host.path) }
  IN  ck.inFlight[Max(open)].resolved.inputs
DecisionOnRecord ==
  Running /\ proc.todo = << >> /\ proc.at # "ended" /\ ~proc.leaked =>
    \A n \in { m \in DOMAIN proc.stack : proc.stack[m].kind \in {"if", "foreach"} } :
      LET x == proc.stack[n]
      IN  \/ IF x.kind = "foreach" THEN x.rounds = Announced(x.host)
             ELSE x.body = IF Announced(x.host) THEN x.host.step.then
                                                ELSE x.host.step.else
          \/ ~Orderly

(* The verdict a run finishes with is the worst of the last records of its *)
(* flow's own steps, adopted, re-judged and executed ones together; except *)
(* a record that had no verdict when an edit judged it: `adopt` replaces   *)
(* only a verdict that is there, so what the ledger says is not counted.   *)
InFlow(path) ==
  /\ ~ \E i \in 1 .. Len(path) - 1 : path[i].k \in {"call", "hook"}
  /\ Resolve(proc.stack[1].flow, path, TRUE) # NoStep
LateVerdict(k) ==
  LET spans == SelectSeq(log, LAMBDA e :
        Key(e.path) = k /\ e.type \in {"stepEntered", "verdictRecorded", "stepExited"})
  IN  \E n \in 3 .. Len(spans) : /\ spans[n].type = "verdictRecorded"
                                 /\ spans[n - 1].type = "stepExited"
                                 /\ spans[n - 2].type = "stepEntered"
LastRecords ==
  LET c == ck.completed
      keys == { Key(c[i].path) : i \in DOMAIN c }
  IN  { c[Max({ i \in DOMAIN c : Key(c[i].path) = k })] : k \in keys }
FinishMatchesRecords ==
  [][ Appended("runFinished") /\ proc.ctl # "abort" /\ Orderly
      /\ proc.spans = << >> =>
        Entry.verdict = FlowVerdict(SetToSeq(
            { r.verdict : r \in { x \in LastRecords :
                 InFlow(x.path) /\ ~LateVerdict(Key(x.path)) } } \ {NoVerdict})) ]_vars
=============================================================================
