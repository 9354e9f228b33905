----------------------------- MODULE MCRunStore -----------------------------
(***************************************************************************)
(* A small instance of RunStore: a root flow with an action step `a` and a *)
(* call step `c`.  The entries are the ones a runner may try to append, in *)
(* any order; the fold decides which it keeps.                             *)
(***************************************************************************)
EXTENDS RunStore

CONSTANTS h1, h2, flowRoot, flowCallee, hashOld, hashNew, none, unfoldable,
          session1, session2, stepA, stepC, call1, call2, shot

CallFrame(hash) == [k |-> "call", id |-> << stepC, flowCallee >>, h |-> hash]
StepFrame(step) == [k |-> "step", id |-> step, h |-> none]
Root(hash) == << [k |-> "flow", id |-> flowRoot, h |-> hash] >>
PathA(hash) == Append(Root(hash), StepFrame(stepA))
PathC == Append(Root(hashOld), CallFrame(hashOld))

Started == [type |-> "runStarted", path |-> Root(hashOld), hash |-> hashOld]
Enter(path) == [type |-> "stepEntered", path |-> path, asVar |-> none,
                resolved |-> TRUE]
Intent(path, call, chain) ==
  [type |-> "actionIntent", path |-> path, call |-> call, chain |-> chain]
Settled(path, call) ==
  [type |-> "actionSettled", path |-> path, call |-> call, outcome |-> "succeeded"]
Verdict(path, v) ==
  [type |-> "verdictRecorded", path |-> path, verdict |-> v, evidence |-> << shot >>]
Exit(path, state) ==
  [type |-> "stepExited", path |-> path, state |-> state, output |-> none,
   evidence |-> << shot >>]
Pushed(rebase, hash) ==
  [type |-> "callFramePushed", path |-> PathC, rebase |-> rebase,
   flow |-> flowCallee, hash |-> hash]
Popped == [type |-> "callFramePopped", path |-> PathC, output |-> none]
Resumed == [type |-> "runResumed", path |-> Root(hashNew), session |-> session2]
Finished == [type |-> "runFinished", path |-> Root(hashOld)]

(* A step judged in place and re-judged after its exit, under the hashes   *)
(* of two compilations, next to a second step's span; call frames, a       *)
(* resume, an end.                                                         *)
Events ==
  { Started, Enter(PathA(hashOld)), Enter(PathC), Exit(PathA(hashOld), "judged"),
    Verdict(PathA(hashOld), "pass"), Verdict(PathA(hashNew), "fail"),
    Intent(PathA(hashOld), call1, 0), Intent(PathA(hashOld), call2, 1),
    Settled(PathA(hashOld), call1),
    Pushed(FALSE, hashOld), Popped,
    Resumed, Finished }

(* Handles are interchangeable.                                            *)
HandleSymmetry == Permutations({h1, h2})
=============================================================================
