---------------------------- MODULE MCRunEngine ----------------------------
(***************************************************************************)
(* Small flows for RunEngine: one to three action steps, each built around *)
(* one question (crashes, the handler ladder, escalations, a lost halt).   *)
(***************************************************************************)
EXTENDS RunEngineProps

CONSTANTS s1, s2, s3

Step(id, mutating, asserts, handlers) ==
  [ id |-> id, mutating |-> mutating, idempotent |-> FALSE, asserts |-> asserts,
    badArgs |-> FALSE, chain |-> 1, retryMax |-> 0, retryOn |-> { },
    handlers |-> handlers ]

Binding(hook, action, triggers, tries, mode) ==
  [ hook |-> hook, classes |-> Outcomes, action |-> action,
    triggers |-> triggers, tries |-> tries, mode |-> mode ]

(* A payment and a read: the first may not be repeated, the second may;    *)
(* the arguments of a third step cannot be resolved.                       *)
PayThenRead ==
  << Step(s1, TRUE, TRUE, << >>), Step(s2, FALSE, FALSE, << >>),
     [Step(s3, TRUE, TRUE, << >>) EXCEPT !.badArgs = TRUE] >>

(* One step alone.                                                         *)
PayOnly == << Step(s1, TRUE, TRUE, << >>) >>

(* Handler retries of a step; what they leave unknown a human judges.  The *)
(* second step has two chain positions, and the flow releases its errors.  *)
Ladder ==
  << Step(s1, TRUE, TRUE, << Binding("onFail", "retry", 1, 2, "judge"),
                             Binding("onUnknown", "escalate", 1, 0, "judge") >>),
     [Step(s2, FALSE, TRUE, << >>) EXCEPT !.chain = 2] >>
ReleaseErrors == << Binding("onError", "continue", 1, 0, "judge") >>

(* Both kinds of negative are retried.                                     *)
RetryOnce ==
  << Step(s1, TRUE, TRUE, << Binding("onFail", "retry", 2, 2, "judge"),
                             Binding("onError", "retry", 1, 1, "judge") >>) >>

(* A human repairs what a step that is retried in place leaves unknown,    *)
(* another judges the fails it is resumed with.                            *)
Escalating ==
  << [Step(s1, TRUE, TRUE, << Binding("onFail", "escalate", 1, 0, "judge"),
                              Binding("onUnknown", "escalate", 1, 0, "repairWorld") >>)
        EXCEPT !.retryMax = 2, !.retryOn = {"actionFailedRetryable"}] >>

(* Two steps without handlers.                                             *)
TwoPlain == << Step(s1, TRUE, TRUE, << >>), Step(s2, TRUE, FALSE, << >>) >>

(* Two mutating steps with a read between them.                            *)
ThreePlain ==
  << Step(s1, TRUE, TRUE, << >>), Step(s2, FALSE, FALSE, << >>),
     Step(s3, TRUE, FALSE, << >>) >>

NoHandlers == << >>
=============================================================================
