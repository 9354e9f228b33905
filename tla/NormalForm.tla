------------------------------ MODULE NormalForm ------------------------------
(***************************************************************************)
(* A flow as normalization leaves it and the later phases walk it          *)
(* (crates/pointlock-compiler/src/normalize.rs, check.rs): a tree of       *)
(* steps, where a step has three bodies, empty unless its kind has them.   *)
(***************************************************************************)
EXTENDS Integers, Sequences, SequencesExt

CONSTANT None   \* an absent optional

ObserveHeads == {"observe", "screenshot"}

(* Every step of a body, at any depth: level by level, down to the empty   *)
(* one.                                                                    *)
Below(steps) ==
  UNION { Range(s.then) \union Range(s.else) \union Range(s.body) : s \in steps }
AllSteps(steps) ==
  LET level[n \in Nat] == IF n = 0 THEN Range(steps) ELSE Below(level[n - 1])
      from[n \in Nat]  == IF level[n] = { } THEN { } ELSE level[n] \union from[n + 1]
  IN  from[0]
=============================================================================
