------------------------- MODULE MCHumanArbitration -------------------------
(***************************************************************************)
(* HumanArbitration with two interchangeable terminals.                    *)
(***************************************************************************)
EXTENDS HumanArbitration, TLC

CONSTANTS t1, t2, hashOld, hashNew

TerminalSymmetry == Permutations({t1, t2})
=============================================================================
