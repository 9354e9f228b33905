------------------------------ MODULE RunLedger ------------------------------
(***************************************************************************)
(* What the store promises of one run, seen by whoever reads it: entries   *)
(* are accepted one at a time, only while the fold accepts them, and what  *)
(* can be read beside the ledger (the checkpoint and the run status) is at *)
(* every moment the fold of exactly the accepted entries.  There are no    *)
(* handles, no caches and no transactions here; RunStore implements this.  *)
(***************************************************************************)
EXTENDS Naturals, Sequences

CONSTANTS
  Entry,          \* what a writer may try to append
  Step(_, _),     \* the fold of one more entry
  View(_),        \* the checkpoint a folded state is shown as
  Seed0,          \* the fold of the empty ledger
  Refused,        \* the fold refused the entry
  Nothing         \* no checkpoint to read yet

VARIABLES
  begun,      \* the run exists
  entries,    \* the accepted entries
  folded,     \* their fold
  shown,      \* the checkpoint as it reads
  status      \* the run status as it reads

vars == << begun, entries, folded, shown, status >>

Init ==
  /\ begun = FALSE
  /\ entries = << >>
  /\ folded = Seed0
  /\ shown = Nothing
  /\ status = "running"

Begin ==
  /\ ~begun
  /\ begun' = TRUE
  /\ UNCHANGED << entries, folded, shown, status >>

(* The entry is durable, folded and shown in one step.                     *)
Accept(entry) ==
  /\ begun
  /\ entries' = Append(entries, entry)
  /\ folded' = Step(folded, entry)
  /\ folded' # Refused
  /\ shown' = [seq |-> Len(entries) + 1, view |-> View(folded')]
  /\ status' = folded'.status
  /\ UNCHANGED begun

Next == Begin \/ \E entry \in Entry : Accept(entry)

Spec == Init /\ [][Next]_vars
=============================================================================
