--------------------------- MODULE StatelessContract ---------------------------
(***************************************************************************)
(* The promise of a stateless validator, as an abstract machine: it holds  *)
(* one input, answers once, with the verdict of that input, and does       *)
(* answer.  stateless.hpp:30-60 documents the two functions it abstracts.  *)
(***************************************************************************)
EXTENDS Sequences

CONSTANTS
    IsInput(_),     \* what a host may provide
    VerdictOf(_)    \* the public values an input must lead to

VARIABLES
    input,          \* the private input
    output          \* the public output: the values written so far

cvars == <<input, output>>

Init == IsInput(input) /\ output = << >>

Answer ==
    /\ output = << >>
    /\ output' = <<VerdictOf(input)>>
    /\ UNCHANGED input

Spec == Init /\ [][Answer]_cvars /\ WF_cvars(Answer)
=============================================================================
