----------------------------- MODULE MCConsole -----------------------------
(***************************************************************************)
(* Two programs on one terminal or pipe (MCConsole.cfg).  A byte has eight *)
(* values; 7 is the byte of all ones, which as a char is EOF.              *)
(***************************************************************************)
EXTENDS Console

SomeInts == { 7 }
SomeTexts == { <<7, 2>>, <<2>> }
Cooked == { [canon |-> TRUE, echo |-> TRUE], [canon |-> TRUE, echo |-> FALSE] }

Programs == Permutations(Procs)

=============================================================================
