--------------------------- MODULE MCTuningSpaces ---------------------------
(***************************************************************************)
(* TuningSpaces on every list of a few entries, with types as model values *)
(* given in the .cfg files.                                                *)
(***************************************************************************)
EXTENDS TuningSpaces, TLC

\* The types are interchangeable: they are only compared.
TypeSymmetry == Permutations(Types)

=============================================================================
