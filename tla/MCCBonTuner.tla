---------------------------- MODULE MCCBonTuner ----------------------------
(***************************************************************************)
(* CBonTuner on small instances, with the threads, the channel and the     *)
(* value 0xffffffff given as model values in the .cfg files.               *)
(***************************************************************************)
EXTENDS CBonTuner, TLC

ReaderSymmetry == Permutations(Readers)

=============================================================================
