---------------------------- MODULE MCGrabTsData ----------------------------
(***************************************************************************)
(* GrabTsData on small instances.  The threads are model values given in   *)
(* the .cfg files.                                                         *)
(***************************************************************************)
EXTENDS GrabTsData, TLC

\* Interchangeable threads.  Not used by runs that check liveness.
ReaderSymmetry == Permutations(Readers)

=============================================================================
