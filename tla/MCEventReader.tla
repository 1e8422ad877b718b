--------------------------- MODULE MCEventReader ---------------------------
(* Instances of EventReader for TLC.                                         *)
EXTENDS EventReader, TLC

Symmetry == Permutations(Reader)
=============================================================================
