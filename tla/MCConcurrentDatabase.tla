------------------------ MODULE MCConcurrentDatabase ------------------------
(***************************************************************************)
(* Processes and keys are interchangeable: no operator of the              *)
(* specification picks one of them by CHOOSE.                              *)
(***************************************************************************)
EXTENDS ConcurrentDatabase, TLC

Symmetry == Permutations(Proc) \cup Permutations(Key)
=============================================================================
