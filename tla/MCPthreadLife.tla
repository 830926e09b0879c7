---------------------------- MODULE MCPthreadLife ---------------------------
(* Instances of PthreadLife for TLC. *)
EXTENDS PthreadLife, TLC

(* The threads run the same code: any permutation of them is a symmetry of  *)
(* the safety runs.                                                         *)
ThreadSymmetry == Permutations(Threads)

=============================================================================
