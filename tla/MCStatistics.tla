---------------------------- MODULE MCStatistics ----------------------------
(* Statistics with the processes and services the .cfg gives               *)
EXTENDS Statistics, TLC

(* Users differ in nothing                                                 *)
Symmetry == Permutations(Users)
=============================================================================
