------------------------------- MODULE Tally -------------------------------
(***************************************************************************)
(* Sums as cardinalities: how many places of a sequence hold one of some   *)
(* values, and how many members the sets of a family have together.        *)
(***************************************************************************)
EXTENDS Integers, Sequences, FiniteSets

(* The places of seq with a value of V. *)
Places(seq, V) == {i \in DOMAIN seq : seq[i] \in V}

(* Every x with every member of f[x]: as many as the sets f[x] have, all   *)
(* together.                                                               *)
Pairs(f) == UNION {{x} \X f[x] : x \in DOMAIN f}
=============================================================================
