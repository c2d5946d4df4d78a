------------------------------ MODULE MCLogger ------------------------------
(* Every message of at most five characters, for the Chars of the cfg. *)
EXTENDS Logger, SequencesExt

MCMessages == BoundedSeq(Chars, 5)
=============================================================================
