--------------------------- MODULE MCServiceQueue ---------------------------
(* Small instance of ServiceQueue for TLC. *)
EXTENDS ServiceQueue
=============================================================================
