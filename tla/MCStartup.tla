------------------------------ MODULE MCStartup ------------------------------
(* Startup with the directors and children the .cfg gives                  *)
EXTENDS Startup
=============================================================================
