---------------------------- MODULE MCPostOffice ----------------------------
(* Small instances of PostOffice for TLC. *)
EXTENDS PostOffice, TLC

(* The operators and the users are interchangeable: the code never orders  *)
(* them.  Sound for the safety runs only.                                  *)
Symmetry == Permutations(Workers) \cup Permutations(Users)

(* Bound of the run with three users: once the director has sent SIGTERM,  *)
(* it goes on only while an answer meets a full message queue or has been  *)
(* dropped there.  The rest of the shutdown is left to the runs with one.  *)
StopBound ==
  dpc = "reap" =>
    \/ tpc = "ns_reply" /\ ~Room
    \/ \E u \in Users : upc[u] = "await" /\ TicketsOf(u) = 0
=============================================================================
