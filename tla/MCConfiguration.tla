--------------------------- MODULE MCConfiguration ---------------------------
(* The two configurations of src/config, every file one edit away from     *)
(* them, and the example of the README.                                    *)
EXTENDS Configuration, SequencesExt

Pairs(values) ==
  LET key == <<"NOF_WORKER_SEATS", "NOF_WORKERS", "NOF_USERS", "NOF_PAUSE",
               "P_SERV_MIN", "P_SERV_MAX", "SIM_DURATION", "N_NANO_SECONDS",
               "EXPLODE_THRESHOLD">>
  IN [i \in 1 .. 18 |-> IF i % 2 = 1 THEN Word(key[(i + 1) \div 2])
                                     ELSE Number(values[i \div 2])]

Timeout == Pairs(<<6, 18, 120, 3, 20, 40, 5, 500000, 400>>)
Explode == Pairs(<<6, 18, 400, 3, 95, 100, 5, 500000, 80>>)

(* A value changed; a line left out, repeated with another value at the    *)
(* end, or followed by a comment, an unknown key or a second number.       *)
Edits(f) ==
  UNION {
    {[f EXCEPT ![2 * i] = Number(n)] : i \in 1 .. 9, n \in {-1, 0, 1, 101}},
    {SubSeq(f, 1, 2 * i - 2) \o SubSeq(f, 2 * i + 1, 18) : i \in 1 .. 9},
    {f \o <<f[2 * i - 1], Number(n)>> : i \in 1 .. 9, n \in {-1, 0, 101}},
    {SubSeq(f, 1, 2 * i) \o t \o SubSeq(f, 2 * i + 1, 18) : i \in 1 .. 9,
       t \in {<<Word("other"), Word("other")>>, <<Word("other"), Number(1)>>,
              <<Number(1)>>, <<Word("other")>>}}}

(* README.md:107-117: every line ends with # and a few words. *)
ReadmeExample ==
  FlattenSeq([i \in 1 .. 9 |-> SubSeq(Timeout, 2 * i - 1, 2 * i)
                                 \o <<Word("other"), Word("other"), Word("other")>>])

(* Values nobody would choose, all of them accepted. *)
Odd == Pairs(<<1, 1, 1, -1, 150, 200, 1, 1, -1>>)

MCFiles == {Timeout, Explode, Odd, ReadmeExample} \cup Edits(Timeout) \cup Edits(Explode)
=============================================================================
