---------------------------- MODULE MCProvenance ----------------------------
(* Small instances of Provenance for TLC. *)
EXTENDS Provenance

CONSTANTS c1, c2, w1, w2

One == [contracts |-> {c1}, workers |-> {w1}, attesting |-> {w1}, faults |-> FALSE]

\* One loop, with two contracts of which a sweep lists only one; one whose calls
\* may fail; a loop and a consumer group without an
\* attestor; two replicas.
Typical ==
  {[One EXCEPT !.contracts = {c1, c2}],
   [One EXCEPT !.faults = TRUE],
   [One EXCEPT !.workers = {w1, w2}],
   [One EXCEPT !.workers = {w1, w2}, !.attesting = {w1, w2}]}
=============================================================================
