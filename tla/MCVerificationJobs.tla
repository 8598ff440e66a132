------------------------- MODULE MCVerificationJobs -------------------------
(* Small instances of VerificationJobs for TLC. *)
EXTENDS VerificationJobs

CONSTANTS token, swap

\* All submissions are for the same contract, the hard case of the dedup; the
\* imported rows are for another one.
TwoContracts == [id \in Record |-> IF id \in Request THEN token ELSE swap]
=============================================================================
