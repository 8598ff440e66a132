--------------------------- MODULE MCWalletSubmit ---------------------------
(***************************************************************************)
(* Authorizations a1, a2, a3 of a wallet the server created and b1 of one   *)
(* it did not.  e1 is sponsored; e2 carries a1 again, re-wrapped with a2,   *)
(* and goes to the relayer; e3 has a subject nobody knows; e4 goes to the   *)
(* relayer and shares nothing with e2, so that both can drive the breaker.  *)
(***************************************************************************)
EXTENDS WalletSubmit, TLC

CONSTANTS a1, a2, a3, b1, e1, e2, e3, e4, home, stranger

EnvelopeKeys == [e \in {e1, e2, e3, e4} |->
                   CASE e = e1 -> {a1} [] e = e2 -> {a1, a2}
                     [] e = e3 -> {a2, b1} [] e = e4 -> {a3}]
Owner        == [a \in {a1, a2, a3, b1} |-> IF a = b1 THEN stranger ELSE home]
Expiries     == [a \in {a1, a2, a3, b1} |-> IF a = a1 THEN 1 ELSE 2]

\* Requests differ only in the envelope they start with.
AnyOrder == Permutations(Request)
==============================================================================
