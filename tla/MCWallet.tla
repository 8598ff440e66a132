------------------------------ MODULE MCWallet ------------------------------
(***************************************************************************)
(* The state wallet-service keeps besides its submissions, one part at a   *)
(* time: the creation of wallets, the sessions and signers of a wallet     *)
(* that exists, its cache, and the spend budget the services charge.       *)
(*                                                                         *)
(* The budget: three sponsored submissions and a wallet creation.  The     *)
(* ceilings bind in both dimensions: two sponsored calls, or three         *)
(* stroops, per window.  One replica's clock runs ahead, another's behind. *)
(***************************************************************************)
EXTENDS WalletAccounts, SpendBudget, TLC

CONSTANTS s1, s2, s3, c1

VARIABLE part

FourCalls  == {s1, s2, s3, c1}
Lines      == {"sponsor", "create"}
CallLine   == [c \in FourCalls |-> IF c \in {s1, s2, s3} THEN "sponsor" ELSE "create"]
CallCost   == [c \in FourCalls |-> IF c = s3 THEN 3 ELSE IF c \in {s1, s2} THEN 1 ELSE 0]
CallSkew   == [c \in FourCalls |-> IF c = s2 THEN 1 ELSE IF c = s3 THEN -1 ELSE 0]
CountLimit == [l \in Lines |-> IF l = "sponsor" THEN 2 ELSE 1]
SpendLimit == [l \in Lines |-> IF l = "sponsor" THEN 3 ELSE NoCeiling]

MCInit ==
  /\ part \in {"create", "session", "cache", "budget"}
  /\ AccountsInit /\ Init
  /\ part # "cache" => maxAge = NoMaxAge

\* The sessions part starts once the first wallet has been created.
Created == part = "session" /\ wallet = {} /\ wallet' = Keys /\ chain' = Keys
           /\ UNCHANGED <<timeVars, charged, sent, sessions, signers, req, cached>>

MCNext ==
  /\ UNCHANGED part
  /\ \/ /\ \/ part = "create" /\ CreateNext
           \/ Created
           \/ part = "session" /\ wallet # {} /\ SessionNext
           \/ part = "cache" /\ CacheNext
        /\ UNCHANGED vars
     \/ part = "budget" /\ Next /\ UNCHANGED accountVars

Symmetry == Permutations(Handlers) \cup Permutations(Sessions)

MCSpec == MCInit /\ [][MCNext]_<<part, accountVars, vars>>
=============================================================================
