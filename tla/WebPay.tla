------------------------------- MODULE WebPay -------------------------------
(***************************************************************************)
(* Moving money in the web app: a SEP-7 payment request opened on the /pay *)
(* page (lib/sep7.ts, app/pay/page.tsx), the send panel it fills in        *)
(* (send-payment.tsx), and the swap panel over the swap client and the     *)
(* Soroswap venue (swap-panel.tsx, lib/swap).                              *)
(*                                                                         *)
(* A link is a URI by the fields parsePayUri looks at: whether it is a pay *)
(* URI of known fields each given once, its destination, memo, callback,   *)
(* network and asset, whether its amount, message and origin are well      *)
(* formed, and the key its signature was made with.  Output amounts are    *)
(* the only quantities: a price is what a path pays for what is sold.      *)
(***************************************************************************)
EXTENDS Integers, FiniteSets, Sequences, FiniteSetsExt

CONSTANTS Links, Keys,
          PayNetwork,       \* the wallet's network
          Paths,            \* the candidate routes: direct, and through XLM
          Outs,             \* what a route may pay
          SlippageBps,      \* the user's tolerance, of BpsDenominator
          BpsDenominator, QuoteTtl, SwapDeadline,
          MaxPayClock, MaxOpens, MaxSwaps

VARIABLES
  raw,        \* the link the page has open
  intake,     \* [state, link, origin]
  trust,      \* the contract badge: the link it tells of, or not
  fetches,    \* effects under way: [kind, link, cancelled]
  opens,      \* how often the effect ran
  pin,        \* the signing key localStorage keeps for the domain
  published,  \* the one its stellar.toml publishes
  renders,    \* whether the send panel renders: it names two undeclared identifiers
  send,       \* the send panel: [step, request]
  price,      \* price[path]: what the pools would pay now
  payClock,
  swap,       \* the swap panel: [step, quote, review]
  reviews,    \* every review shown: its terms, the quote's age at each signature, what the panel told of it
  network     \* reviews the network took: [id, out], out = 0 when it refused

requestVars == <<raw, intake, trust, fetches, opens, pin, published>>
sendVars    == <<renders, send>>
swapVars    == <<price, payClock, swap, reviews, network>>
payVars     == <<requestVars, sendVars, swapVars>>

NoLink   == [pay |-> FALSE, destination |-> "none", memo |-> FALSE, callback |-> FALSE, passphrase |-> "none",
             asset |-> "native", amount |-> "none", msg |-> "none", domain |-> FALSE, signedBy |-> "none"]
NoQuote  == [out |-> 0, path |-> "none", at |-> 0]
SwapForm == [step |-> "form", quote |-> NoQuote]
Shown    == Len(reviews)    \* the review the panel is at

PayInit ==
  /\ raw = NoLink /\ intake = [state |-> "empty", link |-> NoLink, origin |-> FALSE] /\ trust = NoLink
  /\ fetches = {} /\ opens = 0 /\ pin = "none" /\ published \in Keys
  /\ renders \in BOOLEAN /\ send = [step |-> "form", request |-> NoLink]
  /\ price \in [Paths -> Outs] /\ payClock = 0 /\ swap = SwapForm
  /\ reviews = <<>> /\ network = {}

-----------------------------------------------------------------------------
(* The /pay page.                                                          *)

\* Mutant: the clean-up is forgotten.
CancelledNever == fetches

\* The clean-up of the page's effects: what they still await is cancelled.
Cancelled == {[f EXCEPT !.cancelled = TRUE] : f \in fetches}

\* Fail closed: what the wallet could not carry out as asked is no request.
ParsePayUri(l) ==
  /\ l.pay /\ l.destination \in {"account", "contract"}
  /\ ~l.memo /\ ~l.callback
  /\ IF l.passphrase = "none" THEN PayNetwork = "mainnet" ELSE l.passphrase = PayNetwork
  /\ l.asset \in {"native", "registered"}
  /\ l.amount \in {"none", "positive"} /\ l.msg # "unsafe"
  /\ l.domain <=> l.signedBy # "none"

\* The effect on the link or the session: parse it, and ask for its origin.
OpenLink(l) ==
  /\ opens < MaxOpens /\ opens' = opens + 1 /\ raw' = l
  /\ trust' = NoLink
  /\ IF ~ParsePayUri(l)
     THEN intake' = [state |-> "rejected", link |-> l, origin |-> FALSE] /\ fetches' = Cancelled
     ELSE /\ intake' = [state |-> "verifying", link |-> l, origin |-> FALSE]
          /\ fetches' = Cancelled \cup {[kind |-> "origin", link |-> l, cancelled |-> FALSE, n |-> opens]}
  /\ UNCHANGED <<pin, published, sendVars, swapVars>>

\* verifySep7Origin on what the domain publishes now: the key must be the one
\* pinned, if any, and have signed the request.
OriginStatus(l, loads) ==
  IF ~l.domain THEN "none"
  ELSE IF loads /\ pin \in {"none", published} /\ l.signedBy = published THEN "verified" ELSE "invalid"

OriginAnswers(f, loads) ==
  /\ f \in fetches /\ f.kind = "origin"
  /\ LET status == OriginStatus(f.link, loads)
         ready  == ~f.cancelled /\ status # "invalid" IN
     /\ pin' = IF status = "verified" THEN published ELSE pin
     /\ intake' = IF f.cancelled THEN intake
                  ELSE [state |-> IF ready THEN "ready" ELSE "rejected", link |-> f.link,
                        origin |-> status = "verified"]
     /\ fetches' = (fetches \ {f})
          \cup (IF ready /\ f.link.destination = "contract"
                THEN {[kind |-> "trust", link |-> f.link, cancelled |-> FALSE, n |-> f.n]} ELSE {})
  /\ UNCHANGED <<raw, trust, opens, published, sendVars, swapVars>>

\* The badge's answer, of a request that may no longer be the one shown.
TrustAnswers(f) ==
  /\ f \in fetches /\ f.kind = "trust" /\ fetches' = fetches \ {f}
  /\ trust' = IF f.cancelled THEN trust ELSE f.link
  /\ UNCHANGED <<raw, intake, opens, pin, published, sendVars, swapVars>>

RotateKey == published' \in Keys /\ UNCHANGED <<raw, intake, trust, fetches, opens, pin, sendVars, swapVars>>

\* What parsed is handed to the send panel, which only renders if it can.
PreparePayment ==
  /\ renders /\ intake.state = "ready" /\ send.step = "form"
  /\ send' \in {send, [step |-> "review", request |-> intake.link]}
  /\ UNCHANGED <<requestVars, renders, swapVars>>

\* Sign and submit; an error, a dismissed passkey too, is back at the review.
ConfirmPayment ==
  /\ renders /\ send.step = "review" /\ send' \in {send, [send EXCEPT !.step = "tracking"]}
  /\ UNCHANGED <<requestVars, renders, swapVars>>

\* A transaction the network has not confirmed in time is reported as failed.
TrackPayment ==
  /\ send.step = "tracking" /\ send' = [send EXCEPT !.step = "done"]
  /\ UNCHANGED <<requestVars, renders, swapVars>>

SendAgain ==
  /\ send.step \in {"review", "done"} /\ send' = [step |-> "form", request |-> NoLink]
  /\ UNCHANGED <<requestVars, renders, swapVars>>

-----------------------------------------------------------------------------
(* The swap panel.                                                         *)

\* The best of the routes that answered.
BestQuote(answered) ==
  LET path == CHOOSE p \in answered : \A q \in answered : price[q] <= price[p] IN
  [out |-> price[path], path |-> path, at |-> payClock]

\* Bounded above by what the venue quoted, rounded down.
MinimumOut(out) == (out * (BpsDenominator - SlippageBps)) \div BpsDenominator

\* Mutant: the quote's age is checked when the swap is prepared, and only then.
IsQuoteFreshOnce(q) == swap.step = "review" \/ payClock - q.at <= QuoteTtl

IsQuoteFresh(q) == payClock - q.at <= QuoteTtl

\* What normalizeQuote accepts of the venue's answer.
NormalizeQuote(answered) == answered # {} /\ BestQuote(answered).out > 0

GetQuote(answered) ==
  /\ swap.step = "form" /\ Len(reviews) < MaxSwaps
  /\ swap' = IF NormalizeQuote(answered) THEN [step |-> "quoted", quote |-> BestQuote(answered)] ELSE swap
  /\ UNCHANGED <<requestVars, sendVars, price, payClock, reviews, network>>

\* The venue builds the transaction and simulates it.
BuildSwap(path, minOut) == minOut > 0 /\ price[path] >= minOut

\* Build and simulate: refused when the quote grew old, no minimum protects the
\* amount, or the price already moved past it.
PrepareSwap ==
  /\ swap.step = "quoted"
  /\ LET q == swap.quote
         minOut == MinimumOut(q.out)
         ok     == IsQuoteFresh(q) /\ BuildSwap(q.path, minOut) IN
     IF ok
     THEN /\ swap' = [swap EXCEPT !.step = "review"]
          /\ reviews' = Append(reviews, [minOut |-> minOut, quoted |-> q.out, path |-> q.path,
                                         deadline |-> payClock + SwapDeadline, signed |-> {}, told |-> "nothing"])
     ELSE swap' = SwapForm /\ UNCHANGED reviews
  /\ UNCHANGED <<requestVars, sendVars, price, payClock, network>>

\* The passkey signs what the review shows, unless its quote expired; a failure
\* is back at the review, the transaction sent or not.
ConfirmSwap ==
  /\ swap.step = "review"
  /\ IF ~IsQuoteFresh(swap.quote) THEN swap' = SwapForm /\ UNCHANGED reviews
     ELSE /\ swap' \in {swap, [swap EXCEPT !.step = "tracking"]}
          /\ reviews' = [reviews EXCEPT ![Shown].signed = @ \cup {payClock - swap.quote.at}]
  /\ UNCHANGED <<requestVars, sendVars, price, payClock, network>>

CancelSwap ==
  /\ swap.step \in {"review", "done"} /\ swap' = SwapForm
  /\ UNCHANGED <<requestVars, sendVars, price, payClock, reviews, network>>

\* The router (external) executes a signed swap once, at the price of the moment,
\* not below its minimum nor after its deadline, also one the user gave up on.
NetworkTakes(i) ==
  /\ reviews[i].signed # {} /\ \A n \in network : n.id # i
  /\ LET out == price[reviews[i].path] IN
     network' = network \cup
       {[id |-> i, out |-> IF out >= reviews[i].minOut /\ payClock <= reviews[i].deadline THEN out ELSE 0]}
  /\ UNCHANGED <<requestVars, sendVars, price, payClock, swap, reviews>>

\* What became of it, as the network says, or that it has not said.
TrackSwap ==
  /\ swap.step = "tracking" /\ swap' = [swap EXCEPT !.step = "done"]
  /\ \/ reviews' = [reviews EXCEPT ![Shown].told = "unconfirmed"]
     \/ \E n \in network : /\ n.id = Shown
                           /\ reviews' = [reviews EXCEPT ![Shown].told = IF n.out = 0 THEN "failed" ELSE "success"]
  /\ UNCHANGED <<requestVars, sendVars, price, payClock, network>>

MarketMoves ==
  /\ price' \in [Paths -> Outs] /\ UNCHANGED <<requestVars, sendVars, payClock, swap, reviews, network>>

PayTick ==
  /\ payClock < MaxPayClock /\ payClock' = payClock + 1
  /\ UNCHANGED <<requestVars, sendVars, price, swap, reviews, network>>

RequestNext ==
  \/ \E l \in Links : OpenLink(l)
  \/ \E f \in fetches : (\E loads \in BOOLEAN : OriginAnswers(f, loads)) \/ TrustAnswers(f)
  \/ RotateKey \/ PreparePayment \/ ConfirmPayment \/ TrackPayment \/ SendAgain

SwapNext ==
  \/ \E answered \in SUBSET Paths : GetQuote(answered)
  \/ PrepareSwap \/ ConfirmSwap \/ CancelSwap \/ (\E i \in DOMAIN reviews : NetworkTakes(i)) \/ TrackSwap \/ MarketMoves \/ PayTick

-----------------------------------------------------------------------------
\* The request a user can pay is the one the page has open, the origin it names
\* signed it with the key the browser pinned, and the badge tells of that same
\* contract: whatever was opened, re-opened or answered late in between.
RequestVouched ==
  intake.state = "ready" =>
    /\ intake.link = raw
    /\ intake.origin => raw.domain /\ raw.signedBy = pin
    /\ raw.domain => intake.origin
    /\ trust # NoLink => trust = raw

\* A swap executes on the terms of its review: never for less than the tolerance
\* allows of a quote that was fresh at every signature (quote.ts:141-147), and a
\* swap reported failed exchanged nothing (swap-panel.tsx:292).
SwapAsReviewed ==
  /\ \A i \in DOMAIN reviews : \A age \in reviews[i].signed : age <= QuoteTtl
  /\ \A n \in network : n.out > 0 =>
       /\ n.out >= MinimumOut(reviews[n.id].quoted) /\ reviews[n.id].told # "failed"
=============================================================================
