---------------------------- MODULE SpendWindow ----------------------------
(***************************************************************************)
(* What the two spending policies (spending-limit and token-spending-limit) *)
(* share: one contract instance bound to one wallet, its Config written    *)
(* once by the constructor, the Installed marker, the Spend record with    *)
(* its tumbling window, and the storage TTLs the handlers renew.  The two  *)
(* policies extend this module with their own parsing of auth contexts and *)
(* their own constructor checks.                                           *)
(*                                                                         *)
(* Storage is the bound wallet's: install and policy__ refuse any other    *)
(* wallet before they write.  An invocation is atomic (Soroban applies a   *)
(* transaction or rolls it back), so a panic is a disabled action.         *)
(***************************************************************************)
EXTENDS Integers

CONSTANTS
  Address,           \* wallets and token contracts
  Configs,           \* the configurations somebody may try to deploy
  NotDeployed,       \* config before the constructor ran
  NoSpend,           \* no Spend record in storage
  I128Max,           \* largest i128
  RENEW_THRESHOLD,   \* ledgers
  RENEW_TO,          \* ledgers
  MAX_WINDOW_SECONDS,
  MinTtl,            \* TTL the host gives a fresh or restored entry
  MaxTime            \* bound: the last ledger of a behaviour

ASSUME WindowConstants ==
  /\ {I128Max, RENEW_THRESHOLD, RENEW_TO, MAX_WINDOW_SECONDS, MinTtl, MaxTime}
       \subseteq Nat
  /\ RENEW_THRESHOLD <= RENEW_TO
  /\ NotDeployed \notin Configs
  /\ \A c \in Configs :
       /\ c.daily_limit \in Int
       /\ c.window_seconds \in Nat
  /\ NoSpend \notin [window_start : Nat, spent : Nat]

VARIABLES
  now,         \* ledger sequence and timestamp (one tick per ledger)
  config,      \* StorageKey::Config
  signer,      \* external: the wallet lists this policy as a signer
  installed,   \* StorageKey::Installed(wallet)
  spend,       \* StorageKey::Spend(wallet)
  liveUntil,   \* last ledger at which each storage entry is not archived
  total        \* history: total[t] is what policy__ authorized up to and
               \* including time t, since the state was last cleaned

vars == <<now, config, signer, installed, spend, liveUntil, total>>

Time  == 0..MaxTime
Entry == {"Instance", "Installed", "Spend"}

MIN_ALLOWANCE      == 1
MIN_WINDOW_SECONDS == 1

(***************************************************************************)
(* Host storage (external): an archived entry makes every invocation that  *)
(* touches it fail until somebody restores it; it is never read as absent. *)
(***************************************************************************)
Exists(k) == CASE k = "Instance"  -> config # NotDeployed
               [] k = "Installed" -> installed
               [] k = "Spend"     -> spend # NoSpend

Live(k) == now <= liveUntil[k]

Readable(keys) == \A k \in keys : Exists(k) => Live(k)

\* extend_ttl(RENEW_THRESHOLD, RENEW_TO) on each entry of keys, after the
\* host gave the entries of keys that did not exist their first TTL.
Renewed(keys) ==
  [k \in Entry |->
     LET until == IF Exists(k) THEN liveUntil[k] ELSE now + MinTtl
     IN  IF k \notin keys THEN liveUntil[k]
         ELSE IF until - now <= RENEW_THRESHOLD THEN now + RENEW_TO
         ELSE until]

-----------------------------------------------------------------------------
Init ==
  /\ now = 0
  /\ config = NotDeployed
  /\ signer = FALSE
  /\ installed = FALSE
  /\ spend = NoSpend
  /\ liveUntil = [k \in Entry |-> 0]
  /\ total = [t \in Time |-> 0]

WindowInRange(c) ==
  /\ c.daily_limit >= MIN_ALLOWANCE
  /\ c.window_seconds \in MIN_WINDOW_SECONDS..MAX_WINDOW_SECONDS

\* The write and the renewal every constructor ends with.
StoreConfig(c) ==
  /\ config = NotDeployed
  /\ config' = c
  /\ liveUntil' = Renewed({"Instance"})
  /\ UNCHANGED <<now, signer, installed, spend, total>>

\* The wallet's add_signer (external) invokes install on the policy; when
\* install panics the whole add_signer is rolled back.
Install(wallet) ==
  /\ config # NotDeployed
  /\ Readable({"Instance", "Installed"})
  /\ wallet = config.wallet
  /\ signer' = TRUE
  /\ installed' = TRUE
  /\ liveUntil' = Renewed({"Instance", "Installed"})
  /\ UNCHANGED <<now, config, spend, total>>

\* external: the wallet owner removes the policy signer.
RemoveSigner ==
  /\ signer
  /\ signer' = FALSE
  /\ UNCHANGED <<now, config, installed, spend, liveUntil, total>>

\* Mutant: uninstall does not ask the wallet for its signers.
UninstallUnchecked ==
  /\ config # NotDeployed
  /\ Readable(Entry)
  /\ installed' = FALSE
  /\ spend' = NoSpend
  /\ total' = [t \in Time |-> 0]
  /\ UNCHANGED <<now, config, signer, liveUntil>>

\* Anybody may call uninstall; it panics with StillInstalled while the
\* wallet still lists the policy.
Uninstall ==
  /\ config # NotDeployed
  /\ Readable(Entry)
  /\ ~signer
  /\ installed' = FALSE
  /\ spend' = NoSpend
  /\ total' = [t \in Time |-> 0]
  /\ UNCHANGED <<now, config, signer, liveUntil>>

\* Mutant: an elapsed window clears spent and keeps window_start.
CurrentAllowanceKeepsStart ==
  IF spend = NoSpend THEN [window_start |-> now, spent |-> 0]
  ELSE IF now - spend.window_start >= config.window_seconds
       THEN [spend EXCEPT !.spent = 0]
       ELSE spend

\* Mutant: the window slides with every call.
CurrentAllowanceSlides ==
  IF spend = NoSpend \/ now - spend.window_start >= config.window_seconds
  THEN [window_start |-> now, spent |-> 0]
  ELSE [spend EXCEPT !.window_start = now]

\* The Spend record policy__ works on: loaded or fresh, and reset once the
\* window has elapsed.
CurrentAllowance ==
  LET stored == IF spend = NoSpend THEN [window_start |-> now, spent |-> 0]
                                   ELSE spend
  IN  IF now - stored.window_start >= config.window_seconds
      THEN [window_start |-> now, spent |-> 0]
      ELSE stored

\* Mutant: no renewal of Installed.
ChargeForgetsInstalled(amount) ==
  /\ CurrentAllowance.spent + amount <= config.daily_limit
  /\ spend' = [CurrentAllowance EXCEPT !.spent = @ + amount]
  /\ total' = [t \in Time |-> IF t >= now THEN total[t] + amount ELSE total[t]]
  /\ liveUntil' = Renewed({"Instance", "Spend"})
  /\ UNCHANGED <<now, config, signer, installed>>

\* The second half of policy__: charge amount against the window.
Charge(amount) ==
  LET allowance == CurrentAllowance
      new_spent == allowance.spent + amount
  IN  /\ new_spent <= I128Max
      /\ new_spent <= config.daily_limit
      /\ spend' = [allowance EXCEPT !.spent = new_spent]
      /\ total' = [t \in Time |-> IF t >= now THEN total[t] + amount
                                              ELSE total[t]]
      /\ liveUntil' = Renewed(Entry)
      /\ UNCHANGED <<now, config, signer, installed>>

\* The checks policy__ makes before it looks at the contexts.
Callable(source) ==
  /\ config # NotDeployed
  /\ Readable(Entry)
  /\ source = config.wallet
  /\ installed

\* external: somebody restores an archived entry.
Restore(k) ==
  /\ Exists(k) /\ ~Live(k)
  /\ liveUntil' = [liveUntil EXCEPT ![k] = now + MinTtl]
  /\ UNCHANGED <<now, config, signer, installed, spend, total>>

\* external: a ledger closes.
LedgerClose ==
  /\ now < MaxTime
  /\ now' = now + 1
  /\ UNCHANGED <<config, signer, installed, spend, liveUntil, total>>

Shared ==
  \/ \E wallet \in Address : Install(wallet)
  \/ RemoveSigner
  \/ Uninstall
  \/ \E k \in Entry : Restore(k)
  \/ LedgerClose

\* The abstract policy both contracts implement: a budget that authorizes any
\* amount the window still covers, whatever the contexts look like.  Neither
\* contract does anything WindowSpec does not allow.
WindowNext ==
  \/ \E c \in Configs : WindowInRange(c) /\ StoreConfig(c)
  \/ \E source \in Address : Callable(source) /\ \E amount \in 0..I128Max : Charge(amount)
  \/ Shared

WindowSpec == Init /\ [][WindowNext]_vars

-----------------------------------------------------------------------------
(***************************************************************************)
(* Properties, stated once and checked for both policies.                  *)
(***************************************************************************)
Allowance == [window_start : Time, spent : 0..I128Max]

TypeOK ==
  /\ now \in Time
  /\ config \in Configs \cup {NotDeployed}
  /\ signer \in BOOLEAN
  /\ installed \in BOOLEAN
  /\ spend \in Allowance \cup {NoSpend}
  /\ liveUntil \in [Entry -> Nat]
  /\ total \in [Time -> Nat]

\* What was authorized before time a, and from time a to time b.
Before(a) == IF a = 0 THEN 0 ELSE total[a - 1]

Authorized(a, b) == total[b] - Before(a)

\* The Spend record is the whole truth about the running window: it equals
\* what was authorized since window_start, and never exceeds daily_limit.
WindowCap ==
  spend # NoSpend =>
    /\ Authorized(spend.window_start, now) = spend.spent
    /\ spend.spent <= config.daily_limit

\* The bound the module documentation of spending-limit states: at most
\* 2 * daily_limit in any span of window_seconds, wherever it starts.
AtMostTwicePerSpan ==
  config # NotDeployed =>
    \A a, b \in 0..now :
      a <= b /\ b - a < config.window_seconds
        => Authorized(a, b) <= 2 * config.daily_limit

\* A policy that authorized something within the last RENEW_THRESHOLD
\* ledgers, and was not detached, has no archived entry.
ActiveUseKeepsAlive ==
  \A t \in 0..now :
    Authorized(t, t) > 0 /\ now - t <= RENEW_THRESHOLD => Readable(Entry)

\* Nobody can hand the spender a fresh budget early: while the policy is a
\* signer, spent only shrinks in a step that starts a window at least
\* window_seconds after the previous one.
NoEarlyReset ==
  [][signer /\ spend # NoSpend =>
       /\ spend' # NoSpend
       /\ \/ spend'.spent >= spend.spent
          \/ spend'.window_start >= spend.window_start + config.window_seconds]_vars

(***************************************************************************)
(* The inductive invariant behind WindowCap and AtMostTwicePerSpan.        *)
(***************************************************************************)
\* total is a running total that nothing after now has changed, and it is
\* zero whenever there is no Spend record.
RunningTotal ==
  /\ \A s, t \in Time : s <= t => total[s] <= total[t]
  /\ \A t \in Time : t >= now => total[t] = total[now]
  /\ spend = NoSpend => \A t \in Time : total[t] = 0

\* A Spend record belongs to a deployed instance with a configuration in
\* range; nothing was authorized after its window elapsed; and what the
\* preceding window authorized within window_seconds before window_start is
\* at most one daily_limit.
WindowHistory ==
  /\ config # NotDeployed => WindowInRange(config)
  /\ spend # NoSpend =>
       /\ config # NotDeployed
       /\ spend.window_start <= now
       /\ \A t \in Time : t >= spend.window_start + config.window_seconds - 1
                          /\ t <= now => total[t] = total[now]
       /\ \A a \in 0..spend.window_start :
            a + config.window_seconds > spend.window_start
              => Before(spend.window_start) - Before(a) <= config.daily_limit

WindowInv ==
  TypeOK /\ RunningTotal /\ WindowHistory /\ WindowCap /\ AtMostTwicePerSpan
=============================================================================
