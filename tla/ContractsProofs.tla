-------------------------- MODULE ContractsProofs --------------------------
(***************************************************************************)
(* What TLAPS proves of the spending policies and of the storage entries   *)
(* the contracts live on.  The proofs are about the abstract budget of     *)
(* SpendWindow; both policies implement it and so inherit what it          *)
(* guarantees.                                                             *)
(***************************************************************************)
EXTENDS MCContracts, TLAPS

RegistryProofs == INSTANCE AttestationRegistryProofs WITH
  RENEW_THRESHOLD <- RegistryThreshold, RENEW_TO <- RegistryTo

USE DEF Time, Entry

LEMMA Bounds == MaxTime \in Nat /\ I128Max \in Nat
BY WindowConstants

LEMMA NoSpendNoAllowance == NoSpend \notin Allowance
<1>1. Allowance \subseteq [window_start : Nat, spent : Nat]
  BY Bounds DEF Allowance
<1> QED
  BY <1>1, WindowConstants

-----------------------------------------------------------------------------
(* Type correctness, action by action. *)

LEMMA RenewedType ==
  ASSUME TypeOK, NEW keys
  PROVE  Renewed(keys) \in [Entry -> Nat]
BY WindowConstants DEF TypeOK, Renewed

LEMMA AllowanceType ==
  ASSUME TypeOK, config # NotDeployed
  PROVE  CurrentAllowance \in Allowance
BY WindowConstants DEF TypeOK, CurrentAllowance, Allowance

LEMMA ChargeType ==
  ASSUME TypeOK, config # NotDeployed, NEW amount \in 0..I128Max, Charge(amount)
  PROVE  TypeOK'
<1>1. spend' \in Allowance
  BY AllowanceType, WindowConstants DEF Charge, Allowance
<1>2. total' \in [Time -> Nat]
  BY WindowConstants DEF Charge, TypeOK
<1>3. liveUntil' \in [Entry -> Nat]
  BY RenewedType DEF Charge
<1> QED
  BY <1>1, <1>2, <1>3 DEF Charge, TypeOK, Allowance

LEMMA SharedType ==
  ASSUME TypeOK, Shared
  PROVE  TypeOK'
<1>1. ASSUME NEW w \in Address, Install(w) PROVE TypeOK'
  BY <1>1, RenewedType DEF Install, TypeOK, Allowance
<1>2. CASE RemoveSigner
  BY <1>2 DEF RemoveSigner, TypeOK, Allowance
<1>3. CASE Uninstall
  BY <1>3 DEF Uninstall, TypeOK, Allowance
<1>4. ASSUME NEW k \in Entry, Restore(k) PROVE TypeOK'
  BY <1>4, WindowConstants DEF Restore, TypeOK, Allowance
<1>5. CASE LedgerClose
  BY <1>5, WindowConstants DEF LedgerClose, TypeOK, Allowance
<1> QED
  BY <1>1, <1>2, <1>3, <1>4, <1>5 DEF Shared

LEMMA StoreConfigType ==
  ASSUME TypeOK, NEW c \in Configs, StoreConfig(c)
  PROVE  TypeOK'
BY RenewedType DEF StoreConfig, TypeOK, Allowance

\* The abstract policy is type correct: Spec of either contract keeps every
\* stored value within its Rust type.
THEOREM WindowTypeCorrect == WindowSpec => []TypeOK
<1>1. Init => TypeOK
  <2> SUFFICES ASSUME Init PROVE TypeOK
    OBVIOUS
  <2>1. now \in Time
    BY WindowConstants DEF Init
  <2>2. total \in [Time -> Nat] /\ liveUntil \in [Entry -> Nat]
    BY DEF Init
  <2> QED
    BY <2>1, <2>2 DEF Init, TypeOK
<1>2. TypeOK /\ [WindowNext]_vars => TypeOK'
  <2> SUFFICES ASSUME TypeOK, [WindowNext]_vars PROVE TypeOK'
    OBVIOUS
  <2>1. CASE \E c \in Configs : WindowInRange(c) /\ StoreConfig(c)
    BY <2>1, StoreConfigType
  <2>2. CASE \E source \in Address :
               Callable(source) /\ \E amount \in 0..I128Max : Charge(amount)
    BY <2>2, ChargeType DEF Callable
  <2>3. CASE Shared
    BY <2>3, SharedType
  <2>4. CASE UNCHANGED vars
    BY <2>4 DEF vars, TypeOK, Allowance
  <2> QED
    BY <2>1, <2>2, <2>3, <2>4 DEF WindowNext
<1> QED
  BY <1>1, <1>2, PTL DEF WindowSpec

-----------------------------------------------------------------------------
(* WindowInv is inductive. *)

LEMMA BeforeFacts ==
  ASSUME TypeOK, RunningTotal
  PROVE  /\ \A a \in Time : Before(a) \in Nat
         /\ \A a, b \in Time : a <= b => Before(a) <= Before(b)
         /\ \A a \in Time : Before(a) <= total[a]
         /\ \A a, t \in Time : a <= t => Before(a) <= total[t]
<1>1. \A t \in Time : total[t] \in Nat
  BY DEF TypeOK
<1>2. \A a \in Time : a # 0 => a - 1 \in Time
  BY WindowConstants
<1>3. \A a \in Time : Before(a) \in Nat
  BY <1>1, <1>2 DEF Before
<1>4. \A a, t \in Time : a <= t => Before(a) <= total[t]
  BY <1>1, <1>2, WindowConstants DEF Before, RunningTotal
<1>5. \A a, b \in Time : a <= b => Before(a) <= Before(b)
  <2> SUFFICES ASSUME NEW a \in Time, NEW b \in Time, a <= b
               PROVE  Before(a) <= Before(b)
    OBVIOUS
  <2>1. CASE a = 0
    BY <2>1, <1>3 DEF Before
  <2>2. CASE a # 0
    <3>1. b # 0 /\ a - 1 <= b - 1
      BY <2>2, WindowConstants
    <3> QED
      BY <3>1, <2>2, <1>2 DEF Before, RunningTotal
  <2> QED
    BY <2>1, <2>2
<1> QED
  BY <1>3, <1>4, <1>5, WindowConstants

\* Steps that change neither the clock, the configuration, the record nor the
\* running total.
LEMMA FrameInv ==
  ASSUME WindowInv, TypeOK', UNCHANGED <<now, config, spend, total>>
  PROVE  WindowInv'
<1>1. RunningTotal'
  BY DEF WindowInv, RunningTotal
<1>2. WindowHistory'
  BY DEF WindowInv, WindowHistory, Before, WindowInRange
<1>3. WindowCap'
  BY DEF WindowInv, WindowCap, Authorized, Before
<1>4. AtMostTwicePerSpan'
  BY DEF WindowInv, AtMostTwicePerSpan, Authorized, Before
<1> QED
  BY <1>1, <1>2, <1>3, <1>4 DEF WindowInv

LEMMA StoreConfigInv ==
  ASSUME WindowInv, NEW c \in Configs, WindowInRange(c), StoreConfig(c)
  PROVE  WindowInv'
<1>1. TypeOK'
  BY StoreConfigType DEF WindowInv
<1>2. spend = NoSpend /\ spend' = NoSpend /\ total' = total /\ now' = now
  BY DEF WindowInv, WindowHistory, StoreConfig
<1>3. RunningTotal'
  BY <1>2 DEF WindowInv, RunningTotal
<1>4. WindowHistory'
  BY <1>2 DEF WindowHistory, WindowInRange, StoreConfig
<1>5. WindowCap'
  BY <1>2 DEF WindowCap
<1>6. AtMostTwicePerSpan'
  <2>1. \A t \in Time : total'[t] = 0
    BY <1>2 DEF WindowInv, RunningTotal
  <2>2. config'.daily_limit \in Nat /\ now' \in Time
    BY <1>1, WindowConstants DEF StoreConfig, WindowInRange, MIN_ALLOWANCE, TypeOK
  <2> QED
    BY <2>1, <2>2, WindowConstants DEF AtMostTwicePerSpan, Authorized, Before
<1> QED
  BY <1>1, <1>3, <1>4, <1>5, <1>6 DEF WindowInv

LEMMA UninstallInv ==
  ASSUME WindowInv, Uninstall
  PROVE  WindowInv'
<1>1. TypeOK'
  BY SharedType DEF WindowInv, Shared
<1>2. spend' = NoSpend /\ total' = [t \in Time |-> 0] /\ now' = now /\ config' = config
  BY DEF Uninstall
<1>3. RunningTotal'
  BY <1>1, <1>2 DEF RunningTotal, TypeOK
<1>4. WindowHistory'
  BY <1>2 DEF WindowInv, WindowHistory, WindowInRange
<1>5. WindowCap'
  BY <1>2 DEF WindowCap
<1>6. AtMostTwicePerSpan'
  <2>1. config'.daily_limit \in Nat /\ now' \in Time
    BY <1>1, <1>2, WindowConstants
       DEF WindowInv, Uninstall, WindowHistory, WindowInRange, MIN_ALLOWANCE, TypeOK
  <2> QED
    BY <1>2, <2>1, WindowConstants DEF AtMostTwicePerSpan, Authorized, Before
<1> QED
  BY <1>1, <1>3, <1>4, <1>5, <1>6 DEF WindowInv

LEMMA LedgerCloseInv ==
  ASSUME WindowInv, LedgerClose
  PROVE  WindowInv'
<1>1. TypeOK'
  BY SharedType DEF WindowInv, Shared
<1>2. /\ now \in Time /\ now' \in Time /\ now' = now + 1
      /\ config' = config /\ spend' = spend /\ total' = total
  BY <1>1 DEF LedgerClose, WindowInv, TypeOK
<1>3. total[now'] = total[now]
  BY <1>2 DEF WindowInv, RunningTotal
<1>4. RunningTotal'
  BY <1>2, <1>3 DEF WindowInv, RunningTotal
<1>5. WindowHistory'
  <2> SUFFICES ASSUME spend # NoSpend PROVE WindowHistory'
    BY <1>2 DEF WindowInv, WindowHistory, WindowInRange
  <2>1. /\ config \in Configs /\ spend \in Allowance
        /\ config.window_seconds \in Nat
    BY WindowConstants DEF WindowInv, WindowHistory, TypeOK
  <2>2. WindowInRange(config)' /\ config' # NotDeployed
    BY <1>2 DEF WindowInv, WindowHistory, WindowInRange
  <2>3. spend'.window_start <= now'
    BY <1>2, <2>1 DEF WindowInv, WindowHistory, Allowance
  <2>4. \A t \in Time :
          t >= spend'.window_start + config'.window_seconds - 1 /\ t <= now'
            => total'[t] = total'[now']
    BY <1>2, <1>3, <2>1 DEF WindowInv, WindowHistory, Allowance
  <2>5. \A a \in 0..spend'.window_start :
          a + config'.window_seconds > spend'.window_start
            => Before(spend.window_start)' - Before(a)' <= config'.daily_limit
    BY <1>2 DEF WindowInv, WindowHistory, Before
  <2> QED
    BY <1>2, <2>2, <2>3, <2>4, <2>5 DEF WindowHistory
<1>6. WindowCap'
  BY <1>2, <1>3 DEF WindowInv, WindowCap, Authorized, Before
<1>7. AtMostTwicePerSpan'
  <2> SUFFICES ASSUME config # NotDeployed,
                      NEW a \in 0..now', NEW b \in 0..now',
                      a <= b, b - a < config.window_seconds
               PROVE  total[b] - Before(a) <= 2 * config.daily_limit
    BY <1>2 DEF AtMostTwicePerSpan, Authorized, Before
  <2>1. config.daily_limit \in Nat /\ config.window_seconds \in Nat
    BY WindowConstants
       DEF WindowInv, WindowHistory, WindowInRange, MIN_ALLOWANCE, TypeOK
  <2>2. a \in Time /\ b \in Time /\ total \in [Time -> Nat]
    BY <1>2, WindowConstants DEF WindowInv, TypeOK
  <2>3. CASE b <= now
    BY <1>2, <2>2, <2>3 DEF WindowInv, AtMostTwicePerSpan, Authorized
  <2>4. CASE b = now' /\ a <= now
    <3>1. total[now] - Before(a) <= 2 * config.daily_limit
      BY <1>2, <2>1, <2>2, <2>4 DEF WindowInv, AtMostTwicePerSpan, Authorized
    <3> QED
      BY <3>1, <1>3, <2>4
  <2>5. CASE b = now' /\ a = now'
    BY <1>2, <1>3, <2>1, <2>2, <2>5 DEF Before
  <2> QED
    BY <1>2, <2>2, <2>3, <2>4, <2>5
<1> QED
  BY <1>1, <1>4, <1>5, <1>6, <1>7 DEF WindowInv

\* What a charge does, in the terms of the invariant: ws is the start of the
\* window it is charged to, base what that window had spent before.
LEMMA ChargeFacts ==
  ASSUME WindowInv, config # NotDeployed, NEW amount \in 0..I128Max,
         Charge(amount), NEW ws, ws = CurrentAllowance.window_start,
         NEW base, base = CurrentAllowance.spent
  PROVE  /\ ws \in Time /\ base \in Nat /\ ws <= now
         /\ now < ws + config.window_seconds
         /\ base = total[now] - Before(ws)
         /\ base + amount <= config.daily_limit
         /\ spend' \in Allowance
         /\ spend'.window_start = ws /\ spend'.spent = base + amount
         /\ \A a \in 0..ws : a + config.window_seconds > ws
              => Before(ws) - Before(a) <= config.daily_limit
<1> DEFINE W == config.window_seconds
           L == config.daily_limit
<1>1. /\ config \in Configs /\ W \in Nat /\ L \in Nat /\ W >= 1
      /\ now \in Time /\ total \in [Time -> Nat]
  BY WindowConstants DEF WindowInv, WindowHistory, WindowInRange, TypeOK,
     MIN_ALLOWANCE, MIN_WINDOW_SECONDS
<1>2. CurrentAllowance \in Allowance
  BY AllowanceType DEF WindowInv
<1>3. ws \in Time /\ base \in Nat
  BY <1>2, WindowConstants DEF Allowance
<1>4. /\ base + amount <= L
      /\ spend' \in Allowance
      /\ spend'.window_start = ws /\ spend'.spent = base + amount
  <2>1. /\ base + amount <= I128Max /\ base + amount <= L
        /\ spend' = [CurrentAllowance EXCEPT !.spent = base + amount]
    BY DEF Charge
  <2>2. base + amount \in 0..I128Max
    BY <1>3, <2>1, Bounds
  <2> QED
    BY <1>2, <2>1, <2>2 DEF Allowance
<1>5. /\ \A a \in Time : Before(a) \in Nat
      /\ \A a, b \in Time : a <= b => Before(a) <= Before(b)
      /\ \A a, t \in Time : a <= t => Before(a) <= total[t]
  BY BeforeFacts DEF WindowInv
<1>6. CASE spend = NoSpend
  <2>1. ws = now /\ base = 0
    BY <1>1, <1>6 DEF CurrentAllowance
  <2>2. \A t \in Time : total[t] = 0
    BY <1>6 DEF WindowInv, RunningTotal
  <2>3. \A a \in Time : Before(a) = 0
    BY <2>2, WindowConstants DEF Before
  <2> QED
    BY <1>1, <1>3, <1>4, <2>1, <2>2, <2>3, Bounds
<1>7. CASE spend # NoSpend /\ now - spend.window_start < W
  <2>1. spend \in Allowance /\ spend.window_start <= now
    BY <1>7 DEF WindowInv, TypeOK, WindowHistory
  <2>2. ws = spend.window_start /\ base = spend.spent
    BY <1>1, <1>7, <2>1 DEF CurrentAllowance, Allowance
  <2>3. base = total[now] - Before(ws)
    BY <1>7, <2>2 DEF WindowInv, WindowCap, Authorized
  <2>4. \A a \in 0..ws : a + W > ws => Before(ws) - Before(a) <= L
    BY <1>7, <2>2 DEF WindowInv, WindowHistory
  <2> QED
    BY <1>1, <1>3, <1>4, <1>7, <2>1, <2>2, <2>3, <2>4
<1>8. CASE spend # NoSpend /\ now - spend.window_start >= W
  <2> DEFINE old == spend.window_start
  <2>1. /\ spend \in Allowance /\ old \in Time /\ old + W <= now
        /\ spend.spent = total[now] - Before(old) /\ spend.spent <= L
    BY <1>1, <1>8 DEF WindowInv, TypeOK, WindowCap, Authorized, Allowance
  <2>2. ws = now /\ base = 0
    BY <1>1, <1>8 DEF CurrentAllowance
  <2>3. now - 1 \in Time /\ now # 0 /\ now - 1 >= old + W - 1
    BY <1>1, <2>1, Bounds
  <2>4. total[now - 1] = total[now]
    BY <1>1, <1>8, <2>3 DEF WindowInv, WindowHistory
  <2>5. Before(now) = total[now]
    BY <2>3, <2>4 DEF Before
  <2>6. ASSUME NEW a \in 0..now, a + W > now
        PROVE  Before(now) - Before(a) <= L
    <3>1. a \in Time /\ old <= a
      BY <1>1, <2>1, <2>6, Bounds
    <3>2. Before(old) <= Before(a)
      BY <3>1, <2>1, <1>5
    <3>3. Before(old) \in Nat /\ Before(a) \in Nat /\ total[now] \in Nat
      BY <1>1, <1>5, <2>1, <3>1
    <3> QED
      BY <1>1, <2>1, <2>5, <3>2, <3>3
  <2>7. total[now] - Before(now) = 0 /\ total[now] \in Nat
    BY <1>1, <2>5
  <2> QED
    BY <1>1, <1>3, <1>4, <2>2, <2>6, <2>7
<1> QED
  BY <1>1, <1>6, <1>7, <1>8 DEF WindowInv, TypeOK, Allowance

LEMMA ChargeInv ==
  ASSUME WindowInv, config # NotDeployed, NEW amount \in 0..I128Max, Charge(amount)
  PROVE  WindowInv'
<1> DEFINE W == config.window_seconds
           L == config.daily_limit
<1>1. /\ config \in Configs /\ W \in Nat /\ L \in Nat /\ W >= 1
      /\ now \in Time /\ total \in [Time -> Nat] /\ amount \in Nat
  BY WindowConstants DEF WindowInv, WindowHistory, WindowInRange, TypeOK,
     MIN_ALLOWANCE, MIN_WINDOW_SECONDS
<1>2. TypeOK'
  BY ChargeType DEF WindowInv
<1> PICK ws \in Time, base \in Nat : /\ ws = CurrentAllowance.window_start
                                     /\ base = CurrentAllowance.spent
  BY AllowanceType, Bounds DEF WindowInv, Allowance
<1>3. /\ ws \in Time /\ base \in Nat /\ ws <= now
      /\ now < ws + W
      /\ base = total[now] - Before(ws)
      /\ base + amount <= L
      /\ spend' \in Allowance
      /\ spend'.window_start = ws /\ spend'.spent = base + amount
      /\ \A a \in 0..ws : a + W > ws => Before(ws) - Before(a) <= L
  BY ChargeFacts
<1>4. /\ now' = now /\ config' = config /\ spend' # NoSpend
      /\ total' \in [Time -> Nat]
      /\ \A t \in Time : t < now => total'[t] = total[t]
      /\ \A t \in Time : t >= now => total'[t] = total[t] + amount
  <2>1. spend' # NoSpend
    BY <1>3, NoSpendNoAllowance
  <2>2. total' = [t \in Time |-> IF t >= now THEN total[t] + amount ELSE total[t]]
    BY DEF Charge
  <2> QED
    BY <1>1, <1>2, <2>1, <2>2, Bounds DEF Charge, TypeOK
<1>5. /\ \A a \in Time : Before(a) \in Nat
      /\ \A a, b \in Time : a <= b => Before(a) <= Before(b)
      /\ \A a, t \in Time : a <= t => Before(a) <= total[t]
  BY BeforeFacts DEF WindowInv
<1>6. \A a \in Time : a <= now => Before(a)' = Before(a)
  BY <1>1, <1>4, Bounds DEF Before
<1>7. RunningTotal'
  <2>1. \A t \in Time : t >= now => total[t] = total[now]
    BY DEF WindowInv, RunningTotal
  <2>2. \A s, t \in Time : s <= t => total'[s] <= total'[t]
    BY <1>1, <1>4 DEF WindowInv, RunningTotal
  <2> QED
    BY <1>1, <1>4, <2>1, <2>2 DEF RunningTotal
<1>8. WindowHistory'
  <2>1. \A t \in Time : t >= ws + W - 1 /\ t <= now => total'[t] = total'[now]
    BY <1>1, <1>3
  <2>2. ASSUME NEW a \in 0..ws, a + W > ws
        PROVE  Before(ws)' - Before(a)' <= L
    <3>1. a \in Time /\ a <= now /\ ws <= now
      BY <1>1, <1>3, Bounds
    <3>2. Before(ws)' = Before(ws) /\ Before(a)' = Before(a)
      BY <3>1, <1>6
    <3>3. Before(ws) - Before(a) <= L
      BY <1>3, <2>2
    <3> QED
      BY <3>2, <3>3
  <2>3. WindowInRange(config)
    BY DEF WindowInv, WindowHistory
  <2>4. WindowInRange(config)'
    BY <1>4, <2>3 DEF WindowInRange
  <2>5. Before(spend.window_start)' = Before(ws)'
    BY <1>3 DEF Before
  <2> QED
    BY <1>3, <1>4, <2>1, <2>2, <2>4, <2>5 DEF WindowHistory
<1>9. WindowCap'
  <2>1. Authorized(spend.window_start, now)' = total'[now] - Before(ws)'
    BY <1>3, <1>4 DEF Authorized, Before
  <2>2. Before(ws)' = Before(ws) /\ Before(ws) \in Nat
    BY <1>3, <1>5, <1>6
  <2>3. total'[now] = total[now] + amount /\ total[now] \in Nat
    BY <1>1, <1>4, Bounds
  <2>4. total'[now] - Before(ws)' = spend'.spent
    BY <1>1, <1>3, <2>2, <2>3
  <2> QED
    BY <1>3, <1>4, <2>1, <2>4 DEF WindowCap
<1>10. AtMostTwicePerSpan'
  <2> SUFFICES ASSUME NEW a \in 0..now, NEW b \in 0..now, a <= b, b - a < W
               PROVE  total'[b] - Before(a)' <= 2 * L
    BY <1>4 DEF AtMostTwicePerSpan, Authorized, Before
  <2>1. a \in Time /\ b \in Time /\ Before(a)' = Before(a)
    BY <1>1, <1>6, WindowConstants
  <2>2. CASE b < now
    BY <1>4, <2>1, <2>2 DEF WindowInv, AtMostTwicePerSpan, Authorized
  <2>3. CASE b = now
    <3>1. total'[b] = Before(ws) + base + amount
      <4>1. total'[now] = total[now] + amount /\ total[now] \in Nat
        BY <1>1, <1>4, Bounds
      <4>2. Before(ws) \in Nat
        BY <1>5
      <4> QED
        BY <1>1, <1>3, <2>3, <4>1, <4>2
    <3> HIDE DEF L, W
    <3>0. /\ L \in Nat /\ Before(ws) \in Nat /\ Before(a) \in Nat
          /\ base + amount <= L
      BY <1>1, <1>3, <1>5, <2>1
    <3>2. CASE a >= ws
      <4>1. Before(ws) <= Before(a)
        BY <1>3, <1>5, <2>1, <3>2
      <4> QED
        BY <2>1, <3>0, <3>1, <4>1
    <3>3. CASE a < ws
      <4>1. Before(ws) - Before(a) <= L
        BY <1>1, <1>3, <2>1, <2>3, <3>3
      <4> QED
        BY <2>1, <3>0, <3>1, <4>1
    <3> QED
      BY <1>3, <2>1, <3>2, <3>3
  <2> QED
    BY <1>1, <2>1, <2>2, <2>3
<1> QED
  BY <1>2, <1>7, <1>8, <1>9, <1>10 DEF WindowInv

\* WindowInv is an invariant of the abstract policy.
THEOREM WindowInvariant == WindowSpec => []WindowInv
<1>1. Init => WindowInv
  <2> SUFFICES ASSUME Init PROVE WindowInv
    OBVIOUS
  <2>1. now \in Time
    BY WindowConstants DEF Init
  <2>2. TypeOK
    BY <2>1 DEF Init, TypeOK
  <2>3. RunningTotal /\ WindowHistory /\ WindowCap /\ AtMostTwicePerSpan
    BY <2>1 DEF Init, RunningTotal, WindowHistory, WindowCap, AtMostTwicePerSpan
  <2> QED
    BY <2>2, <2>3 DEF WindowInv
<1>2. WindowInv /\ [WindowNext]_vars => WindowInv'
  <2> SUFFICES ASSUME WindowInv, [WindowNext]_vars PROVE WindowInv'
    OBVIOUS
  <2>1. CASE \E c \in Configs : WindowInRange(c) /\ StoreConfig(c)
    BY <2>1, StoreConfigInv
  <2>2. CASE \E source \in Address :
               Callable(source) /\ \E amount \in 0..I128Max : Charge(amount)
    BY <2>2, ChargeInv DEF Callable
  <2>3. CASE Shared
    <3>1. TypeOK'
      BY <2>3, SharedType DEF WindowInv
    <3>2. ASSUME NEW w \in Address, Install(w) PROVE WindowInv'
      BY <3>1, <3>2, FrameInv DEF Install
    <3>3. CASE RemoveSigner
      BY <3>1, <3>3, FrameInv DEF RemoveSigner
    <3>4. ASSUME NEW k \in Entry, Restore(k) PROVE WindowInv'
      BY <3>1, <3>4, FrameInv DEF Restore
    <3> QED
      BY <2>3, <3>2, <3>3, <3>4, UninstallInv, LedgerCloseInv DEF Shared
  <2>4. CASE UNCHANGED vars
    <3>1. TypeOK'
      BY <2>4 DEF vars, WindowInv, TypeOK, Allowance
    <3> QED
      BY <2>4, <3>1, FrameInv DEF vars
  <2> QED
    BY <2>1, <2>2, <2>3, <2>4 DEF WindowNext
<1> QED
  BY <1>1, <1>2, PTL DEF WindowSpec

\* No step hands the spender a fresh budget while the policy is a signer,
\* unless window_seconds have passed since the window started.
THEOREM WindowNoEarlyReset == WindowSpec => NoEarlyReset
<1> DEFINE Budget == signer /\ spend # NoSpend =>
             /\ spend' # NoSpend
             /\ \/ spend'.spent >= spend.spent
                \/ spend'.window_start >= spend.window_start + config.window_seconds
<1>1. WindowInv /\ [WindowNext]_vars => [Budget]_vars
  <2> SUFFICES ASSUME WindowInv, WindowNext, signer, spend # NoSpend
               PROVE  /\ spend' # NoSpend
                      /\ \/ spend'.spent >= spend.spent
                         \/ spend'.window_start >= spend.window_start + config.window_seconds
    OBVIOUS
  <2>1. /\ spend \in Allowance /\ config # NotDeployed /\ config \in Configs
        /\ config.window_seconds \in Nat /\ now \in Time
    BY WindowConstants DEF WindowInv, TypeOK, WindowHistory
  <2>2. CASE spend' = spend
    BY <2>1, <2>2, Bounds DEF Allowance
  <2>3. ASSUME NEW amount \in 0..I128Max, Charge(amount)
        PROVE  /\ spend' # NoSpend
               /\ \/ spend'.spent >= spend.spent
                  \/ spend'.window_start >= spend.window_start + config.window_seconds
    <3>1. PICK ws \in Time, base \in Nat : /\ ws = CurrentAllowance.window_start
                                           /\ base = CurrentAllowance.spent
      BY <2>1, AllowanceType, Bounds DEF WindowInv, Allowance
    <3>2. /\ spend' \in Allowance
          /\ spend'.window_start = ws /\ spend'.spent = base + amount
      BY <2>1, <2>3, <3>1, ChargeFacts
    <3>3. CASE now - spend.window_start < config.window_seconds
      <4>1. base = spend.spent
        BY <2>1, <3>1, <3>3, Bounds DEF CurrentAllowance, Allowance
      <4> QED
        BY <3>2, <4>1, NoSpendNoAllowance, Bounds
    <3>4. CASE now - spend.window_start >= config.window_seconds
      <4>1. ws = now
        BY <2>1, <3>1, <3>4, Bounds DEF CurrentAllowance, Allowance
      <4>2. spend.window_start \in Nat /\ now \in Nat
        BY <2>1, Bounds DEF Allowance
      <4> QED
        BY <2>1, <3>2, <3>4, <4>1, <4>2, NoSpendNoAllowance
    <3> QED
      BY <2>1, <3>3, <3>4, Bounds DEF Allowance
  <2>4. CASE Uninstall
    BY <2>4 DEF Uninstall
  <2> QED
    BY <2>1, <2>2, <2>3, <2>4
       DEF WindowNext, Shared, StoreConfig, Install, RemoveSigner, Restore, LedgerClose
<1> QED
  BY <1>1, WindowInvariant, PTL DEF WindowSpec, NoEarlyReset

-----------------------------------------------------------------------------
(***************************************************************************)
(* Renewals                                                                *)
(***************************************************************************)
\* Every entry outlives the last authorization by RENEW_THRESHOLD ledgers: what
\* ActiveUseKeepsAlive needs to be inductive.
UseRenews ==
  \A t \in 0..now : Authorized(t, t) > 0 =>
    \A k \in Entry : Exists(k) => liveUntil[k] >= t + RENEW_THRESHOLD

\* extend_ttl leaves every entry of keys RENEW_THRESHOLD ledgers to live.
LEMMA RenewedReaches ==
  ASSUME TypeOK, NEW keys, NEW k \in Entry
  PROVE  /\ k \in keys => Renewed(keys)[k] >= now + RENEW_THRESHOLD
         /\ k \notin keys => Renewed(keys)[k] = liveUntil[k]
  BY WindowConstants DEF Renewed, TypeOK

\* A step that leaves the clock and the totals alone, and brings no entry down
\* unless to a ledger still to come, keeps UseRenews.
LEMMA FrameRenews ==
  ASSUME TypeOK, TypeOK', UseRenews, now' = now, total' = total,
         \A k \in Entry : Exists(k)' =>
            \/ Exists(k) /\ liveUntil'[k] = liveUntil[k]
            \/ liveUntil'[k] >= now + RENEW_THRESHOLD
            \/ Exists(k) /\ liveUntil[k] < now /\ liveUntil'[k] >= now
  PROVE  UseRenews'
<1> SUFFICES ASSUME NEW t \in 0..now, Authorized(t, t)' > 0, NEW k \in Entry, Exists(k)'
             PROVE  liveUntil'[k] >= t + RENEW_THRESHOLD
  BY DEF UseRenews
<1>1. Authorized(t, t) > 0
  BY DEF Authorized, Before
<1>2. Exists(k) => liveUntil[k] >= t + RENEW_THRESHOLD
  BY <1>1 DEF UseRenews
<1> QED BY <1>2, WindowConstants DEF TypeOK

\* Every step of the abstract policy keeps UseRenews.
LEMMA NextRenews ==
  ASSUME WindowInv, WindowInv', UseRenews, [WindowNext]_vars
  PROVE  UseRenews'
<1>0. TypeOK /\ TypeOK' /\ now \in Nat /\ RENEW_THRESHOLD \in Nat /\ MinTtl \in Nat
  BY WindowConstants DEF WindowInv, TypeOK
<1>1. ASSUME NEW c \in Configs, StoreConfig(c) PROVE UseRenews'
  <2>1. \A k \in Entry : Exists(k)' => (Exists(k) /\ k # "Instance") \/ k = "Instance"
    BY <1>1 DEF StoreConfig, Exists
  <2> QED BY <1>0, <1>1, <2>1, RenewedReaches, FrameRenews DEF StoreConfig
<1>2. ASSUME NEW amount \in 0..I128Max, Charge(amount) PROVE UseRenews'
  <2>1. \A k \in Entry : liveUntil'[k] >= now + RENEW_THRESHOLD
    BY <1>0, <1>2, RenewedReaches DEF Charge
  <2>2. now' = now
    BY <1>2 DEF Charge
  <2> QED BY <1>0, <2>1, <2>2 DEF UseRenews, TypeOK
<1>3. ASSUME NEW w \in Address, Install(w) PROVE UseRenews'
  <2>1. \A k \in Entry : Exists(k)' => (Exists(k) /\ k = "Spend") \/ k \in {"Instance", "Installed"}
    BY <1>3 DEF Install, Exists
  <2> QED BY <1>0, <1>3, <2>1, RenewedReaches, FrameRenews DEF Install
<1>4. CASE RemoveSigner
  BY <1>0, <1>4, FrameRenews DEF RemoveSigner, Exists
<1>5. CASE Uninstall
  <2> SUFFICES ASSUME NEW t \in 0..now PROVE Authorized(t, t)' = 0
    BY <1>5 DEF Uninstall, UseRenews
  <2>1. t \in Time /\ (t # 0 => t - 1 \in Time)
    BY <1>0, Bounds DEF TypeOK
  <2>2. total'[t] = 0 /\ (t # 0 => total'[t - 1] = 0)
    BY <1>5, <2>1 DEF Uninstall
  <2> QED BY <2>2 DEF Authorized, Before
<1>6. ASSUME NEW k \in Entry, Restore(k) PROVE UseRenews'
  <2>1. \A j \in Entry : Exists(j)' = Exists(j)
    BY <1>6 DEF Restore, Exists
  <2>2. Exists(k) /\ liveUntil[k] < now /\ liveUntil' = [liveUntil EXCEPT ![k] = now + MinTtl]
    BY <1>0, <1>6 DEF Restore, Live, TypeOK
  <2> QED BY <1>0, <1>6, <2>1, <2>2, FrameRenews DEF Restore, TypeOK
<1>7. CASE LedgerClose
  <2> SUFFICES ASSUME NEW t \in 0..now', Authorized(t, t)' > 0, NEW k \in Entry, Exists(k)'
               PROVE  liveUntil'[k] >= t + RENEW_THRESHOLD
    BY DEF UseRenews
  <2>1. now' = now + 1 /\ total' = total /\ Exists(k) /\ liveUntil' = liveUntil
    BY <1>7 DEF LedgerClose, Exists
  <2>2. Authorized(t, t) > 0
    BY <2>1 DEF Authorized, Before
  <2>3. t # now + 1
    <3> SUFFICES ASSUME t = now + 1 PROVE FALSE
      OBVIOUS
    <3>1. total[now + 1] = total[now] /\ total[now] \in Nat
      BY <1>0, <1>7, Bounds DEF LedgerClose, WindowInv, RunningTotal, TypeOK
    <3> QED BY <1>0, <2>2, <3>1 DEF Authorized, Before
  <2> QED BY <1>0, <2>1, <2>2, <2>3 DEF UseRenews
<1>8. CASE UNCHANGED vars
  BY <1>0, <1>8, FrameRenews DEF vars, Exists
<1> QED BY <1>1, <1>2, <1>3, <1>4, <1>5, <1>6, <1>7, <1>8 DEF WindowNext, Shared

\* A policy that authorized something within the last RENEW_THRESHOLD ledgers has
\* no archived entry, for every TTL and every order of calls.
THEOREM WindowKeptAlive == WindowSpec => []ActiveUseKeepsAlive
<1>1. Init => UseRenews
  <2> SUFFICES ASSUME Init, NEW t \in 0..now PROVE Authorized(t, t) = 0
    BY DEF UseRenews
  <2>1. t = 0 /\ total[0] = 0
    BY Bounds DEF Init
  <2> QED BY <2>1 DEF Authorized, Before
<1>2. WindowInv /\ UseRenews => ActiveUseKeepsAlive
  BY WindowConstants DEF WindowInv, TypeOK, UseRenews, ActiveUseKeepsAlive, Readable, Live
<1> QED BY <1>1, <1>2, NextRenews, WindowInvariant, PTL DEF WindowSpec

-----------------------------------------------------------------------------
(***************************************************************************)
(* The contracts                                                           *)
(***************************************************************************)
\* A step of spending-limit is a step of the abstract budget: no list of
\* contexts makes policy__ charge anything but one amount within i128, and the
\* constructor lets no configuration out of range through.
LEMMA SpendingStep == Next => WindowNext
<1> SUFFICES ASSUME Next PROVE WindowNext
  OBVIOUS
<1>1. CASE \E c \in Configs : Constructor(c)
  BY <1>1 DEF Constructor, WindowNext
<1>2. ASSUME NEW source \in Address, Policy(source) PROVE WindowNext
  <2>1. PICK contexts \in ContextLists : Authorizes(source, contexts) /\ Charge(Sum(contexts))
    BY <1>2 DEF Policy
  <2>2. Sum(contexts) \in 0..I128Max
    BY <2>1, Bounds DEF Authorizes
  <2> QED BY <1>2, <2>1, <2>2 DEF Policy, WindowNext
<1>3. CASE Shared
  BY <1>3 DEF WindowNext
<1> QED BY <1>1, <1>2, <1>3 DEF Next

\* The same of token-spending-limit, which parses less and accepts an empty list.
LEMMA TokenStep == Token!Next => WindowNext
<1> SUFFICES ASSUME Token!Next PROVE WindowNext
  OBVIOUS
<1>1. ASSUME NEW c \in Configs, Token!Constructor(c) PROVE WindowNext
  <2>1. WindowInRange(c) /\ StoreConfig(c)
    BY <1>1 DEF Token!Constructor, Token!WindowInRange, Token!StoreConfig, Token!Renewed, Token!Exists,
       Token!Entry, Token!MIN_ALLOWANCE, Token!MIN_WINDOW_SECONDS, WindowInRange, StoreConfig, Renewed, Exists,
       MIN_ALLOWANCE, MIN_WINDOW_SECONDS
  <2> QED BY <2>1 DEF WindowNext
<1>2. ASSUME NEW source \in Address, Token!Policy(source) PROVE WindowNext
  <2>1. PICK contexts \in Token!ContextLists :
          Token!Authorizes(source, contexts) /\ Token!Charge(Token!Sum(contexts))
    BY <1>2 DEF Token!Policy
  <2>2. Token!Sum(contexts) \in 0..I128Max
    BY <2>1, Bounds DEF Token!Authorizes
  <2>3. Callable(source)
    BY <1>2 DEF Token!Policy, Token!Callable, Token!Readable, Token!Live, Token!Exists, Token!Entry,
       Callable, Readable, Live, Exists
  <2>4. Charge(Token!Sum(contexts))
    BY <2>1 DEF Token!Charge, Token!CurrentAllowance, Token!Renewed, Token!Exists, Token!Entry, Token!Time,
       Charge, CurrentAllowance, Renewed, Exists
  <2> QED BY <2>2, <2>3, <2>4 DEF WindowNext
<1>3. CASE Token!Shared
  <2>1. Shared
    BY <1>3 DEF Token!Shared, Token!Install, Token!RemoveSigner, Token!Uninstall, Token!Restore,
       Token!LedgerClose, Token!Readable, Token!Live, Token!Exists, Token!Entry, Token!Time, Token!Renewed,
       Shared, Install, RemoveSigner, Uninstall, Restore, LedgerClose, Readable, Live, Exists, Renewed
  <2> QED BY <2>1 DEF WindowNext
<1> QED BY <1>1, <1>2, <1>3 DEF Token!Next

\* Whichever contract runs, its storage behaves as the abstract budget.
THEOREM ImplementsWindow == MCSpec => WindowSpec
<1>1. MCInit => Init
  BY DEF MCInit
<1>2. [MCNext]_<<part, vars, registry>> => [WindowNext]_vars
  BY SpendingStep, TokenStep DEF MCNext
<1> QED BY <1>1, <1>2, PTL DEF MCSpec, WindowSpec

\* The Spend record never understates what the running window authorized,
\* and never exceeds daily_limit (policy__ of both policies).
THEOREM SpendRecordExact == MCSpec => []WindowCap
<1>1. WindowInv => WindowCap
  BY DEF WindowInv
<1> QED BY <1>1, ImplementsWindow, WindowInvariant, PTL

\* At most 2 * daily_limit is authorized in any span of window_seconds.
THEOREM TwicePerSpan == MCSpec => []AtMostTwicePerSpan
<1>1. WindowInv => AtMostTwicePerSpan
  BY DEF WindowInv
<1> QED BY <1>1, ImplementsWindow, WindowInvariant, PTL

\* Nobody resets the budget of a policy that is a signer early.
THEOREM NoEarlyBudget == MCSpec => NoEarlyReset
BY ImplementsWindow, WindowNoEarlyReset, PTL

\* The registry's share: what RegistryProofs shows of the registry alone holds of
\* it in the composition.
LEMMA RegistryReadable ==
  ASSUME Registry!ShortLifetimes
  PROVE  MCSpec => []Registry!LiveReadable
<1>1. MCInit => RegistryProofs!Init
  BY DEF MCInit, Registry!Init, RegistryProofs!Init
<1>2. [MCNext]_<<part, vars, registry>> => [RegistryProofs!Next]_(RegistryProofs!registryVars)
  <2>1. Registry!Next => RegistryProofs!Next
    BY DEF Registry!Next, Registry!write_attestation, Registry!revoke, Registry!set_attestor,
       Registry!LedgerClose, Registry!RestoreInstance, Registry!RestoreRecord, Registry!Callable,
       Registry!RecordReadable, Registry!ValidExpiry, Registry!Extended, Registry!renew_instance,
       RegistryProofs!Next, RegistryProofs!write_attestation, RegistryProofs!revoke,
       RegistryProofs!set_attestor, RegistryProofs!LedgerClose, RegistryProofs!RestoreInstance,
       RegistryProofs!RestoreRecord, RegistryProofs!Callable, RegistryProofs!RecordReadable,
       RegistryProofs!ValidExpiry, RegistryProofs!Extended, RegistryProofs!renew_instance
  <2> QED BY <2>1 DEF MCNext, registry, RegistryProofs!registryVars
<1>3. RegistryProofs!LiveReadable => Registry!LiveReadable
  BY DEF RegistryProofs!LiveReadable, RegistryProofs!Unexpired, RegistryProofs!Callable,
     RegistryProofs!RecordReadable, Registry!LiveReadable, Registry!Unexpired, Registry!Callable,
     Registry!RecordReadable
<1>4. RegistryProofs!ShortLifetimes
  BY DEF Registry!ShortLifetimes, RegistryProofs!ShortLifetimes
<1>5. RegistryProofs!Spec => []RegistryProofs!LiveReadable
  BY <1>4, ContractsConstants, WindowConstants, RegistryProofs!AttestationsReadable
<1> QED BY <1>1, <1>2, <1>3, <1>5, PTL DEF MCSpec, RegistryProofs!Spec

\* EntriesKept: no entry of a policy in use, no record of an unexpired
\* attestation and no registry instance it needs is ever archived, if the
\* attestor asks for lifetimes up to RENEW_THRESHOLD (policy__'s renewals,
\* write_attestation's TTLs).
THEOREM NothingArchivedInUse ==
  ASSUME Registry!ShortLifetimes
  PROVE  MCSpec => []EntriesKept
BY ImplementsWindow, WindowKeptAlive, RegistryReadable, PTL DEF EntriesKept
=============================================================================
