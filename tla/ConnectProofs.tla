---------------------------- MODULE ConnectProofs ----------------------------
(***************************************************************************)
(* For every set of calls, addresses, policies and integer widths: first   *)
(* what the backoff guarantees on its own, then what a redial keeps of the *)
(* connection it replaces, and that the client's waits are the backoff's.  *)
(***************************************************************************)
EXTENDS Connect, DataLemmas, TLAPS

\* While the loop runs the delay is the initial one, or below the cap; the
\* attempt counter only moves when a wait has been computed.
LoopInv ==
    /\ bpc = "grow" => /\ step <= attempt
                       /\ step = 0 => delay = policy.initial_delay
                       /\ step > 0 => delay < policy.max_delay
    /\ bpc = "jitter" => /\ attempt = 0 => delay = policy.initial_delay
                         /\ attempt > 0 => delay <= policy.max_delay

BackoffInv == BackoffTypeOK /\ LoopInv /\ DelayCapped /\ JitterInRange

\* The random part of a wait never exceeds the half it is drawn from, however
\* narrow the integer it is cast to (reconnect.rs:95-99).
LEMMA JitterBounds ==
    ASSUME NEW half \in Nat, NEW fraction \in 0 .. FractionMax
    PROVE  Jittered(half, fraction) \in half .. (half + half)
<1> DEFINE extra == (half * fraction) \div FractionMax
<1>1. half * fraction \in Nat /\ half * fraction <= half * FractionMax
  <2>1. fraction \in Nat /\ FractionMax \in Nat /\ fraction <= FractionMax
    BY BackoffAssumption
  <2>2. FractionMax - fraction \in Nat
    BY <2>1
  <2>3. half * (FractionMax - fraction) \in Nat
    BY <2>2
  <2>4. half * (FractionMax - fraction) = half * FractionMax - half * fraction
    BY <2>1
  <2>5. half * fraction \in Nat /\ half * FractionMax \in Nat
    BY <2>1
  <2> QED BY <2>3, <2>4, <2>5
<1>2. extra \in Nat /\ extra <= half
  <2> DEFINE n == half * fraction
  <2>1. n \in Nat /\ n <= half * FractionMax
    BY <1>1
  <2>2. FractionMax \in Nat /\ FractionMax > 0
    BY BackoffAssumption
  <2>3. (n \div FractionMax) \in Nat /\ FractionMax * (n \div FractionMax) <= n
    <3> HIDE DEF n
    <3> QED BY <2>1, <2>2
  <2>4. FractionMax * (n \div FractionMax) <= half * FractionMax
    <3> HIDE DEF n
    <3>1. half * FractionMax \in Nat /\ FractionMax * (n \div FractionMax) \in Nat
      BY <2>2, <2>3
    <3> QED BY <3>1, <2>1, <2>3
  <2>5. ASSUME NEW q \in Nat, FractionMax * q <= half * FractionMax PROVE q <= half
    <3>1. SUFFICES ASSUME q > half PROVE FALSE
      OBVIOUS
    <3>2. FractionMax * (q - half) > 0
      BY <2>2, <3>1
    <3>3. FractionMax * (q - half) = FractionMax * q - half * FractionMax
      BY <2>2
    <3>4. FractionMax * q \in Nat /\ half * FractionMax \in Nat
      BY <2>2
    <3> QED BY <2>5, <3>2, <3>3, <3>4
  <2> QED BY <2>3, <2>4, <2>5
<1>3. extra % NanosWrap \in Nat /\ extra % NanosWrap <= extra
  <2> HIDE DEF extra
  <2>1. NanosWrap \in Nat /\ NanosWrap > 0
    BY BackoffAssumption
  <2>2. /\ extra % NanosWrap \in Nat /\ (extra \div NanosWrap) \in Nat
        /\ extra = NanosWrap * (extra \div NanosWrap) + (extra % NanosWrap)
    BY <1>2, <2>1
  <2>3. NanosWrap * (extra \div NanosWrap) \in Nat
    BY <2>1, <2>2
  <2> QED BY <1>2, <2>2, <2>3
<1>4. Jittered(half, fraction) = half + (extra % NanosWrap)
  BY DEF Jittered
<1> HIDE DEF extra
<1> QED BY <1>2, <1>3, <1>4

\* The invariant holds of a backoff that has not begun.
LEMMA BackoffInitInv == BackoffInit => BackoffInv
BY BackoffAssumption
   DEF BackoffInit, BackoffInv, BackoffTypeOK, LoopInv, DelayCapped, JitterInRange, Policies

\* Every step of the backoff keeps the invariant.
LEMMA BackoffNextInv == BackoffInv /\ [BackoffNext]_backoffVars => BackoffInv'
<1> SUFFICES ASSUME BackoffInv, [BackoffNext]_backoffVars PROVE BackoffInv'
  OBVIOUS
<1> USE BackoffAssumption DEF BackoffInv, BackoffTypeOK, LoopInv, DelayCapped, JitterInRange
<1>p. /\ policy.initial_delay \in 0 .. MaxDuration /\ policy.max_delay \in 0 .. MaxDuration
      /\ policy.multiplier \in Nat /\ policy.jitter \in BOOLEAN
  BY Zenon DEF Policies
<1>1. CASE Configure
  BY <1>1 DEF Configure
<1>2. CASE StartWait
  BY <1>2, <1>p DEF StartWait
<1>3. CASE Grow
  <2> DEFINE product == delay * policy.multiplier
  <2>1. product \in Nat
    BY <1>p
  <2>2. /\ bpc = "grow" /\ step < attempt
        /\ IF product <= MaxDuration /\ product < policy.max_delay
             THEN delay' = product /\ step' = step + 1 /\ bpc' = "grow"
             ELSE delay' = policy.max_delay /\ step' = step /\ bpc' = "jitter"
        /\ policy' = policy /\ attempt' = attempt /\ wait' = wait /\ last' = last
    BY <1>3 DEF Grow
  <2> HIDE DEF product
  <2> QED BY <2>1, <2>2, <1>p
<1>4. CASE Grown
  BY <1>4, <1>p DEF Grown
<1>5. CASE Jitter
  <2>1. /\ bpc = "jitter" /\ bpc' = "wait"
        /\ policy' = policy /\ step' = step /\ delay' = delay /\ last' = last
        /\ attempt' \in 0 .. MaxAttempt
    BY <1>5 DEF Jitter
  <2>2. PICK fraction \in 0 .. FractionMax :
          wait' = IF policy.jitter THEN Jittered(delay \div 2, fraction) ELSE delay
    BY <1>5 DEF Jitter
  <2>3. (delay \div 2) \in Nat /\ (delay \div 2) + (delay \div 2) <= delay
    OBVIOUS
  <2>4. Jittered(delay \div 2, fraction) \in (delay \div 2) .. ((delay \div 2) + (delay \div 2))
    BY <2>3, JitterBounds
  <2>5. wait' \in (delay \div 2) .. delay /\ (~policy.jitter => wait' = delay)
    BY <2>2, <2>3, <2>4
  <2> QED BY <2>1, <2>3, <2>5
<1>6. CASE WaitOver
  BY <1>6 DEF WaitOver
<1>7. CASE Heard
  BY <1>7 DEF Heard
<1>8. CASE UNCHANGED backoffVars
  BY <1>8 DEF backoffVars
<1> QED BY <1>1, <1>2, <1>3, <1>4, <1>5, <1>6, <1>7, <1>8 DEF BackoffNext

\* Every wait the read loop ever sleeps lies between half the delay and the
\* delay; the delay is at most max_delay, but for the first of an outage, which is
\* initial_delay (reconnect.rs:71-100).
THEOREM WaitsAreBounded == BackoffSpec => [](DelayCapped /\ JitterInRange)
<1>1. BackoffInv => DelayCapped /\ JitterInRange
  BY DEF BackoffInv
<1> QED BY <1>1, BackoffInitInv, BackoffNextInv, PTL DEF BackoffSpec

\* Power satisfies its recursion.
LEMMA PowerEquation ==
    ASSUME NEW m \in Nat
    PROVE  /\ Power(m) \in [Nat -> Nat] /\ Power(m)[0] = 1
           /\ \A n \in Nat : Power(m)[n + 1] = m * Power(m)[n]
<1> DEFINE times == [x \in Nat \X Nat |-> m * x[2]]
           Defines(f) == f = [n \in Nat |-> IF n = 0 THEN 1 ELSE m * f[n - 1]]
<1>1. times \in [Nat \X Nat -> Nat] /\ \A n, d \in Nat : times[<<n, d>>] = m * d
  OBVIOUS
<1> HIDE DEF times
<1>2. PICK f : Solves(f, Nat, 1, times)
  <2>1. 1 \in Nat
    OBVIOUS
  <2> QED BY <1>1, <2>1, Recursion, Zenon
<1>3. \A n \in Nat : f[n] = IF n = 0 THEN 1 ELSE m * f[n - 1]
  <2> SUFFICES ASSUME NEW n \in Nat, n # 0 PROVE f[n] = m * f[n - 1]
    BY <1>2 DEF Solves
  <2>1. n - 1 \in Nat /\ (n - 1) + 1 = n
    OBVIOUS
  <2> QED BY <1>1, <1>2, <2>1, Zenon DEF Solves
<1>4. Defines(f)
  BY <1>2, <1>3 DEF Solves
<1>5. Defines(Power(m))
  <2>1. Defines(CHOOSE g : Defines(g))
    BY <1>4
  <2> QED BY <2>1 DEF Power
<1> HIDE DEF Defines
<1>6. \A n \in Nat : Power(m)[n] = IF n = 0 THEN 1 ELSE m * Power(m)[n - 1]
  BY <1>5 DEF Defines
<1>7. \A n \in Nat : Power(m)[n] \in Nat
  <2> DEFINE S == {n \in Nat : Power(m)[n] \in Nat}
  <2>1. 0 \in S
    BY <1>6
  <2>2. ASSUME NEW n \in Nat, n \in S PROVE n + 1 \in S
    <3>1. Power(m)[n + 1] = m * Power(m)[n]
      BY <1>6
    <3> QED BY <2>2, <3>1
  <2> HIDE DEF S
  <2>3. \A n \in Nat : n \in S
    BY <2>1, <2>2, Induction
  <2> QED BY <2>3 DEF S
<1>8. \A n \in Nat : Power(m)[n + 1] = m * Power(m)[n]
  BY <1>6
<1>9. Power(m) \in [Nat -> Nat]
  BY <1>5, <1>7 DEF Defines
<1> QED BY <1>6, <1>8, <1>9

\* A power of a positive number is positive and does not shrink.
LEMMA PowerGrows ==
    ASSUME NEW m \in Nat \ {0}, NEW i \in Nat
    PROVE  \A j \in Nat : Power(m)[i] <= Power(m)[i + j]
<1> DEFINE S == {j \in Nat : Power(m)[i] <= Power(m)[i + j]}
<1>0. /\ \A n \in Nat : Power(m)[n] \in Nat
      /\ \A n \in Nat : Power(m)[n + 1] = m * Power(m)[n]
  BY PowerEquation, Zenon
<1>1. 0 \in S
  <2>1. i + 0 = i /\ Power(m)[i] \in Nat
    BY <1>0
  <2> QED BY <2>1
<1>2. ASSUME NEW j \in Nat, j \in S PROVE j + 1 \in S
  <2> DEFINE p == Power(m)[i + j]
  <2>0. i + j \in Nat /\ i + (j + 1) = (i + j) + 1
    OBVIOUS
  <2>1. p \in Nat /\ Power(m)[i] \in Nat /\ Power(m)[i + (j + 1)] = m * p
    BY <1>0, <2>0
  <2>2. m * p >= p
    <3> HIDE DEF p
    <3>1. m - 1 \in Nat /\ (m - 1) * p \in Nat /\ m * p = (m - 1) * p + p
      BY <2>1
    <3> QED BY <2>1, <3>1
  <2>3. m * p \in Nat
    BY <2>1
  <2>4. Power(m)[i] <= p
    BY <1>2
  <2> HIDE DEF p
  <2>5. Power(m)[i] <= m * p
    BY <2>1, <2>2, <2>3, <2>4
  <2> QED BY <2>1, <2>5
<1> HIDE DEF S
<1>3. \A j \in Nat : j \in S
  BY <1>1, <1>2, Induction
<1> QED BY <1>3 DEF S

\* What the delay would be without a cap, and what it is.
Ideal(p, n) == p.initial_delay * Power(p.multiplier)[n]
Capped(p, n) ==
    IF n = 0 THEN p.initial_delay
    ELSE IF Ideal(p, n) < p.max_delay THEN Ideal(p, n) ELSE p.max_delay

\* A policy that is meant to grow.
Grows(p) == p.multiplier > 0 /\ p.initial_delay <= p.max_delay

\* What a policy is made of: naturals and a switch (ReconnectPolicy).
LEMMA PolicyTypes ==
    ASSUME NEW p \in Policies
    PROVE  p.initial_delay \in Nat /\ p.max_delay \in 0 .. MaxDuration /\ p.multiplier \in Nat
<1>1. p.initial_delay \in Durations /\ p.max_delay \in Durations /\ p.multiplier \in Multipliers
  BY DEF Policies
<1>2. (\A d \in Durations : d \in 0 .. MaxDuration) /\ \A m \in Multipliers : m \in Nat
  BY BackoffAssumption
<1>3. \A d \in 0 .. MaxDuration : d \in Nat
  OBVIOUS
<1> QED BY <1>1, <1>2, <1>3

\* One more iteration multiplies the delay once more.
LEMMA IdealEquation ==
    ASSUME NEW p \in Policies, NEW n \in Nat
    PROVE  /\ Ideal(p, n) \in Nat /\ Ideal(p, 0) = p.initial_delay
           /\ Ideal(p, n + 1) = Ideal(p, n) * p.multiplier
<1> DEFINE i == p.initial_delay
           m == p.multiplier
           q == Power(m)[n]
<1>1. i \in Nat /\ m \in Nat
  BY PolicyTypes
<1>2. q \in Nat /\ Power(m)[0] = 1 /\ Power(m)[n + 1] = m * q
  BY <1>1, PowerEquation, Zenon
<1>3. Ideal(p, n) = i * q /\ Ideal(p, 0) = i * Power(m)[0] /\ Ideal(p, n + 1) = i * Power(m)[n + 1]
  BY DEF Ideal
<1> HIDE DEF i, m, q
<1>4. i * q \in Nat /\ i * (m * q) = (i * q) * m /\ i * 1 = i
  BY <1>1, <1>2
<1> QED BY <1>2, <1>3, <1>4 DEF i, m

\* Growth never undoes itself.
LEMMA IdealGrows ==
    ASSUME NEW p \in Policies, p.multiplier > 0, NEW i \in Nat, NEW j \in Nat, i <= j
    PROVE  Ideal(p, i) <= Ideal(p, j)
<1> DEFINE d == p.initial_delay
           a == Power(p.multiplier)[i]
           b == Power(p.multiplier)[j]
<1>1. d \in Nat /\ p.multiplier \in Nat \ {0}
  BY PolicyTypes
<1>2. a \in Nat /\ b \in Nat
  BY <1>1, PowerEquation, Zenon
<1>3. a <= b
  <2>1. j - i \in Nat /\ i + (j - i) = j
    OBVIOUS
  <2> QED BY <1>1, <2>1, PowerGrows, Zenon
<1>4. Ideal(p, i) = d * a /\ Ideal(p, j) = d * b
  BY DEF Ideal
<1> HIDE DEF d, a, b
<1>5. b - a \in Nat /\ d * (b - a) \in Nat /\ d * b = d * a + d * (b - a) /\ d * a \in Nat
  BY <1>1, <1>2, <1>3
<1>6. d * a <= d * b
  BY <1>5
<1> QED BY <1>4, <1>6

\* Once the cap is reached it stays reached: the loop may stop early.
LEMMA CapStays ==
    ASSUME NEW p \in Policies, NEW i \in Nat, NEW j \in Nat, i <= j,
           i > 0, Ideal(p, i) >= p.max_delay
    PROVE  Ideal(p, j) >= p.max_delay
<1>1. p.multiplier \in Nat /\ p.max_delay \in Nat /\ Ideal(p, i) \in Nat /\ Ideal(p, j) \in Nat
  BY PolicyTypes, IdealEquation, BackoffAssumption
<1>2. CASE p.multiplier > 0
  <2>1. Ideal(p, i) <= Ideal(p, j)
    BY <1>2, IdealGrows
  <2> QED BY <1>1, <2>1
<1>3. CASE p.multiplier = 0
  <2>1. i - 1 \in Nat /\ (i - 1) + 1 = i
    OBVIOUS
  <2>2. Ideal(p, i) = Ideal(p, i - 1) * p.multiplier /\ Ideal(p, i - 1) \in Nat
    BY <2>1, IdealEquation
  <2>3. Ideal(p, i) = 0
    BY <1>3, <2>2
  <2> QED BY <1>1, <2>3
<1> QED BY <1>1, <1>2, <1>3

\* The capped delay does not shrink from one attempt to the next.
LEMMA CappedGrows ==
    ASSUME NEW p \in Policies, Grows(p), NEW n \in Nat
    PROVE  Capped(p, n) \in Nat /\ Capped(p, n) <= Capped(p, n + 1)
<1>1. /\ p.initial_delay \in Nat /\ p.max_delay \in Nat
      /\ p.multiplier > 0 /\ p.initial_delay <= p.max_delay
  BY PolicyTypes, BackoffAssumption DEF Grows
<1>2. Ideal(p, n) \in Nat /\ Ideal(p, n + 1) \in Nat /\ Ideal(p, 0) = p.initial_delay
  BY IdealEquation
<1>3. Ideal(p, n) <= Ideal(p, n + 1)
  BY <1>1, IdealGrows
<1> QED BY <1>1, <1>2, <1>3 DEF Capped

\* The loop has multiplied once per iteration, unless it stopped at a cap that
\* the remaining iterations could not have left; and what it waited before is no
\* longer than what it waits now.
PowerInv ==
    /\ bpc = "grow" => delay = Ideal(policy, step)
    /\ bpc = "jitter" => delay = Capped(policy, attempt)
    /\ Grows(policy) =>
          IF bpc = "wait" THEN delay <= Capped(policy, attempt)
                          ELSE last <= Capped(policy, attempt)

\* A client that has not lost a connection has computed no delay.
LEMMA PowerInit == BackoffInit => PowerInv
<1> SUFFICES ASSUME BackoffInit PROVE PowerInv
  OBVIOUS
<1>1. policy.initial_delay \in Nat
  BY PolicyTypes DEF BackoffInit
<1> QED BY <1>1 DEF BackoffInit, PowerInv, Capped

\* Every step of the backoff keeps it.
LEMMA PowerNext == BackoffInv /\ PowerInv /\ [BackoffNext]_backoffVars => PowerInv'
<1> SUFFICES ASSUME BackoffInv, PowerInv, [BackoffNext]_backoffVars PROVE PowerInv'
  OBVIOUS
<1>t. /\ policy \in Policies /\ attempt \in 0 .. MaxAttempt /\ step \in 0 .. MaxAttempt
      /\ delay \in Nat /\ last \in Nat /\ MaxAttempt \in Nat /\ attempt \in Nat /\ step \in Nat
  BY BackoffAssumption DEF BackoffInv, BackoffTypeOK
<1>p. policy.initial_delay \in Nat /\ policy.max_delay \in 0 .. MaxDuration /\ policy.multiplier \in Nat
  BY <1>t, PolicyTypes
<1>1. CASE Configure
  <2>1. policy' \in Policies /\ bpc' = "idle" /\ attempt' = 0 /\ last' = 0
    BY <1>1 DEF Configure
  <2>2. policy'.initial_delay \in Nat
    BY <2>1, PolicyTypes
  <2> QED BY <2>1, <2>2 DEF PowerInv, Capped
<1>2. CASE StartWait
  <2>1. /\ bpc = "idle" /\ bpc' = "grow" /\ step' = 0 /\ delay' = policy.initial_delay
        /\ policy' = policy /\ attempt' = attempt /\ last' = last
    BY <1>2 DEF StartWait
  <2>2. Ideal(policy, 0) = policy.initial_delay
    BY <1>t, IdealEquation
  <2> QED BY <2>1, <2>2 DEF PowerInv
<1>3. CASE Grow
  <2> DEFINE product == delay * policy.multiplier
  <2>1. /\ bpc = "grow" /\ step < attempt
        /\ IF product <= MaxDuration /\ product < policy.max_delay
             THEN delay' = product /\ step' = step + 1 /\ bpc' = "grow"
             ELSE delay' = policy.max_delay /\ step' = step /\ bpc' = "jitter"
        /\ policy' = policy /\ attempt' = attempt /\ last' = last
    BY <1>3 DEF Grow
  <2>2. product = Ideal(policy, step + 1) /\ Ideal(policy, step + 1) \in Nat
    BY <1>t, <2>1, IdealEquation DEF PowerInv
  <2> HIDE DEF product
  <2>3. CASE product <= MaxDuration /\ product < policy.max_delay
    BY <2>1, <2>2, <2>3 DEF PowerInv
  <2>4. CASE ~(product <= MaxDuration /\ product < policy.max_delay)
    <3>1. Ideal(policy, step + 1) >= policy.max_delay
      BY <1>p, <2>2, <2>4, BackoffAssumption
    <3>2. Ideal(policy, attempt) >= policy.max_delay /\ Ideal(policy, attempt) \in Nat
      BY <1>t, <2>1, <3>1, CapStays, IdealEquation
    <3>3. attempt # 0 /\ policy.max_delay \in Nat
      BY <1>t, <1>p, <2>1, BackoffAssumption
    <3>4. Capped(policy, attempt) = policy.max_delay
      BY <3>2, <3>3 DEF Capped
    <3> QED BY <2>1, <2>4, <3>4 DEF PowerInv
  <2> QED BY <2>3, <2>4
<1>4. CASE Grown
  <2>1. /\ bpc = "grow" /\ step = attempt /\ bpc' = "jitter"
        /\ policy' = policy /\ attempt' = attempt /\ delay' = delay /\ last' = last
    BY <1>4 DEF Grown
  <2>2. delay = Ideal(policy, attempt) /\ (attempt > 0 => delay < policy.max_delay)
    BY <2>1 DEF PowerInv, BackoffInv, LoopInv
  <2>3. Ideal(policy, 0) = policy.initial_delay
    BY <1>t, IdealEquation
  <2>4. delay = Capped(policy, attempt)
    BY <1>t, <2>2, <2>3 DEF Capped
  <2> QED BY <2>1, <2>4 DEF PowerInv
<1>5. CASE Jitter
  <2>1. /\ bpc = "jitter" /\ bpc' = "wait" /\ policy' = policy /\ delay' = delay
        /\ attempt' = IF attempt < MaxAttempt THEN attempt + 1 ELSE attempt
    BY <1>5 DEF Jitter
  <2>2. delay = Capped(policy, attempt)
    BY <2>1 DEF PowerInv
  <2>3. Grows(policy) => delay <= Capped(policy, attempt + 1)
    BY <1>t, <2>2, CappedGrows
  <2> QED BY <1>t, <2>1, <2>2, <2>3 DEF PowerInv
<1>6. CASE WaitOver
  <2>1. /\ bpc = "wait" /\ bpc' = "idle" /\ last' = delay /\ policy' = policy
        /\ attempt' = attempt
    BY <1>6 DEF WaitOver
  <2> QED BY <2>1 DEF PowerInv
<1>7. CASE Heard
  <2>1. bpc = "idle" /\ bpc' = bpc /\ attempt' = 0 /\ last' = 0 /\ policy' = policy
    BY <1>7 DEF Heard
  <2> QED BY <1>p, <2>1 DEF PowerInv, Capped
<1>8. CASE UNCHANGED backoffVars
  BY <1>8 DEF backoffVars, PowerInv
<1> QED BY <1>1, <1>2, <1>3, <1>4, <1>5, <1>6, <1>7, <1>8 DEF BackoffNext

\* The delay follows the power in every state of the backoff.
LEMMA PowerAlways == BackoffSpec => [](BackoffInv /\ PowerInv)
BY BackoffInitInv, BackoffNextInv, PowerInit, PowerNext, PTL DEF BackoffSpec

\* The loop computes the capped power of the policy, whatever the widths of the
\* integers: neither the early return nor an overflow shows.  The first delay of a
\* policy that starts above its cap is left out (reconnect.rs:71-82).
THEOREM DelayIsThePower == BackoffSpec => []DelayIsCappedPower
<1>1. ASSUME BackoffInv, PowerInv, bpc = "jitter",
             attempt > 0 \/ policy.initial_delay <= policy.max_delay
      PROVE  delay = IF Ideal(policy, attempt) < policy.max_delay
                       THEN Ideal(policy, attempt) ELSE policy.max_delay
  <2>1. policy \in Policies /\ attempt \in Nat
    BY <1>1, BackoffAssumption DEF BackoffInv, BackoffTypeOK
  <2>2. policy.initial_delay \in Nat /\ policy.max_delay \in Nat
    BY <2>1, PolicyTypes, BackoffAssumption
  <2>3. Ideal(policy, 0) = policy.initial_delay /\ delay = Capped(policy, attempt)
    BY <1>1, <2>1, IdealEquation DEF PowerInv
  <2> QED BY <1>1, <2>1, <2>2, <2>3 DEF Capped
<1>2. BackoffInv /\ PowerInv => DelayIsCappedPower
  BY <1>1 DEF DelayIsCappedPower, Ideal
<1> QED BY <1>2, PowerAlways, PTL

\* Within an outage no wait is computed from a smaller delay than the one before,
\* even when the attempt counter saturates (client.rs:390-399).
THEOREM DelaysNeverShrink == BackoffSpec => []NeverShrinks
<1>1. BackoffInv /\ PowerInv => NeverShrinks
  BY DEF PowerInv, NeverShrinks, Grows
<1> QED BY <1>1, PowerAlways, PTL

------------------------------------------------------------------------------

Dialling == {"resolve", "tcp", "shake"}

\* A WebSocketReconnector built from options that may be absent.
Built(address, version, options) ==
    [address |-> address, protocols |-> <<version>>,
     username |-> Given(options, "username"), password |-> Given(options, "password"),
     tls_config |-> Given(options, "tls_config")]

\* What the WebSocketReconnector of this call's client dials.
BuiltIn == Built(call.address, client, call.options)

PcInv ==
    /\ call \in Calls /\ client \in Versions \cup {None}
    /\ cpc \in {"start", "up", "failed", "wait", "quiet"} \cup Dialling
    /\ cpc \in {"start", "failed"} => client = None
    /\ cpc \in {"up", "wait", "quiet"} => client # None
    /\ cpc = "wait" => config.reconnector # None
    /\ redialled => client # None

\* The first dial: what it asks for, and what connect_X prepared before it.
FirstInv ==
    /\ cpc \in Dialling /\ client = None =>
          /\ hello = Request(call.address, Offered(call), call.options)
          /\ first = hello
          /\ call.entry \in {"connect", "connect_X"}
          /\ call.entry = "connect_X" =>
                config = Prepare(call.address, Head(call.versions), call.options)
    /\ client # None /\ call.entry # "from_transport" =>
          /\ first = Request(call.address, Offered(call), call.options)
          /\ client \in Listed(Offered(call))

\* The configuration of a client: the reconnector is the caller's, or dials what
\* this call dialled and offers the version negotiated.
ConfigInv ==
    client # None =>
        /\ config.reconnect_policy \in Policies
        /\ config.reconnector \in {None, Custom, BuiltIn}
        /\ config.reconnector # None =>
              call.options = None \/ call.options.reconnect # None
        /\ call.entry = "from_transport" => config.reconnector \in {None, Custom}
        /\ call.entry # "from_transport" =>
              config = Prepare(call.address, client, call.options)

\* A redial asks for the negotiated version, and gets it.
RedialInv ==
    /\ redialled => config.reconnector # None
    /\ redialled /\ Contract => hello = Request(call.address, <<client>>, call.options)
    /\ cpc \in Dialling /\ client # None => redialled
    /\ SpeaksNegotiated

ConnectInv == PcInv /\ FirstInv /\ ConfigInv /\ RedialInv

\* A reconnector is chosen as the code documents it.
LEMMA RediallerChoice ==
    ASSUME NEW c \in Calls, NEW v \in Versions, NEW a
    PROVE  LET prepared == Prepare(a, v, c.options)
           IN /\ prepared.reconnector \in {None, Custom, Built(a, v, c.options)}
              /\ prepared.reconnector # None => c.options = None \/ c.options.reconnect # None
              /\ prepared.reconnect_policy \in Policies
<1> DEFINE o == c.options
           r == Reconnect(o)
<1>1. DefaultPolicy \in Policies
  BY BackoffAssumption DEF DefaultPolicy, Policies
<1>2. r \in Policies \cup {None}
  BY ConnectAssumption, <1>1 DEF Reconnect, DefaultReconnect
<1>3. o # None => r = o.reconnect
  BY DEF Reconnect
<1>4. Prepare(a, v, o).reconnector = Redialler(a, v, o)
  BY DEF Prepare, NewConfig
<1>5. Prepare(a, v, o).reconnect_policy = IF r = None THEN DefaultPolicy ELSE r
  BY DEF Prepare, NewConfig
<1>6. Redialler(a, v, o) # None => r # None
  BY DEF Redialler
<1>7. Redialler(a, v, o) \in {None, Custom, Built(a, v, o)}
  <2>1. Given(o, "reconnector") # None => o.reconnector = Custom
    BY ConnectAssumption DEF Given
  <2>2. \/ Redialler(a, v, o) = None
        \/ Given(o, "reconnector") # None /\ Redialler(a, v, o) = o.reconnector
        \/ Redialler(a, v, o) = Built(a, v, o)
    BY Zenon DEF Redialler, Built
  <2> QED BY <2>1, <2>2
<1>8. Prepare(a, v, o).reconnect_policy \in Policies
  BY <1>1, <1>2, <1>5
<1> QED BY <1>3, <1>4, <1>6, <1>7, <1>8

\* A dial with what a reconnector was built from is the dial it was built after.
LEMMA BuiltDials ==
    ASSUME NEW a, NEW v, NEW options, NEW protocols, Built(a, v, options) # None
    PROVE  Request(a, protocols, Built(a, v, options)) = Request(a, protocols, options)
<1> DEFINE b == Built(a, v, options)
<1>1. /\ b.username = Given(options, "username") /\ b.password = Given(options, "password")
      /\ b.tls_config = Given(options, "tls_config")
  BY DEF Built
<1>2. Authorization(b) = IF options = None THEN None ELSE Authorization(options)
  BY <1>1 DEF Authorization, Given
<1>3. b.tls_config = IF options = None THEN None ELSE options.tls_config
  BY <1>1 DEF Given
<1> HIDE DEF b
<1> QED BY <1>2, <1>3 DEF Request, b

\* No call has been made yet.
LEMMA ConnectInit == Init => ConnectInv
BY ConnectAssumption
   DEF Init, ConnectInv, PcInv, FirstInv, ConfigInv, RedialInv, SpeaksNegotiated, Contract,
       Dialling

\* Every step keeps the invariant.
LEMMA ConnectNext == ConnectInv /\ [Next]_vars => ConnectInv'
<1> SUFFICES ASSUME ConnectInv, [Next]_vars PROVE ConnectInv'
  OBVIOUS
<1> USE DEF ConnectInv, PcInv, RedialInv, SpeaksNegotiated, Contract, Dialling
<1>1. CASE Call
  BY <1>1, ConnectAssumption DEF Call, FirstInv, ConfigInv
<1>2. CASE FromTransport
  <2>1. /\ call.entry = "from_transport" /\ call' = call /\ call.options # None
        /\ call.options.reconnect \in Policies /\ call.options.reconnector \in {None, Custom}
        /\ client' \in Versions
    BY <1>2, ConnectAssumption DEF FromTransport
  <2>2. /\ config'.reconnector = call.options.reconnector
        /\ config'.reconnect_policy = call.options.reconnect
    BY <1>2 DEF FromTransport, NewConfig
  <2>3. call.options.reconnect # None
    BY <2>1, ConnectAssumption
  <2>4. ConfigInv'
    BY <2>1, <2>2, <2>3 DEF ConfigInv
  <2>5. FirstInv'
    BY <1>2, <2>1, ConnectAssumption DEF FromTransport, FirstInv
  <2> QED BY <1>2, <2>1, <2>4, <2>5, ConnectAssumption DEF FromTransport
<1>3. CASE Resolve
  BY <1>3, Zenon DEF Resolve, FirstInv, ConfigInv, BuiltIn
<1>4. CASE TcpConnect
  BY <1>4, Zenon DEF TcpConnect, FirstInv, ConfigInv, BuiltIn
<1>5. ASSUME NEW v \in Versions, Negotiate(v) PROVE ConnectInv'
  <2>1. /\ cpc = "shake" /\ client = None /\ v \in Listed(Offered(call))
        /\ call.entry \in {"connect", "connect_X"}
    BY <1>5 DEF Negotiate, Accepted, FirstInv, Request
  <2>2. call' = call /\ conn' = v /\ cpc' = "up" /\ hello' = hello /\ first' = first
        /\ redialled' = redialled
    BY <1>5 DEF Negotiate
  <2>3. client' = v
    <3>1. CASE call.entry = "connect"
      BY <3>1, <1>5 DEF Negotiate
    <3>2. CASE call.entry = "connect_X"
      <4>1. PICK w \in Versions : call.versions = <<w>>
        BY <3>2, ConnectAssumption
      <4>2. Listed(Offered(call)) = {w}
        <5>1. Offered(call) = <<w>>
          <6>1. call.versions # None
            BY <3>2, ConnectAssumption
          <6> QED BY <6>1, <4>1 DEF Offered
        <5> QED BY <5>1 DEF Listed
      <4> QED BY <1>5, <2>1, <3>2, <4>1, <4>2 DEF Negotiate
    <3> QED BY <2>1, <3>1, <3>2
  <2>4. config' = Prepare(call.address, v, call.options)
    <3>1. call.entry = "connect_X" => Head(call.versions) = v
      BY <1>5, <2>3 DEF Negotiate
    <3> QED BY <1>5, <2>1, <3>1 DEF Negotiate, FirstInv
  <2>5. v # None
    BY ConnectAssumption
  <2>6. ConfigInv'
    <3>1. BuiltIn' = Built(call.address, v, call.options)
      BY <2>2, <2>3 DEF BuiltIn
    <3> QED BY <2>1, <2>2, <2>3, <2>4, <3>1, RediallerChoice DEF ConfigInv
  <2>7. FirstInv'
    BY <2>1, <2>2, <2>3, <2>5 DEF FirstInv
  <2>8. ~redialled
    BY <2>1, Zenon
  <2> QED BY <2>1, <2>2, <2>3, <2>5, <2>6, <2>7, <2>8, Zenon
<1>6. ASSUME NEW v \in Versions, Replace(v) PROVE ConnectInv'
  <2>1. Contract => v = client
    <3>1. SUFFICES ASSUME Contract PROVE v = client
      OBVIOUS
    <3>2. hello.protocols = <<client>>
      BY <1>6, <3>1 DEF Replace, Request
    <3> QED BY <1>6, <3>2 DEF Replace, Accepted, Listed
  <2> QED BY <1>6, <2>1, Zenon DEF Replace, FirstInv, ConfigInv, BuiltIn
<1>7. CASE DialFails
  BY <1>7, Zenon DEF DialFails, FirstInv, ConfigInv, BuiltIn
<1>8. ASSUME NEW m, Receive(m) PROVE ConnectInv'
  BY <1>8, Zenon DEF Receive, connectVars, FirstInv, ConfigInv, BuiltIn
<1>9. CASE Lost
  BY <1>9, Zenon DEF Lost, FirstInv, ConfigInv, BuiltIn
<1>10. CASE Waiting
  BY <1>10, Zenon DEF Waiting, connectVars, FirstInv, ConfigInv, BuiltIn
<1>11. CASE Redial
  <2>1. config.reconnector = BuiltIn
    BY <1>11, Zenon DEF Redial, ConfigInv
  <2>2. hello' = Request(call.address, <<client>>, BuiltIn) /\ BuiltIn # None
    <3>1. BuiltIn.address = call.address /\ BuiltIn.protocols = <<client>>
      BY DEF BuiltIn, Built
    <3>2. hello' = Request(BuiltIn.address, BuiltIn.protocols, BuiltIn) /\ BuiltIn # None
      BY <1>11, <2>1, Zenon DEF Redial
    <3> QED BY <3>1, <3>2, Zenon
  <2>3. hello' = Request(call.address, <<client>>, call.options)
    BY <2>2, BuiltDials, Zenon DEF BuiltIn
  <2> QED BY <1>11, <2>3, Zenon DEF Redial, FirstInv, ConfigInv, BuiltIn
<1>12. ASSUME NEW a, NEW v, RedialCustom(a, v) PROVE ConnectInv'
  <2>1. /\ UNCHANGED <<call, first, config, client, conn>> /\ config.reconnector = Custom
        /\ cpc = "wait" /\ cpc' = "resolve" /\ redialled' = TRUE
    BY <1>12, Zenon DEF RedialCustom
  <2> QED BY <2>1, Zenon DEF FirstInv, ConfigInv, BuiltIn
<1>13. ASSUME UNCHANGED <<call, cpc, hello, first, config, client, conn, redialled>>
       PROVE  ConnectInv'
  BY <1>13 DEF FirstInv, ConfigInv, BuiltIn
<1>14. ASSUME NEW f, Refuse(f) PROVE ConnectInv'
  <2>1. UNCHANGED <<call, cpc, hello, first, config, client, conn, redialled>>
    BY <1>14, Zenon DEF Refuse
  <2> QED BY <1>13, <2>1
<1>15. ASSUME NEW c, HandlerRefuses(c) \/ Refused(c) PROVE ConnectInv'
  <2>1. UNCHANGED <<call, cpc, hello, first, config, client, conn, redialled>>
    BY <1>15, Zenon DEF HandlerRefuses, Refused
  <2> QED BY <1>13, <2>1
<1>16. CASE UNCHANGED vars
  <2>1. UNCHANGED <<call, cpc, hello, first, config, client, conn, redialled>>
    BY <1>16, Zenon DEF vars, connectVars
  <2> QED BY <1>13, <2>1
<1> QED BY <1>1, <1>2, <1>3, <1>4, <1>5, <1>6, <1>7, <1>8, <1>9, <1>10, <1>11, <1>12,
           <1>14, <1>15, <1>16, Zenon DEF Next

\* The invariant holds throughout.
LEMMA ConnectAlways == Spec => []ConnectInv
BY ConnectInit, ConnectNext, PTL DEF Spec

\* After any number of redials the peer speaks the version the client's handlers
\* are bound to (connect.rs:202-263, 399-438).
THEOREM VersionSurvivesRedials == Spec => []SpeaksNegotiated
<1>1. ConnectInv => SpeaksNegotiated
  BY DEF ConnectInv, RedialInv
<1> QED BY <1>1, ConnectAlways, PTL

\* A redial goes to the same address with the same credentials and TLS
\* configuration, and offers nothing that was not offered at first
\* (connect.rs:42-44).
THEOREM CredentialsSurviveRedials == Spec => []SameCredentials
<1>1. ConnectInv => SameCredentials
  <2>1. SUFFICES ASSUME ConnectInv, Contract, redialled PROVE SameCredentials
    BY DEF SameCredentials
  <2>2. call.entry # "from_transport"
    <3>1. SUFFICES ASSUME call.entry = "from_transport" PROVE FALSE
      OBVIOUS
    <3> QED BY <2>1, <3>1 DEF ConnectInv, PcInv, ConfigInv, RedialInv, Contract
  <2>3. /\ first = Request(call.address, Offered(call), call.options)
        /\ hello = Request(call.address, <<client>>, call.options)
        /\ client \in Listed(Offered(call))
    BY <2>1, <2>2 DEF ConnectInv, PcInv, FirstInv, RedialInv
  <2>4. hello.protocols = <<client>> /\ first.protocols = Offered(call)
    BY <2>3 DEF Request
  <2>5. Listed(<<client>>) = {client}
    BY DEF Listed
  <2>6. /\ hello.address = first.address /\ hello.auth = first.auth
        /\ hello.tls = first.tls
    BY <2>3 DEF Request
  <2> QED BY <2>3, <2>4, <2>5, <2>6 DEF SameCredentials
<1> QED BY <1>1, ConnectAlways, PTL

\* A client told not to reconnect never does, whatever reconnector it was given
\* (connect.rs:57-58).
THEOREM DisabledWins == Spec => []DisabledStaysDown
<1>1. ConnectInv => DisabledStaysDown
  BY DEF ConnectInv, PcInv, ConfigInv, RedialInv, DisabledStaysDown
<1> QED BY <1>1, ConnectAlways, PTL

\* A call without options dials, and leaves a client configured, as one with the
\* default options (connect.rs:323-325).
THEOREM AbsentIsDefault == Spec => []AbsentMeansDefault
<1>1. ConnectInv => AbsentMeansDefault
  <2>1. SUFFICES ASSUME ConnectInv, client # None, call.options = None
                 PROVE  /\ first = Request(call.address, Offered(call), Default)
                        /\ config = Prepare(call.address, client, Default)
    BY DEF AbsentMeansDefault
  <2>2. call.entry # "from_transport"
    BY <2>1, ConnectAssumption DEF ConnectInv, PcInv
  <2>3. /\ first = Request(call.address, Offered(call), None)
        /\ config = Prepare(call.address, client, None)
    BY <2>1, <2>2, Zenon DEF ConnectInv, FirstInv, ConfigInv
  <2>4. \A f \in {"timeout", "username", "password", "tls_config", "reconnector"} :
            Given(Default, f) = Given(None, f)
    BY DEF Given, Default
  <2>5. /\ Timeout(Default) = Timeout(None) /\ KeepaliveOf(Default) = KeepaliveOf(None)
        /\ Reconnect(Default) = Reconnect(None)
    <3>1. /\ Default.keepalive = DefaultKeepalive /\ Default.reconnect = DefaultReconnect
          /\ Given(Default, "timeout") = None /\ Given(None, "timeout") = None
      BY DEF Default, Given
    <3> QED BY <3>1, Zenon DEF Timeout, KeepaliveOf, Reconnect
  <2>6. Redialler(call.address, client, Default) = Redialler(call.address, client, None)
    <3>1. Given(Default, "reconnector") = None /\ Given(None, "reconnector") = None
      BY DEF Default, Given
    <3> QED BY <2>4, <2>5, <3>1 DEF Redialler
  <2>7. Prepare(call.address, client, Default) = Prepare(call.address, client, None)
    BY <2>5, <2>6, Zenon DEF Prepare
  <2>8. Request(call.address, Offered(call), Default) = Request(call.address, Offered(call), None)
    <3>1. Authorization(Default) = None /\ Default.tls_config = None
      BY DEF Default, Authorization
    <3> QED BY <3>1, Zenon DEF Request
  <2> QED BY <2>3, <2>7, <2>8, Zenon
<1> QED BY <1>1, ConnectAlways, PTL

\* Within one version no code is lost on the wire.
LEMMA SameVersion ==
    ASSUME NEW v \in Versions
    PROVE  /\ \A f \in Faults : FromWire(v, ErrorCode(v, f)) = ErrorCode(v, f)
           /\ \A c \in Spelled(v) : FromWire(v, c) = c
<1> USE DEF Versions, FromWire, Understood, Understood16, Understood201, Understood21
<1>1. \A f \in Faults : FromWire(v, ErrorCode(v, f)) = ErrorCode(v, f)
  BY DEF Faults, ErrorCode, not_implemented, Validation16, Validation201, Validation21
<1>2. \A c \in Spelled(v) : FromWire(v, c) = c
  BY DEF Spelled, Spelled16, Spelled201, Spelled21
<1> QED BY <1>1, <1>2

ErrorInv == (client = None => error = None) /\ ErrorsSurvive

\* Every step keeps the error exchanged intact.
LEMMA ErrorNext == ConnectInv /\ ErrorInv /\ [Next]_vars => ErrorInv'
<1> SUFFICES ASSUME ConnectInv, ErrorInv, [Next]_vars PROVE ErrorInv'
  OBVIOUS
<1> USE DEF ErrorInv, ErrorsSurvive, Contract
<1>1. CASE Call \/ Resolve \/ TcpConnect \/ DialFails \/ Redial
  BY <1>1 DEF Call, Resolve, TcpConnect, DialFails, Redial, ConnectInv, PcInv
<1>2. CASE FromTransport
  <2>1. error = None /\ error' = error
    BY <1>2 DEF FromTransport, ConnectInv, PcInv
  <2> QED BY <2>1
<1>3. ASSUME NEW v, Negotiate(v) \/ Replace(v) PROVE ErrorInv'
  BY <1>3, Zenon DEF Negotiate, Replace
<1>4. CASE Lost
  BY <1>4 DEF Lost
<1>5. ASSUME NEW m, Receive(m) \/ Waiting PROVE ErrorInv'
  BY <1>5 DEF Receive, Waiting, connectVars
<1>6. ASSUME NEW a, NEW v, RedialCustom(a, v) PROVE ErrorInv'
  BY <1>6, Zenon DEF RedialCustom
<1>7. ASSUME NEW f \in Faults, Refuse(f) PROVE ErrorInv'
  <2>1. Contract => conn = client /\ client \in Versions
    BY <1>7 DEF Refuse, ConnectInv, PcInv, RedialInv, SpeaksNegotiated
  <2>2. Contract => FromWire(conn, ErrorCode(client, f)) = ErrorCode(client, f)
    BY <2>1, SameVersion
  <2> QED BY <1>7, <2>2 DEF Refuse, ConnectInv, PcInv
<1>8. ASSUME NEW c, HandlerRefuses(c) \/ Refused(c) PROVE ErrorInv'
  <2>1. Contract => conn = client /\ client \in Versions
    BY <1>8, Zenon DEF HandlerRefuses, Refused, ConnectInv, PcInv, RedialInv,
       SpeaksNegotiated
  <2>2. Contract => FromWire(conn, c) = c /\ FromWire(client, c) = c
    BY <1>8, <2>1, SameVersion, Zenon DEF HandlerRefuses, Refused
  <2>3. client # None /\ UNCHANGED <<client, config>>
    BY <1>8, Zenon DEF HandlerRefuses, Refused, ConnectInv, PcInv
  <2>4. \E u \in {FromWire(conn, c), FromWire(client, c)} :
            error' = [meant |-> c, understood |-> u]
    BY <1>8, Zenon DEF HandlerRefuses, Refused
  <2> QED BY <2>2, <2>3, <2>4
<1>9. CASE UNCHANGED vars
  BY <1>9 DEF vars, connectVars
<1> QED BY <1>1, <1>2, <1>3, <1>4, <1>5, <1>6, <1>7, <1>8, <1>9 DEF Next

\* Neither side ever takes an error for another (ocpp_1_6/error.rs:82-87).
THEOREM ErrorsAreUnderstood == Spec => []ErrorsSurvive
<1>1. Init => ErrorInv
  BY DEF Init, ErrorInv, ErrorsSurvive
<1>2. ErrorInv => ErrorsSurvive
  BY DEF ErrorInv
<1> QED BY <1>1, <1>2, ErrorNext, ConnectAlways, PTL DEF Spec

\* The backoff runs only while the client waits, and has not begun before there
\* is a client.
PhaseInv ==
    /\ cpc = "wait" \/ bpc = "idle"
    /\ client = None => attempt = 0 /\ last = 0

\* Every step is a step of the backoff, or leaves it alone.
LEMMA BackoffStep ==
    ConnectInv /\ ConnectInv' /\ PhaseInv /\ [Next]_vars => [BackoffNext]_backoffVars /\ PhaseInv'
<1> SUFFICES ASSUME ConnectInv, ConnectInv', PhaseInv, [Next]_vars
             PROVE  [BackoffNext]_backoffVars /\ PhaseInv'
  OBVIOUS
<1> USE DEF ConnectInv, PcInv, PhaseInv, BackoffNext, backoffVars
<1>1. CASE Call \/ Resolve \/ TcpConnect
  BY <1>1 DEF Call, Resolve, TcpConnect
<1>2. CASE FromTransport
  <2>1. client' # None /\ policy' \in Policies
    BY <1>2, ConnectAssumption DEF FromTransport, ConfigInv, NewConfig
  <2> QED BY <1>2, <2>1 DEF FromTransport, Configure
<1>3. ASSUME NEW v \in Versions, Negotiate(v) PROVE [BackoffNext]_backoffVars /\ PhaseInv'
  <2>1. client' # None /\ policy' \in Policies
    BY <1>3, Zenon DEF Negotiate, ConfigInv
  <2> QED BY <1>3, <2>1, Zenon DEF Negotiate, Configure
<1>4. ASSUME NEW v, Replace(v) PROVE [BackoffNext]_backoffVars /\ PhaseInv'
  BY <1>4 DEF Replace
<1>5. CASE DialFails
  BY <1>5 DEF DialFails, StartWait
<1>6. CASE Lost
  BY <1>6 DEF Lost, StartWait
<1>7. ASSUME NEW m, Receive(m) PROVE [BackoffNext]_backoffVars /\ PhaseInv'
  BY <1>7 DEF Receive, Heard, connectVars
<1>8. CASE Waiting
  BY <1>8 DEF Waiting, Grow, Grown, Jitter, connectVars
<1>9. CASE Redial
  BY <1>9 DEF Redial, WaitOver
<1>10. ASSUME NEW a, NEW v, RedialCustom(a, v) PROVE [BackoffNext]_backoffVars /\ PhaseInv'
  BY <1>10 DEF RedialCustom, WaitOver
<1>11. ASSUME NEW f, Refuse(f) \/ HandlerRefuses(f) \/ Refused(f)
       PROVE  [BackoffNext]_backoffVars /\ PhaseInv'
  BY <1>11 DEF Refuse, HandlerRefuses, Refused
<1>12. CASE UNCHANGED vars
  BY <1>12 DEF vars, connectVars
<1> QED BY <1>1, <1>2, <1>3, <1>4, <1>5, <1>6, <1>7, <1>8, <1>9, <1>10, <1>11, <1>12, Zenon DEF Next

\* The client's waits are the backoff's: only traffic restarts it, neither a
\* redial that works nor one that fails (client.rs:390-420).
LEMMA ConnectImplementsBackoff == Spec => BackoffSpec
<1>1. Init => BackoffInit /\ PhaseInv
  <2>1. DefaultPolicy \in Policies
    BY BackoffAssumption DEF DefaultPolicy, Policies
  <2> QED BY <2>1 DEF Init, BackoffInit, PhaseInv
<1> QED BY <1>1, BackoffStep, ConnectAlways, PTL DEF Spec, BackoffSpec

\* So in a client, whatever its policy, a wait is within the jitter's range of a
\* delay that is at most max_delay before every dial of an outage but the first,
\* and at most initial_delay before that (reconnect.rs:71-100, client.rs:390-420).
THEOREM ClientWaitsAreBounded == Spec => [](DelayCapped /\ JitterInRange)
BY ConnectImplementsBackoff, WaitsAreBounded, PTL

\* So the delay a client computes before each dial, jitter aside, is the capped
\* power of its policy, and within an outage it does not shrink if the policy
\* is meant to grow (reconnect.rs:71-82, driven by client.rs:390-420).
THEOREM ClientDelaysFollowThePower == Spec => [](DelayIsCappedPower /\ NeverShrinks)
<1>1. Spec => BackoffSpec
  BY ConnectImplementsBackoff
<1>2. BackoffSpec => []DelayIsCappedPower
  BY DelayIsThePower
<1>3. BackoffSpec => []NeverShrinks
  BY DelaysNeverShrink
<1> QED BY <1>1, <1>2, <1>3, PTL

==============================================================================
