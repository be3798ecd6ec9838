------------------------------- MODULE Backoff -------------------------------
(***************************************************************************)
(* ReconnectPolicy: how long the read loop waits before each dial.         *)
(* delay_for's loop is run one iteration per step.  Durations are whole    *)
(* numbers of one unit; the widths of the code's integers are parameters,  *)
(* so that the model checker meets the overflows.                          *)
(***************************************************************************)
EXTENDS Naturals

CONSTANTS Durations,     \* delays a policy may name
          Multipliers,   \* multipliers a policy may name
          MaxDuration,   \* Duration::MAX
          FractionMax,   \* u32::MAX, of the random fraction
          NanosWrap,     \* 2^64: `as u64` keeps the remainder
          MaxAttempt     \* u32::MAX, of the attempt counter

ASSUME BackoffAssumption ==
    /\ MaxDuration \in Nat /\ MaxAttempt \in Nat
    /\ Durations \subseteq 0 .. MaxDuration /\ Multipliers \subseteq Nat
    /\ {1, 60} \subseteq Durations /\ 2 \in Multipliers   \* the default policy's
    /\ FractionMax \in Nat \ {0} /\ NanosWrap \in Nat \ {0}

VARIABLES policy,   \* the ReconnectPolicy
          attempt,  \* the read loop's attempt counter
          bpc,      \* where the loop is
          step,     \* iterations of delay_for done
          delay,    \* the delay so far
          wait,     \* what jittered_delay_for returned
          last      \* history: the delay of the previous dial of this outage

backoffVars == <<policy, attempt, bpc, step, delay, wait, last>>

\* ReconnectPolicy, durations in seconds.
Policies == [initial_delay: Durations, max_delay: Durations,
             multiplier: Multipliers, jitter: BOOLEAN]

DefaultPolicy == [initial_delay |-> 1, max_delay |-> 60, multiplier |-> 2, jitter |-> TRUE]

BackoffInit ==
    /\ policy \in Policies
    /\ attempt = 0 /\ bpc = "idle" /\ step = 0 /\ delay = 0 /\ wait = 0 /\ last = 0

\* The client is built, with the policy of its ClientConfig.
Configure ==
    /\ bpc = "idle" /\ attempt = 0 /\ last = 0
    /\ policy' \in Policies
    /\ UNCHANGED <<attempt, bpc, step, delay, wait, last>>

\* The connection was lost: the wait before the next dial is computed.
StartWait ==
    /\ bpc = "idle" /\ bpc' = "grow"
    /\ step' = 0 /\ delay' = policy.initial_delay
    /\ UNCHANGED <<policy, attempt, wait, last>>

\* Mutant: an overflow wraps around instead of ending at the cap.
GrowWrapping ==
    /\ bpc = "grow" /\ step < attempt
    /\ LET product == (delay * policy.multiplier) % (MaxDuration + 1)
       IN IF product < policy.max_delay
            THEN delay' = product /\ step' = step + 1 /\ bpc' = "grow"
            ELSE delay' = policy.max_delay /\ step' = step /\ bpc' = "jitter"
    /\ UNCHANGED <<policy, attempt, wait, last>>

\* Mutant: the iteration is not counted.
GrowForever ==
    /\ bpc = "grow" /\ step < attempt
    /\ LET product == delay * policy.multiplier
       IN IF product <= MaxDuration /\ product < policy.max_delay
            THEN delay' = product /\ step' = step /\ bpc' = "grow"
            ELSE delay' = policy.max_delay /\ step' = step /\ bpc' = "jitter"
    /\ UNCHANGED <<policy, attempt, wait, last>>

\* One iteration: checked_mul, and an early return at the cap.
Grow ==
    /\ bpc = "grow" /\ step < attempt
    /\ LET product == delay * policy.multiplier
       IN IF product <= MaxDuration /\ product < policy.max_delay
            THEN delay' = product /\ step' = step + 1 /\ bpc' = "grow"
            ELSE delay' = policy.max_delay /\ step' = step /\ bpc' = "jitter"
    /\ UNCHANGED <<policy, attempt, wait, last>>

Grown ==
    /\ bpc = "grow" /\ step = attempt /\ bpc' = "jitter"
    /\ UNCHANGED <<policy, attempt, step, delay, wait, last>>

\* Equal jitter: half the delay, and a random fraction of the other half.
Jittered(half, fraction) == half + (((half * fraction) \div FractionMax) % NanosWrap)

\* The delay is jittered and the attempt counted, saturating.
Jitter ==
    /\ bpc = "jitter" /\ bpc' = "wait"
    /\ \E fraction \in 0 .. FractionMax :
          wait' = IF policy.jitter THEN Jittered(delay \div 2, fraction) ELSE delay
    /\ attempt' = IF attempt < MaxAttempt THEN attempt + 1 ELSE attempt
    /\ UNCHANGED <<policy, step, delay, last>>

\* The wait is over, and a dial is made.  It fails or works; only traffic
\* resets the counter.
WaitOver ==
    /\ bpc = "wait" /\ bpc' = "idle"
    /\ last' = delay
    /\ UNCHANGED <<policy, attempt, step, delay, wait>>

\* Something was received.
Heard ==
    /\ bpc = "idle" /\ attempt > 0
    /\ attempt' = 0 /\ last' = 0
    /\ UNCHANGED <<policy, bpc, step, delay, wait>>

BackoffNext ==
    Configure \/ StartWait \/ Grow \/ Grown \/ Jitter \/ WaitOver \/ Heard

BackoffSpec == BackoffInit /\ [][BackoffNext]_backoffVars

------------------------------------------------------------------------------
(* Properties. *)

BackoffTypeOK ==
    /\ policy \in Policies /\ attempt \in 0 .. MaxAttempt /\ step \in 0 .. MaxAttempt
    /\ bpc \in {"idle", "grow", "jitter", "wait"}
    /\ delay \in 0 .. MaxDuration /\ wait \in 0 .. MaxDuration
    /\ last \in 0 .. MaxDuration

\* m to the n-th power, for any n.
Power(m) == LET power[n \in Nat] == IF n = 0 THEN 1 ELSE m * power[n - 1] IN power

\* "The delay doubles (by multiplier) after each attempt ..., capped at max_delay"
\* (reconnect.rs:33-35): delay_for computes the smaller of max_delay and
\* initial_delay * multiplier ^ attempt, overflow or not.  Only the first delay of
\* a policy that starts above its cap is left out: the code does not cap it.
DelayIsCappedPower ==
    bpc = "jitter" /\ (attempt > 0 \/ policy.initial_delay <= policy.max_delay) =>
        LET power == policy.initial_delay * Power(policy.multiplier)[attempt]
        IN delay = IF power < policy.max_delay THEN power ELSE policy.max_delay

\* For every policy the delay is at most max_delay from the second dial of an
\* outage on, and at most initial_delay before the first, which may be the longer
\* (reconnect.rs:71-82).
DelayCapped ==
    bpc = "jitter" =>
        delay <= IF attempt = 0 THEN policy.initial_delay ELSE policy.max_delay

\* "Uniformly distributed over [delay / 2, delay], or exactly delay when jitter
\* is off" (reconnect.rs:84-85): the wait stays within those bounds although the
\* random part is narrowed to 64 bits.
JitterInRange ==
    bpc = "wait" => /\ wait <= delay
                    /\ wait >= delay \div 2
                    /\ ~policy.jitter => wait = delay

\* Within an outage the delay never shrinks, for a policy that is meant to grow.
NeverShrinks ==
    bpc = "jitter" /\ policy.multiplier > 0 /\ policy.initial_delay <= policy.max_delay
        => last <= delay

==============================================================================
