------------------------------- MODULE Backoff -------------------------------
(***************************************************************************)
(* How long the server waits before it retries an execution, offers one to *)
(* an executor that rejected, or repeats a call of the backend.  All three *)
(* double and must stop somewhere: numbers have a width, and the checked   *)
(* and saturating operations of the code are modelled by what they return. *)
(***************************************************************************)
EXTENDS Integers, FiniteSetsExt, Functions

CONSTANTS
  U32Max, DurationMax,       \* the largest u32 and Duration
  MaxRetryBackoff,           \* MAX_RETRY_BACKOFF
  MinRejection, MaxRejection,  \* MIN_REJECTION_BACKOFF, MAX_REJECTION_BACKOFF
  FirstDelay, MaxDelay,      \* of retry_backend: 100 ms, BACKEND_ERROR_DELAY
  Durations, NoMaximum,      \* the durations of a retry policy
  MaxAttempts                \* bound: of attempts and rejections

\* The longest delays can be represented.
ASSUME WidthsAssumption ==
  /\ U32Max \in Nat \ {0} /\ DurationMax \in Nat /\ MaxAttempts \in Nat
  /\ MaxRetryBackoff \in 0..DurationMax
  /\ MinRejection \in Nat \ {0} /\ MaxRejection \in MinRejection..DurationMax
  /\ MaxRejection <= MinRejection * U32Max

\* A policy need not have a maximum.
ASSUME DurationsAssumption == Durations \subseteq Nat /\ NoMaximum \notin Nat

VARIABLES
  policy,      \* a RetryPolicy
  attempt,     \* attempt_number
  delay,       \* the delay before the retry of this attempt
  rejections,  \* consecutive_rejections
  rejectionDelay,  \* the backoff after the last of them, 0 if it was accepted
  callDelay    \* of the next repetition of a backend call

backoffVars == <<policy, attempt, delay, rejections, rejectionDelay, callDelay>>

\* 2^n, exactly.
Pow2[n \in Nat] == IF n = 0 THEN 1 ELSE 2 * Pow2[n - 1]

\* 2u32.saturating_pow(n); checked_pow(n).unwrap_or(u32::MAX) is the same.
SaturatingPow2(n) == Min({Pow2[n], U32Max})

\* Mutant: the multiplication wraps around.
SaturatingMul_wraps(d, m) == (d * m) % (DurationMax + 1)

\* Duration::saturating_mul
SaturatingMul(d, m) == Min({d * m, DurationMax})

\* attempt_number.saturating_sub(1)
Exponent(n) == Max({n - 1, 0})

\* retry_backoff
RetryBackoff(p, n) ==
  LET duration == IF p.strategy = "fixed" THEN p.duration
                  ELSE SaturatingMul(p.duration, SaturatingPow2(Exponent(n)))
      maximum == IF p.max = NoMaximum THEN {} ELSE {p.max}
  IN  Min({duration, MaxRetryBackoff} \cup maximum)

\* ExecutorJobQueue::rejected
RejectionBackoff(n) == Min({SaturatingMul(MinRejection, SaturatingPow2(n)), MaxRejection})

BackoffInit ==
  /\ policy \in [strategy : {"fixed", "exponential"}, duration : Durations,
                 max : Durations \cup {NoMaximum}]
  /\ attempt = 0 /\ delay = RetryBackoff(policy, 0)
  /\ rejections = 0 /\ rejectionDelay = 0
  /\ callDelay = FirstDelay

\* The execution failed and is retried.
RetryAgain ==
  /\ attempt < MaxAttempts
  /\ attempt' = attempt + 1
  /\ delay' = RetryBackoff(policy, attempt')
  /\ UNCHANGED <<policy, rejections, rejectionDelay, callDelay>>

RejectOffer ==
  /\ rejections < MaxAttempts
  /\ rejectionDelay' = RejectionBackoff(rejections)
  /\ rejections' = Min({rejections + 1, U32Max})
  /\ UNCHANGED <<policy, attempt, delay, callDelay>>

AcceptOffer ==
  /\ rejections' = 0 /\ rejectionDelay' = 0
  /\ UNCHANGED <<policy, attempt, delay, callDelay>>

\* A call of retry_backend fails again.
CallFailsAgain ==
  /\ callDelay' = Min({callDelay * 2, MaxDelay})
  /\ UNCHANGED <<policy, attempt, delay, rejections, rejectionDelay>>

BackoffNext == RetryAgain \/ RejectOffer \/ AcceptOffer \/ CallFailsAgain

BackoffSpec == BackoffInit /\ [][BackoffNext]_backoffVars

-----------------------------------------------------------------------------
(* Properties *)

\* The delay is duration * 2^(attempt - 1) without overflow, up to the maxima and
\* the largest factor a u32 can be.
DelayIsExact ==
  LET exact == IF policy.strategy = "fixed" THEN policy.duration
               ELSE policy.duration * (IF attempt = 0 THEN 1 ELSE Pow2[attempt - 1])
      largest == {MaxRetryBackoff, policy.duration * U32Max}
                   \cup (IF policy.max = NoMaximum THEN {} ELSE {policy.max})
  IN  delay = Min({exact} \cup largest)

\* An executor that rejects is left alone for a while, never longer than the
\* maximum, and longer each time until it accepts.
RejectionsBackOff ==
  /\ rejections > 0 <=> rejectionDelay > 0
  /\ rejectionDelay <= MaxRejection
  /\ rejections > 1 => rejectionDelay = Min({MaxRejection, 2 * RejectionBackoff(rejections - 2)})

\* Delays are as long as they are documented to be, whatever overflows on the way.
DelaysAreRight == DelayIsExact /\ RejectionsBackOff
=============================================================================
