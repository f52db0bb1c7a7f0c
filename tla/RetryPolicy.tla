---------------------------- MODULE RetryPolicy ----------------------------
(***************************************************************************)
(* The rules by which the client decides whether, and after how long, a    *)
(* failed request is sent again (crates/pretix/src/retry.rs), and the      *)
(* rules by which it tells its caller whether a failure may be repeated    *)
(* (crates/pretix/src/error.rs).  Both files classify the same outcomes;   *)
(* the operators below keep the two classifications apart, as the code     *)
(* does.                                                                   *)
(*                                                                         *)
(* Durations are natural numbers of an arbitrary unit.  An optional value  *)
(* is either None or the value.                                            *)
(***************************************************************************)
EXTENDS Integers

CONSTANTS
  None,         \* Option::None
  U32Max,       \* u32::MAX (a parameter, so that small widths can be checked)
  DurationMax   \* Duration::MAX

ASSUME RetryAssumption ==
  /\ None \notin Int
  /\ U32Max \in Nat \ {0}
  /\ DurationMax \in Nat \ {0}

Method == {"GET", "HEAD", "OPTIONS", "POST", "PUT", "PATCH", "DELETE"}

RequestKind == [method : Method, has_idempotency_key : BOOLEAN]

Status == 100..599

Duration == 0..DurationMax

\* A policy as its builder methods can make it: any counts, any durations.
Policy == [max_retries     : 0..U32Max,
           initial_backoff : Duration,
           max_backoff     : Duration,
           max_retry_after : Duration]

\* What one attempt came to: a transient transport error, or a response that
\* is neither a success nor a redirection.
TransportOutcome == [type : {"transport"}]
StatusOutcome ==
  [type : {"status"}, status : Status, retry_after : Duration \cup {None}]

-----------------------------------------------------------------------------
(* Classification of requests and responses.                               *)

\* Mutation of IsRepeatable: every method counts as idempotent.
IsRepeatableAlways(kind) == TRUE

\* RequestKind::is_repeatable
IsRepeatable(kind) ==
  kind.has_idempotency_key \/ kind.method \in {"GET", "HEAD", "OPTIONS"}

\* error::is_transient_status
IsTransientStatus(status, retry_after) ==
  \/ status = 409 /\ retry_after # None
  \/ status \in {408, 429, 500, 502, 503, 504}

\* Mutation of ApiErrorIsRetryable: a transient status suffices.
ApiErrorIsTransient(status, retry_after, repeatable) == IsTransientStatus(status, retry_after)

\* ApiError::is_retryable
ApiErrorIsRetryable(status, retry_after, repeatable) ==
  IsTransientStatus(status, retry_after) /\ (repeatable \/ status = 429)

\* Mutation of TransportErrorIsRetryable: a transient error suffices.
TransportErrorIsTransient(transient, repeatable) == transient

\* TransportError::is_retryable
TransportErrorIsRetryable(transient, repeatable) == transient /\ repeatable

\* Error::is_retryable of the error that the outcome turns into when it is
\* handed to the caller (send_once tags it with the kind's repeatability).
IsRetryable(kind, outcome) ==
  IF outcome.type = "transport"
  THEN TransportErrorIsRetryable(TRUE, IsRepeatable(kind))
  ELSE ApiErrorIsRetryable(outcome.status, outcome.retry_after, IsRepeatable(kind))

-----------------------------------------------------------------------------
(* Delays.                                                                 *)

Least(a, b) == IF a <= b THEN a ELSE b

\* Mutation of BackoffFactor: the power wraps around.
BackoffFactorWrapping(attempt) == 2^attempt % (U32Max + 1)

\* 2u32.saturating_pow(attempt)
BackoffFactor(attempt) == IF 2^attempt \in 1..U32Max THEN 2^attempt ELSE U32Max

\* RetryPolicy::backoff; the product saturates at Duration::MAX.
Backoff(policy, attempt) ==
  Least(Least(policy.initial_backoff * BackoffFactor(attempt), DurationMax),
        policy.max_backoff)

\* RetryPolicy::jittered_backoff: the sub-second clock picks 50% to 99.95%
\* of the backoff, rounded to the resolution of a duration.
JitteredBackoff(policy, attempt) ==
  LET b == Backoff(policy, attempt) IN (b \div 2)..b

\* Mutation of RetriesStatus: transient responses are retried for any method.
RetriesStatusUnguarded(kind, status, retry_after) ==
  \/ status = 409 /\ kind.has_idempotency_key /\ retry_after # None
  \/ status # 409 /\ IsTransientStatus(status, retry_after)

\* Mutation of RetriesStatus: the arm of 429 also requires repeatability.
RetriesStatusRepeatableOnly(kind, status, retry_after) ==
  /\ IsTransientStatus(status, retry_after)
  /\ IsRepeatable(kind)

\* Mutation of RetriesStatus: the rule of Error::is_retryable.
RetriesStatusAsRetryable(kind, status, retry_after) ==
  ApiErrorIsRetryable(status, retry_after, IsRepeatable(kind))

\* The status part of RetryPolicy::delay: which responses are retried.
RetriesStatus(kind, status, retry_after) ==
  \/ status = 409 /\ kind.has_idempotency_key /\ retry_after # None
  \/ status = 429
  \/ /\ status \notin {409, 429}
     /\ IsTransientStatus(status, retry_after)
     /\ IsRepeatable(kind)

\* Mutation of Delay: the cap on Retry-After is not applied.
DelayUncapped(policy, attempt, kind, outcome) ==
  IF \/ attempt >= policy.max_retries
     \/ outcome.type = "transport" /\ ~IsRepeatable(kind)
     \/ /\ outcome.type = "status"
        /\ ~RetriesStatus(kind, outcome.status, outcome.retry_after)
  THEN {}
  ELSE IF outcome.type = "status" /\ outcome.retry_after # None
       THEN {outcome.retry_after}
       ELSE JitteredBackoff(policy, attempt)

\* Mutation of Delay: one retry too many.
DelayOneMore(policy, attempt, kind, outcome) ==
  DelayUncapped([policy EXCEPT !.max_retries = @ + 1], attempt, kind, outcome)

\* RetryPolicy::delay: the delays that may be chosen, none if the outcome is
\* not retried.
Delay(policy, attempt, kind, outcome) ==
  IF \/ attempt >= policy.max_retries
     \/ outcome.type = "transport" /\ ~IsRepeatable(kind)
     \/ /\ outcome.type = "status"
        /\ \/ ~RetriesStatus(kind, outcome.status, outcome.retry_after)
           \/ /\ outcome.retry_after # None
              /\ outcome.retry_after > policy.max_retry_after
  THEN {}
  ELSE IF outcome.type = "status" /\ outcome.retry_after # None
       THEN {outcome.retry_after}
       ELSE JitteredBackoff(policy, attempt)

-----------------------------------------------------------------------------

\* The longest wait between two attempts that the policy allows.
LongestWait(policy) == IF policy.max_backoff >= policy.max_retry_after
                       THEN policy.max_backoff
                       ELSE policy.max_retry_after

=============================================================================
