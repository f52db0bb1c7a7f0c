-------------------------- MODULE MCRetrySchedule --------------------------
(* A small instance of RetrySchedule: 2-bit attempt factors and durations   *)
(* of at most 12 units, so that both saturate within the attempts allowed.  *)
EXTENDS RetrySchedule

MCPolicies ==
  [max_retries : {0, 3}, initial_backoff : {0, 1, 5},
   max_backoff : {2, 12}, max_retry_after : {1, 6}]

MCKinds ==
  {[method |-> "GET",  has_idempotency_key |-> FALSE],
   [method |-> "POST", has_idempotency_key |-> FALSE],
   [method |-> "POST", has_idempotency_key |-> TRUE]}

MCOutcomes ==
  {[type |-> "transport"]}
    \cup [type : {"status"}, status : {400, 409, 429, 503}, retry_after : {None, 0, 6, 7}]

=============================================================================
