--------------------------- MODULE RetrySchedule ---------------------------
(***************************************************************************)
(* The schedule of retries that RetryPolicy::delay yields for one request: *)
(* an outcome arrives, the policy answers with a delay or gives up, and    *)
(* after the delay the next attempt has the next outcome.  The outcomes    *)
(* are arbitrary; RequestExecution has the network and the server that     *)
(* produce them.                                                           *)
(***************************************************************************)
EXTENDS RetryPolicy

CONSTANTS
  Policies,   \* the policies considered
  Kinds,      \* the requests considered
  Outcomes    \* the outcomes an attempt may have

ASSUME ScheduleAssumption ==
  /\ Policies \subseteq Policy
  /\ Kinds \subseteq RequestKind
  /\ Outcomes \subseteq TransportOutcome \cup StatusOutcome
  /\ None \notin Outcomes

VARIABLES
  policy, kind,   \* of the request; they never change
  attempt,        \* the loop counter of Client::execute
  outcome,        \* of the attempt, None while it is under way
  delay,          \* chosen after the outcome, None if there is none
  waited          \* the time slept so far

vars == <<policy, kind, attempt, outcome, delay, waited>>

Init ==
  /\ policy \in Policies
  /\ kind \in Kinds
  /\ attempt = 0
  /\ outcome = None
  /\ delay = None
  /\ waited = 0

\* The attempt fails and the policy is consulted.
Fail ==
  /\ outcome = None
  /\ \E o \in Outcomes :
       /\ outcome' = o
       /\ LET choices == Delay(policy, attempt, kind, o)
          IN  IF choices = {} THEN delay' = None ELSE delay' \in choices
  /\ UNCHANGED <<policy, kind, attempt, waited>>

\* The client sleeps and tries again.
Retry ==
  /\ delay # None
  /\ attempt' = attempt + 1
  /\ waited' = waited + delay
  /\ outcome' = None
  /\ delay' = None
  /\ UNCHANGED <<policy, kind>>

Next == Fail \/ Retry

Spec == Init /\ [][Next]_vars

-----------------------------------------------------------------------------
(* Properties.                                                             *)

TypeOK ==
  /\ policy \in Policies
  /\ kind \in Kinds
  /\ attempt \in 0..policy.max_retries
  /\ outcome \in Outcomes \cup {None}
  /\ delay \in Nat \cup {None}
  /\ waited \in Nat

\* retry.rs and error.rs decide independently; the client never repeats a
\* request on its own that it would tell the caller not to repeat.  In
\* particular a mutating request without an idempotency key is repeated after
\* a 429 only, because any other failure may have come after its execution.
RetriesOnlyRetryable == delay # None => IsRetryable(kind, outcome)

\* The converse, with all its exceptions: the client gives up on a retryable
\* failure only when its attempts are used up, when pretix asks for a longer
\* wait than the policy allows, or on the 409 of a read without a key, which
\* is an answer (a job still running) rather than a conflict.
GivesUpForAReason ==
  outcome # None /\ delay = None /\ IsRetryable(kind, outcome) =>
    \/ attempt = policy.max_retries
    \/ /\ outcome.type = "status"
       /\ outcome.retry_after # None
       /\ \/ outcome.retry_after > policy.max_retry_after
          \/ outcome.status = 409 /\ ~kind.has_idempotency_key

\* Retry-After is waited for exactly; without it the client waits at least
\* half and at most all of the doubled backoff, however long it has been
\* retrying: the exponent's saturation never brings the delay back down.
DelayIsHonoured ==
  delay # None =>
    IF outcome.type = "status" /\ outcome.retry_after # None
    THEN delay = outcome.retry_after
    ELSE \A a \in 0..attempt :
           LET doubled == policy.initial_backoff * 2^a
           IN  /\ delay <= policy.max_backoff
               /\ 2^a <= U32Max =>
                    2 * delay + 1 >= Least(Least(doubled, DurationMax), policy.max_backoff)
               /\ a = attempt => delay <= doubled

\* One request never sleeps longer than its retries times the longest single
\* wait, whatever pretix answers.
WaitBounded == waited <= policy.max_retries * LongestWait(policy)

\* retry.rs, on RetryPolicy::delay: "Uses the same rule as
\* Error::is_retryable".  While attempts are left and the requested wait is
\* acceptable, the policy retries exactly the retryable outcomes.
SameRuleAsIsRetryable ==
  /\ outcome # None
  /\ attempt < policy.max_retries
  /\ outcome.type = "status" /\ outcome.retry_after # None =>
       outcome.retry_after <= policy.max_retry_after
  => (delay # None <=> IsRetryable(kind, outcome))

=============================================================================
