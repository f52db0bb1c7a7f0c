------------------------ MODULE RetrySchedule_proof ------------------------
(***************************************************************************)
(* What RetryPolicy::delay guarantees, for any policy and any outcome, and *)
(* the retry schedule, for any policies, requests and outcomes.            *)
(***************************************************************************)
EXTENDS RetrySchedule, FiniteSetTheorems, TLAPS

-----------------------------------------------------------------------------
(* RetryPolicy::delay.                                                     *)

\* A delay is only given while attempts are left, and only for a failure that
\* Error::is_retryable lets the caller repeat.
LEMMA DelayIsRetryable ==
  ASSUME NEW p \in Policy, NEW k \in Nat, NEW r,
         NEW o, o.type \in {"transport", "status"},
         Delay(p, k, r, o) # {}
  PROVE  k < p.max_retries /\ IsRetryable(r, o)
<1>1. /\ ~(k >= p.max_retries)
      /\ ~(o.type = "transport" /\ ~IsRepeatable(r))
      /\ o.type = "status" => RetriesStatus(r, o.status, o.retry_after)
  BY DEF Delay
<1>2. k < p.max_retries
  BY <1>1, RetryAssumption DEF Policy
<1>3. CASE o.type = "transport"
  BY <1>1, <1>2, <1>3 DEF IsRetryable, TransportErrorIsRetryable
<1>4. CASE o.type = "status"
  BY <1>1, <1>2, <1>4 DEF IsRetryable, ApiErrorIsRetryable, RetriesStatus, IsRepeatable,
                          IsTransientStatus
<1> QED
  BY <1>3, <1>4

LEMMA BackoffTyped ==
  ASSUME NEW p \in Policy, NEW k \in Nat
  PROVE  Backoff(p, k) \in 0..p.max_backoff
<1>1. BackoffFactor(k) \in Nat
  BY RetryAssumption DEF BackoffFactor
<1>2. p.initial_backoff * BackoffFactor(k) \in Nat
  BY <1>1, RetryAssumption DEF Policy, Duration
<1> QED
  BY <1>2, RetryAssumption DEF Backoff, Least, Policy, Duration

\* No delay exceeds the p's own cap or what it is willing to wait for
\* pretix.
LEMMA DelayBounded ==
  ASSUME NEW p \in Policy, NEW k \in Nat, NEW r,
         NEW o \in TransportOutcome \cup StatusOutcome,
         NEW d \in Delay(p, k, r, o)
  PROVE  d \in Nat /\ (d <= p.max_backoff \/ d <= p.max_retry_after)
<1>1. p.max_backoff \in Nat /\ p.max_retry_after \in Nat
  BY RetryAssumption DEF Policy, Duration
<1>2. CASE d \in JitteredBackoff(p, k)
  BY <1>1, <1>2, BackoffTyped DEF JitteredBackoff
<1>3. CASE d \notin JitteredBackoff(p, k)
  <2>1. /\ o.type = "status" /\ o.retry_after # None
        /\ d = o.retry_after
        /\ ~(o.retry_after > p.max_retry_after)
    BY <1>3 DEF Delay
  <2>2. o \in StatusOutcome
    BY <2>1 DEF TransportOutcome
  <2>3. d \in Nat
    BY <2>1, <2>2, RetryAssumption DEF StatusOutcome, Duration
  <2> QED
    BY <1>1, <2>1, <2>3
<1> QED
  BY <1>2, <1>3

\* The reasons for which a repeatable failure is not retried.
LEMMA DelayRefused ==
  ASSUME NEW p \in Policy, NEW k \in 0..p.max_retries, NEW r,
         NEW o \in TransportOutcome \cup StatusOutcome,
         Delay(p, k, r, o) = {},
         IsRetryable(r, o)
  PROVE  \/ k = p.max_retries
         \/ /\ o.type = "status"
            /\ o.retry_after # None
            /\ \/ o.retry_after > p.max_retry_after
               \/ o.status = 409 /\ ~r.has_idempotency_key
<1>1. JitteredBackoff(p, k) # {}
  <2>1. k \in Nat /\ p.max_retries \in Nat /\ p.max_backoff \in Nat
    BY RetryAssumption DEF Policy, Duration
  <2>2. Backoff(p, k) \in Nat
    BY <2>1, BackoffTyped
  <2>3. Backoff(p, k) \in JitteredBackoff(p, k)
    BY <2>2 DEF JitteredBackoff
  <2> QED
    BY <2>3
<1>2. \/ k >= p.max_retries
      \/ o.type = "transport" /\ ~IsRepeatable(r)
      \/ /\ o.type = "status"
         /\ \/ ~RetriesStatus(r, o.status, o.retry_after)
            \/ /\ o.retry_after # None
               /\ o.retry_after > p.max_retry_after
  BY <1>1 DEF Delay
<1>3. CASE k >= p.max_retries
  BY <1>3, RetryAssumption DEF Policy
<1>4. CASE o.type = "transport" /\ ~IsRepeatable(r)
  BY <1>4 DEF IsRetryable, TransportErrorIsRetryable
<1>5. CASE /\ o.type = "status"
           /\ ~RetriesStatus(r, o.status, o.retry_after)
  BY <1>5 DEF IsRetryable, ApiErrorIsRetryable, RetriesStatus, IsRepeatable, IsTransientStatus
<1>6. CASE /\ o.type = "status"
           /\ o.retry_after # None
           /\ o.retry_after > p.max_retry_after
  BY <1>6
<1> QED
  BY <1>2, <1>3, <1>4, <1>5, <1>6

-----------------------------------------------------------------------------

\* 2^a counts the subsets of 1..a, so the powers of two are positive and grow.
LEMMA PowersOfTwo ==
  ASSUME NEW a \in Nat, NEW b \in Nat, a <= b
  PROVE  2^a \in Nat \ {0} /\ 2^b \in Nat /\ 2^a <= 2^b
<1>1. \A n \in Nat : /\ IsFiniteSet(SUBSET (1..n))
                     /\ Cardinality(SUBSET (1..n)) = 2^n
  <2> SUFFICES ASSUME NEW n \in Nat
               PROVE  IsFiniteSet(SUBSET (1..n)) /\ Cardinality(SUBSET (1..n)) = 2^n
    OBVIOUS
  <2>1. IsFiniteSet(1..n) /\ Cardinality(1..n) = n
    BY FS_Interval
  <2> QED
    BY <2>1, FS_SUBSET
<1>2. \A n \in Nat : 2^n \in Nat
  BY <1>1, FS_CardinalityType
<1>3. 2^a # 0
  <2>1. SUBSET (1..a) # {}
    OBVIOUS
  <2> QED
    BY <2>1, <1>1, FS_EmptySet
<1>4. Cardinality(SUBSET (1..a)) <= Cardinality(SUBSET (1..b))
  <2>1. SUBSET (1..a) \in SUBSET (SUBSET (1..b))
    OBVIOUS
  <2> QED
    BY <2>1, <1>1, FS_Subset
<1> QED
  BY <1>1, <1>2, <1>3, <1>4

\* The factor is the power of two until it saturates, and it stays there.
LEMMA FactorGrows ==
  ASSUME NEW k \in Nat, NEW a \in 0..k
  PROVE  /\ BackoffFactor(k) \in Nat
         /\ BackoffFactor(k) <= 2^k
         /\ 2^a <= U32Max => 2^a <= BackoffFactor(k)
<1>1. /\ 2^a \in Nat \ {0} /\ 2^k \in Nat \ {0}
      /\ 2^a <= 2^k
  BY PowersOfTwo
<1> QED
  BY <1>1, RetryAssumption DEF BackoffFactor

\* A jittered backoff is at least half of every doubling so far that has not
\* left the widths of the code, and at most what the policy says.
LEMMA BackoffDoubles ==
  ASSUME NEW pol \in Policy, NEW k \in Nat, NEW a \in 0..k,
         NEW d \in JitteredBackoff(pol, k)
  PROVE  LET doubled == pol.initial_backoff * 2^a
         IN  /\ d <= pol.max_backoff
             /\ 2^a <= U32Max =>
                  2 * d + 1 >= Least(Least(doubled, DurationMax), pol.max_backoff)
             /\ a = k => d <= doubled
<1> DEFINE i == pol.initial_backoff
           m == pol.max_backoff
           b == Backoff(pol, k)
           f == BackoffFactor(k)
           p == 2^a
<1>1. i \in Nat /\ m \in Nat /\ DurationMax \in Nat
  BY RetryAssumption DEF Policy, Duration
<1>2. f \in Nat /\ f <= 2^k /\ (p <= U32Max => p <= f)
  BY FactorGrows
<1>3. p \in Nat
  BY PowersOfTwo
<1>4. i * p \in Nat /\ i * f \in Nat
  BY <1>1, <1>2, <1>3
<1>5. p <= U32Max => i * p <= i * f
  <2> SUFFICES ASSUME p <= U32Max
               PROVE  i * p <= i * f
    OBVIOUS
  <2>1. p <= f
    BY <1>2
  <2> HIDE DEF i, f, p
  <2> QED
    BY <2>1, <1>1, <1>2, <1>3
<1>6. a = k => i * f <= i * p
  <2> SUFFICES ASSUME a = k
               PROVE  i * f <= i * p
    OBVIOUS
  <2>1. f <= p
    BY <1>2
  <2> HIDE DEF i, f, p
  <2> QED
    BY <2>1, <1>1, <1>2, <1>3
<1>7. b = Least(Least(i * f, DurationMax), m)
  BY DEF Backoff
<1>8. b \in Nat /\ d \in (b \div 2)..b
  BY <1>1, BackoffTyped DEF JitteredBackoff
<1>9. d \in Nat /\ d <= b /\ 2 * d + 1 >= b
  <2> HIDE DEF b
  <2> QED
    BY <1>8
<1>10. b <= m /\ b <= i * f /\ b \in Nat
  <2> DEFINE x == i * f
  <2> HIDE DEF i, m, f, x
  <2> QED
    BY <1>1, <1>4, <1>7, <1>8 DEF Least, x
<1>11. p <= U32Max => b >= Least(Least(i * p, DurationMax), m)
  <2> DEFINE x == i * f
             y == i * p
  <2>1. x \in Nat /\ y \in Nat /\ (p <= U32Max => y <= x) /\ b = Least(Least(x, DurationMax), m)
    BY <1>4, <1>5, <1>7
  <2>2. p <= U32Max => b >= Least(Least(y, DurationMax), m)
    <3> HIDE DEF x, y, b, m, p
    <3> QED
      BY <2>1, <1>1 DEF Least
  <2> QED
    BY <2>2
<1> DEFINE l == Least(Least(i * p, DurationMax), m)
           q == i * p
           r == i * f
<1>12. l \in Nat /\ q \in Nat /\ r \in Nat
  <2>1. q \in Nat /\ r \in Nat
    BY <1>4
  <2> HIDE DEF q, m
  <2> QED
    BY <2>1, <1>1 DEF Least, q
<1>13. /\ d <= m
       /\ p <= U32Max => 2 * d + 1 >= l
       /\ a = k => d <= q
  <2>1. (p <= U32Max => b >= l) /\ b <= m /\ b <= r /\ (a = k => r <= q)
    BY <1>6, <1>10, <1>11
  <2> HIDE DEF b, m, l, q, r, p
  <2> QED
    BY <2>1, <1>1, <1>9, <1>10, <1>12
<1> QED
  BY <1>13

-----------------------------------------------------------------------------
(* The schedule.                                                           *)

\* The type invariant, where a pending delay comes from, the reasons for it and
\* for none, and the time slept by the retries so far.
IInv ==
  /\ TypeOK
  /\ delay # None => delay \in Delay(policy, attempt, kind, outcome)
  /\ delay # None =>
       /\ outcome # None
       /\ attempt < policy.max_retries
       /\ IsRetryable(kind, outcome)
       /\ delay <= LongestWait(policy)
  /\ GivesUpForAReason
  /\ waited <= attempt * LongestWait(policy)

LEMMA PolicyFacts ==
  ASSUME NEW p \in Policies
  PROVE  p \in Policy /\ p.max_retries \in Nat /\ LongestWait(p) \in Nat
         /\ p.max_backoff <= LongestWait(p) /\ p.max_retry_after <= LongestWait(p)
BY ScheduleAssumption, RetryAssumption DEF Policy, LongestWait, Duration

LEMMA InitInv == Init => IInv
BY PolicyFacts, RetryAssumption DEF Init, IInv, TypeOK, GivesUpForAReason

LEMMA StepInv == IInv /\ [Next]_vars => IInv'
<1> SUFFICES ASSUME IInv, [Next]_vars
             PROVE  IInv'
  OBVIOUS
<1> USE PolicyFacts DEF IInv, TypeOK
<1>1. CASE Fail
  <2> PICK o \in Outcomes :
         /\ outcome' = o
         /\ LET choices == Delay(policy, attempt, kind, o)
            IN  IF choices = {} THEN delay' = None ELSE delay' \in choices
    BY <1>1 DEF Fail
  <2>1. o \in TransportOutcome \cup StatusOutcome /\ o.type \in {"transport", "status"}
    BY ScheduleAssumption DEF TransportOutcome, StatusOutcome
  <2>2. UNCHANGED <<policy, kind, attempt, waited>>
    BY <1>1 DEF Fail
  <2>3. CASE Delay(policy, attempt, kind, o) = {}
    <3>1. policy \in Policy /\ attempt \in 0..policy.max_retries /\ delay' = None
      BY <2>3
    <3>2. GivesUpForAReason'
      BY <2>1, <2>2, <2>3, <3>1, DelayRefused DEF GivesUpForAReason
    <3> QED
      BY <2>2, <3>1, <3>2
  <2>4. CASE Delay(policy, attempt, kind, o) # {}
    <3>1. attempt < policy.max_retries /\ IsRetryable(kind, o)
      BY <2>1, <2>4, DelayIsRetryable
    <3>2. delay' \in Nat /\ delay' <= LongestWait(policy)
      <4>1. /\ policy \in Policy /\ attempt \in Nat /\ delay' \in Delay(policy, attempt, kind, o)
        BY <2>4, <3>1
      <4>2. /\ delay' \in Nat
            /\ delay' <= policy.max_backoff \/ delay' <= policy.max_retry_after
        BY <2>1, <4>1, DelayBounded
      <4>3. policy.max_backoff \in Nat /\ policy.max_retry_after \in Nat
        BY <4>1, RetryAssumption DEF Policy, Duration
      <4> QED
        BY <4>2, <4>3
    <3>3. o # None
      BY ScheduleAssumption
    <3>4. (delay \in Delay(policy, attempt, kind, outcome))'
      BY <2>2, <2>4
    <3> QED
      BY <2>2, <3>1, <3>2, <3>3, <3>4, RetryAssumption DEF GivesUpForAReason
  <2> QED
    BY <2>3, <2>4
<1>2. CASE Retry
  <2>1. /\ delay \in Nat /\ delay <= LongestWait(policy) /\ attempt \in Nat
        /\ attempt < policy.max_retries
    BY <1>2 DEF Retry
  <2>2. (attempt + 1) * LongestWait(policy) = attempt * LongestWait(policy) + LongestWait(policy)
    BY <2>1
  <2> QED
    BY <1>2, <2>1, <2>2 DEF Retry, GivesUpForAReason
<1>3. CASE UNCHANGED vars
  BY <1>3 DEF vars, GivesUpForAReason
<1> QED
  BY <1>1, <1>2, <1>3 DEF Next

\* The inductive invariant holds throughout.
THEOREM Invariant == Spec => []IInv
BY InitInv, StepInv, PTL DEF Spec

\* TypeOK: in particular no request is retried more than max_retries times.
THEOREM TypeCorrect == Spec => []TypeOK
<1>1. IInv => TypeOK
  BY DEF IInv
<1> QED
  BY <1>1, Invariant, PTL

\* GivesUpForAReason: a repeatable failure is handed to the caller only for
\* one of the documented reasons.
THEOREM GivesUpOnlyForAReason == Spec => []GivesUpForAReason
<1>1. IInv => GivesUpForAReason
  BY DEF IInv
<1> QED
  BY <1>1, Invariant, PTL

\* RetriesOnlyRetryable: the client repeats on its own only what it would let
\* its caller repeat.
THEOREM RetriesAreSafe == Spec => []RetriesOnlyRetryable
<1>1. IInv => RetriesOnlyRetryable
  BY DEF IInv, RetriesOnlyRetryable
<1> QED
  BY <1>1, Invariant, PTL

\* WaitBounded: the sleeps of one request add up to at most max_retries times
\* the longest single wait.
THEOREM WaitIsBounded == Spec => []WaitBounded
<1>1. IInv => WaitBounded
  <2> SUFFICES ASSUME IInv PROVE WaitBounded
    OBVIOUS
  <2> DEFINE L == LongestWait(policy)
             k == policy.max_retries - attempt
  <2>1. L \in Nat /\ policy.max_retries \in Nat /\ attempt \in Nat /\ k \in Nat
    BY PolicyFacts DEF IInv, TypeOK
  <2>2. k * L \in Nat /\ policy.max_retries * L = attempt * L + k * L
    BY <2>1
  <2> QED
    BY <2>1, <2>2 DEF IInv, TypeOK, WaitBounded
<1> QED
  BY <1>1, Invariant, PTL

\* DelayIsHonoured: a Retry-After is waited for exactly, and without one the
\* waits keep up with the doubling of the backoff, however often it saturates.
THEOREM DelaysAreHonoured == Spec => []DelayIsHonoured
<1>1. IInv => DelayIsHonoured
  <2> SUFFICES ASSUME IInv, delay # None
               PROVE  IF outcome.type = "status" /\ outcome.retry_after # None
                      THEN delay = outcome.retry_after
                      ELSE \A a \in 0..attempt :
                             LET doubled == policy.initial_backoff * 2^a
                             IN  /\ delay <= policy.max_backoff
                                 /\ 2^a <= U32Max =>
                                      2 * delay + 1 >=
                                        Least(Least(doubled, DurationMax), policy.max_backoff)
                                 /\ a = attempt => delay <= doubled
    BY DEF DelayIsHonoured
  <2>1. policy \in Policy /\ attempt \in Nat /\ delay \in Delay(policy, attempt, kind, outcome)
    BY PolicyFacts DEF IInv, TypeOK
  <2>2. CASE outcome.type = "status" /\ outcome.retry_after # None
    <3>1. delay \in {outcome.retry_after}
      BY <2>1, <2>2 DEF Delay
    <3> QED
      BY <3>1, <2>2
  <2>3. CASE ~(outcome.type = "status" /\ outcome.retry_after # None)
    <3>1. delay \in JitteredBackoff(policy, attempt)
      BY <2>1, <2>3 DEF Delay
    <3> QED
      BY <2>1, <2>3, <3>1, BackoffDoubles
  <2> QED
    BY <2>2, <2>3
<1> QED
  BY <1>1, Invariant, PTL

=============================================================================
