-------------------------- MODULE JobPolling_proof --------------------------
(***************************************************************************)
(* Waiting for a job, for any endpoints, options, jobs and retry policy.   *)
(***************************************************************************)
EXTENDS JobPolling, TLAPS

-----------------------------------------------------------------------------
(* The inductive invariant.                                                *)

\* What one attempt and the sleep after it take at most.
Round == AttemptTime + LongestWait(Retry) + Slack

\* The clock: a poll has been started in time and is at its attempt number
\* attempt, or it has had all of them.
TimeInv ==
  options.timeout # None =>
    LET start == options.timeout + Slack
    IN  /\ pc \in {"ready", "asking"} => elapsed <= start + attempt * Round
        /\ elapsed <= start + Retry.max_retries * Round + AttemptTime

\* The last answer that the job is running is at most as old as an attempt.
PendingInv ==
  /\ pc = "pending" /\ job.due # None => elapsed < job.due + AttemptTime
  /\ TimeoutMeansLate

ResultInv ==
  /\ result = "none" <=> pc # "returned"
  /\ result = "timeout" => options.timeout # None
  /\ TruthfulResult

\* When a request without a key takes effect, the wait is over.
EffectInv ==
  ~endpoint.kind.has_idempotency_key =>
    accepted = 0 \/ (accepted = 1 /\ pc = "returned")

\* After an answer that the job is running the interval is slept.
SpacedInv ==
  pendingAt # None /\ ~endpoint.kind.has_idempotency_key =>
    /\ pc \in {"ready", "asking"} => elapsed >= pendingAt + options.interval
    /\ pc = "pending" => elapsed >= pendingAt

IInv == TypeOK /\ TimeInv /\ PendingInv /\ ResultInv /\ EffectInv /\ SpacedInv

-----------------------------------------------------------------------------
(* Constants and types.                                                    *)

LEMMA ConstantFacts ==
  /\ Retry \in Policy /\ Retry.max_retries \in Nat /\ LongestWait(Retry) \in Nat
  /\ AttemptTime \in Nat \ {0} /\ Slack \in Nat /\ Round \in Nat
  /\ None \notin Int /\ Duration \subseteq Nat
<1>1. Retry \in Policy /\ AttemptTime \in Nat \ {0} /\ Slack \in Nat
  BY PollingAssumption
<1>2. Retry.max_retries \in Nat /\ Retry.max_backoff \in Nat /\ Retry.max_retry_after \in Nat
  BY <1>1, RetryAssumption DEF Policy, Duration
<1>3. LongestWait(Retry) \in Nat
  BY <1>2 DEF LongestWait
<1> QED
  BY <1>1, <1>2, <1>3, RetryAssumption DEF Round, Duration

LEMMA StateFacts ==
  ASSUME TypeOK
  PROVE  /\ endpoint.kind \in RequestKind
         /\ endpoint.pending \subseteq {409, 423}
         /\ (endpoint.failed \cup endpoint.done) \cap GatewayStatuses = {}
         /\ job.final \in Status /\ job.final \notin endpoint.pending
         /\ job.due \in Nat \cup {None}
         /\ options.interval \in Nat /\ options.timeout \in Nat \cup {None}
<1>1. endpoint \in Endpoint /\ job \in Job /\ options \in PollOptions
  BY PollingAssumption DEF TypeOK
<1>2. /\ endpoint.kind \in RequestKind
      /\ job.final \in Status /\ job.due \in Nat \cup {None}
      /\ options.interval \in Nat /\ options.timeout \in Nat \cup {None}
  BY <1>1, ConstantFacts DEF Endpoint, Job, PollOptions
<1> QED
  BY <1>2, JobCodesAssumption DEF TypeOK

-----------------------------------------------------------------------------
(* How an attempt ends.                                                    *)

\* execute sleeps and repeats it.
Retried(d) ==
  /\ pc' = "ready"
  /\ attempt < Retry.max_retries
  /\ attempt' = attempt + 1
  /\ \E delay \in 0..LongestWait(Retry), s \in 0..Slack : elapsed' = elapsed + d + delay + s
  /\ result' = result

\* The poll has had its answer: the job is running, or the wait returns r.
FoundPending(d) ==
  pc' = "pending" /\ attempt' = attempt /\ result' = result /\ elapsed' = elapsed + d

Returned(d, r) ==
  pc' = "returned" /\ attempt' = attempt /\ result' = r /\ elapsed' = elapsed + d

\* A delay is only given while attempts are left, and only for a failure that
\* Error::is_retryable lets the caller repeat.
LEMMA DelayIsRetryable ==
  ASSUME NEW policy \in Policy, NEW k \in Nat, NEW kind,
         NEW outcome, outcome.type \in {"transport", "status"},
         Delay(policy, k, kind, outcome) # {}
  PROVE  k < policy.max_retries /\ IsRetryable(kind, outcome)
<1>1. /\ ~(k >= policy.max_retries)
      /\ ~(outcome.type = "transport" /\ ~IsRepeatable(kind))
      /\ outcome.type = "status" => RetriesStatus(kind, outcome.status, outcome.retry_after)
  BY DEF Delay
<1>2. k < policy.max_retries
  BY <1>1, RetryAssumption DEF Policy
<1>3. CASE outcome.type = "transport"
  BY <1>1, <1>2, <1>3 DEF IsRetryable, TransportErrorIsRetryable
<1>4. CASE outcome.type = "status"
  BY <1>1, <1>2, <1>4 DEF IsRetryable, ApiErrorIsRetryable, RetriesStatus, IsRepeatable,
                          IsTransientStatus
<1> QED
  BY <1>3, <1>4

LEMMA BackoffTyped ==
  ASSUME NEW policy \in Policy, NEW k \in Nat
  PROVE  Backoff(policy, k) \in 0..policy.max_backoff
<1>1. BackoffFactor(k) \in Nat
  BY RetryAssumption DEF BackoffFactor
<1>2. policy.initial_backoff * BackoffFactor(k) \in Nat
  BY <1>1, RetryAssumption DEF Policy, Duration
<1> QED
  BY <1>2, RetryAssumption DEF Backoff, Least, Policy, Duration

\* No delay exceeds the policy's own cap or what it is willing to wait for
\* pretix.
LEMMA DelayBounded ==
  ASSUME NEW policy \in Policy, NEW k \in Nat, NEW kind,
         NEW outcome \in TransportOutcome \cup StatusOutcome,
         NEW d \in Delay(policy, k, kind, outcome)
  PROVE  d \in Nat /\ (d <= policy.max_backoff \/ d <= policy.max_retry_after)
<1>1. policy.max_backoff \in Nat /\ policy.max_retry_after \in Nat
  BY RetryAssumption DEF Policy, Duration
<1>2. CASE d \in JitteredBackoff(policy, k)
  BY <1>1, <1>2, BackoffTyped DEF JitteredBackoff
<1>3. CASE d \notin JitteredBackoff(policy, k)
  <2>1. /\ outcome.type = "status" /\ outcome.retry_after # None
        /\ d = outcome.retry_after
        /\ ~(outcome.retry_after > policy.max_retry_after)
    BY <1>3 DEF Delay
  <2>2. outcome \in StatusOutcome
    BY <2>1 DEF TransportOutcome
  <2>3. d \in Nat
    BY <2>1, <2>2, RetryAssumption DEF StatusOutcome, Duration
  <2> QED
    BY <1>1, <2>1, <2>3
<1> QED
  BY <1>2, <1>3

LEMMA DelayTyped ==
  ASSUME TypeOK, NEW o \in TransportOutcome \cup StatusOutcome,
         NEW delay \in Delay(Retry, attempt, endpoint.kind, o)
  PROVE  /\ attempt < Retry.max_retries
         /\ IsRetryable(endpoint.kind, o)
         /\ delay \in 0..LongestWait(Retry)
<1>1. attempt \in Nat /\ Retry \in Policy
  BY ConstantFacts DEF TypeOK
<1>2. o.type \in {"transport", "status"}
  BY DEF TransportOutcome, StatusOutcome
<1>3. attempt < Retry.max_retries /\ IsRetryable(endpoint.kind, o)
  BY <1>1, <1>2, DelayIsRetryable
<1>4. delay \in Nat /\ (delay <= Retry.max_backoff \/ delay <= Retry.max_retry_after)
  BY <1>1, DelayBounded
<1>5. Retry.max_backoff \in Nat /\ Retry.max_retry_after \in Nat
  BY <1>1, RetryAssumption DEF Policy, Duration
<1> QED
  BY <1>3, <1>4, <1>5 DEF LongestWait

\* A pending answer is never retried below wait, unless the request has a key.
LEMMA HearSplit ==
  ASSUME TypeOK, NEW d \in 1..AttemptTime, NEW status \in Status,
         NEW ra \in Duration \cup {None}, Hear(d, status, ra)
  PROVE  /\ pc = "asking"
         /\ pendingAt' = IF status \in endpoint.pending THEN elapsed + d ELSE pendingAt
         /\ \/ /\ Retried(d)
               /\ ApiErrorIsRetryable(status, ra, IsRepeatable(endpoint.kind))
               /\ status \in endpoint.pending => endpoint.kind.has_idempotency_key
            \/ FoundPending(d) /\ status \in endpoint.pending
            \/ status \notin endpoint.pending /\ \E r \in Readings(status) : Returned(d, r)
<1> DEFINE o == [type |-> "status", status |-> status, retry_after |-> ra]
           delays == Delay(Retry, attempt, endpoint.kind, o)
<1>1. Interpret(status) = "pending" <=> status \in endpoint.pending
  BY DEF Interpret
<1>2. CASE Decode(status) /\ elapsed' = elapsed + d
  <2>1. \/ FoundPending(d) /\ status \in endpoint.pending
        \/ status \notin endpoint.pending /\ \E r \in Readings(status) : Returned(d, r)
    BY <1>1, <1>2 DEF Decode, FoundPending, Returned, Return
  <2> QED
    BY <2>1 DEF Hear
<1>3. CASE ~(status \in 200..399) /\ Consult(d, o, Decode(status))
  <2>1. CASE delays = {}
    BY <1>2, <1>3, <2>1 DEF Consult
  <2>2. CASE delays # {}
    <3>1. PICK delay \in delays, s \in 0..Slack :
            /\ pc' = "ready" /\ attempt' = attempt + 1
            /\ elapsed' = elapsed + d + delay + s
            /\ UNCHANGED result
      BY <1>3, <2>2 DEF Consult
    <3>2. o \in TransportOutcome \cup StatusOutcome
      BY DEF StatusOutcome
    <3>3. /\ attempt < Retry.max_retries
          /\ IsRetryable(endpoint.kind, o)
          /\ delay \in 0..LongestWait(Retry)
      <4> HIDE DEF o
      <4> QED
        BY <3>2, DelayTyped
    <3>4. Retried(d)
      BY <3>1, <3>3 DEF Retried
    <3>5. ApiErrorIsRetryable(status, ra, IsRepeatable(endpoint.kind))
      BY <3>3 DEF IsRetryable
    <3>6. status \in endpoint.pending => endpoint.kind.has_idempotency_key
      <4>1. RetriesStatus(endpoint.kind, status, ra)
        BY <2>2 DEF Delay
      <4> QED
        BY <4>1, StateFacts DEF RetriesStatus, IsTransientStatus
    <3> QED
      BY <3>4, <3>5, <3>6 DEF Hear
  <2> QED
    BY <2>1, <2>2
<1> QED
  BY <1>2, <1>3 DEF Hear

LEMMA TransportSplit ==
  ASSUME TypeOK, NEW d \in 1..AttemptTime,
         Consult(d, [type |-> "transport"], Return("transport"))
  PROVE  \/ Retried(d) /\ IsRepeatable(endpoint.kind)
         \/ Returned(d, "transport")
<1> DEFINE o == [type |-> "transport"]
           delays == Delay(Retry, attempt, endpoint.kind, o)
<1>1. CASE delays = {}
  BY <1>1 DEF Consult, Return, Returned
<1>2. CASE delays # {}
  <2>1. PICK delay \in delays, s \in 0..Slack :
          /\ pc' = "ready" /\ attempt' = attempt + 1
          /\ elapsed' = elapsed + d + delay + s
          /\ UNCHANGED result
    BY <1>2 DEF Consult
  <2>2. o \in TransportOutcome \cup StatusOutcome
    BY DEF TransportOutcome
  <2>3. /\ attempt < Retry.max_retries
        /\ IsRetryable(endpoint.kind, o)
        /\ delay \in 0..LongestWait(Retry)
    <3> HIDE DEF o
    <3> QED
      BY <2>2, DelayTyped
  <2> QED
    BY <2>1, <2>3 DEF Retried, IsRetryable, TransportErrorIsRetryable
<1> QED
  BY <1>1, <1>2

-----------------------------------------------------------------------------
(* What the end of an attempt preserves, whoever has caused it.            *)

LEMMA TimeKept ==
  ASSUME TypeOK, TimeInv, pc = "asking", UNCHANGED fixed, NEW d \in 1..AttemptTime,
         Retried(d) \/ (pc' \notin {"ready", "asking"} /\ elapsed' = elapsed + d)
  PROVE  elapsed' \in Nat /\ elapsed' >= elapsed + d /\ TimeInv'
<1> DEFINE start == options.timeout + Slack
           mr == Retry.max_retries
           L == LongestWait(Retry)
<1>1. /\ elapsed \in Nat /\ attempt \in Nat /\ attempt <= mr /\ mr \in Nat /\ L \in Nat
      /\ AttemptTime \in Nat \ {0} /\ Slack \in Nat /\ Round \in Nat /\ d \in Nat /\ d <= AttemptTime
      /\ Round = AttemptTime + L + Slack
  BY ConstantFacts DEF TypeOK, Round
<1>2. elapsed' \in Nat /\ elapsed' >= elapsed + d
  BY <1>1 DEF Retried
<1>3. ASSUME options.timeout # None
      PROVE  /\ pc' \in {"ready", "asking"} => elapsed' <= start + attempt' * Round
             /\ elapsed' <= start + mr * Round + AttemptTime
  <2>1. start \in Nat
    BY <1>1, <1>3, StateFacts
  <2>2. elapsed <= start + attempt * Round
    BY <1>3 DEF TimeInv
  <2>3. attempt * Round \in Nat /\ (mr - attempt) * Round \in Nat
    BY <1>1
  <2>4. mr * Round = attempt * Round + (mr - attempt) * Round
    BY <1>1
  <2>5. CASE Retried(d)
    <3>1. attempt' = attempt + 1 /\ attempt + 1 <= mr /\ elapsed' <= elapsed + Round
      BY <1>1, <2>5 DEF Retried
    <3>2. (attempt + 1) * Round = attempt * Round + Round
      BY <1>1
    <3>3. (mr - (attempt + 1)) * Round \in Nat
      BY <1>1, <3>1
    <3>4. mr * Round = (attempt + 1) * Round + (mr - (attempt + 1)) * Round
      BY <1>1
    <3> DEFINE x == (attempt + 1) * Round
               y == attempt * Round
               z == (mr - (attempt + 1)) * Round
               w == mr * Round
    <3>5. /\ x = y + Round /\ w = x + z /\ y \in Nat /\ z \in Nat
          /\ elapsed <= start + y
      BY <2>2, <2>3, <3>2, <3>3, <3>4
    <3>6. elapsed' <= start + x /\ elapsed' <= start + w + AttemptTime
      <4> HIDE DEF x, y, z, w, start
      <4> QED
        BY <1>1, <1>2, <2>1, <3>1, <3>5
    <3> QED
      BY <3>1, <3>6
  <2>6. CASE pc' \notin {"ready", "asking"} /\ elapsed' = elapsed + d
    <3> DEFINE y == attempt * Round
               z == (mr - attempt) * Round
               w == mr * Round
    <3>1. w = y + z /\ y \in Nat /\ z \in Nat /\ elapsed <= start + y
      BY <2>2, <2>3, <2>4
    <3>2. elapsed' <= start + w + AttemptTime
      <4> HIDE DEF y, z, w, start
      <4> QED
        BY <1>1, <2>1, <2>6, <3>1
    <3> QED
      BY <2>6, <3>2
  <2> QED
    BY <2>5, <2>6
<1>4. TimeInv'
  BY <1>3 DEF TimeInv, fixed
<1> QED
  BY <1>2, <1>4

LEMMA AttemptKept ==
  ASSUME IInv, pc = "asking", UNCHANGED fixed, accepted' \in Nat,
         NEW d \in 1..AttemptTime, NEW r \in {"ready", "failed", "malformed", "api", "transport"},
         \/ /\ Retried(d)
            /\ \/ pendingAt' = pendingAt
               \/ pendingAt' = elapsed + d /\ endpoint.kind.has_idempotency_key
         \/ /\ FoundPending(d)
            /\ pendingAt' = elapsed + d
            /\ job.due # None => elapsed < job.due
         \/ /\ Returned(d, r)
            /\ pendingAt' = pendingAt
            /\ r = "ready" => Ended(elapsed + d) /\ job.final \in endpoint.done
            /\ r = "failed" => Ended(elapsed + d) /\ job.final \in endpoint.failed
  PROVE  TypeOK' /\ TimeInv' /\ PendingInv' /\ ResultInv' /\ SpacedInv'
<1> USE DEF IInv
<1>1. elapsed' \in Nat /\ elapsed' >= elapsed + d /\ TimeInv'
  <2>1. Retried(d) \/ (pc' \notin {"ready", "asking"} /\ elapsed' = elapsed + d)
    BY DEF FoundPending, Returned
  <2> QED
    BY <2>1, TimeKept
<1>2. /\ elapsed \in Nat /\ d \in Nat /\ attempt \in Nat /\ AttemptTime \in Nat \ {0}
      /\ d <= AttemptTime /\ Retry.max_retries \in Nat
      /\ result = "none"
  BY ConstantFacts DEF TypeOK, ResultInv
<1>3. TypeOK'
  BY <1>1, <1>2 DEF TypeOK, fixed, Retried, FoundPending, Returned, Results
<1>4. PendingInv'
  <2>1. (pc = "pending" /\ job.due # None => elapsed < job.due + AttemptTime)'
    BY <1>2, StateFacts DEF fixed, Retried, FoundPending, Returned
  <2>2. TimeoutMeansLate'
    BY <1>2 DEF TimeoutMeansLate, Retried, FoundPending, Returned
  <2> QED
    BY <2>1, <2>2 DEF PendingInv
<1>5. ResultInv'
  BY <1>2 DEF ResultInv, TruthfulResult, fixed, Ended, Retried, FoundPending, Returned
<1>6. SpacedInv'
  BY <1>1, <1>2, StateFacts, ConstantFacts
  DEF SpacedInv, TypeOK, fixed, Retried, FoundPending, Returned
<1> QED
  BY <1>1, <1>3, <1>4, <1>5, <1>6

\* Before an attempt without a key is answered, nothing has taken effect.
LEMMA EffectOfAsking ==
  ASSUME IInv, pc = "asking", UNCHANGED fixed, accepted' \in {accepted, accepted + 1},
         ~endpoint.kind.has_idempotency_key /\ accepted' = accepted + 1 => pc' = "returned"
  PROVE  EffectInv'
BY DEF IInv, TypeOK, EffectInv, fixed

-----------------------------------------------------------------------------
(* The steps.                                                              *)

LEMMA InitInv == Init => IInv
<1> SUFFICES ASSUME Init
             PROVE  IInv
  OBVIOUS
<1> USE DEF Init
<1>1. TypeOK
  BY ConstantFacts DEF TypeOK, Results
<1>2. TimeInv
  <2> SUFFICES ASSUME options.timeout # None
               PROVE  LET start == options.timeout + Slack
                      IN  /\ elapsed <= start + attempt * Round
                          /\ elapsed <= start + Retry.max_retries * Round + AttemptTime
    BY DEF TimeInv
  <2>1. Retry.max_retries * Round \in Nat
    BY ConstantFacts
  <2>2. attempt * Round = 0
    BY ConstantFacts
  <2> QED
    BY <1>1, <2>1, <2>2, StateFacts, ConstantFacts
<1>3. PendingInv /\ ResultInv
  BY DEF PendingInv, TimeoutMeansLate, ResultInv, TruthfulResult
<1>4. EffectInv /\ SpacedInv
  BY DEF EffectInv, SpacedInv
<1> QED
  BY <1>1, <1>2, <1>3, <1>4 DEF IInv

LEMMA AskKeeps == IInv /\ Ask => IInv'
<1> SUFFICES ASSUME IInv, Ask
             PROVE  IInv'
  OBVIOUS
<1> USE DEF IInv, Ask, fixed
<1>1. TypeOK'
  BY DEF TypeOK
<1>2. TimeInv'
  BY DEF TimeInv
<1>3. PendingInv' /\ ResultInv'
  BY DEF PendingInv, TimeoutMeansLate, ResultInv, TruthfulResult, Ended
<1>4. EffectInv' /\ SpacedInv'
  BY DEF EffectInv, SpacedInv
<1> QED
  BY <1>1, <1>2, <1>3, <1>4

LEMMA CheckKeeps == IInv /\ Check => IInv'
<1> SUFFICES ASSUME IInv, Check
             PROVE  IInv'
  OBVIOUS
<1> USE DEF IInv
<1>0. /\ pc = "pending" /\ UNCHANGED <<fixed, accepted, pendingAt>>
      /\ options.interval \in Nat /\ options.timeout \in Nat \cup {None}
      /\ elapsed \in Nat /\ result = "none"
  BY StateFacts DEF Check, TypeOK, ResultInv
<1>1. CASE /\ options.timeout # None /\ elapsed + options.interval > DurationMax
           /\ Return("panic") /\ UNCHANGED elapsed
  <2> USE <1>0, <1>1 DEF Return, fixed
  <2>1. TypeOK'
    BY DEF TypeOK, Results
  <2>2. TimeInv'
    BY DEF TimeInv
  <2>3. PendingInv' /\ ResultInv'
    BY DEF PendingInv, TimeoutMeansLate, ResultInv, TruthfulResult
  <2>4. EffectInv' /\ SpacedInv'
    BY DEF EffectInv, SpacedInv
  <2> QED
    BY <2>1, <2>2, <2>3, <2>4
<1>2. CASE TimedOut /\ Return("timeout") /\ UNCHANGED elapsed
  <2> USE <1>0, <1>2 DEF Return, fixed
  <2>1. TypeOK'
    BY DEF TypeOK, Results
  <2>2. TimeInv'
    BY DEF TimeInv
  <2>3. PendingInv'
    <3>1. job.due # None => elapsed < job.due + AttemptTime
      BY DEF PendingInv
    <3>2. options.timeout # None /\ elapsed + options.interval > options.timeout
      BY DEF TimedOut
    <3>3. job.due # None => job.due + options.interval + AttemptTime > options.timeout
      BY <3>1, <3>2, StateFacts, ConstantFacts
    <3> QED
      BY <3>3 DEF PendingInv, TimeoutMeansLate
  <2>4. ResultInv'
    BY DEF ResultInv, TruthfulResult, TimedOut
  <2>5. EffectInv' /\ SpacedInv'
    BY DEF EffectInv, SpacedInv
  <2> QED
    BY <2>1, <2>2, <2>3, <2>4, <2>5
<1>3. ASSUME NEW s \in 0..Slack, ~TimedOut, pc' = "ready", attempt' = 0,
             elapsed' = elapsed + options.interval + s, UNCHANGED result
      PROVE  IInv'
  <2> USE <1>0, <1>3 DEF fixed
  <2>1. TypeOK'
    BY ConstantFacts DEF TypeOK
  <2>2. TimeInv'
    <3> SUFFICES ASSUME options.timeout # None
                 PROVE  LET start == options.timeout + Slack
                        IN  /\ elapsed' <= start + attempt' * Round
                            /\ elapsed' <= start + Retry.max_retries * Round + AttemptTime
      BY DEF TimeInv
    <3>1. elapsed + options.interval <= options.timeout
      BY DEF TimedOut
    <3>2. elapsed' <= options.timeout + Slack
      BY <3>1, ConstantFacts
    <3>3. attempt' * Round = 0 /\ Retry.max_retries * Round \in Nat
      BY ConstantFacts
    <3> QED
      BY <2>1, <3>2, <3>3, ConstantFacts DEF TypeOK
  <2>3. PendingInv' /\ ResultInv'
    BY DEF PendingInv, TimeoutMeansLate, ResultInv, TruthfulResult
  <2>4. EffectInv'
    BY DEF EffectInv
  <2>5. SpacedInv'
    BY ConstantFacts DEF SpacedInv, TypeOK
  <2> QED
    BY <2>1, <2>2, <2>3, <2>4, <2>5
<1> QED
  BY <1>1, <1>2, <1>3 DEF Check

LEMMA AnswerKeeps == IInv /\ Answer => IInv'
<1> SUFFICES ASSUME IInv, Answer
             PROVE  IInv'
  OBVIOUS
<1> USE DEF IInv
<1>1. PICK d \in 1..AttemptTime : \E time \in elapsed..elapsed + d :
        /\ Process(time)
        /\ IF Ended(time)
           THEN Hear(d, job.final, None)
           ELSE \E s \in endpoint.pending, ra \in RetryAfters \cup {None} : Hear(d, s, ra)
        /\ UNCHANGED fixed
  BY DEF Answer
<1>2. PICK time \in elapsed..elapsed + d :
        /\ Process(time)
        /\ IF Ended(time)
           THEN Hear(d, job.final, None)
           ELSE \E s \in endpoint.pending, ra \in RetryAfters \cup {None} : Hear(d, s, ra)
        /\ UNCHANGED fixed
  BY <1>1
<1>3. /\ elapsed \in Nat /\ d \in Nat /\ time \in Nat /\ elapsed <= time /\ time <= elapsed + d
      /\ accepted \in Nat /\ accepted' \in {accepted, accepted + 1} /\ accepted' \in Nat
      /\ job.due \in Nat \cup {None}
  BY <1>2, ConstantFacts, StateFacts DEF TypeOK, Process
<1>4. CASE Ended(time)
  <2>1. /\ pc = "asking"
        /\ pendingAt' = pendingAt
        /\ \/ /\ Retried(d)
              /\ ApiErrorIsRetryable(job.final, None, IsRepeatable(endpoint.kind))
           \/ \E r \in Readings(job.final) : Returned(d, r)
    BY <1>2, <1>4, StateFacts, HearSplit
  <2>2. Ended(elapsed + d)
    BY <1>3, <1>4 DEF Ended
  <2>3. \A r \in Readings(job.final) :
          /\ r \in {"ready", "failed", "malformed", "api", "transport"}
          /\ r = "ready" => job.final \in endpoint.done
          /\ r = "failed" => job.final \in endpoint.failed
    BY StateFacts DEF Interpret, Readings
  <2>4. TypeOK' /\ TimeInv' /\ PendingInv' /\ ResultInv' /\ SpacedInv'
    BY <1>2, <1>3, <2>1, <2>2, <2>3, AttemptKept
  <2>5. accepted' = accepted + 1 => pc' = "returned"
    <3>1. accepted' = accepted + 1 => job.final \in 200..299
      BY <1>2, <1>3 DEF Process, TakesEffect
    <3> QED
      BY <2>1, <3>1 DEF ApiErrorIsRetryable, IsTransientStatus, Returned
  <2> QED
    BY <1>2, <1>3, <2>1, <2>4, <2>5, EffectOfAsking
<1>5. CASE ~Ended(time)
  <2>1. PICK s \in endpoint.pending, ra \in RetryAfters \cup {None} : Hear(d, s, ra)
    BY <1>2, <1>5
  <2>2. s \in Status /\ ra \in Duration \cup {None}
    BY StateFacts, PollingAssumption DEF Status
  <2>3. /\ pc = "asking"
        /\ pendingAt' = elapsed + d
        /\ \/ Retried(d) /\ endpoint.kind.has_idempotency_key
           \/ FoundPending(d)
    BY <2>1, <2>2, HearSplit
  <2>4. job.due # None => elapsed < job.due
    BY <1>3, <1>5 DEF Ended
  <2>5. TypeOK' /\ TimeInv' /\ PendingInv' /\ ResultInv' /\ SpacedInv'
    BY <1>2, <1>3, <2>3, <2>4, AttemptKept
  <2>6. accepted' = accepted
    BY <1>2, <1>5 DEF Process, TakesEffect
  <2> QED
    BY <1>2, <1>3, <2>3, <2>5, <2>6, EffectOfAsking
<1> QED
  BY <1>4, <1>5

LEMMA GatewayAnswerKeeps == IInv /\ GatewayAnswer => IInv'
<1> SUFFICES ASSUME IInv, GatewayAnswer
             PROVE  IInv'
  OBVIOUS
<1> USE DEF IInv
<1>1. PICK d \in 1..AttemptTime, s \in GatewayStatuses, ra \in RetryAfters \cup {None} :
        /\ \/ s # 429 /\ \E time \in elapsed..elapsed + d : Process(time)
           \/ UNCHANGED accepted
        /\ Hear(d, s, ra)
        /\ UNCHANGED fixed
  BY DEF GatewayAnswer
<1>2. s \in Status /\ ra \in Duration \cup {None} /\ s \in (500..599) \cup {408, 429}
  BY PollingAssumption DEF Status
<1>3. s \notin endpoint.pending /\ Readings(s) = {"api"}
  <2>1. s \notin endpoint.pending
    BY <1>2, StateFacts
  <2>2. s \notin endpoint.failed /\ s \notin endpoint.done
    BY StateFacts
  <2> QED
    BY <2>1, <2>2 DEF Interpret, Readings
<1>4. /\ pc = "asking"
      /\ pendingAt' = pendingAt
      /\ \/ Retried(d) /\ ApiErrorIsRetryable(s, ra, IsRepeatable(endpoint.kind))
         \/ Returned(d, "api")
  BY <1>1, <1>2, <1>3, HearSplit
<1>5. /\ accepted \in Nat /\ accepted' \in {accepted, accepted + 1} /\ accepted' \in Nat
      /\ accepted' = accepted + 1 => s # 429 /\ endpoint.kind.method = "POST"
  BY <1>1 DEF TypeOK, Process, TakesEffect
<1>6. TypeOK' /\ TimeInv' /\ PendingInv' /\ ResultInv' /\ SpacedInv'
  BY <1>1, <1>4, <1>5, AttemptKept
<1>7. ~endpoint.kind.has_idempotency_key /\ accepted' = accepted + 1 => pc' = "returned"
  BY <1>4, <1>5 DEF ApiErrorIsRetryable, IsRepeatable, Returned
<1> QED
  BY <1>1, <1>4, <1>5, <1>6, <1>7, EffectOfAsking

LEMMA TransportErrorKeeps == IInv /\ TransportError => IInv'
<1> SUFFICES ASSUME IInv, TransportError
             PROVE  IInv'
  OBVIOUS
<1> USE DEF IInv
<1>1. PICK d \in 1..AttemptTime :
        /\ \/ \E time \in elapsed..elapsed + d : Process(time)
           \/ UNCHANGED accepted
        /\ Consult(d, [type |-> "transport"], Return("transport"))
  BY DEF TransportError
<1>2. pc = "asking" /\ UNCHANGED fixed /\ pendingAt' = pendingAt
  BY DEF TransportError
<1>3. \/ Retried(d) /\ IsRepeatable(endpoint.kind)
      \/ Returned(d, "transport")
  BY <1>1, TransportSplit
<1>4. /\ accepted \in Nat /\ accepted' \in {accepted, accepted + 1} /\ accepted' \in Nat
      /\ accepted' = accepted + 1 => endpoint.kind.method = "POST"
  BY <1>1 DEF TypeOK, Process, TakesEffect
<1>5. TypeOK' /\ TimeInv' /\ PendingInv' /\ ResultInv' /\ SpacedInv'
  BY <1>2, <1>3, <1>4, AttemptKept
<1>6. ~endpoint.kind.has_idempotency_key /\ accepted' = accepted + 1 => pc' = "returned"
  BY <1>3, <1>4 DEF IsRepeatable, Returned
<1> QED
  BY <1>2, <1>4, <1>5, <1>6, EffectOfAsking

LEMMA StepInv == IInv /\ [Next]_vars => IInv'
<1> SUFFICES ASSUME IInv, UNCHANGED vars
             PROVE  IInv'
  BY AskKeeps, CheckKeeps, AnswerKeeps, GatewayAnswerKeeps, TransportErrorKeeps DEF Next
<1> USE DEF IInv, vars, fixed
<1>1. TypeOK' /\ TimeInv'
  BY DEF TypeOK, TimeInv
<1>2. PendingInv' /\ ResultInv'
  BY DEF PendingInv, TimeoutMeansLate, ResultInv, TruthfulResult, Ended
<1>3. EffectInv' /\ SpacedInv'
  BY DEF EffectInv, SpacedInv
<1> QED
  BY <1>1, <1>2, <1>3

-----------------------------------------------------------------------------
(* The theorems.                                                           *)

\* The inductive invariant holds throughout.
THEOREM Invariant == Spec => []IInv
BY InitInv, StepInv, PTL DEF Spec

\* TypeOK: in particular a poll is never repeated more than max_retries times.
THEOREM TypeCorrect == Spec => []TypeOK
<1>1. IInv => TypeOK
  BY DEF IInv
<1> QED
  BY <1>1, Invariant, PTL

\* GivesUpInTime: however its polls are answered and repeated, a wait lasts no
\* longer than its timeout and one poll.
THEOREM WaitsGiveUpInTime == Spec => []GivesUpInTime
<1>1. IInv => GivesUpInTime
  <2> SUFFICES ASSUME IInv, options.timeout # None
               PROVE  elapsed <= options.timeout + Slack + PollTime
    BY DEF GivesUpInTime
  <2> DEFINE mr == Retry.max_retries
             L == LongestWait(Retry)
  <2>1. mr \in Nat /\ L \in Nat /\ AttemptTime \in Nat /\ Slack \in Nat /\ Round \in Nat
    BY ConstantFacts
  <2>2. Round = AttemptTime + (L + Slack)
    BY <2>1 DEF Round
  <2>3. mr * Round = mr * AttemptTime + mr * (L + Slack)
    BY <2>1, <2>2
  <2>4. (mr + 1) * AttemptTime = mr * AttemptTime + AttemptTime
    BY <2>1
  <2>5. PollTime = (mr + 1) * AttemptTime + mr * (L + Slack)
    BY DEF PollTime
  <2>6. elapsed <= options.timeout + Slack + mr * Round + AttemptTime
    BY DEF IInv, TimeInv
  <2>7. /\ elapsed \in Nat /\ options.timeout \in Nat
        /\ mr * AttemptTime \in Nat /\ mr * (L + Slack) \in Nat
    BY <2>1, StateFacts DEF IInv, TypeOK
  <2> DEFINE x == mr * Round
             y == mr * AttemptTime
             z == mr * (L + Slack)
             w == (mr + 1) * AttemptTime
  <2>8. x = y + z /\ w = y + AttemptTime /\ PollTime = w + z /\ y \in Nat /\ z \in Nat
    BY <2>3, <2>4, <2>5, <2>7
  <2>9. elapsed <= options.timeout + Slack + x + AttemptTime
    BY <2>6
  <2> HIDE DEF x, y, z, w
  <2> QED
    BY <2>1, <2>7, <2>8, <2>9
<1> QED
  BY <1>1, Invariant, PTL

\* TimeoutMeansLate: a job that ends an interval and an attempt before the
\* timeout is never given up.
THEOREM TimeoutIsLate == Spec => []TimeoutMeansLate
<1>1. IInv => TimeoutMeansLate
  BY DEF IInv, PendingInv
<1> QED
  BY <1>1, Invariant, PTL

\* TruthfulResult: a result or a failure of the job is only returned when the
\* job has ended with it.
THEOREM ResultsAreTrue == Spec => []TruthfulResult
<1>1. IInv => TruthfulResult
  BY DEF IInv, ResultInv
<1> QED
  BY <1>1, Invariant, PTL

\* AcceptedAtMostOnce: polling with a POST has its effect once at most, though
\* each poll may be repeated and its answer lost.
THEOREM PollingActsOnce == Spec => []AcceptedAtMostOnce
<1>1. IInv => AcceptedAtMostOnce
  BY DEF IInv, EffectInv, AcceptedAtMostOnce
<1> QED
  BY <1>1, Invariant, PTL

\* PollsSpaced: execute never shortens the interval between two polls.
THEOREM PollsAreSpaced == Spec => PollsSpaced
<1> DEFINE Spaced == /\ pc = "ready" /\ pc' = "asking"
                     /\ pendingAt # None
                     /\ ~endpoint.kind.has_idempotency_key
                     => elapsed >= pendingAt + options.interval
<1>1. IInv => Spaced
  BY DEF IInv, SpacedInv
<1>2. Spec => [][Spaced]_vars
  BY <1>1, Invariant, PTL
<1> QED
  BY <1>2 DEF PollsSpaced

=============================================================================
