----------------------------- MODULE JobPolling -----------------------------
(***************************************************************************)
(* Request::wait (crates/pretix/src/job.rs): polling a server-side job     *)
(* until it ends or the time allowed is over.  A poll is a request like    *)
(* any other: Client::execute may repeat it before wait sees an answer, so *)
(* the retry policy and the poll options work on the same clock.           *)
(*                                                                         *)
(* Most polls are GET requests; Shredders::shred is a POST that is refused *)
(* with 409 until the export it depends on is finished, and that takes     *)
(* effect when it is not.                                                  *)
(*                                                                         *)
(* Time is counted in ticks from the call of wait; it passes while an      *)
(* attempt is under way and while the client sleeps.                       *)
(***************************************************************************)
EXTENDS RetryPolicy

CONSTANTS
  Retry,          \* the client's RetryPolicy
  Endpoints,      \* the job endpoints polled, with their JobCodes
  Options,        \* the PollOptions considered
  Jobs,           \* what the jobs do: when they end and what they answer then
  AttemptTime,    \* the total request timeout of the HTTP client
  Slack,          \* by how much a sleep may overrun
  GatewayStatuses,\* what a gateway may answer instead of pretix
  RetryAfters     \* the Retry-After values responses may carry

Endpoint == [kind : RequestKind, pending : SUBSET Status, failed : SUBSET Status,
             done : SUBSET Status]

PollOptions == [interval : Duration, timeout : Duration \cup {None}]

Job == [due : Nat \cup {None}, final : Status]

ASSUME PollingAssumption ==
  /\ Retry \in Policy
  /\ Endpoints \subseteq Endpoint
  /\ Options \subseteq PollOptions
  /\ Jobs \subseteq Job
  /\ AttemptTime \in Nat \ {0}
  /\ Slack \in Nat
  /\ GatewayStatuses \subseteq (500..599) \cup {408, 429}
  /\ RetryAfters \subseteq Duration

\* The JobCodes of the resources, and the meaning of a final answer: no status
\* that a gateway may answer with tells the state of a job, and a job that has
\* ended does not answer that it is running.
ASSUME JobCodesAssumption ==
  \A e \in Endpoints :
    /\ e.pending \subseteq {409, 423}
    /\ (e.failed \cup e.done) \cap GatewayStatuses = {}
    /\ \A j \in Jobs : j.final \notin e.pending

VARIABLES
  endpoint, options, job,   \* of the call of wait; they never change
  pc,          \* where wait's future is
  attempt,     \* the loop counter of the poll's execute
  elapsed,     \* the time since wait was called
  result,      \* what wait returned
  accepted,    \* how often a POST has taken effect
  pendingAt    \* when the last answer "pending" arrived, None before

vars == <<endpoint, options, job, pc, attempt, elapsed, result, accepted, pendingAt>>
fixed == <<endpoint, options, job>>

Results == {"none", "ready", "failed", "malformed", "api", "transport", "timeout", "panic"}

Init ==
  /\ endpoint \in Endpoints
  /\ options \in Options
  /\ job \in Jobs
  /\ pc = "ready"
  /\ attempt = 0
  /\ elapsed = 0
  /\ result = "none"
  /\ accepted = 0
  /\ pendingAt = None

-----------------------------------------------------------------------------
(* The client.                                                             *)

\* An attempt of a poll is sent.
Ask ==
  /\ pc = "ready"
  /\ pc' = "asking"
  /\ UNCHANGED <<fixed, attempt, elapsed, result, accepted, pendingAt>>

Return(r) ==
  /\ pc' = "returned"
  /\ result' = r
  /\ UNCHANGED attempt

\* Mutation of Interpret: whatever is not pending is the result.
InterpretUnchecked(status) == IF status \in endpoint.pending THEN "pending" ELSE "ready"

\* The decoder made by job_with.
Interpret(status) ==
  IF status \in endpoint.pending
  THEN "pending"
  ELSE IF status \in endpoint.failed
       THEN "failed"
       ELSE IF status \in endpoint.done THEN "ready" ELSE "api"

\* What a poll returns for a status: the body of a success may be none that the
\* endpoint's decoder can read.
Readings(status) == {Interpret(status)} \cup IF Interpret(status) = "ready" THEN {"malformed"} ELSE {}

\* Mutation of TimedOut: the next poll may start too late.
TimedOutAfterSleep == options.timeout # None /\ elapsed > options.timeout

\* Mutation of TimedOut: the time the poll may take is counted as well.
TimedOutBeforePoll ==
  options.timeout # None /\ elapsed + options.interval + AttemptTime > options.timeout

\* Whether the next poll would start after the timeout.
TimedOut == options.timeout # None /\ elapsed + options.interval > options.timeout

\* The poll has had its last answer, at the time now.
Decode(status) ==
  IF Interpret(status) = "pending"
  THEN pc' = "pending" /\ UNCHANGED <<attempt, result>>
  ELSE \E r \in Readings(status) : Return(r)

\* execute's reaction to an outcome that is not a success, d ticks after the
\* attempt began: it sleeps and repeats the attempt, or else the poll ends.
Consult(d, outcome, end) ==
  LET delays == Delay(Retry, attempt, endpoint.kind, outcome)
  IN  IF delays = {}
      THEN end /\ elapsed' = elapsed + d
      ELSE /\ pc' = "ready"
           /\ attempt' = attempt + 1
           /\ \E delay \in delays, s \in 0..Slack : elapsed' = elapsed + d + delay + s
           /\ UNCHANGED result

\* A response arrives.
Hear(d, status, retry_after) ==
  /\ pc = "asking"
  /\ IF status \in 200..399
     THEN Decode(status) /\ elapsed' = elapsed + d
     ELSE Consult(d, [type |-> "status", status |-> status, retry_after |-> retry_after],
                  Decode(status))
  /\ pendingAt' = IF status \in endpoint.pending THEN elapsed + d ELSE pendingAt

\* The poll said that the job is running: wait gives up or sleeps.
Check ==
  /\ pc = "pending"
  /\ IF options.timeout # None /\ elapsed + options.interval > DurationMax
     THEN Return("panic") /\ UNCHANGED elapsed   \* the sum of durations overflows
     ELSE IF TimedOut
          THEN Return("timeout") /\ UNCHANGED elapsed
          ELSE /\ pc' = "ready"
               /\ attempt' = 0
               /\ \E s \in 0..Slack : elapsed' = elapsed + options.interval + s
               /\ UNCHANGED result
  /\ UNCHANGED <<fixed, accepted, pendingAt>>

-----------------------------------------------------------------------------
(* pretix and the network.                                                 *)

Ended(time) == job.due # None /\ time >= job.due

\* A POST that arrives when the job has ended takes effect.
TakesEffect(time) ==
  Ended(time) /\ job.final \in 200..299 /\ endpoint.kind.method = "POST"

Process(time) == accepted' = IF TakesEffect(time) THEN accepted + 1 ELSE accepted

\* pretix answers, by the job's state when the request arrives.
Answer ==
  \E d \in 1..AttemptTime : \E time \in elapsed..elapsed + d :
    /\ Process(time)
    /\ IF Ended(time)
       THEN Hear(d, job.final, None)
       ELSE \E s \in endpoint.pending, ra \in RetryAfters \cup {None} : Hear(d, s, ra)
    /\ UNCHANGED fixed

\* A gateway answers, whether or not pretix has processed the request; a
\* request rejected with 429 has not been processed.
GatewayAnswer ==
  \E d \in 1..AttemptTime, s \in GatewayStatuses, ra \in RetryAfters \cup {None} :
    /\ \/ s # 429 /\ \E time \in elapsed..elapsed + d : Process(time)
       \/ UNCHANGED accepted
    /\ Hear(d, s, ra)
    /\ UNCHANGED fixed

\* Mutation of TransportError: attempts do not time out.
TransportErrorNever == FALSE

\* The attempt fails or times out, whether or not pretix has processed it.
TransportError ==
  /\ pc = "asking"
  /\ \E d \in 1..AttemptTime :
       /\ \/ \E time \in elapsed..elapsed + d : Process(time)
          \/ UNCHANGED accepted
       /\ Consult(d, [type |-> "transport"], Return("transport"))
  /\ UNCHANGED <<fixed, pendingAt>>

-----------------------------------------------------------------------------

Next == Ask \/ Answer \/ GatewayAnswer \/ TransportError \/ Check

Spec == Init /\ [][Next]_vars

\* The task is polled, and an attempt that hears nothing times out.
Fairness == WF_vars(Ask) /\ WF_vars(TransportError) /\ WF_vars(Check)

FairSpec == Spec /\ Fairness

-----------------------------------------------------------------------------
(* Properties.                                                             *)

TypeOK ==
  /\ endpoint \in Endpoints
  /\ options \in Options
  /\ job \in Jobs
  /\ pc \in {"ready", "asking", "pending", "returned"}
  /\ attempt \in 0..Retry.max_retries
  /\ elapsed \in Nat
  /\ result \in Results
  /\ accepted \in Nat
  /\ pendingAt \in Nat \cup {None}

\* The longest time between the start of a poll and its last answer.
PollTime == (Retry.max_retries + 1) * AttemptTime
              + Retry.max_retries * (LongestWait(Retry) + Slack)

\* "Give up after this long": the timeout is kept up to the last poll, which
\* starts in time but may take as long as its attempts and their delays do.
GivesUpInTime ==
  options.timeout # None => elapsed <= options.timeout + Slack + PollTime

\* wait does not give up early: a job that ends an interval and an attempt
\* before the timeout is seen to have ended.
TimeoutMeansLate ==
  result = "timeout" /\ job.due # None =>
    job.due + options.interval + AttemptTime > options.timeout

\* wait returns a result, or a failure of the job, only when the job has ended
\* with it; errors of a gateway are not taken for the job's.
TruthfulResult ==
  /\ result = "ready" => Ended(elapsed) /\ job.final \in endpoint.done
  /\ result = "failed" => Ended(elapsed) /\ job.final \in endpoint.failed

\* "pretix asks clients to wait at least one second": after an answer that the
\* job is running, the next attempt of any poll comes an interval later, even
\* if the answer carried a Retry-After.  (With an idempotency key it comes when
\* the Retry-After says, since the client takes the 409 for its own.)
PollsSpaced ==
  [][/\ pc = "ready" /\ pc' = "asking"
     /\ pendingAt # None
     /\ ~endpoint.kind.has_idempotency_key
     => elapsed >= pendingAt + options.interval]_vars

\* A POST that is polled without an idempotency key takes effect once at most:
\* what was accepted is not sent again when its answer is lost.
AcceptedAtMostOnce == ~endpoint.kind.has_idempotency_key => accepted <= 1

\* Every wait with a timeout, or for a job that ends, returns.
EveryWaitReturns ==
  (options.timeout # None \/ job.due # None) => <>(pc = "returned")

=============================================================================
