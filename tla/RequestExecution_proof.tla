----------------------- MODULE RequestExecution_proof -----------------------
(***************************************************************************)
(* RequestExecution keeps the promise of AtMostOnce for any number of      *)
(* calls and operations, any retry policy and any responses.               *)
(***************************************************************************)
EXTENDS RequestExecution, TLAPS

-----------------------------------------------------------------------------
(* The policy.                                                             *)

\* A delay is only given while attempts are left, and only for a failure that
\* Error::is_retryable lets the caller repeat.
LEMMA DelayIsRetryable ==
  ASSUME NEW policy \in Policy, NEW k \in Nat, NEW kind,
         NEW outcome, outcome.type \in {"transport", "status"},
         Delay(policy, k, kind, outcome) # {}
  PROVE  k < policy.max_retries /\ IsRetryable(kind, outcome)
<1>1. /\ ~(k >= policy.max_retries)
      /\ ~(outcome.type = "transport" /\ ~IsRepeatable(kind))
      /\ outcome.type = "status" => RetriesStatus(kind, outcome.status, outcome.retry_after)
  BY DEF Delay
<1>2. k < policy.max_retries
  BY <1>1, RetryAssumption DEF Policy
<1>3. CASE outcome.type = "transport"
  BY <1>1, <1>2, <1>3 DEF IsRetryable, TransportErrorIsRetryable
<1>4. CASE outcome.type = "status"
  BY <1>1, <1>2, <1>4 DEF IsRetryable, ApiErrorIsRetryable, RetriesStatus, IsRepeatable,
                          IsTransientStatus
<1> QED
  BY <1>3, <1>4

-----------------------------------------------------------------------------
(* The inductive invariant.                                                *)

\* Requests without a key do not share their operation.
SharedOnlyWithKey ==
  \A c, d \in Calls :
    c # d /\ Op(c) = Op(d) => request[c].keyed /\ request[d].keyed

\* Messages are numbered by their call, and are in one place.
Numbered ==
  /\ \A m \in wire \cup busy : m[2] \in 1..sent[m[1]]
  /\ wire \cap busy = {}

\* Nothing of the call is left that could have an effect.
Quiet(c) == effects[Op(c)] = 0 /\ \A m \in wire \cup busy : m[1] # c

\* The reply, or the result, says that the request was not executed.
DeniedReply(c) ==
  /\ pc[c] = "awaiting"
  /\ reply[c] # None
  /\ reply[c].status \in RejectStatuses \cup {429}

DeniedResult(c) ==
  /\ pc[c] = "done"
  /\ \/ MayRepeat(c)
     \/ result[c].type = "encode"
     \/ result[c].type = "api" /\ result[c].status \in RejectStatuses

\* An unprotected call has at most one message out, its last, and has one
\* only if it has had no effect; it has none before it is sent (again).
UnprotectedInv(c) ==
  /\ \A m \in wire \cup busy : m[1] = c => m[2] = sent[c] /\ effects[Op(c)] = 0
  /\ pc[c] \in {"ready", "sleeping"} => Quiet(c)
  /\ DeniedReply(c) => Quiet(c)
  /\ DeniedResult(c) => Quiet(c)

\* The store is what keeps the messages of a protected operation apart.
StoreInv ==
  /\ \A m \in busy : Recorded(m[1]) => store[Op(m[1])] = "running"
  /\ \A m, n \in busy :
       Recorded(m[1]) /\ Recorded(n[1]) /\ Op(m[1]) = Op(n[1]) => m = n
  /\ \A c \in Calls :
       Recorded(c) => effects[Op(c)] = (IF store[Op(c)] = "succeeded" THEN 1 ELSE 0)

\* Good news is true.
SuccessInv ==
  \A c \in Calls :
    Mutating(c) =>
      /\ reply[c] # None /\ reply[c].status \in 200..299 => effects[Op(c)] = 1
      /\ result[c].type \in {"ok", "decode"} => effects[Op(c)] = 1

\* Only an attempt that is waiting has a reply.
ReplyInv == \A c \in Calls : reply[c] # None => pc[c] = "awaiting"

\* How far a call's messages have come, by its issues and attempts.
CountInv ==
  \A c \in Calls :
    /\ issued[c] >= 1
    /\ sent[c] <= (issued[c] - 1) * (Retry.max_retries + 1) + attempt[c]
                   + (IF pc[c] = "ready" THEN 0 ELSE 1)

\* A sleeping call has attempts left.
SleepInv == \A c \in Calls : pc[c] = "sleeping" => attempt[c] < Retry.max_retries

IInv ==
  /\ TypeOK
  /\ SleepInv
  /\ SharedOnlyWithKey
  /\ Numbered
  /\ \A c \in Calls : Unprotected(c) => UnprotectedInv(c)
  /\ StoreInv
  /\ ReplyInv
  /\ SuccessInv
  /\ EffectAtMostOnce

-----------------------------------------------------------------------------
(* Types.                                                                  *)

LEMMA InitTyped == Init => TypeOK /\ SleepInv
BY ExecutionAssumption DEF Init, TypeOK, SleepInv, Request, Result, Policy, RetryAssumption

\* Responses and results as the actions form them are typed.
LEMMA Formed ==
  /\ \A s \in SuccessStatuses \cup RejectStatuses \cup FailureStatuses \cup {409, 429} :
       \A ra \in RetryAfters \cup {None} : [status |-> s, retry_after |-> ra] \in Response
  /\ Retry.max_retries \in Nat
BY ExecutionAssumption, RetryAssumption DEF Response, Status, Duration, Policy

LEMMA ConsultTyped ==
  ASSUME TypeOK, NEW c \in Calls, NEW outcome, outcome.type \in {"transport", "status"},
         NEW r \in Result, Consult(c, outcome, r)
  PROVE  /\ pc' \in [Calls -> {"ready", "awaiting", "sleeping", "done", "cancelled"}]
         /\ result' \in [Calls -> Result]
         /\ attempt' = attempt
         /\ pc'[c] = "sleeping" => attempt[c] < Retry.max_retries
<1>1. Retry \in Policy
  BY ExecutionAssumption
<1>2. attempt[c] \in Nat
  BY Formed DEF TypeOK
<1>3. CASE Delay(Retry, attempt[c], Kind(c), outcome) # {}
  BY <1>1, <1>2, <1>3, DelayIsRetryable DEF Consult, TypeOK
<1>4. CASE Delay(Retry, attempt[c], Kind(c), outcome) = {}
  BY <1>4 DEF Consult, Return, TypeOK
<1> QED
  BY <1>3, <1>4

LEMMA RespondTyped ==
  ASSUME TypeOK, NEW m \in Message, NEW r \in Response, Respond(m, r)
  PROVE  reply' \in [Calls -> Response \cup {None}]
BY DEF TypeOK, Respond, Message

\* A step of pretix or the network leaves the replies alone, or responds with
\* the status of its kind.
Answers(m, r) ==
  \/ RateLimit(m) /\ r.status = 429
  \/ InProgress(m) /\ r.status = 409
  \/ Replay(m) /\ store[Op(m[1])] = "succeeded" /\ r.status \in SuccessStatuses
  \/ Replay(m) /\ store[Op(m[1])] = "rejected" /\ r.status \in RejectStatuses
  \/ Commit(m) /\ r.status \in SuccessStatuses
  \/ Reject(m) /\ r.status \in RejectStatuses
  \/ Abort(m) /\ r.status \in FailureStatuses

LEMMA ServerResponds ==
  ASSUME NEW m, Server(m)
  PROVE  reply' = reply \/ \E r \in Response : Respond(m, r) /\ Answers(m, r)
<1>1. CASE Lose(m) \/ Admit(m)
  BY <1>1 DEF Lose, Admit
<1>2. CASE RateLimit(m)
  <2> PICK ra \in RetryAfters \cup {None} : Respond(m, [status |-> 429, retry_after |-> ra])
    BY <1>2 DEF RateLimit
  <2> QED
    BY <1>2, Formed DEF Answers
<1>3. CASE InProgress(m)
  <2> PICK ra \in RetryAfters : Respond(m, [status |-> 409, retry_after |-> ra])
    BY <1>3 DEF InProgress
  <2> QED
    BY <1>3, Formed DEF Answers
<1>4. CASE Replay(m)
  <2>1. CASE store[Op(m[1])] = "succeeded"
    <3> PICK s \in SuccessStatuses : Respond(m, [status |-> s, retry_after |-> None])
      BY <1>4, <2>1 DEF Replay
    <3> QED
      BY <1>4, <2>1, Formed DEF Answers
  <2>2. CASE store[Op(m[1])] = "rejected"
    <3> PICK s \in RejectStatuses : Respond(m, [status |-> s, retry_after |-> None])
      BY <1>4, <2>2 DEF Replay
    <3> QED
      BY <1>4, <2>2, Formed DEF Answers
  <2> QED
    BY <1>4, <2>1, <2>2 DEF Replay
<1>5. CASE Commit(m)
  <2> PICK s \in SuccessStatuses : Respond(m, [status |-> s, retry_after |-> None])
    BY <1>5 DEF Commit
  <2> QED
    BY <1>5, Formed DEF Answers
<1>6. CASE Reject(m)
  <2> PICK s \in RejectStatuses : Respond(m, [status |-> s, retry_after |-> None])
    BY <1>6 DEF Reject
  <2> QED
    BY <1>6, Formed DEF Answers
<1>7. CASE Abort(m)
  <2> PICK s \in FailureStatuses : Respond(m, [status |-> s, retry_after |-> None])
    BY <1>7 DEF Abort
  <2> QED
    BY <1>7, Formed DEF Answers
<1> QED
  BY <1>1, <1>2, <1>3, <1>4, <1>5, <1>6, <1>7 DEF Server

LEMMA StepTyped == TypeOK /\ SleepInv /\ [Next]_vars => TypeOK' /\ SleepInv'
<1> SUFFICES ASSUME TypeOK, SleepInv, [Next]_vars
             PROVE  TypeOK' /\ SleepInv'
  OBVIOUS
<1> USE DEF callVars, serverVars
<1>1. ASSUME NEW c \in Calls, FailEncode(c)
      PROVE  TypeOK' /\ SleepInv'
  BY <1>1 DEF FailEncode, Return, TypeOK, SleepInv, Result
<1>2. ASSUME NEW c \in Calls, Send(c)
      PROVE  TypeOK' /\ SleepInv'
  BY <1>2 DEF Send, TypeOK, SleepInv, Message
<1>3. ASSUME NEW c \in Calls, Receive(c)
      PROVE  TypeOK' /\ SleepInv'
  <2>1. reply[c] \in Response
    BY <1>3 DEF Receive, TypeOK
  <2>2. \A t \in {"ok", "decode", "api"} :
          [type |-> t, status |-> reply[c].status, retry_after |-> reply[c].retry_after] \in Result
    BY <2>1 DEF Response, Result
  <2>3. /\ pc' \in [Calls -> {"ready", "awaiting", "sleeping", "done", "cancelled"}]
        /\ result' \in [Calls -> Result]
        /\ attempt' = attempt
        /\ pc'[c] = "sleeping" => attempt[c] < Retry.max_retries
    <3>1. CASE reply[c].status \in 200..399
      <4> PICK type \in Decoded(reply[c].status) :
                 Return(c, [type |-> type, status |-> reply[c].status,
                            retry_after |-> reply[c].retry_after])
        BY <1>3, <3>1 DEF Receive
      <4>1. type \in {"ok", "decode", "api"}
        BY DEF Decoded
      <4> QED
        BY <2>2, <4>1 DEF Return, TypeOK
    <3>2. CASE reply[c].status \notin 200..399
      <4> DEFINE answer(type) == [type |-> type, status |-> reply[c].status,
                                  retry_after |-> reply[c].retry_after]
      <4>1. Consult(c, answer("status"), answer("api"))
        BY <1>3, <3>2 DEF Receive
      <4>2. answer("api") \in Result
        BY <2>2
      <4>3. answer("status").type \in {"transport", "status"}
        OBVIOUS
      <4> HIDE DEF answer
      <4> QED
        BY <4>1, <4>2, <4>3, ConsultTyped
    <3> QED
      BY <3>1, <3>2
  <2>4. \A d \in Calls \ {c} : pc'[d] = pc[d]
    BY <1>3 DEF Receive, Return, Consult, TypeOK
  <2> QED
    BY <1>3, <2>3, <2>4 DEF Receive, TypeOK, SleepInv
<1>4. ASSUME NEW c \in Calls, TransportError(c)
      PROVE  TypeOK' /\ SleepInv'
  <2>1. [type |-> "transport"] \in Result
    BY DEF Result
  <2>2. /\ pc' \in [Calls -> {"ready", "awaiting", "sleeping", "done", "cancelled"}]
        /\ result' \in [Calls -> Result]
        /\ attempt' = attempt
        /\ pc'[c] = "sleeping" => attempt[c] < Retry.max_retries
    BY <1>4, <2>1, ConsultTyped DEF TransportError
  <2>3. \A d \in Calls \ {c} : pc'[d] = pc[d]
    BY <1>4 DEF TransportError, Return, Consult, TypeOK
  <2> QED
    BY <1>4, <2>2, <2>3 DEF TransportError, TypeOK, SleepInv
<1>5. ASSUME NEW c \in Calls, FatalError(c)
      PROVE  TypeOK' /\ SleepInv'
  BY <1>5 DEF FatalError, Return, TypeOK, SleepInv, Result
<1>6. ASSUME NEW c \in Calls, Wake(c)
      PROVE  TypeOK' /\ SleepInv'
  BY <1>6, Formed DEF Wake, TypeOK, SleepInv
<1>7. ASSUME NEW c \in Calls, Cancel(c)
      PROVE  TypeOK' /\ SleepInv'
  BY <1>7 DEF Cancel, TypeOK, SleepInv
<1>8. ASSUME NEW c \in Calls, Repeat(c)
      PROVE  TypeOK' /\ SleepInv'
  BY <1>8, Formed DEF Repeat, TypeOK, SleepInv, Result
<1>9. ASSUME NEW c \in Calls, GatewayError(c)
      PROVE  TypeOK' /\ SleepInv'
  BY <1>9, Formed DEF GatewayError, TypeOK, SleepInv
<1>10. ASSUME NEW m \in wire \cup busy, Server(m)
       PROVE  TypeOK' /\ SleepInv'
  <2>1. m \in Message
    BY DEF TypeOK
  <2>2. reply' \in [Calls -> Response \cup {None}]
    BY <1>10, <2>1, ServerResponds, RespondTyped DEF TypeOK
  <2>3. wire' \subseteq Message /\ busy' \subseteq Message
    BY <1>10, <2>1
    DEF Server, Lose, RateLimit, InProgress, Replay, Admit, Commit, Reject, Abort, Finish, TypeOK
  <2>4. m[1] \in Calls /\ Op(m[1]) \in Operations
    BY <2>1 DEF Message, TypeOK, Op, Request
  <2>5. /\ store' \in [Operations -> {"absent", "running", "succeeded", "rejected"}]
        /\ effects' \in [Operations -> Nat]
    BY <1>10, <2>4
    DEF Server, Lose, RateLimit, InProgress, Replay, Admit, Commit, Reject, Abort, Finish, TypeOK
  <2>6. UNCHANGED callVars
    BY <1>10
    DEF Server, Lose, RateLimit, InProgress, Replay, Admit, Commit, Reject, Abort
  <2> QED
    BY <2>2, <2>3, <2>5, <2>6 DEF TypeOK, SleepInv
<1>11. CASE UNCHANGED vars
  BY <1>11 DEF vars, TypeOK, SleepInv
<1> QED
  BY <1>1, <1>2, <1>3, <1>4, <1>5, <1>6, <1>7, <1>8, <1>9, <1>10, <1>11 DEF Next, Client

\* TypeOK: every field of the client's futures, the network and pretix stays
\* in its range; in particular no future uses more attempts than max_retries
\* grants it.
THEOREM TypeCorrect == Spec => [](TypeOK /\ SleepInv)
BY InitTyped, StepTyped, PTL DEF Spec

-----------------------------------------------------------------------------
(* The invariant, part by part.                                            *)

LEMMA RequestsNeverChange == [Next]_vars => UNCHANGED request
BY DEF Next, Client, Server, vars, callVars, serverVars, FailEncode, Send, Receive, TransportError,
       FatalError, Wake, Cancel, Repeat, GatewayError, Lose, RateLimit, InProgress, Replay,
       Admit, Commit, Reject, Abort

\* Only the client's own steps and the gateway leave pretix and its key store
\* alone.
LEMMA ClientLeavesServer ==
  ASSUME NEW c \in Calls, Client(c) \/ GatewayError(c)
  PROVE  /\ UNCHANGED serverVars
         /\ wire' = wire \/ (Send(c) /\ wire' = wire \cup {<<c, sent[c] + 1>>})
         /\ UNCHANGED sent \/ Send(c)
BY DEF Client, GatewayError, serverVars, FailEncode, Send, Receive, TransportError, FatalError,
       Wake, Cancel, Repeat, callVars

\* Messages move from the wire to pretix and from there nowhere.
LEMMA ServerMoves ==
  ASSUME NEW m \in wire \cup busy, Server(m)
  PROVE  /\ wire' \cup busy' \subseteq wire \cup busy
         /\ \/ wire' = wire \ {m} /\ m \in wire
            \/ wire' = wire /\ m \in busy
         /\ \/ busy' = busy
            \/ Admit(m) /\ busy' = busy \cup {m}
            \/ busy' = busy \ {m} /\ m \in busy
         /\ UNCHANGED callVars
<1>1. CASE Lose(m) \/ RateLimit(m) \/ InProgress(m) \/ Replay(m)
  BY <1>1 DEF Lose, RateLimit, InProgress, Replay, serverVars
<1>2. CASE Admit(m)
  BY <1>2 DEF Admit
<1>3. CASE Commit(m) \/ Reject(m) \/ Abort(m)
  BY <1>3 DEF Commit, Reject, Abort, Finish
<1> QED
  BY <1>1, <1>2, <1>3 DEF Server

LEMMA StepNumbered == TypeOK /\ Numbered /\ [Next]_vars => Numbered'
<1> SUFFICES ASSUME TypeOK, Numbered, [Next]_vars
             PROVE  Numbered'
  OBVIOUS
<1>1. ASSUME NEW c \in Calls, Send(c)
      PROVE  Numbered'
  <2>1. sent' = [sent EXCEPT ![c] = @ + 1] /\ sent \in [Calls -> Nat]
    BY <1>1 DEF Send, TypeOK
  <2>2. \A m \in wire \cup busy : m[1] \in Calls /\ m[2] \in 1..sent[m[1]]
    BY DEF Numbered, TypeOK, Message
  <2>3. wire' = wire \cup {<<c, sent[c] + 1>>} /\ busy' = busy
    BY <1>1 DEF Send, serverVars
  <2>4. <<c, sent[c] + 1>> \notin busy
    BY <2>1, <2>2
  <2> QED
    BY <2>1, <2>2, <2>3, <2>4 DEF Numbered
<1>2. ASSUME NEW c \in Calls, Client(c) \/ GatewayError(c), ~Send(c)
      PROVE  Numbered'
  BY <1>2, ClientLeavesServer DEF Numbered, serverVars
<1>3. ASSUME NEW m \in wire \cup busy, Server(m)
      PROVE  Numbered'
  BY <1>3, ServerMoves DEF Numbered, callVars, Admit
<1>4. CASE UNCHANGED vars
  BY <1>4 DEF vars, Numbered, callVars, serverVars
<1> QED
  BY <1>1, <1>2, <1>3, <1>4 DEF Next

LEMMA StepStore ==
  TypeOK /\ SharedOnlyWithKey /\ Numbered /\ StoreInv /\ [Next]_vars => StoreInv'
<1> SUFFICES ASSUME TypeOK, SharedOnlyWithKey, Numbered, StoreInv, [Next]_vars
             PROVE  StoreInv'
  OBVIOUS
<1>r. UNCHANGED request
  BY RequestsNeverChange
<1> USE DEF Recorded, Mutating, Op
<1>1. ASSUME NEW c \in Calls, Client(c) \/ GatewayError(c)
      PROVE  StoreInv'
  BY <1>1, <1>r, ClientLeavesServer DEF StoreInv, serverVars
<1>2. ASSUME NEW m \in wire \cup busy, Server(m)
      PROVE  StoreInv'
  <2>t. /\ m \in Message /\ m[1] \in Calls /\ Op(m[1]) \in Operations
        /\ \A n \in wire \cup busy : n[1] \in Calls
        /\ \A c \in Calls : Op(c) \in Operations
    BY DEF TypeOK, Message, Request
  <2>1. CASE Lose(m) \/ RateLimit(m) \/ InProgress(m) \/ Replay(m)
    BY <2>1, <1>r DEF Lose, RateLimit, InProgress, Replay, StoreInv, serverVars
  <2>2. CASE Admit(m)
    BY <2>2, <2>t, <1>r DEF Admit, StoreInv, TypeOK
  <2>3. CASE Commit(m)
    BY <2>3, <2>t, <1>r DEF Commit, Finish, StoreInv, SharedOnlyWithKey, TypeOK
  <2>4. CASE Reject(m)
    BY <2>4, <2>t, <1>r DEF Reject, Finish, StoreInv, TypeOK
  <2>5. CASE Abort(m)
    BY <2>5, <2>t, <1>r DEF Abort, Finish, StoreInv, TypeOK
  <2> QED
    BY <1>2, <2>1, <2>2, <2>3, <2>4, <2>5 DEF Server
<1>3. CASE UNCHANGED vars
  BY <1>3 DEF vars, StoreInv, callVars, serverVars
<1> QED
  BY <1>1, <1>2, <1>3 DEF Next

\* Which steps have an effect, and on which operation.
LEMMA OnlyCommitHasEffect ==
  ASSUME NEW m \in wire \cup busy, Server(m), TypeOK, effects' # effects
  PROVE  /\ Commit(m) /\ m \in busy /\ m[1] \in Calls
         /\ Mutating(m[1]) /\ Op(m[1]) \in Operations
         /\ effects' = [effects EXCEPT ![Op(m[1])] = @ + 1]
BY DEF Server, Lose, RateLimit, InProgress, Replay, Admit, Commit, Reject, Abort, Finish,
       serverVars, TypeOK, Message, Op, Request

\* A message pretix is executing belongs to an operation that has had no
\* effect yet.
LEMMA BusyWithoutEffect ==
  ASSUME TypeOK, StoreInv, \A c \in Calls : Unprotected(c) => UnprotectedInv(c),
         NEW m \in busy, Mutating(m[1])
  PROVE  effects[Op(m[1])] = 0
<1>1. m[1] \in Calls /\ Op(m[1]) \in Operations
  BY DEF TypeOK, Message, Op, Request
<1>2. CASE Recorded(m[1])
  BY <1>1, <1>2 DEF StoreInv
<1>3. CASE Unprotected(m[1])
  BY <1>1, <1>3 DEF UnprotectedInv
<1> QED
  BY <1>2, <1>3 DEF Recorded, Unprotected

LEMMA StepAtMostOnce ==
  /\ TypeOK /\ StoreInv /\ EffectAtMostOnce
  /\ \A c \in Calls : Unprotected(c) => UnprotectedInv(c)
  /\ [Next]_vars
  => EffectAtMostOnce'
<1> SUFFICES ASSUME TypeOK, StoreInv, EffectAtMostOnce,
                    \A c \in Calls : Unprotected(c) => UnprotectedInv(c), [Next]_vars
             PROVE  EffectAtMostOnce'
  OBVIOUS
<1>1. ASSUME NEW c \in Calls, Client(c) \/ GatewayError(c)
      PROVE  EffectAtMostOnce'
  BY <1>1, ClientLeavesServer DEF EffectAtMostOnce, serverVars
<1>2. ASSUME NEW m \in wire \cup busy, Server(m)
      PROVE  EffectAtMostOnce'
  <2>1. CASE effects' = effects
    BY <2>1 DEF EffectAtMostOnce
  <2>2. CASE effects' # effects
    BY <1>2, <2>2, OnlyCommitHasEffect, BusyWithoutEffect DEF EffectAtMostOnce, TypeOK
  <2> QED
    BY <2>1, <2>2
<1>3. CASE UNCHANGED vars
  BY <1>3 DEF vars, EffectAtMostOnce, serverVars
<1> QED
  BY <1>1, <1>2, <1>3 DEF Next

\* A step of pretix or the network changes the reply of the call whose
\* message it handles, if that call is still waiting for one.
LEMMA ServerReplies ==
  ASSUME NEW m \in wire \cup busy, Server(m), TypeOK
  PROVE  /\ \A c \in Calls : reply'[c] # reply[c] =>
              c = m[1] /\ pc[c] = "awaiting" /\ reply'[c] \in Response
         /\ m[1] \in Calls
<1>1. m[1] \in Calls
  BY DEF TypeOK, Message
<1>2. reply' = reply \/ \E r \in Response : Respond(m, r)
  BY ServerResponds
<1> QED
  BY <1>1, <1>2 DEF Respond, TypeOK

LEMMA StepReply == TypeOK /\ ReplyInv /\ [Next]_vars => ReplyInv'
<1> SUFFICES ASSUME TypeOK, ReplyInv, [Next]_vars
             PROVE  ReplyInv'
  OBVIOUS
<1>1. ASSUME NEW c \in Calls, Client(c) \/ GatewayError(c)
      PROVE  ReplyInv'
  <2>1. \A d \in Calls \ {c} : pc'[d] = pc[d] /\ reply'[d] = reply[d]
    BY <1>1 DEF Client, GatewayError, FailEncode, Send, Receive, TransportError, FatalError,
                Wake, Cancel, Repeat, Return, Consult, callVars, TypeOK
  <2>2. reply'[c] # None => pc'[c] = "awaiting"
    BY <1>1 DEF Client, GatewayError, FailEncode, Send, Receive, TransportError, FatalError,
                Wake, Cancel, Repeat, Return, Consult, callVars, TypeOK, ReplyInv
  <2> QED
    BY <2>1, <2>2 DEF ReplyInv
<1>2. ASSUME NEW m \in wire \cup busy, Server(m)
      PROVE  ReplyInv'
  BY <1>2, ServerReplies, ServerMoves DEF ReplyInv, callVars
<1>3. CASE UNCHANGED vars
  BY <1>3 DEF vars, ReplyInv, callVars
<1> QED
  BY <1>1, <1>2, <1>3 DEF Next

LEMMA StepSuccess ==
  /\ TypeOK /\ StoreInv /\ EffectAtMostOnce /\ SuccessInv
  /\ \A c \in Calls : Unprotected(c) => UnprotectedInv(c)
  /\ [Next]_vars
  => SuccessInv'
<1> SUFFICES ASSUME TypeOK, StoreInv, EffectAtMostOnce, SuccessInv,
                    \A c \in Calls : Unprotected(c) => UnprotectedInv(c), [Next]_vars
             PROVE  SuccessInv'
  OBVIOUS
<1>r. UNCHANGED request
  BY RequestsNeverChange
<1> USE DEF Mutating, Op
<1>1. ASSUME NEW c \in Calls, Client(c) \/ GatewayError(c)
      PROVE  SuccessInv'
  <2>1. /\ effects' = effects
        /\ \A d \in Calls \ {c} : reply'[d] = reply[d] /\ result'[d] = result[d]
    BY <1>1 DEF Client, GatewayError, FailEncode, Send, Receive, TransportError, FatalError,
                Wake, Cancel, Repeat, Return, Consult, callVars, serverVars, TypeOK
  <2>2. \/ reply'[c] = reply[c]
        \/ reply'[c] = None
        \/ reply'[c] # None /\ reply'[c].status \in FailureStatuses
    BY <1>1 DEF Client, GatewayError, FailEncode, Send, Receive, TransportError, FatalError,
                Wake, Cancel, Repeat, callVars, TypeOK
  <2>3. \/ result'[c] = result[c]
        \/ result'[c].type \notin {"ok", "decode"}
        \/ reply[c] # None /\ reply[c].status \in 200..299
    <3>1. CASE Receive(c)
      BY <3>1 DEF Receive, Return, Consult, Decoded, TypeOK
    <3>2. CASE ~Receive(c)
      BY <1>1, <3>2 DEF Client, GatewayError, FailEncode, Send, TransportError, FatalError,
                        Wake, Cancel, Repeat, Return, Consult, callVars, TypeOK
    <3> QED
      BY <3>1, <3>2
  <2> QED
    BY <1>r, <2>1, <2>2, <2>3, ExecutionAssumption DEF SuccessInv
<1>2. ASSUME NEW m \in wire \cup busy, Server(m)
      PROVE  SuccessInv'
  <2>1. \A c \in Calls : Mutating(c) /\ effects[Op(c)] = 1 => effects'[Op(c)] = 1
    <3>1. CASE effects' = effects
      BY <3>1
    <3>2. CASE effects' # effects
      BY <1>2, <3>2, OnlyCommitHasEffect, BusyWithoutEffect DEF TypeOK, Request
    <3> QED
      BY <3>1, <3>2
  <2>2. UNCHANGED result
    BY <1>2, ServerMoves DEF callVars
  <2>3. \A c \in Calls : reply'[c] = reply[c] \/ c = m[1]
    BY <1>2, ServerReplies
  <2>4. m[1] \in Calls /\ Op(m[1]) \in Operations
    BY DEF TypeOK, Message, Request
  <2>5. /\ Mutating(m[1]) /\ reply'[m[1]] # reply[m[1]]
        /\ reply'[m[1]] # None /\ reply'[m[1]].status \in 200..299
        => effects'[Op(m[1])] = 1
    <3> SUFFICES ASSUME Mutating(m[1]), reply'[m[1]] # reply[m[1]],
                        reply'[m[1]].status \in 200..299
                 PROVE  effects'[Op(m[1])] = 1
      OBVIOUS
    <3>1. PICK r \in Response : Respond(m, r) /\ Answers(m, r)
      BY <1>2, ServerResponds
    <3>2. reply'[m[1]] = r
      BY <3>1, <2>4 DEF Respond, TypeOK
    <3>3. (Replay(m) /\ store[Op(m[1])] = "succeeded") \/ Commit(m)
      BY <3>1, <3>2, ExecutionAssumption DEF Answers
    <3>4. CASE Replay(m) /\ store[Op(m[1])] = "succeeded"
      BY <3>4, <2>4 DEF Replay, StoreInv, serverVars, Recorded
    <3>5. CASE Commit(m)
      <4>1. m \in busy
        BY <3>5 DEF Commit, Finish
      <4>2. effects[Op(m[1])] = 0
        BY <4>1, BusyWithoutEffect
      <4> QED
        BY <3>5, <4>2, <2>4 DEF Commit, TypeOK
    <3> QED
      BY <3>3, <3>4, <3>5
  <2> QED
    BY <1>r, <2>1, <2>2, <2>3, <2>5 DEF SuccessInv
<1>3. CASE UNCHANGED vars
  BY <1>3 DEF vars, SuccessInv, callVars, serverVars
<1> QED
  BY <1>1, <1>2, <1>3 DEF Next

\* A step of another call does not touch an unprotected one.
LEMMA OtherCallUnprotected ==
  ASSUME TypeOK, NEW c \in Calls, NEW d \in Calls \ {c}, Client(d) \/ GatewayError(d),
         UnprotectedInv(c)
  PROVE  UnprotectedInv(c)'
<1>1. UNCHANGED request
  BY RequestsNeverChange DEF Next
<1>2. /\ pc'[c] = pc[c] /\ result'[c] = result[c]
      /\ reply'[c] = reply[c] /\ sent'[c] = sent[c]
  BY DEF Client, GatewayError, FailEncode, Send, Receive, TransportError, FatalError,
         Wake, Cancel, Repeat, Return, Consult, callVars, TypeOK
<1>3. effects' = effects /\ busy' = busy
  BY ClientLeavesServer DEF serverVars
<1>4. \A m \in wire' : m[1] = c => m \in wire
  BY ClientLeavesServer
<1> QED
  BY <1>1, <1>2, <1>3, <1>4
  DEF UnprotectedInv, Quiet, DeniedReply, DeniedResult, MayRepeat, Kind, Op

\* A failure that the policy retries for an unprotected call, or that the
\* caller may repeat, is a 429.
LEMMA UnprotectedRetries ==
  ASSUME NEW c \in Calls, Unprotected(c)
  PROVE  /\ \A outcome :
              /\ outcome.type \in {"transport", "status"}
              /\ IsRetryable(Kind(c), outcome)
              => outcome.type = "status" /\ outcome.status = 429
         /\ MayRepeat(c) => result[c].type = "api" /\ result[c].status = 429
<1>1. ~IsRepeatable(Kind(c))
  BY DEF Unprotected, Mutating, IsRepeatable, Kind
<1> QED
  BY <1>1 DEF IsRetryable, MayRepeat, ApiErrorIsRetryable, TransportErrorIsRetryable

LEMMA OwnStepUnprotected ==
  ASSUME TypeOK, Numbered, ReplyInv, NEW c \in Calls, Unprotected(c), UnprotectedInv(c),
         Client(c) \/ GatewayError(c)
  PROVE  UnprotectedInv(c)'
<1>r. UNCHANGED request
  BY RequestsNeverChange DEF Next
<1>u. Unprotected(c)'
  BY <1>r DEF Unprotected, Mutating
<1> USE DEF Op
<1>1. CASE FailEncode(c)
  BY <1>1, <1>r DEF FailEncode, Return, UnprotectedInv, Quiet, DeniedReply, TypeOK, serverVars
<1>2. CASE Send(c)
  <2>1. ~DeniedReply(c)' /\ ~DeniedResult(c)'
    BY <1>2 DEF Send, DeniedReply, DeniedResult, ReplyInv, TypeOK
  <2>2. Quiet(c) /\ sent'[c] = sent[c] + 1 /\ pc'[c] = "awaiting"
    BY <1>2 DEF Send, UnprotectedInv, TypeOK
  <2> QED
    BY <1>2, <1>r, <2>1, <2>2 DEF Send, UnprotectedInv, Quiet, serverVars
<1>3. CASE Receive(c)
  <2>1. /\ wire' = wire /\ busy' = busy /\ effects' = effects /\ sent' = sent
        /\ reply'[c] = None /\ pc[c] = "awaiting" /\ reply[c] # None
        /\ reply[c] \in Response
    BY <1>3 DEF Receive, serverVars, TypeOK
  <2>2. Quiet(c) => Quiet(c)'
    BY <1>r, <2>1 DEF Quiet
  <2>3. CASE reply[c].status \in 200..299
    <3>1. pc'[c] = "done" /\ result'[c].type \in {"ok", "decode"}
      BY <1>3, <2>3 DEF Receive, Return, Decoded, TypeOK
    <3> QED
      BY <1>r, <2>1, <3>1 DEF UnprotectedInv, DeniedReply, DeniedResult, MayRepeat
  <2>4. CASE reply[c].status \notin 200..299 /\ pc'[c] = "sleeping"
    <3> DEFINE o == [type |-> "status", status |-> reply[c].status,
                     retry_after |-> reply[c].retry_after]
    <3>1. Delay(Retry, attempt[c], Kind(c), o) # {}
      BY <1>3, <2>4 DEF Receive, Return, Consult, TypeOK
    <3>2. IsRetryable(Kind(c), o)
      BY <3>1, DelayIsRetryable, ExecutionAssumption, Formed DEF TypeOK
    <3>3. o.status = 429
      BY <3>2, UnprotectedRetries
    <3>4. Quiet(c)
      BY <2>1, <3>3 DEF UnprotectedInv, DeniedReply
    <3> QED
      BY <2>1, <2>2, <2>4, <3>4 DEF UnprotectedInv, DeniedReply, DeniedResult, Quiet
  <2>5. CASE reply[c].status \notin 200..299 /\ pc'[c] # "sleeping"
    <3>1. /\ pc'[c] = "done"
          /\ result'[c] = [type |-> "api", status |-> reply[c].status,
                            retry_after |-> reply[c].retry_after]
      <4>1. CASE reply[c].status \in 200..399
        BY <1>3, <2>5, <4>1 DEF Receive, Return, Decoded, TypeOK
      <4>2. CASE reply[c].status \notin 200..399
        BY <1>3, <2>5, <4>2 DEF Receive, Return, Consult, TypeOK
      <4> QED
        BY <4>1, <4>2
    <3>2. MayRepeat(c)' => result'[c].status = 429
      <4>1. ~IsRepeatable(Kind(c))'
        BY <1>u DEF Unprotected, Mutating, IsRepeatable, Kind
      <4> QED
        BY <4>1, <3>1 DEF MayRepeat, ApiErrorIsRetryable
    <3>3. DeniedResult(c)' => Quiet(c)
      BY <2>1, <3>1, <3>2 DEF UnprotectedInv, DeniedReply, DeniedResult
    <3> QED
      BY <1>r, <2>1, <2>2, <3>1, <3>3 DEF UnprotectedInv, DeniedReply
  <2> QED
    BY <2>3, <2>4, <2>5
<1>4. CASE TransportError(c)
  <2>1. Delay(Retry, attempt[c], Kind(c), [type |-> "transport"]) = {}
    <3> SUFFICES ASSUME Delay(Retry, attempt[c], Kind(c), [type |-> "transport"]) # {}
                 PROVE  FALSE
      OBVIOUS
    <3>1. IsRetryable(Kind(c), [type |-> "transport"])
      BY DelayIsRetryable, ExecutionAssumption, Formed DEF TypeOK
    <3> QED
      BY <3>1, UnprotectedRetries
  <2>2. pc'[c] = "done" /\ result'[c] = [type |-> "transport"]
    BY <1>4, <2>1 DEF TransportError, Consult, Return, TypeOK
  <2>3. ~DeniedResult(c)'
    <3>1. ~IsRepeatable(Kind(c))'
      BY <1>u DEF Unprotected, Mutating, IsRepeatable, Kind
    <3> QED
      BY <2>2, <3>1 DEF DeniedResult, MayRepeat, TransportErrorIsRetryable
  <2> QED
    BY <1>4, <1>r, <2>2, <2>3 DEF TransportError, UnprotectedInv, DeniedReply, serverVars
<1>5. CASE FatalError(c)
  BY <1>5, <1>r
  DEF FatalError, Return, UnprotectedInv, DeniedReply, DeniedResult, MayRepeat, TypeOK, serverVars
<1>6. CASE Wake(c)
  BY <1>6, <1>r DEF Wake, UnprotectedInv, Quiet, DeniedReply, DeniedResult, TypeOK, serverVars
<1>7. CASE Cancel(c)
  BY <1>7, <1>r DEF Cancel, UnprotectedInv, DeniedReply, DeniedResult, TypeOK, serverVars
<1>8. CASE Repeat(c)
  <2>1. Quiet(c)
    BY <1>8 DEF Repeat, Unprotected, UnprotectedInv, DeniedResult
  <2>2. Quiet(c)'
    BY <1>8, <1>r, <2>1 DEF Repeat, Quiet, serverVars
  <2> QED
    BY <1>8, <1>r, <2>2 DEF Repeat, UnprotectedInv, Quiet, serverVars
<1>9. CASE GatewayError(c)
  <2>1. reply'[c].status \notin RejectStatuses \cup {429}
    <3> PICK s \in FailureStatuses, ra \in RetryAfters \cup {None} :
               reply' = [reply EXCEPT ![c] = [status |-> s, retry_after |-> ra]]
      BY <1>9 DEF GatewayError
    <3>1. reply'[c].status = s
      BY DEF TypeOK
    <3>2. s \notin RejectStatuses \cup {429}
      BY ExecutionAssumption
    <3> QED
      BY <3>1, <3>2
  <2>2. UNCHANGED <<wire, busy, effects, sent, pc, result>>
    BY <1>9 DEF GatewayError, callVars, serverVars
  <2> QED
    BY <1>r, <2>1, <2>2
    DEF UnprotectedInv, Quiet, DeniedReply, DeniedResult, MayRepeat, Kind
<1> QED
  BY <1>1, <1>2, <1>3, <1>4, <1>5, <1>6, <1>7, <1>8, <1>9 DEF Client

\* A step of pretix or the network on the message of another call.
LEMMA OtherMessageUnprotected ==
  ASSUME TypeOK, SharedOnlyWithKey, NEW c \in Calls, Unprotected(c), UnprotectedInv(c),
         NEW m \in wire \cup busy, Server(m), m[1] # c
  PROVE  UnprotectedInv(c)'
<1>1. UNCHANGED callVars /\ reply'[c] = reply[c]
  BY ServerMoves, ServerReplies
<1>2. \A n \in wire' \cup busy' : n \in wire \cup busy
  BY ServerMoves
<1>3. effects'[Op(c)] = effects[Op(c)]
  <2>1. CASE effects' = effects
    BY <2>1
  <2>2. CASE effects' # effects
    <3>1. Op(m[1]) # Op(c)
      BY <2>2, OnlyCommitHasEffect DEF SharedOnlyWithKey, Unprotected
    <3> QED
      BY <2>2, <3>1, OnlyCommitHasEffect DEF TypeOK, Op, Request
  <2> QED
    BY <2>1, <2>2
<1> QED
  BY <1>1, <1>2, <1>3
  DEF UnprotectedInv, Quiet, DeniedReply, DeniedResult, MayRepeat, Kind, Op, callVars

\* A step of pretix or the network on the message of the call itself: it is
\* the call's only one, and once pretix is done with it the call is quiet,
\* unless it was executed.
LEMMA OwnMessageUnprotected ==
  ASSUME TypeOK, Numbered, NEW c \in Calls, Unprotected(c), UnprotectedInv(c),
         NEW m \in wire \cup busy, Server(m), m[1] = c
  PROVE  UnprotectedInv(c)'
<1>1. UNCHANGED callVars
  BY ServerMoves
<1>2. \A n \in wire \cup busy : n[1] = c => n = m
  BY DEF UnprotectedInv, TypeOK, Message
<1>3. ~Quiet(c) /\ effects[Op(c)] = 0
  BY DEF Quiet, UnprotectedInv
<1>4. pc[c] \notin {"ready", "sleeping"} /\ ~DeniedReply(c) /\ ~DeniedResult(c)
  BY <1>3 DEF UnprotectedInv
<1>5. ~DeniedResult(c)' /\ pc'[c] \notin {"ready", "sleeping"}
  BY <1>1, <1>4 DEF DeniedResult, MayRepeat, Kind, callVars
<1>6. ~Recorded(c)
  BY DEF Unprotected, Recorded
<1>7. CASE effects' = effects /\ \A n \in wire' \cup busy' : n[1] # c
  BY <1>1, <1>3, <1>5, <1>7 DEF UnprotectedInv, Quiet, Op, callVars
<1>8. CASE Admit(m)
  BY <1>1, <1>2, <1>3, <1>4, <1>5, <1>8
  DEF Admit, UnprotectedInv, DeniedReply, Op, callVars
<1>9. CASE Commit(m)
  <2>1. \A n \in wire' \cup busy' : n[1] # c
    BY <1>2, <1>9 DEF Commit, Finish, Numbered
  <2>2. ~DeniedReply(c)'
    <3> PICK s \in SuccessStatuses : Respond(m, [status |-> s, retry_after |-> None])
      BY <1>9 DEF Commit
    <3>1. s \notin RejectStatuses \cup {429}
      BY ExecutionAssumption
    <3>2. \/ reply'[c] = reply[c]
          \/ reply'[c] = [status |-> s, retry_after |-> None]
      BY DEF Respond, TypeOK
    <3> QED
      BY <1>1, <1>4, <3>1, <3>2 DEF DeniedReply, callVars
  <2> QED
    BY <1>5, <2>1, <2>2 DEF UnprotectedInv
<1>10. CASE Lose(m) \/ RateLimit(m)
  <2>1. effects' = effects /\ wire' = wire \ {m} /\ busy' = busy /\ m \in wire
    BY <1>10 DEF Lose, RateLimit, serverVars
  <2> QED
    BY <1>2, <1>7, <2>1 DEF Numbered
<1>11. CASE Reject(m) \/ Abort(m)
  <2>1. effects' = effects /\ wire' = wire /\ busy' = busy \ {m} /\ m \in busy
    BY <1>11 DEF Reject, Abort, Finish
  <2> QED
    BY <1>2, <1>7, <2>1 DEF Numbered
<1> QED
  BY <1>6, <1>8, <1>9, <1>10, <1>11 DEF Server, InProgress, Replay

LEMMA StepUnprotected ==
  /\ TypeOK /\ SharedOnlyWithKey /\ Numbered /\ ReplyInv
  /\ \A c \in Calls : Unprotected(c) => UnprotectedInv(c)
  /\ [Next]_vars
  => (\A c \in Calls : Unprotected(c) => UnprotectedInv(c))'
<1> SUFFICES ASSUME TypeOK, SharedOnlyWithKey, Numbered, ReplyInv,
                    \A c \in Calls : Unprotected(c) => UnprotectedInv(c), [Next]_vars,
                    NEW c \in Calls, Unprotected(c)'
             PROVE  UnprotectedInv(c)'
  OBVIOUS
<1>1. Unprotected(c) /\ UnprotectedInv(c)
  BY RequestsNeverChange DEF Unprotected, Mutating
<1>2. ASSUME NEW d \in Calls, Client(d) \/ GatewayError(d)
      PROVE  UnprotectedInv(c)'
  BY <1>1, <1>2, OtherCallUnprotected, OwnStepUnprotected
<1>3. ASSUME NEW m \in wire \cup busy, Server(m)
      PROVE  UnprotectedInv(c)'
  BY <1>1, <1>3, OtherMessageUnprotected, OwnMessageUnprotected
<1>4. CASE UNCHANGED vars
  BY <1>1, <1>4
  DEF vars, callVars, serverVars, UnprotectedInv, Quiet, DeniedReply, DeniedResult, MayRepeat,
      Kind, Op
<1> QED
  BY <1>2, <1>3, <1>4 DEF Next

-----------------------------------------------------------------------------
(* The invariant and what follows from it.                                 *)

LEMMA InitInv == Init => IInv
<1> SUFFICES ASSUME Init PROVE IInv
  OBVIOUS
<1>1. TypeOK /\ SleepInv
  BY InitTyped
<1>2. SharedOnlyWithKey /\ Numbered /\ ReplyInv /\ SuccessInv /\ EffectAtMostOnce
  BY DEF Init, SharedOnlyWithKey, Numbered, ReplyInv, SuccessInv, EffectAtMostOnce, Op
<1>3. \A c \in Calls : Op(c) \in Operations
  BY <1>1 DEF TypeOK, Op, Request
<1>4. StoreInv
  BY <1>3 DEF Init, StoreInv
<1>5. \A c \in Calls : Unprotected(c) => UnprotectedInv(c)
  BY <1>3 DEF Init, UnprotectedInv, Quiet, DeniedReply, DeniedResult
<1> QED
  BY <1>1, <1>2, <1>4, <1>5 DEF IInv

LEMMA StepInv == IInv /\ [Next]_vars => IInv'
<1>1. SharedOnlyWithKey /\ [Next]_vars => SharedOnlyWithKey'
  BY RequestsNeverChange DEF SharedOnlyWithKey, Op
<1> QED
  BY <1>1, StepTyped, StepNumbered, StepStore, StepReply, StepSuccess, StepUnprotected,
     StepAtMostOnce
  DEF IInv

\* The inductive invariant holds in every reachable state.
THEOREM Invariant == Spec => []IInv
BY InitInv, StepInv, PTL DEF Spec

\* EffectAtMostOnce: no operation takes effect twice, whatever is lost,
\* delayed, retried or repeated.
THEOREM AtMostOneEffect == Spec => []EffectAtMostOnce
<1>1. IInv => EffectAtMostOnce
  BY DEF IInv
<1> QED
  BY <1>1, Invariant, PTL

\* SuccessMeansEffect: Ok is only returned for what has happened.
THEOREM SuccessIsTrue == Spec => []SuccessMeansEffect
<1>1. IInv => SuccessMeansEffect
  BY DEF IInv, SuccessInv, SuccessMeansEffect
<1> QED
  BY <1>1, Invariant, PTL

\* RepeatableMeansNoEffect: is_retryable, and a rejection, can be relied on.
THEOREM RepeatableIsSafe == Spec => []RepeatableMeansNoEffect
<1>1. IInv => RepeatableMeansNoEffect
  BY DEF IInv, RepeatableMeansNoEffect, UnprotectedInv, DeniedResult, Quiet, Outstanding
<1> QED
  BY <1>1, Invariant, PTL

\* NeverSentInDoubt: an unprotected request is only sent (again) when no
\* earlier message of it was executed or may yet be.
THEOREM SendIsSafe == Spec => NeverSentInDoubt
<1>1. IInv /\ [Next]_vars =>
        [\A c \in Calls :
           Unprotected(c) /\ sent'[c] # sent[c] =>
             effects[Op(c)] = 0 /\ Outstanding(c) = {}]_vars
  <2> SUFFICES ASSUME IInv, [Next]_vars, NEW c \in Calls, Unprotected(c), sent'[c] # sent[c]
               PROVE  Quiet(c)
    BY DEF Quiet, Outstanding
  <2>1. Send(c)
    <3>1. ASSUME NEW d \in Calls, Client(d) \/ GatewayError(d)
          PROVE  Send(c)
      BY <3>1, ClientLeavesServer DEF Send, IInv, TypeOK
    <3>2. ASSUME NEW m \in wire \cup busy, Server(m)
          PROVE  FALSE
      BY <3>2, ServerMoves DEF callVars
    <3>3. CASE UNCHANGED vars
      BY <3>3 DEF vars, callVars
    <3> QED
      BY <3>1, <3>2, <3>3 DEF Next
  <2> QED
    BY <2>1 DEF Send, IInv, UnprotectedInv
<1> QED
  BY <1>1, Invariant, PTL DEF Spec, NeverSentInDoubt

-----------------------------------------------------------------------------
(* How many messages a call sends.                                         *)

LEMMA InitCount == Init => CountInv
BY Formed DEF Init, CountInv

LEMMA StepCount == TypeOK /\ SleepInv /\ CountInv /\ [Next]_vars => CountInv'
<1> SUFFICES ASSUME TypeOK, SleepInv, CountInv, [Next]_vars
             PROVE  CountInv'
  OBVIOUS
<1> DEFINE M == Retry.max_retries + 1
           Base(c) == (issued[c] - 1) * M
<1>m. M \in Nat /\ \A i \in Nat : (i - 1) * M \in Int /\ i * M = (i - 1) * M + M
  BY Formed
<1>b. \A c \in Calls : /\ Base(c) \in Int
                       /\ sent[c] <= Base(c) + attempt[c] + (IF pc[c] = "ready" THEN 0 ELSE 1)
                       /\ issued[c] \in Nat /\ issued[c] >= 1
                       /\ sent[c] \in Nat /\ attempt[c] \in Nat
                       /\ attempt[c] < M
  BY <1>m, Formed DEF CountInv, TypeOK
<1>1. ASSUME NEW c \in Calls, Client(c) \/ GatewayError(c), ~Repeat(c)
      PROVE  CountInv'
  <2>1. issued' = issued
    BY <1>1 DEF Client, GatewayError, FailEncode, Send, Receive, TransportError, FatalError,
                Wake, Cancel, callVars
  <2>2. \A d \in Calls \ {c} : /\ pc'[d] = pc[d] /\ sent'[d] = sent[d]
                              /\ attempt'[d] = attempt[d]
    BY <1>1 DEF Client, GatewayError, FailEncode, Send, Receive, TransportError, FatalError,
                Wake, Cancel, Return, Consult, callVars, TypeOK
  <2>3. sent'[c] <= Base(c) + attempt'[c] + (IF pc'[c] = "ready" THEN 0 ELSE 1)
    <3>1. CASE Send(c)
      BY <1>b, <3>1 DEF Send, TypeOK
    <3>2. CASE Wake(c)
      BY <1>b, <3>2 DEF Wake, TypeOK
    <3>3. CASE ~Send(c) /\ ~Wake(c)
      <4>1. sent' = sent /\ attempt' = attempt /\ (pc'[c] = "ready" => pc[c] = "ready")
        BY <1>1, <3>3 DEF Client, GatewayError, FailEncode, Receive, TransportError,
                          FatalError, Cancel, Return, Consult, callVars, TypeOK
      <4> QED
        BY <1>b, <4>1
    <3> QED
      BY <3>1, <3>2, <3>3
  <2> QED
    BY <1>b, <2>1, <2>2, <2>3 DEF CountInv
<1>2. ASSUME NEW c \in Calls, Repeat(c)
      PROVE  CountInv'
  <2>1. /\ issued' = [issued EXCEPT ![c] = @ + 1] /\ sent' = sent
        /\ pc' = [pc EXCEPT ![c] = "ready"] /\ attempt' = [attempt EXCEPT ![c] = 0]
        /\ pc[c] # "ready"
    BY <1>2 DEF Repeat
  <2>2. sent[c] <= Base(c) + M
    <3>1. /\ Base(c) \in Int /\ M \in Nat /\ attempt[c] \in Nat /\ sent[c] \in Nat
          /\ attempt[c] < M /\ sent[c] <= Base(c) + attempt[c] + 1
      BY <1>b, <1>m, <2>1
    <3> HIDE DEF Base, M
    <3> QED
      BY <3>1
  <2>3. sent'[c] <= (issued'[c] - 1) * M
    <3>1. issued'[c] - 1 = issued[c]
      BY <1>b, <2>1 DEF TypeOK
    <3>2. issued[c] * M = Base(c) + M
      BY <1>b, <1>m
    <3> QED
      BY <2>1, <2>2, <3>1, <3>2
  <2>4. attempt'[c] = 0 /\ pc'[c] = "ready" /\ issued'[c] >= 1
    BY <1>b, <2>1 DEF TypeOK
  <2>5. \A d \in Calls \ {c} : /\ pc'[d] = pc[d] /\ attempt'[d] = attempt[d]
                              /\ issued'[d] = issued[d]
    BY <2>1 DEF TypeOK
  <2>6. (issued'[c] - 1) * M \in Int
    BY <1>b, <1>m, <2>1 DEF TypeOK
  <2> QED
    BY <1>b, <2>1, <2>3, <2>4, <2>5, <2>6 DEF CountInv
<1>3. ASSUME NEW m \in wire \cup busy, Server(m)
      PROVE  CountInv'
  BY <1>3, ServerMoves DEF CountInv, callVars
<1>4. CASE UNCHANGED vars
  BY <1>4 DEF vars, CountInv, callVars
<1> QED
  BY <1>1, <1>2, <1>3, <1>4 DEF Next, Client

\* AttemptsBounded: each issue of a call costs pretix at most max_retries + 1
\* requests.
THEOREM BoundedAttempts == Spec => []AttemptsBounded
<1>1. TypeOK /\ CountInv => AttemptsBounded
  <2> SUFFICES ASSUME TypeOK, CountInv, NEW c \in Calls
               PROVE  sent[c] <= issued[c] * (Retry.max_retries + 1)
    BY DEF AttemptsBounded
  <2> DEFINE M == Retry.max_retries + 1
  <2>1. /\ M \in Nat /\ issued[c] \in Nat /\ attempt[c] \in Nat
        /\ attempt[c] + 1 <= M /\ sent[c] \in Nat
    BY Formed DEF TypeOK
  <2>2. (issued[c] - 1) * M \in Int /\ issued[c] * M = (issued[c] - 1) * M + M
    BY <2>1
  <2>3. sent[c] <= (issued[c] - 1) * M + attempt[c] + 1
    BY <2>1, <2>2 DEF CountInv
  <2> QED
    BY <2>1, <2>2, <2>3
<1> QED
  BY <1>1, TypeCorrect, InitCount, StepCount, InitTyped, StepTyped, PTL DEF Spec

-----------------------------------------------------------------------------
(* Refinement.                                                             *)

\* What the verdicts are made of.
LEMMA VerdictIs ==
  ASSUME NEW c \in Calls, TypeOK
  PROVE  /\ ~Mutating(c) => Verdict(c) = "open"
         /\ Mutating(c) /\ pc[c] \in {"ready", "awaiting", "sleeping"} => Verdict(c) = "open"
         /\ Mutating(c) /\ pc[c] = "cancelled" => Verdict(c) = "unknown"
         /\ Mutating(c) /\ pc[c] = "done" =>
              /\ Verdict(c) \in {"succeeded", "rejected", "repeatable", "unknown"}
              /\ Verdict(c) = "succeeded" => result[c].type = "ok"
              /\ Verdict(c) \in {"rejected", "repeatable"} => DeniedResult(c)
              /\ MayRepeat(c) => Verdict(c) = "repeatable"
<1>1. pc[c] \in {"ready", "awaiting", "sleeping", "done", "cancelled"}
  BY DEF TypeOK
<1>2. MayRepeat(c) => result[c].type # "ok"
  BY DEF MayRepeat
<1>3. CASE ~Mutating(c) \/ pc[c] \in {"ready", "awaiting", "sleeping"}
  BY <1>3 DEF Verdict
<1>4. CASE Mutating(c) /\ pc[c] = "cancelled"
  BY <1>4 DEF Verdict
<1>5. CASE Mutating(c) /\ pc[c] = "done"
  BY <1>2, <1>5 DEF Verdict, Told, DeniedResult
<1> QED
  BY <1>1, <1>3, <1>4, <1>5

LEMMA PromiseInit == Init => Promise!Init
BY InitTyped, VerdictIs DEF Init, Promise!Init, Verdict

\* The verdict of a call whose future did not move stays.
LEMMA VerdictStays ==
  ASSUME NEW c \in Calls, UNCHANGED request, pc'[c] = pc[c], result'[c] = result[c]
  PROVE  Verdict(c)' = Verdict(c)
BY DEF Verdict, Told, Mutating, MayRepeat, Kind

LEMMA PromiseStep == IInv /\ IInv' /\ [Next]_vars => [Promise!Next]_(Promise!vars)
<1> SUFFICES ASSUME IInv, IInv', [Next]_vars
             PROVE  Promise!Next \/ UNCHANGED Promise!vars
  OBVIOUS
<1>t. TypeOK /\ TypeOK'
  BY DEF IInv
<1>r. UNCHANGED request
  BY RequestsNeverChange
<1> DEFINE verdicts == [c \in Calls |-> Verdict(c)]
<1>1. ASSUME NEW c \in Calls, Client(c) \/ GatewayError(c)
      PROVE  Promise!Next \/ UNCHANGED Promise!vars
  <2>1. effects' = effects
    BY <1>1, ClientLeavesServer DEF serverVars
  <2>2. \A d \in Calls \ {c} : Verdict(d)' = Verdict(d)
    <3>1. \A d \in Calls \ {c} : pc'[d] = pc[d] /\ result'[d] = result[d]
      BY <1>1, <1>t DEF Client, GatewayError, FailEncode, Send, Receive, TransportError,
                        FatalError, Wake, Cancel, Repeat, Return, Consult, callVars, TypeOK
    <3> QED
      BY <1>r, <3>1, VerdictStays
  <2>3. verdicts' = [verdicts EXCEPT ![c] = Verdict(c)']
    BY <2>2
  <2>4. CASE Verdict(c)' = Verdict(c)
    <3>1. verdicts' = verdicts
      BY <2>2, <2>4
    <3> QED
      BY <1>r, <2>1, <3>1 DEF Promise!vars
  <2>5. CASE Verdict(c)' # Verdict(c) /\ Repeat(c)
    <3>1. Mutating(c) /\ Mutating(c)'
      BY <1>r, <1>t, <2>5, VerdictIs DEF Verdict, Mutating
    <3>2. Verdict(c)' = "open" /\ Verdict(c) # "open"
      BY <2>5, <3>1, <1>t DEF Repeat, Verdict, TypeOK
    <3>3. request[c].keyed \/ Verdict(c) = "repeatable"
      BY <1>t, <2>5, <3>1, VerdictIs DEF Repeat
    <3>4. Promise!Reissue(c)
      BY <1>r, <2>1, <2>3, <3>2, <3>3 DEF Promise!Reissue
    <3> QED
      BY <3>4 DEF Promise!Next
  <2>6. CASE Verdict(c)' # Verdict(c) /\ ~Repeat(c)
    <3>1. Mutating(c) /\ Mutating(c)'
      BY <1>r, <2>6 DEF Verdict, Mutating
    <3>2. pc[c] \in {"ready", "awaiting", "sleeping"} /\ pc'[c] \in {"done", "cancelled"}
      BY <1>1, <1>t, <2>6, <3>1
      DEF Client, GatewayError, FailEncode, Send, Receive, TransportError,
          FatalError, Wake, Cancel, Return, Consult, callVars, TypeOK, Verdict
    <3>3. Verdict(c) = "open"
      BY <1>t, <3>1, <3>2, VerdictIs
    <3>4. /\ Verdict(c)' \in {"succeeded", "rejected", "repeatable", "unknown"}
          /\ Verdict(c)' = "succeeded" => pc'[c] = "done" /\ result'[c].type = "ok"
          /\ Verdict(c)' \in {"rejected", "repeatable"} => DeniedResult(c)'
      BY <3>1, <3>2 DEF Verdict, Told, DeniedResult, MayRepeat
    <3>5. /\ Verdict(c)' = "succeeded" => effects[Op(c)] = 1
          /\ Verdict(c)' \in {"rejected", "repeatable"} /\ ~request[c].keyed =>
               effects[Op(c)] = 0
      BY <1>r, <2>1, <3>1, <3>4
      DEF IInv, SuccessInv, UnprotectedInv, Unprotected, Quiet, Op
    <3>6. Promise!Tell(c, Verdict(c)')
      BY <1>r, <2>1, <2>3, <3>3, <3>5 DEF Promise!Tell, Op
    <3> QED
      BY <3>4, <3>6 DEF Promise!Next, Promise!Verdicts
  <2> QED
    BY <2>4, <2>5, <2>6
<1>2. ASSUME NEW m \in wire \cup busy, Server(m)
      PROVE  Promise!Next \/ UNCHANGED Promise!vars
  <2>1. verdicts' = verdicts
    BY <1>2, <1>r, ServerMoves, VerdictStays DEF callVars
  <2>2. CASE effects' = effects
    BY <1>r, <2>1, <2>2 DEF Promise!vars
  <2>3. CASE effects' # effects
    <3>1. /\ m \in busy /\ m[1] \in Calls /\ Mutating(m[1]) /\ Op(m[1]) \in Operations
          /\ effects' = [effects EXCEPT ![Op(m[1])] = @ + 1]
      BY <1>2, <1>t, <2>3, OnlyCommitHasEffect
    <3>2. effects[Op(m[1])] = 0
      BY <3>1, BusyWithoutEffect DEF IInv
    <3>3. ~request[m[1]].keyed => Verdict(m[1]) \in {"open", "unknown"}
      <4> SUFFICES ASSUME ~request[m[1]].keyed
                   PROVE  Verdict(m[1]) \in {"open", "unknown"}
        OBVIOUS
      <4>1. Unprotected(m[1]) /\ UnprotectedInv(m[1])
        BY <3>1 DEF IInv, Unprotected
      <4>2. ~Quiet(m[1])
        BY <3>1 DEF Quiet
      <4>3. ~DeniedResult(m[1])
        BY <4>1, <4>2 DEF UnprotectedInv
      <4>4. pc[m[1]] = "done" => result[m[1]].type # "ok"
        BY <3>1, <3>2 DEF IInv, SuccessInv
      <4>5. pc[m[1]] \in {"ready", "awaiting", "sleeping", "done", "cancelled"}
        BY <1>t, <3>1 DEF TypeOK
      <4> QED
        BY <1>t, <3>1, <4>3, <4>4, <4>5, VerdictIs
    <3>4. Promise!TakeEffect(Op(m[1]))
      BY <1>r, <2>1, <3>1, <3>2, <3>3 DEF Promise!TakeEffect, Op
    <3> QED
      BY <3>1, <3>4 DEF Promise!Next
  <2> QED
    BY <2>2, <2>3
<1>3. CASE UNCHANGED vars
  <2>1. effects' = effects /\ verdicts' = verdicts
    BY <1>3, <1>r, VerdictStays DEF vars, callVars, serverVars
  <2> QED
    BY <1>r, <2>1 DEF Promise!vars
<1> QED
  BY <1>1, <1>2, <1>3 DEF Next

\* KeepsPromise: the client, between an unreliable network and callers that
\* repeat what they may, implements AtMostOnce.
THEOREM Refinement == Spec => KeepsPromise
BY PromiseInit, PromiseStep, Invariant, PTL DEF Spec, KeepsPromise, Promise!Spec

=============================================================================
