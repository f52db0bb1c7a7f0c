-------------------------- MODULE RequestExecution --------------------------
(***************************************************************************)
(* Client::execute (crates/pretix/src/client.rs): the loop that sends a    *)
(* request, waits and sends it again, together with what it depends on:    *)
(* a network that loses requests and responses, a gateway that may answer  *)
(* for pretix, pretix with its store of idempotency keys, and a caller     *)
(* that repeats a call when the error it got says that it may, or, with an *)
(* idempotency key, after the call's future was dropped.                   *)
(*                                                                         *)
(* Several calls may belong to the same logical operation; they then carry *)
(* the same key.  The server's side is external: it is what                *)
(* Request::idempotency_key and RetryPolicy say of pretix.                 *)
(***************************************************************************)
EXTENDS RetryPolicy, FiniteSets

CONSTANTS
  Calls,         \* requests being executed
  Operations,    \* logical operations: the scopes of idempotency keys
  Requests,      \* the requests the calls may carry
  Retry,         \* the client's RetryPolicy
  SuccessStatuses, RejectStatuses, FailureStatuses,  \* what responses may say
  RetryAfters,   \* the Retry-After values responses may carry
  MaxIssues      \* bound: how often the caller of a call issues it

\* A request as execute sees it.  Malformed: building it failed, which is
\* reported when it is sent (RequestParts::deferred_error).
Request == [method : Method, keyed : BOOLEAN, operation : Operations,
            malformed : BOOLEAN]

ASSUME ExecutionAssumption ==
  /\ Requests \subseteq Request
  /\ Retry \in Policy
  /\ SuccessStatuses \subseteq 200..299
  /\ RejectStatuses \subseteq (300..499) \ {408, 429}
  /\ FailureStatuses \subseteq (500..599) \cup {408}
  /\ RetryAfters \subseteq Duration
  /\ MaxIssues \in [Calls -> Nat]

VARIABLES
  request,    \* of each call; never changes
  pc,         \* where each call's future is
  attempt,    \* execute's loop counter
  issued,     \* how often the caller has issued the call
  sent,       \* how many messages the call has sent, over all its issues
  result,     \* what the call returned last
  reply,      \* the response on its way to the call's current attempt
  wire,       \* requests travelling to pretix
  busy,       \* requests pretix is executing
  store,      \* pretix: what it has recorded under each idempotency key
  effects     \* how often each operation has taken effect

callVars == <<request, pc, attempt, issued, sent, result>>
serverVars == <<busy, store, effects>>
vars == <<callVars, reply, wire, serverVars>>

Response == [status : Status, retry_after : Duration \cup {None}]

\* Results: Ok, Error::Decode and Error::Api of a response, Error::Encode,
\* Error::Transport (transient or not); "none" while the call is under way.
Result == [type : {"none", "encode", "transport", "fatal"}]
            \cup [type : {"ok", "decode", "api"}, status : Status, retry_after : Duration \cup {None}]

Message == Calls \X Nat

-----------------------------------------------------------------------------
(* Requests.                                                               *)

Kind(c) == [method |-> request[c].method, has_idempotency_key |-> request[c].keyed]

Mutating(c) == request[c].method \notin {"GET", "HEAD", "OPTIONS"}

Op(c) == request[c].operation

\* pretix records keys of mutating requests only.
Recorded(c) == request[c].keyed /\ Mutating(c)

\* Error::is_retryable of what the call returned.
MayRepeat(c) ==
  \/ result[c].type = "transport" /\ TransportErrorIsRetryable(TRUE, IsRepeatable(Kind(c)))
  \/ /\ result[c].type = "api"
     /\ ApiErrorIsRetryable(result[c].status, result[c].retry_after, IsRepeatable(Kind(c)))

-----------------------------------------------------------------------------

\* Calls of different operations may be of any kind; only calls that carry a
\* key can belong to the same operation.
Init ==
  /\ request \in [Calls -> Requests]
  /\ \A c, d \in Calls :
       c # d /\ request[c].operation = request[d].operation =>
         request[c].keyed /\ request[d].keyed
  /\ pc = [c \in Calls |-> "ready"]
  /\ attempt = [c \in Calls |-> 0]
  /\ issued = [c \in Calls |-> 1]
  /\ sent = [c \in Calls |-> 0]
  /\ result = [c \in Calls |-> [type |-> "none"]]
  /\ reply = [c \in Calls |-> None]
  /\ wire = {}
  /\ busy = {}
  /\ store = [o \in Operations |-> "absent"]
  /\ effects = [o \in Operations |-> 0]

-----------------------------------------------------------------------------
(* The client.                                                             *)

\* The call returns.
Return(c, r) ==
  /\ pc' = [pc EXCEPT ![c] = "done"]
  /\ result' = [result EXCEPT ![c] = r]
  /\ UNCHANGED attempt

\* execute returns the deferred error without sending anything.
FailEncode(c) ==
  /\ pc[c] = "ready"
  /\ request[c].malformed
  /\ Return(c, [type |-> "encode"])
  /\ UNCHANGED <<request, issued, sent, reply, wire, serverVars>>

\* send_once hands the request to the HTTP client.
Send(c) ==
  /\ pc[c] = "ready"
  /\ ~request[c].malformed
  /\ pc' = [pc EXCEPT ![c] = "awaiting"]
  /\ sent' = [sent EXCEPT ![c] = @ + 1]
  /\ wire' = wire \cup {<<c, sent[c] + 1>>}
  /\ UNCHANGED <<request, attempt, issued, result, reply, serverVars>>

\* What the decoder makes of a response (ensure_success, json): the body of a
\* success may not have the expected shape.
Decoded(status) == IF status \in 200..299 THEN {"ok", "decode"} ELSE {"api"}

\* The rest of one turn of the loop: sleep before the next, or return.
Consult(c, outcome, r) ==
  IF Delay(Retry, attempt[c], Kind(c), outcome) # {}
  THEN /\ pc' = [pc EXCEPT ![c] = "sleeping"]
       /\ UNCHANGED <<attempt, result>>
  ELSE Return(c, r)

\* Mutation of Receive: the decoder does not check the status.
ReceiveUnchecked(c) ==
  /\ pc[c] = "awaiting"
  /\ reply[c] # None
  /\ Return(c, [type |-> "ok", status |-> reply[c].status,
                retry_after |-> reply[c].retry_after])
  /\ reply' = [reply EXCEPT ![c] = None]
  /\ UNCHANGED <<request, issued, sent, wire, serverVars>>

\* send_once yields a response.  Success and redirection end the loop.
Receive(c) ==
  /\ pc[c] = "awaiting"
  /\ reply[c] # None
  /\ LET status == reply[c].status
         answer(type) == [type |-> type, status |-> status,
                          retry_after |-> reply[c].retry_after]
     IN  \/ /\ status \in 200..399
            /\ \E type \in Decoded(status) : Return(c, answer(type))
         \/ /\ status \notin 200..399
            /\ Consult(c, answer("status"), answer("api"))
  /\ reply' = [reply EXCEPT ![c] = None]
  /\ UNCHANGED <<request, issued, sent, wire, serverVars>>

\* Mutation of TransportError: there is no timeout, so an attempt fails only
\* while its request has not arrived.
TransportErrorOfConnection(c) ==
  /\ pc[c] = "awaiting"
  /\ <<c, sent[c]>> \in wire
  /\ Consult(c, [type |-> "transport"], [type |-> "transport"])
  /\ reply' = [reply EXCEPT ![c] = None]
  /\ UNCHANGED <<request, issued, sent, wire, serverVars>>

\* send_once fails: no connection, a timeout, or the connection broke before
\* the response had been read.  The request may have arrived all the same.
TransportError(c) ==
  /\ pc[c] = "awaiting"
  /\ Consult(c, [type |-> "transport"], [type |-> "transport"])
  /\ reply' = [reply EXCEPT ![c] = None]
  /\ UNCHANGED <<request, issued, sent, wire, serverVars>>

\* A middleware, builder or redirect error is not transient.
FatalError(c) ==
  /\ pc[c] = "awaiting"
  /\ Return(c, [type |-> "fatal"])
  /\ reply' = [reply EXCEPT ![c] = None]
  /\ UNCHANGED <<request, issued, sent, wire, serverVars>>

\* The delay is over.
Wake(c) ==
  /\ pc[c] = "sleeping"
  /\ pc' = [pc EXCEPT ![c] = "ready"]
  /\ attempt' = [attempt EXCEPT ![c] = @ + 1]
  /\ UNCHANGED <<request, issued, sent, result, reply, wire, serverVars>>

\* The caller drops the future (or its process dies) at an await.
Cancel(c) ==
  /\ pc[c] \in {"awaiting", "sleeping"}
  /\ pc' = [pc EXCEPT ![c] = "cancelled"]
  /\ reply' = [reply EXCEPT ![c] = None]
  /\ UNCHANGED <<request, attempt, issued, sent, result, wire, serverVars>>

\* The caller issues the call again: after an error it may repeat, or, with a
\* key, whatever happened.  A request that cannot be built is not repeated.
Repeat(c) ==
  /\ \/ pc[c] = "done" /\ (MayRepeat(c) \/ request[c].keyed)
     \/ pc[c] = "cancelled" /\ request[c].keyed
  /\ ~request[c].malformed
  /\ issued[c] < MaxIssues[c]
  /\ issued' = [issued EXCEPT ![c] = @ + 1]
  /\ pc' = [pc EXCEPT ![c] = "ready"]
  /\ attempt' = [attempt EXCEPT ![c] = 0]
  /\ result' = [result EXCEPT ![c] = [type |-> "none"]]
  /\ UNCHANGED <<request, sent, reply, wire, serverVars>>

-----------------------------------------------------------------------------
(* The network and pretix.                                                 *)

\* A response to message m arrives if its attempt is still waiting for one.
Respond(m, response) ==
  reply' = IF pc[m[1]] = "awaiting" /\ sent[m[1]] = m[2] /\ reply[m[1]] = None
           THEN [reply EXCEPT ![m[1]] = response]
           ELSE reply

Lose(m) ==
  /\ m \in wire
  /\ wire' = wire \ {m}
  /\ UNCHANGED <<callVars, reply, serverVars>>

\* The rate limit comes before everything else: the request is not executed.
RateLimit(m) ==
  /\ m \in wire
  /\ wire' = wire \ {m}
  /\ \E ra \in RetryAfters \cup {None} :
       Respond(m, [status |-> 429, retry_after |-> ra])
  /\ UNCHANGED <<callVars, serverVars>>

\* Another request with the same key is being executed.
InProgress(m) ==
  /\ m \in wire
  /\ Recorded(m[1])
  /\ store[Op(m[1])] = "running"
  /\ wire' = wire \ {m}
  /\ \E ra \in RetryAfters : Respond(m, [status |-> 409, retry_after |-> ra])
  /\ UNCHANGED <<callVars, serverVars>>

\* The key is known: pretix replays the original response.
Replay(m) ==
  /\ m \in wire
  /\ Recorded(m[1])
  /\ wire' = wire \ {m}
  /\ \/ /\ store[Op(m[1])] = "succeeded"
        /\ \E s \in SuccessStatuses : Respond(m, [status |-> s, retry_after |-> None])
     \/ /\ store[Op(m[1])] = "rejected"
        /\ \E s \in RejectStatuses : Respond(m, [status |-> s, retry_after |-> None])
  /\ UNCHANGED <<callVars, serverVars>>

\* pretix starts executing the request, and records its key.
Admit(m) ==
  /\ m \in wire
  /\ Recorded(m[1]) => store[Op(m[1])] = "absent"
  /\ wire' = wire \ {m}
  /\ busy' = busy \cup {m}
  /\ store' = IF Recorded(m[1]) THEN [store EXCEPT ![Op(m[1])] = "running"] ELSE store
  /\ UNCHANGED <<callVars, reply, effects>>

\* The request ends; its key is left in the given state.
Finish(m, state) ==
  /\ m \in busy
  /\ busy' = busy \ {m}
  /\ store' = IF Recorded(m[1]) THEN [store EXCEPT ![Op(m[1])] = state] ELSE store

Commit(m) ==
  /\ Finish(m, "succeeded")
  /\ effects' = IF Mutating(m[1]) THEN [effects EXCEPT ![Op(m[1])] = @ + 1] ELSE effects
  /\ \E s \in SuccessStatuses : Respond(m, [status |-> s, retry_after |-> None])
  /\ UNCHANGED <<callVars, wire>>

\* Validation, permissions or a business conflict.  Whether such a response
\* is replayed or the request executed anew is pretix's business.
Reject(m) ==
  /\ Finish(m, "rejected") \/ Finish(m, "absent")
  /\ \E s \in RejectStatuses : Respond(m, [status |-> s, retry_after |-> None])
  /\ UNCHANGED <<callVars, wire, effects>>

\* pretix fails and rolls back.
Abort(m) ==
  /\ Finish(m, "absent")
  /\ \E s \in FailureStatuses : Respond(m, [status |-> s, retry_after |-> None])
  /\ UNCHANGED <<callVars, wire, effects>>

\* The gateway answers for pretix (or its answer replaces that of pretix),
\* wherever the request is: on its way, being executed or executed.
GatewayError(c) ==
  /\ pc[c] = "awaiting"
  /\ \E s \in FailureStatuses, ra \in RetryAfters \cup {None} :
       reply' = [reply EXCEPT ![c] = [status |-> s, retry_after |-> ra]]
  /\ UNCHANGED <<callVars, wire, serverVars>>

-----------------------------------------------------------------------------

Client(c) ==
  \/ FailEncode(c) \/ Send(c) \/ Receive(c) \/ TransportError(c) \/ FatalError(c)
  \/ Wake(c) \/ Cancel(c) \/ Repeat(c)

Server(m) ==
  \/ Lose(m) \/ RateLimit(m) \/ InProgress(m) \/ Replay(m) \/ Admit(m)
  \/ Commit(m) \/ Reject(m) \/ Abort(m)

Next ==
  \/ \E c \in Calls : Client(c) \/ GatewayError(c)
  \/ \E m \in wire \cup busy : Server(m)

Spec == Init /\ [][Next]_vars

\* The client's own steps are taken as long as the task is polled; an attempt
\* that hears nothing times out (DEFAULT_TIMEOUT).  Nothing is assumed of the
\* network, of pretix, or of a caller that drops or repeats calls.
Fairness ==
  \A c \in Calls :
    WF_vars(FailEncode(c) \/ Send(c) \/ Wake(c) \/ Receive(c) \/ TransportError(c))

FairSpec == Spec /\ Fairness

-----------------------------------------------------------------------------
(* Properties.                                                             *)

TypeOK ==
  /\ request \in [Calls -> Request]
  /\ pc \in [Calls -> {"ready", "awaiting", "sleeping", "done", "cancelled"}]
  /\ attempt \in [Calls -> 0..Retry.max_retries]
  /\ issued \in [Calls -> Nat]
  /\ sent \in [Calls -> Nat]
  /\ result \in [Calls -> Result]
  /\ reply \in [Calls -> Response \cup {None}]
  /\ wire \subseteq Message
  /\ busy \subseteq Message
  /\ store \in [Operations -> {"absent", "running", "succeeded", "rejected"}]
  /\ effects \in [Operations -> Nat]

\* The messages of a call that pretix may still act upon.
Outstanding(c) == {m \in wire \cup busy : m[1] = c}

\* A call that changes something and has no key to protect it.
Unprotected(c) == Mutating(c) /\ ~request[c].keyed

\* No operation takes effect twice: not by the client's own retries, not by
\* attempts it gave up on that arrive late, not by concurrent calls with the
\* same key, and not by a caller that repeats what is_retryable lets it.
EffectAtMostOnce == \A o \in Operations : effects[o] <= 1

\* A mutating call that returned Ok has taken effect, and so has one that fails
\* only because the answer could not be decoded.
SuccessMeansEffect ==
  \A c \in Calls :
    pc[c] = "done" /\ result[c].type \in {"ok", "decode"} /\ Mutating(c) => effects[Op(c)] = 1

\* Error::is_retryable: "Whether the request can be repeated safely".  When an
\* unprotected call ends with an error that may be repeated, or is rejected,
\* it has had no effect and no message of it is left that could bring one.
RepeatableMeansNoEffect ==
  \A c \in Calls :
    /\ Unprotected(c)
    /\ pc[c] = "done"
    /\ MayRepeat(c) \/ (result[c].type = "api" /\ result[c].status \in RejectStatuses)
    => effects[Op(c)] = 0 /\ Outstanding(c) = {}

\* An unprotected request is never put on the wire while an earlier message of
\* it has been executed or may still be.
NeverSentInDoubt ==
  [][\A c \in Calls :
       Unprotected(c) /\ sent'[c] # sent[c] => effects[Op(c)] = 0 /\ Outstanding(c) = {}]_vars

\* max_retries counts the retries of one issue of a call, "not counting the
\* initial attempt": it bounds what pretix gets to see of a failing client.
AttemptsBounded ==
  \A c \in Calls : sent[c] <= issued[c] * (Retry.max_retries + 1)

\* Whatever the network and pretix do, a call that is not dropped returns.
EveryCallReturns ==
  \A c \in Calls : pc[c] = "ready" ~> pc[c] \in {"done", "cancelled"}

\* The client keeps the promise of AtMostOnce to the callers of mutating
\* requests.
Told(c) ==
  IF result[c].type = "ok"
  THEN "succeeded"
  ELSE IF MayRepeat(c)
       THEN "repeatable"
       ELSE IF \/ result[c].type = "encode"
               \/ result[c].type = "api" /\ result[c].status \in RejectStatuses
            THEN "rejected"
            ELSE "unknown"

Verdict(c) ==
  IF ~Mutating(c) \/ pc[c] \in {"ready", "awaiting", "sleeping"}
  THEN "open"
  ELSE IF pc[c] = "done" THEN Told(c) ELSE "unknown"

Promise == INSTANCE AtMostOnce WITH verdict <- [c \in Calls |-> Verdict(c)]

KeepsPromise == Promise!Spec

=============================================================================
