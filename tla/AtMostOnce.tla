----------------------------- MODULE AtMostOnce -----------------------------
(***************************************************************************)
(* What the client promises the callers of mutating requests, with no      *)
(* network, attempts or idempotency store in sight:                        *)
(*                                                                         *)
(*   - an operation takes effect at most once, however often its calls are *)
(*     repeated as the verdicts allow;                                     *)
(*   - a call that "succeeded" has taken effect;                           *)
(*   - a call without an idempotency key whose verdict is "repeatable" (or *)
(*     "rejected") has not taken effect and will not, unless it is issued  *)
(*     again.                                                              *)
(*                                                                         *)
(* A verdict "unknown" promises nothing: the operation may have taken      *)
(* effect, or may still do so after the call has ended.                    *)
(***************************************************************************)
EXTENDS Integers

CONSTANTS Calls, Operations

VARIABLES
  request,   \* of each call: it never changes
  effects,   \* how often each operation has taken effect
  verdict    \* what each call has told its caller

vars == <<request, effects, verdict>>

Verdicts == {"open", "succeeded", "rejected", "repeatable", "unknown"}

Init ==
  /\ effects = [o \in Operations |-> 0]
  /\ verdict = [c \in Calls |-> "open"]

\* The effect may come while the call is open, and after it ended unknown; a
\* keyed operation's also while a repeat of it may be on its way.
TakeEffect(o) ==
  /\ effects[o] = 0
  /\ \E c \in Calls :
       /\ request[c].operation = o
       /\ ~request[c].keyed => verdict[c] \in {"open", "unknown"}
  /\ effects' = [effects EXCEPT ![o] = 1]
  /\ UNCHANGED <<request, verdict>>

\* A call ends.
Tell(c, v) ==
  /\ verdict[c] = "open"
  /\ v = "succeeded" => effects[request[c].operation] = 1
  /\ v \in {"rejected", "repeatable"} /\ ~request[c].keyed =>
       effects[request[c].operation] = 0
  /\ verdict' = [verdict EXCEPT ![c] = v]
  /\ UNCHANGED <<request, effects>>

\* A caller issues its call again, as it may.
Reissue(c) ==
  /\ verdict[c] # "open"
  /\ request[c].keyed \/ verdict[c] = "repeatable"
  /\ verdict' = [verdict EXCEPT ![c] = "open"]
  /\ UNCHANGED <<request, effects>>

Next ==
  \/ \E o \in Operations : TakeEffect(o)
  \/ \E c \in Calls :
       Reissue(c) \/ \E v \in Verdicts \ {"open"} : Tell(c, v)

Spec == Init /\ [][Next]_vars

=============================================================================
