------------------------- MODULE MCRequestExecution -------------------------
(* Two calls, of one or two operations, of every kind that matters.         *)
EXTENDS RequestExecution

CONSTANTS c1, c2, o1

MCRetry == [max_retries |-> 1, initial_backoff |-> 1, max_backoff |-> 2,
            max_retry_after |-> 2]

\* Reads, and mutations with and without a key; one that cannot be built.
MCRequests ==
  [method : {"GET", "POST"}, keyed : BOOLEAN, operation : Operations, malformed : {FALSE}]
    \cup [method : {"POST"}, keyed : {FALSE}, operation : Operations, malformed : {TRUE}]

\* Calls of different operations share nothing, so they are not checked side
\* by side: beside a call of the other operation there is only one that ends
\* at once.  Of calls that share a key the mutating ones matter.
MCInit ==
  /\ Init
  /\ Op(c1) = o1
  /\ IF Op(c1) = Op(c2) THEN Mutating(c1) /\ Mutating(c2) ELSE request[c2].malformed

MCSpec == MCInit /\ [][Next]_vars /\ Fairness

MCMaxIssues == [c \in Calls |-> IF c = c1 THEN 2 ELSE 1]

=============================================================================
