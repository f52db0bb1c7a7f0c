---------------------------- MODULE MCJobPolling ----------------------------
(* Short jobs and timeouts, polls that may be repeated once.                *)
EXTENDS JobPolling

MCRetry == [max_retries |-> 1, initial_backoff |-> 1, max_backoff |-> 1,
            max_retry_after |-> 2]

Get == [method |-> "GET", has_idempotency_key |-> FALSE]
Post == [method |-> "POST", has_idempotency_key |-> FALSE]

\* JobCodes::DEFAULT, Shredders::status, BillingInvoices::download and
\* Shredders::shred.
MCEndpoints ==
  {[kind |-> Get, pending |-> {409}, failed |-> {410}, done |-> {200}],
   [kind |-> Get, pending |-> {409}, failed |-> {417}, done |-> {200, 410}],
   [kind |-> Get, pending |-> {409, 423}, failed |-> {}, done |-> {200}],
   [kind |-> Post, pending |-> {409}, failed |-> {410}, done |-> {200}]}

\* A wait without a timeout is only given jobs that end, see MCInit.
MCOptions == [interval : {0, 2, 12}, timeout : {None, 0, 4}]

MCJobs == [due : {None, 0, 2, 4}, final : {200, 404, 410, 417}]

MCInit == Init /\ (options.timeout # None \/ job.due # None)

MCSpec == MCInit /\ [][Next]_vars /\ Fairness

=============================================================================
