---------------------------- MODULE DurableSync ----------------------------
(***************************************************************************)
(* A durable workflow that keeps a copy of a list of pretix, as the README *)
(* of crates/pretix ("Durable execution") and the docs of ResponseMeta and *)
(* PageCursor have it: retries are disabled, one page is journaled per     *)
(* step, and the metadata of the first page says from when on the next     *)
(* round has to look.  There are two ways:                                 *)
(*   incremental   orders: modified_since is page_generated                *)
(*   conditional   items and the like: if_modified_since(last_modified)    *)
(* The list changes meanwhile, answers get lost, and the workflow crashes. *)
(*                                                                         *)
(* External: the engine, which repeats a step until it is journaled, and   *)
(* pretix.  Orders stay in their list (without those of test mode, which   *)
(* ListOrders advises), in an order that changes leave alone, and times of *)
(* a Last-Modified header, which are whole seconds, tell changes apart.    *)
(***************************************************************************)
EXTENDS RetryPolicy, FiniteSets

CONSTANTS
  MaxObjects,  \* bound: objects ever created
  PageSize,
  MaxTime,     \* bound of the clock of pretix
  MaxChanges,  \* bound: changes of objects
  MaxFaults    \* bound: answers that are lost or errors, and crashes

ASSUME DurableSyncAssumption ==
  /\ {MaxObjects, PageSize, MaxTime, MaxChanges, MaxFaults} \subseteq Nat
  /\ MaxObjects > 0
  /\ PageSize > 0

VARIABLES
  mode,         \* "incremental" or "conditional"
  newestFirst,  \* whether the list is in this order, or in the opposite
  now,          \* pretix: the time
  stored,       \* pretix: the objects, each with its version and its last change
  created,      \* pretix: how many objects there have been
  changes,      \* pretix: how many changes
  lastChange,   \* pretix: when the last one was
  answer,       \* the answer on its way to the workflow, with status 0 if there is none
  journal,      \* the state that the workflow has journaled
  faults

server == <<mode, newestFirst, now, stored, created, changes, lastChange>>
vars == <<server, answer, journal, faults>>

Nothing == <<>>

\* f, and g where f is not defined.
Over(f, g) == [id \in DOMAIN f \cup DOMAIN g |-> IF id \in DOMAIN f THEN f[id] ELSE g[id]]

NoMeta == [page_generated |-> 0, last_modified |-> 0]

\* What has been journaled: the number of the page to go on with, which is 0
\* between two rounds; since when the round looks, which is 0 in the first; and
\* from the second page on the metadata of the first one and what there was so far.
Idle(since, copy) ==
  [page |-> 0, since |-> since, first |-> NoMeta, got |-> Nothing, copy |-> copy]

NoAnswer == [status |-> 0]

Init ==
  /\ mode \in {"incremental", "conditional"}
  /\ newestFirst \in BOOLEAN
  /\ now = 1
  /\ stored = [id \in 1 .. MaxObjects - 1 |-> [version |-> 0, changed |-> 0]]
  /\ created = MaxObjects - 1
  /\ changes = 0
  /\ lastChange = 0
  /\ answer = NoAnswer
  /\ journal = Idle(0, Nothing)
  /\ faults = 0

-----------------------------------------------------------------------------
(* External: pretix.                                                       *)

Tick ==
  /\ now < MaxTime
  /\ now' = now + 1
  /\ UNCHANGED <<mode, newestFirst, stored, created, changes, lastChange, answer, journal, faults>>

\* An object is created or modified, or in a list that is not of orders removed.
Change ==
  /\ changes < MaxChanges
  /\ mode = "conditional" => now > lastChange
  /\ changes' = changes + 1
  /\ lastChange' = now
  /\ LET record == [version |-> changes', changed |-> now]
     IN  \/ \E id \in DOMAIN stored :
              /\ stored' = [stored EXCEPT ![id] = record]
              /\ UNCHANGED created
         \/ /\ created < MaxObjects
            /\ created' = created + 1
            /\ stored' = Over([id \in {created'} |-> record], stored)
         \/ /\ mode = "conditional"
            /\ \E id \in DOMAIN stored :
                 stored' = [other \in DOMAIN stored \ {id} |-> stored[other]]
            /\ UNCHANGED created
  /\ UNCHANGED <<mode, newestFirst, now, answer, journal, faults>>

\* What a request lists.
Listed(since) == {id \in DOMAIN stored : mode = "incremental" => stored[id].changed >= since}

\* How many come before one in the list.
Position(id, ids) ==
  Cardinality({other \in ids : IF newestFirst THEN other > id ELSE other < id})

\* Links keep the query, but not the headers of the request before.
AnswerTo(page, since) ==
  LET ids == Listed(since)
      from == (page - 1) * PageSize
      shown == {id \in ids : from <= Position(id, ids) /\ Position(id, ids) < from + PageSize}
      more == \E id \in ids : Position(id, ids) >= from + PageSize
  IN  CASE mode = "conditional" /\ page = 1 /\ since # 0 /\ lastChange <= since ->
             [status |-> 304]
        [] page > 1 /\ shown = {} -> [status |-> 404]
        [] OTHER ->
             [status |-> 200, generated |-> now, last |-> lastChange,
              results |-> [id \in shown |-> stored[id]],
              next |-> IF more THEN page + 1 ELSE 0]

-----------------------------------------------------------------------------
(* The client.                                                             *)

\* Mutation of FromResponse: the time is that of the client, when it decodes.
FromResponseOnArrival(raw) == [page_generated |-> now, last_modified |-> now]

\* ResponseMeta::from_response
FromResponse(raw) == [page_generated |-> raw.generated, last_modified |-> raw.last]

\* Page::next_cursor
NextCursor(page) == page.next

\* Mutation of Retryable: an error of the API may go away.
RetryableAnyStatus(status) == status \notin {200, 304}

\* Error::is_retryable, of requests that are all GET
Retryable(status) == ApiErrorIsRetryable(status, None, TRUE)

-----------------------------------------------------------------------------
(* The workflow.                                                           *)

\* A round begins; the request for its first page has the time in its query, or
\* in its header.
Begin ==
  /\ journal.page = 0
  /\ journal' = [journal EXCEPT !.page = 1]
  /\ UNCHANGED <<server, answer, faults>>

\* A step requests its page, and pretix answers.
Request ==
  /\ journal.page # 0
  /\ answer.status = 0
  /\ answer' = AnswerTo(journal.page, journal.since)
  /\ UNCHANGED <<server, journal, faults>>

\* The answer is lost, or pretix is unavailable, or the workflow crashes before
\* it has journaled: the step begins anew.
Fault ==
  /\ faults < MaxFaults
  /\ answer.status # 0
  /\ answer' = NoAnswer
  /\ faults' = faults + 1
  /\ UNCHANGED <<server, journal>>

Since(meta) == IF mode = "incremental" THEN meta.page_generated ELSE meta.last_modified

\* The metadata of the first page, be it this one or long journaled.
FirstMeta == IF journal.page = 1 THEN FromResponse(answer) ELSE journal.first

\* What there is of the list when the page has come.
Got == Over(answer.results, journal.got)

\* A page is journaled, together with where to go on, or after the last one with
\* where the next round begins.  Then orders that have changed are added to the
\* copy; a list of another kind, which is a whole one, takes its place.
JournalPage ==
  /\ answer.status = 200
  /\ journal' =
       IF NextCursor(answer) = 0
       THEN Idle(Since(FirstMeta), IF mode = "incremental" THEN Over(Got, journal.copy) ELSE Got)
       ELSE [journal EXCEPT !.page = NextCursor(answer), !.first = FirstMeta, !.got = Got]
  /\ answer' = NoAnswer
  /\ UNCHANGED <<server, faults>>

\* The round is over, and the next one looks since the same time.
EndRound == journal' = Idle(journal.since, journal.copy)

\* Conditional::NotModified
JournalNotModified ==
  /\ answer.status = 304
  /\ EndRound
  /\ answer' = NoAnswer
  /\ UNCHANGED <<server, faults>>

\* The list has become shorter than the cursor says.  A terminal failure ends
\* the round, and another will begin; a retryable one repeats the step.
JournalError ==
  /\ answer.status = 404
  /\ IF Retryable(answer.status) THEN UNCHANGED journal ELSE EndRound
  /\ answer' = NoAnswer
  /\ UNCHANGED <<server, faults>>

Next ==
  \/ Tick \/ Change
  \/ Begin \/ Request \/ Fault \/ JournalPage \/ JournalNotModified \/ JournalError

Spec == Init /\ [][Next]_vars

\* Rounds are scheduled again and again, and the engine carries on with steps.
Fairness ==
  /\ WF_vars(Begin)
  /\ WF_vars(Request)
  /\ WF_vars(JournalPage \/ JournalNotModified \/ JournalError)

FairSpec == Spec /\ Fairness

-----------------------------------------------------------------------------
(* Properties.                                                             *)

\* ResponseMeta: "use the metadata of the first page for incremental
\* synchronization: it was generated before any later page".  A change that the
\* next round will not look for is in the copy, whatever moved between the pages
\* of this one and whichever of its steps had to be repeated.
NothingMissed ==
  IF mode = "incremental"
  THEN \A id \in DOMAIN stored :
         stored[id].changed < journal.since =>
           id \in DOMAIN journal.copy /\ journal.copy[id] = stored[id]
  ELSE journal.since # 0 /\ lastChange <= journal.since => journal.copy = stored

\* Once the list is left alone, and steps no longer fail, the copy comes to be
\* what the list is, and stays so.
SyncCompletes == <>[](journal.copy = stored)

=============================================================================
