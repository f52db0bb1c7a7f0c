----------------------------- MODULE Pagination -----------------------------
(***************************************************************************)
(* Following the pages of a list (crates/pretix/src/pagination.rs):        *)
(* Request::pages with its two consumers, Request::stream, whose results   *)
(* are taken one at a time, and Request::all, which collects them.         *)
(*                                                                         *)
(* Each request may be answered with any page, so that the list may change *)
(* between two requests, and links may lead anywhere, also back.  A link   *)
(* names an origin, which Client::resolve replaces with that of the base   *)
(* URL: different links may stand for the same URL.                        *)
(***************************************************************************)
EXTENDS Integers, Sequences, SequencesExt, FiniteSets

CONSTANTS
  None,      \* Option::None
  Start,     \* in place of a link: the request that pages is called on
  Urls,      \* the URLs on the configured origin
  Links,     \* the links pages may contain
  Resolve,   \* Client::resolve: the URL a link stands for
  FirstUrl,  \* the URL of the first request
  Results    \* the results a page may have

ASSUME PaginationAssumption ==
  /\ None \notin Links
  /\ Start \notin Links \cup {None}
  /\ Resolve \in [Links -> Urls]
  /\ FirstUrl \in Urls
  /\ Results \subseteq Seq(Int)

Page == [results : Results, next : Links \cup {None}]

VARIABLES
  mode,       \* the consumer: "stream" or "all"
  pc,         \* of the stream of pages
  cursor,     \* the state of the unfolding: what to fetch next, None at the end
  seen,       \* the URLs fetched or about to be
  fetched,    \* the pages received so far, each with its URL
  buffer,     \* results received and not yet with the caller
  delivered   \* results the caller has got

vars == <<mode, pc, cursor, seen, fetched, buffer, delivered>>

Init ==
  /\ mode \in {"stream", "all"}
  /\ pc = "idle"
  /\ cursor = Start
  /\ seen = {}
  /\ fetched = <<>>
  /\ buffer = <<>>
  /\ delivered = <<>>

-----------------------------------------------------------------------------

Url(c) == IF c = Start THEN FirstUrl ELSE Resolve[c]

\* Mutation of FetchPage: the next page is requested ahead of the consumer,
\* and replaces what it has not taken.
FetchAhead ==
  /\ pc = "idle"
  /\ cursor # None
  /\ pc' = "fetching"
  /\ seen' = IF cursor = Start THEN {FirstUrl} ELSE seen
  /\ buffer' = IF mode = "stream" THEN <<>> ELSE buffer
  /\ UNCHANGED <<mode, cursor, fetched, delivered>>

\* The stream is polled for a page: try_flatten does so when the results of
\* the page before are used up.
FetchPage ==
  /\ pc = "idle"
  /\ cursor # None
  /\ mode = "stream" => buffer = <<>>
  /\ pc' = "fetching"
  /\ seen' = IF cursor = Start THEN {FirstUrl} ELSE seen
  /\ UNCHANGED <<mode, cursor, fetched, buffer, delivered>>

\* Mutation of Following: a link is followed even from an empty page.
FollowingAlways(page) == page.next

\* An empty page cannot be followed by more results.
Following(page) == IF page.results = <<>> THEN None ELSE page.next

\* Mutation of Loops: the links are compared as they are.
LoopsByLink(page) ==
  /\ Following(page) # None
  /\ \E i \in 1..Len(fetched) : fetched[i].next = page.next

Loops(page) == Following(page) # None /\ Resolve[page.next] \in seen

\* The stream ends; all drops what it has collected.
Abandon(reason) ==
  /\ pc' = reason
  /\ cursor' = None
  /\ buffer' = <<>>
  /\ UNCHANGED delivered

\* Mutation of Arrive: a link that leads back ends the list.
ArriveTolerant ==
  /\ pc = "fetching"
  /\ \E page \in Page :
       /\ fetched' = Append(fetched, [url |-> Url(cursor), results |-> page.results, next |-> page.next])
       /\ pc' = "idle"
       /\ buffer' = buffer \o page.results
       /\ cursor' = IF Loops(page) THEN None ELSE Following(page)
       /\ seen' = IF cursor' = None THEN seen ELSE seen \cup {Resolve[page.next]}
       /\ UNCHANGED delivered
  /\ UNCHANGED mode

\* A page arrives.  If its link leads back, the page itself is not yielded.
Arrive ==
  /\ pc = "fetching"
  /\ \E page \in Page :
       /\ fetched' = Append(fetched, [url |-> Url(cursor), results |-> page.results, next |-> page.next])
       /\ \/ /\ Loops(page)
             /\ Abandon("failed")
             /\ UNCHANGED seen
          \/ /\ ~Loops(page)
             /\ pc' = "idle"
             /\ buffer' = buffer \o page.results
             /\ cursor' = Following(page)
             /\ seen' = IF cursor' = None THEN seen ELSE seen \cup {Resolve[page.next]}
             /\ UNCHANGED delivered
  /\ UNCHANGED mode

\* Mutation of Fail: the request is left for the next poll, and all returns
\* what it has so far.
FailSoftly ==
  /\ pc = "fetching"
  /\ pc' = "idle"
  /\ delivered' = IF mode = "all" THEN buffer ELSE delivered
  /\ UNCHANGED <<mode, cursor, seen, fetched, buffer>>

\* The request for a page fails: the error is the last item of the stream.
Fail ==
  /\ pc = "fetching"
  /\ Abandon("failed")
  /\ UNCHANGED <<mode, seen, fetched>>

\* The caller takes a result from the stream.
Take ==
  /\ mode = "stream"
  /\ pc = "idle"
  /\ buffer # <<>>
  /\ delivered' = Append(delivered, Head(buffer))
  /\ buffer' = Tail(buffer)
  /\ UNCHANGED <<mode, pc, cursor, seen, fetched>>

\* There is no further page: the stream ends, all returns its results.
End ==
  /\ pc = "idle"
  /\ cursor = None
  /\ mode = "stream" => buffer = <<>>
  /\ pc' = "ended"
  /\ delivered' = delivered \o buffer
  /\ buffer' = <<>>
  /\ UNCHANGED <<mode, cursor, seen, fetched>>

\* The caller drops the stream or the future.
Drop ==
  /\ pc \in {"idle", "fetching"}
  /\ Abandon("dropped")
  /\ UNCHANGED <<mode, seen, fetched>>

Next == FetchPage \/ Arrive \/ Fail \/ Take \/ End \/ Drop

Spec == Init /\ [][Next]_vars

\* The caller keeps polling; a request gets an answer or fails (see
\* RequestExecution).
Fairness ==
  WF_vars(FetchPage) /\ WF_vars(Arrive \/ Fail) /\ WF_vars(Take) /\ WF_vars(End)

FairSpec == Spec /\ Fairness

-----------------------------------------------------------------------------
(* Properties.                                                             *)

TypeOK ==
  /\ mode \in {"stream", "all"}
  /\ pc \in {"idle", "fetching", "ended", "failed", "dropped"}
  /\ cursor \in Links \cup {Start, None}
  /\ seen \subseteq Urls
  /\ fetched \in Seq([url : Urls, results : Results, next : Links \cup {None}])
  /\ buffer \in Seq(Int)
  /\ delivered \in Seq(Int)

ResultsOf(pages) == FlattenSeq([i \in 1..Len(pages) |-> pages[i].results])

\* No page is requested twice, however the links lead and whatever origins
\* they name: the number of requests is bounded by that of the URLs.
NoUrlFetchedTwice ==
  \A i, j \in 1..Len(fetched) : fetched[i].url = fetched[j].url => i = j

\* A list that ends without an error is complete, and goes no further: its last
\* page is the only one that is empty or has no link, and the caller has got the
\* results of every page.
EndMeansComplete ==
  pc = "ended" =>
    /\ fetched # <<>>
    /\ \A i \in 1..Len(fetched) :
         fetched[i].results = <<>> \/ fetched[i].next = None <=> i = Len(fetched)
    /\ delivered = ResultsOf(fetched)

\* The stream yields the results of the pages in order; of what was received
\* only the page whose link leads back may be missing, and only at its end.
DeliveredInOrder ==
  mode = "stream" =>
    \/ delivered \o buffer = ResultsOf(fetched)
    \/ pc = "failed" /\ delivered = ResultsOf(Front(fetched))
    \/ pc = "dropped" /\ IsPrefix(delivered, ResultsOf(fetched))

\* A stream that is polled ends, even when every page links to another.
StreamEnds == <>(pc \in {"ended", "failed", "dropped"})

=============================================================================
