# pretix-rs in TLA+

TLA+ models of the four crates of pretix-rs: what the API client promises the
callers of mutating requests when networks, gateways and pretix fail, how it
pages through lists and waits for jobs, how durable workflows synchronise lists
and edit resources with it, which endpoint each of its methods reaches, how the
webhook service turns deliveries into handled events, and how the webhook server
is configured, started and shut down.  TLC checks every model on a small
instance; TLAPS proves the safety of the request loop, of the retry schedule, of
waiting for jobs, of pagination, of durable synchronisation, of the webhook service
and of the server around it for every value of their constants.

Contents: [the system](#the-system) · [modules](#modules) ·
[runs and bounds](#runs-and-bounds) · [fairness](#fairness) ·
[assumptions about pretix](#assumptions-about-pretix) · [proofs](#proofs) ·
[disagreements](#disagreements-of-code-and-documentation) ·
[not modelled](#not-modelled) · [plan](#plan)

To repeat the work, in this directory: `tlc -config RequestExecution.cfg
MCRequestExecution`, and `tlapm RequestExecution_proof.tla`, and so on.

## The system

| Component | State | Operations | How it interacts |
|---|---|---|---|
| Request execution (`pretix/src/client.rs`, `request.rs`) | per call: the loop counter, the sleep, the attempt under way | `execute`, `send_once`, decoding | consults the retry policy; its future may be dropped at any await |
| Retry policy (`retry.rs`, `error.rs`) | none (a value of the client) | `delay`, `backoff`, `is_retryable` | for the client's loop, and for callers deciding about an error they got |
| Pagination (`pagination.rs`) | the unfolding: a cursor and the URLs seen; results buffered | `page`, `pages`, `stream`, `all` | each page is a call of `execute`; demand comes from the consumer |
| Jobs (`job.rs`) | the start of the wait | `job_with`, `wait` | each poll is a call of `execute`, which may retry below it |
| URLs and paths (`path.rs`, `scope.rs`, `query.rs`) | none | `rebase`, `to_url`, encoding | links from responses are moved to the configured origin |
| Conditional requests (`conditional.rs`) | what the caller keeps | `If-Modified-Since`, `304` | over pagination for incremental synchronisation |
| Downloads, uploads, authentication (`download.rs`, `upload.rs`, `auth.rs`) | none | bodies, headers | - |
| Resources (`resources/**`, 15 000 lines) | none in the client; what workflows journal of them | 349 methods of 75 handles, with their bodies, queries and responses | through paths and the url crate to the routes of pretix; bodies and responses through serde, pretix and journals |
| Data types (`types/**`, `serde_util.rs`) | none | conversions, tri-state fields of PATCH | - |
| Webhook events (`pretix-webhook-events`) | none | `Deserialize`, `organizer_slug`, `event_slug`, `is_event_level` | feeds the filters |
| Webhook service (`pretix-webhook`) | per delivery: how far `respond` is | authenticate, read, parse, filter, handle, answer | pretix repeats what is not answered with a success |
| Webhook server (`pretix-webhook-cli`) | the routes; the shutdown signal | configuration, start, graceful shutdown | one service per route |

What is hard about it:

- **Unreliable delivery.**  An attempt that timed out may be executed later,
  after the client has retried or given up; answers get lost after execution; a
  gateway answers for pretix.  The client must retry enough to be useful and
  never what could take effect twice.
- **Two rules for one thing.**  `RetryPolicy::delay` decides for the client,
  `Error::is_retryable` for its callers, on top of the client's own retries.
- **Layers of retries.**  `wait` polls with `execute`, which retries by
  itself; a 409 is a job's "not yet", a conflict, or a key's "in progress".
- **Time.**  Timeouts are checked between polls that take time themselves;
  delays and durations saturate or overflow.
- **Links from outside.**  The next page is where the last one says it is.
- **Cancellation.**  Futures are dropped at any await, the client's by its
  caller and the handler's when pretix closes the connection.
- **Repetition.**  pretix repeats deliveries; nothing but a success stops it.
- **Crashes and journals.**  Requests, responses and cursors "can be journaled by
  durable execution engines" (`lib.rs`): what comes back from a journal must mean
  what went in, and a step may run again over a list that has changed meanwhile.
- **Identifiers in paths.**  A text becomes a segment, a URL that a parser
  normalises, a path that a proxy moves and that routes divide again.
- **Settings from three places.**  A list that is empty, shadowed or of the other
  mode must not turn into no list at all, which lets everybody in.
- **Shutdown.**  The process ends while handlers run.

What makes each component correct is stated as its module's properties, below.
The hazards, line by line, with the properties that cover them, are listed in
`PROJECT.json`.

## Modules

| Module | Models | Level |
|---|---|---|
| `RetryPolicy` | `delay`, `backoff` with both saturations, `is_repeatable`, `is_transient_status`, both `is_retryable` | operators |
| `RetrySchedule` | the policy against every sequence of outcomes | state machine |
| `AtMostOnce` | what the client promises callers, without attempts and network | abstract specification |
| `RequestExecution` | `execute` and `send_once`, the network, a gateway, pretix with its idempotency keys, callers that repeat and drop calls | state machine; implements `AtMostOnce` |
| `JobPolling` | `wait` with `execute` below it, on one clock | state machine |
| `Pagination` | `pages` with `stream` and `all` | state machine |
| `WebhookEvents` | family selection, required fields, what filters see | operators |
| `WebhookService` | `respond` for concurrent deliveries, pretix as their source | state machine |
| `CliConfig` | flags, environment and TOML file to endpoints; validation of paths | operators |
| `CliServer` | the process: start, one `WebhookService` per endpoint behind routes, warnings, shutdown, kill and restart | state machine; composes `CliConfig` with instances of `WebhookService` |
| `ApiSchema` | serde's classes of fields, `double_option`, `null_as_default`, lists joined by commas; requests as calls | operators |
| `ApiOrganizers`, `ApiEvents`, `ApiCatalog`, `ApiOrders` | every model, body, query and handle of `resources/**` | data |
| `Api` | all handles, methods and exchanges | data |
| `ResourceEditing` | a call of any method by workflows that crash, field by field, with serde, the journal and pretix | state machine over `Api` |
| `Paths` | `Path::join`, `to_url`, `rebase`, `parse_base_url`; of the url crate, `set_path` | operators |
| `Endpoints` | from a method's identifiers to the endpoint that pretix executes, and over a link back | state machine; composes `Api` with `Paths` |
| `DurableSync` | rounds of synchronisation, journaled page by page, with `ResponseMeta`, cursors and `if_modified_since` | state machine |
| `MC*` | the instances that TLC checks | |
| `*_proof` | theorems and proofs | |

Operators whose comment starts with "Mutation of" are broken variants of the
definition they precede: with one of them in its place a run finds the property
violated that `PROJECT.json` names with it.  They are no part of the models.

**RequestExecution.**  A call is in one of the places where its future can be:
about to send (`ready`), at `send().await` or `bytes().await` (`awaiting`),
at `tokio::time::sleep` (`sleeping`), returned or dropped.  `Receive`,
`TransportError` and `FatalError` are the three arms of the match on
`send_once`'s result; the first two consult `Delay` with the same values as the
code and either sleep or return.  Messages outlive the attempts that sent them:
`wire` and `busy` hold what pretix may still execute after the client has
stopped waiting, and that is where the danger lies.  Callers are part of the
model because `is_retryable` is an offer to them: `Repeat` issues a call
again when its error says so or when it has a key, `Cancel` drops it.

**RetrySchedule** has no network at all: any outcome may follow any other.  It
compares the two classification rules, checks the arithmetic with small widths
(`U32Max`, `DurationMax` are constants) and bounds the time a call sleeps.

**JobPolling.**  Time is a counter; attempts take 1 to `AttemptTime` ticks, a
sleep overruns by up to `Slack`.  Endpoints differ in method and in the
statuses for pending, failed and done, as `job_with` is called in the
resources.  `Answer` lets the request arrive at any moment of the attempt, so
that an answer may be older than the moment it is heard.  A sum of durations
that overflows is the result `panic`, as in the code; a success whose body the
endpoint's decoder cannot read is the result `malformed`.

**Pagination.**  Each request may be answered with any page: lists that change,
links that lead back or to another origin.  `FetchPage` is the poll of the
stream, enabled for a stream only when the consumer has used up its buffer, as
`try_flatten` does; `Arrive` is the rest of the closure in `pages`, up to
the next poll.

**WebhookService.**  Each delivery goes through `respond`'s stages; a delivery
may be dropped in any of them, and its answer may be lost.  Payloads keep only
the fields that filters look at; an action is the sequence of its parts, which
`KindOf` sorts into families by the prefixes of the match arms.  `RefusalsAreFinal`
compares deliveries of one notification with one another: what is refused once, for
its credential, its size or its event, gets through by no other delivery, however its
body is cut.  The 400 of a body that cannot be parsed is left out of it, since a body
that breaks off has the same answer and may get through the next time.
`FamilyIsClosest` does not use `KindOf`, but the prefixes themselves.

**CliConfig** and **CliServer.**  A path is the sequence of the parts between its
slashes, a list of the environment the sequence of its entries, so that an empty
variable is a list of one empty entry, as `split` makes it.  `IntoEffective`
collects the reasons to refuse settings; the texts of the errors are left out.
`CliServer` starts with what `IntoEffective` yields and passes each request on
to the actions of the `WebhookService` of its route; `Exit` is the end of
`axum::serve`, and a process that could not listen for the signal drains too, but
fails (`main.rs:53`).  That axum drains before it ends is the guard of `Exit`: it is
assumed of axum, and no property.  The properties do not look at endpoints: they compare what
reaches a handler with what anybody has `Written` for the path, in any of the
three places, and what pretix counts as delivered with what has been handled, across
kills, restarts and paths that nobody serves (`DeliveredIsHandled`).

**Api.**  A schema maps the names of a struct's fields to one of eleven classes,
which stand for the field's type and serde attributes; a handle is a record of
calls, one for each method: the HTTP method, the path with its arguments, the
query, the body and the response model.  The modules follow the files of
`resources/**` one by one: 330 definitions, 349 methods, 5 030 fields in all
exchanges.  Values inside of bodies and responses appear as exchanges of their
own (`Parts`); to their outer schema they are one field.

**ResourceEditing.**  The fields of a body do not touch one another, so a
behaviour is about one of those fields: what workflows mean it to be, the body
that carries it, its place on the wire and in the journal, what pretix takes it to
mean and shows of it, and what the response model makes of that.  A crash takes
the workflow back to its journal, before or after pretix has acted.  A value is not
always written as what it is, and a journal forgets two kinds of them (`Forgettable`):

- `Some(Value::Null)` of an optional `serde_json::Value`, and a number that is none
  of an optional `f64`, are written as null and come back as `None` (classes
  `optionalNullish` and, for PATCH, `clearableNullish`, which comes back as
  `Some(None)` and clears the field, as the null that it was written as would):
  among others `payment_info` of `CreateOrder`, `info` of payments and refunds,
  `geo_lat` of events;
- `[""]` of a list that is joined by commas (class `texts`: `tax_code__in`,
  `fee_type__in`, `order__status__in`) is written as the empty text and comes back as
  the empty list, which is then not sent at all.  `["a,b"]` comes back as two texts,
  but is written like them, so that pretix is told the same before and after a crash.

`EditsApplyAsIntended` and `ReplayReadsTheSame` name the forgotten values as their only
exceptions, for workflows that were replayed: everything else is sent as it was meant.

**Paths** and **Endpoints.**  A text is a sequence of characters and words.  The
characters are the six that URLs give a meaning to; a dot of them survives
encoding, and two of them make a segment that `set_path` follows, escaped or
not.  `Endpoints` calls a method with one text out of `Texts`, or with a word that
another endpoint has in the same place; routes divide a path before they decode
it.  A GET may be answered with a link that names another origin and prefix,
and following it must lead back.

**DurableSync.**  Orders are listed with `modified_since`, which becomes the
`page_generated` of the first page of the round before; items and the like with
`if_modified_since`, which becomes its `last_modified`, and may be answered 304.
A step requests one page and is journaled with the cursor of the next, or it is
lost and repeated; meanwhile objects are created, modified and, in lists that are
not of orders, removed, so that the others move between the pages.  A 404 on a
page that no longer exists is terminal (`is_retryable`) and ends the round.

## Runs and bounds

| Run | Instance | States | What it shows |
|---|---|---|---|
| `retry_schedule` | 24 policies, 3 kinds of requests, 17 outcomes; factors to 3, durations to 12 | 16 658 | The policy never retries what may not be repeated, gives up on a retryable failure only for a reason it has, honours Retry-After and otherwise waits between half and all of a backoff that never wraps, and sleeps a bounded time |
| `request_execution` | 2 calls, of one or two operations, one retry each, one repeat by a caller | 178 744 | No operation takes effect twice; success and safe-to-repeat errors tell the truth; an unprotected request is never sent while it is in doubt; every call returns |
| `request_promise` | the same | 178 744 | `RequestExecution` implements `AtMostOnce` |
| `job_polling` | 4 endpoints, 9 options, jobs that end at 0, 2, 4 or never in one of four ways; attempts of up to 2 ticks, one retry | 42 353 | `wait` gives up in time and not early, never returns what is not so, spaces its polls, does not start shredding twice, and returns |
| `pagination` | 3 URLs under 5 links on 2 origins, pages of 0 to 2 results, both consumers | 3 404 | No URL is fetched twice, nothing is lost silently or reordered, a list ends with its first page that is empty or has no link, a consumer that takes no more keeps its order, every stream ends |
| `webhook_service` | one notification, 2 deliveries; every family, every combination of fields and of readable, foreign and unreadable values; bodies below, at and above the limit in every cut | 223 875 | Delivered means handled, answers are truthful, unaccepted bodies stay unread, no filter is passed by, an event is of the closest family, what is refused for good never gets through, every delivery ends |
| `cli_server` | 526 settings: flags and environment of each list, files of up to two entries, prefixes, paths that are refused; one notification of two events under every credential or of a gift card, 2 deliveries, 4 targets | 395 540 | Every written list holds for its path, open paths have been warned about, delivered means handled across kills and restarts, a shutdown ends |
| `resource_editing` | every field of every exchange, two workflows, every intent, crashes at any time | 772 446 | pretix takes bodies as they are meant, also replayed ones but for the values that a journal forgets; every answer can be read; a replay sees what was seen |
| `endpoints` | every method, 18 texts and all words of other endpoints in every place of a text, 3 base URLs, 2 reported prefixes | 165 732 | pretix executes the endpoint that was called, or the call is refused; links lead back through the configured URL |
| `durable_sync` | both ways, both orders of the list, 3 objects on pages of one, 3 changes over 3 times, one fault | 245 690 | No change is missed, and the copy becomes the list once it is left alone |
| `retry_rule_divergence` | as `retry_schedule` | - | violated: see [below](#disagreements-of-code-and-documentation) |
| `event_level_divergence` | as `webhook_service`, one delivery | - | violated: see below |

Why the bounds are enough:

- *Two calls* are what can share a key; a third adds nothing that two calls with
  a repeat and a retry do not already interleave.  Calls of different operations
  share no state, so `MCInit` does not run them side by side.  *One retry and one
  repeat* make up to four messages of one operation, in transit at once.
- *Widths.*  With `U32Max` = 3 the factor saturates at the third retry, and with
  `DurationMax` = 12 so does its product with a backoff of 5; the policies allow
  three retries, and their caps lie below and at the saturated product.
- *Clock.*  Timeouts 0 and 4, intervals 0, 2 and 12 against attempts of 1 and 2
  ticks: polls that start before and end after the timeout, intervals longer than
  it, and one whose sum overflows.  The clock needs no bound: `wait` returns, since
  a wait without timeout is only started for a job that ends.
- *Three URLs* make loops of one, two and three pages; two origins make different
  links to one URL.
- *One notification* is enough because deliveries of different notifications share
  only the policy, which is fixed; the second delivery is the repetition.

- *Settings* vary one dimension at a time and those pairs that the code combines
  (flag and environment of a list, credentials of both, prefix of flag and file,
  two entries of a file), since `into_effective` treats the lists separately.
- *Two workflows* meet on one object with PATCH requests; a third would only be
  another writer between the two.  Values are one per workflow.
- *One text* is varied at a time: segments are encoded and routed one by one, and
  the others are plain.  The base URLs are one without a path, one without its last
  slash, and one under a prefix.
- *Three objects on pages of one* make rounds of three pages, in which an object
  can move over a page boundary in either direction, before and after it is read.
  Three changes are enough for two in one round and one in the next.  The proof
  of `NothingMissed` has none of these bounds.

Deadlock is not checked: calls, streams, deliveries and workflows end, shutdowns
too, and the models stop.

## Fairness

Safety is checked and proved without fairness.  For liveness:

- *Client* (`RequestExecution`, `JobPolling`): the task is polled, so its own
  steps are taken, and an attempt that hears nothing fails by the HTTP client's
  total timeout (`DEFAULT_TIMEOUT`, `client.rs:19`).  Nothing is assumed of the
  network and of pretix, and nobody is obliged to drop or to repeat a call.
- *Pagination*: the consumer keeps polling, and a request is answered or fails,
  which `EveryCallReturns` of `RequestExecution` shows.
- *Webhooks*: the service's futures are polled; a body goes on arriving or breaks
  off, and the handler returns.  The last two are assumptions about the outside:
  nothing in the crate limits the time of either, which is left to outer layers.
- *Server*: the process runs, so it starts, and `axum::serve` returns when nothing
  is open; its requests are those of *Webhooks*.  Nobody is obliged to interrupt,
  kill or restart it, and pretix need not read an answer.
- *Durable synchronisation*: rounds are scheduled again and again, and the engine
  takes the steps of a round to their end; nothing is assumed of changes, and the
  faults are bounded.

## Assumptions about pretix

pretix is not in this repository.  The models take it to be what the code and
its comments rely on (`retry.rs`, `Request::idempotency_key`):

- the rate limit comes first: a request answered 429 has not been executed;
- a 3xx or 4xx answer other than 408 and 429 of pretix itself means that the
  request had no effect, 5xx answers of pretix that it was rolled back, while a
  gateway may answer 408 or 5xx whatever has become of the request;
- the key of a mutating request is recorded when its execution starts, others with
  the same key are then answered 409 with Retry-After, and later ones get the
  recorded answer; keys do not expire while a call is repeated;
- requests are not duplicated below HTTP, and only calls with a key share an
  operation;
- fields that a request does not carry are left alone, a null clears a nullable
  field, and fields of response models that are `required` are in every answer,
  while others depend on the version of pretix;
- its routes divide a path at slashes before they decode it, and end in a slash;
  its links name the origin and the prefix that it believes to have, and repeat the
  query, while headers of the request before are gone;
- orders stay in their list (those of test mode are deleted, but `ListOrders`
  advises `testmode=false`) and keep their place in an order that changes do not
  touch; `X-Page-Generated` is taken before the list is read, and a change at that
  very time is listed by the next round;
- `Last-Modified` covers removals, and tells apart changes of one second: two
  changes within the same second, of which only one has been listed, are beyond
  what an HTTP date can say.

Of whoever runs things: an engine repeats a step until it is journaled, and axum
accepts nothing after the signal and drains what it has accepted.

## Proofs

All proofs are checked by `tlapm` with its SMT and Zenon backends and, for
temporal steps, LS4.

| Module | Theorems |
|---|---|
| `RetrySchedule_proof` | `TypeCorrect`, `RetriesAreSafe` (`RetriesOnlyRetryable`), `GivesUpOnlyForAReason`, `WaitIsBounded`, `DelaysAreHonoured`; lemmas: a request that `delay` retries is retryable; delays are durations and bounded by `LongestWait`; the backoff doubles until it saturates, and then stays up |
| `RequestExecution_proof` | `TypeCorrect`, `AtMostOneEffect`, `SuccessIsTrue`, `RepeatableIsSafe`, `SendIsSafe`, `BoundedAttempts`, `Refinement` |
| `JobPolling_proof` | `TypeCorrect`, `WaitsGiveUpInTime`, `TimeoutIsLate`, `ResultsAreTrue`, `PollingActsOnce`, `PollsAreSpaced` |
| `Navigation_proof` | of `Pagination`: `TypeCorrect`, `UrlsFetchedOnce`, `EndIsComplete`, `ResultsInOrder`; of `Endpoints`: `RoutingInvariant`, `EveryCallReachesItsEndpoint` (`ReachesItsEndpoint`); lemmas: what escapes can be read again, paths divide into the segments that they were joined from, what `to_url` refuses and what it makes of the rest, where `rebase` leads |
| `DurableSync_proof` | `Invariant`, `NothingIsMissed` (`NothingMissed`) |
| `WebhookService_proof` | `TypeCorrect`, `AcknowledgedIsHandled`, `TruthfulAnswers`, `BodiesAreGuarded`, `HandledPassFilters`, `RefusedForGood` (`RefusalsAreFinal`), `FamiliesAreClosest` (`FamilyIsClosest`) |
| `CliServer_proof` | `TypeCorrect`, `WrittenIsEnforced` (`WrittenListsHold`), `OpenPathsWarned`, `DeliveredWasHandled` (`DeliveredIsHandled`) |
| `ResourceEditing_proof` | `Invariant`, `EveryResponseIsReadable` (`ResponsesReadable`), `ReplaysAreFaithful` (`ReplayReadsTheSame`), `EditsAreIntended` (`EditsApplyAsIntended`) |

They rest on the ASSUMEs of the modules, which say of what type the constants are
and that the sentinel `None` is nothing else (no HTTP status either), that an action is a
sequence of parts or missing (`ActionAssumption`), which statuses pretix and gateways
use for what (the section above), that the values workflows set are not the
sentinels of serde (`WorkflowsAssumption`), that a configured path ends in the root of
the API (`BasePathsAssumption`), and in three places more about this code:

- `JobCodesAssumption`: the statuses that the callers of `job_with` take for "still
  running" are at most 409 and 423 (`JobCodes`), those they take for the end of a
  job are none that a gateway answers with, and a job that has ended does not
  answer that it is running;
- `CliConfigAssumption` and `Setting`: a variable of the environment is never an
  empty list of entries, since `split` makes at least one, and neither an empty
  text nor an unset variable is a slug, a segment or a credential;
- `RoutesAssumption`: any two endpoints that methods of handles are for differ in
  method, in length, in the pairs that a method always sends, or in a word at some
  place of their paths.  It mentions no parameter, but the table of all the handles,
  which TLC goes through; the provers get it as a fact.

*Request execution.*  `EffectAtMostOnce` is not inductive: it says nothing of
messages that could still bring a second effect.  `IInv` adds, for calls without
protection, that at most one message is out, that it is the last one sent and has
had no effect yet, and that nothing is out at all when the call is about to send,
sleeps, or has been told so by a denying reply or result (`UnprotectedInv`);
for calls with a key, that the store keeps executions apart and counts the effects
(`StoreInv`); and that good news is true (`SuccessInv`).  That the client's
steps preserve it is what `DelayIsRetryable` is for: the loop sleeps only after
outcomes which `is_retryable` accepts, and for an unprotected call these are the
ones that prove the message gone.  The refinement follows: under the mapping of a
call's state to the verdict it has told, each step is a step of `AtMostOnce` or
changes nothing it can see.

*Retry schedule.*  The invariant relates the chosen delay to the outcome, as one
that `Delay` may choose for it, and the time waited to the attempts made; the step
for `Retry` is nonlinear and is split accordingly.  `DelaysAreHonoured` needs to
know that powers of two grow.  The provers know nothing of 2^n, but the library
proves that a set of n elements has 2^n subsets, and a larger set has more of them
(`PowersOfTwo`); with that `BackoffDoubles` compares the saturated factor of an
attempt with the power of any earlier one.

*Job polling.*  What a wait tells its caller follows from when things happened, so
`IInv` is mostly about time: a poll starts no later than the timeout and a sleep's
overrun, and its attempt number n comes after at most n rounds of an attempt and a
delay (`TimeInv`); an answer that the job is running is at most as old as the attempt
that brought it (`PendingInv`), so that a wait which times out cannot have missed a
job that ended long before; when a request without a key takes effect the wait is
over, whatever becomes of the answer (`EffectInv`, over `DelayIsRetryable`); and
after an answer that the job is running no attempt comes before the interval is over
(`SpacedInv`).  `PollsSpaced` is about requests without a key: for one with a key a
409 with Retry-After is the client's own to retry, when pretix has asked for it.

*Pagination.*  Pages have different URLs, which have all been seen, and what is to be
fetched next is none of them (`UrlInv`); there is nothing left to fetch only behind a
page without a successor (`CursorInv`), and a page that is empty or has no link is the
last one (`FinalInv`); what is delivered or buffered are the results
of the pages so far (`DeliveryInv`).  The results of pages are a fold over a sequence of
sequences.  What it yields for one page more is a fact of induction, which is proved
here without the library's induction theorems: a set of numbers without a least
counterexample is empty (`SetInduction`, from the well-foundedness of the naturals),
hence `FlattenAppend`, and from it that what has been delivered is a prefix.

*Endpoints.*  The theorem is about the table of all the handles as it is, and about
identifiers of any length and any characters.  What a path becomes is followed
through each function on the way, by induction over texts (`TextInduction`, from
`SetInduction` again).  An escaped segment has no character that divides a path
(`EncodedIsFree`), is not dots (`EncodedIsNoDots`: the dot itself is not escaped,
but the two segments that only consist of dots are refused, and a percent sign is
escaped, so that no text can spell an escaped dot), and is decoded to what it was
(`DecodeEncode`).  A path joined from such segments is divided into the same ones
(`SplitJoin`), and no dots are followed in it (`NormalizeKeeps`, `SetPathKeeps`).
Hence `to_url` refuses exactly the identifiers that it checks for and puts all others
behind the base's path (`ToUrlBelow`), where pretix reads the same segments
(`RoutedBelow`); `RoutesAssumption` then leaves one endpoint (`OneEndpointAnswers`).
A link of a pretix that believes to be elsewhere has `/api/v1/` first where its own
prefix ends, whatever the identifiers behind it (`RootOccurs`), so that `rebase` finds
the configured URL again (`RebaseBelow`).  Over these facts the invariant says of each call that there is one
request that could be under way, one link to answer it with and one endpoint to execute
it (`RoutingInv`).  Texts are sequences over `Characters`, all strings: the characters
that URLs give a meaning to are listed in it once more since the provers do not know
that a literal is a string.

*Durable synchronisation.*  `NothingMissed` speaks of the copy between rounds.
Within a round `IInv` says what has been got so far: of the objects that nobody
has touched since the first page was generated, all in front of the cursor
(`ReadSoFar`), with an answer on its way those on its page as well (`Answered`),
and nothing that the list does not have.  The step that matters is a change of the
list: the set of objects listed since a time only grows, so by the cardinality of
what comes before it (`PositionGrows`) an untouched object never moves towards the
front, past the pages that have been read; in a conditional round any change makes
the round's own time stale, and the whole list is listed again.  A round's last
page then leaves a copy that misses nothing (`RoundComplete`): what was touched
too early to be listed was in the copy before.

*Webhook service.*  A delivery's stage tells what it has passed: read bodies were
accepted, handlers run in one stage only, what a handler was given was parsed and
allowed.  `HandledPassFilters` then is a fact about the operators of
`WebhookEvents`, `AllowedPasses`, which goes through the families: whoever has
an event field and is neither a customer nor a gift card is event-level
(`OrganizersKinds` says which actions those are).  `RefusalIsJust` keeps of each refusal
why it was given, in terms of the notification and the policy alone, neither of which a
later delivery changes; a handler that runs contradicts it.  `FamiliesAreClosest` is
about the operators again: of the prefixes of the match arms only that of gift cards
begins another one, so any other action has at most one (`KindIsClosest`).

*Server.*  Two halves.  The first is about settings alone: `ServedKeeps` says of
every endpoint that any accepted settings lead to, in either mode, that each of its
lists is what is `Written` for its path, and that it is announced where nothing is.
For a file this needs that one entry has the path, hence that what is joined to a
prefix is told apart by what was joined (`ResolveInjective`).  The second follows
deliveries through the process: what is open is on a route and is served by a
process that runs with all of the settings' endpoints (`ServingInv`, `RouteInv`), so
what reaches the handler has passed an endpoint of the settings and its warnings
are out (`InvokedInv`).  This part of the invariant does not mention what the
process serves at the moment; so it survives kills and restarts.  So does
`SuccessInv`, from which `DeliveredWasHandled` follows: no answer is a success but that
of a handler that has returned.

*Resource editing.*  Here the theorems are about the API as it is: every handle, every
type, every field, with any number of workflows.  For one field the facts are those of
serde: what its class makes of a null, of a missing key and of a value, on the way out
(`Serialize`), in pretix (`Meaning`) and on the way back (`Deserialize`), and what a
value comes back as that is not written as itself (`Reread`).  What they need of the
schemas is one thing (`Fits`): a field that a request can set to null (`Clearing`)
reads back as null in the response model, or is not in it.  It is proved type by type,
since most types of bodies have no such field (`Plain`, `PlainFits`) or share the
fields of their model (`PatchFits`, `NullsFit`, `FitsMerge`), and from there handle by
handle to `HandlesReadable`, and for values within bodies `PartsFit`.  Two types need an
argument of their own: `CreateOrder`, whose `send_email` and `payment_info` `Order` does
not have, and `NewOrderPosition`, whose validity may be null in `OrderPosition` as well.
Over these facts the invariant says of each workflow that what
is on its way means what it has set or, in a replay, what the journal has kept of it
(`MeaningInv`), that what pretix has answered is
readable (`AnswerInv`), and that what is in the journal reads as what was answered
(`ResultInv`), across crashes between any two steps.

Every invariant that a passing run checks is proved; the type invariants of `Pagination`,
`WebhookService` and `CliServer` are proved and not checked by a run of their own.  Only
model-checked are all the liveness properties: fairness and ENABLED are beyond the
prover.

## Disagreements of code and documentation

- `RetryPolicy::delay` says that it "Uses the same rule as `Error::is_retryable`"
  (`retry.rs:103`).  For a 409 with Retry-After on a repeatable request without a
  key it does not: the error is retryable, the client does not retry it
  (`retry.rs:121`, deliberately: for polls a 409 is an answer).  Run
  `retry_rule_divergence`.
- `is_event_level` says that a payload that carries an event field is event-level
  even when the field cannot be read as a slug (`event.rs:127`).  Customer and
  gift card events never are (`event.rs:140`), whatever fields they carry.  Run
  `event_level_divergence`.

## Not modelled

- Formatting, logging, tracing spans, headers other than the ones above; the
  wall clock behind a Retry-After that is a date (it arrives as some duration).
- The builders: methods that set one field of a value.  The models start from any
  value they can build.
- Downloads and uploads (a body that is handed over), the authentication of the
  client (a value that becomes a header), and `Client::request` with a path that
  the caller writes.
- Of the resources: the values of enumerations, nested values other than as
  exchanges of their own, the aliases and attribute filters of a few queries, the
  decoders of the results of a check-in, `lenient_bool` (a required field).
- Of the data types: decimals, localized strings, expandable values and
  orderings, which are conversions without state, and lists joined by commas of
  numbers and decimals, which are neither empty nor have a comma.  Values that the
  types are not made for would not survive a journal either, and are not among the
  models' inputs: an `Unrecognized` that holds a known name, a relative date without its
  prefix, an unrecognized ordering that begins with a minus sign.
- How long a body, a handler or a connection may take (`service.rs:127`,
  `main.rs:52`): nothing in the code limits it, and the liveness properties assume
  that they end.
- What pretix does with a second start of a certificate (a GET with an effect,
  which is retried, `certificates.rs:58`), and a client's clock that is skewed
  (`client.rs:226`).
- Multi-threading inside a component: there is none.  Futures interleave at awaits,
  and each action is what runs between two of them.

## Plan

Done, in this order: retry policy and schedule; request execution with its
promise and their proofs; job polling and pagination with their proofs; webhook
events and service with its proofs; the server's configuration and process with
their proofs; the resources as data, with
resource editing and endpoints over them; durable synchronisation with its proof; the
proofs of resource editing, from what the schemas of the API have in common, and of
endpoints, from what escaping, joining and dividing do to texts.  Next:

1. Protocols on top of the endpoints: check-in with nonces over
   `RequestExecution`, offline sales and shipping with acknowledgement.
2. Durable jobs: a `JobStatus` polled once per step.

Specifications worth stating abstractly: a reliable list (what `stream` yields is a
list in order, or an error), and at-least-once handling of notifications, which
`WebhookService` should be shown to implement.
