----------------------------- MODULE CliServer -----------------------------
(***************************************************************************)
(* The webhook server as a process (crates/pretix-webhook-cli: main.rs):   *)
(* it starts with the endpoints of its configuration or not at all, serves *)
(* each of them with a WebhookService of its own, and shuts down when it   *)
(* is interrupted, after the requests it has accepted.                     *)
(*                                                                         *)
(* External: axum, which routes requests to services and drains them, and  *)
(* whoever interrupts, kills and restarts the process.                     *)
(***************************************************************************)
EXTENDS CliConfig

CONSTANTS
  NotAString, Notifications, MaxDeliveries, Policies, Notices,  \* of WebhookService
  Settings,    \* flags, environments and files
  Targets,     \* the paths that deliveries are sent to
  BodyLimit    \* DEFAULT_BODY_LIMIT

VARIABLES
  settings,    \* flags, environment and file; never change
  phase,       \* of the process
  endpoints,   \* what it serves, once it does
  warned,      \* what it has warned about when it started: paths and warnings
  target,      \* the path that each notification is sent to
  notice, stage, read, status, invoked, handled, acked  \* of WebhookService

\* The service of a policy.
Service(policy) == INSTANCE WebhookService

Events == INSTANCE WebhookEvents

ASSUME ServerAssumption ==
  /\ NotAString \notin Slugs \cup {None}
  /\ \A s \in Settings : Setting(s)
  /\ \A n \in Notices : n.size \in Nat
  /\ None \notin 200..599

served == <<read, invoked, handled, acked>>

process == <<settings, phase, endpoints, warned, target, notice>>

vars == <<process, stage, status, served>>

Deliveries == Notifications \X (1..MaxDeliveries)

\* The deliveries whose futures live in the process.
Open == {d \in Deliveries : stage[d] \in {"received", "reading", "handling"}}

Init ==
  /\ settings \in Settings
  /\ phase = "starting"
  /\ endpoints = <<>>
  /\ warned = {}
  /\ target \in [Notifications -> Targets]
  /\ notice \in [Notifications -> Notices]
  /\ stage = [d \in Deliveries |-> "none"]
  /\ read = [d \in Deliveries |-> 0]
  /\ status = [d \in Deliveries |-> None]
  /\ invoked = {}
  /\ handled = {}
  /\ acked = {}

-----------------------------------------------------------------------------
(* run.                                                                    *)

\* The endpoints that requests for d are routed to: one, or none.
Routes(d) == {endpoint \in ToSet(endpoints) : endpoint.path = target[d[1]]}

\* The policy of the service at an endpoint.
PolicyAt(endpoint) ==
  [organizers |-> endpoint.organizers, events |-> endpoint.events,
   credentials |-> endpoint.credentials, body_limit |-> BodyLimit]

\* The policy of the service that serves d.
PolicyFor(d) ==
  IF Routes(d) = {} THEN None ELSE PolicyAt(CHOOSE endpoint \in Routes(d) : TRUE)

\* report_startup
Warnings(es) ==
  {<<e.path, "unrestricted">> : e \in {x \in ToSet(es) : x.unrestricted}}
    \cup {<<e.path, "unauthenticated">> : e \in {x \in ToSet(es) : x.unauthenticated}}

\* The settings are accepted and the address is bound, or the process fails.
Start ==
  /\ phase = "starting"
  /\ \/ /\ IntoEffective(settings) # <<>>
        /\ phase' = "serving"
        /\ endpoints' = IntoEffective(settings)
        /\ warned' = warned \cup Warnings(endpoints')
     \/ phase' = "failed" /\ UNCHANGED <<endpoints, warned>>
  /\ UNCHANGED <<settings, target, notice, stage, status, served>>

\* The signal arrives, or cannot be listened for.
CtrlC ==
  /\ phase = "serving"
  /\ phase' \in {"draining", "draining after error"}
  /\ UNCHANGED <<settings, endpoints, warned, target, notice, stage, status, served>>

\* Mutation of Exit: it waits until pretix has got every answer.
ExitAcknowledged ==
  /\ phase \in {"draining", "draining after error"}
  /\ \A d \in Deliveries : stage[d] \in {"none", "dropped", "closed"}
  /\ phase' = IF phase = "draining" THEN "stopped" ELSE "failed"
  /\ UNCHANGED <<settings, endpoints, warned, target, notice, stage, status, served>>

\* axum::serve returns when the requests it has accepted have ended: this is
\* what is assumed of axum's graceful shutdown, and not a property.
Exit ==
  /\ phase \in {"draining", "draining after error"}
  /\ Open = {}
  /\ phase' = IF phase = "draining" THEN "stopped" ELSE "failed"
  /\ UNCHANGED <<settings, endpoints, warned, target, notice, stage, status, served>>

-----------------------------------------------------------------------------
(* Requests.                                                               *)

\* Mutation of Deliver: what no endpoint is for is answered with a success.
DeliverFallback(d) ==
  /\ phase = "serving"
  /\ UNCHANGED process
  /\ IF Routes(d) # {}
     THEN Service(PolicyFor(d))!Deliver(d)
     ELSE /\ stage[d] = "none"
          /\ d[2] > 1 => stage[<<d[1], d[2] - 1>>] # "none"
          /\ Service(PolicyFor(d))!Answer(d, 204)
          /\ UNCHANGED served

\* A request arrives; axum itself answers those that no endpoint is for.
Deliver(d) ==
  /\ phase = "serving"
  /\ UNCHANGED process
  /\ IF Routes(d) # {}
     THEN Service(PolicyFor(d))!Deliver(d)
     ELSE /\ stage[d] = "none"
          /\ d[2] > 1 => stage[<<d[1], d[2] - 1>>] # "none"
          /\ Service(PolicyFor(d))!Answer(d, 404)
          /\ UNCHANGED served

Authenticate(d) == UNCHANGED process /\ Service(PolicyFor(d))!Authenticate(d)

Read(d) == UNCHANGED process /\ Service(PolicyFor(d))!Read(d)

\* The server's handler does nothing, and cannot fail.
Succeed(d) == UNCHANGED process /\ Service(PolicyFor(d))!Succeed(d)

Disconnect(d) == UNCHANGED process /\ Service(PolicyFor(d))!Disconnect(d)

Acknowledge(d) == UNCHANGED process /\ Service(PolicyFor(d))!Acknowledge(d)

-----------------------------------------------------------------------------
(* Whoever runs the process.                                               *)

\* It is killed, and what it was doing is lost.
Kill ==
  /\ phase \in {"serving", "draining", "draining after error"}
  /\ phase' = "killed"
  /\ stage' = [d \in Deliveries |-> IF d \in Open THEN "dropped" ELSE stage[d]]
  /\ UNCHANGED <<settings, endpoints, warned, target, notice, status, served>>

\* It is started again, with the same settings.
Restart ==
  /\ phase \in {"stopped", "killed"}
  /\ phase' = "starting"
  /\ endpoints' = <<>>
  /\ UNCHANGED <<settings, warned, target, notice, stage, status, served>>

-----------------------------------------------------------------------------

Next ==
  \/ Start \/ CtrlC \/ Exit \/ Kill \/ Restart
  \/ \E d \in Deliveries :
       \/ Deliver(d) \/ Authenticate(d) \/ Read(d) \/ Succeed(d)
       \/ Disconnect(d) \/ Acknowledge(d)

Spec == Init /\ [][Next]_vars

\* The process runs, and its futures are polled.  As in WebhookService, bodies
\* go on arriving or break off.
Fairness ==
  /\ WF_vars(Start)
  /\ WF_vars(Exit)
  /\ \A d \in Deliveries : WF_vars(Authenticate(d)) /\ WF_vars(Read(d)) /\ WF_vars(Succeed(d))

FairSpec == Spec /\ Fairness

-----------------------------------------------------------------------------
(* Properties.                                                             *)

Phases == {"starting", "serving", "draining", "draining after error", "stopped", "failed", "killed"}

Stages == {"none", "received", "reading", "handling", "dropped", "answered", "closed"}

\* The variables have their types; the process serves all that its settings
\* lead to or nothing, and warns of nothing else.
TypeOK ==
  /\ Setting(settings)
  /\ phase \in Phases
  /\ endpoints \in {<<>>, IntoEffective(settings)}
  /\ warned \subseteq Warnings(IntoEffective(settings))
  /\ target \in [Notifications -> Targets]
  /\ notice \in [Notifications -> Notices]
  /\ stage \in [Deliveries -> Stages]
  /\ read \in [Deliveries -> Nat]
  /\ status \in [Deliveries -> {204, 400, 401, 404, 413, None}]
  /\ invoked \subseteq Deliveries
  /\ handled \subseteq invoked
  /\ acked \subseteq Notifications

\* What the settings say of a list for a path: the flags, or else the
\* environment, whatever the mode, and each entry of the file with that path.
Written(path, list) ==
  LET s == settings
      given == IF s.flags[list] # <<>> THEN {s.flags[list]} ELSE {s.lists[list]} \ {None}
      ofEntry(webhook) ==
        CASE list = "organizers" -> webhook.allow_organizers
          [] list = "events" -> webhook.allow_events
          [] OTHER -> [k \in DOMAIN webhook.credential_env |-> s.variables[webhook.credential_env[k]]]
      entries ==
        IF s.file = None THEN {}
        ELSE {webhook \in ToSet(s.file.webhooks) : Resolve(Prefix(s), webhook.path) = path}
  IN  given \cup ({ofEntry(webhook) : webhook \in entries} \ {<<>>})

\* An event reaches the handler of a path only if it satisfies every list that
\* anybody has written for that path, in any of the places for settings; a list
\* that is there but empty or not usable lets nothing pass, and no list of
\* another path counts instead.  Events of customers and gift cards, though, are
\* those of an organizer, whatever the payload's event field is.
WrittenListsHold ==
  \A d \in invoked :
    LET path == target[d[1]]
        payload == notice[d[1]].payload
        fields == payload.fields
        shows(f, list) == f \in DOMAIN fields /\ fields[f] \in ToSet(list)
    IN  /\ \A list \in Written(path, "credentials") : notice[d[1]].credential \in ToSet(list)
        /\ \A list \in Written(path, "organizers") :
             shows("organizer", list) \/ shows("issuer_slug", list)
        /\ \A list \in Written(path, "events") :
             /\ "event" \in DOMAIN fields
             /\ \A family \in {"customer", "giftcards"} :
                  ~Events!StartsWith(payload.action, <<"pretix", family>>)
             => shows("event", list)

\* A path that serves strangers has been warned about: nothing is handled there
\* without a credential, or without a filter, unless a warning has said so.
WarnedIfOpen ==
  \A d \in invoked :
    LET path == target[d[1]]
    IN  /\ notice[d[1]].credential = None => <<path, "unauthenticated">> \in warned
        /\ Written(path, "organizers") \cup Written(path, "events") = {} =>
             <<path, "unrestricted">> \in warned

\* A notification that pretix counts as delivered has been handled: it was not
\* sent to a path that nobody serves, and the process was not killed before its
\* handler had returned, however often it has been restarted since.
DeliveredIsHandled == \A n \in acked : \E d \in handled : d[1] = n

\* A shutdown comes to its end.
ShutdownEnds ==
  phase \in {"draining", "draining after error"} ~> phase \in {"stopped", "failed", "killed"}

=============================================================================
