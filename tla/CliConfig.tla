----------------------------- MODULE CliConfig -----------------------------
(***************************************************************************)
(* How the webhook server turns flags, environment variables and a TOML    *)
(* file into endpoints (crates/pretix-webhook-cli: config.rs, path.rs).    *)
(*                                                                         *)
(* A path is the sequence of parts that split('/') makes of it, so "/" is  *)
(* <<"", "">>, "/a" is <<"", "a">> and "a/" is <<"a", "">>.  A list in the  *)
(* environment is the sequence of its entries, <<"">> when it is empty.    *)
(***************************************************************************)
EXTENDS Naturals, Sequences, SequencesExt

CONSTANTS
  None,         \* Option::None; of a variable: not set
  NotUnicode,   \* a variable that is not valid Unicode
  Unreadable,   \* a file that cannot be read or parsed
  Slugs,        \* the slugs that filters accept: not empty, nothing to trim
  Credentials,  \* the values of the form USERNAME:PASSWORD, no part empty
  Segments,     \* segments of unreserved characters, but "." and ".."
  Texts         \* what flags, variables and files may contain, valid or not

ASSUME CliConfigAssumption ==
  /\ {"", None} \cap (Segments \cup Slugs \cup Credentials) = {}
  /\ {"", "webhook"} \subseteq Texts

Lists == {"organizers", "events", "credentials"}

Given(value) == value = None \/ value \in Seq(Texts)

\* What files parse as.
File(f) ==
  /\ Given(f.prefix)
  /\ \A webhook \in ToSet(f.webhooks) :
       {webhook.path, webhook.allow_organizers, webhook.allow_events, webhook.credential_env}
         \subseteq Seq(Texts)

\* What flags, environment and file may be.  No variable is an empty list.
Setting(s) ==
  /\ \A list \in Lists :
       /\ s.flags[list] \in Seq(Texts)
       /\ s.lists[list] = NotUnicode \/ (Given(s.lists[list]) /\ s.lists[list] # <<>>)
  /\ Given(s.path) /\ Given(s.prefix)
  /\ s.file \in {None, Unreadable} \/ File(s.file)

-----------------------------------------------------------------------------
(* Paths.                                                                  *)

Root == <<"", "">>

DefaultPath == <<"", "webhook">>

\* Empty segments, which leading, trailing and double slashes make, included.
ValidSegments(segments) == ToSet(segments) \subseteq Segments

ValidAbsolute(path) ==
  path = Root \/ (Len(path) > 1 /\ Head(path) = "" /\ ValidSegments(Tail(path)))

ValidRelative(path) == ValidSegments(path)

Resolve(prefix, relative) == (IF prefix = Root THEN <<"">> ELSE prefix) \o relative

-----------------------------------------------------------------------------
(* What both modes share.                                                  *)

\* Config::parse: the paths and credentials of flags are checked by Clap.
Parses(s) ==
  /\ s.path = None \/ ValidAbsolute(s.path)
  /\ ToSet(s.flags["credentials"]) \subseteq Credentials

\* Mutation of SemicolonList: an empty variable counts as one that is not set.
SemicolonListLenient(value) == IF value \in {None, <<"">>} THEN <<>> ELSE value

\* Of a variable that is not set, an empty list; of an empty one, a list of an
\* empty entry, which nothing accepts.
SemicolonList(value) == IF value = None THEN <<>> ELSE value

\* The environment counts where there is no flag.
ListSetting(s, list) ==
  IF s.flags[list] # <<>> THEN s.flags[list] ELSE SemicolonList(s.lists[list])

\* The variables that are consulted can be read.
ListsReadable(s) == \A list \in Lists : s.flags[list] # <<>> \/ s.lists[list] # NotUnicode

ContainsDuplicates(values) == ~IsInjective(values)

\* Mutation of Endpoint: the warnings follow the credentials alone.
EndpointUnannounced(path, organizers, events, credentials) ==
  [path |-> path,
   organizers |-> ToSet(organizers), events |-> ToSet(events), credentials |-> ToSet(credentials),
   unrestricted |-> organizers = <<>> /\ events = <<>>,
   unauthenticated |-> credentials = <<>> /\ organizers = <<>>]

\* EffectiveEndpoint: the policy of the service at a path, and the warnings.
Endpoint(path, organizers, events, credentials) ==
  [path |-> path,
   organizers |-> ToSet(organizers), events |-> ToSet(events), credentials |-> ToSet(credentials),
   unrestricted |-> organizers = <<>> /\ events = <<>>,
   unauthenticated |-> credentials = <<>>]

-----------------------------------------------------------------------------
(* One endpoint, from flags and environment.                               *)

SimpleAccepted(s) ==
  /\ s.prefix = None
  /\ ~ContainsDuplicates(ListSetting(s, "organizers"))
  /\ ~ContainsDuplicates(ListSetting(s, "events"))
  /\ ToSet(ListSetting(s, "credentials")) \subseteq Credentials
  /\ ToSet(ListSetting(s, "organizers")) \cup ToSet(ListSetting(s, "events")) \subseteq Slugs

SimpleEndpoints(s) ==
  <<Endpoint(IF s.path = None THEN DefaultPath ELSE s.path,
             ListSetting(s, "organizers"), ListSetting(s, "events"), ListSetting(s, "credentials"))>>

-----------------------------------------------------------------------------
(* Many endpoints, from a file.                                            *)

\* Nothing that belongs to the other mode is set.
NoModeConflict(s) == s.path = None /\ \A list \in Lists : ListSetting(s, list) = <<>>

Prefix(s) ==
  IF s.prefix # None THEN s.prefix
  ELSE IF s.file.prefix # None THEN s.file.prefix ELSE DefaultPath

\* A prefix in the file is checked even when another one takes its place.
PrefixesValid(s) ==
  ValidAbsolute(Prefix(s)) /\ (s.file.prefix = None \/ ValidAbsolute(s.file.prefix))

WebhookValid(s, webhook) ==
  /\ ValidRelative(webhook.path)
  /\ ~ContainsDuplicates(webhook.allow_organizers)
  /\ ~ContainsDuplicates(webhook.allow_events)
  /\ ~ContainsDuplicates(webhook.credential_env)
  /\ ToSet(webhook.allow_organizers) \cup ToSet(webhook.allow_events) \subseteq Slugs
  /\ \A name \in ToSet(webhook.credential_env) : s.variables[name] \in Credentials

RoutesDistinct(webhooks) == IsInjective([i \in DOMAIN webhooks |-> webhooks[i].path])

MultiAccepted(s) ==
  /\ s.file # Unreadable
  /\ NoModeConflict(s)
  /\ s.file.webhooks # <<>>
  /\ PrefixesValid(s)
  /\ \A webhook \in ToSet(s.file.webhooks) : WebhookValid(s, webhook)
  /\ RoutesDistinct(s.file.webhooks)

MultiEndpoints(s) ==
  [i \in DOMAIN s.file.webhooks |->
    LET webhook == s.file.webhooks[i]
    IN  Endpoint(Resolve(Prefix(s), webhook.path), webhook.allow_organizers, webhook.allow_events,
                 [k \in DOMAIN webhook.credential_env |-> s.variables[webhook.credential_env[k]]])]

-----------------------------------------------------------------------------

\* The endpoints that settings lead to, none when they are refused.
IntoEffective(s) ==
  IF ~(Parses(s) /\ ListsReadable(s)) THEN <<>>
  ELSE IF s.file = None
       THEN IF SimpleAccepted(s) THEN SimpleEndpoints(s) ELSE <<>>
       ELSE IF MultiAccepted(s) THEN MultiEndpoints(s) ELSE <<>>

=============================================================================
