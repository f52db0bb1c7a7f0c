---------------------------- MODULE MCCliServer ----------------------------
(* One notification, delivered twice, to servers with every combination of  *)
(* simple settings that concern a dimension and with files of up to two     *)
(* entries.                                                                 *)
EXTENDS CliServer

CONSTANTS a, b, k1, k2

bad == ""

NoLists == [list \in Lists |-> None]
NoFlags == [list \in Lists |-> <<>>]

Variables == ("v1" :> k1) @@ ("v2" :> k2) @@ ("v3" :> None) @@ ("v4" :> bad)

Plain ==
  [flags |-> NoFlags, lists |-> NoLists, path |-> None, prefix |-> None, file |-> None,
   variables |-> Variables]

\* Flags and environment of one list at a time, and of two of them.
SimpleSettings ==
  {[Plain EXCEPT !.flags["organizers"] = f, !.lists["organizers"] = e] :
     f \in {<<>>, <<a>>, <<a, a>>, <<bad>>}, e \in {None, NotUnicode, <<bad>>, <<b>>, <<a, b>>}}
  \cup {[Plain EXCEPT !.flags["events"] = f, !.lists["events"] = e, !.lists["credentials"] = c] :
     f \in {<<>>, <<b>>}, e \in {None, <<bad>>, <<a, a>>, <<a, b>>}, c \in {None, <<k1>>}}
  \cup {[Plain EXCEPT !.flags["credentials"] = f, !.lists["credentials"] = e, !.lists["organizers"] = o] :
     f \in {<<>>, <<k2>>, <<bad>>}, e \in {None, <<bad>>, <<k1>>, <<k1, bad>>, <<k1, k2>>}, o \in {None, <<a>>}}
  \cup {[Plain EXCEPT !.path = p, !.prefix = x] :
     p \in {None, Root, <<"", "p">>, <<"p">>, <<"", "p", "">>, <<"", "..">>}, x \in {None, Root}}

Entry(path, organizers, events, env) ==
  [path |-> path, allow_organizers |-> organizers, allow_events |-> events, credential_env |-> env]

Entries ==
  {Entry(<<"p">>, o, <<>>, c) : o \in {<<>>, <<a>>, <<bad>>}, c \in {<<>>, <<"v1">>, <<"v3">>, <<"v1", "v4">>}}
  \cup {Entry(p, <<>>, e, <<"v2">>) : p \in {<<"q">>, <<"p">>, <<"", "q">>}, e \in {<<b>>, <<b, b>>}}

Files ==
  [prefix : {None}, webhooks : {<<>>} \cup {<<x>> : x \in Entries}
                                 \cup {<<x, y>> : x, y \in Entries}]
  \cup [prefix : {Root, <<"", "webhook">>, <<"webhook">>}, webhooks : {<<Entry(<<"p">>, <<>>, <<>>, <<"v1">>)>>}]

FileSettings ==
  {[Plain EXCEPT !.file = f] : f \in Files \cup {Unreadable}}
  \cup {[Plain EXCEPT !.file = f, !.prefix = x, !.lists["credentials"] = c] :
     f \in {file \in Files : Len(file.webhooks) = 1}, x \in {None, Root}, c \in {None, <<k1>>, <<bad>>}}

MCSettings == SimpleSettings \cup FileSettings

MCTargets == {DefaultPath, <<"", "p">>, <<"", "webhook", "p">>, <<"", "webhook", "q">>}

MCTexts == {a, b, k1, k2, "", ".."} \cup Segments \cup DOMAIN Variables

Payload(action, fields) ==
  [action |-> action, notification_id |-> TRUE, complete |-> TRUE, fields |-> fields]

MCNotices ==
  [credential : {None, k1, k2}, size : {1},
   payload : {Payload(<<"pretix", "event", "checkin">>, [organizer |-> x, event |-> y]) :
                <<x, y>> \in {<<a, b>>, <<b, a>>}}]
  \cup
  [credential : {None}, size : {1},
   payload : {Payload(<<"pretix", "giftcards", "created">>, [issuer_slug |-> a])}]

=============================================================================
