----------------------------- MODULE Endpoints -----------------------------
(***************************************************************************)
(* From a method of a handle to the endpoint of pretix that executes it,   *)
(* and from there over a link of the answer back to pretix: every method   *)
(* of the API, with whatever texts as identifiers, through the paths, the  *)
(* url crate, a proxy that publishes pretix under a path of its own, and   *)
(* the routes of pretix.                                                   *)
(*                                                                         *)
(* External: the routes, which divide a path before they decode it and     *)
(* take a number for an identifier where one is expected, and the links,   *)
(* which name the origin and the path that pretix believes to have.        *)
(***************************************************************************)
EXTENDS Api, Paths

CONSTANTS
  Texts,     \* what callers pass for texts
  BasePaths  \* paths of the URLs that clients are configured with

MountPoints == {<<>>, <<Slash, "pretix">>}

ASSUME TextsAssumption == \A text \in Texts : text \in Seq(STRING)
ASSUME BasePathsAssumption ==
  \A path \in BasePaths :
    \E prefix \in MountPoints : ParseBaseUrl("configured", path).path = prefix \o API_ROOT

VARIABLES
  base,      \* the base URL of the client
  reported,  \* the prefix of the path that pretix believes to have
  called,    \* the endpoint whose method is called
  slot,      \* where its path has the text,
  text,      \* and the text; other texts are plain
  step,      \* "calling" or "refused", the request "sent", "done", its link "answered"
  outgoing,  \* the URL of the request, if there is one
  reached,   \* what pretix executes because of it, if anything
  link       \* the link that pretix answers with, if it does

call == <<base, reported, called, slot, text>>
routing == <<call, step, outgoing, reached, link>>

-----------------------------------------------------------------------------
(* Methods, and the endpoints that they are for.                           *)

Endpoint(c) == [method |-> c.method, path |-> c.path, fixed |-> c.fixed]

AllEndpoints == {Endpoint(m.call) : m \in {n \in Methods : "{link}" \notin ToSet(n.call.path)}}

SecondPage == <<"page", "2">>

\* The segments at one place of two paths are words, and not the same.
Differ(one, other) == one # other /\ {one, other} \cap {Text, Number} = {}

\* No two endpoints could be meant by the same request.
ASSUME RoutesAssumption ==
  \A e \in AllEndpoints :
    /\ e.path \in Seq(STRING) \ {<<>>}
    /\ SecondPage \notin e.fixed
    /\ \A o \in AllEndpoints \ {e} :
         \/ o.method # e.method
         \/ Len(o.path) # Len(e.path)
         \/ o.fixed # e.fixed
         \/ \E i \in DOMAIN e.path : Differ(e.path[i], o.path[i])

\* By what a request shows at a glance.
Shapes == {<<e.method, Len(e.path)>> : e \in AllEndpoints}
EndpointsOf ==
  [shape \in Shapes |-> {e \in AllEndpoints : shape = <<e.method, Len(e.path)>>}]

Plain == <<"a">>
Numeral == <<"7">>

\* The segments that a method joins to its path.
SegmentsOf(e, at, argument) ==
  [i \in DOMAIN e.path |->
     CASE e.path[i] = Text -> IF i = at THEN argument ELSE Plain
       [] e.path[i] = Number -> Numeral
       [] OTHER -> <<e.path[i]>>]

\* Texts that another endpoint has as a word of its own in the same place.
Words(e, at) ==
  {<<other.path[at]>> :
     other \in {o \in AllEndpoints : /\ Len(o.path) >= at
                                     /\ SubSeq(o.path, 1, at - 1) = SubSeq(e.path, 1, at - 1)
                                     /\ o.path[at] \notin {Text, Number}}}

TextSlots(e) == {i \in DOMAIN e.path : e.path[i] = Text}

-----------------------------------------------------------------------------
(* External: pretix and the proxy.                                         *)

CharOf == [code \in {CodeOf[c] : c \in DOMAIN CodeOf} |->
             CHOOSE c \in DOMAIN CodeOf : CodeOf[c] = code]

IsCode(segment, i) ==
  i \in DOMAIN segment \ {1} /\ segment[i - 1] = "%" /\ segment[i] \in DOMAIN CharOf

Meaning(segment, i) ==
  IF IsCode(segment, i + 1) THEN <<CharOf[segment[i + 1]]>>
  ELSE IF IsCode(segment, i) THEN <<>> ELSE <<segment[i]>>

Decode(segment) == FlattenSeq([i \in DOMAIN segment |-> Meaning(segment, i)])

\* Where a path leads within the API; every route ends in a slash.
Routed(path) ==
  LET parts == Split(SubSeq(path, Len(base.path) + 1, Len(path)), {Slash})
  IN  IF /\ IsPrefix(base.path, path)
         /\ Last(parts) = <<>>
      THEN [i \in 1 .. Len(parts) - 1 |-> Decode(parts[i])]
      ELSE <<>>

Matches(e, segments) ==
  \A i \in DOMAIN e.path :
    CASE e.path[i] = Text -> segments[i] # <<>>
      [] e.path[i] = Number -> segments[i] = Numeral
      [] OTHER -> segments[i] = <<e.path[i]>>

Execution(e, segments, query) == [endpoint |-> e, segments |-> segments, query |-> query]

\* The endpoints that answer a request with this method and URL.
Executions(method, url) ==
  LET segments == Routed(url.path)
      shape == <<method, Len(segments)>>
  IN  IF shape \notin Shapes THEN {}
      ELSE {Execution(e, segments, url.query) :
              e \in {o \in EndpointsOf[shape] : /\ Matches(o, segments)
                                                /\ o.fixed = url.query \ {SecondPage}}}

-----------------------------------------------------------------------------
RoutingInit ==
  /\ base \in {ParseBaseUrl("configured", path) : path \in BasePaths}
  /\ reported \in MountPoints
  /\ called \in AllEndpoints
  /\ slot \in TextSlots(called) \cup (IF TextSlots(called) = {} THEN {0} ELSE {})
  /\ text \in IF slot = 0 THEN {Plain} ELSE Texts \cup Words(called, slot)
  /\ step = "calling"
  /\ outgoing = {}
  /\ reached = {}
  /\ link = {}

\* Client::get and the like: request_path, query_pair.
Build ==
  /\ step = "calling"
  /\ outgoing' = {[url EXCEPT !.query = called.fixed] :
                   url \in ToUrl(base, SegmentsOf(called, slot, text))}
  /\ step' = IF outgoing' = {} THEN "refused" ELSE "sent"
  /\ UNCHANGED <<call, reached, link>>

\* External: one of the endpoints that match, or none.
Execute ==
  /\ step = "sent"
  /\ \E url \in outgoing :
       LET found == Executions(called.method, url)
       IN  reached' \in IF found = {} THEN {{}} ELSE {{execution} : execution \in found}
  /\ step' = "done"
  /\ UNCHANGED <<call, outgoing, link>>

\* External: the answer has a link to the page after this one.
AnswerLink ==
  /\ step = "done"
  /\ reached # {}
  /\ link = {}
  /\ called.method = "GET"
  /\ link' = {[origin |-> "internal", query |-> url.query \cup {SecondPage},
               path |-> reported \o API_ROOT
                          \o SubSeq(url.path, Len(base.path) + 1, Len(url.path))] :
                url \in outgoing}
  /\ step' = "answered"
  /\ UNCHANGED <<call, outgoing, reached>>

\* Client::page and others that get a link: request_absolute, resolve.
FollowLink ==
  /\ step = "answered"
  /\ outgoing' = {Rebase(base, url) : url \in link}
  /\ reached' = {}
  /\ step' = "sent"
  /\ UNCHANGED <<call, link>>

RoutingNext == Build \/ Execute \/ AnswerLink \/ FollowLink

RoutingSpec == RoutingInit /\ [][RoutingNext]_routing

-----------------------------------------------------------------------------
(* Path says that `/` inside a segment is escaped and that dot segments    *)
(* "would silently address a different resource", redeem_secret that a     *)
(* secret is never interpreted as an ID, and rebase that requests stay on  *)
(* the configured host and keep working behind proxies that report others. *)
(* So: whatever texts identify, pretix executes the endpoint whose method  *)
(* was called, for these very identifiers, or nothing is sent; a page's    *)
(* link leads to the same endpoint, through the configured URL.            *)
ReachesItsEndpoint ==
  /\ \A url \in outgoing : url.origin = base.origin
  /\ step \in {"done", "answered"} =>
       reached = {Execution(called, SegmentsOf(called, slot, text),
                            called.fixed \cup (IF step = "done" /\ link # {}
                                               THEN {SecondPage} ELSE {}))}

=============================================================================
