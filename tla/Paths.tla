------------------------------- MODULE Paths -------------------------------
(***************************************************************************)
(* The paths and URLs of the client: path.rs, the base URL of client.rs.   *)
(*                                                                         *)
(* A text is a sequence of characters and words; a path on the wire is the *)
(* text of a URL's path, in which % and a code stand for a character.  A   *)
(* URL is [origin, path, query], the query a set of pairs.                 *)
(***************************************************************************)
EXTENDS Naturals, Sequences, SequencesExt, FiniteSets

Slash == "/"

\* The characters that URLs give a meaning to; of the others one is enough.
CodeOf == [c \in {"/", "\\", "%", "?", "#", "."} |->
             CASE c = "/" -> "2F" [] c = "\\" -> "5C" [] c = "%" -> "25"
               [] c = "?" -> "3F" [] c = "#" -> "23" [] c = "." -> "2E"]

\* SEGMENT: of those, the dot stays as it is.
SEGMENT == {"/", "\\", "%", "?", "#"}

\* utf8_percent_encode
Escape(c, escaped) == IF c \in escaped THEN <<"%", CodeOf[c]>> ELSE <<c>>

Encode(text, escaped) == FlattenSeq([i \in DOMAIN text |-> Escape(text[i], escaped)])

-----------------------------------------------------------------------------
(* External: the url crate.                                                *)

\* The parts of a path between its separators, with the one before the first.
Cut(parts, c, separators) ==
  IF c \in separators THEN Append(parts, <<>>) ELSE Append(Front(parts), Append(Last(parts), c))

Split(path, separators) ==
  LET parts[n \in 0 .. Len(path)] ==
        IF n = 0 THEN <<<<>>>> ELSE Cut(parts[n - 1], path[n], separators)
  IN  parts[Len(path)]

Dots == {<<".">>, <<"%", "2E">>}
DoubleDots == {first \o second : first \in Dots, second \in Dots}

\* One segment more, after which trail follows when it is dots.
Enter(done, segment, trail) ==
  CASE segment \in Dots -> done \o trail
    [] segment \in DoubleDots -> (IF done = <<>> THEN done ELSE Front(done)) \o trail
    [] OTHER -> Append(done, segment)

\* What is left of segments when dots are followed; one at the end leaves a slash.
Normalize(segments) ==
  LET done[n \in 0 .. Len(segments)] ==
        IF n = 0 THEN <<>>
        ELSE Enter(done[n - 1], segments[n], IF n = Len(segments) THEN <<<<>>>> ELSE <<>>)
  IN  done[Len(segments)]

\* Every segment behind a slash.
Join(segments) == FlattenSeq([i \in DOMAIN segments |-> <<Slash>> \o segments[i]])

\* Url::set_path
SetPath(url, path) ==
  LET segments == Normalize(Tail(Split(Encode(path, {"?", "#"}), {"/", "\\"})))
  IN  [url EXCEPT !.path = Join(segments)]

-----------------------------------------------------------------------------
(* path.rs.                                                                *)

TrimEndSlashes(path) ==
  SubSeq(path, 1, CHOOSE n \in 0 .. Len(path) :
                    /\ \A i \in n + 1 .. Len(path) : path[i] = Slash
                    /\ n > 0 => path[n] # Slash)

\* A path with a trailing slash, on the base.
JoinedUrl(base, segments) ==
  SetPath(base, TrimEndSlashes(base.path)
                  \o Join([i \in DOMAIN segments |-> Encode(segments[i], SEGMENT)])
                  \o <<Slash>>)

\* Mutation of ToUrl: nothing is known of dots.
ToUrlUnchecked(base, segments) == {JoinedUrl(base, segments)}

\* Path::to_url: a URL, or none where a segment is invalid.
ToUrl(base, segments) ==
  IF \E i \in DOMAIN segments : segments[i] \in {<<>>, <<".">>, <<".", ".">>}
  THEN {} ELSE {JoinedUrl(base, segments)}

API_ROOT == <<"/", "api", "/", "v1", "/">>

\* str::find
Occurrences(path, pattern) ==
  {i \in 1 .. Len(path) - Len(pattern) + 1 : SubSeq(path, i, i + Len(pattern) - 1) = pattern}

\* The base is that of the client.
Rebase(base, url) ==
  LET found == Occurrences(url.path, API_ROOT)
      foreign == /\ IsSuffix(API_ROOT, base.path)
                 /\ found # {}
                 /\ ~IsPrefix(base.path, url.path)
      prefix == SubSeq(base.path, 1, Len(base.path) - Len(API_ROOT))
      path == IF foreign
              THEN prefix \o SubSeq(url.path, CHOOSE i \in found : \A j \in found : i <= j,
                                    Len(url.path))
              ELSE url.path
  IN  [SetPath(base, path) EXCEPT !.query = url.query]

-----------------------------------------------------------------------------
(* client.rs.                                                              *)

\* parse_base_url, of a URL that is http(s) and has no credentials.
ParseBaseUrl(origin, path) ==
  [origin |-> origin, query |-> {},
   path |-> CASE path = <<Slash>> -> API_ROOT
              [] Last(path) # Slash -> Append(path, Slash)
              [] OTHER -> path]

=============================================================================
