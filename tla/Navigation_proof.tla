------------------------- MODULE Navigation_proof -------------------------
(***************************************************************************)
(* From a call to its endpoint, and from page to page: Endpoints, for any  *)
(* texts as identifiers, and Pagination, for any URLs, links, pages and    *)
(* results.                                                                *)
(***************************************************************************)
EXTENDS Pagination, Endpoints, SequenceTheorems, WellFoundedInduction, TLAPS

-----------------------------------------------------------------------------
(* Sequences of sequences.                                                 *)

\* Induction for a property given by the set of numbers that have it.
LEMMA SetInduction ==
  ASSUME NEW S, 0 \in S, \A n \in Nat : n \in S => n + 1 \in S
  PROVE  Nat \subseteq S
<1> DEFINE T == Nat \ S
<1> SUFFICES ASSUME T # {}
             PROVE  FALSE
  OBVIOUS
<1>1. IsWellFoundedOn(OpToRel(<, Nat), Nat)
  BY NatLessThanWellFounded
<1>2. PICK m \in T : \A n \in T : ~(<<n, m>> \in OpToRel(<, Nat))
  BY <1>1, WFMin
<1>3. m \in Nat \ {0} /\ m - 1 \in Nat
  OBVIOUS
<1>4. m - 1 \in T
  BY <1>3
<1>5. <<m - 1, m>> \in OpToRel(<, Nat)
  BY <1>3 DEF OpToRel
<1> QED
  BY <1>2, <1>4, <1>5

Nested(E) == Seq(Seq(E))

\* The function that FlattenSeq(s) is the last value of.
Flattens(f, s) == f = [i \in 1..Len(s) |-> IF i = 1 THEN s[i] ELSE f[i - 1] \o s[i]]

\* How a flattening goes on from one element to the next.
LEMMA FlatteningStep ==
  ASSUME NEW E, NEW s \in Nested(E), NEW f, Flattens(f, s), NEW n \in Nat, n + 1 \in 1..Len(s)
  PROVE  f[n + 1] = IF n + 1 = 1 THEN s[n + 1] ELSE f[n] \o s[n + 1]
<1>1. \A i \in 1..Len(s) : f[i] = IF i = 1 THEN s[i] ELSE f[i - 1] \o s[i]
  BY DEF Flattens
<1>2. (n + 1) - 1 = n
  OBVIOUS
<1> QED
  BY <1>1, <1>2

\* A flattening has sequences of the same elements as values.
LEMMA FlatteningTyped ==
  ASSUME NEW E, NEW s \in Nested(E), NEW f, Flattens(f, s)
  PROVE  \A i \in 1..Len(s) : f[i] \in Seq(E)
<1> DEFINE S == {n \in Nat : n \in 1..Len(s) => f[n] \in Seq(E)}
<1>1. 0 \in S
  OBVIOUS
<1>2. ASSUME NEW n \in Nat, n \in S
      PROVE  n + 1 \in S
  <2> SUFFICES ASSUME n + 1 \in 1..Len(s)
               PROVE  f[n + 1] \in Seq(E)
    OBVIOUS
  <2>1. s[n + 1] \in Seq(E)
    BY DEF Nested
  <2>2. f[n + 1] = IF n + 1 = 1 THEN s[n + 1] ELSE f[n] \o s[n + 1]
    BY FlatteningStep
  <2>3. CASE n = 0
    BY <2>1, <2>2, <2>3
  <2>4. CASE n # 0
    <3>1. f[n] \in Seq(E)
      BY <1>2, <2>4 DEF Nested
    <3> QED
      BY <2>1, <2>2, <2>4, <3>1, ConcatProperties
  <2> QED
    BY <2>3, <2>4
<1>3. Nat \subseteq S
  BY <1>1, <1>2, SetInduction
<1> QED
  BY <1>3 DEF Nested

\* A list has only one flattening, as far as it goes,
LEMMA FlatteningUnique ==
  ASSUME NEW E, NEW s \in Nested(E), NEW f, NEW g, Flattens(f, s), Flattens(g, s)
  PROVE  \A i \in 1..Len(s) : f[i] = g[i]
<1> DEFINE S == {n \in Nat : n \in 1..Len(s) => f[n] = g[n]}
<1>1. 0 \in S
  OBVIOUS
<1>2. ASSUME NEW n \in Nat, n \in S
      PROVE  n + 1 \in S
  <2> SUFFICES ASSUME n + 1 \in 1..Len(s)
               PROVE  f[n + 1] = g[n + 1]
    OBVIOUS
  <2>1. /\ f[n + 1] = IF n + 1 = 1 THEN s[n + 1] ELSE f[n] \o s[n + 1]
        /\ g[n + 1] = IF n + 1 = 1 THEN s[n + 1] ELSE g[n] \o s[n + 1]
    BY FlatteningStep
  <2>2. n # 0 => f[n] = g[n]
    BY <1>2 DEF Nested
  <2> QED
    BY <2>1, <2>2
<1>3. Nat \subseteq S
  BY <1>1, <1>2, SetInduction
<1> QED
  BY <1>3 DEF Nested

\* A flattening of a list without its last element goes on to one of the list.
LEMMA FlatteningExtends ==
  ASSUME NEW E, NEW s \in Nested(E), NEW e \in Seq(E), NEW f, Flattens(f, s)
  PROVE  \E g : Flattens(g, Append(s, e))
<1> DEFINE t == Append(s, e)
           g == [i \in 1..Len(t) |-> IF i \in 1..Len(s) THEN f[i]
                                     ELSE IF i = 1 THEN e ELSE f[Len(s)] \o e]
<1>1. /\ Len(s) \in Nat /\ Len(t) = Len(s) + 1
      /\ \A i \in 1..Len(s) : t[i] = s[i]
      /\ t[Len(s) + 1] = e
  BY AppendProperties DEF Nested
<1>2. \A i \in 1..Len(s) : f[i] = IF i = 1 THEN s[i] ELSE f[i - 1] \o s[i]
  BY DEF Flattens
<1>3. ASSUME NEW i \in 1..Len(t)
      PROVE  g[i] = IF i = 1 THEN t[i] ELSE g[i - 1] \o t[i]
  <2>1. CASE i \in 1..Len(s)
    <3>1. i # 1 => g[i - 1] = f[i - 1]
      BY <1>1, <2>1
    <3> QED
      BY <1>1, <1>2, <2>1, <3>1
  <2>2. CASE i = Len(s) + 1
    <3>1. i # 1 => g[i - 1] = f[Len(s)]
      BY <1>1, <2>2
    <3> QED
      BY <1>1, <2>2, <3>1
  <2> QED
    BY <1>1, <2>1, <2>2
<1>4. g = [i \in 1..Len(t) |-> IF i = 1 THEN t[i] ELSE g[i - 1] \o t[i]]
  <2> HIDE DEF t
  <2>1. g = [i \in 1..Len(t) |-> g[i]]
    OBVIOUS
  <2> HIDE DEF g
  <2> QED
    BY <1>3, <2>1
<1>5. Flattens(g, t)
  BY <1>4 DEF Flattens
<1> QED
  BY <1>5

\* and it has one.
LEMMA FlatteningExists ==
  ASSUME NEW E, NEW s \in Nested(E)
  PROVE  \E f : Flattens(f, s)
<1> DEFINE S == {n \in Nat : \A t \in Nested(E) : Len(t) = n => \E f : Flattens(f, t)}
<1>1. 0 \in S
  <2> SUFFICES ASSUME NEW t \in Nested(E), Len(t) = 0
               PROVE  \E f : Flattens(f, t)
    OBVIOUS
  <2> DEFINE f == [i \in 1..Len(t) |-> <<>>]
  <2>1. f = [i \in 1..Len(t) |-> IF i = 1 THEN t[i] ELSE f[i - 1] \o t[i]]
    OBVIOUS
  <2>2. Flattens(f, t)
    BY <2>1 DEF Flattens
  <2> QED
    BY <2>2
<1>2. ASSUME NEW n \in Nat, n \in S
      PROVE  n + 1 \in S
  <2> SUFFICES ASSUME NEW t \in Nested(E), Len(t) = n + 1
               PROVE  \E f : Flattens(f, t)
    OBVIOUS
  <2>1. t \in Seq(Seq(E)) /\ t # <<>>
    BY DEF Nested
  <2>2. PICK u \in Nested(E), e \in Seq(E) : t = Append(u, e)
    BY <2>1, SequenceEmptyOrAppend DEF Nested
  <2>3. Len(u) = n
    BY <2>2, AppendProperties DEF Nested
  <2>4. PICK f : Flattens(f, u)
    BY <1>2, <2>3
  <2> QED
    BY <2>2, <2>4, FlatteningExtends
<1>3. Nat \subseteq S
  BY <1>1, <1>2, SetInduction
<1>4. Len(s) \in S
  BY <1>3 DEF Nested
<1> QED
  BY <1>4

\* FlattenSeq is the last value of whatever flattens the list.
LEMMA FlattenIs ==
  ASSUME NEW E, NEW s \in Nested(E), NEW f, Flattens(f, s)
  PROVE  FlattenSeq(s) = IF s = <<>> THEN <<>> ELSE f[Len(s)]
<1>1. CASE s = <<>>
  BY <1>1 DEF FlattenSeq
<1>2. CASE s # <<>>
  <2> DEFINE h == CHOOSE g : Flattens(g, s)
  <2>1. Len(s) \in Nat \ {0}
    BY <1>2, EmptySeq DEF Nested
  <2>2. FlattenSeq(s) = h[Len(s)]
    BY <2>1 DEF FlattenSeq, Flattens
  <2>3. Flattens(h, s)
    OBVIOUS
  <2>4. h[Len(s)] = f[Len(s)]
    <3> HIDE DEF h
    <3> QED
      BY <2>1, <2>3, FlatteningUnique
  <2> QED
    BY <1>2, <2>2, <2>4
<1> QED
  BY <1>1, <1>2

\* A flattened list has the elements of its sequences.
LEMMA FlattenTyped ==
  ASSUME NEW E, NEW s \in Nested(E)
  PROVE  FlattenSeq(s) \in Seq(E)
<1>1. PICK f : Flattens(f, s)
  BY FlatteningExists
<1>2. CASE s = <<>>
  <2>1. FlattenSeq(s) = <<>>
    BY <1>1, <1>2, FlattenIs
  <2> QED
    BY <2>1
<1>3. CASE s # <<>>
  <2>1. Len(s) \in 1..Len(s)
    BY <1>3, EmptySeq DEF Nested
  <2> QED
    BY <1>1, <1>3, <2>1, FlattenIs, FlatteningTyped
<1> QED
  BY <1>2, <1>3

\* Appending a sequence to a list appends its elements to the flattened list.
LEMMA FlattenAppend ==
  ASSUME NEW E, NEW s \in Nested(E), NEW e \in Seq(E)
  PROVE  FlattenSeq(Append(s, e)) = FlattenSeq(s) \o e
<1> DEFINE t == Append(s, e)
<1>1. /\ t \in Nested(E) /\ t # <<>>
      /\ Len(s) \in Nat /\ Len(t) = Len(s) + 1
      /\ \A i \in 1..Len(s) : t[i] = s[i]
      /\ t[Len(s) + 1] = e
  BY AppendProperties DEF Nested
<1>2. PICK f : Flattens(f, t)
  BY <1>1, FlatteningExists
<1>3. FlattenSeq(t) = f[Len(t)]
  BY <1>1, <1>2, FlattenIs
<1>4. \A i \in 1..Len(t) : f[i] = IF i = 1 THEN t[i] ELSE f[i - 1] \o t[i]
  BY <1>2 DEF Flattens
<1> DEFINE g == [i \in 1..Len(s) |-> f[i]]
<1>5. Flattens(g, s)
  <2>1. \A i \in 1..Len(s) : g[i] = IF i = 1 THEN s[i] ELSE g[i - 1] \o s[i]
    <3> HIDE DEF t
    <3> QED
      BY <1>1, <1>4
  <2>2. g = [i \in 1..Len(s) |-> g[i]]
    OBVIOUS
  <2> HIDE DEF g
  <2> QED
    BY <2>1, <2>2 DEF Flattens
<1>6. CASE s = <<>>
  <2>1. FlattenSeq(s) = <<>>
    BY <1>5, <1>6, FlattenIs
  <2>2. FlattenSeq(t) = e
    BY <1>1, <1>3, <1>4, <1>6
  <2> QED
    BY <2>1, <2>2, ConcatEmptySeq
<1>7. CASE s # <<>>
  <2>1. Len(s) \in Nat \ {0}
    BY <1>7, EmptySeq DEF Nested
  <2>2. FlattenSeq(s) = f[Len(s)]
    BY <1>5, <1>7, <2>1, FlattenIs
  <2>3. f[Len(t)] = f[Len(s)] \o e
    <3>1. f[Len(s) + 1] = IF Len(s) + 1 = 1 THEN t[Len(s) + 1] ELSE f[Len(s)] \o t[Len(s) + 1]
      <4>1. t \in Nested(E) /\ Len(s) \in Nat /\ Len(s) + 1 \in 1..Len(t)
        BY <1>1, <2>1
      <4> HIDE DEF t
      <4> QED
        BY <4>1, <1>2, FlatteningStep
    <3> QED
      BY <1>1, <2>1, <3>1
  <2> QED
    BY <1>3, <2>2, <2>3
<1> QED
  BY <1>6, <1>7

-----------------------------------------------------------------------------
(* The results of pages.                                                   *)

Fetched == [url : Urls, results : Results, next : Links \cup {None}]

LEMMA PageFetched ==
  ASSUME NEW page \in Page, NEW u \in Urls
  PROVE  [url |-> u, results |-> page.results, next |-> page.next] \in Fetched
BY DEF Page, Fetched

LEMMA ResultsTyped ==
  ASSUME NEW pages \in Seq(Fetched)
  PROVE  /\ [i \in 1..Len(pages) |-> pages[i].results] \in Nested(Int)
         /\ ResultsOf(pages) \in Seq(Int)
<1> DEFINE r == [i \in 1..Len(pages) |-> pages[i].results]
<1>1. \A i \in 1..Len(pages) : pages[i].results \in Seq(Int)
  <2> SUFFICES ASSUME NEW i \in 1..Len(pages)
               PROVE  pages[i].results \in Seq(Int)
    OBVIOUS
  <2>1. pages[i] \in Fetched
    OBVIOUS
  <2> QED
    BY <2>1, PaginationAssumption DEF Fetched
<1>2. r \in Nested(Int)
  BY <1>1 DEF Nested
<1> QED
  BY <1>2, FlattenTyped DEF ResultsOf

LEMMA ResultsOfNone == ResultsOf(<<>>) = <<>>
BY DEF ResultsOf, FlattenSeq

\* A further page adds its results at the end.
LEMMA ResultsAppend ==
  ASSUME NEW pages \in Seq(Fetched), NEW p \in Fetched
  PROVE  ResultsOf(Append(pages, p)) = ResultsOf(pages) \o p.results
<1> DEFINE all == Append(pages, p)
           r == [i \in 1..Len(pages) |-> pages[i].results]
           s == [i \in 1..Len(all) |-> all[i].results]
<1>1. r \in Nested(Int) /\ p.results \in Seq(Int)
  BY ResultsTyped, PaginationAssumption DEF Fetched
<1>2. /\ Len(pages) \in Nat /\ Len(all) = Len(pages) + 1
      /\ \A i \in 1..Len(pages) : all[i] = pages[i]
      /\ all[Len(pages) + 1] = p
  BY AppendProperties
<1>3. s = Append(r, p.results)
  BY <1>2
<1> QED
  BY <1>1, <1>3, FlattenAppend DEF ResultsOf

LEMMA FrontOfAppend ==
  ASSUME NEW S, NEW s \in Seq(S), NEW e \in S
  PROVE  Front(Append(s, e)) = s /\ Last(Append(s, e)) = e
BY AppendProperties DEF Front, Last

LEMMA ConcatThree ==
  ASSUME NEW a \in Seq(Int), NEW b \in Seq(Int), NEW c \in Seq(Int)
  PROVE  (a \o b) \o c = a \o (b \o c)
BY ConcatAssociative

\* What comes first in a concatenation is a prefix of it.
LEMMA PrefixOfConcat ==
  ASSUME NEW S, NEW s \in Seq(S), NEW t \in Seq(S)
  PROVE  IsPrefix(s, s \o t)
<1>1. /\ s \o t \in Seq(S) /\ Len(s \o t) = Len(s) + Len(t)
      /\ \A i \in 1..Len(s) : (s \o t)[i] = s[i]
      /\ Len(s) \in Nat /\ Len(t) \in Nat
  BY ConcatProperties
<1>2. SubSeq(s, 1, Len(s)) = SubSeq(s \o t, 1, Len(s))
  BY <1>1
<1> QED
  BY <1>1, <1>2 DEF IsPrefix

-----------------------------------------------------------------------------
(* The inductive invariant.                                                *)

\* Pages have URLs that have been seen, each its own; what is to be fetched
\* next is none of them.
UrlInv ==
  /\ NoUrlFetchedTwice
  /\ \A i \in 1..Len(fetched) : fetched[i].url \in seen
  /\ pc \in {"idle", "fetching"} /\ cursor # None =>
       \A i \in 1..Len(fetched) : fetched[i].url # Url(cursor)
  /\ cursor \in Links \/ pc = "fetching" => Url(cursor) \in seen

\* Where the unfolding is.
CursorInv ==
  /\ cursor = Start => fetched = <<>>
  /\ pc = "fetching" => cursor # None
  /\ pc \in {"failed", "dropped"} => cursor = None
  /\ pc \in {"idle", "ended"} /\ cursor = None =>
       fetched # <<>> /\ Following(Last(fetched)) = None
  /\ pc = "ended" => cursor = None

\* What has been received is with the caller or in the buffer.
DeliveryInv ==
  /\ pc \in {"idle", "fetching", "ended"} => delivered \o buffer = ResultsOf(fetched)
  /\ pc \in {"ended", "failed", "dropped"} => buffer = <<>>
  /\ pc = "fetching" /\ mode = "stream" => buffer = <<>>
  /\ DeliveredInOrder

\* A page that nothing follows.
IsFinal(page) == page.results = <<>> \/ page.next = None

\* After such a page nothing else is fetched.
FinalInv == \A i \in 1..Len(fetched) : IsFinal(fetched[i]) => i = Len(fetched) /\ cursor = None

IInv == TypeOK /\ UrlInv /\ CursorInv /\ DeliveryInv /\ FinalInv

LEMMA InitInv == Init => IInv
<1> SUFFICES ASSUME Init
             PROVE  IInv
  OBVIOUS
<1> USE DEF Init
<1>1. TypeOK
  BY DEF TypeOK
<1>2. UrlInv
  BY PaginationAssumption DEF UrlInv, NoUrlFetchedTwice
<1>3. CursorInv
  BY PaginationAssumption DEF CursorInv
<1>4. DeliveryInv
  BY ResultsOfNone DEF DeliveryInv, DeliveredInOrder
<1>5. FinalInv
  BY DEF FinalInv
<1> QED
  BY <1>1, <1>2, <1>3, <1>4, <1>5 DEF IInv

LEMMA StepInv == IInv /\ [Next]_vars => IInv'
<1> SUFFICES ASSUME IInv, [Next]_vars
             PROVE  IInv'
  OBVIOUS
<1> USE DEF IInv
<1>1. CASE FetchPage
  <2> USE <1>1 DEF FetchPage
  <2>1. TypeOK'
    BY PaginationAssumption DEF TypeOK
  <2>2. UrlInv'
    BY PaginationAssumption DEF UrlInv, NoUrlFetchedTwice, CursorInv, TypeOK, Url
  <2>3. CursorInv'
    BY DEF CursorInv
  <2>4. DeliveryInv'
    BY DEF DeliveryInv, DeliveredInOrder
  <2>5. FinalInv'
    BY DEF FinalInv
  <2> QED
    BY <2>1, <2>2, <2>3, <2>4, <2>5
<1>2. CASE Arrive
  <2> PICK page \in Page :
         /\ fetched' = Append(fetched, [url |-> Url(cursor), results |-> page.results,
                                        next |-> page.next])
         /\ \/ /\ Loops(page)
               /\ Abandon("failed")
               /\ UNCHANGED seen
            \/ /\ ~Loops(page)
               /\ pc' = "idle"
               /\ buffer' = buffer \o page.results
               /\ cursor' = Following(page)
               /\ seen' = IF cursor' = None THEN seen ELSE seen \cup {Resolve[page.next]}
               /\ UNCHANGED delivered
    BY <1>2 DEF Arrive
  <2> DEFINE p == [url |-> Url(cursor), results |-> page.results, next |-> page.next]
             n == Len(fetched)
  <2>1. pc = "fetching" /\ mode' = mode
    BY <1>2 DEF Arrive
  <2>2. Url(cursor) \in Urls /\ Url(cursor) \in seen
    BY <2>1, PaginationAssumption DEF TypeOK, CursorInv, UrlInv, Url
  <2>3. p \in Fetched
    BY <2>2, PageFetched
  <2>4. /\ fetched \in Seq(Fetched) /\ fetched' \in Seq(Fetched)
        /\ fetched' # <<>> /\ n \in Nat /\ Len(fetched') = n + 1
        /\ \A i \in 1..n : fetched'[i] = fetched[i]
        /\ fetched'[n + 1] = p
    BY <2>3, AppendProperties DEF TypeOK, Fetched
  <2>5. /\ Following(page) \in Links \cup {None}
        /\ Following(page) # None => Following(page) = page.next
        /\ page.results \in Seq(Int)
    BY PaginationAssumption DEF Page, Following
  <2>6. /\ ResultsOf(fetched') = ResultsOf(fetched) \o page.results
        /\ ResultsOf(fetched) \in Seq(Int)
        /\ Front(fetched') = fetched
        /\ Following(Last(fetched')) = Following(page)
    <3>1. Front(fetched') = fetched /\ Last(fetched') = p
      BY <2>3, <2>4, FrontOfAppend
    <3>2. Following(Last(fetched')) = Following(page)
      BY <3>1 DEF Following
    <3>3. fetched' = Append(fetched, p) /\ p.results = page.results
      OBVIOUS
    <3>4. ResultsOf(fetched') = ResultsOf(fetched) \o page.results
      <4> HIDE DEF p
      <4> QED
        BY <2>3, <2>4, <3>3, ResultsAppend
    <3>5. ResultsOf(fetched) \in Seq(Int)
      BY <2>4, ResultsTyped
    <3> QED
      BY <3>1, <3>2, <3>4, <3>5
  <2>7. NoUrlFetchedTwice'
    <3> SUFFICES ASSUME NEW i \in 1..n + 1, NEW j \in 1..n + 1,
                        fetched'[i].url = fetched'[j].url
                 PROVE  i = j
      BY <2>4 DEF NoUrlFetchedTwice
    <3>1. \A k \in 1..n : fetched[k].url # p.url
      BY <2>1, <2>4 DEF UrlInv, CursorInv
    <3>2. CASE i \in 1..n /\ j \in 1..n
      BY <2>4, <3>2 DEF UrlInv, NoUrlFetchedTwice
    <3>3. CASE i = n + 1 /\ j \in 1..n
      BY <2>4, <3>1, <3>3
    <3>4. CASE j = n + 1 /\ i \in 1..n
      BY <2>4, <3>1, <3>4
    <3> QED
      BY <2>4, <3>2, <3>3, <3>4
  <2>8. \A i \in 1..n + 1 : fetched'[i].url \in seen
    BY <2>2, <2>4 DEF UrlInv
  <2>9. /\ \A i \in 1..n : ~IsFinal(fetched'[i])
        /\ IsFinal(fetched'[n + 1]) <=> Following(page) = None
    <3>1. \A i \in 1..n : ~IsFinal(fetched'[i])
      BY <2>1, <2>4 DEF FinalInv, CursorInv
    <3>2. IsFinal(p) <=> Following(page) = None
      BY DEF IsFinal, Following
    <3> QED
      BY <2>4, <3>1, <3>2
  <2>10. CASE Loops(page) /\ Abandon("failed") /\ UNCHANGED seen
    <3> USE <2>10 DEF Abandon
    <3>1. TypeOK'
      BY <2>1, <2>4 DEF TypeOK, Fetched
    <3>2. UrlInv'
      BY <2>4, <2>7, <2>8, PaginationAssumption DEF UrlInv
    <3>3. CursorInv'
      BY PaginationAssumption DEF CursorInv
    <3>4. DeliveryInv'
      <4>1. delivered' = delivered /\ buffer' = <<>> /\ pc' = "failed"
        OBVIOUS
      <4>2. mode = "stream" => delivered = ResultsOf(fetched)
        BY <2>1, ConcatEmptySeq DEF DeliveryInv, TypeOK
      <4> QED
        BY <2>1, <2>6, <4>1, <4>2 DEF DeliveryInv, DeliveredInOrder
    <3>5. FinalInv'
      <4> HIDE DEF p
      <4>1. cursor' = None \/ ~IsFinal(fetched'[n + 1])
        BY DEF Abandon
      <4>2. ASSUME NEW i \in 1..n + 1, IsFinal(fetched'[i]) PROVE i = n + 1 /\ cursor' = None
        <5>1. i \notin 1..n
          BY <2>9, <4>2, Zenon
        <5>2. i = n + 1
          BY <2>4, <5>1
        <5> QED
          BY <4>1, <4>2, <5>2, Zenon
      <4> QED
        BY <2>4, <4>2 DEF FinalInv, IsFinal
    <3> QED
      BY <3>1, <3>2, <3>3, <3>4, <3>5
  <2>11. CASE /\ ~Loops(page)
              /\ pc' = "idle"
              /\ buffer' = buffer \o page.results
              /\ cursor' = Following(page)
              /\ seen' = IF cursor' = None THEN seen ELSE seen \cup {Resolve[page.next]}
              /\ UNCHANGED delivered
    <3> USE <2>11
    <3>1. buffer \in Seq(Int) /\ delivered \in Seq(Int) /\ buffer' \in Seq(Int)
      BY <2>5, ConcatProperties DEF TypeOK
    <3>2. TypeOK'
      <4>1. seen' \subseteq Urls
        BY <2>5, PaginationAssumption DEF TypeOK
      <4>2. cursor' \in Links \cup {Start, None}
        BY <2>5
      <4> QED
        BY <2>1, <2>4, <3>1, <4>1, <4>2 DEF TypeOK, Fetched
    <3>3. UrlInv'
      <4>1. cursor' # None => Url(cursor)' = Resolve[page.next] /\ Resolve[page.next] \notin seen
        BY <2>5, PaginationAssumption DEF Url, Loops
      <4>2. seen \subseteq seen' /\ (cursor' # None => Resolve[page.next] \in seen')
        OBVIOUS
      <4>3. None \notin Links
        BY PaginationAssumption
      <4> QED
        BY <2>4, <2>7, <2>8, <4>1, <4>2, <4>3 DEF UrlInv
    <3>4. CursorInv'
      BY <2>4, <2>5, <2>6, PaginationAssumption DEF CursorInv
    <3>5. DeliveryInv'
      <4>1. delivered \o buffer = ResultsOf(fetched)
        BY <2>1 DEF DeliveryInv
      <4>2. (delivered \o buffer) \o page.results = delivered \o (buffer \o page.results)
        BY <2>5, <3>1, ConcatThree
      <4> QED
        BY <2>1, <2>6, <4>1, <4>2 DEF DeliveryInv, DeliveredInOrder
    <3>6. FinalInv'
      <4> HIDE DEF p
      <4>1. cursor' = None \/ ~IsFinal(fetched'[n + 1])
        BY <2>9, Zenon
      <4>2. ASSUME NEW i \in 1..n + 1, IsFinal(fetched'[i]) PROVE i = n + 1 /\ cursor' = None
        <5>1. i \notin 1..n
          BY <2>9, <4>2, Zenon
        <5>2. i = n + 1
          BY <2>4, <5>1
        <5> QED
          BY <4>1, <4>2, <5>2, Zenon
      <4> QED
        BY <2>4, <4>2 DEF FinalInv, IsFinal
    <3> QED
      BY <3>2, <3>3, <3>4, <3>5, <3>6
  <2> QED
    BY <2>10, <2>11
<1>3. CASE Fail
  <2> USE <1>3 DEF Fail, Abandon
  <2>1. TypeOK'
    BY DEF TypeOK
  <2>2. UrlInv'
    BY PaginationAssumption DEF UrlInv, NoUrlFetchedTwice
  <2>3. CursorInv'
    BY PaginationAssumption DEF CursorInv
  <2>4. DeliveryInv'
    BY DEF DeliveryInv, DeliveredInOrder
  <2>5. FinalInv'
    BY DEF FinalInv
  <2> QED
    BY <2>1, <2>2, <2>3, <2>4, <2>5
<1>4. CASE Take
  <2> USE <1>4 DEF Take
  <2>1. /\ Head(buffer) \in Int /\ Tail(buffer) \in Seq(Int)
        /\ buffer = <<Head(buffer)>> \o Tail(buffer)
    BY HeadTailProperties, SeqEqual, ConcatProperties DEF TypeOK
  <2>2. TypeOK'
    BY <2>1 DEF TypeOK
  <2>3. UrlInv'
    BY DEF UrlInv, NoUrlFetchedTwice, Url
  <2>4. CursorInv'
    BY DEF CursorInv
  <2>5. DeliveryInv'
    <3>1. delivered' \o buffer' = delivered \o buffer
      <4>1. delivered' = delivered \o <<Head(buffer)>>
        BY <2>1, AppendIsConcat DEF TypeOK
      <4>2. (delivered \o <<Head(buffer)>>) \o Tail(buffer)
              = delivered \o (<<Head(buffer)>> \o Tail(buffer))
        <5>1. delivered \in Seq(Int) /\ <<Head(buffer)>> \in Seq(Int) /\ Tail(buffer) \in Seq(Int)
          BY <2>1 DEF TypeOK
        <5> QED
          BY <5>1, ConcatThree
      <4> QED
        BY <2>1, <4>1, <4>2
    <3> QED
      BY <3>1 DEF DeliveryInv, DeliveredInOrder
  <2>6. FinalInv'
    BY DEF FinalInv
  <2> QED
    BY <2>2, <2>3, <2>4, <2>5, <2>6
<1>5. CASE End
  <2> USE <1>5 DEF End
  <2>1. delivered' \in Seq(Int) /\ buffer' = <<>>
    BY ConcatProperties DEF TypeOK
  <2>2. TypeOK'
    BY <2>1 DEF TypeOK
  <2>3. UrlInv'
    BY PaginationAssumption DEF UrlInv, NoUrlFetchedTwice, Url
  <2>4. CursorInv'
    BY DEF CursorInv
  <2>5. DeliveryInv'
    BY <2>1, ConcatEmptySeq DEF DeliveryInv, DeliveredInOrder
  <2>6. FinalInv'
    BY DEF FinalInv
  <2> QED
    BY <2>2, <2>3, <2>4, <2>5, <2>6
<1>6. CASE Drop
  <2> USE <1>6 DEF Drop, Abandon
  <2>1. TypeOK'
    BY DEF TypeOK
  <2>2. UrlInv'
    BY PaginationAssumption DEF UrlInv, NoUrlFetchedTwice
  <2>3. CursorInv'
    BY PaginationAssumption DEF CursorInv
  <2>4. DeliveryInv'
    <3>1. IsPrefix(delivered, delivered \o buffer)
      BY ConcatProperties, PrefixOfConcat DEF TypeOK
    <3> QED
      BY <3>1 DEF DeliveryInv, DeliveredInOrder
  <2>5. FinalInv'
    BY DEF FinalInv
  <2> QED
    BY <2>1, <2>2, <2>3, <2>4, <2>5
<1>7. CASE UNCHANGED vars
  <2> USE <1>7 DEF vars
  <2>1. TypeOK'
    BY DEF TypeOK
  <2>2. UrlInv'
    BY DEF UrlInv, NoUrlFetchedTwice, Url
  <2>3. CursorInv' /\ DeliveryInv'
    BY DEF CursorInv, DeliveryInv, DeliveredInOrder
  <2>4. FinalInv'
    BY DEF FinalInv
  <2> QED
    BY <2>1, <2>2, <2>3, <2>4
<1> QED
  BY <1>1, <1>2, <1>3, <1>4, <1>5, <1>6, <1>7 DEF Next

\* The inductive invariant holds throughout.
THEOREM Invariant == Spec => []IInv
BY InitInv, StepInv, PTL DEF Spec

\* TypeOK: every behaviour keeps the types, for any pages and links.
THEOREM TypeCorrect == Spec => []TypeOK
<1>1. IInv => TypeOK
  BY DEF IInv
<1> QED
  BY <1>1, Invariant, PTL

\* NoUrlFetchedTwice: however links lead and whatever origins they name, the
\* client never requests a page again.
THEOREM UrlsFetchedOnce == Spec => []NoUrlFetchedTwice
<1>1. IInv => NoUrlFetchedTwice
  BY DEF IInv, UrlInv
<1> QED
  BY <1>1, Invariant, PTL

\* EndMeansComplete: a list that ends without an error is complete, and has been
\* followed no further than to its first page without a successor.
THEOREM EndIsComplete == Spec => []EndMeansComplete
<1>1. IInv => EndMeansComplete
  <2> SUFFICES ASSUME IInv, pc = "ended"
               PROVE  /\ fetched # <<>>
                      /\ \A i \in 1..Len(fetched) :
                           fetched[i].results = <<>> \/ fetched[i].next = None <=> i = Len(fetched)
                      /\ delivered = ResultsOf(fetched)
    BY DEF EndMeansComplete
  <2>1. delivered \o buffer = ResultsOf(fetched) /\ buffer = <<>> /\ delivered \in Seq(Int)
    BY DEF IInv, DeliveryInv, TypeOK
  <2>2. delivered = ResultsOf(fetched)
    BY <2>1, ConcatEmptySeq
  <2>3. fetched # <<>> /\ Following(Last(fetched)) = None
    BY DEF IInv, CursorInv
  <2>4. fetched[Len(fetched)].results = <<>> \/ fetched[Len(fetched)].next = None
    BY <2>3 DEF Following, Last
  <2>5. ASSUME NEW i \in 1..Len(fetched)
        PROVE  fetched[i].results = <<>> \/ fetched[i].next = None <=> i = Len(fetched)
    BY <2>4 DEF IInv, FinalInv, IsFinal
  <2> QED
    BY <2>2, <2>3, <2>5
<1> QED
  BY <1>1, Invariant, PTL

\* DeliveredInOrder: whatever the consumer has got is what the pages so far
\* contain, in their order, up to the page whose link leads back.
THEOREM ResultsInOrder == Spec => []DeliveredInOrder
<1>1. IInv => DeliveredInOrder
  BY DEF IInv, DeliveryInv
<1> QED
  BY <1>1, Invariant, PTL

-----------------------------------------------------------------------------
(* Texts.                                                                  *)

\* What texts are made of. The provers do not know that a literal is a string.
Special == DOMAIN CodeOf \cup {CodeOf[c] : c \in DOMAIN CodeOf}
Characters ==
  STRING \cup Special \cup {"7", "a", "api", "v1", "pretix"}

Strings == Seq(Characters)

\* Induction over texts, for a property given by the set of texts that have it.
LEMMA TextInduction ==
  ASSUME NEW T, NEW S, <<>> \in T, \A t \in Seq(S), c \in S : t \in T => Append(t, c) \in T
  PROVE  Seq(S) \subseteq T
<1> DEFINE N == {n \in Nat : \A t \in Seq(S) : Len(t) = n => t \in T}
<1>1. 0 \in N
  BY EmptySeq
<1>2. ASSUME NEW n \in Nat, n \in N
      PROVE  n + 1 \in N
  <2> SUFFICES ASSUME NEW t \in Seq(S), Len(t) = n + 1
               PROVE  t \in T
    OBVIOUS
  <2>1. t # <<>>
    BY EmptySeq
  <2>2. PICK u \in Seq(S), c \in S : t = Append(u, c)
    BY <2>1, SequenceEmptyOrAppend
  <2>3. Len(u) = n
    BY <2>2, AppendProperties
  <2> QED
    BY <1>2, <2>2, <2>3
<1>3. Nat \subseteq N
  BY <1>1, <1>2, SetInduction
<1> QED
  BY <1>3

-----------------------------------------------------------------------------
(* Escaping.                                                               *)

\* A text without the characters of a set.
Free(t, chars) == \A i \in 1..Len(t) : t[i] \notin chars

LEMMA FreeConcat ==
  ASSUME NEW chars, NEW t \in Strings, NEW u \in Strings, Free(t, chars), Free(u, chars)
  PROVE  Free(t \o u, chars)
BY ConcatProperties DEF Free, Strings

LEMMA FreeAppend ==
  ASSUME NEW chars, NEW t \in Strings, NEW c \in Characters
  PROVE  Free(Append(t, c), chars) <=> Free(t, chars) /\ c \notin chars
<1>1. /\ Len(Append(t, c)) = Len(t) + 1 /\ Len(t) \in Nat
      /\ \A i \in 1..Len(t) : Append(t, c)[i] = t[i]
      /\ Append(t, c)[Len(t) + 1] = c
  BY AppendProperties DEF Strings
<1> QED
  BY <1>1 DEF Free

LEMMA EscapeTyped ==
  ASSUME NEW c \in Characters, NEW chars \in SUBSET DOMAIN CodeOf
  PROVE  Escape(c, chars) \in Strings
<1>1. c \in chars => CodeOf[c] \in Characters
  BY DEF Characters, Special
<1>2. "%" \in Characters
  BY DEF Characters, Special, CodeOf
<1> QED
  BY <1>1, <1>2 DEF Escape, Strings

\* A text goes over the wire character by character.
LEMMA EncodeEmpty ==
  \A chars : Encode(<<>>, chars) = <<>>
BY DEF Encode, FlattenSeq

LEMMA EscapesTyped ==
  ASSUME NEW chars \in SUBSET DOMAIN CodeOf, NEW t \in Strings
  PROVE  [i \in DOMAIN t |-> Escape(t[i], chars)] \in Nested(Characters)
BY EscapeTyped DEF Nested, Strings

LEMMA EncodeTyped ==
  ASSUME NEW chars \in SUBSET DOMAIN CodeOf, NEW t \in Strings
  PROVE  Encode(t, chars) \in Strings
BY EscapesTyped, FlattenTyped DEF Encode, Strings

\* One character more is escaped behind the others.
LEMMA EncodeAppend ==
  ASSUME NEW chars \in SUBSET DOMAIN CodeOf, NEW t \in Strings, NEW c \in Characters
  PROVE  Encode(Append(t, c), chars) = Encode(t, chars) \o Escape(c, chars)
<1> DEFINE e == [i \in DOMAIN t |-> Escape(t[i], chars)]
           u == Append(t, c)
           f == [i \in DOMAIN u |-> Escape(u[i], chars)]
<1>1. f = Append(e, Escape(c, chars))
  <2>1. /\ Len(u) = Len(t) + 1 /\ Len(t) \in Nat
        /\ DOMAIN t = 1..Len(t) /\ DOMAIN u = 1..Len(u)
        /\ \A i \in 1..Len(t) : u[i] = t[i]
        /\ u[Len(t) + 1] = c
    BY AppendProperties, LenProperties DEF Strings
  <2> QED
    BY <2>1
<1> QED
  BY <1>1, EscapesTyped, EscapeTyped, FlattenAppend DEF Encode, Strings

LEMMA SegmentChars ==
  /\ SEGMENT \subseteq DOMAIN CodeOf
  /\ {"?", "#"} \subseteq DOMAIN CodeOf
BY DEF SEGMENT, CodeOf

\* What divides a URL and its path.
Dividers == {"/", "\\", "?", "#"}

\* An encoded text divides nothing.
LEMMA EncodedIsFree ==
  ASSUME NEW t \in Strings
  PROVE  Free(Encode(t, SEGMENT), Dividers)
<1> DEFINE T == {u \in Strings : Free(Encode(u, SEGMENT), Dividers)}
<1>1. <<>> \in T
  <2>1. Free(<<>>, Dividers)
    BY DEF Free
  <2> QED
    BY <2>1, EncodeEmpty, EmptySeq DEF Strings
<1>2. ASSUME NEW u \in Seq(Characters), NEW c \in Characters, u \in T
      PROVE  Append(u, c) \in T
  <2>1. Free(Escape(c, SEGMENT), Dividers)
    <3>1. CASE c \in SEGMENT
      <4>1. CodeOf[c] \notin Dividers /\ "%" \notin Dividers
        BY <3>1 DEF SEGMENT, CodeOf, Dividers
      <4> QED
        BY <3>1, <4>1 DEF Escape, Free
    <3>2. CASE c \notin SEGMENT
      BY <3>2 DEF Escape, Free, SEGMENT, Dividers
    <3> QED
      BY <3>1, <3>2
  <2>2. Escape(c, SEGMENT) \in Strings /\ Encode(u, SEGMENT) \in Strings
    BY EscapeTyped, EncodeTyped, SegmentChars DEF Strings
  <2>3. Free(Encode(u, SEGMENT) \o Escape(c, SEGMENT), Dividers)
    BY <1>2, <2>1, <2>2, FreeConcat
  <2>4. Append(u, c) \in Strings
    BY AppendProperties DEF Strings
  <2> QED
    BY <2>3, <2>4, EncodeAppend, SegmentChars DEF Strings
<1>3. Seq(Characters) \subseteq T
  BY <1>1, <1>2, TextInduction
<1> QED
  BY <1>3 DEF Strings

\* What is not to be escaped stays as it is.
LEMMA EncodeFree ==
  ASSUME NEW chars \in SUBSET DOMAIN CodeOf, NEW t \in Strings, Free(t, chars)
  PROVE  Encode(t, chars) = t
<1> DEFINE T == {u \in Strings : Free(u, chars) => Encode(u, chars) = u}
<1>1. <<>> \in T
  BY EncodeEmpty, EmptySeq DEF Strings
<1>2. ASSUME NEW u \in Seq(Characters), NEW c \in Characters, u \in T
      PROVE  Append(u, c) \in T
  <2>1. Append(u, c) \in Strings
    BY AppendProperties DEF Strings
  <2>2. ASSUME Free(Append(u, c), chars)
        PROVE  Encode(Append(u, c), chars) = Append(u, c)
    <3>1. Free(u, chars) /\ c \notin chars
      BY <2>2, FreeAppend DEF Strings
    <3>2. Escape(c, chars) = <<c>>
      BY <3>1 DEF Escape
    <3>3. Encode(u, chars) = u
      BY <1>2, <3>1
    <3>4. Encode(Append(u, c), chars) = Encode(u, chars) \o Escape(c, chars)
      BY EncodeAppend DEF Strings
    <3> QED
      BY <3>2, <3>3, <3>4, AppendIsConcat
  <2> QED
    BY <2>1, <2>2
<1>3. Seq(Characters) \subseteq T
  BY <1>1, <1>2, TextInduction
<1> QED
  BY <1>3 DEF Strings

-----------------------------------------------------------------------------
(* What is escaped can be read again.                                      *)

\* No two characters have the same code.
LEMMA CodesAreUnique ==
  ASSUME NEW c \in DOMAIN CodeOf
  PROVE  /\ CodeOf[c] \in DOMAIN CharOf
         /\ CharOf[CodeOf[c]] = c
         /\ CodeOf[c] # "%"
<1>1. \A d \in DOMAIN CodeOf : CodeOf[d] = CodeOf[c] => d = c
  BY DEF CodeOf
<1>2. CodeOf[c] # "%"
  BY DEF CodeOf
<1>3. \A code \in {CodeOf[d] : d \in DOMAIN CodeOf} :
        CharOf[code] = CHOOSE d \in DOMAIN CodeOf : CodeOf[d] = code
  BY DEF CharOf
<1>4. CodeOf[c] \in DOMAIN CharOf /\ DOMAIN CharOf = {CodeOf[d] : d \in DOMAIN CodeOf}
  BY DEF CharOf
<1>5. CharOf[CodeOf[c]] = CHOOSE d \in DOMAIN CodeOf : CodeOf[d] = CodeOf[c]
  BY <1>3
<1> QED
  BY <1>1, <1>2, <1>4, <1>5

LEMMA CharsTyped ==
  ASSUME NEW code \in DOMAIN CharOf
  PROVE  CharOf[code] \in Characters
<1>1. PICK c \in DOMAIN CodeOf : code = CodeOf[c]
  BY DEF CharOf
<1>2. CharOf[code] = c
  BY <1>1, CodesAreUnique
<1> QED
  BY <1>2 DEF Characters, Special

\* What Decode flattens.
Meanings(t) == [i \in DOMAIN t |-> Meaning(t, i)]

LEMMA MeaningsTyped ==
  ASSUME NEW t \in Strings
  PROVE  Meanings(t) \in Nested(Characters) /\ Len(Meanings(t)) = Len(t)
<1>1. ASSUME NEW i \in 1..Len(t)
      PROVE  Meaning(t, i) \in Seq(Characters)
  BY CharsTyped DEF Meaning, IsCode, Strings
<1>2. DOMAIN t = 1..Len(t) /\ Len(t) \in Nat
  BY DEF Strings
<1> QED
  BY <1>1, <1>2 DEF Meanings, Nested

\* A text that does not end within an escaped character.
Complete(t) == t = <<>> \/ t[Len(t)] # "%"

\* A character behind a text means itself and changes no meaning before it,
LEMMA MeaningsGo ==
  ASSUME NEW t \in Strings, NEW c \in Characters, Complete(t)
  PROVE  Meanings(Append(t, c)) = Append(Meanings(t), <<c>>)
<1> DEFINE u == Append(t, c)
           n == Len(t)
<1>1. /\ Len(u) = n + 1 /\ n \in Nat
      /\ DOMAIN t = 1..n /\ DOMAIN u = 1..(n + 1)
      /\ \A i \in 1..n : u[i] = t[i]
      /\ u[n + 1] = c
  BY AppendProperties, LenProperties DEF Strings
<1>2. n # 0 => u[n] # "%"
  <2>1. n # 0 => t # <<>> /\ n \in 1..n
    BY <1>1, EmptySeq
  <2> QED
    BY <1>1, <2>1 DEF Complete
<1> HIDE DEF u, n
<1>3. ~IsCode(u, n + 1) /\ ~IsCode(u, n + 2) /\ ~IsCode(t, n + 1)
  BY <1>1, <1>2 DEF IsCode
<1>4. \A i \in 1..n : IsCode(u, i) <=> IsCode(t, i)
  BY <1>1 DEF IsCode
<1>5. \A i \in 1..n : Meaning(u, i) = Meaning(t, i)
  <2> TAKE i \in 1..n
  <2>1. IsCode(u, i) <=> IsCode(t, i)
    BY <1>4
  <2>2. IsCode(u, i + 1) <=> IsCode(t, i + 1)
    BY <1>1, <1>3, <1>4
  <2>3. i # n => u[i + 1] = t[i + 1]
    BY <1>1
  <2>4. u[i] = t[i]
    BY <1>1
  <2>5. IsCode(u, i + 1) => i # n
    BY <1>3
  <2> QED
    BY <2>1, <2>2, <2>3, <2>4, <2>5 DEF Meaning
<1>6. Meaning(u, n + 1) = <<c>>
  BY <1>1, <1>3 DEF Meaning
<1>7. Meanings(u) = Append(Meanings(t), <<c>>)
  BY <1>1, <1>5, <1>6 DEF Meanings
<1> QED
  BY <1>7 DEF u

\* and an escaped one means the character.
LEMMA MeaningsEscape ==
  ASSUME NEW t \in Strings, NEW c \in DOMAIN CodeOf, Complete(t)
  PROVE  Meanings(t \o <<"%", CodeOf[c]>>) = Append(Append(Meanings(t), <<c>>), <<>>)
<1> DEFINE e == <<"%", CodeOf[c]>>
           u == t \o e
           n == Len(t)
<1>0. e \in Strings
  BY DEF Strings, Characters, Special, CodeOf
<1>1. /\ Len(u) = n + 2 /\ n \in Nat
      /\ DOMAIN t = 1..n /\ DOMAIN u = 1..(n + 2)
      /\ \A i \in 1..n : u[i] = t[i]
      /\ u[n + 1] = "%"
      /\ u[n + 2] = CodeOf[c]
  BY <1>0, ConcatProperties, LenProperties DEF Strings
<1>2. n # 0 => u[n] # "%"
  BY <1>1, EmptySeq DEF Complete, Strings
<1>3. CodeOf[c] \in DOMAIN CharOf /\ CharOf[CodeOf[c]] = c
  BY CodesAreUnique
<1> HIDE DEF u, n, e
<1>4. ~IsCode(u, n + 1) /\ IsCode(u, n + 2) /\ ~IsCode(u, n + 3) /\ ~IsCode(t, n + 1)
  BY <1>1, <1>2, <1>3 DEF IsCode
<1>5. \A i \in 1..n : IsCode(u, i) <=> IsCode(t, i)
  BY <1>1 DEF IsCode
<1>6. \A i \in 1..n : Meaning(u, i) = Meaning(t, i)
  <2> TAKE i \in 1..n
  <2>1. IsCode(u, i) <=> IsCode(t, i)
    BY <1>5
  <2>2. IsCode(u, i + 1) <=> IsCode(t, i + 1)
    BY <1>1, <1>4, <1>5
  <2>3. i # n => u[i + 1] = t[i + 1]
    BY <1>1
  <2>4. u[i] = t[i]
    BY <1>1
  <2>5. IsCode(u, i + 1) => i # n
    BY <1>4
  <2> QED
    BY <2>1, <2>2, <2>3, <2>4, <2>5 DEF Meaning
<1>7. Meaning(u, n + 1) = <<c>> /\ Meaning(u, n + 2) = <<>>
  BY <1>1, <1>3, <1>4 DEF Meaning
<1>8. Meanings(u) = Append(Append(Meanings(t), <<c>>), <<>>)
  <2> DEFINE m == Meanings(t)
  <2>1. DOMAIN m = 1..n /\ Len(m) = n /\ \A i \in 1..n : m[i] = Meaning(u, i)
    BY <1>1, <1>6, MeaningsTyped DEF Meanings, n
  <2>2. m \in Nested(Characters)
    BY MeaningsTyped
  <2> DEFINE v == Append(m, <<c>>)
             w == Append(v, <<>>)
  <2>3. c \in Characters
    BY DEF Characters, Special
  <2>4. <<c>> \in Seq(Characters) /\ <<>> \in Seq(Characters)
    BY <2>3
  <2>5. /\ v \in Nested(Characters)
        /\ Len(v) = n + 1 /\ (\A i \in 1..n : v[i] = m[i]) /\ v[n + 1] = <<c>>
    <3> HIDE DEF m
    <3> QED
      BY <2>1, <2>2, <2>4, AppendProperties DEF Nested
  <2>6. /\ w \in Nested(Characters) /\ DOMAIN w = 1..Len(w)
        /\ Len(w) = n + 2 /\ (\A i \in 1..(n + 1) : w[i] = v[i]) /\ w[n + 2] = <<>>
    <3> HIDE DEF v
    <3> QED
      BY <1>1, <2>4, <2>5, AppendProperties, LenProperties DEF Nested
  <2>7. Meanings(u) = [i \in 1..(n + 2) |-> Meaning(u, i)]
    BY <1>1 DEF Meanings
  <2>8. \A i \in 1..(n + 2) : w[i] = Meaning(u, i)
    <3> HIDE DEF w, v, m
    <3> QED
      BY <1>1, <1>7, <2>1, <2>5, <2>6
  <2>9. w = [i \in 1..(n + 2) |-> w[i]]
    <3> HIDE DEF w
    <3> QED
      BY <2>6 DEF Nested
  <2>10. w = Meanings(u)
    <3> HIDE DEF w
    <3> QED
      BY <2>7, <2>8, <2>9
  <2> QED
    BY <2>10
<1> QED
  BY <1>8 DEF u, e

LEMMA DecodeTyped ==
  ASSUME NEW t \in Strings
  PROVE  Decode(t) \in Strings
BY MeaningsTyped, FlattenTyped DEF Decode, Meanings, Strings

LEMMA DecodeEmpty == Decode(<<>>) = <<>>
BY DEF Decode, FlattenSeq

\* A character that needs no escape is decoded to itself,
LEMMA DecodeGoes ==
  ASSUME NEW t \in Strings, NEW c \in Characters, Complete(t)
  PROVE  Decode(Append(t, c)) = Append(Decode(t), c)
<1>1. Decode(Append(t, c)) = FlattenSeq(Append(Meanings(t), <<c>>))
  BY MeaningsGo DEF Decode, Meanings
<1>2. FlattenSeq(Append(Meanings(t), <<c>>)) = FlattenSeq(Meanings(t)) \o <<c>>
  <2>1. <<c>> \in Seq(Characters)
    OBVIOUS
  <2> QED
    BY <2>1, MeaningsTyped, FlattenAppend
<1>3. FlattenSeq(Meanings(t)) = Decode(t)
  BY DEF Decode, Meanings
<1> QED
  BY <1>1, <1>2, <1>3, DecodeTyped, AppendIsConcat DEF Strings

\* and an escaped one to what it was.
LEMMA DecodeEscape ==
  ASSUME NEW t \in Strings, NEW c \in DOMAIN CodeOf, Complete(t)
  PROVE  Decode(t \o <<"%", CodeOf[c]>>) = Append(Decode(t), c)
<1> DEFINE m == Meanings(t)
<1>1. Decode(t \o <<"%", CodeOf[c]>>) = FlattenSeq(Append(Append(m, <<c>>), <<>>))
  BY MeaningsEscape DEF Decode, Meanings
<1>2. c \in Characters
  BY DEF Characters, Special
<1>3. m \in Nested(Characters) /\ <<c>> \in Seq(Characters) /\ <<>> \in Seq(Characters)
  BY <1>2, MeaningsTyped
<1>4. Append(m, <<c>>) \in Nested(Characters)
  BY <1>3, AppendProperties DEF Nested
<1>5. FlattenSeq(m) = Decode(t)
  BY DEF Decode, Meanings
<1> HIDE DEF m
<1>6. FlattenSeq(Append(m, <<c>>)) = Decode(t) \o <<c>>
  BY <1>3, <1>5, FlattenAppend
<1>7. FlattenSeq(Append(Append(m, <<c>>), <<>>)) = (Decode(t) \o <<c>>) \o <<>>
  BY <1>3, <1>4, <1>6, FlattenAppend
<1>8. Decode(t) \o <<c>> = Append(Decode(t), c) /\ Append(Decode(t), c) \in Strings
  BY <1>2, DecodeTyped, AppendIsConcat, AppendProperties DEF Strings
<1> QED
  BY <1>1, <1>7, <1>8, ConcatEmptySeq DEF Strings

\* The identifier of a request is the one that its method was given.
LEMMA DecodeEncode ==
  ASSUME NEW t \in Strings
  PROVE  Decode(Encode(t, SEGMENT)) = t
<1> DEFINE T == {u \in Strings : /\ Complete(Encode(u, SEGMENT))
                                 /\ Decode(Encode(u, SEGMENT)) = u}
<1>1. <<>> \in T
  BY EncodeEmpty, DecodeEmpty, EmptySeq DEF Complete, Strings
<1>2. ASSUME NEW u \in Seq(Characters), NEW c \in Characters, u \in T
      PROVE  Append(u, c) \in T
  <2> DEFINE e == Encode(u, SEGMENT)
             f == Encode(Append(u, c), SEGMENT)
  <2>1. u \in Strings /\ Append(u, c) \in Strings
    BY AppendProperties DEF Strings
  <2>2. e \in Strings /\ Complete(e) /\ Decode(e) = u
    BY <1>2, <2>1, EncodeTyped, SegmentChars
  <2>3. f = e \o Escape(c, SEGMENT)
    BY <2>1, EncodeAppend, SegmentChars
  <2> HIDE DEF e, f
  <2>4. CASE c \in SEGMENT
    <3>1. c \in DOMAIN CodeOf
      BY <2>4, SegmentChars
    <3>2. f = e \o <<"%", CodeOf[c]>>
      BY <2>3, <2>4 DEF Escape
    <3>3. Decode(f) = Append(u, c)
      BY <2>2, <3>1, <3>2, DecodeEscape
    <3>4. Complete(f)
      <4>1. <<"%", CodeOf[c]>> \in Strings
        BY <3>1 DEF Strings, Characters, Special, CodeOf
      <4>2. Len(f) = Len(e) + 2 /\ f[Len(e) + 2] = CodeOf[c]
        BY <2>2, <3>2, <4>1, ConcatProperties DEF Strings
      <4> QED
        BY <3>1, <4>2, CodesAreUnique DEF Complete
    <3> QED
      BY <2>1, <3>3, <3>4 DEF f
  <2>5. CASE c \notin SEGMENT
    <3>1. f = Append(e, c)
      BY <2>2, <2>3, <2>5, AppendIsConcat DEF Escape, Strings
    <3>2. Decode(f) = Append(u, c)
      BY <2>2, <3>1, DecodeGoes
    <3>3. Complete(f)
      <4>1. Len(f) = Len(e) + 1 /\ f[Len(e) + 1] = c
        BY <2>2, <3>1, AppendProperties DEF Strings
      <4>2. c # "%"
        BY <2>5 DEF SEGMENT
      <4> QED
        BY <4>1, <4>2 DEF Complete
    <3> QED
      BY <2>1, <3>2, <3>3 DEF f
  <2> QED
    BY <2>4, <2>5
<1>3. Seq(Characters) \subseteq T
  BY <1>1, <1>2, TextInduction
<1> QED
  BY <1>3 DEF Strings

\* Texts of one and two characters, by their elements.
LEMMA ShortSequences ==
  ASSUME NEW S, NEW c \in S
  PROVE  /\ Append(<<>>, c) = <<c>>
         /\ \A d \in S : Append(<<c>>, d) = <<c, d>>
<1>1. Append(<<>>, c) = <<c>>
  BY EmptySeq, AppendProperties, SeqEqual
<1>2. ASSUME NEW d \in S
      PROVE  Append(<<c>>, d) = <<c, d>>
  <2>1. <<c>> \in Seq(S) /\ <<c, d>> \in Seq(S)
    OBVIOUS
  <2>2. /\ Append(<<c>>, d) \in Seq(S)
        /\ Len(Append(<<c>>, d)) = 2
        /\ \A i \in 1..1 : Append(<<c>>, d)[i] = <<c>>[i]
        /\ Append(<<c>>, d)[2] = d
    BY <2>1, AppendProperties
  <2> DEFINE a == Append(<<c>>, d)
             b == <<c, d>>
  <2>3. Len(b) = 2 /\ b[1] = c /\ b[2] = d /\ <<c>>[1] = c
    OBVIOUS
  <2>4. Len(a) = Len(b) /\ \A i \in 1..Len(a) : a[i] = b[i]
    <3> HIDE DEF b
    <3> QED
      BY <2>2, <2>3
  <2> HIDE DEF a, b
  <2>5. a \in Seq(S) /\ b \in Seq(S)
    BY <2>1, <2>2 DEF a, b
  <2>6. a = b
    BY <2>4, <2>5, SeqEqual
  <2> QED
    BY <2>6 DEF a, b
<1> QED
  BY <1>1, <1>2

\* What dots read as, escaped or not.
LEMMA DotsRead ==
  /\ \A d \in Dots : d \in Strings /\ Decode(d) = <<".">>
  /\ \A d \in DoubleDots : d \in Strings /\ Decode(d) = <<".", ".">>
<1>1. /\ "." \in DOMAIN CodeOf /\ CodeOf["."] = "2E" /\ "." \in Characters
  BY DEF CodeOf, Characters, Special
<1>2. <<>> \in Strings /\ Complete(<<>>)
  BY DEF Strings, Complete
<1>3. \A t \in Strings : Complete(t) => /\ Decode(Append(t, ".")) = Append(Decode(t), ".")
                                        /\ Decode(t \o <<"%", "2E">>) = Append(Decode(t), ".")
  BY <1>1, DecodeGoes, DecodeEscape
<1>4. ASSUME NEW d \in Dots
      PROVE  d \in Strings /\ Complete(d) /\ Decode(d) = <<".">>
  <2>1. CASE d = <<".">>
    <3>1. d = Append(<<>>, ".")
      BY <1>1, <2>1, ShortSequences
    <3>2. Decode(d) = Append(Decode(<<>>), ".")
      BY <1>2, <1>3, <3>1
    <3>3. d \in Strings
      BY <1>1, <2>1 DEF Strings
    <3>4. Complete(d)
      BY <2>1 DEF Complete
    <3> QED
      BY <1>1, <3>2, <3>3, <3>4, DecodeEmpty, ShortSequences
  <2>2. CASE d = <<"%", "2E">>
    <3>1. d = <<>> \o <<"%", "2E">>
      BY <2>2
    <3>2. d \in Strings
      BY <2>2 DEF Strings, Characters, Special, CodeOf
    <3>3. Complete(d)
      BY <2>2 DEF Complete
    <3>4. Decode(d) = Append(Decode(<<>>), ".")
      BY <1>2, <1>3, <3>1
    <3> QED
      BY <1>1, <3>2, <3>3, <3>4, DecodeEmpty, ShortSequences
  <2> QED
    BY <2>1, <2>2 DEF Dots
<1>5. ASSUME NEW d \in DoubleDots
      PROVE  d \in Strings /\ Decode(d) = <<".", ".">>
  <2>1. PICK first \in Dots, second \in Dots : d = first \o second
    BY DEF DoubleDots
  <2>2. first \in Strings /\ Complete(first) /\ Decode(first) = <<".">> /\ second \in Strings
    BY <1>4
  <2>3. d \in Strings
    BY <2>1, <2>2, ConcatProperties DEF Strings
  <2>4. Decode(d) = Append(Decode(first), ".")
    <3>1. CASE second = <<".">>
      <4>1. d = Append(first, ".")
        BY <1>1, <2>1, <2>2, <3>1, AppendIsConcat DEF Strings
      <4> QED
        BY <1>3, <2>2, <4>1
    <3>2. CASE second = <<"%", "2E">>
      BY <1>3, <2>1, <2>2, <3>2
    <3> QED
      BY <3>1, <3>2 DEF Dots
  <2>5. Append(<<".">>, ".") = <<".", ".">>
    BY <1>1, ShortSequences
  <2> QED
    BY <2>2, <2>3, <2>4, <2>5
<1> QED
  BY <1>4, <1>5

\* An encoded text is dots only when the text is.
LEMMA EncodedIsNoDots ==
  ASSUME NEW t \in Strings, t \notin {<<".">>, <<".", ".">>}
  PROVE  Encode(t, SEGMENT) \notin Dots \cup DoubleDots
BY DecodeEncode, DotsRead

-----------------------------------------------------------------------------
(* Paths are joined from segments, and divided into them.                  *)

LEMMA FrontAndLast ==
  ASSUME NEW S, NEW s \in Seq(S)
  PROVE  /\ \A e \in S : Front(Append(s, e)) = s /\ Last(Append(s, e)) = e
         /\ s # <<>> => Front(s) \in Seq(S) /\ Last(s) \in S /\ s = Append(Front(s), Last(s))
<1>1. ASSUME NEW t \in Seq(S), NEW e \in S
      PROVE  Front(Append(t, e)) = t /\ Last(Append(t, e)) = e
  BY AppendProperties DEF Front, Last
<1>2. ASSUME s # <<>>
      PROVE  Front(s) \in Seq(S) /\ Last(s) \in S /\ s = Append(Front(s), Last(s))
  <2>1. PICK t \in Seq(S), e \in S : s = Append(t, e)
    BY <1>2, SequenceEmptyOrAppend
  <2> QED
    BY <1>1, <2>1
<1> QED
  BY <1>1, <1>2

LEMMA AppendToConcat ==
  ASSUME NEW S, NEW s \in Seq(S), NEW t \in Seq(S), NEW e \in S
  PROVE  s \o Append(t, e) = Append(s \o t, e)
<1>1. /\ <<e>> \in Seq(S) /\ s \o t \in Seq(S)
      /\ Append(t, e) = t \o <<e>>
      /\ Append(s \o t, e) = (s \o t) \o <<e>>
  BY AppendIsConcat, ConcatProperties
<1> QED
  BY <1>1, ConcatAssociative

LEMMA ConcatStrings ==
  ASSUME NEW t \in Strings, NEW u \in Strings
  PROVE  /\ t \o u \in Strings
         /\ \A v \in Strings : (t \o u) \o v = t \o (u \o v)
<1>1. t \o u \in Seq(Characters)
  BY ConcatProperties DEF Strings
<1>2. ASSUME NEW v \in Seq(Characters)
      PROVE  (t \o u) \o v = t \o (u \o v)
  BY ConcatAssociative DEF Strings
<1> QED
  BY <1>1, <1>2 DEF Strings

LEMMA SlashTyped == Slash \in Characters /\ <<Slash>> \in Strings
BY DEF Slash, Characters, Special, CodeOf, Strings

LEMMA JoinEmpty == Join(<<>>) = <<>>
BY DEF Join, FlattenSeq

\* A further segment stands behind a slash.
LEMMA JoinAppend ==
  ASSUME NEW q \in Seq(Strings), NEW s \in Strings
  PROVE  /\ Join(q) \in Strings
         /\ Join(Append(q, s)) = Join(q) \o (<<Slash>> \o s)
<1> DEFINE e == [i \in DOMAIN q |-> <<Slash>> \o q[i]]
           u == Append(q, s)
           f == [i \in DOMAIN u |-> <<Slash>> \o u[i]]
<1>1. \A t \in Strings : <<Slash>> \o t \in Strings
  BY SlashTyped, ConcatProperties DEF Strings
<1>2. e \in Nested(Characters)
  <2>1. \A i \in 1..Len(q) : q[i] \in Strings
    BY ElementOfSeq
  <2>2. DOMAIN q = 1..Len(q) /\ Len(q) \in Nat
    BY LenProperties
  <2> QED
    BY <1>1, <2>1, <2>2 DEF Nested, Strings
<1>3. f = Append(e, <<Slash>> \o s)
  <2>1. /\ Len(u) = Len(q) + 1 /\ Len(q) \in Nat
        /\ DOMAIN q = 1..Len(q) /\ DOMAIN u = 1..Len(u)
        /\ \A i \in 1..Len(q) : u[i] = q[i]
        /\ u[Len(q) + 1] = s
    BY AppendProperties, LenProperties
  <2> QED
    BY <2>1
<1>4. FlattenSeq(Append(e, <<Slash>> \o s)) = FlattenSeq(e) \o (<<Slash>> \o s)
  <2> HIDE DEF e
  <2> QED
    BY <1>1, <1>2, FlattenAppend DEF Strings
<1>5. FlattenSeq(e) \in Strings
  <2> HIDE DEF e
  <2> QED
    BY <1>2, FlattenTyped DEF Strings
<1> QED
  BY <1>3, <1>4, <1>5 DEF Join

LEMMA JoinTyped ==
  ASSUME NEW q \in Seq(Strings)
  PROVE  Join(q) \in Strings
<1>1. <<>> \in Strings
  BY DEF Strings
<1> QED
  BY <1>1, JoinAppend

\* Joined segments one after the other are the joined concatenation.
LEMMA JoinConcat ==
  ASSUME NEW p \in Seq(Strings), NEW q \in Seq(Strings)
  PROVE  Join(p \o q) = Join(p) \o Join(q)
<1> DEFINE T == {r \in Seq(Strings) : Join(p \o r) = Join(p) \o Join(r)}
<1>1. <<>> \in T
  BY JoinEmpty, JoinTyped, EmptySeq, ConcatEmptySeq DEF Strings
<1>2. ASSUME NEW r \in Seq(Strings), NEW s \in Strings, r \in T
      PROVE  Append(r, s) \in T
  <2> DEFINE e == <<Slash>> \o s
  <2>1. e \in Strings
    BY SlashTyped, ConcatProperties DEF Strings
  <2>2. p \o r \in Seq(Strings) /\ Append(r, s) \in Seq(Strings)
    BY ConcatProperties, AppendProperties
  <2>3. Join(p \o Append(r, s)) = Join(p \o r) \o e
    <3>1. p \o Append(r, s) = Append(p \o r, s)
      BY AppendToConcat
    <3> QED
      BY <2>2, <3>1, JoinAppend
  <2>4. Join(Append(r, s)) = Join(r) \o e
    BY JoinAppend
  <2>5. Join(p) \in Strings /\ Join(r) \in Strings
    BY JoinTyped
  <2>6. (Join(p) \o Join(r)) \o e = Join(p) \o (Join(r) \o e)
    <3> HIDE DEF e, T
    <3>1. \A v \in Strings : (Join(p) \o Join(r)) \o v = Join(p) \o (Join(r) \o v)
      BY <2>5, ConcatStrings
    <3> QED
      BY <2>1, <3>1
  <2> QED
    BY <1>2, <2>2, <2>3, <2>4, <2>6
<1>3. Seq(Strings) \subseteq T
  BY <1>1, <1>2, TextInduction
<1> QED
  BY <1>3

\* Segments that are all without some characters.
AllFree(q, chars) == \A i \in 1..Len(q) : Free(q[i], chars)

LEMMA AllFreeAppend ==
  ASSUME NEW chars, NEW q \in Seq(Strings), NEW s \in Strings
  PROVE  AllFree(Append(q, s), chars) <=> AllFree(q, chars) /\ Free(s, chars)
<1>1. /\ Len(Append(q, s)) = Len(q) + 1 /\ Len(q) \in Nat
      /\ \A i \in 1..Len(q) : Append(q, s)[i] = q[i]
      /\ Append(q, s)[Len(q) + 1] = s
  BY AppendProperties
<1> QED
  BY <1>1 DEF AllFree

\* A path joined from segments without some characters has none of them either.
LEMMA JoinFree ==
  ASSUME NEW chars, Slash \notin chars, NEW q \in Seq(Strings), AllFree(q, chars)
  PROVE  Free(Join(q), chars)
<1> DEFINE T == {r \in Seq(Strings) : AllFree(r, chars) => Free(Join(r), chars)}
<1>1. <<>> \in T
  BY JoinEmpty, EmptySeq DEF Free
<1>2. ASSUME NEW r \in Seq(Strings), NEW s \in Strings, r \in T
      PROVE  Append(r, s) \in T
  <2> SUFFICES ASSUME AllFree(Append(r, s), chars)
               PROVE  Free(Join(Append(r, s)), chars)
    BY AppendProperties
  <2>1. AllFree(r, chars) /\ Free(s, chars)
    BY AllFreeAppend
  <2>2. Free(<<Slash>>, chars)
    BY DEF Free
  <2>3. Free(<<Slash>> \o s, chars) /\ <<Slash>> \o s \in Strings
    BY <2>1, <2>2, SlashTyped, FreeConcat, ConcatProperties DEF Strings
  <2>4. Free(Join(r), chars) /\ Join(r) \in Strings
    BY <1>2, <2>1, JoinTyped
  <2> QED
    BY <2>3, <2>4, FreeConcat, JoinAppend
<1>3. Seq(Strings) \subseteq T
  BY <1>1, <1>2, TextInduction
<1> QED
  BY <1>3

\* The function that Split(p, chars) is the last value of.
Splits(f, p, chars) ==
  f = [n \in 0..Len(p) |-> IF n = 0 THEN <<<<>>>> ELSE Cut(f[n - 1], p[n], chars)]

\* A path is divided in one way only,
LEMMA SplitsUnique ==
  ASSUME NEW chars, NEW p \in Strings, NEW f, NEW g, Splits(f, p, chars), Splits(g, p, chars)
  PROVE  \A n \in 0..Len(p) : f[n] = g[n]
<1> DEFINE S == {n \in Nat : n \in 0..Len(p) => f[n] = g[n]}
<1>1. Len(p) \in Nat
  BY DEF Strings
<1>2. \A n \in 0..Len(p) :
        /\ f[n] = IF n = 0 THEN <<<<>>>> ELSE Cut(f[n - 1], p[n], chars)
        /\ g[n] = IF n = 0 THEN <<<<>>>> ELSE Cut(g[n - 1], p[n], chars)
  BY <1>1 DEF Splits
<1>3. 0 \in S
  BY <1>1, <1>2
<1>4. ASSUME NEW n \in Nat, n \in S
      PROVE  n + 1 \in S
  <2> SUFFICES ASSUME n + 1 \in 0..Len(p)
               PROVE  f[n + 1] = g[n + 1]
    OBVIOUS
  <2>1. (n + 1) - 1 = n /\ n \in 0..Len(p) /\ n + 1 # 0
    BY <1>1
  <2>2. f[n] = g[n]
    BY <1>4, <2>1
  <2> QED
    BY <1>2, <2>1, <2>2
<1>5. Nat \subseteq S
  BY <1>3, <1>4, SetInduction
<1> QED
  BY <1>1, <1>5

\* which goes on when the path does,
LEMMA SplitsExtend ==
  ASSUME NEW chars, NEW p \in Strings, NEW c \in Characters, NEW f, Splits(f, p, chars)
  PROVE  \E g : Splits(g, Append(p, c), chars)
<1> DEFINE u == Append(p, c)
           g == [n \in 0..Len(u) |-> IF n \in 0..Len(p) THEN f[n] ELSE Cut(f[Len(p)], c, chars)]
<1>1. /\ Len(p) \in Nat /\ Len(u) = Len(p) + 1
      /\ \A i \in 1..Len(p) : u[i] = p[i]
      /\ u[Len(p) + 1] = c
  BY AppendProperties DEF Strings
<1>2. \A n \in 0..Len(p) : f[n] = IF n = 0 THEN <<<<>>>> ELSE Cut(f[n - 1], p[n], chars)
  BY DEF Splits
<1> HIDE DEF u
<1>3. ASSUME NEW n \in 0..Len(u)
      PROVE  g[n] = IF n = 0 THEN <<<<>>>> ELSE Cut(g[n - 1], u[n], chars)
  <2>1. CASE n \in 0..Len(p)
    <3>1. n # 0 => g[n - 1] = f[n - 1] /\ u[n] = p[n]
      BY <1>1, <2>1
    <3> QED
      BY <1>1, <1>2, <2>1, <3>1
  <2>2. CASE n = Len(p) + 1
    <3>1. n # 0 /\ n \notin 0..Len(p) /\ n - 1 = Len(p) /\ n - 1 \in 0..Len(p) /\ n - 1 \in 0..Len(u)
      BY <1>1, <2>2
    <3>2. g[n - 1] = f[Len(p)]
      BY <3>1
    <3>3. g[n] = Cut(f[Len(p)], c, chars)
      BY <3>1
    <3> QED
      BY <1>1, <2>2, <3>1, <3>2, <3>3
  <2> QED
    BY <1>1, <2>1, <2>2
<1>4. g = [n \in 0..Len(u) |-> g[n]]
  OBVIOUS
<1>5. Splits(g, u, chars)
  <2> HIDE DEF g
  <2> QED
    BY <1>3, <1>4 DEF Splits
<1> QED
  BY <1>5 DEF u

\* and every path is.
LEMMA SplitsExist ==
  ASSUME NEW chars, NEW p \in Strings
  PROVE  \E f : Splits(f, p, chars)
<1> DEFINE T == {r \in Strings : \E f : Splits(f, r, chars)}
<1>1. <<>> \in T
  <2> DEFINE f == [n \in 0..Len(<<>>) |-> <<<<>>>>]
  <2>1. f = [n \in 0..Len(<<>>) |-> IF n = 0 THEN <<<<>>>> ELSE Cut(f[n - 1], <<>>[n], chars)]
    OBVIOUS
  <2>2. Splits(f, <<>>, chars)
    BY <2>1 DEF Splits
  <2> QED
    BY <2>2, EmptySeq DEF Strings
<1>2. ASSUME NEW r \in Seq(Characters), NEW c \in Characters, r \in T
      PROVE  Append(r, c) \in T
  <2>1. PICK f : Splits(f, r, chars)
    BY <1>2
  <2>2. \E g : Splits(g, Append(r, c), chars)
    BY <2>1, SplitsExtend DEF Strings
  <2> QED
    BY <2>2, AppendProperties DEF Strings
<1>3. Seq(Characters) \subseteq T
  BY <1>1, <1>2, TextInduction
<1> QED
  BY <1>3 DEF Strings

\* Split is the last value of whatever divides the path.
LEMMA SplitIs ==
  ASSUME NEW chars, NEW p \in Strings, NEW f, Splits(f, p, chars)
  PROVE  Split(p, chars) = f[Len(p)]
<1> DEFINE h == CHOOSE g : Splits(g, p, chars)
<1>1. Split(p, chars) = h[Len(p)]
  BY DEF Split, Splits
<1>2. Splits(h, p, chars)
  OBVIOUS
<1>3. Len(p) \in 0..Len(p)
  BY DEF Strings
<1> HIDE DEF h
<1> QED
  BY <1>1, <1>2, <1>3, SplitsUnique

\* A path is divided character by character.
LEMMA SplitAppend ==
  ASSUME NEW chars, NEW p \in Strings, NEW c \in Characters
  PROVE  Split(Append(p, c), chars) = Cut(Split(p, chars), c, chars)
<1> DEFINE u == Append(p, c)
<1>1. /\ Len(p) \in Nat /\ Len(u) = Len(p) + 1
      /\ \A i \in 1..Len(p) : u[i] = p[i]
      /\ u[Len(p) + 1] = c
      /\ u \in Strings
  BY AppendProperties DEF Strings
<1> HIDE DEF u
<1>2. PICK h : Splits(h, u, chars)
  BY <1>1, SplitsExist
<1> DEFINE g == [n \in 0..Len(p) |-> h[n]]
<1>3. \A n \in 0..Len(u) : h[n] = IF n = 0 THEN <<<<>>>> ELSE Cut(h[n - 1], u[n], chars)
  BY <1>2 DEF Splits
<1>4. \A n \in 0..Len(p) : g[n] = IF n = 0 THEN <<<<>>>> ELSE Cut(g[n - 1], p[n], chars)
  <2> TAKE n \in 0..Len(p)
  <2>1. n \in 0..Len(u) /\ (n # 0 => n - 1 \in 0..Len(p) /\ u[n] = p[n])
    BY <1>1
  <2> QED
    BY <1>3, <2>1
<1>5. g = [n \in 0..Len(p) |-> g[n]]
  OBVIOUS
<1>6. Splits(g, p, chars)
  <2> HIDE DEF g
  <2> QED
    BY <1>4, <1>5 DEF Splits
<1>7. Split(p, chars) = h[Len(p)]
  <2>1. Split(p, chars) = g[Len(p)]
    <3> HIDE DEF g
    <3> QED
      BY <1>6, SplitIs
  <2> QED
    BY <1>1, <2>1
<1>8. Split(u, chars) = h[Len(p) + 1]
  BY <1>1, <1>2, SplitIs
<1>9. h[Len(p) + 1] = Cut(h[Len(p)], c, chars)
  <2>1. Len(p) + 1 \in 0..Len(u) /\ Len(p) + 1 # 0 /\ (Len(p) + 1) - 1 = Len(p)
    BY <1>1
  <2> QED
    BY <1>1, <1>3, <2>1
<1> QED
  BY <1>7, <1>8, <1>9 DEF u

LEMMA SplitEmpty ==
  ASSUME NEW chars
  PROVE  Split(<<>>, chars) = <<<<>>>>
<1>1. <<>> \in Strings /\ Len(<<>>) = 0
  BY EmptySeq DEF Strings
<1>2. PICK f : Splits(f, <<>>, chars)
  BY <1>1, SplitsExist
<1>3. f[0] = <<<<>>>>
  BY <1>1, <1>2 DEF Splits
<1> QED
  BY <1>1, <1>2, <1>3, SplitIs

LEMMA SplitTyped ==
  ASSUME NEW chars, NEW p \in Strings
  PROVE  Split(p, chars) \in Seq(Strings) \ {<<>>}
<1> DEFINE T == {r \in Strings : Split(r, chars) \in Seq(Strings) \ {<<>>}}
<1>1. <<>> \in T
  <2>1. <<>> \in Strings
    BY DEF Strings
  <2>2. <<<<>>>> \in Seq(Strings) \ {<<>>}
    BY <2>1
  <2> QED
    BY <2>1, <2>2, SplitEmpty
<1>2. ASSUME NEW r \in Seq(Characters), NEW c \in Characters, r \in T
      PROVE  Append(r, c) \in T
  <2> DEFINE s == Split(r, chars)
  <2>1. r \in Strings /\ Append(r, c) \in Strings /\ <<>> \in Strings
    BY AppendProperties DEF Strings
  <2>2. s \in Seq(Strings) /\ s # <<>>
    BY <1>2
  <2>3. Front(s) \in Seq(Strings) /\ Last(s) \in Strings
    <3> HIDE DEF s
    <3> QED
      BY <2>2, FrontAndLast
  <2>4. Append(Last(s), c) \in Strings
    <3> HIDE DEF s
    <3> QED
      BY <2>3, AppendProperties DEF Strings
  <2>5. Cut(s, c, chars) \in Seq(Strings) \ {<<>>}
    <3> HIDE DEF s, T
    <3>1. Append(s, <<>>) \in Seq(Strings) \ {<<>>}
      BY <2>1, <2>2, AppendProperties
    <3>2. Append(Front(s), Append(Last(s), c)) \in Seq(Strings) \ {<<>>}
      BY <2>3, <2>4, AppendProperties
    <3> QED
      BY <3>1, <3>2 DEF Cut
  <2> QED
    BY <2>1, <2>5, SplitAppend
<1>3. Seq(Characters) \subseteq T
  BY <1>1, <1>2, TextInduction
<1> QED
  BY <1>3 DEF Strings

\* What comes without separators continues the last segment.
LEMMA SplitContinues ==
  ASSUME NEW chars, NEW p \in Strings, NEW t \in Strings, Free(t, chars)
  PROVE  Split(p \o t, chars) = Append(Front(Split(p, chars)), Last(Split(p, chars)) \o t)
<1> DEFINE s == Split(p, chars)
           T == {r \in Strings : Free(r, chars) =>
                   Split(p \o r, chars) = Append(Front(s), Last(s) \o r)}
<1>1. Front(s) \in Seq(Strings) /\ Last(s) \in Strings /\ s = Append(Front(s), Last(s))
  <2>1. s \in Seq(Strings) \ {<<>>}
    BY SplitTyped
  <2> HIDE DEF s
  <2> QED
    BY <2>1, FrontAndLast
<1> HIDE DEF s
<1>2. <<>> \in T
  <2>1. p \o <<>> = p /\ Last(s) \o <<>> = Last(s) /\ <<>> \in Strings
    BY <1>1, ConcatEmptySeq DEF Strings
  <2> QED
    BY <1>1, <2>1 DEF s
<1>3. ASSUME NEW r \in Seq(Characters), NEW c \in Characters, r \in T
      PROVE  Append(r, c) \in T
  <2>1. r \in Strings /\ Append(r, c) \in Strings
    BY AppendProperties DEF Strings
  <2> SUFFICES ASSUME Free(Append(r, c), chars)
               PROVE  Split(p \o Append(r, c), chars) = Append(Front(s), Last(s) \o Append(r, c))
    BY <2>1
  <2>2. Free(r, chars) /\ c \notin chars
    BY <2>1, FreeAppend
  <2>3. Split(p \o r, chars) = Append(Front(s), Last(s) \o r)
    BY <1>3, <2>2
  <2>4. p \o r \in Strings /\ p \o Append(r, c) = Append(p \o r, c)
    BY <2>1, ConcatStrings, AppendToConcat DEF Strings
  <2>5. Split(p \o Append(r, c), chars) = Cut(Append(Front(s), Last(s) \o r), c, chars)
    BY <2>3, <2>4, SplitAppend
  <2>6. Last(s) \o r \in Strings
    BY <1>1, <2>1, ConcatStrings
  <2>7. Cut(Append(Front(s), Last(s) \o r), c, chars) = Append(Front(s), Append(Last(s) \o r, c))
    <3> DEFINE a == Front(s)
               b == Last(s) \o r
    <3>1. a \in Seq(Strings) /\ b \in Strings
      BY <1>1, <2>6
    <3> HIDE DEF a, b
    <3>2. Front(Append(a, b)) = a /\ Last(Append(a, b)) = b
      BY <3>1, FrontAndLast
    <3>3. Cut(Append(a, b), c, chars) = Append(a, Append(b, c))
      BY <2>2, <3>2 DEF Cut
    <3> QED
      BY <3>3 DEF a, b
  <2>8. Append(Last(s) \o r, c) = Last(s) \o Append(r, c)
    <3> DEFINE b == Last(s)
    <3>1. b \in Seq(Characters)
      BY <1>1 DEF Strings
    <3> HIDE DEF b, T
    <3>2. b \o Append(r, c) = Append(b \o r, c)
      BY <3>1, AppendToConcat
    <3> QED
      BY <3>2 DEF b
  <2> QED
    BY <2>5, <2>7, <2>8
<1>4. Seq(Characters) \subseteq T
  BY <1>2, <1>3, TextInduction
<1> QED
  BY <1>4 DEF Strings, s

\* What is joined is divided in the same way.
LEMMA SplitJoin ==
  ASSUME NEW chars, Slash \in chars, NEW p \in Strings, NEW q \in Seq(Strings), AllFree(q, chars)
  PROVE  Split(p \o Join(q), chars) = Split(p, chars) \o q
<1> DEFINE s == Split(p, chars)
           T == {r \in Seq(Strings) : AllFree(r, chars) => Split(p \o Join(r), chars) = s \o r}
<1>1. s \in Seq(Strings)
  BY SplitTyped
<1> HIDE DEF s
<1>2. <<>> \in T
  <2>1. p \o Join(<<>>) = p /\ s \o <<>> = s /\ <<>> \in Seq(Strings)
    BY <1>1, JoinEmpty, ConcatEmptySeq DEF Strings
  <2> QED
    BY <2>1 DEF s
<1>3. ASSUME NEW r \in Seq(Strings), NEW t \in Strings, r \in T
      PROVE  Append(r, t) \in T
  <2> SUFFICES ASSUME AllFree(Append(r, t), chars)
               PROVE  Split(p \o Join(Append(r, t)), chars) = s \o Append(r, t)
    BY AppendProperties
  <2>1. AllFree(r, chars) /\ Free(t, chars)
    BY AllFreeAppend
  <2> DEFINE x == p \o Join(r)
             y == Append(x, Slash)
  <2>2. x \in Strings
    BY JoinTyped, ConcatStrings
  <2>3. Split(x, chars) = s \o r
    BY <1>3, <2>1
  <2>4. p \o Join(Append(r, t)) = x \o (<<Slash>> \o t)
    <3> DEFINE a == Join(r)
               b == <<Slash>> \o t
    <3>1. a \in Strings /\ b \in Strings
      BY JoinTyped, SlashTyped, ConcatStrings
    <3>2. Join(Append(r, t)) = a \o b
      BY JoinAppend
    <3> HIDE DEF a, b, T
    <3>3. \A v \in Strings : (p \o a) \o v = p \o (a \o v)
      BY <3>1, ConcatStrings
    <3>4. p \o (a \o b) = (p \o a) \o b
      BY <3>1, <3>3
    <3> QED
      BY <3>2, <3>4 DEF a, b
  <2> HIDE DEF x, T
  <2>5. y \in Strings /\ y = x \o <<Slash>>
    BY <2>2, SlashTyped, AppendProperties, AppendIsConcat DEF Strings
  <2>6. x \o (<<Slash>> \o t) = y \o t
    <3>1. \A v \in Strings : (x \o <<Slash>>) \o v = x \o (<<Slash>> \o v)
      BY <2>2, SlashTyped, ConcatStrings
    <3> QED
      BY <2>5, <3>1
  <2>7. Split(y, chars) = Append(s \o r, <<>>)
    <3>1. Split(y, chars) = Cut(Split(x, chars), Slash, chars)
      BY <2>2, SlashTyped, SplitAppend
    <3> QED
      BY <2>3, <3>1 DEF Cut
  <2> HIDE DEF y
  <2>8. s \o r \in Seq(Strings) /\ <<>> \in Strings
    BY <1>1, ConcatProperties DEF Strings
  <2> DEFINE z == s \o r
  <2>9. z \in Seq(Strings)
    BY <2>8
  <2>10. Split(y, chars) = Append(z, <<>>)
    BY <2>7
  <2> HIDE DEF z
  <2>11. s \o Append(r, t) = Append(s \o r, t)
    BY <1>1, AppendToConcat
  <2>12. Front(Append(z, <<>>)) = z /\ Last(Append(z, <<>>)) = <<>>
    BY <2>8, <2>9, FrontAndLast
  <2>13. Split(y \o t, chars) = Append(z, <<>> \o t)
    <3>1. Split(y \o t, chars) = Append(Front(Split(y, chars)), Last(Split(y, chars)) \o t)
      BY <2>1, <2>5, SplitContinues
    <3> QED
      BY <2>10, <2>12, <3>1
  <2>14. <<>> \o t = t
    BY ConcatEmptySeq DEF Strings
  <2> QED
    BY <2>4, <2>6, <2>11, <2>13, <2>14 DEF z
<1>4. Seq(Strings) \subseteq T
  BY <1>2, <1>3, TextInduction
<1> QED
  BY <1>4 DEF s

\* Segments that are no dots stay as they are.
LEMMA NormalizeKeeps ==
  ASSUME NEW q \in Seq(Strings), \A i \in 1..Len(q) : q[i] \notin Dots \cup DoubleDots
  PROVE  Normalize(q) = q
<1> DEFINE Normalizes(f) ==
             f = [n \in 0..Len(q) |->
                    IF n = 0 THEN <<>>
                    ELSE Enter(f[n - 1], q[n], IF n = Len(q) THEN <<<<>>>> ELSE <<>>)]
           g == [n \in 0..Len(q) |-> SubSeq(q, 1, n)]
           h == CHOOSE f : Normalizes(f)
<1>1. Len(q) \in Nat
  OBVIOUS
<1>2. \A d, n : n \in 1..Len(q) => \A e : Enter(d, q[n], e) = Append(d, q[n])
  BY DEF Enter
<1>3. g = [n \in 0..Len(q) |->
             IF n = 0 THEN <<>>
             ELSE Enter(g[n - 1], q[n], IF n = Len(q) THEN <<<<>>>> ELSE <<>>)]
  <2>1. ASSUME NEW n \in 0..Len(q)
        PROVE  SubSeq(q, 1, n) =
                 IF n = 0 THEN <<>>
                 ELSE Enter(g[n - 1], q[n], IF n = Len(q) THEN <<<<>>>> ELSE <<>>)
    <3>1. CASE n = 0
      BY <3>1, SubSeqEmpty
    <3>2. CASE n # 0
      <4>1. n \in 1..Len(q) /\ n - 1 \in 0..Len(q) /\ 1 \in 1..Len(q) /\ n \in 1..Len(q)
        BY <1>1, <3>2
      <4>2. g[n - 1] = SubSeq(q, 1, n - 1)
        BY <4>1
      <4>3. SubSeq(q, 1, n) = SubSeq(q, 1, n - 1) \o <<q[n]>>
        BY <4>1, SubSeqRecursiveSecond
      <4>4. SubSeq(q, 1, n - 1) \in Seq(Strings) /\ q[n] \in Strings
        <5>1. \A i \in 1..(n - 1) : q[i] \in Strings
          BY <1>1, <4>1
        <5> QED
          BY <4>1, <5>1, SubSeqProperties
      <4>5. SubSeq(q, 1, n) = Append(SubSeq(q, 1, n - 1), q[n])
        BY <4>3, <4>4, AppendIsConcat
      <4> QED
        BY <1>2, <3>2, <4>1, <4>2, <4>5
    <3> QED
      BY <3>1, <3>2
  <2> QED
    BY <2>1
<1>4. Normalizes(g)
  BY <1>3
<1>5. Normalizes(h)
  <2> HIDE DEF g, Normalizes
  <2> QED
    BY <1>4
<1>6. \A n \in 0..Len(q) :
        h[n] = IF n = 0 THEN <<>>
               ELSE Enter(h[n - 1], q[n], IF n = Len(q) THEN <<<<>>>> ELSE <<>>)
  <2> HIDE DEF h
  <2> QED
    BY <1>5
<1>7. Normalize(q) = h[Len(q)]
  BY DEF Normalize
<1> HIDE DEF h, Normalizes
<1> DEFINE S == {n \in Nat : n \in 0..Len(q) => h[n] = g[n]}
<1>8. \A n \in 0..Len(q) :
        g[n] = IF n = 0 THEN <<>>
               ELSE Enter(g[n - 1], q[n], IF n = Len(q) THEN <<<<>>>> ELSE <<>>)
  <2> HIDE DEF g
  <2> QED
    BY <1>3
<1> HIDE DEF g
<1>9. 0 \in S
  BY <1>1, <1>6, <1>8
<1>10. ASSUME NEW n \in Nat, n \in S
       PROVE  n + 1 \in S
  <2> SUFFICES ASSUME n + 1 \in 0..Len(q)
               PROVE  h[n + 1] = g[n + 1]
    OBVIOUS
  <2>1. (n + 1) - 1 = n /\ n \in 0..Len(q) /\ n + 1 # 0
    BY <1>1
  <2>2. h[n] = g[n]
    BY <1>10, <2>1
  <2> QED
    BY <1>6, <1>8, <2>1, <2>2
<1>11. Nat \subseteq S
  BY <1>9, <1>10, SetInduction
<1>12. h[Len(q)] = g[Len(q)]
  BY <1>1, <1>11
<1>13. g[Len(q)] = q
  BY <1>1, SubSeqFull DEF g
<1> QED
  BY <1>7, <1>12, <1>13

-----------------------------------------------------------------------------
(* URLs of requests.                                                       *)

\* Segments that a URL's path keeps.
Kept(q) == /\ q \in Seq(Strings)
           /\ AllFree(q, Dividers)
           /\ \A i \in 1..Len(q) : q[i] \notin Dots \cup DoubleDots

LEMMA KeptConcat ==
  ASSUME NEW p, NEW q, Kept(p), Kept(q)
  PROVE  Kept(p \o q)
<1>1. /\ p \in Seq(Strings) /\ q \in Seq(Strings)
      /\ Len(p) \in Nat /\ Len(q) \in Nat
      /\ p \o q \in Seq(Strings) /\ Len(p \o q) = Len(p) + Len(q)
      /\ \A i \in 1..Len(p) + Len(q) :
           (p \o q)[i] = IF i <= Len(p) THEN p[i] ELSE q[i - Len(p)]
  BY ConcatProperties DEF Kept
<1>2. ASSUME NEW i \in 1..Len(p \o q)
      PROVE  Free((p \o q)[i], Dividers) /\ (p \o q)[i] \notin Dots \cup DoubleDots
  <2>1. CASE i \in 1..Len(p)
    BY <1>1, <2>1 DEF Kept, AllFree
  <2>2. CASE i - Len(p) \in 1..Len(q)
    BY <1>1, <2>2 DEF Kept, AllFree
  <2> QED
    BY <1>1, <2>1, <2>2
<1> QED
  BY <1>1, <1>2 DEF Kept, AllFree

LEMMA KeptOne ==
  ASSUME NEW s \in Strings, Free(s, Dividers), s \notin Dots \cup DoubleDots
  PROVE  Kept(<<s>>)
<1>1. <<s>> \in Seq(Strings) /\ Len(<<s>>) = 1 /\ <<s>>[1] = s
  OBVIOUS
<1> QED
  BY <1>1 DEF Kept, AllFree

\* An empty segment, which ends a path with a slash.
LEMMA KeptEnd == Kept(<<<<>>>>) /\ Join(<<<<>>>>) = <<Slash>>
<1>1. <<>> \in Strings /\ Free(<<>>, Dividers)
  BY DEF Strings, Free
<1>2. <<>> \notin Dots \cup DoubleDots
  BY DotsRead, DecodeEmpty
<1>3. Kept(<<<<>>>>)
  BY <1>1, <1>2, KeptOne
<1>4. Append(<<>>, <<>>) = <<<<>>>>
  BY <1>1, ShortSequences
<1>5. Join(Append(<<>>, <<>>)) = <<>> \o (<<Slash>> \o <<>>)
  <2>1. <<>> \in Seq(Strings)
    OBVIOUS
  <2> QED
    BY <1>1, <2>1, JoinAppend, JoinEmpty
<1>6. <<Slash>> \o <<>> = <<Slash>> /\ <<>> \o <<Slash>> = <<Slash>>
  BY SlashTyped, ConcatEmptySeq DEF Strings
<1> QED
  BY <1>3, <1>4, <1>5, <1>6

\* Such a path is set as it is.
LEMMA SetPathKeeps ==
  ASSUME NEW q, Kept(q), NEW url
  PROVE  SetPath(url, Join(q)) = [url EXCEPT !.path = Join(q)]
<1>1. q \in Seq(Strings) /\ Join(q) \in Strings
  BY JoinTyped DEF Kept
<1>2. AllFree(q, {"?", "#"}) /\ AllFree(q, {"/", "\\"})
  BY DEF Kept, AllFree, Free, Dividers
<1>3. Encode(Join(q), {"?", "#"}) = Join(q)
  <2>1. Slash \notin {"?", "#"}
    BY DEF Slash
  <2>2. Free(Join(q), {"?", "#"})
    BY <1>1, <1>2, <2>1, JoinFree
  <2> QED
    BY <1>1, <2>2, EncodeFree, SegmentChars
<1>4. Split(Join(q), {"/", "\\"}) = <<<<>>>> \o q
  <2>1. Slash \in {"/", "\\"} /\ <<>> \in Strings
    BY DEF Slash, Strings
  <2>2. Split(<<>> \o Join(q), {"/", "\\"}) = Split(<<>>, {"/", "\\"}) \o q
    BY <1>1, <1>2, <2>1, SplitJoin
  <2>3. <<>> \o Join(q) = Join(q)
    BY <1>1, ConcatEmptySeq DEF Strings
  <2> QED
    BY <2>2, <2>3, SplitEmpty
<1>5. Tail(<<<<>>>> \o q) = q
  <2> DEFINE a == <<<<>>>>
             b == a \o q
  <2>1. a \in Seq(Strings) /\ Len(a) = 1
    BY DEF Strings
  <2> HIDE DEF a
  <2>2. /\ b \in Seq(Strings) /\ Len(b) = Len(q) + 1 /\ Len(q) \in Nat
        /\ \A i \in 1..Len(q) : b[i + 1] = q[i]
    <3>1. /\ b \in Seq(Strings) /\ Len(b) = Len(q) + 1 /\ Len(q) \in Nat
          /\ \A i \in 1..1 + Len(q) : b[i] = IF i <= 1 THEN a[i] ELSE q[i - 1]
      <4>1. /\ b \in Seq(Strings) /\ Len(b) = Len(a) + Len(q) /\ Len(q) \in Nat
            /\ \A i \in 1..Len(a) + Len(q) : b[i] = IF i <= Len(a) THEN a[i] ELSE q[i - Len(a)]
        BY <1>1, <2>1, ConcatProperties
      <4> HIDE DEF b
      <4> QED
        BY <2>1, <4>1
    <3>2. \A i \in 1..Len(q) : b[i + 1] = q[i]
      <4> TAKE i \in 1..Len(q)
      <4>1. i + 1 \in 1..1 + Len(q) /\ ~(i + 1 <= 1) /\ (i + 1) - 1 = i
        BY <3>1
      <4> QED
        BY <3>1, <4>1
    <3> QED
      BY <3>1, <3>2
  <2> HIDE DEF b
  <2>3. b # <<>>
    BY <2>2, EmptySeq
  <2>4. /\ Tail(b) \in Seq(Strings) /\ Len(Tail(b)) = Len(q)
        /\ \A i \in 1..Len(q) : Tail(b)[i] = q[i]
    BY <2>2, <2>3, HeadTailProperties
  <2>5. Tail(b) = q
    BY <1>1, <2>4, SeqEqual
  <2> QED
    BY <2>5 DEF a, b
<1>6. Normalize(q) = q
  BY <1>1, NormalizeKeeps DEF Kept
<1> QED
  BY <1>3, <1>4, <1>5, <1>6 DEF SetPath

\* One slash is trimmed from the end of a path.
LEMMA TrimOne ==
  ASSUME NEW x \in Strings, x # <<>>, x[Len(x)] # Slash
  PROVE  TrimEndSlashes(x \o <<Slash>>) = x
<1> DEFINE y == x \o <<Slash>>
           n == CHOOSE k \in 0..Len(y) : /\ \A i \in k + 1..Len(y) : y[i] = Slash
                                         /\ k > 0 => y[k] # Slash
<1>1. /\ y \in Strings /\ Len(y) = Len(x) + 1 /\ Len(x) \in Nat \ {0}
      /\ \A i \in 1..Len(x) : y[i] = x[i]
      /\ y[Len(x) + 1] = Slash
  BY SlashTyped, ConcatProperties, EmptySeq DEF Strings
<1> HIDE DEF y
<1>2. \A k \in 0..Len(y) :
        (/\ \A i \in k + 1..Len(y) : y[i] = Slash
         /\ k > 0 => y[k] # Slash) <=> k = Len(x)
  <2> TAKE k \in 0..Len(y)
  <2>1. k = Len(x) => /\ \A i \in k + 1..Len(y) : y[i] = Slash
                      /\ k > 0 => y[k] # Slash
    BY <1>1
  <2>2. k < Len(x) => Len(x) \in k + 1..Len(y) /\ y[Len(x)] # Slash
    BY <1>1
  <2>3. k > Len(x) => k = Len(x) + 1
    BY <1>1
  <2> QED
    BY <1>1, <2>1, <2>2, <2>3
<1>3. Len(x) \in 0..Len(y)
  BY <1>1
<1>4. n = Len(x)
  BY <1>2, <1>3
<1>5. SubSeq(y, 1, Len(x)) = x
  <2>1. /\ SubSeq(y, 1, Len(x)) \in Seq(Characters)
        /\ Len(SubSeq(y, 1, Len(x))) = Len(x)
        /\ \A i \in 1..Len(x) : SubSeq(y, 1, Len(x))[i] = y[i]
    <3>1. \A i \in 1..Len(x) : y[i] \in Characters
      BY <1>1 DEF Strings
    <3> QED
      BY <1>1, <3>1, SubSeqProperties
  <2> QED
    BY <1>1, <2>1, SeqEqual DEF Strings
<1>6. TrimEndSlashes(y) = SubSeq(y, 1, n)
  BY DEF TrimEndSlashes
<1> QED
  BY <1>4, <1>5, <1>6 DEF y

\* The segments below which pretix publishes its API.
Mounted(prefix) ==
  (IF prefix = <<>> THEN <<>> ELSE <<<<"pretix">>>>) \o <<<<"api">>, <<"v1">>>>

LEMMA Literals ==
  /\ {"7", "a", "api", "v1", "pretix"} \subseteq Characters
  /\ \A word \in {"7", "a", "api", "v1", "pretix"} :
       /\ <<word>> \in Strings
       /\ Kept(<<<<word>>>>)
<1>1. {"7", "a", "api", "v1", "pretix"} \subseteq Characters
  BY DEF Characters
<1>2. ASSUME NEW word \in {"7", "a", "api", "v1", "pretix"}
      PROVE  <<word>> \in Strings /\ Kept(<<<<word>>>>)
  <2>1. <<word>> \in Strings
    BY <1>1 DEF Strings
  <2>2. Free(<<word>>, Dividers)
    BY DEF Free, Dividers
  <2>3. <<word>> \notin Dots
    BY DEF Dots
  <2>4. <<word>> \notin DoubleDots
    <3>1. \A d, e \in Dots : Len(d \o e) # 1
      <4> TAKE d, e \in Dots
      <4>1. d \in Strings /\ e \in Strings /\ Len(d) \in {1, 2} /\ Len(e) \in {1, 2}
        BY DotsRead DEF Dots
      <4>2. Len(d \o e) = Len(d) + Len(e)
        BY <4>1, ConcatProperties DEF Strings
      <4> QED
        BY <4>1, <4>2
    <3>2. Len(<<word>>) = 1
      OBVIOUS
    <3> QED
      BY <3>1, <3>2 DEF DoubleDots
  <2> QED
    BY <2>1, <2>2, <2>3, <2>4, KeptOne
<1> QED
  BY <1>1, <1>2

LEMMA ConcatElements ==
  ASSUME NEW t \in Strings, NEW u \in Strings
  PROVE  /\ t \o u \in Strings
         /\ Len(t) \in Nat /\ Len(u) \in Nat
         /\ Len(t \o u) = Len(t) + Len(u)
         /\ \A i \in 1..Len(t) : (t \o u)[i] = t[i]
         /\ \A i \in 1..Len(u) : (t \o u)[Len(t) + i] = u[i]
<1>1. /\ t \o u \in Strings
      /\ Len(t) \in Nat /\ Len(u) \in Nat
      /\ Len(t \o u) = Len(t) + Len(u)
      /\ \A i \in 1..Len(t) + Len(u) :
           (t \o u)[i] = IF i <= Len(t) THEN t[i] ELSE u[i - Len(t)]
  BY ConcatProperties DEF Strings
<1>2. \A i \in 1..Len(t) : (t \o u)[i] = t[i]
  BY <1>1
<1>3. \A i \in 1..Len(u) : (t \o u)[Len(t) + i] = u[i]
  <2> TAKE i \in 1..Len(u)
  <2>1. /\ Len(t) + i \in 1..Len(t) + Len(u)
        /\ ~(Len(t) + i <= Len(t)) /\ (Len(t) + i) - Len(t) = i
    BY <1>1
  <2> QED
    BY <1>1, <2>1
<1> QED
  BY <1>1, <1>2, <1>3

LEMMA ConcatTwo ==
  ASSUME NEW S, NEW c \in S, NEW d \in S
  PROVE  <<c>> \o <<d>> = <<c, d>>
<1>1. <<c>> \in Seq(S)
  OBVIOUS
<1>2. Append(<<c>>, d) = <<c>> \o <<d>>
  BY <1>1, AppendIsConcat
<1> QED
  BY <1>2, ShortSequences

LEMMA JoinWord ==
  ASSUME NEW p \in Seq(Strings), NEW c \in Characters
  PROVE  Join(Append(p, <<c>>)) = Join(p) \o <<Slash, c>>
<1>1. <<c>> \in Strings
  BY DEF Strings
<1>2. <<Slash>> \o <<c>> = <<Slash, c>>
  BY SlashTyped, ConcatTwo
<1> QED
  BY <1>1, <1>2, JoinAppend

\* Where pretix is published is joined like any other path.
LEMMA RootJoins ==
  /\ Kept(<<<<"api">>, <<"v1">>>>)
  /\ Join(<<<<"api">>, <<"v1">>>>) \in Strings
  /\ Len(Join(<<<<"api">>, <<"v1">>>>)) = 4
  /\ \A i \in 1..4 : Join(<<<<"api">>, <<"v1">>>>)[i] = API_ROOT[i]
<1> DEFINE A == <<"api">>
           V == <<"v1">>
           a == <<Slash, "api">>
           v == <<Slash, "v1">>
           y == Join(<<A, V>>)
<1>1. A \in Strings /\ V \in Strings /\ Kept(<<A>>) /\ Kept(<<V>>)
      /\ "api" \in Characters /\ "v1" \in Characters
  BY Literals
<1>2. /\ a \in Strings /\ Len(a) = 2 /\ a[1] = Slash /\ a[2] = "api"
      /\ v \in Strings /\ Len(v) = 2 /\ v[1] = Slash /\ v[2] = "v1"
  BY <1>1, SlashTyped DEF Strings
<1>3. <<A>> = Append(<<>>, A) /\ <<A, V>> = Append(<<A>>, V) /\ <<A, V>> = <<A>> \o <<V>>
  <2> HIDE DEF A, V
  <2> QED
    BY <1>1, ShortSequences, ConcatTwo
<1>4. Kept(<<A, V>>)
  BY <1>1, <1>3, KeptConcat
<1>5. Join(<<A>>) = a
  <2>1. <<>> \in Seq(Strings)
    OBVIOUS
  <2>2. Join(Append(<<>>, <<"api">>)) = Join(<<>>) \o a
    BY <1>1, <2>1, JoinWord
  <2>3. <<>> \o a = a
    BY <1>2, ConcatEmptySeq DEF Strings
  <2> QED
    BY <1>3, <2>2, <2>3, JoinEmpty
<1>6. y = a \o v
  <2>1. <<A>> \in Seq(Strings)
    BY <1>1
  <2>2. Join(Append(<<A>>, <<"v1">>)) = Join(<<A>>) \o v
    BY <1>1, <2>1, JoinWord
  <2> QED
    BY <1>3, <1>5, <2>2
<1>7. \A i \in 1..4 : y[i] = API_ROOT[i]
  <2>1. /\ API_ROOT[1] = Slash /\ API_ROOT[2] = "api" /\ API_ROOT[3] = Slash
        /\ API_ROOT[4] = "v1"
    BY DEF API_ROOT, Slash
  <2> HIDE DEF y, a, v
  <2>2. /\ \A i \in 1..Len(a) : (a \o v)[i] = a[i]
        /\ \A i \in 1..Len(v) : (a \o v)[Len(a) + i] = v[i]
    BY <1>2, ConcatElements
  <2>3. \A i \in 1..2 : y[i] = a[i] /\ y[2 + i] = v[i]
    BY <1>2, <1>6, <2>2
  <2>4. y[1] = a[1] /\ y[2] = a[2]
    BY <2>3
  <2>5. y[2 + 1] = v[1] /\ y[2 + 2] = v[2]
    BY <2>3
  <2>6. y[1] = Slash /\ y[2] = "api" /\ y[3] = Slash /\ y[4] = "v1"
    BY <1>2, <2>4, <2>5
  <2> QED
    BY <2>1, <2>6
<1>8. y \in Strings /\ Len(y) = 4
  <2> HIDE DEF y, a, v
  <2>1. a \o v \in Strings /\ Len(a \o v) = Len(a) + Len(v)
    BY <1>2, ConcatElements
  <2> QED
    BY <1>2, <1>6, <2>1
<1> QED
  BY <1>4, <1>7, <1>8

LEMMA RootWithSlash ==
  API_ROOT \in Strings /\ API_ROOT = Join(<<<<"api">>, <<"v1">>>>) \o <<Slash>>
<1> DEFINE y == Join(<<<<"api">>, <<"v1">>>>)
           z == <<Slash>>
<1>1. y \in Strings /\ Len(y) = 4 /\ \A i \in 1..4 : y[i] = API_ROOT[i]
  BY RootJoins
<1>2. z \in Strings /\ Len(z) = 1 /\ z[1] = Slash
  BY SlashTyped
<1>3. API_ROOT \in Strings /\ Len(API_ROOT) = 5 /\ API_ROOT[5] = Slash
  BY SlashTyped, Literals DEF API_ROOT, Slash, Strings
<1> HIDE DEF y, z
<1>4. /\ y \o z \in Strings /\ Len(y \o z) = Len(y) + Len(z)
      /\ \A i \in 1..Len(y) : (y \o z)[i] = y[i]
      /\ \A i \in 1..Len(z) : (y \o z)[Len(y) + i] = z[i]
  BY <1>1, <1>2, ConcatElements
<1>5. Len(y \o z) = 5 /\ \A i \in 1..5 : (y \o z)[i] = API_ROOT[i]
  <2>1. 1 \in 1..Len(z) /\ Len(y) + 1 = 5
    BY <1>1, <1>2
  <2>2. (y \o z)[Len(y) + 1] = z[1]
    BY <1>4, <2>1
  <2>3. \A i \in 1..4 : (y \o z)[i] = API_ROOT[i]
    BY <1>1, <1>4
  <2>4. (y \o z)[5] = API_ROOT[5]
    BY <1>2, <1>3, <2>1, <2>2
  <2>5. \A i \in 1..5 : i \in 1..4 \/ i = 5
    OBVIOUS
  <2> QED
    BY <1>1, <1>2, <1>4, <2>3, <2>4, <2>5
<1>6. y \o z = API_ROOT
  BY <1>3, <1>4, <1>5, SeqEqual DEF Strings
<1> QED
  BY <1>3, <1>6 DEF y, z

\* The root of the API is a path of kept segments and a slash, which is trimmed.
LEMMA MountedJoins ==
  ASSUME NEW prefix \in MountPoints
  PROVE  /\ prefix \in Strings
         /\ Kept(Mounted(prefix))
         /\ Join(Mounted(prefix)) \in Strings
         /\ prefix \o API_ROOT = Join(Mounted(prefix)) \o <<Slash>>
         /\ TrimEndSlashes(prefix \o API_ROOT) = Join(Mounted(prefix))
<1> DEFINE R == <<<<"api">>, <<"v1">>>>
           y == Join(R)
           m == Mounted(prefix)
<1>1. Kept(R) /\ y \in Strings /\ Len(y) = 4 /\ y[4] = "v1"
  BY RootJoins DEF API_ROOT
<1> HIDE DEF R
<1>2. /\ prefix \in Strings /\ Kept(m) /\ Join(m) = prefix \o y
  <2>1. CASE prefix = <<>>
    <3>1. m = <<>> \o R
      BY <2>1 DEF Mounted, R
    <3>2. m = R
      BY <1>1, <3>1, ConcatEmptySeq DEF Kept
    <3>3. <<>> \o y = y /\ prefix \in Strings
      BY <1>1, <2>1, ConcatEmptySeq DEF Strings
    <3> QED
      BY <1>1, <2>1, <3>2, <3>3
  <2>2. CASE prefix = <<Slash, "pretix">>
    <3> DEFINE P == <<<<"pretix">>>>
    <3>1. m = P \o R
      BY <2>2 DEF Mounted, R
    <3>2. Kept(P) /\ "pretix" \in Characters /\ <<"pretix">> \in Strings
      BY Literals
    <3>3. Join(P) = prefix
      <4>1. P = Append(<<>>, <<"pretix">>)
        BY <3>2, ShortSequences
      <4>2. <<>> \in Seq(Strings)
        OBVIOUS
      <4>3. Join(P) = <<>> \o prefix
        BY <2>2, <3>2, <4>1, <4>2, JoinEmpty, JoinWord
      <4>4. prefix \in Seq(Characters)
        BY <2>2, <3>2, SlashTyped
      <4> QED
        BY <4>3, <4>4, ConcatEmptySeq
    <3>4. prefix \in Strings
      BY <2>2, <3>2, SlashTyped DEF Strings
    <3> HIDE DEF P
    <3>5. Kept(P \o R)
      BY <1>1, <3>2, KeptConcat
    <3>6. Join(P \o R) = Join(P) \o Join(R)
      BY <1>1, <3>2, JoinConcat DEF Kept
    <3> QED
      BY <3>1, <3>3, <3>4, <3>5, <3>6
  <2> QED
    BY <2>1, <2>2 DEF MountPoints
<1>3. prefix \o API_ROOT = Join(m) \o <<Slash>>
  <2>1. API_ROOT = y \o <<Slash>>
    BY RootWithSlash DEF R
  <2>2. prefix \o (y \o <<Slash>>) = (prefix \o y) \o <<Slash>>
    <3> HIDE DEF y
    <3> QED
      BY <1>1, <1>2, SlashTyped, ConcatStrings
  <2> QED
    BY <1>2, <2>1, <2>2
<1> HIDE DEF m, y
<1>4. Join(m) \in Strings /\ Join(m) # <<>> /\ Join(m)[Len(Join(m))] # Slash
  <2>1. /\ prefix \o y \in Strings /\ Len(prefix) \in Nat
        /\ Len(prefix \o y) = Len(prefix) + Len(y)
        /\ \A i \in 1..Len(y) : (prefix \o y)[Len(prefix) + i] = y[i]
    BY <1>1, <1>2, ConcatElements
  <2>2. (prefix \o y)[Len(prefix) + 4] = "v1" /\ Len(prefix \o y) = Len(prefix) + 4
    BY <1>1, <2>1
  <2>3. "v1" # Slash
    BY DEF Slash
  <2>4. prefix \o y # <<>>
    BY <2>1, <2>2, EmptySeq
  <2> QED
    BY <1>2, <2>1, <2>2, <2>3, <2>4
<1>5. TrimEndSlashes(Join(m) \o <<Slash>>) = Join(m)
  BY <1>4, TrimOne
<1> QED
  BY <1>2, <1>3, <1>4, <1>5 DEF m

\* What may stand for segments of a path.
Sendable(segs) ==
  /\ segs \in Seq(Strings) \ {<<>>}
  /\ \A i \in 1..Len(segs) : segs[i] \notin {<<>>, <<".">>, <<".", ".">>}

\* The segments as they are on the wire.
Encoded(segs) == [i \in DOMAIN segs |-> Encode(segs[i], SEGMENT)]

\* The path keeps the escaped segments of what is sendable.
LEMMA EncodedKept ==
  ASSUME NEW segs, Sendable(segs)
  PROVE  /\ Kept(Encoded(segs))
         /\ Len(Encoded(segs)) = Len(segs)
         /\ Encoded(segs) # <<>>
         /\ \A i \in 1..Len(segs) : Encoded(segs)[i] = Encode(segs[i], SEGMENT)
<1> DEFINE e == Encoded(segs)
<1>1. /\ segs \in Seq(Strings) /\ DOMAIN segs = 1..Len(segs) /\ Len(segs) \in Nat \ {0}
  BY EmptySeq, LenProperties DEF Sendable
<1>2. \A i \in 1..Len(segs) : e[i] = Encode(segs[i], SEGMENT)
  BY <1>1 DEF Encoded
<1>3. ASSUME NEW i \in 1..Len(segs)
      PROVE  /\ e[i] \in Strings /\ Free(e[i], Dividers)
             /\ e[i] \notin Dots \cup DoubleDots
  <2>1. segs[i] \in Strings /\ segs[i] \notin {<<".">>, <<".", ".">>}
    BY <1>1, ElementOfSeq DEF Sendable
  <2> QED
    BY <1>2, <2>1, EncodeTyped, SegmentChars, EncodedIsFree, EncodedIsNoDots
<1>4. e \in Seq(Strings) /\ Len(e) = Len(segs)
  <2>1. e = [i \in 1..Len(segs) |-> e[i]]
    BY <1>1 DEF Encoded
  <2> HIDE DEF e
  <2>2. e \in [1..Len(segs) -> Strings]
    BY <1>3, <2>1
  <2> QED
    BY <1>1, <2>2
<1>5. e # <<>>
  BY <1>1, <1>4, EmptySeq
<1> HIDE DEF e
<1>6. Kept(e)
  BY <1>3, <1>4 DEF Kept, AllFree
<1> QED
  BY <1>2, <1>4, <1>5, <1>6 DEF e

LEMMA HeadAndTail ==
  ASSUME NEW S, NEW s \in Seq(S), s # <<>>
  PROVE  s[1] \in S /\ Tail(s) \in Seq(S) /\ s = <<s[1]>> \o Tail(s)
<1>1. Len(s) \in Nat \ {0} /\ s[1] \in S
  BY EmptySeq, ElementOfSeq
<1>2. Tail(s) \in Seq(S) /\ Len(Tail(s)) = Len(s) - 1 /\ \A i \in 1..Len(Tail(s)) : Tail(s)[i] = s[i + 1]
  BY HeadTailProperties
<1> DEFINE h == <<s[1]>>
           t == Tail(s)
<1>3. h \in Seq(S) /\ Len(h) = 1 /\ h[1] = s[1]
  BY <1>1
<1> HIDE DEF h, t
<1>4. t \in Seq(S) /\ Len(t) = Len(s) - 1 /\ \A i \in 1..Len(t) : t[i] = s[i + 1]
  BY <1>2 DEF t
<1>5. /\ h \o t \in Seq(S) /\ Len(h \o t) = Len(h) + Len(t)
      /\ \A i \in 1..Len(h) + Len(t) : (h \o t)[i] = IF i <= Len(h) THEN h[i] ELSE t[i - Len(h)]
  <2>1. h \in Seq(S) /\ t \in Seq(S)
    BY <1>3, <1>4
  <2> QED
    BY <2>1, ConcatProperties
<1>6. \A i \in 1..Len(s) : (h \o t)[i] = s[i]
  <2> TAKE i \in 1..Len(s)
  <2>1. i # 1 => i - 1 \in 1..Len(t) /\ (i - 1) + 1 = i
    BY <1>1, <1>4
  <2>2. i # 1 => t[i - 1] = s[i]
    BY <1>4, <2>1
  <2>3. i \in 1..Len(h) + Len(t) /\ (i <= Len(h) <=> i = 1)
    BY <1>1, <1>3, <1>4
  <2> QED
    BY <1>3, <1>5, <2>2, <2>3
<1>7. h \o t = s
  BY <1>1, <1>3, <1>4, <1>5, <1>6, SeqEqual
<1> QED
  BY <1>1, <1>2, <1>7 DEF h, t

\* What follows a beginning of a text.
LEMMA DropConcat ==
  ASSUME NEW t \in Strings, NEW u \in Strings
  PROVE  /\ IsPrefix(t, t \o u)
         /\ SubSeq(t \o u, Len(t) + 1, Len(t \o u)) = u
<1> DEFINE v == t \o u
<1>1. /\ v \in Strings /\ Len(v) = Len(t) + Len(u) /\ Len(t) \in Nat /\ Len(u) \in Nat
      /\ \A i \in 1..Len(t) : v[i] = t[i]
      /\ \A i \in 1..Len(u) : v[Len(t) + i] = u[i]
  BY ConcatElements
<1>2. \A i \in 1..Len(v) : v[i] \in Characters
  <2> HIDE DEF v
  <2> QED
    BY <1>1, ElementOfSeq DEF Strings
<1> HIDE DEF v
<1>3. SubSeq(v, 1, Len(t)) = SubSeq(t, 1, Len(t))
  <2>1. \A i \in 1..Len(t) : t[i] \in Characters
    BY ElementOfSeq DEF Strings
  <2>2. /\ SubSeq(v, 1, Len(t)) \in Seq(Characters) /\ Len(SubSeq(v, 1, Len(t))) = Len(t)
        /\ \A i \in 1..Len(t) : SubSeq(v, 1, Len(t))[i] = v[i]
    BY <1>1, <1>2, SubSeqProperties
  <2>3. SubSeq(t, 1, Len(t)) = t
    BY SubSeqFull DEF Strings
  <2> QED
    BY <1>1, <2>2, <2>3, SeqEqual DEF Strings
<1>4. SubSeq(v, Len(t) + 1, Len(v)) = u
  <2>1. /\ SubSeq(v, Len(t) + 1, Len(v)) \in Seq(Characters)
        /\ Len(SubSeq(v, Len(t) + 1, Len(v))) = IF Len(t) + 1 <= Len(v) THEN Len(v) - (Len(t) + 1) + 1 ELSE 0
        /\ \A i \in 1..Len(v) - (Len(t) + 1) + 1 :
             SubSeq(v, Len(t) + 1, Len(v))[i] = v[(Len(t) + 1) + i - 1]
    BY <1>1, <1>2, SubSeqProperties
  <2> DEFINE w == SubSeq(v, Len(t) + 1, Len(v))
  <2>2. Len(w) = Len(u)
    BY <1>1, <2>1
  <2>3. \A i \in 1..Len(u) : w[i] = u[i]
    <3> TAKE i \in 1..Len(u)
    <3>1. i \in 1..Len(v) - (Len(t) + 1) + 1 /\ (Len(t) + 1) + i - 1 = Len(t) + i
      BY <1>1
    <3> QED
      BY <1>1, <2>1, <3>1
  <2>4. w \in Seq(Characters)
    BY <2>1
  <2> HIDE DEF w
  <2>5. w = u
    BY <2>2, <2>3, <2>4, SeqEqual DEF Strings
  <2> QED
    BY <2>5 DEF w
<1>5. IsPrefix(t, v)
  BY <1>1, <1>3 DEF IsPrefix
<1> QED
  BY <1>4, <1>5 DEF v

\* What follows the URL of the API.
Rest(segs) ==
  Encode(segs[1], SEGMENT) \o Join(Tail(Encoded(segs)) \o <<<<>>>>)

\* What follows the root is divided into the escaped segments, and nothing at the end.
LEMMA RestDivides ==
  ASSUME NEW segs, Sendable(segs)
  PROVE  /\ Rest(segs) \in Strings
         /\ Kept(Encoded(segs) \o <<<<>>>>)
         /\ Join(Encoded(segs) \o <<<<>>>>) = <<Slash>> \o Rest(segs)
         /\ Split(Rest(segs), {Slash}) = Encoded(segs) \o <<<<>>>>
<1> DEFINE e == Encoded(segs)
           c == Encode(segs[1], SEGMENT)
           E == <<<<>>>>
           t == Tail(e)
           q == t \o E
<1>1. /\ Kept(e) /\ e \in Seq(Strings) /\ e # <<>> /\ e[1] = c
      /\ 1 \in 1..Len(e)
  <2>1. Len(segs) \in Nat \ {0}
    BY EmptySeq DEF Sendable
  <2> QED
    BY <2>1, EncodedKept DEF Kept
<1>2. Kept(E) /\ E \in Seq(Strings)
  BY KeptEnd DEF Kept
<1> HIDE DEF e, E
<1>3. Kept(e \o E)
  BY <1>1, <1>2, KeptConcat
<1>4. c \in Strings /\ t \in Seq(Strings) /\ e = <<c>> \o t
  BY <1>1, HeadAndTail
<1> HIDE DEF t
<1>5. <<c>> \in Seq(Strings) /\ q \in Seq(Strings) /\ Join(q) \in Strings
  <2>1. <<c>> \in Seq(Strings)
    BY <1>4
  <2>2. t \in Seq(Strings) /\ E \in Seq(Strings)
    BY <1>2, <1>4
  <2>3. q \in Seq(Strings)
    BY <2>2, ConcatProperties
  <2> HIDE DEF q
  <2> QED
    BY <2>1, <2>3, JoinTyped
<1>6. e \o E = <<c>> \o q
  BY <1>2, <1>4, <1>5, ConcatAssociative
<1>7. Rest(segs) = c \o Join(q)
  BY DEF Rest, t, e, E
<1> HIDE DEF q
<1>8. Join(<<c>>) = <<Slash>> \o c
  <2>1. <<c>> = Append(<<>>, c)
    BY <1>4, ShortSequences
  <2>2. <<>> \in Seq(Strings)
    OBVIOUS
  <2>3. Join(Append(<<>>, c)) = <<>> \o (<<Slash>> \o c)
    BY <1>4, <2>2, JoinAppend, JoinEmpty
  <2>4. <<Slash>> \o c \in Seq(Characters)
    BY <1>4, SlashTyped, ConcatStrings DEF Strings
  <2> QED
    BY <2>1, <2>3, <2>4, ConcatEmptySeq
<1>9. Join(<<c>> \o q) = (<<Slash>> \o c) \o Join(q)
  BY <1>5, <1>8, JoinConcat
<1>10. (<<Slash>> \o c) \o Join(q) = <<Slash>> \o (c \o Join(q))
  BY <1>4, <1>5, SlashTyped, ConcatStrings
<1>11. Rest(segs) \in Strings
  BY <1>4, <1>5, <1>7, ConcatStrings
<1>12. Split(Rest(segs), {Slash}) = e \o E
  <2>1. AllFree(e \o E, {Slash})
    BY <1>3 DEF Kept, AllFree, Free, Dividers, Slash
  <2>2. Free(c, {Slash})
    BY <1>1 DEF Kept, AllFree, Free, Dividers, Slash
  <2>3. AllFree(q, {Slash})
    <3>1. \A i \in 1..Len(q) : 1 + i \in 1..Len(e \o E) /\ q[i] = (e \o E)[1 + i]
      <4>1. /\ Len(<<c>>) = 1 /\ Len(q) \in Nat
            /\ Len(<<c>> \o q) = Len(<<c>>) + Len(q)
        BY <1>5, ConcatProperties
      <4>2. \A i \in 1..Len(<<c>>) + Len(q) :
              (<<c>> \o q)[i] = IF i <= Len(<<c>>) THEN <<c>>[i] ELSE q[i - Len(<<c>>)]
        BY <1>5, ConcatProperties
      <4> DEFINE a == <<c>>
      <4> HIDE DEF a
      <4>3. \A i \in 1..Len(q) : (a \o q)[1 + i] = q[i]
        <5> TAKE i \in 1..Len(q)
        <5>1. 1 + i \in 1..Len(a) + Len(q) /\ ~(1 + i <= Len(a)) /\ (1 + i) - Len(a) = i
          BY <4>1 DEF a
        <5>2. (a \o q)[1 + i] = IF 1 + i <= Len(a) THEN a[1 + i] ELSE q[(1 + i) - Len(a)]
          BY <4>2, <5>1 DEF a
        <5> QED
          BY <5>1, <5>2
      <4>4. Len(e \o E) = 1 + Len(q)
        BY <1>6, <4>1
      <4> QED
        BY <1>6, <4>1, <4>3, <4>4 DEF a
    <3> QED
      BY <2>1, <3>1 DEF AllFree
  <2>4. Split(<<>>, {Slash}) = <<<<>>>> /\ <<>> \in Strings
    BY SplitEmpty DEF Strings
  <2>5. Split(<<>> \o c, {Slash}) = Append(Front(<<<<>>>>), Last(<<<<>>>>) \o c)
    BY <1>4, <2>2, <2>4, SplitContinues
  <2>6. <<>> \o c = c
    BY <1>4, ConcatEmptySeq DEF Strings
  <2>7. Front(<<<<>>>>) = <<>> /\ Last(<<<<>>>>) = <<>>
    <3>1. Append(<<>>, <<>>) = <<<<>>>>
      BY <2>4, ShortSequences
    <3>2. Front(Append(<<>>, <<>>)) = <<>> /\ Last(Append(<<>>, <<>>)) = <<>>
      <4>1. <<>> \in Seq(Strings)
        OBVIOUS
      <4> QED
        BY <2>4, <4>1, FrontAndLast
    <3> QED
      BY <3>1, <3>2
  <2>8. Append(<<>>, c) = <<c>>
    BY <1>4, ShortSequences
  <2>9. Split(c, {Slash}) = <<c>>
    BY <2>5, <2>6, <2>7, <2>8
  <2>10. Split(c \o Join(q), {Slash}) = <<c>> \o q
    BY <1>4, <1>5, <2>3, <2>9, SplitJoin
  <2> QED
    BY <1>6, <1>7, <2>10
<1> QED
  BY <1>3, <1>6, <1>7, <1>9, <1>10, <1>11, <1>12 DEF e, E

\* The URL of a request, below any URL at which pretix publishes its API.
LEMMA PathBelow ==
  ASSUME NEW prefix \in MountPoints, NEW segs, Sendable(segs)
  PROVE  /\ prefix \o API_ROOT \in Strings
         /\ Kept(Mounted(prefix) \o (Encoded(segs) \o <<<<>>>>))
         /\ (prefix \o API_ROOT) \o Rest(segs) =
              Join(Mounted(prefix) \o (Encoded(segs) \o <<<<>>>>))
         /\ (prefix \o API_ROOT) \o Rest(segs) =
              Join(Mounted(prefix)) \o (Join(Encoded(segs)) \o <<Slash>>)
<1> DEFINE m == Mounted(prefix)
           e == Encoded(segs)
           E == <<<<>>>>
           j == Join(m)
           r == Rest(segs)
<1>1. Kept(m) /\ j \in Strings /\ m \in Seq(Strings) /\ prefix \o API_ROOT = j \o <<Slash>>
  BY MountedJoins DEF Kept
<1>2. Kept(e) /\ e \in Seq(Strings) /\ Kept(E) /\ E \in Seq(Strings) /\ Join(E) = <<Slash>>
  BY EncodedKept, KeptEnd DEF Kept
<1>3. r \in Strings /\ Kept(e \o E) /\ Join(e \o E) = <<Slash>> \o r
  BY RestDivides
<1> HIDE DEF m, e, E, j, r
<1>4. e \o E \in Seq(Strings) /\ Kept(m \o (e \o E))
  BY <1>1, <1>3, KeptConcat DEF Kept
<1>5. Join(m \o (e \o E)) = j \o Join(e \o E)
  BY <1>1, <1>4, JoinConcat DEF j
<1>6. (j \o <<Slash>>) \o r = j \o (<<Slash>> \o r)
  BY <1>1, <1>3, SlashTyped, ConcatStrings
<1>7. Join(e \o E) = Join(e) \o <<Slash>>
  BY <1>2, JoinConcat
<1>8. prefix \o API_ROOT \in Strings
  BY <1>1, SlashTyped, ConcatStrings
<1> QED
  BY <1>1, <1>3, <1>4, <1>5, <1>6, <1>7, <1>8 DEF m, e, E, j, r

\* A path below the root stays as it is in a URL.
LEMMA SetPathBelow ==
  ASSUME NEW prefix \in MountPoints, NEW segs, Sendable(segs), NEW url
  PROVE  SetPath(url, (prefix \o API_ROOT) \o Rest(segs)) =
           [url EXCEPT !.path = (prefix \o API_ROOT) \o Rest(segs)]
<1> DEFINE q == Mounted(prefix) \o (Encoded(segs) \o <<<<>>>>)
<1>1. Kept(q) /\ (prefix \o API_ROOT) \o Rest(segs) = Join(q)
  BY PathBelow
<1> HIDE DEF q
<1>2. SetPath(url, Join(q)) = [url EXCEPT !.path = Join(q)]
  BY <1>1, SetPathKeeps
<1> QED
  BY <1>1, <1>2

\* Path::to_url, for any segments that it accepts.
LEMMA ToUrlBelow ==
  ASSUME NEW prefix \in MountPoints, NEW segs \in Seq(Strings) \ {<<>>},
         NEW url, url.path = prefix \o API_ROOT
  PROVE  \/ ~Sendable(segs) /\ ToUrl(url, segs) = {}
         \/ /\ Sendable(segs)
            /\ ToUrl(url, segs) = {[url EXCEPT !.path = (prefix \o API_ROOT) \o Rest(segs)]}
<1>1. DOMAIN segs = 1..Len(segs)
  BY LenProperties
<1>2. CASE Sendable(segs)
  <2>1. ToUrl(url, segs) = {JoinedUrl(url, segs)}
    BY <1>1, <1>2 DEF ToUrl, Sendable
  <2>2. TrimEndSlashes(url.path) = Join(Mounted(prefix)) /\ Join(Mounted(prefix)) \in Strings
    BY MountedJoins
  <2>3. JoinedUrl(url, segs) =
          SetPath(url, (Join(Mounted(prefix)) \o Join(Encoded(segs))) \o <<Slash>>)
    BY <2>2 DEF JoinedUrl, Encoded
  <2>4. (Join(Mounted(prefix)) \o Join(Encoded(segs))) \o <<Slash>> =
          (prefix \o API_ROOT) \o Rest(segs)
    <3>1. Join(Encoded(segs)) \in Strings
      BY <1>2, EncodedKept, JoinTyped DEF Kept
    <3>2. (Join(Mounted(prefix)) \o Join(Encoded(segs))) \o <<Slash>> =
            Join(Mounted(prefix)) \o (Join(Encoded(segs)) \o <<Slash>>)
      BY <2>2, <3>1, SlashTyped, ConcatStrings
    <3> QED
      BY <1>2, <3>2, PathBelow
  <2> QED
    BY <1>2, <2>1, <2>3, <2>4, SetPathBelow
<1>3. CASE ~Sendable(segs)
  BY <1>1, <1>3 DEF ToUrl, Sendable
<1> QED
  BY <1>2, <1>3

\* What pretix reads of such a URL are the very segments.
LEMMA RoutedBelow ==
  ASSUME NEW prefix \in MountPoints, NEW segs, Sendable(segs),
         base.path = prefix \o API_ROOT
  PROVE  Routed(base.path \o Rest(segs)) = segs
<1> DEFINE e == Encoded(segs)
           E == <<<<>>>>
           root == prefix \o API_ROOT
           r == Rest(segs)
           parts == e \o E
<1>1. root \in Strings /\ r \in Strings
  BY PathBelow, RestDivides
<1>2. IsPrefix(root, root \o r) /\ SubSeq(root \o r, Len(root) + 1, Len(root \o r)) = r
  <2> HIDE DEF root, r
  <2> QED
    BY <1>1, DropConcat
<1>3. Split(r, {Slash}) = parts
  BY RestDivides
<1>4. /\ e \in Seq(Strings) /\ Len(e) = Len(segs) /\ Len(segs) \in Nat
      /\ \A i \in 1..Len(segs) : e[i] = Encode(segs[i], SEGMENT)
      /\ E \in Seq(Strings) /\ Len(E) = 1 /\ E[1] = <<>>
  BY EncodedKept, KeptEnd DEF Kept, Sendable
<1>5. segs = [i \in 1..Len(segs) |-> segs[i]] /\ \A i \in 1..Len(segs) : segs[i] \in Strings
  BY DEF Sendable
<1> HIDE DEF e, E
<1>6. /\ Len(parts) = Len(segs) + 1 /\ Last(parts) = <<>>
      /\ \A i \in 1..Len(segs) : parts[i] = e[i]
  <2>1. /\ parts \in Seq(Strings) /\ Len(parts) = Len(e) + Len(E)
        /\ \A i \in 1..Len(e) + Len(E) : parts[i] = IF i <= Len(e) THEN e[i] ELSE E[i - Len(e)]
    <3>1. e \in Seq(Strings) /\ E \in Seq(Strings)
      BY <1>4
    <3> QED
      BY <3>1, ConcatProperties
  <2> HIDE DEF parts
  <2>2. Len(parts) = Len(segs) + 1
    BY <1>4, <2>1
  <2>3. \A i \in 1..Len(segs) : parts[i] = e[i]
    BY <1>4, <2>1
  <2>4. parts[Len(segs) + 1] = E[1]
    <3>1. /\ Len(segs) + 1 \in 1..Len(e) + Len(E) /\ ~(Len(segs) + 1 <= Len(e))
          /\ (Len(segs) + 1) - Len(e) = 1
      BY <1>4
    <3> QED
      BY <2>1, <3>1
  <2> QED
    BY <1>4, <2>2, <2>3, <2>4 DEF Last
<1> HIDE DEF parts, r
<1>7. Routed(root \o r) = [i \in 1..Len(parts) - 1 |-> Decode(parts[i])]
  BY <1>2, <1>3, <1>6 DEF Routed
<1>8. \A i \in 1..Len(segs) : Decode(parts[i]) = segs[i]
  BY <1>4, <1>5, <1>6, DecodeEncode
<1>9. Len(parts) - 1 = Len(segs)
  BY <1>4, <1>6
<1> QED
  BY <1>5, <1>7, <1>8, <1>9 DEF r

-----------------------------------------------------------------------------
(* Links of other hosts and paths.                                         *)

LEMMA SuffixOfConcat ==
  ASSUME NEW t \in Strings, NEW u \in Strings
  PROVE  IsSuffix(u, t \o u)
<1> DEFINE v == t \o u
<1>1. /\ v \in Strings /\ Len(v) = Len(t) + Len(u) /\ Len(t) \in Nat /\ Len(u) \in Nat
      /\ \A i \in 1..Len(u) : v[Len(t) + i] = u[i]
  BY ConcatElements
<1> HIDE DEF v
<1>2. ASSUME NEW w \in Strings
      PROVE  Reverse(w) \in Strings /\ Len(Reverse(w)) = Len(w)
             /\ \A i \in 1..Len(w) : Reverse(w)[i] = w[(Len(w) - i) + 1]
  <2>1. Len(w) \in Nat /\ \A i \in 1..Len(w) : w[(Len(w) - i) + 1] \in Characters
    <3>1. Len(w) \in Nat /\ \A i \in 1..Len(w) : w[i] \in Characters
      BY ElementOfSeq DEF Strings
    <3> QED
      BY <3>1
  <2> QED
    BY <2>1 DEF Reverse, Strings
<1> DEFINE a == Reverse(u)
           b == Reverse(v)
<1>3. /\ a \in Strings /\ Len(a) = Len(u) /\ \A i \in 1..Len(u) : a[i] = u[(Len(u) - i) + 1]
      /\ b \in Strings /\ Len(b) = Len(v) /\ \A i \in 1..Len(v) : b[i] = v[(Len(v) - i) + 1]
  BY <1>1, <1>2
<1> HIDE DEF a, b
<1>4. \A i \in 1..Len(a) : b[i] = a[i]
  <2> TAKE i \in 1..Len(a)
  <2>1. /\ i \in 1..Len(v) /\ (Len(u) - i) + 1 \in 1..Len(u)
        /\ (Len(v) - i) + 1 = Len(t) + ((Len(u) - i) + 1)
    BY <1>1, <1>3
  <2>2. v[Len(t) + ((Len(u) - i) + 1)] = u[(Len(u) - i) + 1]
    BY <1>1, <2>1
  <2> QED
    BY <1>3, <2>1, <2>2
<1>5. SubSeq(a, 1, Len(a)) = SubSeq(b, 1, Len(a))
  <2>1. \A i \in 1..Len(a) : a[i] \in Characters /\ b[i] \in Characters
    BY <1>3, <1>4, ElementOfSeq DEF Strings
  <2>2. Len(a) \in Nat
    BY <1>1, <1>3
  <2>3. /\ SubSeq(b, 1, Len(a)) \in Seq(Characters) /\ Len(SubSeq(b, 1, Len(a))) = Len(a)
        /\ \A i \in 1..Len(a) : SubSeq(b, 1, Len(a))[i] = b[i]
    BY <2>1, <2>2, SubSeqProperties
  <2>4. SubSeq(a, 1, Len(a)) = a
    BY <1>3, SubSeqFull DEF Strings
  <2> QED
    BY <1>3, <1>4, <2>3, <2>4, SeqEqual DEF Strings
<1>6. IsPrefix(a, b)
  BY <1>1, <1>3, <1>5 DEF IsPrefix
<1> QED
  BY <1>6 DEF IsSuffix, a, b, v

\* Where a URL below a mount point has something else than one below another.
LEMMA RootElements ==
  /\ API_ROOT \in Strings /\ Len(API_ROOT) = 5
  /\ API_ROOT[1] = "/" /\ API_ROOT[2] = "api"
BY RootWithSlash DEF API_ROOT

LEMMA MountElements ==
  ASSUME NEW other \in MountPoints, NEW r \in Strings
  PROVE  /\ other \in Strings /\ API_ROOT \o r \in Strings
         /\ (other \o API_ROOT) \o r = other \o (API_ROOT \o r)
         /\ (other \o API_ROOT) \o r \in Strings
         /\ Len((other \o API_ROOT) \o r) = Len(other) + 5 + Len(r)
         /\ ((other \o API_ROOT) \o r)[2] = IF other = <<>> THEN "api" ELSE "pretix"
<1>1. other \in Strings /\ r \in Strings /\ API_ROOT \in Strings /\ Len(API_ROOT) = 5
  BY MountedJoins, RootElements
<1> DEFINE p == API_ROOT \o r
           q == other \o p
<1>2. /\ p \in Strings /\ Len(p) = 5 + Len(r) /\ Len(r) \in Nat
      /\ \A i \in 1..5 : p[i] = API_ROOT[i]
  <2>1. /\ p \in Strings /\ Len(p) = Len(API_ROOT) + Len(r) /\ Len(r) \in Nat
        /\ \A i \in 1..Len(API_ROOT) : p[i] = API_ROOT[i]
    BY <1>1, ConcatElements
  <2> HIDE DEF p
  <2> QED
    BY <1>1, <2>1
<1>3. p[2] = "api"
  BY <1>2, RootElements
<1>4. (other \o API_ROOT) \o r = q
  BY <1>1, ConcatStrings
<1> HIDE DEF p
<1>5. /\ q \in Strings /\ Len(q) = Len(other) + Len(p) /\ Len(other) \in Nat
      /\ \A i \in 1..Len(other) : q[i] = other[i]
      /\ \A i \in 1..Len(p) : q[Len(other) + i] = p[i]
  BY <1>1, <1>2, ConcatElements
<1> HIDE DEF q
<1>6. q[2] = IF other = <<>> THEN "api" ELSE "pretix"
  <2>1. CASE other = <<>>
    <3>1. Len(other) = 0 /\ 2 \in 1..Len(p) /\ 0 + 2 = 2
      BY <1>2, <2>1
    <3>2. q[Len(other) + 2] = p[2]
      BY <1>5, <3>1
    <3> QED
      BY <1>3, <2>1, <3>1, <3>2
  <2>2. CASE other = <<Slash, "pretix">>
    <3>1. Len(other) = 2 /\ other[2] = "pretix" /\ other # <<>>
      BY <2>2
    <3> QED
      BY <1>5, <3>1
  <2> QED
    BY <2>1, <2>2 DEF MountPoints
<1>7. Len(q) = Len(other) + 5 + Len(r)
  BY <1>2, <1>5
<1> QED
  BY <1>1, <1>2, <1>4, <1>5, <1>6, <1>7 DEF p, q

LEMMA SubSeqOfCharacters ==
  ASSUME NEW t, NEW m \in Int, NEW n \in Int, \A i \in m..n : t[i] \in Characters
  PROVE  /\ SubSeq(t, m, n) \in Seq(Characters)
         /\ Len(SubSeq(t, m, n)) = IF m <= n THEN n - m + 1 ELSE 0
         /\ \A i \in 1..n - m + 1 : SubSeq(t, m, n)[i] = t[m + i - 1]
BY SubSeqProperties

\* The root of the API comes first where the prefix ends, whatever follows.
LEMMA RootOccurs ==
  ASSUME NEW other \in MountPoints, NEW r \in Strings, NEW u, u = (other \o API_ROOT) \o r
  PROVE  /\ Len(other) + 1 \in Occurrences(u, API_ROOT)
         /\ \A j \in Occurrences(u, API_ROOT) : Len(other) + 1 <= j
<1> DEFINE p == API_ROOT \o r
           n == Len(other)
<1>1. /\ other \in Strings /\ p \in Strings /\ u = other \o p /\ u \in Strings
      /\ Len(u) = n + 5 + Len(r) /\ Len(r) \in Nat /\ n \in Nat
      /\ u[2] = IF other = <<>> THEN "api" ELSE "pretix"
  <2>1. Len(r) \in Nat
    BY DEF Strings
  <2>2. other \in Strings
    BY MountElements
  <2>3. n \in Nat
    BY <2>2 DEF Strings
  <2> QED
    BY <2>1, <2>3, MountElements
<1>2. /\ API_ROOT \in Strings /\ Len(API_ROOT) = 5
      /\ API_ROOT[1] = "/" /\ API_ROOT[2] = "api"
  BY RootElements
<1>3. \A i \in 1..Len(u) : u[i] \in Characters
  BY <1>1, ElementOfSeq DEF Strings
<1>4. \A i \in 1..5 : u[n + i] = API_ROOT[i]
  <2>1. Len(p) = Len(API_ROOT) + Len(r) /\ \A i \in 1..Len(API_ROOT) : p[i] = API_ROOT[i]
    BY <1>2, ConcatElements
  <2>2. \A i \in 1..Len(p) : (other \o p)[n + i] = p[i]
    BY <1>1, ConcatElements
  <2> HIDE DEF p, n
  <2>3. \A i \in 1..5 : i \in 1..Len(p) /\ p[i] = API_ROOT[i]
    BY <1>1, <1>2, <2>1
  <2> QED
    BY <1>1, <2>2, <2>3
<1> HIDE DEF p, n
<1>5. ASSUME NEW i \in 1..Len(u) - 5 + 1
      PROVE  /\ SubSeq(u, i, i + 5 - 1) \in Seq(Characters)
             /\ Len(SubSeq(u, i, i + 5 - 1)) = 5
             /\ \A k \in 1..5 : SubSeq(u, i, i + 5 - 1)[k] = u[i + k - 1]
  <2>1. i \in Int /\ i + 5 - 1 \in Int /\ \A k \in i..(i + 5 - 1) : u[k] \in Characters
    BY <1>1, <1>3
  <2>2. i <= i + 5 - 1 /\ (i + 5 - 1) - i + 1 = 5
    BY <1>1
  <2>3. /\ SubSeq(u, i, i + 5 - 1) \in Seq(Characters)
        /\ Len(SubSeq(u, i, i + 5 - 1)) = IF i <= i + 5 - 1 THEN (i + 5 - 1) - i + 1 ELSE 0
        /\ \A k \in 1..(i + 5 - 1) - i + 1 : SubSeq(u, i, i + 5 - 1)[k] = u[i + k - 1]
    BY <2>1, SubSeqOfCharacters
  <2> QED
    BY <2>2, <2>3
<1>6. Occurrences(u, API_ROOT) = {i \in 1..Len(u) - 5 + 1 : SubSeq(u, i, i + 5 - 1) = API_ROOT}
  BY <1>2 DEF Occurrences
<1>7. n + 1 \in Occurrences(u, API_ROOT)
  <2>1. n + 1 \in 1..Len(u) - 5 + 1
    BY <1>1
  <2> DEFINE s == SubSeq(u, n + 1, (n + 1) + 5 - 1)
  <2>2. /\ s \in Seq(Characters) /\ Len(s) = 5
        /\ \A k \in 1..5 : s[k] = u[(n + 1) + k - 1]
    BY <1>5, <2>1
  <2> HIDE DEF s
  <2>3. \A k \in 1..5 : s[k] = API_ROOT[k]
    <3> TAKE k \in 1..5
    <3>1. (n + 1) + k - 1 = n + k
      BY <1>1
    <3> QED
      BY <1>4, <2>2, <3>1
  <2>4. s = API_ROOT
    BY <1>2, <2>2, <2>3, SeqEqual DEF Strings
  <2> QED
    BY <1>6, <2>1, <2>4 DEF s
<1>8. ASSUME NEW j \in Occurrences(u, API_ROOT)
      PROVE  n + 1 <= j
  <2>1. j \in 1..Len(u) - 5 + 1 /\ SubSeq(u, j, j + 5 - 1) = API_ROOT
    BY <1>6
  <2>2. \A k \in 1..5 : API_ROOT[k] = u[j + k - 1]
    BY <1>5, <2>1
  <2>3. CASE other = <<>>
    <3>1. n = 0
      BY <2>3 DEF n
    <3> QED
      BY <1>1, <2>1, <3>1
  <2>4. CASE other = <<Slash, "pretix">>
    <3>1. n = 2 /\ u[2] = "pretix"
      BY <1>1, <2>4 DEF n
    <3>2. \A k \in 1..5 : j + k - 1 = 2 => API_ROOT[k] = "pretix"
      BY <2>2, <3>1
    <3>3. j + 2 - 1 # 2 /\ j + 1 - 1 # 2
      BY <1>2, <3>2
    <3> QED
      BY <1>1, <2>1, <3>1, <3>3
  <2> QED
    BY <2>3, <2>4 DEF MountPoints
<1> QED
  BY <1>7, <1>8 DEF n

\* A URL with another path and query.
Redirected(url, path, query) == [[url EXCEPT !.path = path] EXCEPT !.query = query]

\* Opaque forms of the paths, for the provers to match.
At(url, path) == url.path = path
Root(prefix) == prefix \o API_ROOT
Below(prefix, segs) == Root(prefix) \o Rest(segs)

\* A link of any host to a path below any mount point leads below that of the
\* client.
LEMMA RebaseBelow ==
  ASSUME NEW prefix \in MountPoints, NEW other \in MountPoints, NEW segs, Sendable(segs),
         NEW own, At(own, Root(prefix)),
         NEW url, At(url, Below(other, segs))
  PROVE  Rebase(own, url) = Redirected(own, Below(prefix, segs), url.query)
<1> USE DEF At, Root, Below
<1> DEFINE r == Rest(segs)
           u == (other \o API_ROOT) \o r
           b == prefix \o API_ROOT
           found == Occurrences(u, API_ROOT)
           first == CHOOSE i \in found : \A j \in found : i <= j
           foreign == IsSuffix(API_ROOT, b) /\ found # {} /\ ~IsPrefix(b, u)
           path == IF foreign
                   THEN SubSeq(b, 1, Len(b) - Len(API_ROOT)) \o SubSeq(u, first, Len(u))
                   ELSE u
<1>1. r \in Strings
  BY RestDivides
<1>2. /\ prefix \in Strings /\ other \in Strings /\ API_ROOT \in Strings /\ Len(API_ROOT) = 5
      /\ b \in Strings /\ u \in Strings
  BY <1>1, MountedJoins, MountElements, RootElements, PathBelow
<1>3. Rebase(own, url) = [SetPath(own, path) EXCEPT !.query = url.query]
  BY DEF Rebase
<1>4. path = b \o r
  <2>1. CASE prefix = other
    <3>1. IsPrefix(b, b \o r)
      <4> HIDE DEF b, r
      <4> QED
        BY <1>1, <1>2, DropConcat
    <3> QED
      BY <2>1, <3>1
  <2>2. CASE prefix # other
    <3> DEFINE p == API_ROOT \o r
    <3>1. IsSuffix(API_ROOT, b)
      BY <1>2, SuffixOfConcat
    <3>2. Len(other) + 1 \in found /\ \A j \in found : Len(other) + 1 <= j
      <4> HIDE DEF r
      <4> QED
        BY <1>1, RootOccurs
    <3>3. first = Len(other) + 1
      <4> HIDE DEF found
      <4>1. first \in found /\ \A j \in found : first <= j
        BY <3>2
      <4>2. found \subseteq Int
        BY DEF found, Occurrences
      <4> HIDE DEF first
      <4>3. first <= Len(other) + 1 /\ Len(other) + 1 <= first
        BY <3>2, <4>1
      <4>4. first \in Int /\ Len(other) + 1 \in Int
        BY <3>2, <4>1, <4>2
      <4> QED
        BY <4>3, <4>4
    <3>4. ~IsPrefix(b, u)
      <4>1. /\ b \o r \in Strings /\ (b \o r)[2] = IF prefix = <<>> THEN "api" ELSE "pretix"
            /\ u[2] = IF other = <<>> THEN "api" ELSE "pretix"
        <5> HIDE DEF r
        <5> QED
          BY <1>1, MountElements
      <4>2. (b \o r)[2] # u[2]
        BY <2>2, <4>1 DEF MountPoints
      <4>3. Len(b) \in Nat /\ Len(b) >= 5 /\ b[2] = (b \o r)[2]
        <5>1. Len(b) = Len(prefix) + Len(API_ROOT) /\ Len(prefix) \in Nat
          BY <1>2, ConcatElements
        <5>2. Len(b) \in Nat /\ Len(b) >= 5
          BY <1>2, <5>1
        <5>3. \A i \in 1..Len(b) : (b \o r)[i] = b[i]
          <6> HIDE DEF b, r
          <6> QED
            BY <1>1, <1>2, ConcatElements
        <5> QED
          BY <5>2, <5>3
      <4> HIDE DEF b, u, r
      <4> SUFFICES ASSUME IsPrefix(b, u)
                   PROVE  b[2] = u[2]
        BY <4>2, <4>3
      <4>4. Len(b) <= Len(u) /\ SubSeq(b, 1, Len(b)) = SubSeq(u, 1, Len(b)) /\ Len(u) \in Nat
        BY <1>2 DEF IsPrefix, Strings
      <4>5. \A i \in 1..Len(b) : b[i] \in Characters /\ u[i] \in Characters
        <5>1. \A i \in 1..Len(b) : b[i] \in Characters
          BY <1>2, ElementOfSeq DEF Strings
        <5>2. \A i \in 1..Len(u) : u[i] \in Characters
          BY <1>2, ElementOfSeq DEF Strings
        <5> QED
          BY <4>3, <4>4, <5>1, <5>2
      <4>6. \A i \in 1..Len(b) - 1 + 1 : SubSeq(b, 1, Len(b))[i] = b[1 + i - 1]
        BY <4>3, <4>5, SubSeqProperties
      <4>7. \A i \in 1..Len(b) - 1 + 1 : SubSeq(u, 1, Len(b))[i] = u[1 + i - 1]
        BY <4>3, <4>5, SubSeqProperties
      <4>8. 2 \in 1..Len(b) - 1 + 1 /\ 1 + 2 - 1 = 2
        BY <4>3
      <4> QED
        BY <4>4, <4>6, <4>7, <4>8
    <3>5. SubSeq(b, 1, Len(b) - Len(API_ROOT)) = prefix
      <4>1. /\ Len(b) = Len(prefix) + Len(API_ROOT) /\ Len(prefix) \in Nat
            /\ \A i \in 1..Len(prefix) : b[i] = prefix[i]
        BY <1>2, ConcatElements
      <4> HIDE DEF b
      <4>2. Len(b) - Len(API_ROOT) = Len(prefix)
        BY <1>2, <4>1
      <4>3. \A i \in 1..Len(prefix) : prefix[i] \in Characters /\ b[i] \in Characters
        BY <1>2, <4>1, ElementOfSeq DEF Strings
      <4>4. /\ SubSeq(b, 1, Len(prefix)) \in Seq(Characters)
            /\ Len(SubSeq(b, 1, Len(prefix))) = Len(prefix)
            /\ \A i \in 1..Len(prefix) : SubSeq(b, 1, Len(prefix))[i] = b[i]
        BY <4>1, <4>3, SubSeqProperties
      <4>5. SubSeq(b, 1, Len(prefix)) = prefix
        BY <1>2, <4>1, <4>4, SeqEqual DEF Strings
      <4> QED
        BY <4>2, <4>5
    <3>6. /\ p \in Strings /\ u = other \o p /\ b \o r = prefix \o p
      <4> HIDE DEF r
      <4> QED
        BY <1>1, MountElements
    <3>7. SubSeq(u, first, Len(u)) = p
      <4> HIDE DEF p, first, u
      <4> QED
        BY <1>2, <3>3, <3>6, DropConcat
    <3>8. foreign
      BY <3>1, <3>2, <3>4
    <3> HIDE DEF foreign, p, first, u, b
    <3> QED
      BY <3>5, <3>6, <3>7, <3>8
  <2> QED
    BY <2>1, <2>2
<1> HIDE DEF path
<1>5. SetPath(own, b \o r) = [own EXCEPT !.path = b \o r]
  BY SetPathBelow
<1> QED
  BY <1>3, <1>4, <1>5 DEF Redirected

-----------------------------------------------------------------------------
(* Of the requests with such a URL, one endpoint answers each.             *)

\* The segments of every call are texts.
LEMMA SegmentsTyped ==
  ASSUME NEW e \in AllEndpoints, NEW at, NEW argument \in Strings
  PROVE  /\ SegmentsOf(e, at, argument) \in Seq(Strings) \ {<<>>}
         /\ Len(SegmentsOf(e, at, argument)) = Len(e.path)
<1> DEFINE segs == SegmentsOf(e, at, argument)
<1>1. e.path \in Seq(STRING) /\ e.path # <<>>
  BY RoutesAssumption
<1>2. DOMAIN e.path = 1..Len(e.path) /\ Len(e.path) \in Nat \ {0}
  BY <1>1, EmptySeq, LenProperties
<1>3. ASSUME NEW i \in 1..Len(e.path)
      PROVE  segs[i] \in Strings
  <2>1. e.path[i] \in Characters
    BY <1>1, ElementOfSeq DEF Characters
  <2>2. <<e.path[i]>> \in Strings
    BY <2>1 DEF Strings
  <2>3. Plain \in Strings /\ Numeral \in Strings
    BY Literals DEF Plain, Numeral
  <2> QED
    BY <1>2, <2>2, <2>3 DEF SegmentsOf
<1>4. segs = [i \in 1..Len(e.path) |-> segs[i]]
  BY <1>2 DEF SegmentsOf
<1> HIDE DEF segs
<1>5. segs \in [1..Len(e.path) -> Strings]
  BY <1>3, <1>4
<1>6. segs \in Seq(Strings) /\ Len(segs) = Len(e.path)
  BY <1>2, <1>5
<1>7. segs # <<>>
  BY <1>2, <1>6, EmptySeq
<1> QED
  BY <1>6, <1>7 DEF segs

\* No other endpoint is meant by the same request.
LEMMA OneEndpointAnswers ==
  ASSUME NEW e \in AllEndpoints, NEW at, NEW argument \in Strings,
         Sendable(SegmentsOf(e, at, argument)),
         NEW url, Routed(url.path) = SegmentsOf(e, at, argument),
         url.query \ {SecondPage} = e.fixed
  PROVE  Executions(e.method, url) =
           {Execution(e, SegmentsOf(e, at, argument), url.query)}
<1> DEFINE segs == SegmentsOf(e, at, argument)
           shape == <<e.method, Len(e.path)>>
<1>1. /\ segs \in Seq(Strings) /\ Len(segs) = Len(e.path)
      /\ \A i \in 1..Len(segs) : segs[i] # <<>>
  BY SegmentsTyped DEF Sendable
<1>2. DOMAIN e.path = 1..Len(e.path)
  BY RoutesAssumption, LenProperties
<1>3. Matches(e, segs)
  <2>1. ASSUME NEW i \in DOMAIN e.path
        PROVE  CASE e.path[i] = Text -> segs[i] # <<>>
                 [] e.path[i] = Number -> segs[i] = Numeral
                 [] OTHER -> segs[i] = <<e.path[i]>>
    <3>1. segs[i] # <<>>
      BY <1>1, <1>2
    <3>2. segs[i] = CASE e.path[i] = Text -> IF i = at THEN argument ELSE Plain
                      [] e.path[i] = Number -> Numeral
                      [] OTHER -> <<e.path[i]>>
      BY DEF SegmentsOf
    <3> HIDE DEF segs
    <3> QED
      BY <3>1, <3>2 DEF Text, Number
  <2> HIDE DEF segs
  <2> QED
    BY <2>1 DEF Matches
<1>4. ASSUME NEW o \in AllEndpoints \ {e}, shape = <<o.method, Len(o.path)>>,
             o.fixed = e.fixed
      PROVE  ~Matches(o, segs)
  <2>1. PICK i \in DOMAIN e.path : Differ(e.path[i], o.path[i])
    BY <1>4, RoutesAssumption
  <2>2. i \in DOMAIN o.path
    <3>1. DOMAIN o.path = 1..Len(o.path)
      BY RoutesAssumption, LenProperties
    <3> QED
      BY <1>2, <1>4, <2>1, <3>1
  <2>3. segs[i] = <<e.path[i]>>
    BY <2>1 DEF SegmentsOf, Differ
  <2>4. <<e.path[i]>> # <<o.path[i]>>
    BY <2>1 DEF Differ
  <2> HIDE DEF segs
  <2> QED
    BY <2>1, <2>2, <2>3, <2>4 DEF Matches, Differ
<1>5. shape \in Shapes /\ EndpointsOf[shape] = {o \in AllEndpoints : shape = <<o.method, Len(o.path)>>}
  BY DEF Shapes, EndpointsOf
<1>6. {o \in EndpointsOf[shape] : Matches(o, segs) /\ o.fixed = url.query \ {SecondPage}} = {e}
  <2> HIDE DEF segs
  <2> QED
    BY <1>3, <1>4, <1>5
<1>7. Executions(e.method, url) =
        {Execution(o, segs, url.query) :
           o \in {o \in EndpointsOf[shape] : Matches(o, segs) /\ o.fixed = url.query \ {SecondPage}}}
  <2>1. Routed(url.path) = segs /\ Len(segs) = Len(e.path)
    BY <1>1
  <2> HIDE DEF segs
  <2> QED
    BY <1>5, <2>1 DEF Executions
<1> HIDE DEF segs, shape
<1>8. Executions(e.method, url) = {Execution(e, segs, url.query)}
  BY <1>6, <1>7
<1> QED
  BY <1>8 DEF segs

-----------------------------------------------------------------------------
(* The calls.                                                              *)

\* The segments of the call.
Segs == SegmentsOf(called, slot, text)

\* What the query of the request says.
Pairs ==
  called.fixed \cup (IF link # {} /\ step # "answered" THEN {SecondPage} ELSE {})

Request == [origin |-> base.origin, query |-> Pairs, path |-> base.path \o Rest(Segs)]

\* The only link that pretix could answer with.
NextPage ==
  [origin |-> "internal", query |-> called.fixed \cup {SecondPage},
   path |-> (reported \o API_ROOT) \o Rest(Segs)]

CallOK ==
  /\ \E prefix \in MountPoints : base.path = prefix \o API_ROOT
  /\ base = [origin |-> base.origin, query |-> base.query, path |-> base.path]
  /\ reported \in MountPoints
  /\ called \in AllEndpoints
  /\ text \in Strings

\* There is one request that could be under way, one link to answer it with,
\* and one endpoint to execute it.
RoutingInv ==
  /\ CallOK
  /\ step \in {"calling", "refused", "sent", "done", "answered"}
  /\ step = "calling" => link = {}
  /\ step \in {"calling", "refused"} => outgoing = {}
  /\ step \in {"sent", "done", "answered"} => Sendable(Segs) /\ outgoing = {Request}
  /\ step \in {"done", "answered"} => reached = {Execution(called, Segs, Pairs)}
  /\ step = "answered" => link # {}
  /\ link \subseteq {NextPage}

LEMMA CallsTyped ==
  ASSUME CallOK
  PROVE  Segs \in Seq(Strings) \ {<<>>}
BY SegmentsTyped DEF CallOK, Segs

LEMMA RoutingInitOK == RoutingInit => RoutingInv
<1> SUFFICES ASSUME RoutingInit
             PROVE  RoutingInv
  OBVIOUS
<1>1. PICK path \in BasePaths : base = ParseBaseUrl("configured", path)
  BY DEF RoutingInit
<1>2. base = [origin |-> base.origin, query |-> base.query, path |-> base.path]
  BY <1>1 DEF ParseBaseUrl
<1>3. \E prefix \in MountPoints : base.path = prefix \o API_ROOT
  BY <1>1, BasePathsAssumption
<1>4. text \in Strings
  <2>1. CASE text \in Texts
    <3>1. text \in Seq(STRING)
      BY <2>1, TextsAssumption
    <3>2. text \in Seq(Characters)
      <4>1. /\ Len(text) \in Nat /\ text = [i \in 1..Len(text) |-> text[i]]
            /\ \A i \in 1..Len(text) : text[i] \in STRING
        BY <3>1, ElementOfSeq
      <4>2. \A i \in 1..Len(text) : text[i] \in Characters
        BY <4>1 DEF Characters
      <4> QED
        BY <4>1, <4>2
    <3> QED
      BY <3>2 DEF Strings
  <2>2. CASE text = Plain
    BY <2>2, Literals DEF Plain
  <2>3. CASE slot # 0 /\ text \in Words(called, slot)
    <3>1. slot \in DOMAIN called.path /\ called \in AllEndpoints
      BY <2>3 DEF RoutingInit, TextSlots
    <3>2. PICK other \in AllEndpoints : Len(other.path) >= slot /\ text = <<other.path[slot]>>
      BY <2>3 DEF Words
    <3>3. DOMAIN called.path = 1..Len(called.path) /\ other.path \in Seq(STRING)
      BY <3>1, RoutesAssumption, LenProperties
    <3>4. slot \in 1..Len(other.path)
      <4>1. slot \in Nat /\ slot >= 1 /\ Len(other.path) \in Nat
        BY <3>1, <3>3, LenProperties
      <4> QED
        BY <3>2, <4>1
    <3>5. other.path[slot] \in STRING
      BY <3>3, <3>4, ElementOfSeq
    <3>6. other.path[slot] \in Characters
      BY <3>5 DEF Characters
    <3> QED
      BY <3>2, <3>6 DEF Strings
  <2> QED
    BY <2>1, <2>2, <2>3 DEF RoutingInit
<1>5. CallOK
  BY <1>2, <1>3, <1>4 DEF CallOK, RoutingInit
<1> QED
  BY <1>5 DEF RoutingInv, RoutingInit

\* The URL of a client has nothing else than these parts.
LEMMA RequestUrl ==
  ASSUME CallOK, NEW path, NEW query
  PROVE  Redirected(base, path, query) =
           [origin |-> base.origin, query |-> query, path |-> path]
<1>1. PICK o, q, p : base = [origin |-> o, query |-> q, path |-> p]
  BY DEF CallOK
<1>2. base.origin = o
  BY <1>1
<1>3. [base EXCEPT !.path = path] = [origin |-> o, query |-> q, path |-> path]
  BY <1>1
<1>4. [[origin |-> o, query |-> q, path |-> path] EXCEPT !.query = query] =
        [origin |-> o, query |-> query, path |-> path]
  OBVIOUS
<1> QED
  BY <1>2, <1>3, <1>4 DEF Redirected

LEMMA RoutingBuild ==
  ASSUME RoutingInv, Build
  PROVE  RoutingInv'
<1> USE DEF RoutingInv
<1>1. CallOK' /\ Segs' = Segs /\ link' = {} /\ link = {}
  BY DEF Build, call, CallOK, Segs
<1>2. PICK prefix \in MountPoints : base.path = prefix \o API_ROOT
  BY DEF CallOK
<1>3. \/ ~Sendable(Segs) /\ ToUrl(base, Segs) = {}
      \/ Sendable(Segs) /\ ToUrl(base, Segs) = {[base EXCEPT !.path = base.path \o Rest(Segs)]}
  BY <1>2, CallsTyped, ToUrlBelow
<1>4. /\ outgoing' = {[url EXCEPT !.query = called.fixed] : url \in ToUrl(base, Segs)}
      /\ step' = (IF outgoing' = {} THEN "refused" ELSE "sent")
  BY DEF Build, Segs
<1>5. CASE ~Sendable(Segs)
  <2>1. outgoing' = {} /\ step' = "refused"
    BY <1>3, <1>4, <1>5
  <2> QED
    BY <1>1, <2>1
<1>6. CASE Sendable(Segs)
  <2>1. ToUrl(base, Segs) = {[base EXCEPT !.path = base.path \o Rest(Segs)]}
    BY <1>3, <1>6
  <2>2. /\ outgoing' = {[[base EXCEPT !.path = base.path \o Rest(Segs)] EXCEPT !.query = called.fixed]}
        /\ step' = "sent"
    BY <1>4, <2>1
  <2>3. [[base EXCEPT !.path = base.path \o Rest(Segs)] EXCEPT !.query = called.fixed] =
          [origin |-> base.origin, query |-> called.fixed, path |-> base.path \o Rest(Segs)]
    BY RequestUrl DEF Redirected
  <2>4. Request' = [origin |-> base.origin, query |-> called.fixed, path |-> base.path \o Rest(Segs)]
    <3>1. Pairs' = called.fixed
      BY <1>1 DEF Pairs, Build, call
    <3> QED
      BY <1>1, <3>1 DEF Request, Build, call
  <2> QED
    BY <1>1, <1>6, <2>2, <2>3, <2>4
<1> QED
  BY <1>5, <1>6

LEMMA RoutingExecute ==
  ASSUME RoutingInv, Execute
  PROVE  RoutingInv'
<1> USE DEF RoutingInv
<1>1. /\ CallOK' /\ Segs' = Segs /\ NextPage' = NextPage /\ Pairs' = Pairs /\ Request' = Request
      /\ link' = link /\ outgoing' = outgoing /\ step = "sent" /\ step' = "done"
  BY DEF Execute, call, CallOK, Segs, NextPage, Pairs, Request
<1>2. Sendable(Segs) /\ outgoing = {Request}
  BY <1>1
<1>3. Executions(called.method, Request) = {Execution(called, Segs, Pairs)}
  <2>1. PICK prefix \in MountPoints : base.path = prefix \o API_ROOT
    BY DEF CallOK
  <2>2. Routed(Request.path) = Segs
    BY <1>2, <2>1, RoutedBelow DEF Request
  <2>3. Request.query \ {SecondPage} = called.fixed
    BY RoutesAssumption DEF Request, Pairs, CallOK
  <2>4. Request.query = Pairs
    BY DEF Request
  <2>5. called \in AllEndpoints /\ text \in Strings
    BY DEF CallOK
  <2> HIDE DEF RoutingInv
  <2>6. Executions(called.method, Request) = {Execution(called, Segs, Request.query)}
    BY <1>2, <2>2, <2>3, <2>5, OneEndpointAnswers DEF Segs
  <2> QED
    BY <2>4, <2>6
<1>4. reached' = {Execution(called, Segs, Pairs)}
  BY <1>2, <1>3 DEF Execute
<1>5. Execution(called, Segs, Pairs)' = Execution(called, Segs, Pairs)
  BY <1>1 DEF Execution, Execute, call
<1> QED
  BY <1>1, <1>2, <1>4, <1>5

LEMMA RoutingAnswerLink ==
  ASSUME RoutingInv, AnswerLink
  PROVE  RoutingInv'
<1> USE DEF RoutingInv
<1>1. /\ CallOK' /\ Segs' = Segs /\ NextPage' = NextPage /\ Pairs' = Pairs /\ Request' = Request
      /\ outgoing' = outgoing /\ reached' = reached /\ called' = called
      /\ step = "done" /\ step' = "answered" /\ link = {}
  BY DEF AnswerLink, call, CallOK, Segs, NextPage, Pairs, Request
<1>2. Sendable(Segs) /\ outgoing = {Request} /\ Pairs = called.fixed
  BY <1>1 DEF Pairs
<1>3. SubSeq(Request.path, Len(base.path) + 1, Len(Request.path)) = Rest(Segs)
  <2>1. base.path \in Strings /\ Rest(Segs) \in Strings
    BY <1>2, PathBelow, RestDivides DEF CallOK
  <2> QED
    BY <2>1, DropConcat DEF Request
<1>4. link' = {NextPage}
  <2>1. link' = {[origin |-> "internal", query |-> Request.query \cup {SecondPage},
                  path |-> reported \o API_ROOT
                             \o SubSeq(Request.path, Len(base.path) + 1, Len(Request.path))]}
    BY <1>2 DEF AnswerLink
  <2>2. Request.query = called.fixed
    BY <1>2 DEF Request
  <2> QED
    BY <1>3, <2>1, <2>2 DEF NextPage
<1> QED
  BY <1>1, <1>2, <1>4 DEF Execution

LEMMA RoutingFollowLink ==
  ASSUME RoutingInv, FollowLink
  PROVE  RoutingInv'
<1> USE DEF RoutingInv
<1>1. /\ CallOK' /\ Segs' = Segs /\ NextPage' = NextPage /\ called' = called /\ base' = base
      /\ link' = link /\ step = "answered" /\ step' = "sent" /\ link = {NextPage}
  BY DEF FollowLink, call, CallOK, Segs, NextPage
<1>2. Sendable(Segs)
  BY <1>1
<1>3. PICK prefix \in MountPoints : base.path = prefix \o API_ROOT
  BY DEF CallOK
<1>4. /\ At(base, Root(prefix))
      /\ reported \in MountPoints /\ At(NextPage, Below(reported, Segs))
  BY <1>3 DEF CallOK, NextPage, At, Root, Below
<1>5. Rebase(base, NextPage) = Redirected(base, base.path \o Rest(Segs), NextPage.query)
  <2> HIDE DEF RoutingInv
  <2>1. Rebase(base, NextPage) = Redirected(base, Below(prefix, Segs), NextPage.query)
    BY <1>2, <1>4, RebaseBelow
  <2>2. Below(prefix, Segs) = base.path \o Rest(Segs)
    BY <1>3 DEF Root, Below
  <2> QED
    BY <2>1, <2>2
<1>6. Redirected(base, base.path \o Rest(Segs), NextPage.query) =
        [origin |-> base.origin, query |-> NextPage.query, path |-> base.path \o Rest(Segs)]
  BY RequestUrl
<1>7. Rebase(base, NextPage) =
        [origin |-> base.origin, query |-> NextPage.query, path |-> base.path \o Rest(Segs)]
  BY <1>5, <1>6
<1>8. NextPage.query = Pairs'
  BY <1>1 DEF NextPage, Pairs
<1>9. Rebase(base, NextPage) = Request'
  BY <1>1, <1>7, <1>8 DEF Request
<1>10. outgoing' = {Request'}
  BY <1>1, <1>9 DEF FollowLink
<1> QED
  BY <1>1, <1>2, <1>10

\* One request could be under way, and the endpoint called is all that it reaches.
THEOREM RoutingInvariant == RoutingSpec => []RoutingInv
<1>1. RoutingInit => RoutingInv
  BY RoutingInitOK
<1>2. RoutingInv /\ [RoutingNext]_routing => RoutingInv'
  <2> SUFFICES ASSUME RoutingInv, [RoutingNext]_routing
               PROVE  RoutingInv'
    OBVIOUS
  <2>1. CASE UNCHANGED routing
    BY <2>1 DEF routing, call, RoutingInv, CallOK, Segs, NextPage, Pairs, Request, Execution
  <2> QED
    BY <2>1, RoutingBuild, RoutingExecute, RoutingAnswerLink, RoutingFollowLink DEF RoutingNext
<1> QED
  BY <1>1, <1>2, PTL DEF RoutingSpec

\* ReachesItsEndpoint: whatever texts identify, pretix executes the endpoint
\* whose method was called, for these very identifiers, or nothing is sent.
THEOREM EveryCallReachesItsEndpoint == RoutingSpec => []ReachesItsEndpoint
<1>1. RoutingInv => ReachesItsEndpoint
  <2> SUFFICES ASSUME RoutingInv
               PROVE  ReachesItsEndpoint
    OBVIOUS
  <2>1. \A url \in outgoing : url.origin = base.origin
    BY DEF RoutingInv, Request
  <2>2. ASSUME step \in {"done", "answered"}
        PROVE  Pairs = called.fixed \cup (IF step = "done" /\ link # {} THEN {SecondPage} ELSE {})
    BY <2>2 DEF Pairs
  <2> QED
    BY <2>1, <2>2 DEF ReachesItsEndpoint, RoutingInv, Segs
<1> QED
  BY <1>1, RoutingInvariant, PTL

=============================================================================
