------------------------- MODULE DurableSync_proof -------------------------
(***************************************************************************)
(* The copy of a DurableSync misses nothing, however many objects, pages,  *)
(* changes, faults and rounds there are.                                   *)
(*                                                                         *)
(* Argument.  A list that is looked at since a time only ever gains        *)
(* objects, or it has changed and all of it will be looked at again; so    *)
(* an object that nobody touches never moves towards the front, past the   *)
(* pages that have been read.  Hence, of the objects that have not changed *)
(* since the first page was generated, those in front of the cursor are in *)
(* what has been got (ReadSoFar), and with an answer on its way those on   *)
(* its page as well (Answered).                                            *)
(***************************************************************************)
EXTENDS DurableSync, FiniteSetTheorems, TLAPS

-----------------------------------------------------------------------------
(* The inductive invariant.                                                *)

Records == [version : Nat, changed : Nat]

Metas == [page_generated : Nat, last_modified : Nat]

ServerOK ==
  /\ mode \in {"incremental", "conditional"}
  /\ newestFirst \in BOOLEAN
  /\ now \in Nat
  /\ created \in Nat
  /\ changes \in Nat
  /\ lastChange \in 0 .. now
  /\ stored = [id \in DOMAIN stored |-> stored[id]]
  /\ DOMAIN stored \subseteq 1 .. created
  /\ \A id \in DOMAIN stored : stored[id] \in Records /\ stored[id].changed <= now

JournalOK ==
  /\ journal \in [page : Nat, since : Nat, first : Metas,
                  got : {journal.got}, copy : {journal.copy}]
  /\ journal.got = [id \in DOMAIN journal.got |-> journal.got[id]]
  /\ journal.copy = [id \in DOMAIN journal.copy |-> journal.copy[id]]
  /\ journal.page <= 1 => journal.got = Nothing
  /\ journal.since <= now
  /\ mode = "conditional" => journal.since <= lastChange

AnswerOK ==
  \/ answer = NoAnswer
  \/ journal.page # 0 /\ answer \in [status : {304, 404}]
  \/ /\ journal.page # 0
     /\ answer \in [status : {200}, generated : 0 .. now, last : 0 .. lastChange,
                    results : {answer.results}, next : {0, journal.page + 1}]
     /\ answer.results = [id \in DOMAIN answer.results |-> answer.results[id]]

\* Nothing has happened to an object since then that a round would look for.
Untouched(id, since) ==
  IF mode = "incremental" THEN stored[id].changed < since ELSE lastChange <= since

\* What is held of the objects in front of a place, as far as untouched, is true.
Holds(f, since, looked, bound) ==
  \A id \in Listed(looked) :
    Untouched(id, since) /\ Position(id, Listed(looked)) < bound =>
      id \in DOMAIN f /\ f[id] = stored[id]

\* The same of all objects.
HoldsAll(f, since, looked) ==
  \A id \in Listed(looked) : Untouched(id, since) => id \in DOMAIN f /\ f[id] = stored[id]

\* Nothing is held that the list does not have.
NothingElse(f, since, looked) ==
  IF mode = "incremental"
  THEN \A id \in DOMAIN f : id \in DOMAIN stored /\ stored[id].changed >= looked
  ELSE lastChange <= since => DOMAIN f \subseteq DOMAIN stored

ReadSoFar ==
  journal.page > 1 =>
    /\ Since(journal.first) <= now
    /\ mode = "conditional" => journal.first.last_modified <= lastChange
    /\ Holds(journal.got, Since(journal.first), journal.since, (journal.page - 1) * PageSize)
    /\ NothingElse(journal.got, Since(journal.first), journal.since)

Answered ==
  answer.status = 200 =>
    /\ Holds(Got, Since(FirstMeta), journal.since, journal.page * PageSize)
    /\ NothingElse(Got, Since(FirstMeta), journal.since)
    /\ answer.next = 0 => HoldsAll(Got, Since(FirstMeta), journal.since)

IInv == ServerOK /\ JournalOK /\ AnswerOK /\ ReadSoFar /\ Answered /\ NothingMissed

-----------------------------------------------------------------------------
(* Positions.                                                              *)

LEMMA PositionGrows ==
  ASSUME NEW T, IsFiniteSet(T), NEW S \in SUBSET T, NEW id
  PROVE  /\ Position(id, S) \in Nat
         /\ Position(id, T) \in Nat
         /\ Position(id, S) <= Position(id, T)
<1> DEFINE Before(ids) == {other \in ids : IF newestFirst THEN other > id ELSE other < id}
<1>1. IsFiniteSet(Before(T)) /\ Before(S) \in SUBSET Before(T)
  BY FS_Subset, Before(T) \in SUBSET T
<1>2. /\ IsFiniteSet(Before(S))
      /\ Cardinality(Before(S)) <= Cardinality(Before(T))
  BY <1>1, FS_Subset
<1>3. Cardinality(Before(S)) \in Nat /\ Cardinality(Before(T)) \in Nat
  BY <1>1, <1>2, FS_CardinalityType
<1> QED
  BY <1>2, <1>3 DEF Position

LEMMA ListedFinite ==
  ASSUME ServerOK, NEW looked
  PROVE  IsFiniteSet(Listed(looked)) /\ IsFiniteSet(DOMAIN stored)
<1>1. IsFiniteSet(1 .. created)
  BY FS_Interval, 1 \in Int, created \in Int DEF ServerOK
<1>2. IsFiniteSet(DOMAIN stored)
  BY <1>1, FS_Subset DEF ServerOK
<1>3. Listed(looked) \in SUBSET DOMAIN stored
  BY DEF Listed
<1> QED
  BY <1>2, <1>3, FS_Subset

\* What a change leaves: an object is changed now, or it is where it was or
\* further back; or, in a list not of orders, the list has changed now.
LEMMA ChangeMoves ==
  ASSUME ServerOK, ServerOK', Change, NEW looked \in Nat, looked <= now
  PROVE  /\ mode = "conditional" => lastChange' > lastChange
         /\ mode = "incremental" =>
              \A id \in Listed(looked)' :
                \/ stored'[id].changed = now
                \/ /\ id \in Listed(looked)
                   /\ stored'[id] = stored[id]
                   /\ Position(id, Listed(looked)) \in Nat
                   /\ Position(id, Listed(looked))' \in Nat
                   /\ Position(id, Listed(looked)) <= Position(id, Listed(looked))'
<1>1. CASE mode = "conditional"
  BY <1>1 DEF Change, ServerOK
<1>2. CASE mode = "incremental"
  <2>1. /\ DOMAIN stored \subseteq DOMAIN stored'
        /\ \A id \in DOMAIN stored' :
             \/ stored'[id].changed = now
             \/ id \in DOMAIN stored /\ stored'[id] = stored[id]
    BY <1>2 DEF Change, ServerOK, Over, Records
  <2>2. Listed(looked) \subseteq Listed(looked)'
    BY <1>2, <2>1 DEF Listed, Change, ServerOK
  <2>3. \A id : Position(id, Listed(looked))' = Position(id, Listed(looked)')
    BY DEF Position, Change
  <2>4. IsFiniteSet(Listed(looked)')
    <3>1. IsFiniteSet((1 .. created)')
      BY FS_Interval, 1 \in Int, created' \in Int DEF ServerOK
    <3>2. Listed(looked)' \in SUBSET (1 .. created)'
      BY DEF Listed, ServerOK
    <3> QED
      BY <3>1, <3>2, FS_Subset
  <2> SUFFICES ASSUME NEW id \in Listed(looked)', stored'[id].changed # now
               PROVE  /\ id \in Listed(looked)
                      /\ stored'[id] = stored[id]
                      /\ Position(id, Listed(looked)) \in Nat
                      /\ Position(id, Listed(looked))' \in Nat
                      /\ Position(id, Listed(looked)) <= Position(id, Listed(looked))'
    BY <1>2
  <2>5. id \in Listed(looked) /\ stored'[id] = stored[id]
    BY <1>2, <2>1 DEF Listed, Change
  <2>6. /\ Position(id, Listed(looked)) \in Nat
        /\ Position(id, Listed(looked)') \in Nat
        /\ Position(id, Listed(looked)) <= Position(id, Listed(looked)')
    BY <2>2, <2>4, PositionGrows
  <2> QED
    BY <2>3, <2>5, <2>6
<1> QED
  BY <1>1, <1>2 DEF ServerOK

\* What is held, and true of what is untouched, stays so.
LEMMA ChangeKeeps ==
  ASSUME ServerOK, ServerOK', Change, NEW f,
         NEW since \in Nat, since <= now, mode = "conditional" => since <= lastChange,
         NEW looked \in Nat, looked <= now
  PROVE  /\ \A bound \in Nat : Holds(f, since, looked, bound) => Holds(f, since, looked, bound)'
         /\ NothingElse(f, since, looked) => NothingElse(f, since, looked)'
         /\ HoldsAll(f, since, looked) => HoldsAll(f, since, looked)'
<1>1. mode' = mode /\ mode \in {"incremental", "conditional"}
  BY DEF Change, ServerOK
<1>2. CASE mode = "conditional"
  <2>1. lastChange' > since
    BY <1>2, ChangeMoves DEF ServerOK
  <2> QED
    BY <1>1, <1>2, <2>1 DEF Holds, HoldsAll, NothingElse, Untouched, ServerOK
<1>3. CASE mode = "incremental"
  <2>1. ASSUME NEW bound \in Nat, Holds(f, since, looked, bound)
        PROVE  Holds(f, since, looked, bound)'
    <3> SUFFICES ASSUME NEW id \in Listed(looked)', stored'[id].changed < since,
                        Position(id, Listed(looked))' < bound
                 PROVE  id \in DOMAIN f /\ f[id] = stored'[id]
      BY <1>1, <1>3 DEF Holds, Untouched
    <3>1. /\ id \in Listed(looked)
          /\ stored'[id] = stored[id]
          /\ Position(id, Listed(looked)) < bound
      BY <1>3, ChangeMoves DEF ServerOK
    <3> QED
      BY <1>3, <2>1, <3>1 DEF Holds, Untouched
  <2>2. HoldsAll(f, since, looked) => HoldsAll(f, since, looked)'
    BY <1>1, <1>3, ChangeMoves DEF HoldsAll, Untouched, ServerOK
  <2>3. NothingElse(f, since, looked) => NothingElse(f, since, looked)'
    BY <1>1, <1>3 DEF NothingElse, Change, ServerOK, Over, Records
  <2> QED
    BY <2>1, <2>2, <2>3
<1> QED
  BY <1>1, <1>2, <1>3

-----------------------------------------------------------------------------
(* The client and the workflow.                                            *)

\* The metadata that the next round will look from.
LEMMA MetaBounded ==
  ASSUME IInv, answer.status = 200
  PROVE  /\ FirstMeta \in Metas
         /\ Since(FirstMeta) \in Nat
         /\ Since(FirstMeta) <= now
         /\ mode = "conditional" => Since(FirstMeta) <= lastChange
<1>1. answer.generated \in 0 .. now /\ answer.last \in 0 .. lastChange /\ journal.page # 0
  BY DEF IInv, AnswerOK, NoAnswer
<1>2. now \in Nat /\ lastChange \in 0 .. now /\ mode \in {"incremental", "conditional"}
  BY DEF IInv, ServerOK
<1>3. CASE journal.page = 1
  BY <1>1, <1>2, <1>3 DEF FirstMeta, FromResponse, Since, Metas
<1>4. CASE journal.page # 1
  <2>1. journal.page > 1 /\ journal.first \in Metas
    BY <1>1, <1>4 DEF IInv, JournalOK
  <2> QED
    BY <1>2, <1>4, <2>1 DEF IInv, ReadSoFar, FirstMeta, Since, Metas
<1> QED
  BY <1>3, <1>4

\* The answer's page, together with the pages before it.
LEMMA AnswerTrue ==
  ASSUME IInv, journal.page # 0, NEW ans, ans = AnswerTo(journal.page, journal.since),
         ans.status = 200, NEW meta,
         meta = IF journal.page = 1 THEN FromResponse(ans) ELSE journal.first
  PROVE  /\ ans \in [status : {200}, generated : 0 .. now, last : 0 .. lastChange,
                      results : {ans.results}, next : {0, journal.page + 1}]
         /\ ans.results = [id \in DOMAIN ans.results |-> ans.results[id]]
         /\ Holds(Over(ans.results, journal.got), Since(meta), journal.since,
                  journal.page * PageSize)
         /\ NothingElse(Over(ans.results, journal.got), Since(meta), journal.since)
         /\ ans.next = 0 =>
              HoldsAll(Over(ans.results, journal.got), Since(meta), journal.since)
<1> DEFINE ids == Listed(journal.since)
           from == (journal.page - 1) * PageSize
           shown == {id \in ids : from <= Position(id, ids) /\ Position(id, ids) < from + PageSize}
           more == \E id \in ids : Position(id, ids) >= from + PageSize
           got == Over(ans.results, journal.got)
<1>1. ans = [status |-> 200, generated |-> now, last |-> lastChange,
             results |-> [id \in shown |-> stored[id]],
             next |-> IF more THEN journal.page + 1 ELSE 0]
  BY DEF AnswerTo
<1>2. /\ journal.page \in Nat \ {0}
      /\ PageSize \in Nat
      /\ now \in Nat
      /\ lastChange \in 0 .. now
      /\ mode \in {"incremental", "conditional"}
  BY DurableSyncAssumption DEF IInv, JournalOK, ServerOK
<1>3. from \in Nat /\ from + PageSize = journal.page * PageSize
  BY <1>2
<1>4. \A id \in ids : Position(id, ids) \in Nat
  BY ListedFinite, PositionGrows DEF IInv
<1>5. ASSUME NEW id \in ids, Untouched(id, Since(meta)), Position(id, ids) < from + PageSize
      PROVE  id \in DOMAIN got /\ got[id] = stored[id]
  <2>1. CASE Position(id, ids) >= from
    <3>1. id \in shown
      BY <1>5, <2>1
    <3> HIDE DEF shown
    <3> QED
      BY <1>1, <3>1 DEF Over
  <2>2. CASE Position(id, ids) < from
    <3>1. journal.page > 1
      BY <1>2, <1>4, <2>2
    <3>2. id \in DOMAIN journal.got /\ journal.got[id] = stored[id]
      BY <1>5, <2>2, <3>1 DEF IInv, ReadSoFar, Holds
    <3>3. id \notin shown
      BY <1>3, <1>4, <2>2
    <3> HIDE DEF shown
    <3> QED
      BY <1>1, <3>2, <3>3 DEF Over
  <2> QED
    BY <1>3, <1>4, <2>1, <2>2
<1>6. Holds(got, Since(meta), journal.since, journal.page * PageSize)
  BY <1>3, <1>5 DEF Holds
<1>7. NothingElse(got, Since(meta), journal.since)
  <2>1. DOMAIN got = shown \cup DOMAIN journal.got
    BY <1>1 DEF Over
  <2>2. \A id \in shown :
          id \in DOMAIN stored /\ (mode = "incremental" => stored[id].changed >= journal.since)
    BY DEF Listed
  <2>3. journal.page = 1 => DOMAIN journal.got = {}
    BY DEF IInv, JournalOK, Nothing
  <2>4. journal.page > 1 => NothingElse(journal.got, Since(meta), journal.since)
    BY DEF IInv, ReadSoFar
  <2> HIDE DEF shown, got
  <2> QED
    BY <1>2, <2>1, <2>2, <2>3, <2>4 DEF NothingElse
<1>8. ans.next = 0 => HoldsAll(got, Since(meta), journal.since)
  <2> SUFFICES ASSUME ans.next = 0 PROVE HoldsAll(got, Since(meta), journal.since)
    OBVIOUS
  <2>1. ~more
    BY <1>1, <1>2
  <2>2. \A id \in ids : Position(id, ids) < from + PageSize
    BY <1>2, <1>3, <1>4, <2>1
  <2> QED
    BY <1>5, <2>2 DEF HoldsAll
<1> QED
  BY <1>1, <1>2, <1>6, <1>7, <1>8

-----------------------------------------------------------------------------
(* The invariant.                                                          *)

LEMMA InitInv == Init => IInv
<1> SUFFICES ASSUME Init PROVE IInv
  OBVIOUS
<1>1. ServerOK
  BY DurableSyncAssumption DEF Init, ServerOK, Records
<1>2. JournalOK
  BY DEF Init, JournalOK, Idle, NoMeta, Nothing, Metas
<1>3. AnswerOK /\ ReadSoFar /\ Answered
  BY DEF Init, AnswerOK, ReadSoFar, Answered, Idle, NoAnswer
<1>4. NothingMissed
  BY <1>1 DEF Init, NothingMissed, Idle, ServerOK, Records
<1> QED
  BY <1>1, <1>2, <1>3, <1>4 DEF IInv

LEMMA Still ==
  ASSUME UNCHANGED <<mode, newestFirst, stored, lastChange>>
  PROVE  \A f, since, looked, bound :
           /\ Holds(f, since, looked, bound)' <=> Holds(f, since, looked, bound)
           /\ NothingElse(f, since, looked)' <=> NothingElse(f, since, looked)
           /\ HoldsAll(f, since, looked)' <=> HoldsAll(f, since, looked)
<1>1. /\ \A looked : Listed(looked)' = Listed(looked)
      /\ \A id, ids : Position(id, ids)' = Position(id, ids)
      /\ \A id, since : Untouched(id, since)' <=> Untouched(id, since)
  BY DEF Listed, Position, Untouched
<1> QED
  BY <1>1 DEF Holds, HoldsAll, NothingElse

\* The parts that say what is held, when neither the list nor the workflow
\* moves.
LEMMA Unmoved ==
  ASSUME IInv, UNCHANGED <<mode, newestFirst, stored, lastChange, journal>>
  PROVE  /\ now' \in Nat /\ now <= now' => ReadSoFar'
         /\ answer' = answer => Answered'
         /\ NothingMissed'
<1>1. \A f, since, looked, bound :
        /\ Holds(f, since, looked, bound)' <=> Holds(f, since, looked, bound)
        /\ NothingElse(f, since, looked)' <=> NothingElse(f, since, looked)
        /\ HoldsAll(f, since, looked)' <=> HoldsAll(f, since, looked)
  BY Still
<1>2. ASSUME now' \in Nat, now <= now' PROVE ReadSoFar'
  <2>1. Since(journal.first) \in Nat /\ now \in Nat
    BY DEF IInv, ServerOK, JournalOK, Since, Metas
  <2>2. Since(journal.first)' = Since(journal.first)
    BY DEF Since
  <2>3. journal.page > 1 => Since(journal.first) <= now'
    BY <1>2, <2>1 DEF IInv, ReadSoFar
  <2> QED
    BY <1>1, <2>2, <2>3 DEF IInv, ReadSoFar
<1>3. ASSUME answer' = answer PROVE Answered'
  BY <1>1, <1>3 DEF IInv, Answered, Since, FirstMeta, FromResponse, Got
<1>4. NothingMissed'
  BY DEF IInv, NothingMissed
<1> QED
  BY <1>2, <1>3, <1>4

LEMMA TickInv == IInv /\ Tick => IInv'
<1> SUFFICES ASSUME IInv, Tick PROVE IInv'
  OBVIOUS
<1>1. /\ UNCHANGED <<mode, newestFirst, stored, created, changes, lastChange, answer, journal>>
      /\ now' = now + 1
      /\ now \in Nat
  BY DEF Tick, IInv, ServerOK
<1>2. ServerOK'
  BY <1>1 DEF IInv, ServerOK, Records
<1>3. JournalOK' /\ AnswerOK'
  BY <1>1 DEF IInv, ServerOK, JournalOK, AnswerOK
<1> QED
  BY <1>1, <1>2, <1>3, Unmoved DEF IInv

LEMMA ChangeInv == IInv /\ Change => IInv'
<1> SUFFICES ASSUME IInv, Change PROVE IInv'
  OBVIOUS
<1>1. /\ UNCHANGED <<mode, newestFirst, now, answer, journal>>
      /\ lastChange' = now
      /\ mode = "conditional" => now > lastChange
      /\ now \in Nat
      /\ lastChange \in 0 .. now
      /\ mode \in {"incremental", "conditional"}
  BY DEF Change, IInv, ServerOK
<1>2. ServerOK'
  <2> DEFINE record == [version |-> changes', changed |-> now]
  <2>1. /\ changes' \in Nat
        /\ created \in Nat
        /\ record \in Records
        /\ record.changed = now
        /\ DOMAIN stored \subseteq 1 .. created
        /\ \A id \in DOMAIN stored : stored[id] \in Records /\ stored[id].changed <= now
    BY <1>1 DEF Change, IInv, ServerOK, Records
  <2> HIDE DEF record
  <2> DEFINE Fine ==
        /\ created' \in Nat
        /\ stored' = [id \in DOMAIN stored' |-> stored'[id]]
        /\ DOMAIN stored' \subseteq 1 .. created'
        /\ \A id \in DOMAIN stored' : stored'[id] \in Records /\ stored'[id].changed <= now
  <2>2. ASSUME created' = created,
               \E id \in DOMAIN stored : stored' = [stored EXCEPT ![id] = record]
        PROVE  Fine
    <3>1. PICK id \in DOMAIN stored : stored' = [stored EXCEPT ![id] = record]
      BY <2>2
    <3>2. /\ DOMAIN stored' = DOMAIN stored
          /\ stored' = [other \in DOMAIN stored |-> IF other = id THEN record ELSE stored[other]]
      BY <3>1
    <3>3. \A other \in DOMAIN stored' :
            stored'[other] = record \/ stored'[other] = stored[other]
      BY <3>2
    <3>4. stored' = [other \in DOMAIN stored' |-> stored'[other]]
      BY <3>2
    <3>5. ASSUME NEW other \in DOMAIN stored'
          PROVE  stored'[other] \in Records /\ stored'[other].changed <= now
      BY <1>1, <2>1, <3>2, <3>3
    <3>6. created' \in Nat /\ DOMAIN stored' \subseteq 1 .. created'
      BY <2>1, <2>2, <3>2
    <3> QED
      BY <3>4, <3>5, <3>6
  <2>3. ASSUME created' = created + 1,
               stored' = Over([id \in {created'} |-> record], stored)
        PROVE  Fine
    <3>1. stored' = [id \in {created'} \cup DOMAIN stored |->
                       IF id \in {created'} THEN record ELSE stored[id]]
      BY <2>3 DEF Over
    <3>2. {created'} \cup DOMAIN stored \subseteq 1 .. created'
      BY <2>1, <2>3
    <3> QED
      BY <1>1, <2>1, <2>3, <3>1, <3>2
  <2>4. ASSUME created' = created,
               \E id \in DOMAIN stored : stored' = [other \in DOMAIN stored \ {id} |-> stored[other]]
        PROVE  Fine
    BY <1>1, <2>1, <2>4
  <2>5. Fine
    BY <2>2, <2>3, <2>4 DEF Change, record
  <2> QED
    BY <1>1, <2>1, <2>5 DEF IInv, ServerOK
<1>3. JournalOK'
  BY <1>1 DEF IInv, JournalOK
<1>4. AnswerOK'
  BY <1>1 DEF IInv, AnswerOK
<1>5. journal.page \in Nat /\ journal.since \in Nat /\ journal.since <= now /\ PageSize \in Nat
  BY DurableSyncAssumption DEF IInv, JournalOK
<1>6. ReadSoFar'
  <2> SUFFICES ASSUME journal.page > 1 PROVE ReadSoFar'
    BY <1>1 DEF ReadSoFar
  <2>1. /\ Since(journal.first) \in Nat
        /\ Since(journal.first) <= now
        /\ mode = "conditional" => Since(journal.first) <= lastChange
    BY <1>1 DEF IInv, ReadSoFar, JournalOK, Metas, Since
  <2>2. (journal.page - 1) * PageSize \in Nat
    BY <1>5
  <2>3. /\ Holds(journal.got, Since(journal.first), journal.since,
                 (journal.page - 1) * PageSize)
        /\ NothingElse(journal.got, Since(journal.first), journal.since)
    BY DEF IInv, ReadSoFar
  <2>4. \A f : \A s, l, b \in Nat :
          s <= now /\ (mode = "conditional" => s <= lastChange) /\ l <= now =>
            /\ Holds(f, s, l, b) => Holds(f, s, l, b)'
            /\ NothingElse(f, s, l) => NothingElse(f, s, l)'
    BY <1>2, ChangeKeeps DEF IInv
  <2>5. Since(journal.first)' = Since(journal.first)
    BY <1>1 DEF Since
  <2>6. /\ Holds(journal.got, Since(journal.first), journal.since,
                 (journal.page - 1) * PageSize)'
        /\ NothingElse(journal.got, Since(journal.first), journal.since)'
    BY <1>1, <1>5, <2>1, <2>2, <2>3, <2>4, <2>5
  <2>7. mode = "conditional" => journal.first.last_modified <= now
    BY <1>1, <2>1 DEF Since
  <2>8. Since(journal.first)' <= now' /\ now' = now
    BY <1>1, <2>1, <2>5
  <2>9. (mode = "conditional" => journal.first.last_modified <= lastChange)'
    BY <1>1, <2>7
  <2> QED
    BY <2>6, <2>8, <2>9 DEF ReadSoFar
<1>7. Answered'
  <2> SUFFICES ASSUME answer.status = 200 PROVE Answered'
    BY <1>1 DEF Answered
  <2>1. /\ Since(FirstMeta) \in Nat
        /\ Since(FirstMeta) <= now
        /\ mode = "conditional" => Since(FirstMeta) <= lastChange
    BY MetaBounded
  <2>2. journal.page * PageSize \in Nat
    BY <1>5
  <2>3. /\ Holds(Got, Since(FirstMeta), journal.since, journal.page * PageSize)
        /\ NothingElse(Got, Since(FirstMeta), journal.since)
        /\ answer.next = 0 => HoldsAll(Got, Since(FirstMeta), journal.since)
    BY DEF IInv, Answered
  <2>4. \A f : \A s, l, b \in Nat :
          s <= now /\ (mode = "conditional" => s <= lastChange) /\ l <= now =>
            /\ Holds(f, s, l, b) => Holds(f, s, l, b)'
            /\ NothingElse(f, s, l) => NothingElse(f, s, l)'
            /\ HoldsAll(f, s, l) => HoldsAll(f, s, l)'
    BY <1>2, ChangeKeeps DEF IInv
  <2>5. Since(FirstMeta)' = Since(FirstMeta) /\ Got' = Got
    BY <1>1 DEF Since, FirstMeta, FromResponse, Got
  <2>6. /\ Holds(Got, Since(FirstMeta), journal.since, journal.page * PageSize)'
        /\ NothingElse(Got, Since(FirstMeta), journal.since)'
        /\ (answer.next = 0 => HoldsAll(Got, Since(FirstMeta), journal.since))'
    BY <1>1, <1>5, <2>1, <2>2, <2>3, <2>4, <2>5
  <2> QED
    BY <2>6 DEF Answered
<1>8. NothingMissed'
  <2>1. CASE mode = "conditional"
    <3>1. lastChange' > journal.since
      BY <1>1, <1>5, <2>1 DEF IInv, JournalOK
    <3> QED
      BY <1>1, <1>5, <2>1, <3>1 DEF NothingMissed
  <2>2. CASE mode = "incremental"
    <3>1. \A id \in DOMAIN stored' :
            stored'[id].changed = now \/ (id \in DOMAIN stored /\ stored'[id] = stored[id])
      BY <2>2 DEF Change, IInv, ServerOK, Over, Records
    <3> QED
      BY <1>1, <1>5, <2>2, <3>1 DEF IInv, NothingMissed
  <2> QED
    BY <1>1, <2>1, <2>2
<1> QED
  BY <1>2, <1>3, <1>4, <1>6, <1>7, <1>8 DEF IInv

LEMMA BeginInv == IInv /\ Begin => IInv'
<1> SUFFICES ASSUME IInv, Begin PROVE IInv'
  OBVIOUS
<1>1. /\ UNCHANGED <<server, answer>>
      /\ journal.page = 0
      /\ journal' = [journal EXCEPT !.page = 1]
  BY DEF Begin
<1>2. ServerOK'
  BY <1>1 DEF IInv, ServerOK, server
<1>3. JournalOK'
  BY <1>1 DEF IInv, JournalOK, server
<1>4. answer = NoAnswer
  BY <1>1 DEF IInv, AnswerOK
<1>5. AnswerOK' /\ Answered'
  BY <1>1, <1>4 DEF AnswerOK, Answered, NoAnswer
<1>6. ReadSoFar' /\ NothingMissed'
  BY <1>1 DEF IInv, JournalOK, ReadSoFar, NothingMissed, server
<1> QED
  BY <1>2, <1>3, <1>5, <1>6 DEF IInv

LEMMA RequestInv == IInv /\ Request => IInv'
<1> SUFFICES ASSUME IInv, Request PROVE IInv'
  OBVIOUS
<1> DEFINE ans == AnswerTo(journal.page, journal.since)
           meta == IF journal.page = 1 THEN FromResponse(ans) ELSE journal.first
           got == Over(ans.results, journal.got)
<1>1. /\ UNCHANGED <<mode, newestFirst, now, stored, created, changes, lastChange, journal>>
      /\ answer' = ans
      /\ journal.page # 0
  BY DEF Request, server
<1>2. ServerOK'
  BY <1>1 DEF IInv, ServerOK
<1>3. JournalOK'
  BY <1>1 DEF IInv, JournalOK
<1>4. ReadSoFar' /\ NothingMissed'
  BY <1>1, Unmoved DEF IInv, ServerOK
<1>5. CASE ans.status # 200
  <2>1. ans \in [status : {304, 404}]
    BY <1>5 DEF AnswerTo
  <2>2. AnswerOK' /\ Answered'
    BY <1>1, <1>5, <2>1 DEF AnswerOK, Answered
  <2> QED
    BY <1>2, <1>3, <1>4, <2>2 DEF IInv
<1>6. CASE ans.status = 200
  <2>1. /\ ans \in [status : {200}, generated : 0 .. now, last : 0 .. lastChange,
                     results : {ans.results}, next : {0, journal.page + 1}]
        /\ ans.results = [id \in DOMAIN ans.results |-> ans.results[id]]
        /\ Holds(got, Since(meta), journal.since, journal.page * PageSize)
        /\ NothingElse(got, Since(meta), journal.since)
        /\ ans.next = 0 => HoldsAll(got, Since(meta), journal.since)
    BY <1>1, <1>6, AnswerTrue
  <2>2. AnswerOK'
    BY <1>1, <2>1 DEF AnswerOK
  <2>3. Since(FirstMeta)' = Since(meta) /\ Got' = got
    BY <1>1 DEF Since, FirstMeta, Got, FromResponse
  <2>4. \A f, since, looked, bound :
          /\ Holds(f, since, looked, bound)' <=> Holds(f, since, looked, bound)
          /\ NothingElse(f, since, looked)' <=> NothingElse(f, since, looked)
          /\ HoldsAll(f, since, looked)' <=> HoldsAll(f, since, looked)
    BY <1>1, Still
  <2>5. Answered'
    BY <1>1, <2>1, <2>3, <2>4 DEF Answered
  <2> QED
    BY <1>2, <1>3, <1>4, <2>2, <2>5 DEF IInv
<1> QED
  BY <1>5, <1>6

LEMMA FaultInv == IInv /\ Fault => IInv'
<1> SUFFICES ASSUME IInv, Fault PROVE IInv'
  OBVIOUS
<1>1. UNCHANGED <<mode, newestFirst, now, stored, created, changes, lastChange, journal>>
      /\ answer' = NoAnswer
  BY DEF Fault, server
<1>2. ServerOK' /\ JournalOK' /\ AnswerOK'
  BY <1>1 DEF IInv, ServerOK, JournalOK, AnswerOK
<1>3. ReadSoFar' /\ NothingMissed'
  BY <1>1, Unmoved DEF IInv, ServerOK
<1>4. Answered'
  BY <1>1 DEF Answered, NoAnswer
<1> QED
  BY <1>2, <1>3, <1>4 DEF IInv

\* What a round leaves, once its last page has come.
LEMMA RoundComplete ==
  ASSUME IInv, answer.status = 200, answer.next = 0
  PROVE  IF mode = "incremental"
         THEN \A id \in DOMAIN stored : stored[id].changed < Since(FirstMeta) =>
                /\ id \in DOMAIN Over(Got, journal.copy)
                /\ Over(Got, journal.copy)[id] = stored[id]
         ELSE lastChange <= Since(FirstMeta) => Got = stored
<1>1. /\ NothingElse(Got, Since(FirstMeta), journal.since)
      /\ HoldsAll(Got, Since(FirstMeta), journal.since)
  BY DEF IInv, Answered
<1>2. CASE mode = "incremental"
  <2> SUFFICES ASSUME NEW id \in DOMAIN stored, stored[id].changed < Since(FirstMeta)
               PROVE  /\ id \in DOMAIN Over(Got, journal.copy)
                      /\ Over(Got, journal.copy)[id] = stored[id]
    BY <1>2
  <2>1. CASE stored[id].changed >= journal.since
    <3>1. id \in DOMAIN Got /\ Got[id] = stored[id]
      BY <1>1, <1>2, <2>1 DEF HoldsAll, Listed, Untouched
    <3> QED
      BY <3>1 DEF Over
  <2>2. CASE stored[id].changed < journal.since
    <3>1. id \in DOMAIN journal.copy /\ journal.copy[id] = stored[id]
      BY <1>2, <2>2 DEF IInv, NothingMissed
    <3>2. stored[id].changed \in Nat /\ journal.since \in Nat
      BY DEF IInv, ServerOK, JournalOK, Records
    <3>3. id \notin DOMAIN Got
      BY <1>1, <1>2, <2>2, <3>2 DEF NothingElse
    <3> QED
      BY <3>1, <3>3 DEF Over
  <2>3. stored[id].changed \in Nat /\ journal.since \in Nat
    BY DEF IInv, ServerOK, JournalOK, Records
  <2> QED
    BY <2>1, <2>2, <2>3
<1>3. CASE mode # "incremental"
  <2> SUFFICES ASSUME lastChange <= Since(FirstMeta) PROVE Got = stored
    BY <1>3
  <2>1. \A id \in DOMAIN stored : id \in DOMAIN Got /\ Got[id] = stored[id]
    BY <1>1, <1>3 DEF HoldsAll, Listed, Untouched
  <2>2. DOMAIN Got \subseteq DOMAIN stored
    BY <1>1, <1>3 DEF NothingElse
  <2>3. Got = [id \in DOMAIN Got |-> Got[id]]
    BY DEF Got, Over
  <2>4. stored = [id \in DOMAIN stored |-> stored[id]]
    BY DEF IInv, ServerOK
  <2>5. DOMAIN Got = DOMAIN stored
    BY <2>1, <2>2
  <2> QED
    BY <2>1, <2>3, <2>4, <2>5
<1> QED
  BY <1>2, <1>3

LEMMA JournalPageInv == IInv /\ JournalPage => IInv'
<1> SUFFICES ASSUME IInv, JournalPage PROVE IInv'
  OBVIOUS
<1>1. /\ UNCHANGED <<mode, newestFirst, now, stored, created, changes, lastChange>>
      /\ answer.status = 200
      /\ answer' = NoAnswer
  BY DEF JournalPage, server
<1>2. ServerOK' /\ AnswerOK' /\ Answered'
  BY <1>1 DEF IInv, ServerOK, AnswerOK, Answered, NoAnswer
<1>3. /\ journal.page \in Nat \ {0}
      /\ answer.next \in {0, journal.page + 1}
      /\ PageSize \in Nat
  BY <1>1, DurableSyncAssumption DEF IInv, AnswerOK, JournalOK, NoAnswer
<1>4. /\ FirstMeta \in Metas
      /\ Since(FirstMeta) \in Nat
      /\ Since(FirstMeta) <= now
      /\ mode = "conditional" => Since(FirstMeta) <= lastChange
  BY <1>1, MetaBounded
<1>5. Got = [id \in DOMAIN Got |-> Got[id]]
  BY DEF Got, Over
<1>6. CASE answer.next = 0
  <2>1. journal' = Idle(Since(FirstMeta),
                        IF mode = "incremental" THEN Over(Got, journal.copy) ELSE Got)
    BY <1>6 DEF JournalPage, NextCursor
  <2>2. /\ journal'.page = 0
        /\ journal'.since = Since(FirstMeta)
        /\ journal'.copy = IF mode = "incremental" THEN Over(Got, journal.copy) ELSE Got
    BY <2>1 DEF Idle
  <2>3. journal'.copy = [id \in DOMAIN journal'.copy |-> journal'.copy[id]]
    BY <1>5, <2>2 DEF Over
  <2>4. JournalOK'
    BY <1>1, <1>4, <2>1, <2>3 DEF JournalOK, Idle, NoMeta, Metas, Nothing
  <2>5. ReadSoFar'
    BY <2>2 DEF ReadSoFar
  <2>6. NothingMissed'
    BY <1>1, <1>6, <2>2, RoundComplete DEF NothingMissed
  <2> QED
    BY <1>2, <2>4, <2>5, <2>6 DEF IInv
<1>7. CASE answer.next = journal.page + 1
  <2>1. journal' = [journal EXCEPT !.page = journal.page + 1, !.first = FirstMeta, !.got = Got]
    BY <1>3, <1>7 DEF JournalPage, NextCursor
  <2>2. /\ journal'.page = journal.page + 1
        /\ journal'.since = journal.since
        /\ journal'.first = FirstMeta
        /\ journal'.got = Got
        /\ journal'.copy = journal.copy
    BY <2>1 DEF IInv, JournalOK
  <2>3. JournalOK'
    <3>1. journal' \in [page : Nat, since : Nat, first : Metas,
                        got : {journal'.got}, copy : {journal'.copy}]
      <4>1. /\ journal = [page |-> journal.page, since |-> journal.since, first |-> journal.first,
                          got |-> journal.got, copy |-> journal.copy]
            /\ journal.since \in Nat
        BY DEF IInv, JournalOK
      <4>2. journal' = [page |-> journal.page + 1, since |-> journal.since, first |-> FirstMeta,
                        got |-> Got, copy |-> journal.copy]
        BY <2>1, <4>1
      <4> QED
        BY <1>3, <1>4, <4>1, <4>2
    <3>2. /\ journal'.got = [id \in DOMAIN journal'.got |-> journal'.got[id]]
          /\ journal'.copy = [id \in DOMAIN journal'.copy |-> journal'.copy[id]]
      BY <1>5, <2>2 DEF IInv, JournalOK
    <3>3. ~(journal'.page <= 1)
      BY <1>3, <2>2
    <3>4. journal'.since <= now' /\ (mode' = "conditional" => journal'.since <= lastChange')
      BY <1>1, <2>2 DEF IInv, JournalOK
    <3> QED
      BY <3>1, <3>2, <3>3, <3>4 DEF JournalOK
  <2>4. NothingMissed'
    BY <1>1, <2>2 DEF IInv, NothingMissed
  <2>5. ReadSoFar'
    <3>1. Since(journal.first)' = Since(FirstMeta)
      BY <1>1, <2>2 DEF Since
    <3>2. mode = "conditional" => FirstMeta.last_modified <= lastChange
      BY <1>4 DEF Since
    <3>3. (journal'.page - 1) * PageSize = journal.page * PageSize
      BY <1>3, <2>2
    <3>4. /\ Holds(Got, Since(FirstMeta), journal.since, journal.page * PageSize)
          /\ NothingElse(Got, Since(FirstMeta), journal.since)
      BY <1>1 DEF IInv, Answered
    <3>5. \A f, since, looked, bound :
            /\ Holds(f, since, looked, bound)' <=> Holds(f, since, looked, bound)
            /\ NothingElse(f, since, looked)' <=> NothingElse(f, since, looked)
      BY <1>1, Still
    <3> QED
      BY <1>1, <1>4, <2>2, <3>1, <3>2, <3>3, <3>4, <3>5 DEF ReadSoFar
  <2> QED
    BY <1>2, <2>3, <2>4, <2>5 DEF IInv
<1> QED
  BY <1>3, <1>6, <1>7

\* A round that ends without a page leaves the copy and the time.
LEMMA EndRoundInv ==
  ASSUME IInv, EndRound, answer' = NoAnswer,
         UNCHANGED <<mode, newestFirst, now, stored, created, changes, lastChange>>
  PROVE  IInv'
<1>1. /\ journal'.page = 0
      /\ journal'.since = journal.since
      /\ journal'.copy = journal.copy
  BY DEF EndRound, Idle
<1>2. ServerOK' /\ AnswerOK' /\ Answered'
  BY DEF IInv, ServerOK, AnswerOK, Answered, NoAnswer
<1>3. JournalOK'
  BY DEF IInv, JournalOK, EndRound, Idle, NoMeta, Metas, Nothing
<1>4. ReadSoFar' /\ NothingMissed'
  BY <1>1 DEF IInv, ReadSoFar, NothingMissed
<1> QED
  BY <1>2, <1>3, <1>4 DEF IInv

LEMMA JournalNotModifiedInv == IInv /\ JournalNotModified => IInv'
  BY EndRoundInv DEF JournalNotModified, server

LEMMA JournalErrorInv == IInv /\ JournalError => IInv'
<1> SUFFICES ASSUME IInv, JournalError PROVE IInv'
  OBVIOUS
<1>1. /\ UNCHANGED <<mode, newestFirst, now, stored, created, changes, lastChange>>
      /\ answer' = NoAnswer
      /\ UNCHANGED journal \/ EndRound
  BY DEF JournalError, server
<1>2. CASE EndRound
  BY <1>1, <1>2, EndRoundInv
<1>3. CASE UNCHANGED journal
  <2>1. ServerOK' /\ JournalOK' /\ AnswerOK'
    BY <1>1, <1>3 DEF IInv, ServerOK, JournalOK, AnswerOK
  <2>2. ReadSoFar' /\ NothingMissed'
    BY <1>1, <1>3, Unmoved DEF IInv, ServerOK
  <2>3. Answered'
    BY <1>1 DEF Answered, NoAnswer
  <2> QED
    BY <2>1, <2>2, <2>3 DEF IInv
<1> QED
  BY <1>1, <1>2, <1>3

\* The inductive invariant holds in every state of a durable synchronization.
THEOREM Invariant == Spec => []IInv
<1>1. IInv /\ UNCHANGED vars => IInv'
  <2> SUFFICES ASSUME IInv, UNCHANGED vars PROVE IInv'
    OBVIOUS
  <2>1. UNCHANGED <<mode, newestFirst, now, stored, created, changes, lastChange, answer, journal>>
    BY DEF vars, server
  <2>2. ServerOK' /\ JournalOK' /\ AnswerOK'
    BY <2>1 DEF IInv, ServerOK, JournalOK, AnswerOK
  <2> QED
    BY <2>1, <2>2, Unmoved DEF IInv, ServerOK
<1>2. IInv /\ Next => IInv'
  BY TickInv, ChangeInv, BeginInv, RequestInv, FaultInv, JournalPageInv,
     JournalNotModifiedInv, JournalErrorInv DEF Next
<1> QED
  BY InitInv, <1>1, <1>2, PTL DEF Spec

\* ResponseMeta::from_response, the cursors of Page and the conditional
\* requests: however the list moves between the pages of a round, and however
\* often steps are repeated, every change that later rounds will not look for
\* is in the copy.
THEOREM NothingIsMissed == Spec => []NothingMissed
<1>1. IInv => NothingMissed
  BY DEF IInv
<1> QED
  BY Invariant, <1>1, PTL

=============================================================================
