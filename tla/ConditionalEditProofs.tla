------------------------ MODULE ConditionalEditProofs ------------------------
(***************************************************************************)
(* What If-Match guarantees, for every set of ids, every set of clients    *)
(* and every number of events.                                             *)
(***************************************************************************)
EXTENDS ConditionalEdit, EntityRosterProofs

-----------------------------------------------------------------------------
(* The record that get finds, and what a call does to it. *)

\* The record that get finds among the deleted ones is the last with the id.
LEMMA GetOfDeleted ==
    ASSUME ListsOK, NEW id \in Ids, IsKnown(id), ~IsActive(id)
    PROVE  \E k \in DOMAIN deleted :
              /\ Get(id) = deleted[k] /\ deleted[k].id = id
              /\ \A i \in DOMAIN deleted : deleted[i].id = id => i <= k
  <1> DEFINE matches == {i \in 1..Len(deleted) : deleted[i].id = id}
  <1>1. Len(deleted) \in Nat /\ DOMAIN deleted = 1..Len(deleted)
    BY DEF ListsOK
  <1>2. matches # {} /\ matches \in SUBSET (1..Len(deleted))
    BY <1>1 DEF IsKnown
  <1>3. Max(matches) \in matches /\ \A i \in matches : i <= Max(matches)
    BY <1>1, <1>2, MaxOfIndices
  <1>4. Get(id) = deleted[Max(matches)]
    BY <1>2 DEF Get, SelectLastInSeq
  <1> QED
    BY <1>1, <1>3, <1>4

\* The same of the next state.
LEMMA GetOfDeletedNext ==
    ASSUME ListsOK', NEW id \in Ids, IsKnown(id)', ~IsActive(id)'
    PROVE  \E k \in DOMAIN deleted' :
              /\ Get(id)' = deleted'[k] /\ deleted'[k].id = id
              /\ \A i \in DOMAIN deleted' : deleted'[i].id = id => i <= k
  <1> DEFINE matches == {i \in 1..Len(deleted') : deleted'[i].id = id}
  <1>1. Len(deleted') \in Nat /\ DOMAIN deleted' = 1..Len(deleted')
    BY DEF ListsOK
  <1>2. matches # {} /\ matches \in SUBSET (1..Len(deleted'))
    BY <1>1 DEF IsKnown
  <1>3. Max(matches) \in matches /\ \A i \in matches : i <= Max(matches)
    BY <1>1, <1>2, MaxOfIndices
  <1>4. Get(id)' = deleted'[Max(matches)]
    BY <1>2 DEF Get, SelectLastInSeq
  <1> QED
    BY <1>1, <1>3, <1>4

\* The tag of a known record has the declared type.
LEMMA GetType ==
    ASSUME ListsOK, NEW id \in Ids, IsKnown(id)
    PROVE  Get(id) \in Record
  <1>1. CASE IsActive(id)
    BY <1>1, SlotOfActive DEF Get, ListsOK
  <1>2. CASE ~IsActive(id)
    BY <1>2, GetOfDeleted DEF ListsOK
  <1> QED BY <1>1, <1>2

\* An id that is known stays known, with the same record to find.
SameRecord(id) == IsKnown(id) => IsKnown(id)' /\ Get(id)' = Get(id)

\* The record to find is one version newer.
NewerRecord(id) == IsKnown(id)' /\ Get(id)'.version = Get(id).version + 1

\* As long as nothing was deleted, every other id's record is the same to find.
LEMMA OthersSameRecord ==
    ASSUME ListsOK, NEW id \in Ids, OthersKept(id), deleted' = deleted,
           NEW other \in Ids \ {id}
    PROVE  SameRecord(other)
  <1>1. IsActive(other)' <=> IsActive(other)
    BY DEF OthersKept
  <1>2. IsKnown(other)' <=> IsKnown(other)
    BY <1>1 DEF IsKnown
  <1>3. CASE IsActive(other)
    BY <1>1, <1>2, <1>3 DEF SameRecord, OthersKept, Get
  <1>4. CASE ~IsActive(other)
    BY <1>1, <1>2, <1>4 DEF SameRecord, Get, SelectLastInSeq
  <1> QED BY <1>3, <1>4

\* Create: whatever id it is, it is known then; the others are as they were.
LEMMA CreateFinds ==
    ASSUME ListsOK, NEW actor \in Actor, NEW id \in Ids, NEW level \in Tiers,
           Create(actor, id, level)
    PROVE  IsKnown(id)' /\ \A other \in Ids \ {id} : SameRecord(other)
  <1>1. OthersKept(id) /\ IsActive(id)' /\ deleted' = deleted
    BY CreateRecords DEF Create
  <1>2. IsKnown(id)'
    BY <1>1 DEF IsKnown
  <1> QED
    BY <1>1, <1>2, OthersSameRecord

\* Change_tier: the id's record is one version newer.
LEMMA ChangeLevelFinds ==
    ASSUME ListsOK, NEW actor \in Actor, NEW id \in Ids, NEW level \in Tiers,
           ChangeLevel(actor, id, level)
    PROVE  NewerRecord(id) /\ \A other \in Ids \ {id} : SameRecord(other)
  <1>1. /\ OthersKept(id) /\ deleted' = deleted /\ IsActive(id) /\ IsActive(id)'
        /\ active'[Slot(id)'] = Relevelled(active[Slot(id)], level)
    BY ChangeLevelRecords DEF ChangeLevel
  <1>2. Get(id)' = active'[Slot(id)'] /\ Get(id) = active[Slot(id)]
    BY <1>1 DEF Get
  <1>3. Get(id)'.version = Get(id).version + 1
    BY <1>1, <1>2 DEF Relevelled
  <1>4. NewerRecord(id)
    BY <1>1, <1>3 DEF NewerRecord, IsKnown
  <1> QED
    BY <1>1, <1>4, OthersSameRecord

\* Soft_delete: the id's record, now the last deleted one, is one version newer.
LEMMA SoftDeleteFinds ==
    ASSUME ListsOK, NEW actor \in Actor, NEW id \in Ids, SoftDelete(actor, id)
    PROVE  NewerRecord(id) /\ \A other \in Ids \ {id} : SameRecord(other)
  <1> DEFINE r == Stamped(active[Slot(id)], clock)
             n == Len(deleted) + 1
  <1>1. /\ ListsOK' /\ OthersKept(id) /\ IsActive(id) /\ ~IsActive(id)' /\ r \in Record
        /\ deleted' = Append(deleted, r)
    BY SoftDeleteRecords DEF SoftDelete
  <1>2. r.id = id /\ r.version = Get(id).version + 1
    BY <1>1, SlotOfActive DEF Stamped, Get
  <1> HIDE DEF r
  <1>3. /\ DOMAIN deleted = 1..(n - 1) /\ DOMAIN deleted' = 1..n /\ n \in Nat \ {0}
        /\ deleted'[n] = r /\ \A i \in DOMAIN deleted : deleted'[i] = deleted[i]
    BY <1>1 DEF ListsOK
  <1> HIDE DEF n
  <1>4. IsKnown(id)'
    BY <1>2, <1>3 DEF IsKnown
  <1>5. NewerRecord(id)
    <2>1. PICK k \in DOMAIN deleted' :
             /\ Get(id)' = deleted'[k]
             /\ \A i \in DOMAIN deleted' : deleted'[i].id = id => i <= k
      BY <1>1, <1>4, GetOfDeletedNext
    <2>2. k = n
      BY <1>2, <1>3, <2>1
    <2> QED
      BY <1>2, <1>3, <1>4, <2>1, <2>2 DEF NewerRecord
  <1>6. ASSUME NEW other \in Ids, other # id, IsKnown(other)
        PROVE  IsKnown(other)' /\ Get(other)' = Get(other)
    <2>1. IsActive(other)' <=> IsActive(other)
      BY <1>1, <1>6 DEF OthersKept
    <2>2. CASE IsActive(other)
      BY <1>1, <1>6, <2>1, <2>2 DEF IsKnown, Get, OthersKept
    <2>3. CASE ~IsActive(other)
      <3>1. PICK k \in DOMAIN deleted :
               /\ Get(other) = deleted[k] /\ deleted[k].id = other
               /\ \A i \in DOMAIN deleted : deleted[i].id = other => i <= k
        BY <1>6, <2>3, GetOfDeleted
      <3>2. k \in DOMAIN deleted' /\ deleted'[k] = deleted[k]
        BY <1>3, <3>1
      <3>3. IsKnown(other)'
        BY <3>1, <3>2 DEF IsKnown
      <3>4. PICK m \in DOMAIN deleted' :
               /\ Get(other)' = deleted'[m] /\ deleted'[m].id = other
               /\ \A i \in DOMAIN deleted' : deleted'[i].id = other => i <= m
        BY <1>1, <1>6, <2>1, <2>3, <3>3, GetOfDeletedNext
      <3>5. m \in DOMAIN deleted /\ deleted[m].id = other
        BY <1>2, <1>3, <1>6, <3>4
      <3>6. m = k
        BY <1>3, <3>1, <3>2, <3>4, <3>5
      <3> QED
        BY <3>1, <3>2, <3>3, <3>4, <3>6
    <2> QED BY <2>2, <2>3
  <1> QED
    BY <1>5, <1>6 DEF SameRecord

-----------------------------------------------------------------------------
(* The invariant: how old the tags are that clients hold. *)

\* A tag, handed out when the trail was this long, is of a known id; unless a
\* new record has that id since, it is older than the record to find by as
\* many versions as the id has had events.
TagAge(tag, since) ==
    /\ IsKnown(tag.id)
    /\ since <= Len(trail)
    /\ (\A k \in EventsSince(tag.id, since) : trail[k].action # "Created")
         => Get(tag.id).version = tag.version + Cardinality(EventsSince(tag.id, since))

Tag == [id : Ids, version : Nat]

HeldInv ==
    \A c \in Clients, tag \in Tag, since \in Nat :
        held[c] = tag /\ seen[c] = since /\ tag # NoTag => TagAge(tag, since)

HeldOK ==
    /\ held \in [Clients -> Tag \cup {NoTag}]
    /\ seen \in [Clients -> Nat]
    /\ answer \in [Clients -> [status : {0, 204, 404, 412}, missed : SUBSET OwnEvent]]

\* What the answers say, and why they are right.
AnswersJustified == LostOnlyAcrossRecreation /\ RefusedOnlyWhenOvertaken

EditInv == RosterInv /\ HeldOK /\ HeldInv /\ AnswersJustified

\* The events since a tag was handed out are finitely many events of the trail.
LEMMA EventsSinceCounted ==
    ASSUME TypeOK, NEW id, NEW since
    PROVE  /\ IsFiniteSet(EventsSince(id, since))
           /\ Cardinality(EventsSince(id, since)) \in Nat
           /\ EventsSince(id, since) \subseteq 1..Len(trail)
           /\ \A k \in EventsSince(id, since) : trail[k] \in OwnEvent
  <1>1. EventsSince(id, since) \subseteq DOMAIN trail
    BY DEF EventsSince, EventsOf
  <1>2. DOMAIN trail = 1..Len(trail) /\ Len(trail) \in Nat
        /\ \A k \in DOMAIN trail : trail[k] \in OwnEvent
    BY DEF TypeOK
  <1>3. IsFiniteSet(1..Len(trail))
    BY <1>2, FS_Interval, 1 \in Int, Len(trail) \in Int
  <1> QED
    BY <1>1, <1>2, <1>3, FS_Subset, FS_CardinalityType

\* The trail has one more event, which counts for the tags of its id.
OneMoreSince(id, action, other, since) ==
    /\ since <= Len(trail')
    /\ \A i \in DOMAIN trail : trail'[i] = trail[i]
    /\ trail'[Len(trail) + 1].action = action
    /\ EventsSince(other, since)' =
         EventsSince(other, since) \cup (IF other = id THEN {Len(trail) + 1} ELSE {})
    /\ Cardinality(EventsSince(other, since)') =
         Cardinality(EventsSince(other, since)) + (IF other = id THEN 1 ELSE 0)

\* An emitted event is one more since any tag of its id, and of no other id.
LEMMA EventsSinceGrow ==
    ASSUME TypeOK, NEW actor \in Actor, NEW id \in Ids,
           NEW action \in {"Created", "LevelChanged", "Deleted"},
           NEW details \in Tiers \cup {NoDetails}, NEW now \in Nat,
           Emit(actor, action, id, details, now),
           NEW other \in Ids, NEW since \in Nat, since <= Len(trail)
    PROVE  OneMoreSince(id, action, other, since)
  <1> DEFINE e == AdminEvent(actor.id, action, Kind, id, now, details)
             n == Len(trail) + 1
             M == EventsSince(other, since)
  <1>1. e \in OwnEvent /\ e.kind = Kind /\ e.target = id /\ e.action = action
    BY DEF Actor, OwnEvent, AdminEvent
  <1>2. trail' = Append(trail, e)
    BY DEF Emit
  <1> HIDE DEF e
  <1>3. /\ DOMAIN trail = 1..(n - 1) /\ DOMAIN trail' = 1..n /\ n \in Nat \ {0}
        /\ Len(trail') = n /\ since < n /\ since <= Len(trail')
        /\ trail'[n] = e /\ \A i \in DOMAIN trail : trail'[i] = trail[i]
    BY <1>1, <1>2 DEF TypeOK
  <1>4. IsFiniteSet(M) /\ Cardinality(M) \in Nat /\ n \notin M
    BY <1>3, EventsSinceCounted
  <1> HIDE DEF n
  <1>5. DOMAIN trail' = (DOMAIN trail) \cup {n}
    BY <1>3
  <1>6. M' = M \cup (IF other = id THEN {n} ELSE {})
    BY <1>1, <1>3, <1>5 DEF EventsSince, EventsOf
  <1> HIDE DEF M
  <1>7. CASE other = id
    <2>1. Cardinality(M \cup {n}) = Cardinality(M) + 1
      BY <1>4, FS_AddElement
    <2> QED
      BY <1>1, <1>3, <1>6, <1>7, <2>1 DEF n, M, OneMoreSince
  <1>8. CASE other # id
    <2>1. M' = M
      BY <1>6, <1>8
    <2> QED
      BY <1>1, <1>3, <1>4, <1>8, <2>1 DEF n, M, OneMoreSince
  <1> QED BY <1>7, <1>8

\* A call of the service keeps the age of every tag.
LEMMA CallKeepsAge ==
    ASSUME RosterInv, NEW actor \in Actor, NEW id \in Ids, Call(actor, id),
           NEW tag \in Tag, NEW since \in Nat, TagAge(tag, since)
    PROVE  TagAge(tag, since)'
  <1> DEFINE other == tag.id
             M == EventsSince(other, since)
  <1>1. TypeOK /\ ListsOK /\ clock \in Nat /\ clock + 1 \in Nat /\ since <= Len(trail)
        /\ other \in Ids /\ IsKnown(other) /\ tag.version \in Nat
    BY InvListsOK DEF RosterInv, TypeOK, TagAge, Tag
  <1>2. /\ IsFiniteSet(M) /\ Cardinality(M) \in Nat /\ M \subseteq DOMAIN trail
    BY <1>1, EventsSinceCounted DEF TypeOK
  <1>3. Get(other).version \in Nat
    BY <1>1, GetType DEF Record
  <1>4. PICK action \in {"Created", "LevelChanged", "Deleted"} :
           \E details \in Tiers \cup {NoDetails}, now \in Nat :
              /\ Emit(actor, action, id, details, now)
              /\ action = "Created" => IsKnown(id)'
              /\ action # "Created" => NewerRecord(id)
              /\ \A x \in Ids \ {id} : SameRecord(x)
    <2>1. CASE \E level \in Levels : Create(actor, id, level)
      BY <1>1, <2>1, CreateFinds, LevelsAssumption DEF Create
    <2>2. CASE \E level \in Levels : ChangeLevel(actor, id, level)
      BY <1>1, <2>2, ChangeLevelFinds, LevelsAssumption DEF ChangeLevel
    <2>3. CASE SoftDelete(actor, id)
      BY <1>1, <2>3, SoftDeleteFinds DEF SoftDelete
    <2> QED
      BY <2>1, <2>2, <2>3 DEF Call
  <1>5. /\ since <= Len(trail')
        /\ \A i \in DOMAIN trail : trail'[i] = trail[i]
        /\ trail'[Len(trail) + 1].action = action
        /\ EventsSince(other, since)' = M \cup (IF other = id THEN {Len(trail) + 1} ELSE {})
        /\ Cardinality(EventsSince(other, since)') =
             Cardinality(M) + (IF other = id THEN 1 ELSE 0)
    <2>1. PICK details \in Tiers \cup {NoDetails}, now \in Nat :
             Emit(actor, action, id, details, now)
      BY <1>4
    <2>2. OneMoreSince(id, action, other, since)
      BY <1>1, <2>1, EventsSinceGrow
    <2> QED
      BY <2>2 DEF OneMoreSince
  <1>6. \A k \in M : trail'[k] = trail[k]
    BY <1>2, <1>5
  <1> HIDE DEF M
  <1>7. CASE other # id
    <2>1. IsKnown(other)' /\ Get(other)' = Get(other)
      BY <1>1, <1>4, <1>7 DEF SameRecord
    <2>2. EventsSince(other, since)' = M
      BY <1>5, <1>7
    <2> QED
      BY <1>5, <1>6, <2>1, <2>2 DEF TagAge, M
  <1>8. CASE other = id
    <2>1. CASE action = "Created"
      BY <1>4, <1>5, <1>8, <2>1 DEF TagAge
    <2>2. CASE action # "Created"
      <3>1. IsKnown(other)' /\ Get(other)'.version = Get(other).version + 1
        BY <1>4, <1>8, <2>2 DEF NewerRecord
      <3>2. (\A k \in EventsSince(other, since)' : trail'[k].action # "Created")
              => \A k \in M : trail[k].action # "Created"
        BY <1>5, <1>6
      <3>3. (\A k \in M : trail[k].action # "Created")
              => Get(other).version = tag.version + Cardinality(M)
        BY DEF TagAge, M
      <3>4. (\A k \in EventsSince(other, since)' : trail'[k].action # "Created")
              => Get(other)'.version = tag.version + Cardinality(EventsSince(other, since)')
        <4>1. Cardinality(EventsSince(other, since)') = Cardinality(M) + 1
          BY <1>5, <1>8
        <4> HIDE DEF other
        <4> QED
          BY <1>1, <1>2, <3>1, <3>2, <3>3, <4>1
      <3> QED
        BY <1>5, <3>1, <3>4 DEF TagAge
    <2> QED BY <2>1, <2>2
  <1> QED BY <1>7, <1>8

-----------------------------------------------------------------------------
(* Each step keeps the invariant. *)

\* Leads that edit conditionally are callers.
LEMMA LeadsAreActors == \A c \in Clients : AsLead(c) \in Actor
  BY ClientsAssumption DEF AsLead, Actor

\* What a client holds is a tag, and it has the age its trail position says.
LEMMA HeldTag ==
    ASSUME HeldOK, HeldInv, NEW c \in Clients, held[c] # NoTag
    PROVE  held[c] \in Tag /\ seen[c] \in Nat /\ TagAge(held[c], seen[c])
  <1>1. held[c] \in Tag /\ seen[c] \in Nat
    BY DEF HeldOK
  <1> QED
    BY <1>1 DEF HeldInv

\* A step that leaves the roster and its trail alone makes no tag older.
LEMMA SameAge ==
    ASSUME UNCHANGED vars
    PROVE  \A tag \in Tag, since \in Nat : TagAge(tag, since)' <=> TagAge(tag, since)
  BY DEF TagAge, EventsSince, EventsOf, IsKnown, IsActive, Get, Slot, vars, SelectLastInSeq

\* GET: a fresh tag has no event since.
LEMMA GetRecordKeeps ==
    ASSUME EditInv, NEW c \in Clients, NEW id \in Ids, GetRecord(c, id)
    PROVE  EditInv'
  <1>1. RosterInv /\ ListsOK /\ IsKnown(id) /\ TypeOK
    BY InvListsOK DEF EditInv, RosterInv, GetRecord
  <1>2. Get(id).version \in Nat
    BY <1>1, GetType DEF Record
  <1>3. ETag(id) \in Tag /\ ETag(id).id = id /\ ETag(id).version = Get(id).version
    BY <1>2 DEF ETag, Tag
  <1>4. Len(trail) \in Nat
    BY <1>1 DEF TypeOK
  <1>5. TagAge(ETag(id), Len(trail))
    <2>1. EventsSince(id, Len(trail)) = {}
      <3>1. EventsSince(id, Len(trail)) \subseteq 1..Len(trail)
        BY <1>1, EventsSinceCounted
      <3>2. \A k \in EventsSince(id, Len(trail)) : k > Len(trail)
        BY DEF EventsSince
      <3> QED
        BY <1>4, <3>1, <3>2
    <2>2. Cardinality(EventsSince(id, Len(trail))) = 0
      BY <2>1, FS_EmptySet
    <2> QED
      BY <1>1, <1>2, <1>3, <1>4, <2>2 DEF TagAge
  <1>6. /\ held' = [held EXCEPT ![c] = ETag(id)] /\ seen' = [seen EXCEPT ![c] = Len(trail)]
        /\ UNCHANGED vars /\ UNCHANGED answer
    BY DEF GetRecord
  <1>7. RosterInv'
    BY <1>1, <1>6, NextPreserves
  <1>8. HeldOK'
    BY <1>3, <1>4, <1>6 DEF HeldOK, EditInv
  <1>9. HeldInv'
    <2> SUFFICES ASSUME NEW d \in Clients, NEW tag \in Tag, NEW since \in Nat,
                        held'[d] = tag, seen'[d] = since, tag # NoTag
                 PROVE  TagAge(tag, since)'
      BY DEF HeldInv
    <2>1. held \in [Clients -> Tag \cup {NoTag}] /\ seen \in [Clients -> Nat] /\ HeldInv
      BY DEF EditInv, HeldOK
    <2>2. TagAge(tag, since)
      <3>1. CASE d = c
        <4>1. tag = ETag(id) /\ since = Len(trail)
          BY <1>6, <2>1, <3>1
        <4> QED
          BY <1>5, <4>1
      <3>2. CASE d # c
        <4>1. held[d] = tag /\ seen[d] = since
          BY <1>6, <2>1, <3>2
        <4> QED
          BY <2>1, <4>1 DEF HeldInv
      <3> QED BY <3>1, <3>2
    <2> QED
      BY <1>6, <2>2, SameAge
  <1>10. AnswersJustified'
    BY <1>6 DEF EditInv, AnswersJustified, LostOnlyAcrossRecreation, RefusedOnlyWhenOvertaken,
                Lost, Recreated
  <1> QED
    BY <1>7, <1>8, <1>9, <1>10 DEF EditInv

\* The tags of the present state, in the next one.
AgesKept ==
    \A d \in Clients, tag \in Tag, since \in Nat :
        held[d] = tag /\ seen[d] = since /\ tag # NoTag => TagAge(tag, since)'

\* The answer to a conditional edit, whichever it is, is justified by the age of the tag.
LEMMA TellKeeps ==
    ASSUME EditInv, RosterInv', AgesKept,
           NEW c \in Clients, NEW status \in {204, 404, 412},
           held[c] # NoTag, Tell(c, status),
           status = 204 => ~PreconditionFails(held[c]),
           status = 412 => PreconditionFails(held[c])
    PROVE  EditInv'
  <1> DEFINE tag == held[c]
             M == EventsSince(tag.id, seen[c])
             missed == Missed(c)
  <1>1. TypeOK /\ ListsOK /\ HeldOK /\ HeldInv /\ AnswersJustified
    BY InvListsOK DEF EditInv, RosterInv
  <1>2. tag \in Tag /\ TagAge(tag, seen[c])
    BY <1>1, HeldTag
  <1>3. /\ IsFiniteSet(M) /\ Cardinality(M) \in Nat
        /\ \A k \in M : trail[k] \in OwnEvent
    BY <1>1, EventsSinceCounted
  <1>4. missed = {trail[k] : k \in M}
    BY DEF Missed
  <1>5. IsKnown(tag.id) /\ Get(tag.id).version \in Nat /\ tag.version \in Nat
    <2>1. IsKnown(tag.id) /\ tag.id \in Ids /\ tag.version \in Nat
      BY <1>2 DEF TagAge, Tag
    <2>2. Get(tag.id) \in Record
      BY <1>1, <2>1, GetType
    <2> QED
      BY <2>1, <2>2 DEF Record
  <1>6. ASSUME ~Recreated(missed)
        PROVE  Get(tag.id).version = tag.version + Cardinality(M)
    <2>1. \A k \in M : trail[k].action # "Created"
      BY <1>4, <1>6 DEF Recreated
    <2> QED
      BY <1>2, <2>1 DEF TagAge
  <1>7. status = 204 /\ missed # {} => Recreated(missed)
    <2> SUFFICES ASSUME status = 204, missed # {}, ~Recreated(missed) PROVE FALSE
      OBVIOUS
    <2>1. Get(tag.id).version = tag.version
      BY <1>5 DEF PreconditionFails
    <2>2. Cardinality(M) = 0
      BY <1>3, <1>5, <1>6, <2>1
    <2>3. M = {}
      BY <1>3, <2>2, FS_EmptySet
    <2> QED
      BY <1>4, <2>3
  <1>8. status = 412 => missed # {}
    <2> SUFFICES ASSUME status = 412, missed = {} PROVE FALSE
      OBVIOUS
    <2>1. Get(tag.id).version # tag.version
      BY <1>5 DEF PreconditionFails
    <2>2. M = {} /\ ~Recreated(missed)
      BY <1>4 DEF Recreated
    <2>3. Cardinality(M) = 0
      BY <2>2, FS_EmptySet
    <2> QED
      BY <1>5, <1>6, <2>1, <2>2, <2>3
  <1>9. missed \in SUBSET OwnEvent
    BY <1>3, <1>4
  <1>10. /\ held' = [held EXCEPT ![c] = NoTag] /\ seen' = [seen EXCEPT ![c] = 0]
         /\ answer' = [answer EXCEPT ![c] = [status |-> status, missed |-> missed]]
    BY DEF Tell
  <1> HIDE DEF tag, M, missed
  <1>11. HeldOK'
    BY <1>1, <1>9, <1>10 DEF HeldOK
  <1>12. HeldInv'
    <2> SUFFICES ASSUME NEW d \in Clients, NEW t \in Tag, NEW since \in Nat,
                        held'[d] = t, seen'[d] = since, t # NoTag
                 PROVE  TagAge(t, since)'
      BY DEF HeldInv
    <2>1. held[d] = t /\ seen[d] = since
      BY <1>1, <1>10 DEF HeldOK
    <2> QED
      BY <2>1 DEF AgesKept
  <1>13. AnswersJustified'
    <2>1. \A d \in Clients :
             answer'[d] = IF d = c THEN [status |-> status, missed |-> missed] ELSE answer[d]
      BY <1>1, <1>10 DEF HeldOK
    <2>2. LostOnlyAcrossRecreation'
      BY <1>1, <1>7, <2>1 DEF AnswersJustified, LostOnlyAcrossRecreation, Lost
    <2>3. RefusedOnlyWhenOvertaken'
      BY <1>1, <1>8, <2>1 DEF AnswersJustified, RefusedOnlyWhenOvertaken
    <2> QED
      BY <2>2, <2>3 DEF AnswersJustified
  <1> QED
    BY <1>11, <1>12, <1>13 DEF EditInv

\* 412 and 404 leave the roster alone, 204 edits the record.
LEMMA ConditionalEditKeeps ==
    ASSUME EditInv, NEW c \in Clients,
           EditRefused(c) \/ EditNotFound(c) \/ EditDone(c)
    PROVE  EditInv'
  <1>1. RosterInv /\ HeldOK /\ HeldInv /\ held[c] # NoTag
    BY DEF EditInv, EditRefused, EditNotFound, EditDone
  <1>2. held[c].id \in Ids /\ AsLead(c) \in Actor
    BY <1>1, HeldTag, LeadsAreActors DEF Tag
  <1>3. ASSUME UNCHANGED vars PROVE RosterInv' /\ AgesKept
    BY <1>1, <1>3, NextPreserves, SameAge DEF AgesKept, HeldInv
  <1>4. CASE EditRefused(c)
    BY <1>1, <1>3, <1>4, TellKeeps DEF EditRefused
  <1>5. CASE EditNotFound(c)
    BY <1>1, <1>3, <1>5, TellKeeps DEF EditNotFound
  <1>6. CASE EditDone(c)
    <2>1. Call(AsLead(c), held[c].id)
      BY <1>6 DEF EditDone, Call
    <2>2. RosterInv'
      BY <1>1, <1>2, <2>1, CallPreserves
    <2>3. AgesKept
      BY <1>1, <1>2, <2>1, CallKeepsAge DEF AgesKept, HeldInv
    <2> QED
      BY <1>1, <1>6, <2>2, <2>3, TellKeeps DEF EditDone
  <1> QED
    BY <1>4, <1>5, <1>6

\* A request without If-Match makes tags older.
LEMMA UnconditionalKeeps ==
    ASSUME EditInv, NEW actor \in Actor, NEW id \in Ids, Unconditional(actor, id)
    PROVE  EditInv'
  <1>1. RosterInv /\ HeldOK /\ HeldInv /\ Call(actor, id) /\ UNCHANGED <<held, seen, answer>>
    BY DEF EditInv, Unconditional, editVars
  <1>2. RosterInv'
    BY <1>1, CallPreserves
  <1>3. HeldInv'
    BY <1>1, CallKeepsAge DEF HeldInv
  <1> QED
    BY <1>1, <1>2, <1>3 DEF EditInv, HeldOK, AnswersJustified, LostOnlyAcrossRecreation,
                            RefusedOnlyWhenOvertaken, Lost, Recreated

\* The invariant holds in every reachable state.
THEOREM EditInvariant == EditSpec => []EditInv
  <1>1. EditInit => EditInv
    <2> SUFFICES ASSUME EditInit PROVE EditInv
      OBVIOUS
    <2>1. RosterInv
      BY InitEstablishes DEF EditInit
    <2>2. HeldOK /\ HeldInv /\ AnswersJustified
      BY DEF EditInit, HeldOK, HeldInv, AnswersJustified, NoAnswer, LostOnlyAcrossRecreation,
             RefusedOnlyWhenOvertaken, Lost
    <2> QED
      BY <2>1, <2>2 DEF EditInv
  <1>2. EditInv /\ [EditNext]_allVars => EditInv'
    <2> SUFFICES ASSUME EditInv, [EditNext]_allVars PROVE EditInv'
      OBVIOUS
    <2>1. CASE UNCHANGED allVars
      <3>1. UNCHANGED vars /\ UNCHANGED <<held, seen, answer>>
        BY <2>1 DEF allVars, editVars
      <3>2. RosterInv'
        BY <3>1, NextPreserves DEF EditInv
      <3>3. HeldInv'
        BY <3>1, SameAge DEF EditInv, HeldInv
      <3> QED
        BY <3>1, <3>2, <3>3 DEF EditInv, HeldOK, AnswersJustified, LostOnlyAcrossRecreation,
                                RefusedOnlyWhenOvertaken, Lost, Recreated
    <2> QED
      BY <2>1, GetRecordKeeps, ConditionalEditKeeps, UnconditionalKeeps DEF EditNext
  <1> QED
    BY <1>1, <1>2, PTL DEF EditSpec

-----------------------------------------------------------------------------
(* What follows from it. *)

\* Type correctness.
THEOREM EditTypeCorrect == EditSpec => []EditTypeOK
  <1>1. EditInv => EditTypeOK
    BY DEF EditInv, RosterInv, HeldOK, EditTypeOK, Tag
  <1> QED
    BY <1>1, EditInvariant, PTL

\* An edit that succeeds under If-Match overwrites no change its author did
\* not see, unless the id is another record's by now.
THEOREM EditsLoseOnlyAcrossRecreation == EditSpec => []LostOnlyAcrossRecreation
  BY EditInvariant, PTL DEF EditInv, AnswersJustified

\* 412 is only answered to a client that another request overtook.
THEOREM EditsRefusedOnlyWhenOvertaken == EditSpec => []RefusedOnlyWhenOvertaken
  BY EditInvariant, PTL DEF EditInv, AnswersJustified

\* Editing under a condition is a use of the roster: what was shown of the roster
\* alone holds among conditional edits too.
THEOREM EditImplementsRoster == EditSpec => Spec
  <1>1. EditInv /\ [EditNext]_allVars => [Next]_vars
    <2> SUFFICES ASSUME EditInv, [EditNext]_allVars PROVE [Next]_vars
      OBVIOUS
    <2>1. ASSUME NEW c \in Clients, Len(trail) < MaxEvents, EditDone(c) PROVE Next
      <3>1. Call(AsLead(c), held[c].id) /\ held[c] # NoTag
        BY <2>1 DEF EditDone, Call
      <3>2. held[c].id \in Ids /\ AsLead(c) \in Actor
        BY <3>1, HeldTag, LeadsAreActors DEF EditInv, Tag
      <3> QED
        BY <2>1, <3>1, <3>2 DEF Next
    <2> QED
      BY <2>1 DEF EditNext, Next, GetRecord, EditRefused, EditNotFound, Unconditional,
                  allVars, vars
  <1>2. EditInit => Init
    BY DEF EditInit
  <1> QED
    BY <1>1, <1>2, EditInvariant, PTL DEF EditSpec, Spec
=============================================================================
