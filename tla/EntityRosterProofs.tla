------------------------- MODULE EntityRosterProofs -------------------------
(***************************************************************************)
(* What holds of the roster for every set of ids, every set of callers and *)
(* every number of events.                                                 *)
(***************************************************************************)
EXTENDS EntityRoster, ListLemmas

-----------------------------------------------------------------------------
(* The inductive invariant. *)

\* The two lists by themselves, whichever services share the trail.
ListsOK ==
    /\ active \in Seq(Record)
    /\ deleted \in Seq(Record)
    /\ clock \in Nat
    /\ ActiveIdsUnique

\* Active records carry no deletion stamp; deleted ones carry theirs, taken
\* from the clock before its present value and in the order of the deletions.
StampsInOrder ==
    /\ \A i \in DOMAIN active : active[i].deleted_at = NotDeleted
    /\ \A i \in DOMAIN deleted : deleted[i].deleted_at \in 0..(clock - 1)
    /\ \A i, j \in DOMAIN deleted : i < j => deleted[i].deleted_at < deleted[j].deleted_at

\* The clock is ahead of every event it has stamped.
ClockAhead == \A i \in DOMAIN trail : trail[i].time < clock

RosterInv ==
    /\ TypeOK
    /\ ActiveIdsUnique
    /\ StampsInOrder
    /\ ClockAhead
    /\ TrailChronological

\* It contains ListsOK.
LEMMA InvListsOK == RosterInv => ListsOK
  BY DEF RosterInv, TypeOK, ListsOK

\* What the two edits do to a record.
LEMMA RecordEdits ==
    ASSUME NEW r \in Record, NEW level \in Tiers, NEW now \in Nat
    PROVE  /\ Relevelled(r, level) \in Record
           /\ Relevelled(r, level).id = r.id
           /\ Relevelled(r, level).level = level
           /\ Relevelled(r, level).deleted_at = r.deleted_at
           /\ Relevelled(r, level).version = r.version + 1
           /\ Stamped(r, now) \in Record
           /\ Stamped(r, now).id = r.id
           /\ Stamped(r, now).deleted_at = now
           /\ Stamped(r, now).version = r.version + 1
  BY DEF Record, Relevelled, Stamped

\* An active id has a slot, and it is the only one with that id.
LEMMA SlotOfActive ==
    ASSUME ListsOK, NEW id \in Ids, IsActive(id)
    PROVE  /\ Slot(id) \in DOMAIN active
           /\ active[Slot(id)].id = id
           /\ \A i \in DOMAIN active : active[i].id = id => i = Slot(id)
  <1>1. PICK k \in DOMAIN active : active[k].id = id
    BY DEF IsActive
  <1>2. \A j \in 1..(k - 1) : active[j].id # id
    BY <1>1 DEF ListsOK, ActiveIdsUnique
  <1>3. /\ Slot(id) \in DOMAIN active
        /\ active[Slot(id)].id = id
    BY <1>1, <1>2 DEF Slot
  <1> QED
    BY <1>3 DEF ListsOK, ActiveIdsUnique

\* The same of the next state.
LEMMA SlotOfActiveNext ==
    ASSUME ListsOK', NEW id \in Ids, IsActive(id)'
    PROVE  /\ Slot(id)' \in DOMAIN active'
           /\ active'[Slot(id)'].id = id
           /\ \A i \in DOMAIN active' : active'[i].id = id => i = Slot(id)'
  <1>1. PICK k \in DOMAIN active' : active'[k].id = id
    BY DEF IsActive
  <1>2. \A j \in 1..(k - 1) : active'[j].id # id
    BY <1>1 DEF ListsOK, ActiveIdsUnique
  <1>3. /\ Slot(id)' \in DOMAIN active'
        /\ active'[Slot(id)'].id = id
    BY <1>1, <1>2 DEF Slot
  <1> QED
    BY <1>3 DEF ListsOK, ActiveIdsUnique

\* What a successful mutation requires of its caller and of the roster.
LEMMA OutcomeOk ==
    ASSUME NEW actor, NEW id
    PROVE  /\ CreateOutcome(actor, id) = "Ok" => RequireCrewLead(actor) /\ ~IsActive(id)
           /\ EditOutcome(actor, id) = "Ok" => RequireCrewLead(actor) /\ IsActive(id)
  BY DEF CreateOutcome, EditOutcome

\* Emitting an event keeps the trail well-typed and in order, as long as the
\* event's instant is not behind the clock.
LEMMA EmitKeepsTrail ==
    ASSUME TypeOK, ClockAhead, TrailChronological,
           NEW actor \in Actor, NEW id \in Ids,
           NEW action \in {"Created", "LevelChanged", "Deleted"},
           NEW details \in Tiers \cup {NoDetails},
           NEW now \in Nat, now >= clock,
           Emit(actor, action, id, details, now)
    PROVE  /\ trail' \in Seq(OwnEvent)
           /\ clock' = now + 1
           /\ clock' \in Nat
           /\ ClockAhead'
           /\ TrailChronological'
  <1> DEFINE e == AdminEvent(actor.id, action, Kind, id, now, details)
  <1>1. e \in OwnEvent /\ e.time = now
    BY DEF Actor, OwnEvent, AdminEvent
  <1>2. trail' = Append(trail, e) /\ clock' = now + 1
    BY DEF Emit
  <1>3. trail \in Seq(OwnEvent) /\ clock \in Nat
    BY DEF TypeOK
  <1>4. \A i \in DOMAIN trail : trail[i].time \in Nat
    <2> SUFFICES ASSUME NEW i \in DOMAIN trail PROVE trail[i].time \in Nat
      OBVIOUS
    <2>1. trail[i] \in OwnEvent
      BY <1>3
    <2> QED
      BY <2>1 DEF OwnEvent
  <1> HIDE DEF e
  <1>5. /\ trail' \in Seq(OwnEvent)
        /\ \A i \in DOMAIN trail : trail'[i] = trail[i]
        /\ \A i \in DOMAIN trail' : i \in DOMAIN trail \/ i = Len(trail) + 1
        /\ trail'[Len(trail) + 1] = e
    BY <1>1, <1>2, <1>3, AppendProperties
  <1>6. ClockAhead'
    BY <1>1, <1>2, <1>3, <1>4, <1>5 DEF ClockAhead
  <1>7. TrailChronological'
    BY <1>1, <1>3, <1>4, <1>5 DEF ClockAhead, TrailChronological
  <1> QED
    BY <1>2, <1>5, <1>6, <1>7

-----------------------------------------------------------------------------
(* What each operation does to the record of every id. *)

\* The records of the other active ids are where they were.
OthersKept(id) ==
    \A other \in Ids \ {id} :
        /\ IsActive(other)' <=> IsActive(other)
        /\ IsActive(other) => active'[Slot(other)'] = active[Slot(other)]

\* Create: the id has a fresh record, at the end of the list.
LEMMA CreateRecords ==
    ASSUME ListsOK, NEW actor \in Actor, NEW id \in Ids, NEW level \in Tiers,
           Create(actor, id, level)
    PROVE  /\ ListsOK' /\ OthersKept(id)
           /\ NewRecord(id, level) \in Record
           /\ ~IsActive(id)
           /\ IsActive(id)' /\ active'[Slot(id)'] = NewRecord(id, level)
  <1> DEFINE r == NewRecord(id, level)
  <1>1. r \in Record /\ r.id = id
    BY DEF Record, NewRecord
  <1>2. ~IsActive(id) /\ active' = Append(active, r) /\ deleted' = deleted /\ clock' = clock + 1
    BY OutcomeOk DEF Create, Emit
  <1> HIDE DEF r
  <1>3. /\ active' \in Seq(Record)
        /\ \A i \in DOMAIN active : i \in DOMAIN active' /\ active'[i] = active[i]
        /\ \A i \in DOMAIN active' : i \in DOMAIN active \/ i = Len(active) + 1
        /\ Len(active) + 1 \in DOMAIN active'
        /\ active'[Len(active) + 1] = r
    BY <1>1, <1>2, AppendProperties DEF ListsOK
  <1>4. ListsOK'
    <2>1. ActiveIdsUnique'
      BY <1>1, <1>2, <1>3 DEF ListsOK, ActiveIdsUnique, IsActive
    <2> QED
      BY <1>2, <1>3, <2>1 DEF ListsOK
  <1>5. ASSUME NEW other \in Ids PROVE IsActive(other)' <=> (IsActive(other) \/ other = id)
    BY <1>1, <1>3 DEF IsActive
  <1>6. ASSUME NEW other \in Ids, other # id, IsActive(other)
        PROVE  active'[Slot(other)'] = active[Slot(other)]
    <2>1. Slot(other) \in DOMAIN active /\ active[Slot(other)].id = other
      BY <1>6, SlotOfActive
    <2>2. Slot(other)' = Slot(other)
      BY <1>3, <1>4, <1>5, <1>6, <2>1, SlotOfActiveNext
    <2> QED
      BY <1>3, <2>1, <2>2
  <1>7. IsActive(id)' /\ active'[Slot(id)'] = r
    <2>1. IsActive(id)'
      BY <1>5
    <2>2. Slot(id)' = Len(active) + 1
      BY <1>1, <1>3, <1>4, <2>1, SlotOfActiveNext
    <2> QED
      BY <1>3, <2>1, <2>2
  <1>8. OthersKept(id)
    BY <1>5, <1>6 DEF OthersKept
  <1> QED
    BY <1>1, <1>2, <1>4, <1>7, <1>8 DEF r

\* Change_tier: the id's record is edited in its place.
LEMMA ChangeLevelRecords ==
    ASSUME ListsOK, NEW actor \in Actor, NEW id \in Ids, NEW level \in Tiers,
           ChangeLevel(actor, id, level)
    PROVE  /\ ListsOK' /\ OthersKept(id)
           /\ Relevelled(active[Slot(id)], level) \in Record
           /\ IsActive(id)
           /\ IsActive(id)' /\ active'[Slot(id)'] = Relevelled(active[Slot(id)], level)
  <1> DEFINE k == Slot(id)
             r == Relevelled(active[k], level)
  <1>1. IsActive(id) /\ k \in DOMAIN active /\ active[k].id = id /\ active[k] \in Record
    BY OutcomeOk, SlotOfActive DEF ChangeLevel, ListsOK
  <1>2. r \in Record /\ r.id = id
    BY <1>1, RecordEdits, 0 \in Nat
  <1>3. active' = [active EXCEPT ![k] = r] /\ deleted' = deleted /\ clock' = clock + 1
    BY DEF ChangeLevel, Emit
  <1> HIDE DEF k, r
  <1>4. /\ active' \in Seq(Record)
        /\ DOMAIN active' = DOMAIN active
        /\ \A i \in DOMAIN active : active'[i] = IF i = k THEN r ELSE active[i]
    BY <1>1, <1>2, <1>3 DEF ListsOK
  <1>5. ListsOK'
    <2>1. ActiveIdsUnique'
      BY <1>1, <1>2, <1>4 DEF ListsOK, ActiveIdsUnique
    <2> QED
      BY <1>3, <1>4, <2>1 DEF ListsOK
  <1>6. ASSUME NEW other \in Ids PROVE IsActive(other)' <=> IsActive(other)
    BY <1>1, <1>2, <1>4 DEF IsActive
  <1>7. ASSUME NEW other \in Ids, other # id, IsActive(other)
        PROVE  active'[Slot(other)'] = active[Slot(other)]
    <2>1. Slot(other) \in DOMAIN active /\ active[Slot(other)].id = other
      BY <1>7, SlotOfActive
    <2>2. Slot(other) # k
      BY <1>1, <1>7, <2>1
    <2>3. Slot(other)' = Slot(other)
      BY <1>4, <1>5, <1>6, <1>7, <2>1, <2>2, SlotOfActiveNext
    <2> QED
      BY <1>4, <2>1, <2>2, <2>3
  <1>8. IsActive(id)' /\ active'[Slot(id)'] = r
    <2>1. Slot(id)' = k
      BY <1>1, <1>2, <1>4, <1>5, <1>6, SlotOfActiveNext
    <2> QED
      BY <1>1, <1>4, <1>6, <2>1
  <1>9. OthersKept(id)
    BY <1>6, <1>7 DEF OthersKept
  <1> QED
    BY <1>1, <1>2, <1>5, <1>8, <1>9 DEF k, r

\* Soft_delete: the id's record moves to the end of the deleted list.
LEMMA SoftDeleteRecords ==
    ASSUME ListsOK, NEW actor \in Actor, NEW id \in Ids, SoftDelete(actor, id)
    PROVE  /\ ListsOK' /\ OthersKept(id)
           /\ Stamped(active[Slot(id)], clock) \in Record
           /\ IsActive(id) /\ ~IsActive(id)'
  <1> DEFINE k == Slot(id)
             r == Stamped(active[k], clock)
  <1>1. /\ IsActive(id) /\ k \in DOMAIN active /\ active[k].id = id /\ active[k] \in Record
        /\ \A i \in DOMAIN active : active[i].id = id => i = k
    BY OutcomeOk, SlotOfActive DEF SoftDelete, ListsOK
  <1>2. r \in Record
    BY <1>1, RecordEdits, "Silver" \in Tiers DEF Tiers, ListsOK
  <1>3. active' = RemoveAt(active, k) /\ deleted' = Append(deleted, r) /\ clock' = clock + 2
    BY DEF SoftDelete, Emit, ListsOK
  <1> HIDE DEF k, r
  <1>4. active \in Seq(Record) /\ k \in 1..Len(active) /\ Len(active) \in Nat
    BY <1>1 DEF ListsOK
  <1>5. /\ active' \in Seq(Record) /\ Len(active') = Len(active) - 1
        /\ \A i \in DOMAIN active' :
             active'[i] = IF i < k THEN active[i] ELSE active[i + 1]
    BY <1>1, <1>3, <1>4, RemoveAtProperties
  <1>6. \A i \in DOMAIN active' : \E j \in DOMAIN active :
           j # k /\ active'[i] = active[j] /\ j = (IF i < k THEN i ELSE i + 1)
    <2> SUFFICES ASSUME NEW i \in DOMAIN active'
                 PROVE  \E j \in DOMAIN active :
                           j # k /\ active'[i] = active[j] /\ j = (IF i < k THEN i ELSE i + 1)
      OBVIOUS
    <2>1. i \in 1..(Len(active) - 1)
      BY <1>4, <1>5
    <2>2. CASE i < k
      BY <1>4, <1>5, <2>1, <2>2
    <2>3. CASE i >= k
      BY <1>4, <1>5, <2>1, <2>3
    <2> QED
      BY <1>4, <2>1, <2>2, <2>3
  <1>7. \A j \in DOMAIN active : j # k => \E i \in DOMAIN active' : active'[i] = active[j]
    <2> SUFFICES ASSUME NEW j \in DOMAIN active, j # k
                 PROVE  \E i \in DOMAIN active' : active'[i] = active[j]
      OBVIOUS
    <2>1. j \in 1..Len(active) /\ DOMAIN active' = 1..(Len(active) - 1)
      BY <1>4, <1>5
    <2>2. CASE j < k
      <3>1. j \in DOMAIN active'
        BY <1>4, <2>1, <2>2
      <3> QED
        BY <1>5, <2>2, <3>1
    <2>3. CASE j > k
      <3>1. j - 1 \in DOMAIN active' /\ ~(j - 1 < k) /\ (j - 1) + 1 = j
        BY <1>4, <2>1, <2>3
      <3>2. active'[j - 1] = active[(j - 1) + 1]
        BY <1>5, <3>1
      <3> QED
        BY <3>1, <3>2
    <2> QED
      BY <1>4, <2>1, <2>2, <2>3
  <1>8. ListsOK'
    <2>1. ActiveIdsUnique'
      <3> SUFFICES ASSUME NEW i \in DOMAIN active', NEW j \in DOMAIN active',
                          active'[i].id = active'[j].id
                   PROVE  i = j
        BY DEF ActiveIdsUnique
      <3>1. i \in Nat /\ j \in Nat /\ k \in Nat
        BY <1>4, <1>5
      <3> QED
        BY <1>6, <3>1 DEF ListsOK, ActiveIdsUnique
    <2>2. deleted' \in Seq(Record)
      BY <1>2, <1>3, AppendProperties DEF ListsOK
    <2> QED
      BY <1>3, <1>5, <2>1, <2>2 DEF ListsOK
  <1>9. ~IsActive(id)'
    BY <1>1, <1>6 DEF IsActive
  <1>10. ASSUME NEW other \in Ids, other # id
         PROVE  /\ IsActive(other)' <=> IsActive(other)
                /\ IsActive(other) => active'[Slot(other)'] = active[Slot(other)]
    <2>1. IsActive(other)' => IsActive(other)
      BY <1>6 DEF IsActive
    <2>2. ASSUME IsActive(other)
          PROVE  IsActive(other)' /\ active'[Slot(other)'] = active[Slot(other)]
      <3>1. Slot(other) \in DOMAIN active /\ active[Slot(other)].id = other
        BY <2>2, SlotOfActive
      <3>2. PICK i \in DOMAIN active' : active'[i] = active[Slot(other)]
        BY <1>1, <1>7, <1>10, <3>1
      <3>3. IsActive(other)'
        BY <3>1, <3>2 DEF IsActive
      <3>4. Slot(other)' = i
        BY <1>8, <3>1, <3>2, <3>3, SlotOfActiveNext
      <3> QED
        BY <3>2, <3>3, <3>4
    <2> QED
      BY <2>1, <2>2
  <1>11. OthersKept(id)
    BY <1>10 DEF OthersKept
  <1> QED
    BY <1>1, <1>2, <1>8, <1>9, <1>11 DEF k, r

-----------------------------------------------------------------------------
(* Each operation preserves the invariant. *)

\* Create keeps RosterInv: the new event is the latest.
LEMMA CreatePreserves ==
    ASSUME RosterInv, NEW actor \in Actor, NEW id \in Ids, NEW level \in Tiers,
           Create(actor, id, level)
    PROVE  RosterInv'
  <1> USE DEF RosterInv
  <1> DEFINE r == NewRecord(id, level)
  <1>1. ListsOK /\ ListsOK' /\ r \in Record
    BY InvListsOK, CreateRecords
  <1>2. r.deleted_at = NotDeleted
    BY DEF NewRecord
  <1>3. active' = Append(active, r) /\ deleted' = deleted
    BY DEF Create
  <1> HIDE DEF r
  <1>4. /\ \A i \in DOMAIN active : active'[i] = active[i]
        /\ \A i \in DOMAIN active' : i \in DOMAIN active \/ i = Len(active) + 1
        /\ active'[Len(active) + 1] = r
    BY <1>1, <1>3, AppendProperties DEF ListsOK
  <1>5. /\ trail' \in Seq(OwnEvent) /\ clock' = clock + 1
        /\ ClockAhead' /\ TrailChronological'
    BY <1>1, EmitKeepsTrail DEF Create, ListsOK
  <1>6. StampsInOrder'
    BY <1>1, <1>2, <1>3, <1>4, <1>5 DEF ListsOK, StampsInOrder
  <1> QED
    BY <1>1, <1>5, <1>6 DEF ListsOK, TypeOK

\* Change_tier keeps RosterInv: it touches no stamp.
LEMMA ChangeLevelPreserves ==
    ASSUME RosterInv, NEW actor \in Actor, NEW id \in Ids, NEW level \in Tiers,
           ChangeLevel(actor, id, level)
    PROVE  RosterInv'
  <1> USE DEF RosterInv
  <1> DEFINE k == Slot(id)
             r == Relevelled(active[k], level)
  <1>1. ListsOK /\ ListsOK' /\ IsActive(id)
    BY InvListsOK, ChangeLevelRecords
  <1>2. k \in DOMAIN active /\ active[k] \in Record
    BY <1>1, SlotOfActive DEF ListsOK
  <1>3. r.deleted_at = active[k].deleted_at
    BY <1>2, RecordEdits, 0 \in Nat
  <1>4. active' = [active EXCEPT ![k] = r] /\ deleted' = deleted
    BY DEF ChangeLevel
  <1> HIDE DEF k, r
  <1>5. /\ DOMAIN active' = DOMAIN active
        /\ \A i \in DOMAIN active : active'[i] = IF i = k THEN r ELSE active[i]
    BY <1>2, <1>4
  <1>6. /\ trail' \in Seq(OwnEvent) /\ clock' = clock + 1
        /\ ClockAhead' /\ TrailChronological'
    BY <1>1, EmitKeepsTrail DEF ChangeLevel, ListsOK
  <1>7. StampsInOrder'
    BY <1>1, <1>2, <1>3, <1>4, <1>5, <1>6 DEF ListsOK, StampsInOrder
  <1> QED
    BY <1>1, <1>6, <1>7 DEF ListsOK, TypeOK

\* Soft_delete keeps RosterInv: the stamp is later than every earlier one.
LEMMA SoftDeletePreserves ==
    ASSUME RosterInv, NEW actor \in Actor, NEW id \in Ids, SoftDelete(actor, id)
    PROVE  RosterInv'
  <1> USE DEF RosterInv
  <1> DEFINE k == Slot(id)
             r == Stamped(active[k], clock)
  <1>1. ListsOK /\ ListsOK' /\ IsActive(id) /\ r \in Record
    BY InvListsOK, SoftDeleteRecords
  <1>2. k \in DOMAIN active /\ active[k] \in Record
    BY <1>1, SlotOfActive DEF ListsOK
  <1>3. r.deleted_at = clock
    BY <1>1, <1>2, RecordEdits, "Silver" \in Tiers DEF Tiers, ListsOK
  <1>4. deleted' = Append(deleted, r) /\ active' = RemoveAt(active, k)
    BY DEF SoftDelete
  <1> HIDE DEF k, r
  <1>5. \A i \in DOMAIN active' : \E j \in DOMAIN active : active'[i] = active[j]
    <2>1. /\ Len(active') = Len(active) - 1
          /\ \A i \in DOMAIN active' :
               active'[i] = IF i < k THEN active[i] ELSE active[i + 1]
      BY <1>1, <1>2, <1>4, RemoveAtProperties DEF ListsOK
    <2>2. DOMAIN active = 1..Len(active) /\ DOMAIN active' = 1..Len(active') /\ Len(active) \in Nat
      BY <1>1 DEF ListsOK
    <2> QED
      BY <1>2, <2>1, <2>2
  <1>6. /\ \A i \in DOMAIN deleted : deleted'[i] = deleted[i]
        /\ \A i \in DOMAIN deleted' : i \in DOMAIN deleted \/ i = Len(deleted) + 1
        /\ deleted'[Len(deleted) + 1] = r
    BY <1>1, <1>4, AppendProperties DEF ListsOK
  <1>7. clock \in Nat /\ clock + 1 \in Nat /\ clock + 1 >= clock /\ deleted \in Seq(Record)
    BY <1>1 DEF ListsOK
  <1>8. /\ trail' \in Seq(OwnEvent) /\ clock' = clock + 2
        /\ ClockAhead' /\ TrailChronological'
    <2>1. Emit(actor, "Deleted", id, NoDetails, clock + 1)
      BY DEF SoftDelete
    <2>2. clock' = (clock + 1) + 1 /\ trail' \in Seq(OwnEvent) /\ ClockAhead' /\ TrailChronological'
      BY <1>7, <2>1, EmitKeepsTrail
    <2> QED
      BY <1>7, <2>2
  <1>9. StampsInOrder'
    <2>1. \A i \in DOMAIN active' : active'[i].deleted_at = NotDeleted
      BY <1>5 DEF StampsInOrder
    <2>2. \A i \in DOMAIN deleted' : deleted'[i].deleted_at \in 0..(clock' - 1)
      BY <1>3, <1>6, <1>8, <1>7 DEF StampsInOrder
    <2>3. \A i, j \in DOMAIN deleted' :
             i < j => deleted'[i].deleted_at < deleted'[j].deleted_at
      BY <1>3, <1>6, <1>7 DEF StampsInOrder
    <2> QED
      BY <2>1, <2>2, <2>3 DEF StampsInOrder
  <1> QED
    BY <1>1, <1>8, <1>9 DEF ListsOK, TypeOK

\* Every call keeps RosterInv.
LEMMA CallPreserves ==
    ASSUME RosterInv, NEW actor \in Actor, NEW id \in Ids, Call(actor, id)
    PROVE  RosterInv'
  BY CreatePreserves, ChangeLevelPreserves, SoftDeletePreserves, LevelsAssumption DEF Call

\* Every step keeps RosterInv.
LEMMA NextPreserves == RosterInv /\ [Next]_vars => RosterInv'
  <1> SUFFICES ASSUME RosterInv, [Next]_vars PROVE RosterInv'
    OBVIOUS
  <1>1. ASSUME NEW actor \in Actor, NEW id \in Ids, Call(actor, id)
        PROVE  RosterInv'
    BY <1>1, CallPreserves
  <1>2. CASE UNCHANGED vars
    BY <1>2 DEF vars, RosterInv, TypeOK, ActiveIdsUnique, StampsInOrder, ClockAhead,
                TrailChronological
  <1> QED
    BY <1>1, <1>2 DEF Next, Reject

\* The empty service satisfies RosterInv.
LEMMA InitEstablishes == Init => RosterInv
  BY DEF Init, RosterInv, TypeOK, ActiveIdsUnique, StampsInOrder, ClockAhead,
         TrailChronological

\* The invariant holds in every reachable state.
THEOREM RosterInvariant == Spec => []RosterInv
  BY InitEstablishes, NextPreserves, PTL DEF Spec

-----------------------------------------------------------------------------
(* What follows from it. *)

\* Type correctness.
THEOREM RosterTypeCorrect == Spec => []TypeOK
  BY RosterInvariant, PTL DEF RosterInv

\* PS-R2, RS-R2: no sequence of calls makes an id active twice.
THEOREM RosterIdsUnique == Spec => []ActiveIdsUnique
  BY RosterInvariant, PTL DEF RosterInv

\* AU-I2: a service's events are in strict chronological order.
THEOREM RosterTrailChronological == Spec => []TrailChronological
  BY RosterInvariant, PTL DEF RosterInv

\* PS-I2, RS-I2: no operation touches a record once it is soft-deleted.
THEOREM RosterDeletionsFinal == Spec => DeletedRecordsAreFinal
  <1>1. RosterInv /\ [Next]_vars => [IsPrefix(deleted, deleted')]_vars
    <2> SUFFICES ASSUME RosterInv, Next PROVE IsPrefix(deleted, deleted')
      OBVIOUS
    <2>1. deleted \in Seq(Record) /\ clock \in Nat
      BY DEF RosterInv, TypeOK
    <2>2. ASSUME NEW actor \in Actor, NEW id \in Ids, SoftDelete(actor, id)
          PROVE  IsPrefix(deleted, deleted')
      <3>1. active[Slot(id)] \in Record
        BY <2>2, OutcomeOk, InvListsOK, SlotOfActive DEF SoftDelete, ListsOK
      <3>2. Stamped(active[Slot(id)], clock) \in Record
        BY <2>1, <3>1, RecordEdits, "Silver" \in Tiers DEF Tiers
      <3> QED
        BY <2>1, <2>2, <3>2, AppendIsPrefix DEF SoftDelete
    <2>3. deleted' = deleted => IsPrefix(deleted, deleted')
      BY <2>1, PrefixReflexive
    <2> QED
      BY <2>2, <2>3 DEF Next, Call, Create, ChangeLevel, Reject, vars
  <1> QED
    BY <1>1, RosterInvariant, PTL DEF Spec, DeletedRecordsAreFinal

\* PS-R9: get finds the active record, and otherwise the one deleted last.
THEOREM RosterLookupLatest == Spec => []LookupIsLatest
  <1>1. RosterInv => LookupIsLatest
    <2> SUFFICES ASSUME RosterInv, NEW id \in Ids, IsKnown(id)
                 PROVE  /\ Get(id).id = id
                        /\ IsActive(id) => Get(id).deleted_at = NotDeleted
                        /\ ~IsActive(id) =>
                             \A i \in DOMAIN deleted :
                                deleted[i].id = id
                                    => deleted[i].deleted_at <= Get(id).deleted_at
      BY DEF LookupIsLatest
    <2>1. CASE IsActive(id)
      BY <2>1, InvListsOK, SlotOfActive DEF RosterInv, StampsInOrder, Get
    <2>2. CASE ~IsActive(id)
      <3> DEFINE matches == {i \in 1..Len(deleted) : deleted[i].id = id}
      <3>1. deleted \in Seq(Record) /\ clock \in Nat /\ Len(deleted) \in Nat
            /\ DOMAIN deleted = 1..Len(deleted)
        BY DEF RosterInv, TypeOK
      <3>2. matches # {} /\ matches \in SUBSET (1..Len(deleted))
        BY <2>2, <3>1 DEF IsKnown
      <3>3. Max(matches) \in matches /\ \A i \in matches : i <= Max(matches)
        BY <3>1, <3>2, MaxOfIndices
      <3>4. Get(id) = deleted[Max(matches)]
        BY <2>2, <3>2 DEF Get, SelectLastInSeq
      <3> HIDE DEF matches
      <3>5. \A i \in matches : deleted[i].deleted_at \in Int
        BY <3>1 DEF RosterInv, StampsInOrder, matches
      <3>6. \A i \in matches : deleted[i].deleted_at <= deleted[Max(matches)].deleted_at
        <4> SUFFICES ASSUME NEW i \in matches
                     PROVE  deleted[i].deleted_at <= deleted[Max(matches)].deleted_at
          OBVIOUS
        <4>1. CASE i = Max(matches)
          BY <4>1, <3>5
        <4>2. CASE i < Max(matches)
          BY <4>2, <3>1, <3>3, <3>5 DEF RosterInv, StampsInOrder, matches
        <4>3. i <= Max(matches) /\ i \in Nat /\ Max(matches) \in Nat
          BY <3>1, <3>3 DEF matches
        <4> QED
          BY <4>1, <4>2, <4>3
      <3> QED
        BY <2>2, <3>1, <3>3, <3>4, <3>6 DEF matches
    <2> QED
      BY <2>1, <2>2
  <1> QED
    BY <1>1, RosterInvariant, PTL

-----------------------------------------------------------------------------
(* The roster implements the audited directory. *)

EntrySet == [action : {"Created", "LevelChanged", "Deleted"}, target : Ids,
             level : Tiers \cup {NoDetails, "absent"}]

\* One emitted event is one entry at the end of the history.
LEMMA HistoryGrows ==
    ASSUME TypeOK, NEW actor \in Actor, NEW id \in Ids,
           NEW action \in {"Created", "LevelChanged", "Deleted"},
           NEW details \in Tiers \cup {NoDetails}, NEW now \in Nat,
           Emit(actor, action, id, details, now)
    PROVE  HistoryView' = Append(HistoryView,
               [action |-> action, target |-> id,
                level  |-> IF action = "Deleted" THEN "absent" ELSE details])
  <1> DEFINE e == AdminEvent(actor.id, action, Kind, id, now, details)
             entry == [ev \in OwnEvent |-> EntryOf(ev)]
  <1>1. e \in OwnEvent
    BY DEF Actor, OwnEvent, AdminEvent
  <1>2. trail' = Append(trail, e) /\ trail \in Seq(OwnEvent)
    BY DEF Emit, TypeOK
  <1>3. entry \in [OwnEvent -> EntrySet]
    <2> SUFFICES ASSUME NEW ev \in OwnEvent PROVE EntryOf(ev) \in EntrySet
      OBVIOUS
    <2> QED
      BY DEF OwnEvent, EntryOf, EntrySet
  <1>4. entry[e] = [action |-> action, target |-> id,
                    level  |-> IF action = "Deleted" THEN "absent" ELSE details]
    <2>1. entry[e] = EntryOf(e)
      BY <1>1
    <2> QED
      BY <2>1 DEF EntryOf, AdminEvent
  <1> HIDE DEF e
  <1>5. HistoryView = [i \in DOMAIN trail |-> entry[trail[i]]]
    <2>1. \A i \in DOMAIN trail : trail[i] \in OwnEvent
      BY <1>2
    <2> QED
      BY <2>1 DEF HistoryView
  <1>6. HistoryView' = [i \in DOMAIN Append(trail, e) |-> entry[Append(trail, e)[i]]]
    <2>1. \A i \in DOMAIN Append(trail, e) : Append(trail, e)[i] \in OwnEvent
      BY <1>1, <1>2
    <2> QED
      BY <1>2, <2>1 DEF HistoryView
  <1> HIDE DEF entry
  <1> QED
    BY <1>1, <1>2, <1>3, <1>4, <1>5, <1>6, MapAppend

\* What the three operations do to the tier of every id.
LEMMA CreateView ==
    ASSUME RosterInv, NEW actor \in Actor, NEW id \in Ids,
           NEW level \in Tiers, Create(actor, id, level)
    PROVE  /\ RosterView[id] = "absent"
           /\ RosterView' = [RosterView EXCEPT ![id] = level]
  <1>1. OthersKept(id) /\ ~IsActive(id) /\ IsActive(id)' /\ active'[Slot(id)'].level = level
    <2>1. NewRecord(id, level).level = level
      BY DEF NewRecord
    <2> QED
      BY <2>1, InvListsOK, CreateRecords
  <1> QED
    BY <1>1 DEF RosterView, OthersKept

\* Change_tier changes the tier of one id in the view of the directory.
LEMMA ChangeLevelView ==
    ASSUME RosterInv, NEW actor \in Actor, NEW id \in Ids,
           NEW level \in Tiers, ChangeLevel(actor, id, level)
    PROVE  /\ RosterView[id] # "absent"
           /\ RosterView' = [RosterView EXCEPT ![id] = level]
  <1>1. /\ OthersKept(id) /\ IsActive(id) /\ IsActive(id)'
        /\ active'[Slot(id)'].level = level
    <2>1. Relevelled(active[Slot(id)], level).level = level
      BY DEF Relevelled
    <2> QED
      BY <2>1, InvListsOK, ChangeLevelRecords
  <1>2. active[Slot(id)].level # "absent"
    <2>1. active[Slot(id)] \in Record
      BY <1>1, InvListsOK, SlotOfActive DEF ListsOK
    <2> QED
      BY <2>1 DEF Record, Tiers
  <1> QED
    BY <1>1, <1>2 DEF RosterView, OthersKept

\* Soft_delete removes one id from the view of the directory.
LEMMA SoftDeleteView ==
    ASSUME RosterInv, NEW actor \in Actor, NEW id \in Ids, SoftDelete(actor, id)
    PROVE  /\ RosterView[id] # "absent"
           /\ RosterView' = [RosterView EXCEPT ![id] = "absent"]
  <1>1. OthersKept(id) /\ IsActive(id) /\ ~IsActive(id)'
    BY InvListsOK, SoftDeleteRecords
  <1>2. active[Slot(id)].level # "absent"
    <2>1. active[Slot(id)] \in Record
      BY <1>1, InvListsOK, SlotOfActive DEF ListsOK
    <2> QED
      BY <2>1 DEF Record, Tiers
  <1> QED
    BY <1>1, <1>2 DEF RosterView, OthersKept

\* Every step of the service is a step of the directory, or leaves it alone.
LEMMA StepImplements ==
    RosterInv /\ RosterInv' /\ [Next]_vars
        => [Directory!DirNext]_<<RosterView, HistoryView>>
  <1> SUFFICES ASSUME RosterInv, RosterInv', [Next]_vars
               PROVE  [Directory!DirNext]_<<RosterView, HistoryView>>
    OBVIOUS
  <1> USE DEF Directory!Entry, Directory!Absent
  <1>1. TypeOK /\ clock \in Nat /\ clock + 1 \in Nat
    BY DEF RosterInv, TypeOK
  <1>2. ASSUME NEW actor \in Actor, NEW id \in Ids, NEW level \in Levels,
               Create(actor, id, level)
        PROVE  Directory!DirNext
    <2>1. HistoryView' = Append(HistoryView, Directory!Entry("Created", id, level))
      BY <1>1, <1>2, LevelsAssumption, HistoryGrows DEF Create
    <2>2. Directory!Register(id, level)
      BY <1>2, <2>1, LevelsAssumption, CreateView DEF Directory!Register
    <2> QED
      BY <2>2, LevelsAssumption DEF Directory!DirNext, Directory!Tiers, Tiers
  <1>3. ASSUME NEW actor \in Actor, NEW id \in Ids, NEW level \in Levels,
               ChangeLevel(actor, id, level)
        PROVE  Directory!DirNext
    <2>1. HistoryView' = Append(HistoryView, Directory!Entry("LevelChanged", id, level))
      BY <1>1, <1>3, LevelsAssumption, HistoryGrows DEF ChangeLevel
    <2>2. Directory!Reassign(id, level)
      BY <1>3, <2>1, LevelsAssumption, ChangeLevelView DEF Directory!Reassign
    <2> QED
      BY <2>2, LevelsAssumption DEF Directory!DirNext, Directory!Tiers, Tiers
  <1>4. ASSUME NEW actor \in Actor, NEW id \in Ids, SoftDelete(actor, id)
        PROVE  Directory!DirNext
    <2>1. HistoryView' = Append(HistoryView, Directory!Entry("Deleted", id, Directory!Absent))
      BY <1>1, <1>4, HistoryGrows DEF SoftDelete
    <2>2. Directory!Withdraw(id)
      BY <1>4, <2>1, SoftDeleteView DEF Directory!Withdraw
    <2> QED
      BY <2>2 DEF Directory!DirNext
  <1>5. ASSUME UNCHANGED vars PROVE UNCHANGED <<RosterView, HistoryView>>
    BY <1>5 DEF vars, RosterView, HistoryView, IsActive, Slot
  <1> QED
    BY <1>2, <1>3, <1>4, <1>5 DEF Next, Call, Reject

\* The service implements the audited directory: whatever the callers do, each
\* change of the roster touches one id and is recorded by exactly one event,
\* and no event is recorded without its change.
THEOREM RosterImplementsDirectory == Spec => ImplementsDirectory
  <1>1. Init => Directory!DirInit
    BY DEF Init, Directory!DirInit, Directory!Absent, RosterView, HistoryView, IsActive
  <1> QED
    BY <1>1, StepImplements, RosterInvariant, PTL DEF Spec, ImplementsDirectory, Directory!DirSpec

-----------------------------------------------------------------------------
(* Replaying a trail, event by event. *)

\* The entries of a replayed list.
Entries == Ids \X (Tiers \cup {NoDetails})

\* In a trail shared with other services, the events of this kind are this service's.
OwnKindIsOwn(events) == \A e \in events : e.kind = Kind => e \in OwnEvent

\* What the deletion of an id removes from a replayed list: the id's entry.
LEMMA EntryRemoved ==
    ASSUME NEW list \in Seq(Entries), NEW id
    PROVE  /\ WithoutEntry(list, id) \in Seq(Entries)
           /\ \A k \in DOMAIN list :
                (\A j \in DOMAIN list : list[j][1] = id <=> j = k)
                  => WithoutEntry(list, id) = RemoveAt(list, k)
  <1> DEFINE matches == {i \in 1..Len(list) : list[i][1] = id}
             removed == WithoutEntry(list, id)
  <1>1. DOMAIN list = 1..Len(list) /\ Len(list) \in Nat
    OBVIOUS
  <1>2. CASE matches = {}
    <2>1. removed = list
      BY <1>1, <1>2 DEF WithoutEntry, RemoveFirstMatch
    <2> QED
      BY <1>1, <1>2, <2>1
  <1>3. CASE matches # {}
    <2>1. removed = RemoveAt(list, Min(matches))
      BY <1>3 DEF WithoutEntry, RemoveFirstMatch, SelectInSeq
    <2>2. Min(matches) \in matches
      <3>1. matches \in SUBSET Nat
        BY <1>1
      <3> HIDE DEF matches
      <3> QED
        BY <1>3, <3>1, LeastNatural DEF Min
    <2>3. Min(matches) \in DOMAIN list
      BY <1>1, <2>2
    <2>4. RemoveAt(list, Min(matches)) \in Seq(Entries)
      BY <2>3, RemoveAtProperties
    <2>5. ASSUME NEW k \in DOMAIN list, \A j \in DOMAIN list : list[j][1] = id <=> j = k
          PROVE  removed = RemoveAt(list, k)
      BY <1>1, <2>1, <2>2, <2>5
    <2> QED
      BY <2>1, <2>4, <2>5
  <1> QED
    BY <1>2, <1>3

\* Applying an event to a list of entries yields a list of entries.
LEMMA ApplyEventType ==
    ASSUME NEW list \in Seq(Entries), NEW e, e.kind = Kind => e \in OwnEvent
    PROVE  ApplyEvent(list, e) \in Seq(Entries)
  <1>1. CASE e.kind # Kind
    BY <1>1 DEF ApplyEvent
  <1>2. CASE e.kind = Kind
    <2>1. e.target \in Ids /\ e.details \in Tiers \cup {NoDetails}
          /\ e.action \in {"Created", "LevelChanged", "Deleted"}
      BY <1>2 DEF OwnEvent
    <2>2. <<e.target, e.details>> \in Entries
      BY <2>1 DEF Entries
    <2> HIDE DEF Entries
    <2>3. CASE e.action = "Created"
      BY <1>2, <2>2, <2>3 DEF ApplyEvent
    <2>4. CASE e.action = "LevelChanged"
      <3>1. \A i \in DOMAIN list :
              (IF list[i][1] = e.target THEN <<e.target, e.details>> ELSE list[i]) \in Entries
        BY <2>2
      <3>2. DOMAIN list = 1..Len(list) /\ Len(list) \in Nat
        OBVIOUS
      <3>3. [i \in DOMAIN list |->
               IF list[i][1] = e.target THEN <<e.target, e.details>> ELSE list[i]] \in Seq(Entries)
        BY <3>1, <3>2
      <3> QED
        BY <1>2, <2>4, <3>3 DEF ApplyEvent
    <2>5. CASE e.action = "Deleted"
      BY <1>2, <2>5, EntryRemoved DEF ApplyEvent
    <2> QED BY <2>1, <2>3, <2>4, <2>5
  <1> QED BY <1>1, <1>2

\* Replaying is a fold over the events' positions, with one step per event.
FoldsReplay(f, s) ==
    f = [T \in SUBSET (DOMAIN s) |->
            IF T = {} THEN << >> ELSE ApplyEvent(f[T \ {Max(T)}], s[Max(T)])]

ReplayFold(s) == CHOOSE f : FoldsReplay(f, s)

ReplayStep(E) == [p \in Seq(Entries) \X E |-> ApplyEvent(p[1], p[2])]

\* What is replayed is the fold of all positions, built up prefix by prefix.
LEMMA ReplayIsFold ==
    ASSUME NEW E, OwnKindIsOwn(E), NEW s \in Seq(E)
    PROVE  /\ Replayed(s) = ReplayFold(s)[DOMAIN s]
           /\ ReplayFold(s)[{}] = << >>
           /\ FoldsPrefixes(ReplayFold(s), s, Seq(Entries), E, << >>, ReplayStep(E))
  <1> DEFINE V == Seq(Entries)
             none == << >>
             step == ReplayStep(E)
  <1>1. Replayed(s) = ReplayFold(s)[DOMAIN s]
    BY DEF Replayed, FoldLeft, MapThenFoldSet, ReplayFold, FoldsReplay
  <1>2. none \in V
    OBVIOUS
  <1>3. \A list \in V, x \in E : ApplyEvent(list, x) \in V
    BY ApplyEventType DEF OwnKindIsOwn
  <1>4. step \in [V \X E -> V]
    BY <1>3 DEF ReplayStep
  <1>5. \A list \in V, x \in E : step[<<list, x>>] = ApplyEvent(list, x)
    BY DEF ReplayStep
  <1> HIDE DEF V, none, step
  <1>6. PICK f \in [SUBSET (DOMAIN s) -> V] : FoldsPositions(f, s, none, step)
    BY <1>2, <1>4, ListFoldExists
  <1>7. \A T \in SUBSET (DOMAIN s) : T # {} => Max(T) \in DOMAIN s /\ s[Max(T)] \in E
    <2>1. \A i \in DOMAIN s : s[i] \in E
      OBVIOUS
    <2> QED
      BY <1>6, <2>1 DEF FoldsPositions
  <1>8. ASSUME NEW T \in SUBSET (DOMAIN s)
        PROVE  f[T] = IF T = {} THEN none ELSE ApplyEvent(f[T \ {Max(T)}], s[Max(T)])
    BY <1>5, <1>6, <1>7 DEF FoldsPositions
  <1>9. FoldsReplay(f, s)
    BY <1>6, <1>8 DEF FoldsReplay, none
  <1>10. FoldsReplay(ReplayFold(s), s)
    BY <1>9 DEF ReplayFold
  <1>11. ReplayFold(s)[{}] = none
    BY <1>10 DEF FoldsReplay, none
  <1>12. ASSUME NEW T \in SUBSET (DOMAIN s), T # {}, ReplayFold(s)[T \ {Max(T)}] \in V
         PROVE  ReplayFold(s)[T] = step[<<ReplayFold(s)[T \ {Max(T)}], s[Max(T)]>>]
    <2>1. ReplayFold(s)[T] = ApplyEvent(ReplayFold(s)[T \ {Max(T)}], s[Max(T)])
      BY <1>10, <1>12 DEF FoldsReplay
    <2> QED
      BY <1>5, <1>7, <1>12, <2>1
  <1>13. FoldsPrefixes(ReplayFold(s), s, V, E, none, step)
    BY <1>2, <1>4, <1>11, <1>12, FoldFollowsPrefixes
  <1> QED
    BY <1>1, <1>11, <1>13 DEF V, none, step

\* No event, no entry.
LEMMA ReplayEmpty == Replayed(<< >>) = << >>
  <1>1. OwnKindIsOwn({}) /\ << >> \in Seq({}) /\ DOMAIN << >> = {}
    BY DEF OwnKindIsOwn
  <1> QED
    BY <1>1, ReplayIsFold

\* Replaying one more event applies it to what was replayed before.
LEMMA ReplaySteps ==
    ASSUME NEW E, OwnKindIsOwn(E), NEW events \in Seq(E), NEW e \in E
    PROVE  /\ Replayed(events) \in Seq(Entries)
           /\ Replayed(Append(events, e)) = ApplyEvent(Replayed(events), e)
  <1> DEFINE V == Seq(Entries)
             step == ReplayStep(E)
             longer == Append(events, e)
             none == << >>
  <1>1. longer \in Seq(E) /\ OneMore(longer, events, e)
    BY DEF OneMore
  <1> HIDE DEF V, step, longer, none
  <1>2. /\ FoldsPrefixes(ReplayFold(events), events, V, E, none, step)
        /\ FoldsPrefixes(ReplayFold(longer), longer, V, E, none, step)
    BY <1>1, ReplayIsFold DEF V, step, none
  <1>3. OneStep(ReplayFold(longer), longer, ReplayFold(events), events, e, V, step)
    BY <1>1, <1>2, ListFoldSteps
  <1>4. /\ Replayed(events) = ReplayFold(events)[DOMAIN events]
        /\ Replayed(longer) = ReplayFold(longer)[DOMAIN longer]
    BY <1>1, ReplayIsFold
  <1>5. /\ Replayed(events) \in V
        /\ Replayed(longer) = step[<<Replayed(events), e>>]
    BY <1>3, <1>4 DEF OneStep
  <1> QED
    BY <1>5 DEF V, step, longer, ReplayStep

\* The same of a list that is known to be one event longer.
LEMMA ReplayOneMore ==
    ASSUME NEW E, OwnKindIsOwn(E), NEW events \in Seq(E), NEW e \in E,
           NEW longer, OneMore(longer, events, e)
    PROVE  Replayed(longer) = ApplyEvent(Replayed(events), e)
  BY ReplaySteps DEF OneMore

\* Events of other services, however many, replay to the same roster.
LEMMA OthersReplayAway ==
    ASSUME NEW E, OwnKindIsOwn(E), NEW s \in Seq(E), NEW t \in Seq(E),
           \A i \in DOMAIN t : t[i].kind # Kind
    PROVE  Replayed(s \o t) = Replayed(s)
  <1> DEFINE n == Len(t)
             same == {k \in 0..n : Replayed(Joined(s, t, k)) = Replayed(s)}
  <1>1. n \in Nat /\ DOMAIN t = 1..n
    OBVIOUS
  <1>2. 0 \in same
    BY <1>1, JoinedSteps
  <1>3. \A k \in 1..n : k - 1 \in same => k \in same
    <2> SUFFICES ASSUME NEW k \in 1..n, k - 1 \in same PROVE k \in same
      OBVIOUS
    <2>1. /\ Joined(s, t, k - 1) \in Seq(E) /\ t[k] \in E
          /\ OneMore(Joined(s, t, k), Joined(s, t, k - 1), t[k])
      BY JoinedSteps
    <2>2. Replayed(Joined(s, t, k)) = ApplyEvent(Replayed(Joined(s, t, k - 1)), t[k])
      BY <2>1, ReplayOneMore
    <2>3. t[k].kind # Kind
      BY <1>1
    <2>4. Replayed(Joined(s, t, k)) = Replayed(Joined(s, t, k - 1))
      BY <2>2, <2>3 DEF ApplyEvent
    <2>5. k \in 0..n /\ Replayed(Joined(s, t, k - 1)) = Replayed(s)
      BY <1>1
    <2> HIDE DEF n
    <2> QED
      BY <2>4, <2>5
  <1> HIDE DEF same, n
  <1>4. n \in same
    <2>1. 0..n \subseteq same
      BY <1>1, <1>2, <1>3, CountingUp
    <2> QED
      BY <1>1, <2>1
  <1>5. Replayed(Joined(s, t, n)) = Replayed(s)
    BY <1>4 DEF same
  <1> QED
    BY <1>5, JoinedSteps DEF n

\* The entries of a list of this service's creation events.
CreatedEntries(t) == [i \in DOMAIN t |-> <<t[i].target, t[i].details>>]

\* This service's creations, one after the other, replay to their entries.
LEMMA CreationsReplay ==
    ASSUME NEW E, OwnKindIsOwn(E), NEW s \in Seq(E), NEW t \in Seq(E),
           \A i \in DOMAIN t : t[i].kind = Kind /\ t[i].action = "Created",
           Replayed(s) = << >>
    PROVE  Replayed(s \o t) = CreatedEntries(t)
  <1> DEFINE n == Len(t)
             all == CreatedEntries(t)
             none == << >>
             first == {k \in 0..n : Replayed(Joined(s, t, k)) = Joined(none, all, k)}
  <1>1. n \in Nat /\ DOMAIN t = 1..n /\ none \in Seq(Entries)
    OBVIOUS
  <1>2. /\ all \in Seq(Entries) /\ Len(all) = n
        /\ \A i \in 1..n : all[i] = <<t[i].target, t[i].details>>
    <2>1. \A i \in 1..n : <<t[i].target, t[i].details>> \in Entries
      <3> SUFFICES ASSUME NEW i \in 1..n PROVE <<t[i].target, t[i].details>> \in Entries
        OBVIOUS
      <3>1. t[i] \in OwnEvent
        BY <1>1 DEF OwnKindIsOwn
      <3> QED
        BY <3>1 DEF OwnEvent, Entries
    <2> HIDE DEF Entries
    <2> QED
      BY <1>1, <2>1 DEF CreatedEntries
  <1> HIDE DEF all
  <1>3. none \o all = all
    BY <1>2
  <1> HIDE DEF none
  <1>4. /\ Joined(none, all, 0) = none /\ Joined(none, all, n) = all
        /\ \A k \in 1..n : OneMore(Joined(none, all, k), Joined(none, all, k - 1), all[k])
    <2>1. /\ Joined(none, all, 0) = none /\ Joined(none, all, Len(all)) = none \o all
          /\ \A k \in 1..Len(all) :
                OneMore(Joined(none, all, k), Joined(none, all, k - 1), all[k])
      BY <1>1, <1>2, JoinedSteps
    <2> QED
      BY <1>2, <1>3, <2>1
  <1>5. 0 \in first
    <2>1. Joined(s, t, 0) = s
      BY JoinedSteps
    <2> QED
      BY <1>1, <1>4, <2>1 DEF none
  <1>6. \A k \in 1..n : k - 1 \in first => k \in first
    <2> SUFFICES ASSUME NEW k \in 1..n, k - 1 \in first PROVE k \in first
      OBVIOUS
    <2>1. /\ Joined(s, t, k - 1) \in Seq(E) /\ t[k] \in E
          /\ OneMore(Joined(s, t, k), Joined(s, t, k - 1), t[k])
      BY JoinedSteps
    <2>2. Replayed(Joined(s, t, k)) = ApplyEvent(Replayed(Joined(s, t, k - 1)), t[k])
      BY <2>1, ReplayOneMore
    <2>3. t[k].kind = Kind /\ t[k].action = "Created" /\ all[k] = <<t[k].target, t[k].details>>
      BY <1>1, <1>2
    <2>4. ApplyEvent(Replayed(Joined(s, t, k - 1)), t[k])
            = Append(Replayed(Joined(s, t, k - 1)), all[k])
      BY <2>3 DEF ApplyEvent
    <2>5. k \in 0..n /\ Replayed(Joined(s, t, k - 1)) = Joined(none, all, k - 1)
      BY <1>1
    <2>6. Joined(none, all, k) = Append(Joined(none, all, k - 1), all[k])
      BY <1>4 DEF OneMore
    <2> HIDE DEF n
    <2>7. Replayed(Joined(s, t, k)) = Joined(none, all, k)
      BY <2>2, <2>4, <2>5, <2>6
    <2> QED
      BY <2>5, <2>7
  <1> HIDE DEF first, n
  <1>7. n \in first
    <2>1. 0..n \subseteq first
      BY <1>1, <1>5, <1>6, CountingUp
    <2> QED
      BY <1>1, <2>1
  <1>8. Replayed(Joined(s, t, n)) = all
    BY <1>4, <1>7 DEF first
  <1> QED
    BY <1>8, JoinedSteps DEF n, all

\* The trail, which other services may share: their events are not of this kind.
SharedTrail(E) == trail \in Seq(E) /\ OwnEvent \subseteq E /\ OwnKindIsOwn(E)

\* A call appends one event of this service to the trail.
LEMMA CallAppends ==
    ASSUME Levels \subseteq Tiers, ListsOK,
           NEW actor \in Actor, NEW id \in Ids, Call(actor, id)
    PROVE  \E e \in OwnEvent : trail' = Append(trail, e)
  <1>1. \A action \in {"Created", "LevelChanged", "Deleted"},
           details \in Tiers \cup {NoDetails}, now \in Nat :
             /\ AdminEvent(actor.id, action, Kind, id, now, details) \in OwnEvent
             /\ Emit(actor, action, id, details, now)
                  => trail' = Append(trail, AdminEvent(actor.id, action, Kind, id, now, details))
    BY DEF Actor, OwnEvent, AdminEvent, Emit
  <1>2. clock \in Nat /\ clock + 1 \in Nat
    BY DEF ListsOK
  <1> QED
    BY <1>1, <1>2 DEF Call, Create, ChangeLevel, SoftDelete

\* An event this service emits is the next one to replay.
LEMMA EmitReplays ==
    ASSUME NEW E, SharedTrail(E), NEW actor \in Actor, NEW id \in Ids,
           NEW action \in {"Created", "LevelChanged", "Deleted"},
           NEW details \in Tiers \cup {NoDetails}, NEW now \in Nat,
           Emit(actor, action, id, details, now)
    PROVE  /\ SharedTrail(E)'
           /\ Replayed(trail)' =
                ApplyEvent(Replayed(trail), AdminEvent(actor.id, action, Kind, id, now, details))
  <1> DEFINE e == AdminEvent(actor.id, action, Kind, id, now, details)
  <1>1. e \in OwnEvent
    BY DEF Actor, OwnEvent, AdminEvent
  <1>2. trail' = Append(trail, e)
    BY DEF Emit
  <1> HIDE DEF e
  <1>3. e \in E /\ trail \in Seq(E) /\ OwnKindIsOwn(E)
    BY <1>1 DEF SharedTrail
  <1>4. SharedTrail(E)'
    BY <1>2, <1>3 DEF SharedTrail, OwnKindIsOwn
  <1>5. Replayed(Append(trail, e)) = ApplyEvent(Replayed(trail), e)
    BY <1>3, ReplaySteps
  <1>6. Replayed(trail)' = Replayed(Append(trail, e))
    BY <1>2
  <1> QED
    BY <1>4, <1>5, <1>6 DEF e

\* An event of another service replays to the same roster.
LEMMA OthersReplay ==
    ASSUME NEW E, SharedTrail(E), NEW e \in E, e.kind # Kind, TrailReplaysToRoster,
           trail' = Append(trail, e), active' = active
    PROVE  SharedTrail(E)' /\ TrailReplaysToRoster'
  <1>1. trail \in Seq(E) /\ OwnKindIsOwn(E)
    BY DEF SharedTrail
  <1>2. SharedTrail(E)'
    BY <1>1 DEF SharedTrail, OwnKindIsOwn
  <1>3. Replayed(Append(trail, e)) = ApplyEvent(Replayed(trail), e)
    BY <1>1, ReplaySteps
  <1>4. Replayed(Append(trail, e)) = Replayed(trail)
    BY <1>3 DEF ApplyEvent
  <1>5. Replayed(trail)' = Replayed(trail)
    BY <1>4
  <1> QED
    BY <1>2, <1>5 DEF TrailReplaysToRoster

\* The entry of a record.
Entry == [r \in Record |-> <<r.id, r.level>>]

\* A list of records is replayed entry by entry.
LEMMA EntriesOfList ==
    ASSUME NEW list \in Seq(Record)
    PROVE  /\ Entry \in [Record -> Entries]
           /\ [i \in DOMAIN list |-> <<list[i].id, list[i].level>>]
                = [i \in DOMAIN list |-> Entry[list[i]]]
  <1>1. Entry \in [Record -> Entries]
    BY DEF Entry, Entries, Record
  <1>2. \A i \in DOMAIN list : list[i] \in Record
    OBVIOUS
  <1> QED
    BY <1>1, <1>2 DEF Entry

\* Create appends the entry that its event replays to.
LEMMA CreateReplays ==
    ASSUME ListsOK, NEW E, SharedTrail(E), TrailReplaysToRoster,
           NEW actor \in Actor, NEW id \in Ids, NEW level \in Tiers, Create(actor, id, level)
    PROVE  SharedTrail(E)' /\ TrailReplaysToRoster'
  <1> DEFINE r == NewRecord(id, level)
             e == AdminEvent(actor.id, "Created", Kind, id, clock, level)
             view == [i \in DOMAIN active |-> Entry[active[i]]]
  <1>1. ListsOK /\ ListsOK' /\ r \in Record /\ active' = Append(active, r)
    BY CreateRecords DEF Create
  <1>2. Emit(actor, "Created", id, level, clock) /\ clock \in Nat
    BY DEF Create, ListsOK
  <1>3. SharedTrail(E)' /\ Replayed(trail)' = ApplyEvent(Replayed(trail), e)
    BY <1>2, EmitReplays
  <1>4. ApplyEvent(view, e) = Append(view, <<id, level>>)
    BY DEF ApplyEvent, AdminEvent
  <1>5. Entry[r] = <<id, level>>
    BY <1>1 DEF Entry, NewRecord
  <1> HIDE DEF r, e
  <1>6. [i \in DOMAIN active' |-> Entry[active'[i]]] = Append(view, Entry[r])
    <2>1. Entry \in [Record -> Entries] /\ active \in Seq(Record)
      BY EntriesOfList DEF ListsOK
    <2> HIDE DEF Entry
    <2> QED
      BY <1>1, <2>1, MapAppend
  <1>7. Replayed(trail) = view
    BY EntriesOfList DEF TrailReplaysToRoster, ListsOK
  <1> HIDE DEF view
  <1>8. Replayed(trail)' = [i \in DOMAIN active' |-> Entry[active'[i]]]
    BY <1>3, <1>4, <1>5, <1>6, <1>7
  <1> QED
    BY <1>1, <1>3, <1>8, EntriesOfList DEF TrailReplaysToRoster, ListsOK

\* Change_tier overwrites the entry of the id, and so does replaying its event.
LEMMA ChangeLevelReplays ==
    ASSUME ListsOK, NEW E, SharedTrail(E), TrailReplaysToRoster,
           NEW actor \in Actor, NEW id \in Ids, NEW level \in Tiers,
           ChangeLevel(actor, id, level)
    PROVE  SharedTrail(E)' /\ TrailReplaysToRoster'
  <1> DEFINE k == Slot(id)
             r == Relevelled(active[k], level)
             e == AdminEvent(actor.id, "LevelChanged", Kind, id, clock, level)
             view == [i \in DOMAIN active |-> Entry[active[i]]]
  <1>1. ListsOK' /\ r \in Record /\ active' = [active EXCEPT ![k] = r]
    BY ChangeLevelRecords DEF ChangeLevel
  <1>2. /\ k \in DOMAIN active /\ active[k].id = id /\ r.id = id /\ r.level = level
        /\ \A i \in DOMAIN active : active[i].id = id <=> i = k
        /\ \A i \in DOMAIN active : active[i] \in Record
    <2>1. IsActive(id) /\ \A i \in DOMAIN active : active[i] \in Record
      BY OutcomeOk DEF ChangeLevel, ListsOK
    <2>2. k \in DOMAIN active /\ active[k].id = id /\ active[k] \in Record
          /\ \A i \in DOMAIN active : active[i].id = id => i = k
      BY <2>1, SlotOfActive
    <2> QED
      BY <2>1, <2>2, RecordEdits, 0 \in Nat
  <1>3. Emit(actor, "LevelChanged", id, level, clock) /\ clock \in Nat
    BY DEF ChangeLevel, ListsOK
  <1>4. SharedTrail(E)' /\ Replayed(trail)' = ApplyEvent(Replayed(trail), e)
    BY <1>3, EmitReplays
  <1>5. ApplyEvent(view, e) =
          [i \in DOMAIN view |-> IF view[i][1] = id THEN <<id, level>> ELSE view[i]]
    BY DEF ApplyEvent, AdminEvent
  <1> HIDE DEF k, r, e
  <1>6. ASSUME NEW i \in DOMAIN active
        PROVE  /\ Entry[active'[i]] = IF i = k THEN <<id, level>> ELSE Entry[active[i]]
               /\ Entry[active[i]][1] = id <=> i = k
    <2>1. Entry[active[i]] = <<active[i].id, active[i].level>> /\ Entry[r] = <<id, level>>
      BY <1>1, <1>2 DEF Entry
    <2>2. active'[i] = IF i = k THEN r ELSE active[i]
      BY <1>1, <1>2
    <2> QED
      BY <1>2, <2>1, <2>2
  <1>7. DOMAIN active' = DOMAIN active
    BY <1>1, <1>2
  <1>8. ApplyEvent(view, e) = [i \in DOMAIN active' |-> Entry[active'[i]]]
    <2> HIDE DEF Entry
    <2> QED
      BY <1>5, <1>6, <1>7
  <1>9. Replayed(trail) = view
    BY EntriesOfList DEF TrailReplaysToRoster, ListsOK
  <1> HIDE DEF view
  <1>10. Replayed(trail)' = [i \in DOMAIN active' |-> Entry[active'[i]]]
    BY <1>4, <1>8, <1>9
  <1> QED
    BY <1>1, <1>4, <1>10, EntriesOfList DEF TrailReplaysToRoster, ListsOK

\* Soft_delete removes the entry of the id, and so does replaying its event.
LEMMA SoftDeleteReplays ==
    ASSUME ListsOK, NEW E, SharedTrail(E), TrailReplaysToRoster,
           NEW actor \in Actor, NEW id \in Ids, SoftDelete(actor, id)
    PROVE  SharedTrail(E)' /\ TrailReplaysToRoster'
  <1> DEFINE k == Slot(id)
             e == AdminEvent(actor.id, "Deleted", Kind, id, clock + 1, NoDetails)
             view == [i \in DOMAIN active |-> Entry[active[i]]]
  <1>1. ListsOK' /\ active' = RemoveAt(active, k)
    BY SoftDeleteRecords DEF SoftDelete
  <1>2. /\ k \in DOMAIN active
        /\ \A i \in DOMAIN active : active[i].id = id <=> i = k
    BY OutcomeOk, SlotOfActive DEF SoftDelete
  <1>3. Emit(actor, "Deleted", id, NoDetails, clock + 1) /\ clock + 1 \in Nat
    BY DEF SoftDelete, ListsOK
  <1>4. SharedTrail(E)' /\ Replayed(trail)' = ApplyEvent(Replayed(trail), e)
    BY <1>3, EmitReplays
  <1>5. ApplyEvent(view, e) = WithoutEntry(view, id)
    BY DEF ApplyEvent, AdminEvent
  <1> HIDE DEF k, e
  <1>6. Entry \in [Record -> Entries] /\ active \in Seq(Record) /\ DOMAIN view = DOMAIN active
    BY EntriesOfList DEF ListsOK
  <1>7. view \in Seq(Entries)
    <2> HIDE DEF Entry
    <2>1. DOMAIN active = 1..Len(active) /\ Len(active) \in Nat
      BY <1>6
    <2> QED
      BY <1>6, <2>1
  <1>8. \A j \in DOMAIN view : view[j][1] = id <=> j = k
    <2>1. \A j \in DOMAIN active : active[j] \in Record
      BY <1>6
    <2> QED
      BY <1>2, <1>6, <2>1 DEF Entry
  <1>9. [i \in DOMAIN active' |-> Entry[active'[i]]] = RemoveAt(view, k)
    <2> HIDE DEF Entry
    <2>1. Mapped(Entry, RemoveAt(active, k)) = RemoveAt(Mapped(Entry, active), k)
      BY <1>2, <1>6, MapRemoveAt
    <2>2. view = Mapped(Entry, active)
      BY DEF Mapped
    <2> HIDE DEF view
    <2> QED
      BY <1>1, <2>1, <2>2 DEF Mapped
  <1>10. Replayed(trail) = view
    BY EntriesOfList DEF TrailReplaysToRoster, ListsOK
  <1> HIDE DEF view
  <1>11. WithoutEntry(view, id) = RemoveAt(view, k)
    BY <1>2, <1>6, <1>7, <1>8, EntryRemoved
  <1>12. Replayed(trail)' = [i \in DOMAIN active' |-> Entry[active'[i]]]
    BY <1>4, <1>5, <1>9, <1>10, <1>11
  <1> QED
    BY <1>1, <1>4, <1>12, EntriesOfList DEF TrailReplaysToRoster, ListsOK

\* Every call of the service, whether or not it shares the trail.
LEMMA CallReplays ==
    ASSUME Levels \subseteq Tiers, ListsOK, NEW E, SharedTrail(E), TrailReplaysToRoster,
           NEW actor \in Actor, NEW id \in Ids, Call(actor, id)
    PROVE  ListsOK' /\ SharedTrail(E)' /\ TrailReplaysToRoster'
  <1>1. ASSUME NEW level \in Levels, Create(actor, id, level)
        PROVE  ListsOK' /\ SharedTrail(E)' /\ TrailReplaysToRoster'
    BY <1>1, CreateRecords, CreateReplays
  <1>2. ASSUME NEW level \in Levels, ChangeLevel(actor, id, level)
        PROVE  ListsOK' /\ SharedTrail(E)' /\ TrailReplaysToRoster'
    BY <1>2, ChangeLevelRecords, ChangeLevelReplays
  <1>3. CASE SoftDelete(actor, id)
    BY <1>3, SoftDeleteRecords, SoftDeleteReplays
  <1> QED
    BY <1>1, <1>2, <1>3 DEF Call

\* The audit trail of a service is complete and in order: replaying it always
\* yields the active list.
THEOREM RosterReplays == Spec => []TrailReplaysToRoster
  <1> DEFINE Inv == ListsOK /\ SharedTrail(OwnEvent) /\ TrailReplaysToRoster
  <1>1. OwnKindIsOwn(OwnEvent)
    BY DEF OwnKindIsOwn
  <1>2. Init => Inv
    <2> SUFFICES ASSUME Init PROVE Inv
      OBVIOUS
    <2>1. ListsOK
      BY DEF Init, ListsOK, ActiveIdsUnique
    <2>4. SharedTrail(OwnEvent)
      <3>1. trail \in Seq(OwnEvent)
        BY DEF Init
      <3> QED
        BY <1>1, <3>1 DEF SharedTrail
    <2>3. TrailReplaysToRoster
      BY ReplayEmpty DEF Init, TrailReplaysToRoster
    <2> QED
      BY <2>1, <2>3, <2>4
  <1>3. Inv /\ [Next]_vars => Inv'
    <2> SUFFICES ASSUME Inv, [Next]_vars PROVE Inv'
      OBVIOUS
    <2>1. ASSUME NEW actor \in Actor, NEW id \in Ids, Call(actor, id) PROVE Inv'
      BY <2>1, LevelsAssumption, CallReplays
    <2>2. CASE UNCHANGED vars
      BY <2>2 DEF vars, ListsOK, ActiveIdsUnique, SharedTrail, TrailReplaysToRoster
    <2> QED
      BY <2>1, <2>2 DEF Next, Reject
  <1> QED
    BY <1>2, <1>3, PTL DEF Spec

-----------------------------------------------------------------------------
(* Versions count events. *)

\* An emitted event is one more event of its id, and of no other id.
LEMMA EventsGrow ==
    ASSUME TypeOK, NEW actor \in Actor, NEW id \in Ids,
           NEW action \in {"Created", "LevelChanged", "Deleted"},
           NEW details \in Tiers \cup {NoDetails}, NEW now \in Nat,
           Emit(actor, action, id, details, now), NEW other \in Ids
    PROVE  /\ Cardinality(EventsOf(other)) \in Nat
           /\ Cardinality(EventsOf(other)') =
                Cardinality(EventsOf(other)) + (IF other = id THEN 1 ELSE 0)
  <1> DEFINE e == AdminEvent(actor.id, action, Kind, id, now, details)
             n == Len(trail) + 1
  <1>1. e \in OwnEvent /\ e.kind = Kind /\ e.target = id
    BY DEF Actor, OwnEvent, AdminEvent
  <1>2. trail' = Append(trail, e)
    BY DEF Emit
  <1> HIDE DEF e
  <1>3. /\ DOMAIN trail = 1..(n - 1) /\ DOMAIN trail' = 1..n /\ n \in Nat \ {0}
        /\ trail'[n] = e /\ \A i \in DOMAIN trail : trail'[i] = trail[i]
    BY <1>1, <1>2 DEF TypeOK
  <1> HIDE DEF n
  <1>4. IsFiniteSet(EventsOf(other))
    <2>1. EventsOf(other) \subseteq 1..(n - 1) /\ n - 1 \in Int
      BY <1>3 DEF EventsOf
    <2>2. IsFiniteSet(1..(n - 1))
      BY <2>1, FS_Interval, 1 \in Int
    <2> QED
      BY <2>1, <2>2, FS_Subset
  <1>5. n \notin EventsOf(other)
    BY <1>3 DEF EventsOf
  <1>6. EventsOf(other)' = IF other = id THEN EventsOf(other) \cup {n} ELSE EventsOf(other)
    <2>1. DOMAIN trail' = (DOMAIN trail) \cup {n}
      BY <1>3
    <2> QED
      BY <1>1, <1>3, <2>1 DEF EventsOf
  <1>7. Cardinality(EventsOf(other)) \in Nat
    BY <1>4, FS_CardinalityType
  <1>8. CASE other = id
    BY <1>4, <1>5, <1>6, <1>7, <1>8, FS_AddElement
  <1>9. CASE other # id
    BY <1>6, <1>7, <1>9
  <1> QED
    BY <1>7, <1>8, <1>9

\* The changes of deleted records are a number, and one more record adds its own.
LEMMA DeletedChangesGrow ==
    ASSUME deleted \in Seq(Record), NEW other \in Ids
    PROVE  /\ ChangesOfDeleted(other) \in Nat
           /\ \A r \in Record :
                deleted' = Append(deleted, r) =>
                  ChangesOfDeleted(other)' =
                    ChangesOfDeleted(other) + (IF r.id = other THEN r.version + 1 ELSE 0)
  <1> DEFINE P == {i \in DOMAIN deleted : deleted[i].id = other}
             fun == [i \in DOMAIN deleted |-> deleted[i].version + 1]
             n == Len(deleted) + 1
  <1>1. DOMAIN deleted = 1..(n - 1) /\ n \in Nat \ {0}
    OBVIOUS
  <1>2. IsFiniteSet(P)
    <2>1. P \subseteq 1..(n - 1) /\ n - 1 \in Int
      BY <1>1
    <2>2. IsFiniteSet(1..(n - 1))
      BY <2>1, FS_Interval, 1 \in Int
    <2> QED
      BY <2>1, <2>2, FS_Subset
  <1>3. \A i \in P : fun[i] \in Nat
    <2>1. \A i \in DOMAIN deleted : deleted[i] \in Record
      OBVIOUS
    <2>2. \A i \in DOMAIN deleted : deleted[i].version + 1 \in Nat
      BY <2>1 DEF Record
    <2> QED
      BY <2>2
  <1>4. ChangesOfDeleted(other) = SumFunctionOnSet(fun, P)
    BY DEF ChangesOfDeleted
  <1>5. ASSUME NEW r \in Record, deleted' = Append(deleted, r)
        PROVE  ChangesOfDeleted(other)' =
                 ChangesOfDeleted(other) + (IF r.id = other THEN r.version + 1 ELSE 0)
    <2> DEFINE gun == [i \in DOMAIN deleted' |-> deleted'[i].version + 1]
               Q == {i \in DOMAIN deleted' : deleted'[i].id = other}
    <2>1. /\ DOMAIN deleted' = 1..n /\ DOMAIN deleted = 1..(n - 1)
          /\ deleted'[n] = r /\ \A i \in DOMAIN deleted : deleted'[i] = deleted[i]
      BY <1>5
    <2>2. ChangesOfDeleted(other)' = SumFunctionOnSet(gun, Q)
      BY DEF ChangesOfDeleted
    <2>3. n \notin P /\ Q = IF r.id = other THEN P \cup {n} ELSE P
      BY <1>1, <2>1
    <2>4. r.version + 1 \in Nat /\ gun[n] = r.version + 1
      BY <1>1, <2>1 DEF Record
    <2>5. \A i \in P : gun[i] = fun[i]
      BY <1>1, <2>1
    <2> HIDE DEF n, P, Q, fun, gun
    <2>6. SumFunctionOnSet(gun, P) = SumFunctionOnSet(fun, P)
      BY <1>2, <1>3, <2>5, SumsAgree
    <2>7. CASE r.id = other
      <3>1. IsFiniteSet(Q) /\ n \in Q /\ Q \ {n} = P
        BY <1>2, <2>3, <2>7, FS_AddElement
      <3>2. \A i \in Q : gun[i] \in Nat
        BY <1>3, <2>3, <2>4, <2>5
      <3>3. SumFunctionOnSet(gun, Q) = gun[n] + SumFunctionOnSet(gun, Q \ {n})
        BY <3>1, <3>2, SumTakesAny
      <3>4. SumFunctionOnSet(fun, P) \in Nat
        BY <1>2, <1>3, SumTakesOne
      <3>5. SumFunctionOnSet(gun, Q) = (r.version + 1) + SumFunctionOnSet(fun, P)
        BY <2>4, <2>6, <3>1, <3>3
      <3> QED
        BY <1>4, <2>2, <2>4, <2>7, <3>4, <3>5
    <2>8. CASE r.id # other
      <3>1. SumFunctionOnSet(fun, P) \in Nat
        BY <1>2, <1>3, SumTakesOne
      <3> QED
        BY <1>4, <2>2, <2>3, <2>6, <2>8, <3>1
    <2> QED BY <2>7, <2>8
  <1> HIDE DEF P, fun
  <1>6. SumFunctionOnSet(fun, P) \in Nat
    BY <1>2, <1>3, SumTakesOne
  <1> QED
    BY <1>4, <1>5, <1>6

\* Create: one event and one record that counts its creation.
LEMMA CreateCounts ==
    ASSUME RosterInv, VersionsCountEvents, NEW actor \in Actor, NEW id \in Ids,
           NEW level \in Tiers, Create(actor, id, level)
    PROVE  VersionsCountEvents'
  <1> SUFFICES ASSUME NEW other \in Ids
               PROVE  Cardinality(EventsOf(other)') =
                        ChangesOfActive(other)' + ChangesOfDeleted(other)'
    BY DEF VersionsCountEvents
  <1>1. ListsOK /\ TypeOK /\ clock \in Nat
    BY InvListsOK DEF RosterInv, ListsOK
  <1>2. Cardinality(EventsOf(other)') = Cardinality(EventsOf(other)) + (IF other = id THEN 1 ELSE 0)
    BY <1>1, EventsGrow DEF Create
  <1>3. ChangesOfDeleted(other)' = ChangesOfDeleted(other) /\ ChangesOfDeleted(other) \in Nat
    <2>1. ChangesOfDeleted(other)' = ChangesOfDeleted(other)
      BY DEF Create, ChangesOfDeleted
    <2> QED
      BY <1>1, <2>1, DeletedChangesGrow DEF ListsOK
  <1>4. /\ OthersKept(id) /\ ~IsActive(id) /\ IsActive(id)'
        /\ active'[Slot(id)'].version = 0
    <2>1. NewRecord(id, level).version = 0
      BY DEF NewRecord
    <2> QED
      BY <1>1, <2>1, CreateRecords
  <1>5. Cardinality(EventsOf(other)) = ChangesOfActive(other) + ChangesOfDeleted(other)
    BY DEF VersionsCountEvents
  <1>6. CASE other = id
    BY <1>2, <1>3, <1>4, <1>5, <1>6 DEF ChangesOfActive
  <1>7. CASE other # id
    <2>1. ChangesOfActive(other)' = ChangesOfActive(other)
      BY <1>4, <1>7 DEF ChangesOfActive, OthersKept
    <2>2. Cardinality(EventsOf(other)) \in Nat
      BY <1>1, EventsGrow DEF Create
    <2> QED
      BY <1>2, <1>3, <1>5, <1>7, <2>1, <2>2
  <1> QED BY <1>6, <1>7

\* Change_tier: one event and one version of the active record.
LEMMA ChangeLevelCounts ==
    ASSUME RosterInv, VersionsCountEvents, NEW actor \in Actor, NEW id \in Ids,
           NEW level \in Tiers, ChangeLevel(actor, id, level)
    PROVE  VersionsCountEvents'
  <1> SUFFICES ASSUME NEW other \in Ids
               PROVE  Cardinality(EventsOf(other)') =
                        ChangesOfActive(other)' + ChangesOfDeleted(other)'
    BY DEF VersionsCountEvents
  <1>1. ListsOK /\ TypeOK /\ clock \in Nat
    BY InvListsOK DEF RosterInv, ListsOK
  <1>2. /\ Cardinality(EventsOf(other)) \in Nat
        /\ Cardinality(EventsOf(other)') = Cardinality(EventsOf(other)) + (IF other = id THEN 1 ELSE 0)
    BY <1>1, EventsGrow DEF ChangeLevel
  <1>3. ChangesOfDeleted(other)' = ChangesOfDeleted(other) /\ ChangesOfDeleted(other) \in Nat
    <2>1. ChangesOfDeleted(other)' = ChangesOfDeleted(other)
      BY DEF ChangeLevel, ChangesOfDeleted
    <2> QED
      BY <1>1, <2>1, DeletedChangesGrow DEF ListsOK
  <1>4. /\ OthersKept(id) /\ IsActive(id) /\ IsActive(id)'
        /\ active'[Slot(id)'].version = active[Slot(id)].version + 1
    <2>1. Relevelled(active[Slot(id)], level).version = active[Slot(id)].version + 1
      BY DEF Relevelled
    <2> QED
      BY <1>1, <2>1, ChangeLevelRecords
  <1>5. Cardinality(EventsOf(other)) = ChangesOfActive(other) + ChangesOfDeleted(other)
    BY DEF VersionsCountEvents
  <1>6. CASE other = id
    <2>1. active[Slot(id)].version \in Nat
      <3>1. active[Slot(id)] \in Record
        BY <1>1, <1>4, SlotOfActive DEF ListsOK
      <3> QED
        BY <3>1 DEF Record
    <2> QED
      BY <1>2, <1>3, <1>4, <1>5, <1>6, <2>1 DEF ChangesOfActive
  <1>7. CASE other # id
    <2>1. ChangesOfActive(other)' = ChangesOfActive(other)
      BY <1>4, <1>7 DEF ChangesOfActive, OthersKept
    <2> QED
      BY <1>2, <1>3, <1>5, <1>7, <2>1
  <1> QED BY <1>6, <1>7

\* Soft_delete: what the active record counted moves to the deleted list, and one more.
LEMMA SoftDeleteCounts ==
    ASSUME RosterInv, VersionsCountEvents, NEW actor \in Actor, NEW id \in Ids,
           SoftDelete(actor, id)
    PROVE  VersionsCountEvents'
  <1> SUFFICES ASSUME NEW other \in Ids
               PROVE  Cardinality(EventsOf(other)') =
                        ChangesOfActive(other)' + ChangesOfDeleted(other)'
    BY DEF VersionsCountEvents
  <1> DEFINE record == active[Slot(id)]
             r == Stamped(record, clock)
  <1>1. ListsOK /\ TypeOK /\ clock \in Nat /\ clock + 1 \in Nat
    BY InvListsOK DEF RosterInv, ListsOK
  <1>2. /\ Cardinality(EventsOf(other)) \in Nat
        /\ Cardinality(EventsOf(other)') = Cardinality(EventsOf(other)) + (IF other = id THEN 1 ELSE 0)
    BY <1>1, EventsGrow DEF SoftDelete
  <1>3. OthersKept(id) /\ IsActive(id) /\ ~IsActive(id)' /\ r \in Record
    BY <1>1, SoftDeleteRecords
  <1>4. r.id = id /\ r.version = record.version + 1 /\ record.version \in Nat
    <2>1. record \in Record /\ record.id = id
      BY <1>1, <1>3, SlotOfActive DEF ListsOK
    <2> QED
      BY <2>1 DEF Stamped, Record
  <1>5. /\ ChangesOfDeleted(other) \in Nat
        /\ ChangesOfDeleted(other)' =
             ChangesOfDeleted(other) + (IF other = id THEN record.version + 2 ELSE 0)
    <2>1. deleted' = Append(deleted, r)
      BY DEF SoftDelete
    <2> HIDE DEF r, record
    <2> QED
      BY <1>1, <1>3, <1>4, <2>1, DeletedChangesGrow DEF ListsOK
  <1>6. Cardinality(EventsOf(other)) = ChangesOfActive(other) + ChangesOfDeleted(other)
    BY DEF VersionsCountEvents
  <1>7. CASE other = id
    BY <1>2, <1>3, <1>4, <1>5, <1>6, <1>7 DEF ChangesOfActive
  <1>8. CASE other # id
    <2>1. ChangesOfActive(other)' = ChangesOfActive(other)
      BY <1>3, <1>8 DEF ChangesOfActive, OthersKept
    <2> QED
      BY <1>2, <1>5, <1>6, <1>8, <2>1
  <1> QED BY <1>7, <1>8

\* Versions count changes: every event of an id is the creation of one of its
\* records or one version of one of them.
THEOREM RosterVersionsCount == Spec => []VersionsCountEvents
  <1>1. Init => VersionsCountEvents
    <2> SUFFICES ASSUME Init, NEW id \in Ids
                 PROVE  Cardinality(EventsOf(id)) = ChangesOfActive(id) + ChangesOfDeleted(id)
      BY DEF VersionsCountEvents
    <2>1. EventsOf(id) = {} /\ ~IsActive(id)
      BY DEF Init, EventsOf, IsActive
    <2>2. ChangesOfDeleted(id) = 0
      <3> DEFINE fun == [i \in DOMAIN deleted |-> deleted[i].version + 1]
      <3>1. {i \in DOMAIN deleted : deleted[i].id = id} = {}
        BY DEF Init
      <3>2. SumFunctionOnSet(fun, {}) = 0
        BY FS_EmptySet, SumTakesOne
      <3> QED
        BY <3>1, <3>2 DEF ChangesOfDeleted
    <2> QED
      BY <2>1, <2>2, FS_EmptySet DEF ChangesOfActive
  <1>2. RosterInv /\ VersionsCountEvents /\ [Next]_vars => VersionsCountEvents'
    <2> SUFFICES ASSUME RosterInv, VersionsCountEvents, [Next]_vars
                 PROVE  VersionsCountEvents'
      OBVIOUS
    <2>1. ASSUME NEW actor \in Actor, NEW id \in Ids, Call(actor, id)
          PROVE  VersionsCountEvents'
      BY <2>1, CreateCounts, ChangeLevelCounts, SoftDeleteCounts, LevelsAssumption DEF Call
    <2>2. CASE UNCHANGED vars
      <3>1. /\ \A id \in Ids : EventsOf(id)' = EventsOf(id)
            /\ \A id \in Ids : ChangesOfActive(id)' = ChangesOfActive(id)
            /\ \A id \in Ids : ChangesOfDeleted(id)' = ChangesOfDeleted(id)
        BY <2>2 DEF vars, EventsOf, ChangesOfActive, ChangesOfDeleted, IsActive, Slot
      <3> QED
        BY <3>1 DEF VersionsCountEvents
    <2> QED
      BY <2>1, <2>2 DEF Next, Reject
  <1> QED
    BY <1>1, <1>2, RosterInvariant, PTL DEF Spec

-----------------------------------------------------------------------------
(* The deleted list and the deletion events. *)

\* Positions in the trail are counted among the deletions up to them.
LEMMA DeletionsCounted ==
    ASSUME TypeOK
    PROVE  /\ Deletions \subseteq 1..Len(trail)
           /\ IsFiniteSet(Deletions) /\ Cardinality(Deletions) \in Nat
           /\ \A k \in Deletions : Cardinality(DeletionsUpTo(k)) \in 1..Cardinality(Deletions)
  <1>1. Deletions \subseteq 1..Len(trail) /\ Len(trail) \in Nat
    BY DEF Deletions, TypeOK
  <1>2. IsFiniteSet(Deletions)
    <2>1. IsFiniteSet(1..Len(trail))
      BY <1>1, FS_Interval, 1 \in Int, Len(trail) \in Int
    <2> QED
      BY <1>1, <2>1, FS_Subset
  <1>3. ASSUME NEW k \in Deletions
        PROVE  Cardinality(DeletionsUpTo(k)) \in 1..Cardinality(Deletions)
    <2> DEFINE U == DeletionsUpTo(k)
    <2>1. U \subseteq Deletions /\ k \in U
      BY <1>1 DEF DeletionsUpTo
    <2> HIDE DEF U
    <2>2. IsFiniteSet(U) /\ Cardinality(U) <= Cardinality(Deletions)
      BY <1>2, <2>1, FS_Subset
    <2>3. Cardinality(U) \in Nat /\ Cardinality(Deletions) \in Nat /\ Cardinality(U) # 0
      BY <1>2, <2>1, <2>2, FS_CardinalityType, FS_EmptySet
    <2> QED
      BY <2>2, <2>3 DEF U
  <1> QED
    BY <1>1, <1>2, <1>3, FS_CardinalityType

\* One more event leaves the events, and the deletions up to each of them, as
\* they were, and is a deletion itself or not.
LEMMA DeletionsGrow ==
    ASSUME TypeOK, NEW actor \in Actor, NEW id \in Ids,
           NEW action \in {"Created", "LevelChanged", "Deleted"},
           NEW details \in Tiers \cup {NoDetails}, NEW now \in Nat,
           Emit(actor, action, id, details, now)
    PROVE  /\ \A i \in DOMAIN trail : trail'[i] = trail[i]
           /\ trail'[Len(trail) + 1] = AdminEvent(actor.id, action, Kind, id, now, details)
           /\ Deletions' = IF action = "Deleted" THEN Deletions \cup {Len(trail) + 1} ELSE Deletions
           /\ \A k \in Deletions : DeletionsUpTo(k)' = DeletionsUpTo(k)
           /\ \A k \in Deletions' \ Deletions : DeletionsUpTo(k)' = Deletions'
  <1> DEFINE e == AdminEvent(actor.id, action, Kind, id, now, details)
             n == Len(trail) + 1
  <1>1. e \in OwnEvent /\ e.kind = Kind /\ e.action = action
    BY DEF Actor, OwnEvent, AdminEvent
  <1>2. trail' = Append(trail, e)
    BY DEF Emit
  <1> HIDE DEF e
  <1>3. /\ DOMAIN trail = 1..(n - 1) /\ DOMAIN trail' = 1..n /\ n \in Nat \ {0}
        /\ trail'[n] = e /\ \A i \in DOMAIN trail : trail'[i] = trail[i]
    BY <1>1, <1>2 DEF TypeOK
  <1> HIDE DEF n
  <1>4. DOMAIN trail' = (DOMAIN trail) \cup {n}
    BY <1>3
  <1>5. Deletions' = IF action = "Deleted" THEN Deletions \cup {n} ELSE Deletions
    BY <1>1, <1>3, <1>4 DEF Deletions
  <1>6. Deletions \subseteq 1..(n - 1)
    BY <1>3 DEF Deletions
  <1>7. ASSUME NEW k \in Deletions PROVE DeletionsUpTo(k)' = DeletionsUpTo(k)
    <2>1. k \in 1..(n - 1) /\ ~(n <= k)
      BY <1>3, <1>6
    <2> QED
      BY <1>5, <2>1 DEF DeletionsUpTo
  <1>8. ASSUME NEW k \in Deletions' \ Deletions PROVE DeletionsUpTo(k)' = Deletions'
    <2>1. \A i \in Deletions' : i <= k
      BY <1>3, <1>5, <1>6
    <2> QED
      BY <2>1 DEF DeletionsUpTo
  <1> QED
    BY <1>3, <1>5, <1>7, <1>8 DEF n, e

\* An event that is not a deletion.
LEMMA OtherEventMatches ==
    ASSUME TypeOK, DeletionsMatchTrail, NEW actor \in Actor, NEW id \in Ids,
           NEW action \in {"Created", "LevelChanged"},
           NEW details \in Tiers, NEW now \in Nat,
           Emit(actor, action, id, details, now), UNCHANGED deleted
    PROVE  DeletionsMatchTrail'
  <1>1. /\ \A i \in DOMAIN trail : trail'[i] = trail[i]
        /\ Deletions' = Deletions
        /\ \A k \in Deletions : DeletionsUpTo(k)' = DeletionsUpTo(k)
    BY DeletionsGrow
  <1>2. \A k \in Deletions : k \in DOMAIN trail
    BY DEF Deletions
  <1> QED
    BY <1>1, <1>2 DEF DeletionsMatchTrail

\* Soft_delete appends one record and one event about it.
LEMMA SoftDeleteMatches ==
    ASSUME RosterInv, DeletionsMatchTrail, NEW actor \in Actor, NEW id \in Ids,
           SoftDelete(actor, id)
    PROVE  DeletionsMatchTrail'
  <1> DEFINE r == Stamped(active[Slot(id)], clock)
             e == AdminEvent(actor.id, "Deleted", Kind, id, clock + 1, NoDetails)
             n == Len(trail) + 1
  <1>1. ListsOK /\ TypeOK /\ ClockAhead /\ clock \in Nat /\ clock + 1 \in Nat
        /\ clock < clock + 1
    BY InvListsOK DEF RosterInv, ListsOK
  <1>2. r \in Record /\ r.id = id /\ r.deleted_at = clock
    <2>1. IsActive(id) /\ r \in Record
      BY <1>1, SoftDeleteRecords
    <2>2. active[Slot(id)].id = id
      BY <1>1, <2>1, SlotOfActive
    <2> QED
      BY <2>1, <2>2 DEF Stamped
  <1>3. deleted' = Append(deleted, r)
    BY DEF SoftDelete
  <1>4. e.target = id /\ e.time = clock + 1
    BY DEF AdminEvent
  <1>5. Emit(actor, "Deleted", id, NoDetails, clock + 1)
    BY DEF SoftDelete
  <1>6. /\ \A i \in DOMAIN trail : trail'[i] = trail[i]
        /\ trail'[n] = e
        /\ Deletions' = Deletions \cup {n}
        /\ \A k \in Deletions : DeletionsUpTo(k)' = DeletionsUpTo(k)
        /\ \A k \in Deletions' \ Deletions : DeletionsUpTo(k)' = Deletions'
    BY <1>1, <1>5, DeletionsGrow
  <1>7. /\ DOMAIN trail = 1..(n - 1) /\ n \in Nat
    BY <1>1 DEF TypeOK
  <1> HIDE DEF r, e, n
  <1>8. /\ Deletions \subseteq 1..(n - 1)
        /\ IsFiniteSet(Deletions) /\ Cardinality(Deletions) \in Nat
        /\ \A k \in Deletions : Cardinality(DeletionsUpTo(k)) \in 1..Cardinality(Deletions)
    BY <1>1, <1>7, DeletionsCounted DEF n
  <1>9. Cardinality(Deletions)' = Cardinality(Deletions) + 1
    <2>1. n \notin Deletions
      BY <1>7, <1>8
    <2> QED
      BY <1>6, <1>8, <2>1, FS_AddElement
  <1>10. /\ Len(deleted') = Len(deleted) + 1 /\ Len(deleted) \in Nat
         /\ deleted'[Len(deleted) + 1] = r
         /\ \A i \in 1..Len(deleted) : deleted'[i] = deleted[i]
    BY <1>1, <1>2, <1>3 DEF ListsOK
  <1>11. Cardinality(Deletions) = Len(deleted)
    BY DEF DeletionsMatchTrail
  <1>12. \A j \in DOMAIN trail : trail[j].time < clock
    BY <1>1 DEF ClockAhead
  <1>13. \A j \in Deletions : j \in DOMAIN trail
    BY DEF Deletions
  <1>14. ASSUME NEW k \in Deletions'
         PROVE  LET record == deleted'[Cardinality(DeletionsUpTo(k))'] IN
                /\ record.id = trail'[k].target
                /\ record.deleted_at < trail'[k].time
                /\ \A j \in Deletions' : j < k => trail'[j].time < record.deleted_at
    <2>1. CASE k = n
      <3>1. deleted'[Cardinality(DeletionsUpTo(k))'] = r
        <4>1. k \notin Deletions
          BY <1>7, <1>8, <2>1
        <4>2. DeletionsUpTo(k)' = Deletions'
          BY <1>6, <4>1
        <4>3. Cardinality(DeletionsUpTo(k)') = Len(deleted) + 1
          BY <1>9, <1>11, <4>2
        <4> QED
          BY <1>10, <4>3
      <3>2. \A j \in Deletions' : j < n => trail'[j].time < clock
        <4> SUFFICES ASSUME NEW j \in Deletions', j < n PROVE trail'[j].time < clock
          OBVIOUS
        <4>1. j \in Deletions
          BY <1>6, <1>7
        <4> QED
          BY <1>6, <1>12, <1>13, <4>1
      <3> QED
        BY <1>1, <1>2, <1>4, <1>6, <2>1, <3>1, <3>2
    <2>2. CASE k # n
      <3>1. k \in Deletions /\ k \in 1..(n - 1)
        BY <1>6, <1>8, <2>2
      <3>2. deleted'[Cardinality(DeletionsUpTo(k))'] = deleted[Cardinality(DeletionsUpTo(k))]
        BY <1>6, <1>8, <1>10, <1>11, <3>1
      <3>3. \A j \in Deletions' : j < k => j \in Deletions
        BY <1>6, <1>7, <3>1
      <3> QED
        BY <1>6, <1>13, <3>1, <3>2, <3>3 DEF DeletionsMatchTrail
    <2> QED
      BY <2>1, <2>2
  <1> QED
    BY <1>9, <1>10, <1>11, <1>14 DEF DeletionsMatchTrail

\* The deleted list and the trail tell the same story, one event per record.
THEOREM RosterDeletionsMatch == Spec => []DeletionsMatchTrail
  <1>1. Init => DeletionsMatchTrail
    <2> SUFFICES ASSUME Init PROVE DeletionsMatchTrail
      OBVIOUS
    <2>1. Deletions = {} /\ Len(deleted) = 0
      BY DEF Init, Deletions
    <2> QED
      BY <2>1, FS_EmptySet DEF DeletionsMatchTrail
  <1>2. RosterInv /\ DeletionsMatchTrail /\ [Next]_vars => DeletionsMatchTrail'
    <2> SUFFICES ASSUME RosterInv, DeletionsMatchTrail, [Next]_vars
                 PROVE  DeletionsMatchTrail'
      OBVIOUS
    <2>1. TypeOK /\ clock \in Nat
      BY DEF RosterInv, TypeOK
    <2>2. ASSUME NEW actor \in Actor, NEW id \in Ids, NEW level \in Tiers,
                 Create(actor, id, level) \/ ChangeLevel(actor, id, level)
          PROVE  DeletionsMatchTrail'
      BY <2>1, <2>2, OtherEventMatches DEF Create, ChangeLevel
    <2>3. ASSUME NEW actor \in Actor, NEW id \in Ids, Call(actor, id)
          PROVE  DeletionsMatchTrail'
      BY <2>2, <2>3, SoftDeleteMatches, LevelsAssumption DEF Call
    <2>4. CASE UNCHANGED vars
      BY <2>4 DEF vars, DeletionsMatchTrail, Deletions, DeletionsUpTo
    <2> QED
      BY <2>3, <2>4 DEF Next, Reject
  <1> QED
    BY <1>1, <1>2, RosterInvariant, PTL DEF Spec
=============================================================================
