------------------------------ MODULE PrmsProofs ------------------------------
(***************************************************************************)
(* What holds of the crew leads by themselves, and of the World with its   *)
(* one trail, for every set of ids, every three founders, every list of    *)
(* seeds and every number of requests.  What the two rosters do to a trail *)
(* they share is taken from the lemmas about the roster.                   *)
(***************************************************************************)
EXTENDS Prms, ListLemmas

-----------------------------------------------------------------------------
(* The crew leads. *)

\* The leads by themselves, whichever services share the trail.
LeadsOK ==
    /\ leads \in Seq(ActorIds)
    /\ leadClock \in Nat
    /\ ExactlyThreeDistinctLeads

\* A lead that is found has a slot, and it is the only one with that id.
LEMMA SlotOfLead ==
    ASSUME LeadsOK, NEW id \in ActorIds, IsLead(id)
    PROVE  /\ LeadSlot(id) \in 1..3 /\ leads[LeadSlot(id)] = id
           /\ \A i \in 1..3 : leads[i] = id => i = LeadSlot(id)
  <1>1. PICK k \in DOMAIN leads : leads[k] = id
    BY DEF IsLead
  <1>2. DOMAIN leads = 1..3
    BY DEF LeadsOK, ExactlyThreeDistinctLeads, ValidLeads
  <1>3. \A j \in 1..(k - 1) : leads[j] # id
    BY <1>1, <1>2 DEF LeadsOK, ExactlyThreeDistinctLeads, ValidLeads
  <1>4. LeadSlot(id) \in 1..3 /\ leads[LeadSlot(id)] = id
    BY <1>1, <1>2, <1>3 DEF LeadSlot
  <1>5. ASSUME NEW i \in 1..3, NEW j \in 1..3, leads[i] = leads[j] PROVE i = j
    BY <1>5 DEF LeadsOK, ExactlyThreeDistinctLeads, ValidLeads
  <1> QED
    BY <1>4, <1>5

\* Replace_audited puts the new id where the old one was, and nowhere else.
LEMMA ReplaceLeads ==
    ASSUME LeadsOK, NEW actorId \in ActorIds, NEW old \in ActorIds, NEW new \in ActorIds,
           Replace(actorId, old, new)
    PROVE  /\ LeadsOK'
           /\ DOMAIN leads = 1..3 /\ DOMAIN leads' = 1..3
           /\ \A i \in 1..3 : leads'[i] = IF leads[i] = old THEN new ELSE leads[i]
  <1> DEFINE k == LeadSlot(old)
  <1>1. IsLead(old) /\ \A i \in DOMAIN leads : i # k => leads[i] # new
    BY DEF Replace, ReplaceOutcome, Collides
  <1>2. k \in 1..3 /\ leads[k] = old /\ \A i \in 1..3 : leads[i] = old => i = k
    BY <1>1, SlotOfLead
  <1>3. leads' = [leads EXCEPT ![k] = new] /\ leadClock' = leadClock + 1
    BY DEF Replace
  <1> HIDE DEF k
  <1>4. leads \in Seq(ActorIds) /\ Len(leads) = 3 /\ DOMAIN leads = 1..3
    BY DEF LeadsOK, ExactlyThreeDistinctLeads, ValidLeads
  <1>5. /\ leads' \in Seq(ActorIds) /\ Len(leads') = 3
        /\ \A i \in 1..3 : leads'[i] = IF i = k THEN new ELSE leads[i]
    BY <1>2, <1>3, <1>4, OverwriteProperties
  <1>6. ExactlyThreeDistinctLeads'
    <2> SUFFICES ASSUME NEW i \in 1..3, NEW j \in 1..3, i < j
                 PROVE  leads'[i] # leads'[j]
      BY <1>5 DEF ExactlyThreeDistinctLeads, ValidLeads
    <2>1. leads[i] # leads[j]
      BY DEF LeadsOK, ExactlyThreeDistinctLeads, ValidLeads
    <2> QED
      BY <1>1, <1>2, <1>4, <1>5, <2>1
  <1>7. LeadsOK'
    BY <1>3, <1>5, <1>6 DEF LeadsOK
  <1>8. DOMAIN leads' = 1..3
    BY <1>5
  <1> QED
    BY <1>2, <1>4, <1>5, <1>7, <1>8

\* The service by itself: every step keeps three distinct leads and the types.
LEMMA LeadStepPreserves ==
    LeadTypeOK /\ ExactlyThreeDistinctLeads /\ [LeadNext]_leadVars
        => LeadTypeOK' /\ ExactlyThreeDistinctLeads'
  <1> SUFFICES ASSUME LeadTypeOK, ExactlyThreeDistinctLeads, [LeadNext]_leadVars
               PROVE  LeadTypeOK' /\ ExactlyThreeDistinctLeads'
    OBVIOUS
  <1>1. ASSUME NEW actorId \in ActorIds, NEW old \in ActorIds, NEW new \in ActorIds,
               Replace(actorId, old, new)
        PROVE  LeadTypeOK' /\ ExactlyThreeDistinctLeads'
    <2>1. LeadsOK'
      BY <1>1, ReplaceLeads DEF LeadsOK, LeadTypeOK
    <2>2. AdminEvent(actorId, "Replaced", "CrewLead", new, leadClock, old) \in LeadEvent
      BY DEF LeadTypeOK, LeadEvent, AdminEvent
    <2>3. trail' \in Seq(LeadEvent)
      BY <1>1, <2>2, AppendProperties DEF Replace, LeadTypeOK
    <2> QED
      BY <2>1, <2>3 DEF LeadsOK, LeadTypeOK
  <1>2. CASE UNCHANGED leadVars
    BY <1>2 DEF leadVars, LeadTypeOK, ExactlyThreeDistinctLeads, ValidLeads
  <1> QED
    BY <1>1, <1>2 DEF LeadNext, RejectLead

\* The founders are three distinct leads, and their event is a lead event.
LEMMA FoundersOK ==
    /\ Founders \in Seq(ActorIds) /\ ValidLeads(Founders)
    /\ Founders \in [1..3 -> ActorIds]
    /\ BootstrapEvent \in LeadEvent
  <1>1. Founders \in Seq(ActorIds) /\ ValidLeads(Founders) /\ Len(Founders) = 3
    BY FoundersAssumption DEF ValidLeads
  <1>2. Founders \in [1..Len(Founders) -> ActorIds]
    BY <1>1, SequenceIsFunction, Zenon
  <1>3. Founders \in [1..3 -> ActorIds]
    BY <1>1, <1>2
  <1>4. Founders[1] \in ActorIds
    BY <1>3
  <1> QED
    BY <1>1, <1>3, <1>4 DEF BootstrapEvent, AdminEvent, LeadEvent

\* Type correctness.
THEOREM LeadTypeCorrect == LeadSpec => []LeadTypeOK
  <1>1. LeadInit => LeadTypeOK /\ ExactlyThreeDistinctLeads
    BY FoundersOK DEF LeadInit, LeadTypeOK, ExactlyThreeDistinctLeads
  <1> QED
    BY <1>1, LeadStepPreserves, PTL DEF LeadSpec

\* CL-I1, CL-I2: any number of replacements leaves three distinct leads.
THEOREM LeadsThreeAndDistinct == LeadSpec => []ExactlyThreeDistinctLeads
  <1>1. LeadInit => ExactlyThreeDistinctLeads
    BY FoundersAssumption DEF LeadInit, ExactlyThreeDistinctLeads
  <1>2. ExactlyThreeDistinctLeads /\ LeadTypeOK /\ [LeadNext]_leadVars
            => ExactlyThreeDistinctLeads'
    BY LeadStepPreserves
  <1> QED
    BY <1>1, <1>2, LeadTypeCorrect, PTL DEF LeadSpec

-----------------------------------------------------------------------------
(* Replaying the replacements, event by event. *)

ThreeLeads == [1..3 -> ActorIds]

\* The events of the trail that replace a lead are those of the crew-lead service.
ReplacementsAreLeads(events) == \A e \in events : e.action = "Replaced" => e \in LeadEvent

LeadsReplayed(events) == FoldLeft(ApplyReplacement, Founders, events)

\* Applying an event to three leads yields three leads.
LEMMA ApplyReplacementType ==
    ASSUME NEW list \in ThreeLeads, NEW e, e.action = "Replaced" => e \in LeadEvent
    PROVE  ApplyReplacement(list, e) \in ThreeLeads
  <1>1. CASE e.action # "Replaced"
    BY <1>1 DEF ApplyReplacement
  <1>2. CASE e.action = "Replaced"
    <2>1. e.target \in ActorIds
      BY <1>2 DEF LeadEvent
    <2> QED
      BY <1>2, <2>1 DEF ApplyReplacement, ThreeLeads
  <1> QED BY <1>1, <1>2

\* Replaying is a fold over the events' positions, with one step per event.
FoldsLeads(f, s) ==
    f = [T \in SUBSET (DOMAIN s) |->
            IF T = {} THEN Founders ELSE ApplyReplacement(f[T \ {Max(T)}], s[Max(T)])]

LeadsFold(s) == CHOOSE f : FoldsLeads(f, s)

LeadsStep(E) == [p \in ThreeLeads \X E |-> ApplyReplacement(p[1], p[2])]

\* What is replayed is the fold of all positions, built up prefix by prefix.
LEMMA LeadsReplayIsFold ==
    ASSUME NEW E, ReplacementsAreLeads(E), NEW s \in Seq(E)
    PROVE  /\ LeadsReplayed(s) = LeadsFold(s)[DOMAIN s]
           /\ LeadsFold(s)[{}] = Founders
           /\ FoldsPrefixes(LeadsFold(s), s, ThreeLeads, E, Founders, LeadsStep(E))
  <1> DEFINE V == ThreeLeads
             base == Founders
             step == LeadsStep(E)
  <1>1. LeadsReplayed(s) = LeadsFold(s)[DOMAIN s]
    BY DEF LeadsReplayed, FoldLeft, MapThenFoldSet, LeadsFold, FoldsLeads
  <1>2. base \in V
    BY FoundersOK DEF ThreeLeads
  <1>3. \A list \in V, x \in E : ApplyReplacement(list, x) \in V
    BY ApplyReplacementType DEF ReplacementsAreLeads
  <1>4. step \in [V \X E -> V]
    BY <1>3 DEF LeadsStep
  <1>5. \A list \in V, x \in E : step[<<list, x>>] = ApplyReplacement(list, x)
    BY DEF LeadsStep
  <1> HIDE DEF V, base, step
  <1>6. PICK f \in [SUBSET (DOMAIN s) -> V] : FoldsPositions(f, s, base, step)
    BY <1>2, <1>4, ListFoldExists
  <1>7. \A T \in SUBSET (DOMAIN s) : T # {} => Max(T) \in DOMAIN s /\ s[Max(T)] \in E
    <2>1. \A i \in DOMAIN s : s[i] \in E
      OBVIOUS
    <2> QED
      BY <1>6, <2>1 DEF FoldsPositions
  <1>8. ASSUME NEW T \in SUBSET (DOMAIN s)
        PROVE  f[T] = IF T = {} THEN base ELSE ApplyReplacement(f[T \ {Max(T)}], s[Max(T)])
    BY <1>5, <1>6, <1>7 DEF FoldsPositions
  <1>9. FoldsLeads(f, s)
    BY <1>6, <1>8 DEF FoldsLeads, base
  <1>10. FoldsLeads(LeadsFold(s), s)
    BY <1>9 DEF LeadsFold
  <1>11. LeadsFold(s)[{}] = base
    BY <1>10 DEF FoldsLeads, base
  <1>12. ASSUME NEW T \in SUBSET (DOMAIN s), T # {}, LeadsFold(s)[T \ {Max(T)}] \in V
         PROVE  LeadsFold(s)[T] = step[<<LeadsFold(s)[T \ {Max(T)}], s[Max(T)]>>]
    <2>1. LeadsFold(s)[T] = ApplyReplacement(LeadsFold(s)[T \ {Max(T)}], s[Max(T)])
      BY <1>10, <1>12 DEF FoldsLeads
    <2> QED
      BY <1>5, <1>7, <1>12, <2>1
  <1>13. FoldsPrefixes(LeadsFold(s), s, V, E, base, step)
    BY <1>2, <1>4, <1>11, <1>12, FoldFollowsPrefixes
  <1> QED
    BY <1>1, <1>11, <1>13 DEF V, base, step

\* No event, no replacement.
LEMMA LeadsReplayEmpty == LeadsReplayed(<< >>) = Founders
  <1>1. ReplacementsAreLeads({}) /\ << >> \in Seq({}) /\ DOMAIN << >> = {}
    BY DEF ReplacementsAreLeads
  <1> QED
    BY <1>1, LeadsReplayIsFold

\* Replaying one more event applies it to what was replayed before.
LEMMA LeadsReplaySteps ==
    ASSUME NEW E, ReplacementsAreLeads(E), NEW events \in Seq(E), NEW e \in E,
           NEW longer, OneMore(longer, events, e)
    PROVE  /\ LeadsReplayed(events) \in ThreeLeads
           /\ LeadsReplayed(longer) = ApplyReplacement(LeadsReplayed(events), e)
  <1> DEFINE V == ThreeLeads
             step == LeadsStep(E)
             base == Founders
  <1>1. longer \in Seq(E)
    BY DEF OneMore
  <1> HIDE DEF V, step, base
  <1>2. /\ FoldsPrefixes(LeadsFold(events), events, V, E, base, step)
        /\ FoldsPrefixes(LeadsFold(longer), longer, V, E, base, step)
    BY <1>1, LeadsReplayIsFold DEF V, step, base
  <1>3. OneStep(LeadsFold(longer), longer, LeadsFold(events), events, e, V, step)
    BY <1>1, <1>2, ListFoldSteps
  <1>4. /\ LeadsReplayed(events) = LeadsFold(events)[DOMAIN events]
        /\ LeadsReplayed(longer) = LeadsFold(longer)[DOMAIN longer]
    BY <1>1, LeadsReplayIsFold
  <1>5. /\ LeadsReplayed(events) \in V
        /\ LeadsReplayed(longer) = step[<<LeadsReplayed(events), e>>]
    BY <1>3, <1>4 DEF OneStep
  <1> QED
    BY <1>5 DEF V, step, LeadsStep

\* Events that replace nobody, however many, replay to the same leads.
LEMMA OthersKeepLeads ==
    ASSUME NEW E, ReplacementsAreLeads(E), NEW s \in Seq(E), NEW t \in Seq(E),
           \A i \in DOMAIN t : t[i].action # "Replaced"
    PROVE  LeadsReplayed(s \o t) = LeadsReplayed(s)
  <1> DEFINE n == Len(t)
             same == {k \in 0..n : LeadsReplayed(Joined(s, t, k)) = LeadsReplayed(s)}
  <1>1. n \in Nat /\ DOMAIN t = 1..n
    OBVIOUS
  <1>2. 0 \in same
    BY <1>1, JoinedSteps
  <1>3. \A k \in 1..n : k - 1 \in same => k \in same
    <2> SUFFICES ASSUME NEW k \in 1..n, k - 1 \in same PROVE k \in same
      OBVIOUS
    <2>1. /\ Joined(s, t, k - 1) \in Seq(E) /\ t[k] \in E
          /\ OneMore(Joined(s, t, k), Joined(s, t, k - 1), t[k])
      BY JoinedSteps
    <2>2. LeadsReplayed(Joined(s, t, k))
            = ApplyReplacement(LeadsReplayed(Joined(s, t, k - 1)), t[k])
      BY <2>1, LeadsReplaySteps
    <2>3. t[k].action # "Replaced"
      BY <1>1
    <2>4. LeadsReplayed(Joined(s, t, k)) = LeadsReplayed(Joined(s, t, k - 1))
      BY <2>2, <2>3 DEF ApplyReplacement
    <2>5. k \in 0..n /\ LeadsReplayed(Joined(s, t, k - 1)) = LeadsReplayed(s)
      BY <1>1
    <2> HIDE DEF n
    <2> QED
      BY <2>4, <2>5
  <1> HIDE DEF same, n
  <1>4. n \in same
    <2>1. 0..n \subseteq same
      BY <1>1, <1>2, <1>3, CountingUp
    <2> QED
      BY <1>1, <2>1
  <1>5. LeadsReplayed(Joined(s, t, n)) = LeadsReplayed(s)
    BY <1>4 DEF same
  <1> QED
    BY <1>5, JoinedSteps DEF n

-----------------------------------------------------------------------------
(* The two rosters, with what was proved of a roster that shares its trail. *)
(* The instances are of the same module with the same substitutions as      *)
(* those of Prms, so that their definitions are the same; the lemmas of     *)
(* this section say so of the definitions used below.                       *)

PassengerRoster == INSTANCE EntityRosterProofs
    WITH Ids <- PassengerIds, Kind <- "Passenger",
         active <- pActive, deleted <- pDeleted, clock <- pClock

ResourceRoster == INSTANCE EntityRosterProofs
    WITH Ids <- ResourceIds, Kind <- "Resource",
         active <- rActive, deleted <- rDeleted, clock <- rClock

\* A call of the passenger service.
LEMMA PassengerRosterCall ==
    ASSUME NEW actor, NEW id
    PROVE  Passengers!Call(actor, id) <=> PassengerRoster!Call(actor, id)
  BY DEF Passengers!Call, PassengerRoster!Call, Passengers!Create, PassengerRoster!Create,
         Passengers!ChangeLevel, PassengerRoster!ChangeLevel, Passengers!SoftDelete, PassengerRoster!SoftDelete,
         Passengers!CreateOutcome, PassengerRoster!CreateOutcome, Passengers!EditOutcome, PassengerRoster!EditOutcome,
         Passengers!RequireCrewLead, PassengerRoster!RequireCrewLead, Passengers!IsActive, PassengerRoster!IsActive,
         Passengers!Slot, PassengerRoster!Slot, Passengers!Emit, PassengerRoster!Emit,
         Passengers!AdminEvent, PassengerRoster!AdminEvent, Passengers!NoDetails, PassengerRoster!NoDetails,
         Passengers!NewRecord, PassengerRoster!NewRecord, Passengers!NotDeleted, PassengerRoster!NotDeleted,
         Passengers!Relevelled, PassengerRoster!Relevelled, Passengers!Stamped, PassengerRoster!Stamped,
         Passengers!RemoveAt, PassengerRoster!RemoveAt

\* What a trail replays to.
LEMMA PassengerRosterReplayed ==
    ASSUME NEW events
    PROVE  Passengers!Replayed(events) = PassengerRoster!Replayed(events)
  BY DEF Passengers!Replayed, PassengerRoster!Replayed, Passengers!ApplyEvent, PassengerRoster!ApplyEvent,
         Passengers!WithoutEntry, PassengerRoster!WithoutEntry, Passengers!RemoveFirstMatch, PassengerRoster!RemoveFirstMatch,
         Passengers!SelectInSeq, PassengerRoster!SelectInSeq, Passengers!RemoveAt, PassengerRoster!RemoveAt,
         Passengers!Min, PassengerRoster!Min, Passengers!Max, PassengerRoster!Max,
         Passengers!FoldLeft, PassengerRoster!FoldLeft, Passengers!MapThenFoldSet, PassengerRoster!MapThenFoldSet

\* That the trail explains the passengers.
LEMMA PassengerRosterTrail == Passengers!TrailReplaysToRoster <=> PassengerRoster!TrailReplaysToRoster
  <1>1. Passengers!Replayed(trail) = PassengerRoster!Replayed(trail)
    BY PassengerRosterReplayed
  <1> QED
    BY <1>1 DEF Passengers!TrailReplaysToRoster, PassengerRoster!TrailReplaysToRoster

\* Its data.
LEMMA PassengerRosterTypes ==
    /\ Passengers!Record = PassengerRoster!Record /\ Passengers!OwnEvent = PassengerRoster!OwnEvent
    /\ Tiers = PassengerRoster!Tiers /\ Actor = PassengerRoster!Actor
  BY DEF Passengers!Record, PassengerRoster!Record, Passengers!OwnEvent, PassengerRoster!OwnEvent, Passengers!NotDeleted, PassengerRoster!NotDeleted,
         Passengers!NoDetails, PassengerRoster!NoDetails, Passengers!Tiers, PassengerRoster!Tiers, Tiers, Actor, PassengerRoster!Actor

\* A call of the resource service.
LEMMA ResourceRosterCall ==
    ASSUME NEW actor, NEW id
    PROVE  Resources!Call(actor, id) <=> ResourceRoster!Call(actor, id)
  BY DEF Resources!Call, ResourceRoster!Call, Resources!Create, ResourceRoster!Create,
         Resources!ChangeLevel, ResourceRoster!ChangeLevel, Resources!SoftDelete, ResourceRoster!SoftDelete,
         Resources!CreateOutcome, ResourceRoster!CreateOutcome, Resources!EditOutcome, ResourceRoster!EditOutcome,
         Resources!RequireCrewLead, ResourceRoster!RequireCrewLead, Resources!IsActive, ResourceRoster!IsActive,
         Resources!Slot, ResourceRoster!Slot, Resources!Emit, ResourceRoster!Emit,
         Resources!AdminEvent, ResourceRoster!AdminEvent, Resources!NoDetails, ResourceRoster!NoDetails,
         Resources!NewRecord, ResourceRoster!NewRecord, Resources!NotDeleted, ResourceRoster!NotDeleted,
         Resources!Relevelled, ResourceRoster!Relevelled, Resources!Stamped, ResourceRoster!Stamped,
         Resources!RemoveAt, ResourceRoster!RemoveAt

\* What a trail replays to.
LEMMA ResourceRosterReplayed ==
    ASSUME NEW events
    PROVE  Resources!Replayed(events) = ResourceRoster!Replayed(events)
  BY DEF Resources!Replayed, ResourceRoster!Replayed, Resources!ApplyEvent, ResourceRoster!ApplyEvent,
         Resources!WithoutEntry, ResourceRoster!WithoutEntry, Resources!RemoveFirstMatch, ResourceRoster!RemoveFirstMatch,
         Resources!SelectInSeq, ResourceRoster!SelectInSeq, Resources!RemoveAt, ResourceRoster!RemoveAt,
         Resources!Min, ResourceRoster!Min, Resources!Max, ResourceRoster!Max,
         Resources!FoldLeft, ResourceRoster!FoldLeft, Resources!MapThenFoldSet, ResourceRoster!MapThenFoldSet

\* That the trail explains the resources.
LEMMA ResourceRosterTrail == Resources!TrailReplaysToRoster <=> ResourceRoster!TrailReplaysToRoster
  <1>1. Resources!Replayed(trail) = ResourceRoster!Replayed(trail)
    BY ResourceRosterReplayed
  <1> QED
    BY <1>1 DEF Resources!TrailReplaysToRoster, ResourceRoster!TrailReplaysToRoster

\* Its data.
LEMMA ResourceRosterTypes ==
    /\ Resources!Record = ResourceRoster!Record /\ Resources!OwnEvent = ResourceRoster!OwnEvent
    /\ Tiers = ResourceRoster!Tiers /\ Actor = ResourceRoster!Actor
  BY DEF Resources!Record, ResourceRoster!Record, Resources!OwnEvent, ResourceRoster!OwnEvent, Resources!NotDeleted, ResourceRoster!NotDeleted,
         Resources!NoDetails, ResourceRoster!NoDetails, Resources!Tiers, ResourceRoster!Tiers, Tiers, Actor, ResourceRoster!Actor

-----------------------------------------------------------------------------
(* The inductive invariant of the World. *)

AllEvents == LeadEvent \cup Passengers!OwnEvent \cup Resources!OwnEvent

UsageRecord == [passenger : ActorIds, resource : ResourceIds, tier : Tiers, minTier : Tiers,
                time : Nat, outcome : {"Allowed", "Denied"}]

\* The log of uses, each with the length of the trail at its time.
UsageOK ==
    /\ accessClock \in Nat
    /\ usage \in Seq(UsageRecord)
    /\ usedAt \in Seq(Nat) /\ Len(usedAt) = Len(usage)
    /\ \A k \in DOMAIN usedAt : usedAt[k] <= Len(trail)
    /\ UsageJustifiedByTrail

RostersOK ==
    /\ PassengerRoster!ListsOK /\ PassengerRoster!TrailReplaysToRoster
    /\ ResourceRoster!ListsOK /\ ResourceRoster!TrailReplaysToRoster

WorldInv ==
    /\ LeadsOK /\ TrailReplaysToLeads
    /\ RostersOK
    /\ trail \in Seq(AllEvents)
    /\ UsageOK

\* The three services' events can be told apart.
LEMMA EventsApart ==
    /\ ReplacementsAreLeads(AllEvents)
    /\ PassengerRoster!OwnKindIsOwn(AllEvents)
    /\ ResourceRoster!OwnKindIsOwn(AllEvents)
    /\ \A e \in LeadEvent : e \in AllEvents /\ e.kind = "CrewLead"
    /\ \A e \in PassengerRoster!OwnEvent :
          e \in AllEvents /\ e.kind = "Passenger" /\ e.action # "Replaced"
    /\ \A e \in ResourceRoster!OwnEvent :
          e \in AllEvents /\ e.kind = "Resource" /\ e.action # "Replaced"
  <1>1. AllEvents = LeadEvent \cup PassengerRoster!OwnEvent \cup ResourceRoster!OwnEvent
    BY PassengerRosterTypes, ResourceRosterTypes DEF AllEvents
  <1>2. \A e \in LeadEvent : e.kind = "CrewLead"
    BY DEF LeadEvent
  <1>3. \A e \in PassengerRoster!OwnEvent : e.kind = "Passenger" /\ e.action # "Replaced"
    BY DEF PassengerRoster!OwnEvent
  <1>4. \A e \in ResourceRoster!OwnEvent : e.kind = "Resource" /\ e.action # "Replaced"
    BY DEF ResourceRoster!OwnEvent
  <1> QED
    BY <1>1, <1>2, <1>3, <1>4
       DEF ReplacementsAreLeads, PassengerRoster!OwnKindIsOwn, ResourceRoster!OwnKindIsOwn

\* The trail is shared by the two rosters.
LEMMA TrailShared ==
    ASSUME trail \in Seq(AllEvents)
    PROVE  PassengerRoster!SharedTrail(AllEvents) /\ ResourceRoster!SharedTrail(AllEvents)
  BY EventsApart DEF PassengerRoster!SharedTrail, ResourceRoster!SharedTrail

\* An event that replaces nobody replays to the same leads.
LEMMA OtherEventKeepsLeads ==
    ASSUME TrailReplaysToLeads, trail \in Seq(AllEvents),
           NEW e \in AllEvents, e.action # "Replaced",
           trail' = Append(trail, e), leads' = leads
    PROVE  TrailReplaysToLeads'
  <1>1. OneMore(trail', trail, e)
    BY DEF OneMore
  <1>2. LeadsReplayed(trail') = ApplyReplacement(LeadsReplayed(trail), e)
    BY <1>1, EventsApart, LeadsReplaySteps
  <1>3. LeadsReplayed(trail') = LeadsReplayed(trail)
    BY <1>2 DEF ApplyReplacement
  <1> QED
    BY <1>3 DEF TrailReplaysToLeads, LeadsReplayed

\* Replace_audited puts the new id where the old one was, and so does replaying its event.
LEMMA ReplaceReplays ==
    ASSUME LeadsOK, TrailReplaysToLeads, trail \in Seq(AllEvents),
           NEW actorId \in ActorIds, NEW old \in ActorIds, NEW new \in ActorIds,
           Replace(actorId, old, new)
    PROVE  /\ TrailReplaysToLeads'
           /\ \E e \in LeadEvent : trail' = Append(trail, e)
  <1> DEFINE e == AdminEvent(actorId, "Replaced", "CrewLead", new, leadClock, old)
  <1>1. e \in LeadEvent
    BY DEF LeadsOK, LeadEvent, AdminEvent
  <1>2. trail' = Append(trail, e)
    BY DEF Replace
  <1>3. e.action = "Replaced" /\ e.details = old /\ e.target = new
    BY DEF AdminEvent
  <1> HIDE DEF e
  <1>4. OneMore(trail', trail, e) /\ e \in AllEvents
    BY <1>1, <1>2, EventsApart DEF OneMore
  <1>5. LeadsReplayed(trail') = ApplyReplacement(leads, e)
    <2>1. LeadsReplayed(trail') = ApplyReplacement(LeadsReplayed(trail), e)
      BY <1>4, EventsApart, LeadsReplaySteps
    <2> QED
      BY <2>1 DEF TrailReplaysToLeads, LeadsReplayed
  <1>6. ApplyReplacement(leads, e) =
          [i \in DOMAIN leads |-> IF leads[i] = old THEN new ELSE leads[i]]
    BY <1>3 DEF ApplyReplacement
  <1>7. leads' = [i \in DOMAIN leads |-> IF leads[i] = old THEN new ELSE leads[i]]
    <2>1. /\ DOMAIN leads = 1..3 /\ DOMAIN leads' = 1..3
          /\ \A i \in 1..3 : leads'[i] = IF leads[i] = old THEN new ELSE leads[i]
      BY ReplaceLeads
    <2>2. leads' = [i \in DOMAIN leads' |-> leads'[i]]
      <3>1. leads' \in Seq(ActorIds)
        BY ReplaceLeads DEF LeadsOK
      <3> QED
        BY <3>1
    <2> QED
      BY <2>1, <2>2
  <1> QED
    BY <1>1, <1>2, <1>5, <1>6, <1>7 DEF TrailReplaysToLeads, LeadsReplayed

\* An event of another service leaves a roster and what its events replay to.
LEMMA OtherEventKeepsPassengers ==
    ASSUME PassengerRoster!TrailReplaysToRoster, PassengerRoster!ListsOK, trail \in Seq(AllEvents),
           NEW e \in AllEvents, e.kind # "Passenger",
           trail' = Append(trail, e), UNCHANGED passengerState
    PROVE  PassengerRoster!TrailReplaysToRoster' /\ PassengerRoster!ListsOK'
  <1>1. UNCHANGED <<pActive, pDeleted, pClock>>
    BY DEF passengerState
  <1>2. PassengerRoster!SharedTrail(AllEvents)
    BY TrailShared
  <1>3. PassengerRoster!TrailReplaysToRoster'
    BY <1>1, <1>2, RequestedLevelsAssumption, PassengerRosterTypes, MaxEventsAssumption,
       PassengerRoster!OthersReplay
  <1> QED
    BY <1>1, <1>3 DEF PassengerRoster!ListsOK, PassengerRoster!ActiveIdsUnique

\* An event of another kind changes nothing for the resources.
LEMMA OtherEventKeepsResources ==
    ASSUME ResourceRoster!TrailReplaysToRoster, ResourceRoster!ListsOK, trail \in Seq(AllEvents),
           NEW e \in AllEvents, e.kind # "Resource",
           trail' = Append(trail, e), UNCHANGED resourceState
    PROVE  ResourceRoster!TrailReplaysToRoster' /\ ResourceRoster!ListsOK'
  <1>1. UNCHANGED <<rActive, rDeleted, rClock>>
    BY DEF resourceState
  <1>2. ResourceRoster!SharedTrail(AllEvents)
    BY TrailShared
  <1>3. ResourceRoster!TrailReplaysToRoster'
    BY <1>1, <1>2, RequestedLevelsAssumption, ResourceRosterTypes, MaxEventsAssumption,
       ResourceRoster!OthersReplay
  <1> QED
    BY <1>1, <1>3 DEF ResourceRoster!ListsOK, ResourceRoster!ActiveIdsUnique

\* A trail that grows rewrites none of what is justified by its beginning.
LEMMA GrowingTrailKeepsUsage ==
    ASSUME UsageOK, trail \in Seq(AllEvents), NEW e \in AllEvents,
           trail' = Append(trail, e), UNCHANGED accessState
    PROVE  UsageOK'
  <1>1. UNCHANGED <<accessClock, usage, usedAt>>
    BY DEF accessState
  <1>2. Len(trail) \in Nat /\ Len(trail') = Len(trail) + 1
    BY AppendProperties
  <1>3. \A k \in DOMAIN usedAt : usedAt[k] \in Nat
    BY DEF UsageOK
  <1>4. ASSUME NEW n \in Nat, n <= Len(trail)
        PROVE  SubSeq(trail', 1, n) = SubSeq(trail, 1, n)
    BY <1>4
  <1>5. DOMAIN usage = DOMAIN usedAt
    BY DEF UsageOK
  <1>6. \A k \in DOMAIN usage : SubSeq(trail', 1, usedAt[k]) = SubSeq(trail, 1, usedAt[k])
    BY <1>3, <1>4, <1>5 DEF UsageOK
  <1>7. UsageJustifiedByTrail'
    <2> SUFFICES ASSUME NEW k \in DOMAIN usage
                 PROVE  LET past == SubSeq(trail', 1, usedAt[k])
                            u == usage[k]
                        IN  /\ <<u.passenger, u.tier>> \in ToSet(Passengers!Replayed(past))
                            /\ <<u.resource, u.minTier>> \in ToSet(Resources!Replayed(past))
                            /\ (u.outcome = "Allowed") <=> CanAccess(u.tier, u.minTier)
      BY <1>1 DEF UsageJustifiedByTrail
    <2> QED
      BY <1>6 DEF UsageOK, UsageJustifiedByTrail
  <1>8. \A k \in DOMAIN usedAt : usedAt[k] <= Len(trail')
    BY <1>2, <1>3 DEF UsageOK
  <1> QED
    BY <1>1, <1>7, <1>8 DEF UsageOK

-----------------------------------------------------------------------------
(* Each request keeps it. *)

\* Replacing a crew lead.
LEMMA ReplaceCrewLeadKeeps ==
    ASSUME WorldInv, NEW caller \in ActorIds, NEW old \in ActorIds, NEW new \in ActorIds,
           ReplaceCrewLead(caller, old, new)
    PROVE  WorldInv'
  <1>1. Replace(caller, old, new) /\ trail \in Seq(AllEvents)
    BY DEF ReplaceCrewLead, WorldInv
  <1>2. LeadsOK' /\ TrailReplaysToLeads'
    BY <1>1, ReplaceLeads, ReplaceReplays DEF WorldInv
  <1>3. PICK e \in LeadEvent : trail' = Append(trail, e)
    BY <1>1, ReplaceReplays DEF WorldInv
  <1>4. e \in AllEvents /\ e.kind # "Passenger" /\ e.kind # "Resource"
    BY EventsApart
  <1>5. UNCHANGED <<passengerState, resourceState, accessState>>
    BY DEF ReplaceCrewLead
  <1>6. PassengerRoster!TrailReplaysToRoster' /\ PassengerRoster!ListsOK'
    BY <1>1, <1>3, <1>4, <1>5, OtherEventKeepsPassengers DEF WorldInv, RostersOK
  <1>7. ResourceRoster!TrailReplaysToRoster' /\ ResourceRoster!ListsOK'
    BY <1>1, <1>3, <1>4, <1>5, OtherEventKeepsResources DEF WorldInv, RostersOK
  <1>8. trail' \in Seq(AllEvents)
    BY <1>1, <1>3, <1>4, AppendProperties
  <1>9. UsageOK'
    BY <1>1, <1>3, <1>4, <1>5, GrowingTrailKeepsUsage DEF WorldInv
  <1> QED
    BY <1>2, <1>6, <1>7, <1>8, <1>9 DEF WorldInv, RostersOK

\* A request to the passenger service.
LEMMA PassengerRequestKeeps ==
    ASSUME WorldInv, NEW caller \in ActorIds, NEW id \in PassengerIds,
           PassengerRequest(caller, id)
    PROVE  WorldInv'
  <1> DEFINE actor == AsCrewLead(caller)
  <1>1. actor \in PassengerRoster!Actor
    <2>1. actor \in Actor
      BY DEF AsCrewLead, Actor
    <2> QED
      BY <2>1, PassengerRosterTypes
  <1>2. trail \in Seq(AllEvents) /\ PassengerRoster!ListsOK /\ PassengerRoster!TrailReplaysToRoster
    BY DEF WorldInv, RostersOK
  <1> HIDE DEF actor
  <1>3. PassengerRoster!Call(actor, id)
    BY PassengerRosterCall DEF PassengerRequest, actor
  <1>4. Levels \subseteq PassengerRoster!Tiers /\ PassengerRoster!SharedTrail(AllEvents)
    BY <1>2, RequestedLevelsAssumption, PassengerRosterTypes, TrailShared
  <1>5. PassengerRoster!ListsOK' /\ PassengerRoster!TrailReplaysToRoster'
    BY <1>1, <1>2, <1>3, <1>4, MaxEventsAssumption, PassengerRoster!CallReplays
  <1>6. PICK e \in PassengerRoster!OwnEvent : trail' = Append(trail, e)
    BY <1>1, <1>2, <1>3, <1>4, MaxEventsAssumption, PassengerRoster!CallAppends
  <1>7. e \in AllEvents /\ e.kind # "Resource" /\ e.action # "Replaced"
    BY EventsApart
  <1>8. UNCHANGED <<leadState, resourceState, accessState>>
    BY DEF PassengerRequest
  <1>9. ResourceRoster!TrailReplaysToRoster' /\ ResourceRoster!ListsOK'
    BY <1>2, <1>6, <1>7, <1>8, OtherEventKeepsResources DEF WorldInv, RostersOK
  <1>10. UNCHANGED <<leads, leadClock>>
    BY <1>8 DEF leadState
  <1>11. LeadsOK' /\ TrailReplaysToLeads'
    <2>1. LeadsOK'
      BY <1>10 DEF WorldInv, LeadsOK, ExactlyThreeDistinctLeads, ValidLeads
    <2>2. TrailReplaysToLeads
      BY DEF WorldInv
    <2>3. TrailReplaysToLeads'
      BY <1>2, <1>6, <1>7, <1>10, <2>2, OtherEventKeepsLeads
    <2> QED
      BY <2>1, <2>3
  <1>12. trail' \in Seq(AllEvents)
    BY <1>2, <1>6, <1>7, AppendProperties
  <1>13. UsageOK'
    BY <1>2, <1>6, <1>7, <1>8, GrowingTrailKeepsUsage DEF WorldInv
  <1> QED
    BY <1>5, <1>9, <1>11, <1>12, <1>13 DEF WorldInv, RostersOK

\* A request to the resource service.
LEMMA ResourceRequestKeeps ==
    ASSUME WorldInv, NEW caller \in ActorIds, NEW id \in ResourceIds,
           ResourceRequest(caller, id)
    PROVE  WorldInv'
  <1> DEFINE actor == AsCrewLead(caller)
  <1>1. actor \in ResourceRoster!Actor
    <2>1. actor \in Actor
      BY DEF AsCrewLead, Actor
    <2> QED
      BY <2>1, ResourceRosterTypes
  <1>2. trail \in Seq(AllEvents) /\ ResourceRoster!ListsOK /\ ResourceRoster!TrailReplaysToRoster
    BY DEF WorldInv, RostersOK
  <1> HIDE DEF actor
  <1>3. ResourceRoster!Call(actor, id)
    BY ResourceRosterCall DEF ResourceRequest, actor
  <1>4. Levels \subseteq ResourceRoster!Tiers /\ ResourceRoster!SharedTrail(AllEvents)
    BY <1>2, RequestedLevelsAssumption, ResourceRosterTypes, TrailShared
  <1>5. ResourceRoster!ListsOK' /\ ResourceRoster!TrailReplaysToRoster'
    BY <1>1, <1>2, <1>3, <1>4, MaxEventsAssumption, ResourceRoster!CallReplays
  <1>6. PICK e \in ResourceRoster!OwnEvent : trail' = Append(trail, e)
    BY <1>1, <1>2, <1>3, <1>4, MaxEventsAssumption, ResourceRoster!CallAppends
  <1>7. e \in AllEvents /\ e.kind # "Passenger" /\ e.action # "Replaced"
    BY EventsApart
  <1>8. UNCHANGED <<leadState, passengerState, accessState>>
    BY DEF ResourceRequest
  <1>9. PassengerRoster!TrailReplaysToRoster' /\ PassengerRoster!ListsOK'
    BY <1>2, <1>6, <1>7, <1>8, OtherEventKeepsPassengers DEF WorldInv, RostersOK
  <1>10. UNCHANGED <<leads, leadClock>>
    BY <1>8 DEF leadState
  <1>11. LeadsOK' /\ TrailReplaysToLeads'
    <2>1. LeadsOK'
      BY <1>10 DEF WorldInv, LeadsOK, ExactlyThreeDistinctLeads, ValidLeads
    <2>2. TrailReplaysToLeads
      BY DEF WorldInv
    <2>3. TrailReplaysToLeads'
      BY <1>2, <1>6, <1>7, <1>10, <2>2, OtherEventKeepsLeads
    <2> QED
      BY <2>1, <2>3
  <1>12. trail' \in Seq(AllEvents)
    BY <1>2, <1>6, <1>7, AppendProperties
  <1>13. UsageOK'
    BY <1>2, <1>6, <1>7, <1>8, GrowingTrailKeepsUsage DEF WorldInv
  <1> QED
    BY <1>5, <1>9, <1>11, <1>12, <1>13 DEF WorldInv, RostersOK

\* What find returns when the ids of a list are distinct.
LEMMA FoundRecord ==
    ASSUME NEW S, NEW list \in Seq(S), NEW id, Access!Finds(list, id),
           \A i, j \in DOMAIN list : list[i].id = list[j].id => i = j
    PROVE  \E i \in DOMAIN list : Access!Find(list, id) = list[i] /\ list[i].id = id
  <1>1. PICK k \in DOMAIN list : list[k].id = id
    BY DEF Access!Finds
  <1>2. \A j \in 1..(k - 1) : list[j].id # id
    BY <1>1
  <1> QED
    BY <1>1, <1>2 DEF Access!Find

\* What an active passenger replays from, and an active resource.
LEMMA FoundPassenger ==
    ASSUME RostersOK, NEW id, Access!Finds(pActive, id)
    PROVE  LET r == Access!Find(pActive, id)
           IN  r.level \in Tiers /\ <<id, r.level>> \in ToSet(Passengers!Replayed(trail))
  <1>1. /\ pActive \in Seq(PassengerRoster!Record)
        /\ \A i, j \in DOMAIN pActive : pActive[i].id = pActive[j].id => i = j
    BY DEF RostersOK, PassengerRoster!ListsOK, PassengerRoster!ActiveIdsUnique
  <1>2. PICK i \in DOMAIN pActive : Access!Find(pActive, id) = pActive[i] /\ pActive[i].id = id
    BY <1>1, FoundRecord
  <1>3. pActive[i].level \in Tiers
    <2>1. pActive[i] \in PassengerRoster!Record
      BY <1>1
    <2>2. pActive[i].level \in PassengerRoster!Tiers
      BY <2>1 DEF PassengerRoster!Record
    <2> QED
      BY <2>2, PassengerRosterTypes
  <1>4. Passengers!Replayed(trail) = [k \in DOMAIN pActive |-> <<pActive[k].id, pActive[k].level>>]
    BY PassengerRosterTrail DEF RostersOK, Passengers!TrailReplaysToRoster
  <1> QED
    BY <1>2, <1>3, <1>4 DEF ToSet

\* A resource that is found has a level the trail explains.
LEMMA FoundResource ==
    ASSUME RostersOK, NEW id, Access!Finds(rActive, id)
    PROVE  LET r == Access!Find(rActive, id)
           IN  r.level \in Tiers /\ <<id, r.level>> \in ToSet(Resources!Replayed(trail))
  <1>1. /\ rActive \in Seq(ResourceRoster!Record)
        /\ \A i, j \in DOMAIN rActive : rActive[i].id = rActive[j].id => i = j
    BY DEF RostersOK, ResourceRoster!ListsOK, ResourceRoster!ActiveIdsUnique
  <1>2. PICK i \in DOMAIN rActive : Access!Find(rActive, id) = rActive[i] /\ rActive[i].id = id
    BY <1>1, FoundRecord
  <1>3. rActive[i].level \in Tiers
    <2>1. rActive[i] \in ResourceRoster!Record
      BY <1>1
    <2>2. rActive[i].level \in ResourceRoster!Tiers
      BY <2>1 DEF ResourceRoster!Record
    <2> QED
      BY <2>2, ResourceRosterTypes
  <1>4. Resources!Replayed(trail) = [k \in DOMAIN rActive |-> <<rActive[k].id, rActive[k].level>>]
    BY ResourceRosterTrail DEF RostersOK, Resources!TrailReplaysToRoster
  <1> QED
    BY <1>2, <1>3, <1>4 DEF ToSet

\* A use of a resource.
LEMMA UseResourceKeeps ==
    ASSUME WorldInv, NEW caller \in ActorIds, NEW rid \in ResourceIds,
           UseResource(caller, rid)
    PROVE  WorldInv'
  <1> DEFINE p == Access!Find(pActive, caller)
             r == Access!Find(rActive, rid)
             u == Access!UsageEvent(caller, rid)
  <1>1. /\ UNCHANGED <<leads, leadClock, pActive, pDeleted, pClock, rActive, rDeleted, rClock, trail>>
        /\ usedAt' = Append(usedAt, Len(trail))
    BY DEF UseResource, leadState, passengerState, resourceState
  <1>2. /\ Access!Finds(pActive, caller) /\ Access!Finds(rActive, rid)
        /\ usage' = Append(usage, u) /\ accessClock' = accessClock + 1
    BY DEF UseResource, Access!UseResource, Access!UseOutcome, AsPassenger
  <1>3. /\ p.level \in Tiers /\ <<caller, p.level>> \in ToSet(Passengers!Replayed(trail))
        /\ r.level \in Tiers /\ <<rid, r.level>> \in ToSet(Resources!Replayed(trail))
    BY <1>2, FoundPassenger, FoundResource DEF WorldInv
  <1>4. /\ u.passenger = caller /\ u.tier = p.level /\ u.resource = rid /\ u.minTier = r.level
        /\ u.outcome = (IF CanAccess(p.level, r.level) THEN "Allowed" ELSE "Denied")
        /\ u.time = accessClock
    BY DEF Access!UsageEvent, Access!Allowed, Access!CanAccess, CanAccess, Access!Rank, Rank
  <1>5. u \in UsageRecord
    BY <1>3, <1>4 DEF Access!UsageEvent, UsageRecord, WorldInv, UsageOK
  <1> HIDE DEF p, r, u
  <1>6. UsageOK
    BY DEF WorldInv
  <1>7. trail \in Seq(AllEvents) /\ Len(trail) \in Nat
    BY DEF WorldInv
  <1>8. /\ usage' \in Seq(UsageRecord) /\ Len(usage') = Len(usage) + 1
        /\ usedAt' \in Seq(Nat) /\ Len(usedAt') = Len(usedAt) + 1
        /\ usage'[Len(usage) + 1] = u /\ usedAt'[Len(usage) + 1] = Len(trail)
        /\ \A k \in DOMAIN usage : usage'[k] = usage[k] /\ usedAt'[k] = usedAt[k]
        /\ \A k \in DOMAIN usage' : k \in DOMAIN usage \/ k = Len(usage) + 1
        /\ DOMAIN usage = DOMAIN usedAt /\ DOMAIN usage' = DOMAIN usedAt'
    BY <1>1, <1>2, <1>5, <1>6, <1>7 DEF UsageOK
  <1>9. SubSeq(trail, 1, Len(trail)) = trail
    BY <1>7
  <1>10. UsageJustifiedByTrail'
    <2> SUFFICES ASSUME NEW k \in DOMAIN usage'
                 PROVE  LET past == SubSeq(trail, 1, usedAt'[k])
                            v == usage'[k]
                        IN  /\ <<v.passenger, v.tier>> \in ToSet(Passengers!Replayed(past))
                            /\ <<v.resource, v.minTier>> \in ToSet(Resources!Replayed(past))
                            /\ (v.outcome = "Allowed") <=> CanAccess(v.tier, v.minTier)
      BY <1>1 DEF UsageJustifiedByTrail
    <2>1. CASE k \in DOMAIN usage
      BY <1>6, <1>8, <2>1 DEF UsageOK, UsageJustifiedByTrail
    <2>2. CASE k = Len(usage) + 1
      BY <1>3, <1>4, <1>8, <1>9, <2>2
    <2> QED
      BY <1>8, <2>1, <2>2
  <1>11. \A k \in DOMAIN usedAt' : usedAt'[k] <= Len(trail')
    BY <1>1, <1>6, <1>7, <1>8 DEF UsageOK
  <1>12. UsageOK'
    BY <1>2, <1>6, <1>8, <1>10, <1>11 DEF UsageOK
  <1>13. LeadsOK' /\ TrailReplaysToLeads' /\ trail' \in Seq(AllEvents)
    BY <1>1 DEF WorldInv, LeadsOK, TrailReplaysToLeads, ExactlyThreeDistinctLeads, ValidLeads
  <1>14. RostersOK'
    BY <1>1 DEF WorldInv, RostersOK, PassengerRoster!ListsOK, PassengerRoster!ActiveIdsUnique,
                ResourceRoster!ListsOK, ResourceRoster!ActiveIdsUnique,
                PassengerRoster!TrailReplaysToRoster, ResourceRoster!TrailReplaysToRoster
  <1> QED
    BY <1>12, <1>13, <1>14 DEF WorldInv

\* A request that is answered with an error.
LEMMA NothingKeeps == WorldInv /\ UNCHANGED worldVars => WorldInv'
  <1> SUFFICES ASSUME WorldInv, UNCHANGED worldVars PROVE WorldInv'
    OBVIOUS
  <1>1. UNCHANGED <<leads, leadClock, pActive, pDeleted, pClock, rActive, rDeleted, rClock, trail,
                    accessClock, usage, usedAt>>
    BY DEF worldVars, leadState, passengerState, resourceState, accessState
  <1>2. LeadsOK' /\ TrailReplaysToLeads' /\ trail' \in Seq(AllEvents)
    BY <1>1 DEF WorldInv, LeadsOK, TrailReplaysToLeads, ExactlyThreeDistinctLeads, ValidLeads
  <1>3. RostersOK'
    BY <1>1 DEF WorldInv, RostersOK, PassengerRoster!ListsOK, PassengerRoster!ActiveIdsUnique,
                ResourceRoster!ListsOK, ResourceRoster!ActiveIdsUnique,
                PassengerRoster!TrailReplaysToRoster, ResourceRoster!TrailReplaysToRoster
  <1>4. UsageJustifiedByTrail'
    BY <1>1 DEF WorldInv, UsageOK, UsageJustifiedByTrail
  <1>5. UsageOK'
    BY <1>1, <1>4 DEF WorldInv, UsageOK
  <1> QED
    BY <1>2, <1>3, <1>5 DEF WorldInv

\* Every step keeps it.
LEMMA WorldStepKeeps == WorldInv /\ [WorldNext]_worldVars => WorldInv'
  <1> SUFFICES ASSUME WorldInv, [WorldNext]_worldVars PROVE WorldInv'
    OBVIOUS
  <1>1. ASSUME NEW caller \in Callers, NEW old \in ActorIds, NEW new \in ActorIds,
               ReplaceCrewLead(caller, old, new)
        PROVE  WorldInv'
    BY <1>1, CallersAssumption, ReplaceCrewLeadKeeps
  <1>2. ASSUME NEW caller \in Callers, NEW id \in PassengerIds, PassengerRequest(caller, id)
        PROVE  WorldInv'
    BY <1>2, CallersAssumption, PassengerRequestKeeps
  <1>3. ASSUME NEW caller \in Callers, NEW id \in ResourceIds, ResourceRequest(caller, id)
        PROVE  WorldInv'
    BY <1>3, CallersAssumption, ResourceRequestKeeps
  <1>4. ASSUME NEW caller \in Callers, NEW rid \in ResourceIds, UseResource(caller, rid)
        PROVE  WorldInv'
    BY <1>4, CallersAssumption, UseResourceKeeps
  <1>5. ASSUME NEW caller, NEW id, NEW rid, RejectedRequest(caller, id, rid)
        PROVE  WorldInv'
    BY <1>5, NothingKeeps DEF RejectedRequest
  <1>6. CASE UNCHANGED worldVars
    BY <1>6, NothingKeeps
  <1> QED
    BY <1>1, <1>2, <1>3, <1>4, <1>5, <1>6 DEF WorldNext

-----------------------------------------------------------------------------
(* Start-up. *)

\* The passengers that build_world creates, and the events of their creation.
LEMMA PassengerSeeds ==
    LET records == SeedRecords(SeedPassengers)
        events == SeedEvents(SeedPassengers, "Passenger")
    IN  /\ records \in Seq(PassengerRoster!Record) /\ Len(SeedPassengers) \in Nat
        /\ \A i, j \in DOMAIN records : records[i].id = records[j].id => i = j
        /\ events \in Seq(PassengerRoster!OwnEvent)
        /\ \A i \in DOMAIN events : events[i].kind = "Passenger" /\ events[i].action = "Created"
        /\ PassengerRoster!CreatedEntries(events)
             = [i \in DOMAIN records |-> <<records[i].id, records[i].level>>]
  <1> DEFINE seeds == SeedPassengers
             records == SeedRecords(seeds)
             events == SeedEvents(seeds, "Passenger")
  <1>1. /\ seeds \in Seq(PassengerIds \X Tiers) /\ Len(seeds) \in Nat /\ DOMAIN seeds = 1..Len(seeds)
        /\ \A i, j \in DOMAIN seeds : seeds[i][1] = seeds[j][1] => i = j
    BY SeedsAssumption DEF Seeds
  <1>2. \A i \in DOMAIN seeds : seeds[i][1] \in PassengerIds /\ seeds[i][2] \in Tiers
    BY <1>1
  <1>3. Founders[1] \in ActorIds
    BY FoundersAssumption DEF ValidLeads
  <1> HIDE DEF seeds
  <1>4. /\ DOMAIN records = DOMAIN seeds
        /\ \A i \in DOMAIN seeds : /\ records[i].id = seeds[i][1]
                                   /\ records[i].level = seeds[i][2]
    BY DEF SeedRecords, Passengers!NewRecord
  <1>5. \A i \in DOMAIN seeds : records[i] \in PassengerRoster!Record
    BY <1>2, PassengerRosterTypes
       DEF SeedRecords, Passengers!NewRecord, Passengers!NotDeleted,
           PassengerRoster!Record, PassengerRoster!NotDeleted
  <1>6. /\ DOMAIN events = DOMAIN seeds
        /\ \A i \in DOMAIN seeds :
             /\ events[i] \in PassengerRoster!OwnEvent
             /\ events[i].kind = "Passenger" /\ events[i].action = "Created"
             /\ events[i].target = seeds[i][1] /\ events[i].details = seeds[i][2]
    BY <1>1, <1>2, <1>3, PassengerRosterTypes
       DEF SeedEvents, AdminEvent, PassengerRoster!OwnEvent
  <1>7. records \in Seq(PassengerRoster!Record) /\ events \in Seq(PassengerRoster!OwnEvent)
    BY <1>1, <1>5, <1>6 DEF SeedRecords, SeedEvents
  <1> HIDE DEF records, events
  <1>8. PassengerRoster!CreatedEntries(events)
          = [i \in DOMAIN records |-> <<records[i].id, records[i].level>>]
    BY <1>4, <1>6 DEF PassengerRoster!CreatedEntries
  <1>9. \A i, j \in DOMAIN records : records[i].id = records[j].id => i = j
    BY <1>1, <1>4
  <1>10. \A i \in DOMAIN events : events[i].kind = "Passenger" /\ events[i].action = "Created"
    BY <1>6
  <1>11. Len(SeedPassengers) \in Nat
    BY <1>1 DEF seeds
  <1> QED
    BY <1>7, <1>8, <1>9, <1>10, <1>11, Zenon DEF records, events, seeds

\* The resources that it creates.
LEMMA ResourceSeeds ==
    LET records == SeedRecords(SeedResources)
        events == SeedEvents(SeedResources, "Resource")
    IN  /\ records \in Seq(ResourceRoster!Record) /\ Len(SeedResources) \in Nat
        /\ \A i, j \in DOMAIN records : records[i].id = records[j].id => i = j
        /\ events \in Seq(ResourceRoster!OwnEvent)
        /\ \A i \in DOMAIN events : events[i].kind = "Resource" /\ events[i].action = "Created"
        /\ ResourceRoster!CreatedEntries(events)
             = [i \in DOMAIN records |-> <<records[i].id, records[i].level>>]
  <1> DEFINE seeds == SeedResources
             records == SeedRecords(seeds)
             events == SeedEvents(seeds, "Resource")
  <1>1. /\ seeds \in Seq(ResourceIds \X Tiers) /\ Len(seeds) \in Nat /\ DOMAIN seeds = 1..Len(seeds)
        /\ \A i, j \in DOMAIN seeds : seeds[i][1] = seeds[j][1] => i = j
    BY SeedsAssumption DEF Seeds
  <1>2. \A i \in DOMAIN seeds : seeds[i][1] \in ResourceIds /\ seeds[i][2] \in Tiers
    BY <1>1
  <1>3. Founders[1] \in ActorIds
    BY FoundersAssumption DEF ValidLeads
  <1> HIDE DEF seeds
  <1>4. /\ DOMAIN records = DOMAIN seeds
        /\ \A i \in DOMAIN seeds : /\ records[i].id = seeds[i][1]
                                   /\ records[i].level = seeds[i][2]
    BY DEF SeedRecords, Passengers!NewRecord
  <1>5. \A i \in DOMAIN seeds : records[i] \in ResourceRoster!Record
    BY <1>2, ResourceRosterTypes
       DEF SeedRecords, Passengers!NewRecord, Passengers!NotDeleted,
           ResourceRoster!Record, ResourceRoster!NotDeleted
  <1>6. /\ DOMAIN events = DOMAIN seeds
        /\ \A i \in DOMAIN seeds :
             /\ events[i] \in ResourceRoster!OwnEvent
             /\ events[i].kind = "Resource" /\ events[i].action = "Created"
             /\ events[i].target = seeds[i][1] /\ events[i].details = seeds[i][2]
    BY <1>1, <1>2, <1>3, ResourceRosterTypes
       DEF SeedEvents, AdminEvent, ResourceRoster!OwnEvent
  <1>7. records \in Seq(ResourceRoster!Record) /\ events \in Seq(ResourceRoster!OwnEvent)
    BY <1>1, <1>5, <1>6 DEF SeedRecords, SeedEvents
  <1> HIDE DEF records, events
  <1>8. ResourceRoster!CreatedEntries(events)
          = [i \in DOMAIN records |-> <<records[i].id, records[i].level>>]
    BY <1>4, <1>6 DEF ResourceRoster!CreatedEntries
  <1>9. \A i, j \in DOMAIN records : records[i].id = records[j].id => i = j
    BY <1>1, <1>4
  <1>10. \A i \in DOMAIN events : events[i].kind = "Resource" /\ events[i].action = "Created"
    BY <1>6
  <1>11. Len(SeedResources) \in Nat
    BY <1>1 DEF seeds
  <1> QED
    BY <1>7, <1>8, <1>9, <1>10, <1>11, Zenon DEF records, events, seeds

\* The trail of start-up replays to what start-up created.
LEMMA SeedTrail ==
    LET sp == SeedEvents(SeedPassengers, "Passenger")
        sr == SeedEvents(SeedResources, "Resource")
        start == <<BootstrapEvent>> \o sp \o sr
    IN  /\ start \in Seq(AllEvents)
        /\ LeadsReplayed(start) = Founders
        /\ PassengerRoster!Replayed(start) = PassengerRoster!CreatedEntries(sp)
        /\ ResourceRoster!Replayed(start) = ResourceRoster!CreatedEntries(sr)
  <1> DEFINE b == <<BootstrapEvent>>
             sp == SeedEvents(SeedPassengers, "Passenger")
             sr == SeedEvents(SeedResources, "Resource")
             none == << >>
  <1>1. BootstrapEvent \in LeadEvent /\ BootstrapEvent.action = "Bootstrapped"
    <2>1. Founders[1] \in ActorIds
      BY FoundersAssumption DEF ValidLeads
    <2> QED
      BY <2>1 DEF BootstrapEvent, AdminEvent, LeadEvent
  <1>2. /\ b \in Seq(AllEvents)
        /\ \A i \in DOMAIN b : b[i].kind = "CrewLead" /\ b[i].action # "Replaced"
    BY <1>1, EventsApart
  <1>3. /\ sp \in Seq(AllEvents)
        /\ \A i \in DOMAIN sp : sp[i].kind = "Passenger" /\ sp[i].action = "Created"
    <2>1. /\ sp \in Seq(PassengerRoster!OwnEvent)
          /\ \A i \in DOMAIN sp : sp[i].kind = "Passenger" /\ sp[i].action = "Created"
      BY PassengerSeeds
    <2>2. PassengerRoster!OwnEvent \subseteq AllEvents
      BY EventsApart
    <2> HIDE DEF sp
    <2> QED
      BY <2>1, <2>2
  <1>4. /\ sr \in Seq(AllEvents)
        /\ \A i \in DOMAIN sr : sr[i].kind = "Resource" /\ sr[i].action = "Created"
    <2>1. /\ sr \in Seq(ResourceRoster!OwnEvent)
          /\ \A i \in DOMAIN sr : sr[i].kind = "Resource" /\ sr[i].action = "Created"
      BY ResourceSeeds
    <2>2. ResourceRoster!OwnEvent \subseteq AllEvents
      BY EventsApart
    <2> HIDE DEF sr
    <2> QED
      BY <2>1, <2>2
  <1>5. none \in Seq(AllEvents) /\ none \o b = b
    BY <1>2
  <1>6. /\ LeadsReplayed(none) = Founders
        /\ PassengerRoster!Replayed(none) = << >>
        /\ ResourceRoster!Replayed(none) = << >>
    BY LeadsReplayEmpty, PassengerRoster!ReplayEmpty, ResourceRoster!ReplayEmpty,
       RequestedLevelsAssumption, PassengerRosterTypes, ResourceRosterTypes, MaxEventsAssumption
  <1> HIDE DEF none, b, sp, sr
  <1>7. b \o sp \in Seq(AllEvents) /\ (b \o sp) \o sr \in Seq(AllEvents)
    BY <1>2, <1>3, <1>4
  <1>8. LeadsReplayed((b \o sp) \o sr) = Founders
    <2>1. LeadsReplayed(b) = Founders
      BY <1>2, <1>5, <1>6, EventsApart, OthersKeepLeads
    <2>2. LeadsReplayed(b \o sp) = LeadsReplayed(b)
      BY <1>2, <1>3, EventsApart, OthersKeepLeads
    <2>3. LeadsReplayed((b \o sp) \o sr) = LeadsReplayed(b \o sp)
      BY <1>4, <1>7, EventsApart, OthersKeepLeads
    <2> QED
      BY <2>1, <2>2, <2>3
  <1>9. PassengerRoster!Replayed((b \o sp) \o sr) = PassengerRoster!CreatedEntries(sp)
    <2>1. PassengerRoster!Replayed(b) = << >>
      BY <1>2, <1>5, <1>6, EventsApart, PassengerRoster!OthersReplayAway,
         RequestedLevelsAssumption, PassengerRosterTypes, MaxEventsAssumption
    <2>2. PassengerRoster!Replayed(b \o sp) = PassengerRoster!CreatedEntries(sp)
      BY <1>2, <1>3, <2>1, EventsApart, PassengerRoster!CreationsReplay,
         RequestedLevelsAssumption, PassengerRosterTypes, MaxEventsAssumption
    <2>3. PassengerRoster!Replayed((b \o sp) \o sr) = PassengerRoster!Replayed(b \o sp)
      BY <1>4, <1>7, EventsApart, PassengerRoster!OthersReplayAway,
         RequestedLevelsAssumption, PassengerRosterTypes, MaxEventsAssumption
    <2> QED
      BY <2>2, <2>3
  <1>10. ResourceRoster!Replayed((b \o sp) \o sr) = ResourceRoster!CreatedEntries(sr)
    <2>1. ResourceRoster!Replayed(b) = << >>
      BY <1>2, <1>5, <1>6, EventsApart, ResourceRoster!OthersReplayAway,
         RequestedLevelsAssumption, ResourceRosterTypes, MaxEventsAssumption
    <2>2. ResourceRoster!Replayed(b \o sp) = << >>
      BY <1>2, <1>3, <2>1, EventsApart, ResourceRoster!OthersReplayAway,
         RequestedLevelsAssumption, ResourceRosterTypes, MaxEventsAssumption
    <2> QED
      BY <1>4, <1>7, <2>2, EventsApart, ResourceRoster!CreationsReplay,
         RequestedLevelsAssumption, ResourceRosterTypes, MaxEventsAssumption
  <1> QED
    BY <1>7, <1>8, <1>9, <1>10 DEF b, sp, sr

\* Start-up establishes the invariant.
LEMMA WorldInitEstablishes == WorldInit => WorldInv
  <1> SUFFICES ASSUME WorldInit PROVE WorldInv
    OBVIOUS
  <1>1. LeadsOK
    BY FoundersOK DEF WorldInit, LeadsOK, ExactlyThreeDistinctLeads
  <1>2. /\ trail \in Seq(AllEvents) /\ LeadsReplayed(trail) = Founders
        /\ PassengerRoster!Replayed(trail)
             = PassengerRoster!CreatedEntries(SeedEvents(SeedPassengers, "Passenger"))
        /\ ResourceRoster!Replayed(trail)
             = ResourceRoster!CreatedEntries(SeedEvents(SeedResources, "Resource"))
    BY SeedTrail DEF WorldInit
  <1>3. TrailReplaysToLeads
    BY <1>2 DEF TrailReplaysToLeads, LeadsReplayed, WorldInit
  <1>4. PassengerRoster!ListsOK /\ PassengerRoster!TrailReplaysToRoster
    <2>1. /\ pActive = SeedRecords(SeedPassengers) /\ pDeleted = << >>
          /\ pClock = Len(SeedPassengers)
      BY DEF WorldInit
    <2>2. /\ pActive \in Seq(PassengerRoster!Record) /\ pClock \in Nat
          /\ \A i, j \in DOMAIN pActive : pActive[i].id = pActive[j].id => i = j
          /\ PassengerRoster!Replayed(trail)
               = [i \in DOMAIN pActive |-> <<pActive[i].id, pActive[i].level>>]
      BY <1>2, <2>1, PassengerSeeds
    <2> QED
      BY <2>1, <2>2 DEF PassengerRoster!ListsOK, PassengerRoster!ActiveIdsUnique,
                        PassengerRoster!TrailReplaysToRoster
  <1>5. ResourceRoster!ListsOK /\ ResourceRoster!TrailReplaysToRoster
    <2>1. /\ rActive = SeedRecords(SeedResources) /\ rDeleted = << >>
          /\ rClock = Len(SeedResources)
      BY DEF WorldInit
    <2>2. /\ rActive \in Seq(ResourceRoster!Record) /\ rClock \in Nat
          /\ \A i, j \in DOMAIN rActive : rActive[i].id = rActive[j].id => i = j
          /\ ResourceRoster!Replayed(trail)
               = [i \in DOMAIN rActive |-> <<rActive[i].id, rActive[i].level>>]
      BY <1>2, <2>1, ResourceSeeds
    <2> QED
      BY <2>1, <2>2 DEF ResourceRoster!ListsOK, ResourceRoster!ActiveIdsUnique,
                        ResourceRoster!TrailReplaysToRoster
  <1>6. UsageOK
    <2>1. accessClock = 0 /\ usage = << >> /\ usedAt = << >>
      BY DEF WorldInit
    <2> QED
      BY <2>1 DEF UsageOK, UsageJustifiedByTrail
  <1> QED
    BY <1>1, <1>2, <1>3, <1>4, <1>5, <1>6 DEF WorldInv, RostersOK

-----------------------------------------------------------------------------
(* The theorems of the World. *)

\* The invariant holds in every reachable World, whatever the seed data, the
\* callers and the interleaving of their requests.
THEOREM WorldInvariant == WorldSpec => []WorldInv
  BY WorldInitEstablishes, WorldStepKeeps, PTL DEF WorldSpec

\* Every service of a World keeps its types, on one shared trail (build_world).
THEOREM WorldTypeCorrect == WorldSpec => []WorldTypeOK
  <1>1. WorldInv => WorldTypeOK
    <2> SUFFICES ASSUME WorldInv PROVE WorldTypeOK
      OBVIOUS
    <2>1. leads \in [1..3 -> ActorIds]
      <3>1. leads \in Seq(ActorIds) /\ Len(leads) = 3
        BY DEF WorldInv, LeadsOK, ExactlyThreeDistinctLeads, ValidLeads
      <3> QED
        BY <3>1
    <2>2. /\ pActive \in Seq(Passengers!Record) /\ pDeleted \in Seq(Passengers!Record)
          /\ rActive \in Seq(Resources!Record) /\ rDeleted \in Seq(Resources!Record)
      BY PassengerRosterTypes, ResourceRosterTypes
         DEF WorldInv, RostersOK, PassengerRoster!ListsOK, ResourceRoster!ListsOK
    <2>3. \A i \in DOMAIN trail : trail[i] \in AllEvents
      BY DEF WorldInv
    <2>4. DOMAIN usage = DOMAIN usedAt
      BY DEF WorldInv, UsageOK
    <2> QED
      BY <2>1, <2>2, <2>3, <2>4 DEF WorldTypeOK, AllEvents
  <1> QED
    BY <1>1, WorldInvariant, PTL

\* CL-I1, CL-I2 in the World: between any requests to any service there are
\* exactly three leads, all different.
THEOREM WorldLeadsThreeAndDistinct == WorldSpec => []ExactlyThreeDistinctLeads
  <1>1. WorldInv => ExactlyThreeDistinctLeads
    BY DEF WorldInv, LeadsOK
  <1> QED
    BY <1>1, WorldInvariant, PTL

\* Replaying the one trail yields the leads, the passengers and the resources
\* of the World, through start-up and any sequence of requests.
THEOREM WorldTrailExplains == WorldSpec => []TrailExplainsWorld
  <1>1. WorldInv => TrailExplainsWorld
    BY PassengerRosterTrail, ResourceRosterTrail DEF WorldInv, RostersOK, TrailExplainsWorld
  <1> QED
    BY <1>1, WorldInvariant, PTL

\* AC-R4..R6, AC-I1: what a usage event records is what the trail says was
\* true when use_resource recorded it, and later requests rewrite nothing.
THEOREM WorldUsageJustified == WorldSpec => []UsageJustifiedByTrail
  <1>1. WorldInv => UsageJustifiedByTrail
    BY DEF WorldInv, UsageOK
  <1> QED
    BY <1>1, WorldInvariant, PTL
=============================================================================
