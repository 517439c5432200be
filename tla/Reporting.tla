------------------------------ MODULE Reporting ------------------------------
(***************************************************************************)
(* The queries over the usage log: the three reports of                    *)
(* src/application/reporting_service.rs, the paged listing of the log, and *)
(* list_accessible_for, which tells a tier which resources it may use.     *)
(* All are pure reads; the log grows by accesses (module AccessService)    *)
(* while passengers change tiers between them.                             *)
(***************************************************************************)
EXTENDS AccessService, SequencesExt

CONSTANTS
    ResourceIds,      \* the ids of the resources
    Levels,           \* the tiers passengers are changed to
    PassengerSeeds,   \* the passengers, as records [id, level]
    ResourceSeeds,    \* the resources, in ascending order of their ids
    PageLimit,        \* the limit= of a client that reads the log page by page
    MaxOffset,        \* the cap of offset(); 1_000_000 in dto.rs
    MaxUsage,         \* bound: the length of the log
    MaxRead           \* bound: the client stops when it has got that many

\* What the two rosters list: no id twice.
Listing(list, ids) ==
    /\ list \in Seq([id : ids, level : Tiers])
    /\ \A i, j \in DOMAIN list : list[i].id = list[j].id => i = j

ASSUME SeedsAssumption == Listing(PassengerSeeds, ActorIds) /\ Listing(ResourceSeeds, ResourceIds)
ASSUME LevelsAssumption == Levels \subseteq Tiers
ASSUME PagingAssumption == PageLimit \in Nat \ {0} /\ MaxOffset \in Nat
ASSUME BoundsAssumption == MaxUsage \in Nat /\ MaxRead \in Nat

VARIABLE read   \* the events the paging client has received so far

reportVars == <<pActive, rActive, accessClock, usage, read>>

ResourceOrder == [i \in DOMAIN ResourceSeeds |-> ResourceSeeds[i].id]

-----------------------------------------------------------------------------
(* The queries *)

\* iter().filter(): the elements of a list that are in a set, in their order.
Kept(list, set) == FoldLeft(LAMBDA kept, x : IF x \in set THEN Append(kept, x) ELSE kept, << >>, list)

PersonalHistory(pid) == Kept(usage, {e \in ToSet(usage) : e.passenger = pid})

Attempts(tier, outcome) ==
    Cardinality({k \in DOMAIN usage : usage[k].tier = tier /\ usage[k].outcome = outcome})

TierCounts(tier) ==
    [allowed |-> Attempts(tier, "Allowed"), denied |-> Attempts(tier, "Denied")]

\* The rows entered before counting; a fourth tier gets its row on first use.
Prepopulated == {"Silver", "Gold", "Platinum"}

(* Fault, for testing the properties: only the prepopulated rows are counted. *)
AggregatePrepopulatedOnly == [tier \in Prepopulated |-> TierCounts(tier)]

AggregateByTier ==
    [tier \in Prepopulated \cup {usage[k].tier : k \in DOMAIN usage} |-> TierCounts(tier)]

AllowedUses(rid) ==
    Cardinality({k \in DOMAIN usage : usage[k].resource = rid /\ usage[k].outcome = "Allowed"})

IdRank(rid) == SelectInSeq(ResourceOrder, LAMBDA id : id = rid)

(* Fault, for testing the properties: ties are broken by descending id. *)
BeforeTiesReversed(a, b) ==
    \/ a.count > b.count
    \/ a.count = b.count /\ IdRank(a.id) > IdRank(b.id)

\* The order of the ranking: count descending, then id ascending.
Before(a, b) ==
    \/ a.count > b.count
    \/ a.count = b.count /\ IdRank(a.id) < IdRank(b.id)

Truncate(list, n) == SubSeq(list, 1, IF n < Len(list) THEN n ELSE Len(list))

\* The counts, one per resource that has some.
Entries == {[id |-> rid, count |-> AllowedUses(rid)] :
              rid \in {r \in ToSet(ResourceOrder) : AllowedUses(r) > 0}}

\* sort_by: in place i the entry that i - 1 others come before.
Ranking ==
    [i \in 1..Cardinality(Entries) |->
        CHOOSE e \in Entries : Cardinality({d \in Entries : Before(d, e)}) = i - 1]

TopResources(n) == Truncate(Ranking, n)

(* Fault, for testing the properties: a tier needs to be above the minimum. *)
AccessibleAbove(tier) == Kept(rActive, {r \in ToSet(rActive) : Rank[tier] > Rank[r.level]})

ListAccessibleFor(tier) == Kept(rActive, {r \in ToSet(rActive) : CanAccess(tier, r.level)})

\* PaginationQuery::offset: a larger offset is silently taken as the cap.
Offset(asked) == IF asked < MaxOffset THEN asked ELSE MaxOffset

(* Fault, for testing the properties: the offset counts from 1. *)
PageFromOne(list, asked, limit) ==
    Truncate(SubSeq(list, Offset(asked) + 2, Len(list)), limit)

\* skip(offset).take(limit)
Page(list, asked, limit) ==
    Truncate(SubSeq(list, Offset(asked) + 1, Len(list)), limit)

-----------------------------------------------------------------------------
ReportInit ==
    /\ pActive = PassengerSeeds
    /\ rActive = ResourceSeeds
    /\ accessClock = 0
    /\ usage = << >>
    /\ read = << >>

Access(pid, rid) ==
    /\ Len(usage) < MaxUsage
    /\ UseResource([role |-> "Passenger", id |-> pid], rid)
    /\ UNCHANGED <<pActive, rActive, read>>

\* change_tier of the passenger service, as far as the reports can see it.
ChangeTier(i, level) ==
    /\ pActive' = [pActive EXCEPT ![i].level = level]
    /\ UNCHANGED <<rActive, accessClock, usage, read>>

\* The client asks for the page behind what it has got.
ReadPage ==
    /\ Len(read) < MaxRead
    /\ read' = read \o Page(usage, Len(read), PageLimit)
    /\ UNCHANGED <<pActive, rActive, accessClock, usage>>

ReportNext ==
    \/ \E i \in DOMAIN PassengerSeeds :
          \/ \E rid \in ToSet(ResourceOrder) : Access(PassengerSeeds[i].id, rid)
          \/ \E level \in Levels : ChangeTier(i, level)
    \/ ReadPage

ReportSpec == ReportInit /\ [][ReportNext]_reportVars

-----------------------------------------------------------------------------
(* Correctness *)

\* RP-R1..R4: three reports, computed from the log in three ways, agree: the
\* allowed uses add up to the same number by tier, by resource and by
\* passenger, every attempt is in one tier's row and in one history.
ReportsAgree ==
    LET rows == DOMAIN AggregateByTier
        top == TopResources(Len(ResourceOrder))
        histories == {PassengerSeeds[i].id : i \in DOMAIN PassengerSeeds}
        allowedIn(log) == Cardinality({k \in DOMAIN log : log[k].outcome = "Allowed"})
        byTier == SumFunction([t \in rows |-> AggregateByTier[t].allowed])
        denied == SumFunction([t \in rows |-> AggregateByTier[t].denied])
    IN  /\ byTier = SumFunction([i \in DOMAIN top |-> top[i].count])
        /\ byTier = SumFunction([p \in histories |-> allowedIn(PersonalHistory(p))])
        /\ byTier + denied = Len(usage)

\* RP-R3, RP-R4 against their definition: the ranking is as long as it can be,
\* in order, and whatever is left out has fewer allowed uses than the last
\* entry, or as many and a later id, or none at all.
TopIsReference ==
    \A n \in 0..Len(ResourceOrder) + 1 :
        LET top == TopResources(n)
            ranked == {top[i].id : i \in DOMAIN top}
            others == {rid \in ToSet(ResourceOrder) \ ranked : AllowedUses(rid) > 0}
        IN  /\ others # {} => Len(top) = n
            /\ \A i \in DOMAIN top : top[i].count = AllowedUses(top[i].id)
            /\ \A i, j \in DOMAIN top :
                 i < j => /\ top[i].count >= top[j].count
                          /\ top[i].count = top[j].count => IdRank(top[i].id) < IdRank(top[j].id)
            /\ \A rid \in others, i \in DOMAIN top :
                 /\ AllowedUses(rid) <= top[i].count
                 /\ AllowedUses(rid) = top[i].count => IdRank(top[i].id) < IdRank(rid)

\* RS-R7 and AC-R4 say the same: the resources listed as accessible for a
\* passenger's tier are the ones whose use the access service would allow now.
AccessibleMeansAllowed ==
    \A i \in DOMAIN pActive, j \in DOMAIN rActive :
        rActive[j] \in ToSet(ListAccessibleFor(pActive[i].level))
            <=> UseOutcome([role |-> "Passenger", id |-> pActive[i].id], rActive[j].id) = "Ok"

\* A client that pages through the log while it grows gets every event once and
\* in the order of the attempts, up to the first one behind the cap; from there
\* on it gets the page at the cap again and again.
PagesExactUpToCap == IsPrefix(Truncate(read, MaxOffset + 1), usage)
=============================================================================
