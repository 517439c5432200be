------------------------- MODULE WriteThroughProofs -------------------------
(***************************************************************************)
(* Theorems about WriteThrough, for every set of requests and of calls,    *)
(* either store, and any number of requests in flight, of failures and of  *)
(* restarts: what the tables hold are earlier states of the memory, all of *)
(* it is in the audit trail or was done by a request that failed, no       *)
(* restart that counts the rows seeds a world that requests have changed,  *)
(* and what requests do one after the other is durable once acknowledged.  *)
(***************************************************************************)
EXTENDS WriteThrough, ListLemmas

\* The requests whose clones flush_to_db still needs.
Flushing(r) == stage[r] \in {"cloning", "cloned", "waiting", "holding"}

ClonesFit ==
    \A r \in Requests :
        /\ stage[r] = "cloning" => Len(clone[r]) < 3
        /\ stage[r] \in {"cloned", "waiting", "holding"} => Len(clone[r]) = 3

\* Every clone is an aggregate as it was at some time since the last start.
ClonesPast ==
    \A r \in Requests : Flushing(r) =>
        \A i \in 1..Len(clone[r]) :
            clone[r][i] # << >> /\ IsPrefix(clone[r][i], mem[FlushOrder[i]])

\* So is what an overtaken transaction leaves in the table of the leads.
RemainsPast ==
    \A r \in Requests : \A log \in remains[r] :
        /\ stage[r] \in {"waiting", "holding"} /\ overlapped
        /\ log # << >> /\ IsPrefix(log, mem["crew_leads"])

\* Requests are accepted once the three tables are filled, and no earlier.
StartUp ==
    /\ server # "up" => InFlight = {}
    /\ server = "seeding" => disk = EmptyTables \/ miscounted
    /\ server = "up" => \A agg \in Aggregates : mem[agg] # << >> /\ disk[agg] # {}

Together == ~overlapped => \A q, r \in InFlight : q = r

\* The tables are filled together, and only the leads are ever merged.
TablesFit ==
    /\ disk = EmptyTables \/ \A agg \in Aggregates : disk[agg] # {}
    /\ \A agg \in Aggregates : \A log \in disk[agg] : log # << >>
    /\ \A agg \in Aggregates : agg \in Rosters \/ ~overlapped =>
          \A log, other \in disk[agg] : log = other

TablesPast ==
    server = "up" =>
      \A agg \in Aggregates : \A log \in disk[agg] : IsPrefix(log, mem[agg])

SeedsOnly == disk = EmptyTables => \A i \in DOMAIN trail : trail[i].req = Seed

\* What is in memory has its event, or was done by a request that failed.
MemoryIsAudited == \A agg \in Aggregates : \A m \in ToSet(mem[agg]) : Accounted(m)

IInv ==
    /\ TypeOK /\ ClonesFit /\ ClonesPast /\ RemainsPast /\ StartUp /\ Together
    /\ TablesFit /\ TablesPast /\ SeedsOnly /\ MemoryIsAudited
    /\ PersistedIsAudited /\ SeedsComeFirst

-----------------------------------------------------------------------------
(* The aggregates *)

\* flush_to_db visits each of the three aggregates once.
LEMMA TheAggregates ==
  /\ Aggregates = {"crew_leads", "passengers", "resources"}
  /\ Len(FlushOrder) = 3
  /\ FlushOrder[1] = "crew_leads" /\ FlushOrder[2] = "passengers" /\ FlushOrder[3] = "resources"
  <1>1. Len(FlushOrder) = 3 /\ FlushOrder[1] = "crew_leads" /\ FlushOrder[2] = "passengers"
        /\ FlushOrder[3] = "resources" /\ DOMAIN FlushOrder = {1, 2, 3}
    BY DEF FlushOrder
  <1>2. ToSet(FlushOrder) = {"crew_leads", "passengers", "resources"}
    BY <1>1 DEF ToSet
  <1> QED BY <1>1, <1>2 DEF Aggregates

-----------------------------------------------------------------------------
(* What the steps do to the invariant's parts *)

\* An answer, or the next step of a request, concerns that request alone.
LEMMA OneAnswer ==
  ASSUME TypeOK, NEW r \in Requests, NEW to \in Stages, Answer(r, to)
  PROVE  /\ stage' \in [Requests -> Stages]
         /\ \A q \in Requests : stage'[q] = IF q = r THEN to ELSE stage[q]
  BY DEF TypeOK, Answer

\* A mutation appended to one aggregate leaves every earlier state earlier.
LEMMA MemoryGrows ==
  ASSUME TypeOK, NEW agg \in Aggregates, NEW e \in Mutation,
         mem' = [mem EXCEPT ![agg] = Append(@, e)]
  PROVE  /\ mem' \in [Aggregates -> Seq(Mutation)]
         /\ \A a \in Aggregates : mem'[a] = IF a = agg THEN Append(mem[a], e) ELSE mem[a]
         /\ \A a \in Aggregates : ToSet(mem'[a]) \subseteq ToSet(mem[a]) \cup {e}
         /\ \A a \in Aggregates : mem[a] # << >> => mem'[a] # << >>
         /\ \A a \in Aggregates, s \in Seq(Mutation) :
               IsPrefix(s, mem[a]) => IsPrefix(s, mem'[a])
  <1>1. mem \in [Aggregates -> Seq(Mutation)]
    BY DEF TypeOK
  <1>2. \A a \in Aggregates : mem'[a] = IF a = agg THEN Append(mem[a], e) ELSE mem[a]
    BY <1>1
  <1>3. \A a \in Aggregates : ToSet(Append(mem[a], e)) = ToSet(mem[a]) \cup {e}
    BY <1>1, ElementsOfAppend
  <1>4. \A a \in Aggregates, s \in Seq(Mutation) :
           IsPrefix(s, mem[a]) => IsPrefix(s, Append(mem[a], e))
    BY <1>1, PrefixOfAppend
  <1>5. mem' \in [Aggregates -> Seq(Mutation)]
    BY <1>1
  <1>6. \A a \in Aggregates : Append(mem[a], e) # << >>
    <2> SUFFICES ASSUME NEW a \in Aggregates PROVE Append(mem[a], e) # << >>
      OBVIOUS
    <2>1. mem[a] \in Seq(Mutation)
      BY <1>1
    <2> DEFINE S == mem[a]
    <2>2. S \in Seq(Mutation)
      BY <2>1
    <2> HIDE DEF S
    <2>3. Len(Append(S, e)) = Len(S) + 1 /\ Len(S) \in Nat
      BY <2>2
    <2>4. Len(<< >>) = 0
      OBVIOUS
    <2>5. Len(Append(S, e)) # Len(<< >>)
      BY <2>3, <2>4
    <2>6. Append(S, e) # << >>
      BY <2>5, Zenon
    <2> QED BY <2>6 DEF S
  <1> QED BY <1>2, <1>3, <1>4, <1>5, <1>6

\* What flush_to_db is about to write is, aggregate by aggregate, a non-empty
\* earlier state of the memory.
LEMMA CompleteClones ==
  ASSUME IInv, NEW r \in Requests, stage[r] \in {"cloned", "waiting", "holding"}
  PROVE  \A agg \in Aggregates :
            /\ Cloned(r)[agg] \in Seq(Mutation)
            /\ Cloned(r)[agg] # << >> /\ IsPrefix(Cloned(r)[agg], mem[agg])
  <1>1. /\ clone[r] \in Seq(Seq(Mutation)) /\ Len(clone[r]) = 3
        /\ \A i \in 1..Len(clone[r]) :
              clone[r][i] # << >> /\ IsPrefix(clone[r][i], mem[FlushOrder[i]])
    BY DEF IInv, TypeOK, ClonesFit, ClonesPast, Flushing
  <1>2. ASSUME NEW agg \in Aggregates
        PROVE  \E i \in 1..3 : FlushOrder[i] = agg
    BY <1>2, TheAggregates
  <1> DEFINE position(agg) == CHOOSE i \in 1..Len(FlushOrder) : FlushOrder[i] = agg
  <1>3. \A agg \in Aggregates : position(agg) \in 1..3 /\ FlushOrder[position(agg)] = agg
    BY <1>2, TheAggregates
  <1>4. \A agg \in Aggregates : Cloned(r)[agg] = clone[r][position(agg)]
    BY DEF Cloned
  <1> HIDE DEF position
  <1>5. \A i \in 1..3 : clone[r][i] \in Seq(Mutation)
    BY <1>1
  <1>6. \A agg \in Aggregates : Cloned(r)[agg] \in Seq(Mutation)
    BY <1>3, <1>4, <1>5
  <1>7. \A agg \in Aggregates :
           Cloned(r)[agg] # << >> /\ IsPrefix(Cloned(r)[agg], mem[agg])
    BY <1>1, <1>3, <1>4
  <1> QED BY <1>6, <1>7

\* An event of a request goes behind the seeds.
LEMMA TrailGrows ==
  ASSUME IInv, NEW e \in Mutation, trail' = Append(trail, e)
  PROVE  /\ trail' \in Seq(Mutation)
         /\ ToSet(trail') = ToSet(trail) \cup {e}
         /\ (e.req # Seed \/ disk = EmptyTables \/ miscounted) /\ (miscounted => miscounted')
              => SeedsComeFirst'
         /\ e.req = Seed => (disk = EmptyTables => \A i \in DOMAIN trail' : trail'[i].req = Seed)
  <1>1. trail \in Seq(Mutation) /\ SeedsComeFirst /\ SeedsOnly
    BY DEF IInv, TypeOK
  <1>2. trail' \in Seq(Mutation) /\ ToSet(trail') = ToSet(trail) \cup {e}
    BY <1>1, ElementsOfAppend
  <1>3. /\ \A i \in DOMAIN trail : trail'[i] = trail[i]
        /\ trail'[Len(trail) + 1] = e
        /\ DOMAIN trail = 1..Len(trail) /\ DOMAIN trail' = 1..(Len(trail) + 1)
        /\ Len(trail) \in Nat
    BY <1>1
  <1>4. ASSUME e.req # Seed, miscounted => miscounted' PROVE SeedsComeFirst'
    BY <1>1, <1>3, <1>4 DEF SeedsComeFirst
  <1>5. ASSUME disk = EmptyTables PROVE SeedsComeFirst'
    BY <1>1, <1>3, <1>5 DEF SeedsComeFirst, SeedsOnly
  <1>6. ASSUME e.req = Seed, disk = EmptyTables
        PROVE  \A i \in DOMAIN trail' : trail'[i].req = Seed
    BY <1>1, <1>3, <1>6 DEF SeedsOnly
  <1>7. ASSUME miscounted, miscounted => miscounted' PROVE SeedsComeFirst'
    BY <1>7 DEF SeedsComeFirst
  <1> QED BY <1>2, <1>4, <1>5, <1>6, <1>7

\* What is accounted for stays so: events are not removed, failures not undone.
LEMMA AccountedStays ==
  ASSUME ToSet(trail) \subseteq ToSet(trail'),
         \A r \in Requests : stage[r] = "failed" => stage'[r] = "failed"
  PROVE  \A m : Accounted(m) => Accounted(m)'
  BY DEF Accounted

\* Steps that leave memory, trail and tables alone.
LEMMA QuietStep ==
  ASSUME IInv, UNCHANGED <<mem, trail, disk, server, miscounted>>, overlapped => overlapped',
         TypeOK', ClonesFit', ClonesPast', RemainsPast', InFlight' \subseteq InFlight,
         \A r \in Requests : stage[r] = "failed" => stage'[r] = "failed"
  PROVE  IInv'
  <1>1. StartUp' /\ Together'
    BY DEF IInv, StartUp, Together
  <1>2. TablesFit' /\ TablesPast' /\ SeedsOnly' /\ SeedsComeFirst'
    BY DEF IInv, TablesFit, TablesPast, SeedsOnly, SeedsComeFirst
  <1>3. \A m : Accounted(m) => Accounted(m)'
    BY AccountedStays
  <1>4. MemoryIsAudited' /\ PersistedIsAudited'
    BY <1>3 DEF IInv, MemoryIsAudited, PersistedIsAudited
  <1> QED BY <1>1, <1>2, <1>4 DEF IInv

-----------------------------------------------------------------------------
(* The invariant is inductive *)

\* The first start, with empty tables.
LEMMA InitInvariant == Init => IInv
  <1> SUFFICES ASSUME Init PROVE IInv
    OBVIOUS
  <1>1. Empty \in [Aggregates -> Seq(Mutation)] /\ << >> \in Seq(Mutation)
        /\ << >> \in Seq(Seq(Mutation)) /\ Len(<< >>) = 0
        /\ EmptyTables \in [Aggregates -> SUBSET Seq(Mutation)]
    BY DEF Empty, EmptyTables
  <1>2. TypeOK
    <2>1. \A r \in Requests : clone[r] = << >>
      BY DEF Init
    <2>2. clone \in [Requests -> Seq(Seq(Mutation))]
      BY <1>1 DEF Init
    <2>3. \A r \in Requests : Len(clone[r]) <= Len(FlushOrder)
      BY <1>1, <2>1, TheAggregates
    <2>4. stage \in [Requests -> Stages] /\ restarts \in 0..MaxRestarts /\ failures \in 0..MaxFailures
      BY BoundsAssumption DEF Init, Stages
    <2>5. remains \in [Requests -> SUBSET Seq(Mutation)]
      BY DEF Init
    <2> QED BY <1>1, <2>2, <2>3, <2>4, <2>5 DEF Init, TypeOK
  <1>3. InFlight = {} /\ \A r \in Requests : remains[r] = {} /\ ~Flushing(r) /\ stage[r] = "new"
    BY DEF Init, InFlight, Flushing
  <1>4. ClonesFit /\ ClonesPast /\ RemainsPast /\ StartUp /\ Together
    BY <1>3 DEF Init, ClonesFit, ClonesPast, RemainsPast, StartUp, Together
  <1>5. SeedsOnly /\ SeedsComeFirst
    BY DEF Init, SeedsOnly, SeedsComeFirst
  <1>6. \A agg \in Aggregates : mem[agg] = << >> /\ disk[agg] = {}
    BY DEF Init, Empty, EmptyTables
  <1>7. MemoryIsAudited /\ PersistedIsAudited
    BY <1>6 DEF MemoryIsAudited, PersistedIsAudited, ToSet
  <1>8. TablesFit /\ TablesPast
    BY <1>6 DEF Init, TablesFit, TablesPast
  <1> QED BY <1>2, <1>4, <1>5, <1>7, <1>8 DEF IInv

\* A mutation, audited or not, when the event went well or did not: every clone
\* and every table stays in the past.
LEMMA MutationKeeps ==
  ASSUME IInv, server = "up", NEW r \in Requests, NEW agg \in Aggregates, NEW e \in Mutation,
         e.req = r, stage[r] = "new",
         mem' = [mem EXCEPT ![agg] = Append(@, e)],
         trail' = trail \/ trail' = Append(trail, e),
         NEW to \in {"cloning", "failed"}, Answer(r, to),
         to = "cloning" => trail' = Append(trail, e) /\ clone' = [clone EXCEPT ![r] = << >>],
         to = "failed" => ~e.audited /\ clone' = clone,
         broken' \subseteq {"store", "sink", "file"}, failures' \in 0..MaxFailures,
         overlapped' = (overlapped \/ InFlight # {}),
         UNCHANGED <<server, disk, remains, restarts, store, logged, miscounted>>
  PROVE  IInv'
  <1>1. TypeOK
    BY DEF IInv
  <1>2. r # Seed
    BY SeedAssumption
  <1>3. /\ mem' \in [Aggregates -> Seq(Mutation)]
        /\ \A a \in Aggregates : ToSet(mem'[a]) \subseteq ToSet(mem[a]) \cup {e}
        /\ \A a \in Aggregates : mem[a] # << >> => mem'[a] # << >>
        /\ \A a \in Aggregates, s \in Seq(Mutation) :
              IsPrefix(s, mem[a]) => IsPrefix(s, mem'[a])
    BY <1>1, MemoryGrows
  <1>4. /\ trail' \in Seq(Mutation) /\ ToSet(trail) \subseteq ToSet(trail')
        /\ SeedsComeFirst' /\ (trail' = Append(trail, e) => e \in ToSet(trail'))
    <2>1. CASE trail' = Append(trail, e)
      BY <1>2, <2>1, TrailGrows
    <2>2. CASE trail' = trail /\ trail' # Append(trail, e)
      BY <2>2 DEF IInv, TypeOK, SeedsComeFirst
    <2> QED BY <2>1, <2>2
  <1>5. to \in Stages
    BY DEF Stages
  <1>6. stage' \in [Requests -> Stages] /\ \A q \in Requests : stage'[q] = IF q = r THEN to ELSE stage[q]
    BY <1>1, <1>5, OneAnswer
  <1>7. /\ clone' \in [Requests -> Seq(Seq(Mutation))]
        /\ \A q \in Requests : Len(clone'[q]) <= 3
        /\ \A q \in Requests : q # r => clone'[q] = clone[q]
        /\ to = "cloning" => clone'[r] = << >>
    <2>1. << >> \in Seq(Seq(Mutation)) /\ Len(<< >>) = 0
      OBVIOUS
    <2>2. clone \in [Requests -> Seq(Seq(Mutation))]
      BY DEF IInv, TypeOK
    <2>3. \A q \in Requests : Len(clone[q]) <= 3
      BY TheAggregates DEF IInv, TypeOK
    <2>4. CASE to = "failed"
      BY <2>2, <2>3, <2>4
    <2>5. CASE to = "cloning"
      <3>1. clone' \in [Requests -> Seq(Seq(Mutation))]
        BY <2>1, <2>2, <2>5
      <3>2. \A q \in Requests : clone'[q] = IF q = r THEN << >> ELSE clone[q]
        BY <2>2, <2>5
      <3> QED BY <2>1, <2>3, <3>1, <3>2
    <2> QED BY <2>4, <2>5
  <1>8. TypeOK'
    <2>1. overlapped' \in BOOLEAN
      BY DEF IInv, TypeOK
    <2>2. \A q \in Requests : Len(clone'[q]) <= Len(FlushOrder)
      BY <1>7, TheAggregates
    <2>3. /\ server' \in {"seeding", "up", "down"} /\ disk' \in [Aggregates -> SUBSET Seq(Mutation)]
          /\ remains' \in [Requests -> SUBSET Seq(Mutation)] /\ restarts' \in 0..MaxRestarts
          /\ store' \in Stores /\ logged' \subseteq Requests /\ miscounted' \in BOOLEAN
      BY DEF IInv, TypeOK
    <2>4. mem' \in [Aggregates -> Seq(Mutation)] /\ trail' \in Seq(Mutation)
          /\ stage' \in [Requests -> Stages] /\ clone' \in [Requests -> Seq(Seq(Mutation))]
      BY <1>3, <1>4, <1>6, <1>7
    <2>5. broken' \subseteq {"store", "sink", "file"} /\ failures' \in 0..MaxFailures
      OBVIOUS
    <2> QED BY <2>1, <2>2, <2>3, <2>4, <2>5 DEF TypeOK
  <1>9. ClonesFit'
    <2>1. Len(<< >>) < 3
      OBVIOUS
    <2>2. \A q \in Requests : q # r =>
            /\ stage'[q] = "cloning" => Len(clone'[q]) < 3
            /\ stage'[q] \in {"cloned", "waiting", "holding"} => Len(clone'[q]) = 3
      BY <1>6, <1>7 DEF IInv, ClonesFit
    <2>3. /\ stage'[r] = "cloning" => Len(clone'[r]) < 3
          /\ stage'[r] \notin {"cloned", "waiting", "holding"}
      BY <1>6, <1>7, <2>1
    <2> QED BY <2>2, <2>3 DEF ClonesFit
  <1>10. ClonesPast'
    <2> SUFFICES ASSUME NEW q \in Requests, Flushing(q)', NEW i \in 1..Len(clone'[q])
                 PROVE  clone'[q][i] # << >> /\ IsPrefix(clone'[q][i], mem'[FlushOrder[i]])
      BY DEF ClonesPast
    <2>1. q # r
      BY <1>6, <1>7 DEF Flushing
    <2>2. clone'[q] = clone[q] /\ Flushing(q) /\ clone[q] \in Seq(Seq(Mutation)) /\ Len(clone[q]) <= 3
      BY <1>6, <1>7, <2>1, TheAggregates DEF Flushing, IInv, TypeOK
    <2>3. i \in 1..3 /\ clone[q][i] \in Seq(Mutation)
      BY <2>2
    <2>4. FlushOrder[i] \in Aggregates
      BY <2>3, TheAggregates
    <2>5. clone[q][i] # << >> /\ IsPrefix(clone[q][i], mem[FlushOrder[i]])
      BY <2>2 DEF IInv, ClonesPast
    <2> QED BY <1>3, <2>2, <2>3, <2>4, <2>5
  <1>11. RemainsPast'
    <2> SUFFICES ASSUME NEW q \in Requests, NEW log \in remains[q]
                 PROVE  /\ stage'[q] \in {"waiting", "holding"} /\ overlapped'
                        /\ log # << >> /\ IsPrefix(log, mem'["crew_leads"])
      BY DEF RemainsPast
    <2>1. /\ stage[q] \in {"waiting", "holding"} /\ overlapped
          /\ log # << >> /\ IsPrefix(log, mem["crew_leads"]) /\ log \in Seq(Mutation)
      BY DEF IInv, TypeOK, RemainsPast
    <2>2. q # r
      BY <2>1
    <2> QED BY <1>3, <1>6, <2>1, <2>2, TheAggregates
  <1>12. StartUp' /\ Together' /\ TablesFit'
    <2>1. InFlight' \subseteq InFlight \cup {r}
      BY <1>6 DEF InFlight
    <2> QED BY <1>3, <2>1 DEF IInv, StartUp, Together, TablesFit
  <1>13. TablesPast'
    <2>1. \A a \in Aggregates : \A log \in disk[a] : log \in Seq(Mutation)
      BY DEF IInv, TypeOK
    <2> QED BY <1>3, <2>1 DEF IInv, TablesPast
  <1>14. SeedsOnly'
    <2>1. disk # EmptyTables
      BY TheAggregates DEF IInv, StartUp, EmptyTables
    <2> QED BY <2>1 DEF SeedsOnly
  <1>15. MemoryIsAudited' /\ PersistedIsAudited'
    <2>1. \A q \in Requests : stage[q] = "failed" => stage'[q] = "failed"
      BY <1>6
    <2>2. \A m : Accounted(m) => Accounted(m)'
      BY <1>4, <2>1, AccountedStays
    <2>3. Accounted(e)'
      BY <1>4, <1>6 DEF Accounted
    <2> QED BY <1>3, <2>2, <2>3 DEF IInv, MemoryIsAudited, PersistedIsAudited
  <1> QED BY <1>4, <1>8, <1>9, <1>10, <1>11, <1>12, <1>13, <1>14, <1>15 DEF IInv

\* An answer to one request that needs no clone any more.
LEMMA AnswerKeeps ==
  ASSUME IInv, NEW r \in Requests, stage[r] # "failed",
         NEW to \in {"rejected", "crashed", "flushed", "acked"}, Answer(r, to),
         to = "rejected" \/ r \in InFlight, to = "flushed" => r \in InFlight,
         remains' = [remains EXCEPT ![r] = {}],
         broken' \subseteq {"store", "sink", "file"}, failures' \in 0..MaxFailures,
         logged' \subseteq Requests, overlapped' \in BOOLEAN, overlapped => overlapped',
         UNCHANGED <<server, mem, trail, disk, clone, restarts, store, miscounted>>
  PROVE  IInv'
  <1>1. to \in Stages
    BY DEF Stages
  <1>2. stage' \in [Requests -> Stages] /\ \A q \in Requests : stage'[q] = IF q = r THEN to ELSE stage[q]
    BY <1>1, OneAnswer DEF IInv
  <1>3. /\ remains' \in [Requests -> SUBSET Seq(Mutation)]
        /\ \A q \in Requests : remains'[q] = IF q = r THEN {} ELSE remains[q]
    BY DEF IInv, TypeOK
  <1>4. TypeOK'
    BY <1>2, <1>3 DEF IInv, TypeOK
  <1>5. ClonesFit' /\ ClonesPast'
    BY <1>2 DEF IInv, ClonesFit, ClonesPast, Flushing
  <1>6. RemainsPast'
    BY <1>2, <1>3 DEF IInv, RemainsPast
  <1>7. InFlight' \subseteq InFlight
    BY <1>2 DEF InFlight
  <1>8. \A q \in Requests : stage[q] = "failed" => stage'[q] = "failed"
    BY <1>2
  <1> QED BY <1>4, <1>5, <1>6, <1>7, <1>8, QuietStep

\* The next clone is the aggregate as it is now, hence never an empty one.
LEMMA CloneNextKeeps ==
  ASSUME IInv, NEW r \in Requests, CloneNext(r)
  PROVE  IInv'
  <1> DEFINE n == Len(clone[r]) + 1
             next == mem[FlushOrder[n]]
             to == IF Len(clone'[r]) = Len(FlushOrder) THEN "cloned" ELSE "cloning"
  <1>1. /\ clone' = [clone EXCEPT ![r] = Append(@, next)]
        /\ Answer(r, to)
        /\ stage[r] = "cloning"
        /\ UNCHANGED <<server, mem, trail, disk, remains, broken, failures, restarts, store,
                       logged, overlapped, miscounted>>
    BY DEF CloneNext, mutVars, pastVars
  <1>2. clone[r] \in Seq(Seq(Mutation)) /\ n \in 1..3
    BY <1>1 DEF IInv, TypeOK, ClonesFit
  <1>3. FlushOrder[n] \in Aggregates
    BY <1>2, TheAggregates
  <1>4. next \in Seq(Mutation) /\ next # << >>
    <2>1. server = "up"
      BY <1>1 DEF IInv, StartUp, InFlight
    <2> QED BY <1>3, <2>1 DEF IInv, TypeOK, StartUp
  <1>5. IsPrefix(next, mem[FlushOrder[n]])
    BY <1>4, PrefixReflexive
  <1>6. to \in Stages
    BY DEF Stages
  <1>7. stage' \in [Requests -> Stages] /\ \A q \in Requests : stage'[q] = IF q = r THEN to ELSE stage[q]
    <2> HIDE DEF to
    <2> QED BY <1>1, <1>6, OneAnswer DEF IInv
  <1> HIDE DEF next
  <1>8. /\ \A q \in Requests : q # r => clone'[q] = clone[q] /\ stage'[q] = stage[q]
        /\ clone'[r] = Append(clone[r], next)
        /\ stage'[r] = IF Len(clone'[r]) = 3 THEN "cloned" ELSE "cloning"
    BY <1>1, <1>7, TheAggregates DEF IInv, TypeOK
  <1>9. /\ clone'[r] \in Seq(Seq(Mutation)) /\ Len(clone'[r]) = n
        /\ \A i \in 1..n : clone'[r][i] = IF i = n THEN next ELSE clone[r][i]
    BY <1>2, <1>4, <1>8
  <1>10. TypeOK'
    <2>1. clone' \in [Requests -> Seq(Seq(Mutation))]
      BY <1>1, <1>8, <1>9 DEF IInv, TypeOK
    <2>2. \A q \in Requests : Len(clone'[q]) <= Len(FlushOrder)
      <3>1. \A q \in Requests : Len(clone[q]) <= Len(FlushOrder)
        BY DEF IInv, TypeOK
      <3>2. Len(clone'[r]) <= Len(FlushOrder)
        BY <1>2, <1>9, TheAggregates
      <3> QED BY <1>8, <3>1, <3>2
    <2> QED BY <1>1, <1>7, <2>1, <2>2 DEF IInv, TypeOK
  <1>11. ClonesFit'
    <2>1. \A q \in Requests : q # r =>
            /\ stage'[q] = "cloning" => Len(clone'[q]) < 3
            /\ stage'[q] \in {"cloned", "waiting", "holding"} => Len(clone'[q]) = 3
      BY <1>8 DEF IInv, ClonesFit
    <2>2. /\ stage'[r] = "cloning" => Len(clone'[r]) < 3
          /\ stage'[r] \in {"cloned", "waiting", "holding"} => Len(clone'[r]) = 3
      <3>1. Len(clone'[r]) <= 3 /\ Len(clone'[r]) \in Nat
        BY <1>2, <1>9
      <3> QED BY <1>8, <3>1
    <2> QED BY <2>1, <2>2 DEF ClonesFit
  <1>12. ClonesPast'
    <2> SUFFICES ASSUME NEW q \in Requests, Flushing(q)', NEW i \in 1..Len(clone'[q])
                 PROVE  clone'[q][i] # << >> /\ IsPrefix(clone'[q][i], mem[FlushOrder[i]])
      BY <1>1 DEF ClonesPast
    <2>1. CASE q # r
      BY <1>8, <2>1 DEF IInv, ClonesPast, Flushing
    <2>2. CASE q = r /\ i = n
      BY <1>4, <1>5, <1>9, <2>2
    <2>3. CASE q = r /\ i # n
      <3>1. i \in 1..Len(clone[r])
        BY <1>2, <1>9, <2>3
      <3> QED BY <1>1, <1>2, <1>9, <2>3, <3>1 DEF IInv, ClonesPast, Flushing
    <2> QED BY <2>1, <2>2, <2>3
  <1>13. RemainsPast'
    BY <1>1, <1>8 DEF IInv, RemainsPast
  <1>14. InFlight' \subseteq InFlight
    BY <1>1, <1>8 DEF InFlight
  <1>15. \A q \in Requests : stage[q] = "failed" => stage'[q] = "failed"
    BY <1>1, <1>8
  <1> QED BY <1>1, <1>10, <1>11, <1>12, <1>13, <1>14, <1>15, QuietStep

\* The first DELETE of a PostgreSQL transaction, which may have to wait.
LEMMA PgBeginKeeps ==
  ASSUME IInv, NEW r \in Requests, PgBegin(r)
  PROVE  IInv'
  <1>1. PICK to \in {"waiting", "holding"} : Answer(r, to)
    BY DEF PgBegin
  <1>2. /\ stage[r] = "cloned"
        /\ UNCHANGED <<server, mem, trail, disk, clone, remains, broken, failures, restarts, store,
                       logged, overlapped, miscounted>>
    BY DEF PgBegin, mutVars, pastVars
  <1>3. to \in Stages
    BY DEF Stages
  <1>4. stage' \in [Requests -> Stages] /\ \A q \in Requests : stage'[q] = IF q = r THEN to ELSE stage[q]
    BY <1>1, <1>3, OneAnswer DEF IInv
  <1>5. TypeOK'
    BY <1>2, <1>4 DEF IInv, TypeOK
  <1>6. ClonesFit' /\ ClonesPast' /\ RemainsPast'
    BY <1>2, <1>4 DEF IInv, ClonesFit, ClonesPast, RemainsPast, Flushing
  <1>7. InFlight' \subseteq InFlight
    BY <1>2, <1>4 DEF InFlight
  <1>8. \A q \in Requests : stage[q] = "failed" => stage'[q] = "failed"
    BY <1>2, <1>4
  <1> QED BY <1>2, <1>5, <1>6, <1>7, <1>8, QuietStep

\* A sync_all that succeeds: the tables become the clones, and in PostgreSQL
\* the leads of overtaking transactions may stay beside those of the clone.
LEMMA SyncKeeps ==
  ASSUME IInv, NEW r \in Requests, stage[r] \in {"cloned", "waiting", "holding"},
         NEW extra, extra \subseteq remains[r],
         disk' = [agg \in Aggregates |->
                    {Cloned(r)[agg]} \cup (IF agg = "crew_leads" THEN extra ELSE {})],
         \A q \in Requests : \A log \in remains'[q] :
            /\ q # r /\ stage[q] \in {"waiting", "holding"}
            /\ log \in remains[q] \/ log = Cloned(r)["crew_leads"],
         remains' \in [Requests -> SUBSET Seq(Mutation)],
         Answer(r, "flushed"), failures' \in 0..MaxFailures, logged' \subseteq Requests,
         UNCHANGED <<server, mem, trail, clone, broken, restarts, store, overlapped, miscounted>>
  PROVE  IInv'
  <1>1. \A agg \in Aggregates :
           /\ Cloned(r)[agg] \in Seq(Mutation)
           /\ Cloned(r)[agg] # << >> /\ IsPrefix(Cloned(r)[agg], mem[agg])
    BY CompleteClones
  <1>2. r \in InFlight /\ server = "up" /\ stage[r] # "failed"
    BY DEF IInv, StartUp, InFlight
  <1>3. \A log \in extra : /\ overlapped /\ log \in Seq(Mutation)
                           /\ log # << >> /\ IsPrefix(log, mem["crew_leads"])
    BY DEF IInv, TypeOK, RemainsPast
  <1>4. \A agg \in Aggregates :
           /\ Cloned(r)[agg] \in disk'[agg]
           /\ \A log \in disk'[agg] : log = Cloned(r)[agg] \/ (agg = "crew_leads" /\ log \in extra)
    OBVIOUS
  <1>5. \A agg \in Aggregates : \A log \in disk'[agg] :
           log \in Seq(Mutation) /\ log # << >> /\ IsPrefix(log, mem[agg])
    BY <1>1, <1>3, <1>4
  <1>6. "flushed" \in Stages
    BY DEF Stages
  <1>7. /\ stage' \in [Requests -> Stages]
        /\ \A q \in Requests : stage'[q] = IF q = r THEN "flushed" ELSE stage[q]
    BY <1>6, OneAnswer DEF IInv
  <1>8. TypeOK'
    <2>1. disk' \in [Aggregates -> SUBSET Seq(Mutation)]
      BY <1>5
    <2> QED BY <1>7, <2>1 DEF IInv, TypeOK
  <1>9. ClonesFit' /\ ClonesPast'
    BY <1>7 DEF IInv, ClonesFit, ClonesPast, Flushing
  <1>10. RemainsPast'
    <2> SUFFICES ASSUME NEW q \in Requests, NEW log \in remains'[q]
                 PROVE  /\ stage'[q] \in {"waiting", "holding"} /\ overlapped
                        /\ log # << >> /\ IsPrefix(log, mem["crew_leads"])
      BY DEF RemainsPast
    <2>1. /\ q # r /\ stage[q] \in {"waiting", "holding"}
          /\ log \in remains[q] \/ log = Cloned(r)["crew_leads"]
      OBVIOUS
    <2>2. stage'[q] \in {"waiting", "holding"}
      BY <1>7, <2>1
    <2>3. overlapped
      <3>1. q \in InFlight
        BY <2>1 DEF InFlight
      <3> QED BY <1>2, <2>1, <3>1 DEF IInv, Together
    <2>4. log # << >> /\ IsPrefix(log, mem["crew_leads"])
      BY <1>1, <2>1, TheAggregates DEF IInv, RemainsPast
    <2> QED BY <2>2, <2>3, <2>4
  <1>11. StartUp' /\ Together'
    <2>1. InFlight' \subseteq InFlight
      BY <1>2, <1>7 DEF InFlight
    <2>2. \A agg \in Aggregates : disk'[agg] # {}
      BY <1>4
    <2> QED BY <1>2, <2>1, <2>2 DEF IInv, StartUp, Together
  <1>12. TablesFit'
    <2>1. \A agg \in Aggregates : disk'[agg] # {}
      BY <1>4
    <2>2. ASSUME NEW agg \in Aggregates, agg \in Rosters \/ ~overlapped,
                 NEW log \in disk'[agg], NEW other \in disk'[agg]
          PROVE  log = other
      BY <1>3, <1>4, <2>2 DEF Rosters
    <2> QED BY <1>5, <2>1, <2>2 DEF TablesFit
  <1>13. TablesPast'
    BY <1>5 DEF TablesPast
  <1>14. SeedsOnly' /\ SeedsComeFirst'
    <2>1. disk' # EmptyTables
      BY <1>4, TheAggregates DEF EmptyTables
    <2> QED BY <2>1 DEF IInv, SeedsOnly, SeedsComeFirst
  <1>15. MemoryIsAudited' /\ PersistedIsAudited'
    <2>1. \A q \in Requests : stage[q] = "failed" => stage'[q] = "failed"
      BY <1>2, <1>7
    <2>2. \A m : Accounted(m) => Accounted(m)'
      BY <2>1, AccountedStays
    <2>3. \A agg \in Aggregates : \A log \in disk'[agg] : ToSet(log) \subseteq ToSet(mem[agg])
      BY <1>5, PrefixElements DEF IInv, TypeOK
    <2> QED BY <2>2, <2>3 DEF IInv, MemoryIsAudited, PersistedIsAudited
  <1> QED BY <1>8, <1>9, <1>10, <1>11, <1>12, <1>13, <1>14, <1>15 DEF IInv

\* What a statement that fails by itself counts, or one that does not.
LEMMA FailuresCount ==
  ASSUME TypeOK, StatementFails \/ failures' = failures
  PROVE  failures' \in 0..MaxFailures
  BY BoundsAssumption DEF TypeOK, StatementFails

\* A PostgreSQL transaction that is committed, whatever its client hears.
LEMMA PgWriteKeeps ==
  ASSUME IInv, NEW r \in Requests, PgWrite(r), Answer(r, "flushed"),
         failures' \in 0..MaxFailures, logged' \subseteq Requests,
         UNCHANGED <<server, mem, trail, clone, broken, restarts, store, overlapped, miscounted>>
  PROVE  IInv'
  <1> DEFINE extra == remains[r]
             leads == Cloned(r)["crew_leads"]
  <1>1. stage[r] \in {"waiting", "holding"}
    BY DEF PgWrite, Deleted
  <1>2. leads \in Seq(Mutation)
    BY <1>1, CompleteClones, TheAggregates
  <1>3. disk' = [agg \in Aggregates |->
                   {Cloned(r)[agg]} \cup (IF agg = "crew_leads" THEN extra ELSE {})]
    BY DEF PgWrite
  <1>4. remains' = [q \in Requests |->
                      IF q # r /\ stage[q] \in {"waiting", "holding"}
                      THEN (remains[q] \cap remains[r]) \cup {leads} ELSE {}]
    BY DEF PgWrite
  <1>5. \A q \in Requests : \A log \in remains'[q] :
           /\ q # r /\ stage[q] \in {"waiting", "holding"}
           /\ log \in remains[q] \/ log = leads
    BY <1>4
  <1>6. remains' \in [Requests -> SUBSET Seq(Mutation)]
    <2>1. \A q \in Requests : remains[q] \subseteq Seq(Mutation)
      BY DEF IInv, TypeOK
    <2> QED BY <1>2, <1>4, <2>1
  <1>7. extra \subseteq remains[r] /\ stage[r] \in {"cloned", "waiting", "holding"}
    BY <1>1
  <1> HIDE DEF extra
  <1> QED BY <1>3, <1>5, <1>6, <1>7, SyncKeeps

\* The steps of flush_to_db, and the answer.
LEMMA FlushKeeps ==
  ASSUME IInv, NEW r \in Requests, Flush(r)
  PROVE  IInv'
  <1>1. TypeOK
    BY DEF IInv
  <1>2. \A q \in Requests : stage[q] \notin {"waiting", "holding"} => remains[q] = {}
    BY DEF IInv, RemainsPast
  <1>3. CASE CloneNext(r)
    BY <1>3, CloneNextKeeps
  <1>4. CASE SqliteSync(r)
    <2>1. /\ stage[r] = "cloned" /\ disk' = [agg \in Aggregates |-> {Cloned(r)[agg]}]
          /\ Answer(r, "flushed")
          /\ UNCHANGED <<server, mem, trail, clone, remains, broken, failures, restarts, store,
                         logged, overlapped, miscounted>>
      BY <1>4 DEF SqliteSync, mutVars, pastVars
    <2> DEFINE extra == {}
    <2>2. disk' = [agg \in Aggregates |->
                     {Cloned(r)[agg]} \cup (IF agg = "crew_leads" THEN extra ELSE {})]
      BY <2>1
    <2>3. \A q \in Requests : \A log \in remains'[q] :
             q # r /\ stage[q] \in {"waiting", "holding"} /\ log \in remains[q]
      BY <1>2, <2>1
    <2>4. /\ remains' \in [Requests -> SUBSET Seq(Mutation)] /\ logged' \subseteq Requests
          /\ failures' \in 0..MaxFailures /\ extra \subseteq remains[r]
      BY <1>1, <2>1 DEF TypeOK
    <2>5. stage[r] \in {"cloned", "waiting", "holding"}
      BY <2>1
    <2> HIDE DEF extra
    <2> QED BY <2>1, <2>2, <2>3, <2>4, <2>5, SyncKeeps
  <1>5. CASE SqlitePanic(r)
    <2>1. /\ stage[r] = "cloned" /\ Answer(r, "crashed")
          /\ broken' \subseteq {"store", "sink", "file"} /\ (StatementFails \/ failures' = failures)
          /\ UNCHANGED <<server, mem, trail, disk, clone, remains, restarts, store,
                         logged, overlapped, miscounted>>
      BY <1>1, <1>5 DEF SqlitePanic, mutVars, pastVars, TypeOK
    <2>2. remains' = [remains EXCEPT ![r] = {}] /\ r \in InFlight
      BY <1>1, <1>2, <2>1 DEF InFlight, TypeOK
    <2>3. failures' \in 0..MaxFailures
      BY <1>1, <2>1, FailuresCount
    <2> QED BY <1>1, <2>1, <2>2, <2>3, AnswerKeeps DEF TypeOK
  <1>6. CASE PgBegin(r)
    BY <1>6, PgBeginKeeps
  <1>7. CASE PgCommit(r)
    BY <1>1, <1>7, PgWriteKeeps DEF PgCommit, mutVars, pastVars, TypeOK
  <1>8. CASE PgCommitUnheard(r)
    <2>1. failures' \in 0..MaxFailures
      BY <1>1, <1>8, FailuresCount DEF PgCommitUnheard
    <2> QED BY <1>1, <1>8, <2>1, PgWriteKeeps DEF PgCommitUnheard, mutVars, TypeOK
  <1>9. CASE PgRollback(r)
    <2>1. failures' \in 0..MaxFailures
      BY <1>1, <1>9, FailuresCount DEF PgRollback
    <2>2. r \in InFlight
      BY <1>9 DEF PgRollback, InFlight
    <2> QED BY <1>1, <1>9, <2>1, <2>2, AnswerKeeps DEF PgRollback, mutVars, TypeOK
  <1>10. CASE Acknowledge(r)
    <2>1. /\ stage[r] = "flushed" /\ Answer(r, "acked")
          /\ UNCHANGED <<server, mem, trail, disk, clone, remains, broken, failures, restarts, store,
                         logged, overlapped, miscounted>>
      BY <1>10 DEF Acknowledge, mutVars, pastVars
    <2>2. remains' = [remains EXCEPT ![r] = {}] /\ r \in InFlight
      BY <1>1, <1>2, <2>1 DEF InFlight, TypeOK
    <2> QED BY <1>1, <2>1, <2>2, AnswerKeeps DEF TypeOK
  <1> QED BY <1>3, <1>4, <1>5, <1>6, <1>7, <1>8, <1>9, <1>10 DEF Flush

\* The service call of a request.
LEMMA ArriveKeeps ==
  ASSUME IInv, NEW r \in Requests, Arrive(r)
  PROVE  IInv'
  <1>1. server = "up" /\ TypeOK /\ overlapped' = (overlapped \/ InFlight # {})
    BY DEF Arrive, IInv
  <1>2. PICK agg \in Aggregates, op \in Ops :
           Mutate(r, agg, op) \/ MutateFails(r, agg, op) \/ Reject(r, agg, op)
    <2>1. PICK call \in Calls :
             \/ Mutate(r, call[1], call[2])
             \/ MutateFails(r, call[1], call[2])
             \/ Reject(r, call[1], call[2])
      BY DEF Arrive
    <2>2. call[1] \in Aggregates /\ call[2] \in Ops
      BY CallsAssumption
    <2> QED BY <2>1, <2>2
  <1>3. CASE Mutate(r, agg, op)
    <2> DEFINE e == [req |-> r, agg |-> agg, op |-> op, audited |-> TRUE]
    <2>1. e \in Mutation /\ e.req = r
      BY DEF Mutation
    <2>2. /\ stage[r] = "new" /\ mem' = [mem EXCEPT ![agg] = Append(@, e)]
          /\ trail' = Append(trail, e) /\ clone' = [clone EXCEPT ![r] = << >>]
          /\ Answer(r, "cloning")
          /\ UNCHANGED <<server, disk, remains, broken, failures, restarts, store, logged, miscounted>>
      BY <1>3 DEF Mutate
    <2> HIDE DEF e
    <2>3. broken' \subseteq {"store", "sink", "file"} /\ failures' \in 0..MaxFailures
      BY <1>1, <2>2 DEF TypeOK
    <2> QED BY <1>1, <2>1, <2>2, <2>3, MutationKeeps
  <1>4. CASE MutateFails(r, agg, op)
    <2> DEFINE e == [req |-> r, agg |-> agg, op |-> op, audited |-> FALSE]
    <2>1. e \in Mutation /\ e.req = r /\ ~e.audited
      BY DEF Mutation
    <2>2. /\ stage[r] = "new" /\ mem' = [mem EXCEPT ![agg] = Append(@, e)]
          /\ trail' = trail \/ trail' = Append(trail, e)
          /\ Answer(r, "failed") /\ (StatementFails \/ failures' = failures)
          /\ UNCHANGED <<server, disk, clone, remains, restarts, store, logged, miscounted>>
      BY <1>4 DEF MutateFails
    <2> HIDE DEF e
    <2>3. broken' \subseteq {"store", "sink", "file"}
      BY <1>1, <1>4 DEF TypeOK, MutateFails
    <2>4. failures' \in 0..MaxFailures
      BY <1>1, <2>2, FailuresCount
    <2> QED BY <1>1, <2>1, <2>2, <2>3, <2>4, MutationKeeps
  <1>5. CASE Reject(r, agg, op)
    <2>1. /\ stage[r] = "new" /\ Answer(r, "rejected")
          /\ UNCHANGED <<server, mem, trail, disk, clone, remains, broken, failures, restarts, store,
                         logged, miscounted>>
      BY <1>5 DEF Reject, mutVars
    <2>2. remains' = [remains EXCEPT ![r] = {}]
      BY <1>1, <2>1 DEF IInv, RemainsPast, TypeOK
    <2>3. overlapped' \in BOOLEAN /\ (overlapped => overlapped')
      BY <1>1 DEF TypeOK
    <2> QED BY <1>1, <2>1, <2>2, <2>3, AnswerKeeps DEF TypeOK
  <1> QED BY <1>2, <1>3, <1>4, <1>5

\* Seeding happens over empty tables, unless the COUNT failed.
LEMMA SeedNextKeeps ==
  ASSUME IInv, SeedNext
  PROVE  IInv'
  <1>1. /\ server = "seeding"
        /\ UNCHANGED <<server, disk, stage, clone, remains, broken, failures, restarts, store,
                       logged, overlapped, miscounted>>
    BY DEF SeedNext, pastVars
  <1>2. PICK i \in 1..Len(FlushOrder) :
          LET seed == [req |-> Seed, agg |-> FlushOrder[i], op |-> "Create", audited |-> TRUE]
          IN  mem' = [mem EXCEPT ![FlushOrder[i]] = <<seed>>] /\ trail' = Append(trail, seed)
    BY DEF SeedNext
  <1> DEFINE agg == FlushOrder[i]
             seed == [req |-> Seed, agg |-> agg, op |-> "Create", audited |-> TRUE]
  <1>3. agg \in Aggregates
    BY TheAggregates
  <1>4. mem' = [mem EXCEPT ![agg] = <<seed>>] /\ trail' = Append(trail, seed)
    BY <1>2
  <1> HIDE DEF agg
  <1>5. seed \in Mutation /\ seed.req = Seed
    BY <1>3 DEF Mutation, Ops
  <1> HIDE DEF seed
  <1>6. disk = EmptyTables \/ miscounted
    BY <1>1 DEF IInv, StartUp
  <1>7. /\ trail' \in Seq(Mutation) /\ ToSet(trail') = ToSet(trail) \cup {seed}
        /\ SeedsComeFirst' /\ SeedsOnly'
    <2>1. /\ trail' \in Seq(Mutation) /\ ToSet(trail') = ToSet(trail) \cup {seed}
          /\ SeedsComeFirst' /\ (disk = EmptyTables => \A j \in DOMAIN trail' : trail'[j].req = Seed)
      BY <1>1, <1>4, <1>5, <1>6, TrailGrows
    <2> QED BY <1>1, <2>1 DEF SeedsOnly
  <1>8. /\ mem' \in [Aggregates -> Seq(Mutation)]
        /\ \A a \in Aggregates : mem'[a] = IF a = agg THEN <<seed>> ELSE mem[a]
    BY <1>3, <1>4, <1>5 DEF IInv, TypeOK
  <1>9. TypeOK'
    BY <1>1, <1>7, <1>8 DEF IInv, TypeOK
  <1>10. InFlight = {}
    BY <1>1 DEF IInv, StartUp
  <1>11. \A r \in Requests : ~Flushing(r) /\ stage[r] \notin {"waiting", "holding"}
    BY <1>10 DEF InFlight, Flushing
  <1>12. ClonesFit' /\ ClonesPast' /\ RemainsPast' /\ StartUp' /\ Together'
    BY <1>1, <1>10, <1>11
       DEF IInv, ClonesFit, ClonesPast, RemainsPast, StartUp, Together, Flushing, InFlight
  <1>13. TablesFit' /\ TablesPast'
    BY <1>1 DEF IInv, TablesFit, TablesPast
  <1>14. MemoryIsAudited' /\ PersistedIsAudited'
    <2>1. ToSet(<<seed>>) = {seed}
      BY DEF ToSet
    <2>2. \A m : Accounted(m) => Accounted(m)'
      BY <1>1, <1>7, AccountedStays
    <2>3. Accounted(seed)'
      BY <1>7 DEF Accounted
    <2> QED BY <1>1, <1>8, <2>1, <2>2, <2>3 DEF IInv, MemoryIsAudited, PersistedIsAudited
  <1> QED BY <1>7, <1>9, <1>12, <1>13, <1>14 DEF IInv

\* The seeded world is written whole.
LEMMA SyncSeedsKeeps ==
  ASSUME IInv, SyncSeeds
  PROVE  IInv'
  <1>1. /\ server = "seeding" /\ server' = "up" /\ disk' = [agg \in Aggregates |-> {mem[agg]}]
        /\ \A agg \in Aggregates : mem[agg] # << >>
        /\ UNCHANGED <<mem, trail, stage, clone, remains, broken, failures, restarts, store,
                       logged, overlapped, miscounted>>
    BY DEF SyncSeeds, mutVars, pastVars
  <1>2. InFlight = {}
    BY <1>1 DEF IInv, StartUp
  <1>3. \A agg \in Aggregates : disk'[agg] = {mem[agg]} /\ mem[agg] \in Seq(Mutation)
    BY <1>1 DEF IInv, TypeOK
  <1>4. TypeOK'
    <2>1. disk' \in [Aggregates -> SUBSET Seq(Mutation)]
      BY <1>1, <1>3
    <2> QED BY <1>1, <2>1 DEF IInv, TypeOK
  <1>5. ClonesFit' /\ ClonesPast' /\ RemainsPast'
    BY <1>1 DEF IInv, ClonesFit, ClonesPast, RemainsPast, Flushing
  <1>6. StartUp' /\ Together'
    BY <1>1, <1>2, <1>3 DEF IInv, StartUp, Together, InFlight
  <1>7. SeedsOnly' /\ SeedsComeFirst'
    <2>1. disk' # EmptyTables
      BY <1>3, TheAggregates DEF EmptyTables
    <2> QED BY <1>1, <2>1 DEF IInv, SeedsOnly, SeedsComeFirst
  <1>8. TablesFit'
    BY <1>1, <1>3 DEF TablesFit
  <1>9. TablesPast'
    BY <1>1, <1>3, PrefixReflexive DEF TablesPast
  <1>10. MemoryIsAudited' /\ PersistedIsAudited'
    <2>1. \A m : Accounted(m) => Accounted(m)'
      BY <1>1, AccountedStays
    <2> QED BY <1>1, <1>3, <2>1 DEF IInv, MemoryIsAudited, PersistedIsAudited
  <1> QED BY <1>4, <1>5, <1>6, <1>7, <1>8, <1>9, <1>10 DEF IInv

\* What is loaded is the log that each table holds.
LEMMA LoadedTables ==
  ASSUME IInv, ~is_first_run(disk), Restorable(disk)
  PROVE  /\ Loaded(disk) \in [Aggregates -> Seq(Mutation)]
         /\ \A agg \in Aggregates : disk[agg] = {Loaded(disk)[agg]} /\ Loaded(disk)[agg] # << >>
  <1>1. \A agg \in Aggregates : disk[agg] # {}
    <2>1. disk # EmptyTables
      BY TheAggregates DEF is_first_run, EmptyTables
    <2> QED BY <2>1 DEF IInv, TablesFit
  <1>2. \A agg \in Aggregates : \A log, other \in disk[agg] : log = other
    <2>1. \A log, other \in disk["crew_leads"] : log = other
      BY DEF Restorable
    <2> QED BY <2>1 DEF IInv, TablesFit, Rosters
  <1>3. \A agg \in Aggregates : Loaded(disk)[agg] \in disk[agg]
    BY <1>1 DEF Loaded
  <1>4. \A agg \in Aggregates : disk[agg] = {Loaded(disk)[agg]}
    BY <1>2, <1>3
  <1>5. \A agg \in Aggregates : Loaded(disk)[agg] \in Seq(Mutation) /\ Loaded(disk)[agg] # << >>
    BY <1>3 DEF IInv, TypeOK, TablesFit
  <1>6. Loaded(disk) \in [Aggregates -> Seq(Mutation)]
    BY <1>5 DEF Loaded
  <1> QED BY <1>4, <1>5, <1>6

\* A kill: the memory becomes what the tables hold, or nothing.
LEMMA RestartKeeps ==
  ASSUME IInv, NEW aggregates, NEW mode, RestartWith(aggregates, mode),
         \/ mode \in {"seeding", "down"} /\ aggregates = Empty
         \/ mode = "up" /\ aggregates = Loaded(disk) /\ ~is_first_run(disk) /\ Restorable(disk),
         mode = "seeding" => disk = EmptyTables \/ miscounted',
         failures' \in 0..MaxFailures, miscounted' \in BOOLEAN, miscounted => miscounted'
  PROVE  IInv'
  <1>1. /\ UNCHANGED <<trail, disk, clone, store, logged, overlapped>>
        /\ stage' = [r \in Requests |-> IF r \in InFlight THEN "lost" ELSE stage[r]]
        /\ remains' = [r \in Requests |-> {}]
        /\ server' = mode /\ mem' = aggregates
        /\ broken' = {} /\ restarts < MaxRestarts /\ restarts' = restarts + 1
    BY DEF RestartWith
  <1>2. \A r \in Requests :
           /\ stage'[r] \in Stages /\ ~Flushing(r)' /\ r \notin InFlight' /\ remains'[r] = {}
           /\ stage'[r] \notin {"cloning", "cloned", "waiting", "holding"}
           /\ stage[r] = "failed" => stage'[r] = "failed"
    BY <1>1 DEF IInv, TypeOK, Flushing, InFlight, Stages
  <1>3. Empty \in [Aggregates -> Seq(Mutation)]
    BY DEF Empty
  <1>4. mem' \in [Aggregates -> Seq(Mutation)]
    <2>1. CASE aggregates = Empty
      BY <1>1, <1>3, <2>1
    <2>2. CASE aggregates = Loaded(disk) /\ ~is_first_run(disk) /\ Restorable(disk)
      BY <1>1, <2>2, LoadedTables
    <2> QED BY <2>1, <2>2
  <1>5. TypeOK'
    <2>1. stage' \in [Requests -> Stages] /\ remains' \in [Requests -> SUBSET Seq(Mutation)]
      BY <1>1, <1>2
    <2>2. restarts' \in 0..MaxRestarts
      BY <1>1, BoundsAssumption DEF IInv, TypeOK
    <2> QED BY <1>1, <1>4, <2>1, <2>2 DEF IInv, TypeOK
  <1>6. InFlight' = {}
    BY <1>2 DEF InFlight
  <1>7. ClonesFit' /\ ClonesPast' /\ RemainsPast' /\ Together'
    BY <1>2, <1>6 DEF ClonesFit, ClonesPast, RemainsPast, Together
  <1>8. server' = "up" => \A agg \in Aggregates :
           disk[agg] = {mem'[agg]} /\ mem'[agg] # << >> /\ mem'[agg] \in Seq(Mutation)
    BY <1>1, <1>4, LoadedTables
  <1>9. StartUp' /\ TablesPast'
    BY <1>1, <1>6, <1>8, PrefixReflexive DEF StartUp, TablesPast
  <1>10. TablesFit' /\ SeedsOnly' /\ SeedsComeFirst'
    BY <1>1 DEF IInv, TablesFit, SeedsOnly, SeedsComeFirst
  <1>11. MemoryIsAudited' /\ PersistedIsAudited'
    <2>1. \A m : Accounted(m) => Accounted(m)'
      BY <1>1, <1>2, AccountedStays
    <2>2. PersistedIsAudited'
      BY <1>1, <2>1 DEF IInv, PersistedIsAudited
    <2>3. MemoryIsAudited'
      <3>1. CASE server' = "up"
        BY <1>1, <1>8, <2>2, <3>1 DEF MemoryIsAudited, PersistedIsAudited
      <3>2. CASE server' # "up"
        <4>1. \A agg \in Aggregates : mem'[agg] = << >>
          BY <1>1, <3>2 DEF Empty
        <4> QED BY <4>1 DEF MemoryIsAudited, ToSet
      <3> QED BY <3>1, <3>2
    <2> QED BY <2>2, <2>3
  <1> QED BY <1>5, <1>7, <1>9, <1>10, <1>11 DEF IInv

\* The four steps of start-up.
LEMMA StartKeeps ==
  ASSUME IInv, Start
  PROVE  IInv'
  <1>1. TypeOK
    BY DEF IInv
  <1>2. CASE SeedNext
    BY <1>2, SeedNextKeeps
  <1>3. CASE SyncSeeds
    BY <1>3, SyncSeedsKeeps
  <1>4. CASE Restart
    <2>1. failures' \in 0..MaxFailures /\ miscounted' = miscounted /\ miscounted' \in BOOLEAN
      BY <1>1, <1>4 DEF Restart, TypeOK
    <2>2. is_first_run(disk) => disk = EmptyTables
      BY TheAggregates DEF is_first_run, IInv, TablesFit
    <2>3. CASE is_first_run(disk) /\ RestartWith(Empty, "seeding")
      BY <2>1, <2>2, <2>3, RestartKeeps
    <2>4. CASE ~is_first_run(disk) /\ Restorable(disk) /\ RestartWith(Loaded(disk), "up")
      BY <2>1, <2>4, RestartKeeps
    <2>5. CASE ~is_first_run(disk) /\ ~Restorable(disk) /\ RestartWith(Empty, "down")
      BY <2>1, <2>5, RestartKeeps
    <2> QED BY <1>4, <2>3, <2>4, <2>5 DEF Restart
  <1>5. CASE RestartMiscounted
    <2>1. failures' \in 0..MaxFailures
      BY <1>1, <1>5, FailuresCount DEF RestartMiscounted
    <2> QED BY <1>5, <2>1, RestartKeeps DEF RestartMiscounted
  <1> QED BY <1>2, <1>3, <1>4, <1>5 DEF Start

\* Every step of start-up, requests, flushes and kills keeps the invariant.
LEMMA NextInvariant == IInv /\ [Next]_vars => IInv'
  <1> SUFFICES ASSUME IInv, [Next]_vars PROVE IInv'
    OBVIOUS
  <1>1. ASSUME NEW r \in Requests, Arrive(r) PROVE IInv'
    BY <1>1, ArriveKeeps
  <1>2. ASSUME NEW r \in Requests, Flush(r) PROVE IInv'
    BY <1>2, FlushKeeps
  <1>3. CASE Start
    BY <1>3, StartKeeps
  <1>4. CASE UNCHANGED vars
    <2>1. UNCHANGED <<server, mem, trail, disk, stage, clone, remains, broken, failures, restarts,
                      store, logged, overlapped, miscounted>>
      BY <1>4 DEF vars, mutVars, pastVars
    <2>2. TypeOK' /\ ClonesFit' /\ ClonesPast' /\ RemainsPast'
      BY <2>1 DEF IInv, TypeOK, ClonesFit, ClonesPast, RemainsPast, Flushing
    <2>3. InFlight' = InFlight
      BY <2>1 DEF InFlight
    <2> QED BY <2>1, <2>2, <2>3, QuietStep
  <1> QED BY <1>1, <1>2, <1>3, <1>4 DEF Next

-----------------------------------------------------------------------------
(* Theorems *)

\* The inductive invariant: the clones under way and the tables are earlier
\* states of the memory, only requests that overlap merge the leads, what the
\* memory holds is audited or was done by a request that failed, and the tables
\* are filled all together, before the first request.
THEOREM WriteThroughInvariant == Spec => []IInv
  <1> QED BY InitInvariant, NextInvariant, PTL DEF Spec

\* The state of flush_to_db and of start-up keeps its types.
THEOREM WriteThroughTypeCorrect == Spec => []TypeOK
  <1>1. IInv => TypeOK
    BY DEF IInv
  <1> QED BY <1>1, WriteThroughInvariant, PTL

\* Whatever order the flushes are written in, whichever of their statements
\* fail, and wherever the process is killed, each table holds states its
\* aggregate was once in, and but one of them unless transactions overtook one
\* another on the crew leads.
THEOREM DiskAlwaysPastMemory == Spec => []DiskIsPastMemory
  <1>1. ASSUME IInv PROVE DiskIsPastMemory
    <2>1. server = "up" => \A agg \in Aggregates : \A log \in disk[agg] : IsPrefix(log, mem[agg])
      BY <1>1 DEF IInv, TablesPast
    <2>2. ASSUME server = "up", NEW agg \in Aggregates, agg \in Rosters \/ ~overlapped
          PROVE  \E log \in disk[agg] : disk[agg] = {log}
      <3>1. disk[agg] # {} /\ \A log, other \in disk[agg] : log = other
        BY <1>1, <2>2 DEF IInv, StartUp, TablesFit
      <3>2. PICK log \in disk[agg] : TRUE
        BY <3>1
      <3>3. disk[agg] = {log}
        BY <3>1, <3>2
      <3> QED BY <3>2, <3>3
    <2> QED BY <2>1, <2>2 DEF DiskIsPastMemory
  <1> QED BY <1>1, WriteThroughInvariant, PTL

\* Nothing is in the tables whose event is not in the audit trail, although a
\* flush writes the mutations of other requests too, but for the mutations of
\* requests whose append failed.
THEOREM PersistedAlwaysAudited == Spec => []PersistedIsAudited
  <1>1. IInv => PersistedIsAudited
    BY DEF IInv
  <1> QED BY <1>1, WriteThroughInvariant, PTL

\* However often the first run is killed, no seed follows a request's mutation,
\* until a COUNT fails.
THEOREM SeedsAlwaysFirst == Spec => []SeedsComeFirst
  <1>1. IInv => SeedsComeFirst
    BY DEF IInv
  <1> QED BY <1>1, WriteThroughInvariant, PTL

-----------------------------------------------------------------------------
(* Requests one after the other *)

\* A request that has not arrived has no event.
NewIsUnheard ==
    \A r \in Requests : stage[r] = "new" => \A i \in DOMAIN trail : trail[i].req # r

\* What a request in flight has done is still in memory.
OwnInMemory ==
    \A i \in DOMAIN trail :
        trail[i].req \in InFlight => trail[i] \in ToSet(mem[trail[i].agg])

\* The clones of the only request in flight cannot be out of date.
FreshClones ==
    \A r \in Requests : Flushing(r) =>
        \A i \in 1..Len(clone[r]) : clone[r][i] = mem[FlushOrder[i]]

TablesAreMemory == \A agg \in Aggregates : disk[agg] = {mem[agg]}

WrittenClones ==
    \A r \in Requests : stage[r] = "flushed" /\ r \notin logged => TablesAreMemory

\* Who was the last to change a table that is not the memory.
Behind(agg) == Last(mem[agg]).req \in Unsaved \cup {r \in Requests : Flushing(r)}

DiskCurrent ==
    server = "up" => \A agg \in Aggregates : disk[agg] = {mem[agg]} \/ Behind(agg)

AckedOnTables ==
    \A i \in DOMAIN trail :
        trail[i].req \in Requests \ logged /\ stage[trail[i].req] = "acked" => Durable(trail[i])

SerialInv ==
    /\ IInv /\ NewIsUnheard /\ OwnInMemory
    /\ Serial => FreshClones /\ WrittenClones /\ DiskCurrent /\ AckedOnTables

\* Events name a request, or the seed, and the aggregate they changed.
LEMMA EventTypes ==
  ASSUME IInv
  PROVE  \A i \in DOMAIN trail :
            /\ trail[i] \in Mutation
            /\ trail[i].req \in Requests \cup {Seed} /\ trail[i].agg \in Aggregates
  <1>1. trail \in Seq(Mutation)
    BY DEF IInv, TypeOK
  <1>2. \A i \in DOMAIN trail : trail[i] \in Mutation
    BY <1>1
  <1>3. \A m \in Mutation : m.req \in Requests \cup {Seed} /\ m.agg \in Aggregates
    BY DEF Mutation
  <1> QED BY <1>2, <1>3

\* Unless another request changes them, the clones are the memory.
LEMMA ClonedIsMemory ==
  ASSUME IInv, FreshClones, NEW r \in Requests, stage[r] \in {"cloned", "waiting", "holding"}
  PROVE  \A agg \in Aggregates : Cloned(r)[agg] = mem[agg]
  <1>1. Len(clone[r]) = 3 /\ \A i \in 1..3 : clone[r][i] = mem[FlushOrder[i]]
    BY DEF IInv, ClonesFit, FreshClones, Flushing
  <1> DEFINE position(agg) == CHOOSE i \in 1..Len(FlushOrder) : FlushOrder[i] = agg
  <1>2. ASSUME NEW agg \in Aggregates
        PROVE  position(agg) \in 1..3 /\ FlushOrder[position(agg)] = agg
    <2>1. \E i \in 1..Len(FlushOrder) : FlushOrder[i] = agg
      BY TheAggregates
    <2> QED BY <2>1, TheAggregates
  <1>3. \A agg \in Aggregates : Cloned(r)[agg] = clone[r][position(agg)]
    BY DEF Cloned
  <1> HIDE DEF position
  <1> QED BY <1>1, <1>2, <1>3

\* What was durable stays so when the tables become the memory.
LEMMA DurableStays ==
  ASSUME SerialInv, AckedOnTables, UNCHANGED <<mem, trail>>, logged \subseteq logged',
         \/ disk' = disk
         \/ server = "up" /\ \A agg \in Aggregates : disk'[agg] = {mem[agg]},
         NEW i \in DOMAIN trail,
         trail[i].req \in Requests \ logged', stage[trail[i].req] = "acked"
  PROVE  Durable(trail[i])'
  <1>1. Durable(trail[i]) /\ trail[i].agg \in Aggregates
    BY EventTypes DEF AckedOnTables, SerialInv
  <1>2. CASE disk' = disk
    BY <1>1, <1>2 DEF Durable
  <1>3. CASE server = "up" /\ \A agg \in Aggregates : disk'[agg] = {mem[agg]}
    <2>1. PICK log \in disk[trail[i].agg] : trail[i] \in ToSet(log)
      BY <1>1 DEF Durable
    <2>2. log \in Seq(Mutation) /\ IsPrefix(log, mem[trail[i].agg]) /\ mem[trail[i].agg] \in Seq(Mutation)
      BY <1>1, <1>3 DEF SerialInv, IInv, TypeOK, TablesPast
    <2>3. ToSet(log) \subseteq ToSet(mem[trail[i].agg])
      BY <2>2, PrefixElements
    <2>4. mem[trail[i].agg] \in disk'[trail[i].agg]
      BY <1>1, <1>3
    <2> QED BY <2>1, <2>3, <2>4 DEF Durable
  <1> QED BY <1>2, <1>3

\* A step of flush_to_db, or the answer.  Either the tables become the memory,
\* or they stay, and then the request is counted among those that are unsaved.
LEMMA FlushStepStaysSerial ==
  ASSUME SerialInv, IInv', NEW r \in InFlight,
         NEW to \in {"cloning", "cloned", "waiting", "holding", "flushed", "acked", "crashed"},
         Answer(r, to), UNCHANGED <<server, mem, trail>>, logged \subseteq logged',
         Serial' => Serial,
         Serial /\ to \in {"cloning", "cloned", "waiting", "holding"} =>
            \A i \in 1..Len(clone'[r]) : clone'[r][i] = mem[FlushOrder[i]],
         Serial =>
            \/ to # "acked" /\ \A agg \in Aggregates : disk'[agg] = {mem[agg]}
            \/ /\ disk' = disk
               /\ to = "flushed" => r \in logged'
               /\ to = "acked" => stage[r] = "flushed" /\ logged' = logged,
         \A q \in Requests : q # r => clone'[q] = clone[q]
  PROVE  SerialInv'
  <1>1. r \in Requests /\ to \in Stages /\ to # "new" /\ stage[r] # "new" /\ server = "up"
    BY DEF InFlight, Stages, SerialInv, IInv, StartUp
  <1>2. \A q \in Requests : stage'[q] = IF q = r THEN to ELSE stage[q]
    BY <1>1, OneAnswer DEF SerialInv, IInv
  <1>3. InFlight' \subseteq InFlight
    BY <1>2 DEF InFlight
  <1>4. NewIsUnheard' /\ OwnInMemory'
    BY <1>1, <1>2, <1>3 DEF SerialInv, NewIsUnheard, OwnInMemory
  <1>5. ASSUME Serial' PROVE FreshClones' /\ WrittenClones' /\ DiskCurrent' /\ AckedOnTables'
    <2>1. Serial /\ FreshClones /\ WrittenClones /\ DiskCurrent /\ AckedOnTables
      BY <1>5 DEF SerialInv
    <2>2. \A q \in Requests : q # r => q \notin InFlight
      BY <2>1 DEF SerialInv, IInv, Together, Serial
    <2>3. \A q \in Requests : q # r => ~Flushing(q)' /\ ~Flushing(q) /\ stage'[q] # "flushed"
      BY <1>2, <2>2 DEF Flushing, InFlight
    <2>4. FreshClones'
      <3> SUFFICES ASSUME NEW q \in Requests, Flushing(q)', NEW i \in 1..Len(clone'[q])
                   PROVE  clone'[q][i] = mem'[FlushOrder[i]]
        BY DEF FreshClones
      <3>1. q = r /\ to \in {"cloning", "cloned", "waiting", "holding"}
        BY <1>2, <2>3 DEF Flushing
      <3> QED BY <2>1, <3>1
    <2>5. CASE to # "acked" /\ \A agg \in Aggregates : disk'[agg] = {mem[agg]}
      <3>1. TablesAreMemory'
        BY <2>5 DEF TablesAreMemory
      <3>2. WrittenClones' /\ DiskCurrent'
        BY <2>5, <3>1 DEF WrittenClones, DiskCurrent
      <3>3. AckedOnTables'
        BY <1>1, <1>2, <2>1, <2>5, DurableStays DEF AckedOnTables
      <3> QED BY <2>4, <3>2, <3>3
    <2>6. CASE /\ disk' = disk
               /\ to = "flushed" => r \in logged'
               /\ to = "acked" => stage[r] = "flushed" /\ logged' = logged
      <3>1. WrittenClones'
        <4>1. \A q \in Requests : stage'[q] = "flushed" => q = r /\ to = "flushed"
          BY <1>2, <2>3
        <4> QED BY <2>6, <4>1 DEF WrittenClones
      <3>2. Unsaved \subseteq Unsaved' /\ (Flushing(r) => r \in Unsaved' \/ Flushing(r)')
        <4>1. stage[r] \notin {"failed", "crashed"}
          BY DEF InFlight
        <4>2. Unsaved \subseteq Unsaved'
          BY <1>2, <4>1 DEF Unsaved
        <4>3. CASE to \in {"flushed", "crashed"}
          BY <1>1, <1>2, <2>6, <4>2, <4>3 DEF Unsaved
        <4>4. CASE to \in {"cloning", "cloned", "waiting", "holding"}
          BY <1>1, <1>2, <4>2, <4>4 DEF Flushing
        <4>5. CASE to = "acked"
          BY <2>6, <4>2, <4>5 DEF Flushing
        <4> QED BY <4>3, <4>4, <4>5
      <3>3. \A agg \in Aggregates : Behind(agg) => Behind(agg)'
        BY <1>1, <2>3, <3>2 DEF Behind
      <3>4. DiskCurrent'
        BY <1>1, <2>1, <2>6, <3>3 DEF DiskCurrent
      <3>5. AckedOnTables'
        <4> SUFFICES ASSUME NEW i \in DOMAIN trail, trail[i].req \in Requests \ logged',
                            stage'[trail[i].req] = "acked"
                     PROVE  Durable(trail[i])'
          BY DEF AckedOnTables
        <4>1. CASE stage[trail[i].req] = "acked"
          BY <2>1, <2>6, <4>1, DurableStays
        <4>2. CASE stage[trail[i].req] # "acked"
          <5>1. trail[i].req = r /\ to = "acked" /\ trail[i].agg \in Aggregates
            BY <1>2, <4>2, EventTypes DEF SerialInv
          <5>2. disk[trail[i].agg] = {mem[trail[i].agg]}
            BY <1>1, <2>1, <2>6, <5>1 DEF WrittenClones, TablesAreMemory
          <5>3. trail[i] \in ToSet(mem[trail[i].agg])
            BY <5>1 DEF SerialInv, OwnInMemory
          <5> QED BY <2>6, <5>2, <5>3 DEF Durable
        <4> QED BY <4>1, <4>2
      <3> QED BY <2>4, <3>1, <3>4, <3>5
    <2> QED BY <2>1, <2>5, <2>6
  <1> QED BY <1>4, <1>5 DEF SerialInv

\* The steps of flush_to_db for a request that has arrived alone: its clones are
\* the memory, and no transaction overtakes its own.
LEMMA FlushStaysSerial ==
  ASSUME SerialInv, IInv', NEW r \in Requests, Flush(r), Serial' => Serial
  PROVE  SerialInv'
  <1>1. TypeOK /\ IInv
    BY DEF SerialInv, IInv
  <1>2. Serial => FreshClones
    BY DEF SerialInv
  <1>3. \A q \in Requests : Serial => remains[q] = {}
    BY DEF Serial, SerialInv, IInv, RemainsPast
  <1>4. CASE CloneNext(r)
    <2> DEFINE n == Len(clone[r]) + 1
               to == IF Len(clone'[r]) = Len(FlushOrder) THEN "cloned" ELSE "cloning"
    <2>1. /\ stage[r] = "cloning" /\ Answer(r, to)
          /\ clone' = [clone EXCEPT ![r] = Append(@, mem[FlushOrder[n]])]
          /\ UNCHANGED <<mem, trail, disk, server, logged>>
      BY <1>4 DEF CloneNext, mutVars, pastVars
    <2>2. r \in InFlight /\ Flushing(r)
      BY <2>1 DEF InFlight, Flushing
    <2>3. to \in {"cloning", "cloned"}
      OBVIOUS
    <2> HIDE DEF to
    <2>4. clone[r] \in Seq(Seq(Mutation)) /\ clone'[r] = Append(clone[r], mem[FlushOrder[n]])
          /\ mem[FlushOrder[n]] \in Seq(Mutation)
      <3>1. Len(clone[r]) < 3 /\ clone[r] \in Seq(Seq(Mutation)) /\ clone \in [Requests -> Seq(Seq(Mutation))]
        BY <1>1, <2>1 DEF IInv, TypeOK, ClonesFit
      <3>2. n \in 1..3
        BY <3>1
      <3>3. FlushOrder[n] \in Aggregates
        BY <3>2, TheAggregates
      <3>4. mem[FlushOrder[n]] \in Seq(Mutation)
        BY <1>1, <3>3 DEF TypeOK
      <3> QED BY <2>1, <3>1, <3>4
    <2>5. ASSUME Serial
          PROVE  \A i \in 1..Len(clone'[r]) : clone'[r][i] = mem[FlushOrder[i]]
      <3>1. \A i \in 1..Len(clone[r]) : clone[r][i] = mem[FlushOrder[i]]
        BY <1>2, <2>2, <2>5 DEF FreshClones
      <3>2. Len(clone'[r]) = n /\ n \in Nat
            /\ \A i \in 1..n : clone'[r][i] = IF i = n THEN mem[FlushOrder[n]] ELSE clone[r][i]
        BY <2>4
      <3>3. \A i \in 1..n : i # n => i \in 1..Len(clone[r])
        BY <2>4
      <3> QED BY <3>1, <3>2, <3>3
    <2>6. \A q \in Requests : q # r => clone'[q] = clone[q]
      BY <1>1, <2>1 DEF TypeOK
    <2> QED BY <2>1, <2>2, <2>3, <2>5, <2>6, FlushStepStaysSerial
  <1>5. CASE PgBegin(r)
    <2>1. PICK to \in {"waiting", "holding"} : Answer(r, to)
      BY <1>5 DEF PgBegin
    <2>2. stage[r] = "cloned" /\ UNCHANGED <<mem, trail, disk, clone, server, logged>>
      BY <1>5 DEF PgBegin, mutVars, pastVars
    <2>3. r \in InFlight /\ Flushing(r)
      BY <2>2 DEF InFlight, Flushing
    <2>4. Serial => \A i \in 1..Len(clone'[r]) : clone'[r][i] = mem[FlushOrder[i]]
      BY <1>2, <2>2, <2>3 DEF FreshClones
    <2> QED BY <2>1, <2>2, <2>3, <2>4, FlushStepStaysSerial
  <1>6. CASE SqliteSync(r) \/ PgCommit(r) \/ PgCommitUnheard(r)
    <2>1. /\ stage[r] \in {"cloned", "waiting", "holding"} /\ Answer(r, "flushed")
          /\ UNCHANGED <<mem, trail, clone, server>> /\ logged \subseteq logged'
      BY <1>6 DEF SqliteSync, PgCommit, PgCommitUnheard, PgWrite, Deleted, mutVars, pastVars
    <2>2. r \in InFlight
      BY <2>1 DEF InFlight
    <2>3. ASSUME Serial PROVE \A agg \in Aggregates : disk'[agg] = {mem[agg]}
      <3>1. \A agg \in Aggregates : Cloned(r)[agg] = mem[agg]
        BY <1>1, <1>2, <2>1, <2>3, ClonedIsMemory
      <3>2. CASE SqliteSync(r)
        BY <3>1, <3>2 DEF SqliteSync
      <3>3. CASE PgWrite(r)
        <4>1. disk' = [agg \in Aggregates |->
                         {Cloned(r)[agg]} \cup (IF agg = "crew_leads" THEN remains[r] ELSE {})]
          BY <3>3 DEF PgWrite
        <4>2. remains[r] = {}
          BY <1>3, <2>3
        <4> QED BY <3>1, <4>1, <4>2
      <3> QED BY <1>6, <3>2, <3>3 DEF PgCommit, PgCommitUnheard
    <2> QED BY <2>1, <2>2, <2>3, FlushStepStaysSerial
  <1>7. CASE SqlitePanic(r)
    <2>1. /\ stage[r] = "cloned" /\ Answer(r, "crashed")
          /\ UNCHANGED <<mem, trail, disk, clone, server, logged>>
      BY <1>7 DEF SqlitePanic, mutVars, pastVars
    <2>2. r \in InFlight
      BY <2>1 DEF InFlight
    <2> QED BY <2>1, <2>2, FlushStepStaysSerial
  <1>8. CASE PgRollback(r)
    <2>1. /\ stage[r] \in {"cloned", "waiting", "holding"} /\ Answer(r, "flushed")
          /\ UNCHANGED <<mem, trail, disk, clone, server>> /\ logged' = logged \cup {r}
      BY <1>8 DEF PgRollback, mutVars
    <2>2. r \in InFlight
      BY <2>1 DEF InFlight
    <2> QED BY <2>1, <2>2, FlushStepStaysSerial
  <1>9. CASE Acknowledge(r)
    <2>1. /\ stage[r] = "flushed" /\ Answer(r, "acked")
          /\ UNCHANGED <<mem, trail, disk, clone, server, logged>>
      BY <1>9 DEF Acknowledge, mutVars, pastVars
    <2>2. r \in InFlight
      BY <2>1 DEF InFlight
    <2> QED BY <2>1, <2>2, FlushStepStaysSerial
  <1> QED BY <1>4, <1>5, <1>6, <1>7, <1>8, <1>9 DEF Flush

\* The last entry of a log that has grown.
LEMMA LastOfAppend ==
  ASSUME NEW s \in Seq(Mutation), NEW e \in Mutation
  PROVE  Last(Append(s, e)) = e
  <1>1. Len(Append(s, e)) = Len(s) + 1 /\ Append(s, e)[Len(s) + 1] = e
    OBVIOUS
  <1> QED BY <1>1 DEF Last

\* The service call of a request that arrives alone, whatever becomes of its
\* event: a request that fails is behind the tables from then on.
LEMMA MutationStaysSerial ==
  ASSUME SerialInv, IInv', server = "up", NEW r \in Requests, NEW agg \in Aggregates,
         NEW e \in Mutation, e.req = r, e.agg = agg, stage[r] = "new",
         mem' = [mem EXCEPT ![agg] = Append(@, e)],
         trail' = trail \/ trail' = Append(trail, e),
         NEW to \in {"cloning", "failed"}, Answer(r, to),
         to = "cloning" => clone' = [clone EXCEPT ![r] = << >>],
         UNCHANGED <<server, disk, logged, miscounted>>,
         Serial' => Serial /\ InFlight = {}
  PROVE  SerialInv'
  <1>1. /\ mem \in [Aggregates -> Seq(Mutation)] /\ trail \in Seq(Mutation)
        /\ clone \in [Requests -> Seq(Seq(Mutation))] /\ r # Seed
    BY SeedAssumption DEF SerialInv, IInv, TypeOK
  <1>2. to \in Stages
    BY DEF Stages
  <1>3. \A q \in Requests : stage'[q] = IF q = r THEN to ELSE stage[q]
    BY <1>2, OneAnswer DEF SerialInv, IInv
  <1>4. InFlight' \subseteq InFlight \cup {r} /\ r \notin InFlight
    BY <1>3 DEF InFlight
  <1>5. /\ \A a \in Aggregates : mem'[a] = IF a = agg THEN Append(mem[a], e) ELSE mem[a]
        /\ \A a \in Aggregates : ToSet(mem[a]) \subseteq ToSet(mem'[a])
        /\ e \in ToSet(mem'[agg])
    <2>1. \A a \in Aggregates : mem'[a] = IF a = agg THEN Append(mem[a], e) ELSE mem[a]
      BY <1>1
    <2>2. ToSet(Append(mem[agg], e)) = ToSet(mem[agg]) \cup {e}
      BY <1>1, ElementsOfAppend
    <2> QED BY <2>1, <2>2
  <1>6. ASSUME NEW i \in DOMAIN trail'
        PROVE  trail'[i] = e \/ (i \in DOMAIN trail /\ trail'[i] = trail[i])
    <2>1. CASE trail' = trail
      BY <1>6, <2>1
    <2>2. CASE trail' = Append(trail, e)
      <3>1. i \in 1..(Len(trail) + 1) /\ DOMAIN trail = 1..Len(trail) /\ Len(trail) \in Nat
        BY <1>1, <1>6, <2>2
      <3>2. CASE i = Len(trail) + 1
        BY <1>1, <2>2, <3>2
      <3>3. CASE i \in 1..Len(trail)
        BY <1>1, <2>2, <3>1, <3>3
      <3> QED BY <3>1, <3>2, <3>3
    <2> QED BY <2>1, <2>2
  <1>7. \A i \in DOMAIN trail : trail[i].req # r
    BY DEF SerialInv, NewIsUnheard
  <1>8. NewIsUnheard'
    <2> SUFFICES ASSUME NEW q \in Requests, stage'[q] = "new", NEW i \in DOMAIN trail'
                 PROVE  trail'[i].req # q
      BY DEF NewIsUnheard
    <2>1. q # r /\ stage[q] = "new"
      BY <1>3
    <2> QED BY <1>6, <2>1 DEF SerialInv, NewIsUnheard
  <1>9. OwnInMemory'
    <2> SUFFICES ASSUME NEW i \in DOMAIN trail', trail'[i].req \in InFlight'
                 PROVE  trail'[i] \in ToSet(mem'[trail'[i].agg])
      BY DEF OwnInMemory
    <2>1. CASE trail'[i] = e
      BY <1>5, <2>1
    <2>2. CASE i \in DOMAIN trail /\ trail'[i] = trail[i]
      <3>1. trail[i].req \in InFlight /\ trail[i].agg \in Aggregates
        BY <1>4, <1>7, <2>2, EventTypes DEF SerialInv
      <3> QED BY <1>5, <2>2, <3>1 DEF SerialInv, OwnInMemory
    <2> QED BY <1>6, <2>1, <2>2
  <1>10. ASSUME Serial' PROVE FreshClones' /\ WrittenClones' /\ DiskCurrent' /\ AckedOnTables'
    <2>1. Serial /\ InFlight = {} /\ DiskCurrent /\ AckedOnTables
      BY <1>10 DEF SerialInv
    <2>2. \A q \in Requests : q # r => ~Flushing(q)' /\ stage'[q] # "flushed"
      BY <1>3, <2>1 DEF Flushing, InFlight
    <2>3. FreshClones'
      <3> SUFFICES ASSUME NEW q \in Requests, Flushing(q)', NEW i \in 1..Len(clone'[q]) PROVE FALSE
        BY DEF FreshClones
      <3>1. q = r /\ to = "cloning"
        BY <1>3, <2>2 DEF Flushing
      <3>2. clone'[r] = << >> /\ Len(<< >>) = 0
        BY <1>1, <3>1
      <3> QED BY <3>1, <3>2
    <2>4. WrittenClones'
      BY <1>3, <2>2 DEF WrittenClones
    <2>5. DiskCurrent'
      <3> SUFFICES ASSUME NEW a \in Aggregates PROVE disk[a] = {mem'[a]} \/ Behind(a)'
        BY DEF DiskCurrent
      <3>1. CASE a = agg
        <4>1. Last(mem'[a]).req = r
          BY <1>1, <1>5, <3>1, LastOfAppend
        <4>2. r \in Unsaved' \/ Flushing(r)'
          BY <1>3 DEF Unsaved, Flushing
        <4> QED BY <4>1, <4>2 DEF Behind
      <3>2. CASE a # agg
        <4>1. mem'[a] = mem[a]
          BY <1>5, <3>2
        <4>2. Unsaved \subseteq Unsaved' /\ \A q \in Requests : ~Flushing(q)
          BY <1>3, <2>1 DEF Unsaved, Flushing, InFlight
        <4>3. Behind(a) => Behind(a)'
          BY <4>1, <4>2 DEF Behind
        <4> QED BY <2>1, <4>1, <4>3 DEF DiskCurrent
      <3> QED BY <3>1, <3>2
    <2>6. AckedOnTables'
      <3> SUFFICES ASSUME NEW i \in DOMAIN trail', trail'[i].req \in Requests \ logged',
                          stage'[trail'[i].req] = "acked"
                   PROVE  Durable(trail[i])'
        BY DEF AckedOnTables
      <3>1. i \in DOMAIN trail /\ trail'[i] = trail[i]
        BY <1>3, <1>6
      <3>2. stage[trail[i].req] = "acked"
        BY <1>3, <1>7, <3>1
      <3>3. Durable(trail[i])
        BY <2>1, <3>1, <3>2 DEF AckedOnTables
      <3> QED BY <3>1, <3>3 DEF Durable
    <2> QED BY <2>3, <2>4, <2>5, <2>6
  <1> QED BY <1>8, <1>9, <1>10 DEF SerialInv

\* A call that is rejected changes nothing.
LEMMA RejectStaysSerial ==
  ASSUME SerialInv, IInv', server = "up", NEW r \in Requests, stage[r] = "new",
         Answer(r, "rejected"), UNCHANGED <<server, mem, trail, disk, logged>>,
         Serial' => Serial /\ InFlight = {}
  PROVE  SerialInv'
  <1>1. "rejected" \in Stages
    BY DEF Stages
  <1>2. \A q \in Requests : stage'[q] = IF q = r THEN "rejected" ELSE stage[q]
    BY <1>1, OneAnswer DEF SerialInv, IInv
  <1>3. InFlight' = InFlight
    BY <1>2 DEF InFlight
  <1>4. NewIsUnheard' /\ OwnInMemory'
    BY <1>2, <1>3 DEF SerialInv, NewIsUnheard, OwnInMemory
  <1>5. ASSUME Serial' PROVE FreshClones' /\ WrittenClones' /\ DiskCurrent' /\ AckedOnTables'
    <2>1. Serial /\ InFlight = {} /\ DiskCurrent /\ AckedOnTables
      BY <1>5 DEF SerialInv
    <2>2. \A q \in Requests : ~Flushing(q) /\ ~Flushing(q)' /\ stage'[q] # "flushed"
      BY <1>2, <2>1 DEF Flushing, InFlight
    <2>3. FreshClones' /\ WrittenClones'
      BY <2>2 DEF FreshClones, WrittenClones
    <2>4. Unsaved \subseteq Unsaved'
      BY <1>2 DEF Unsaved
    <2>5. \A a \in Aggregates : Behind(a) => Behind(a)'
      BY <2>2, <2>4 DEF Behind
    <2>6. DiskCurrent'
      BY <2>1, <2>5 DEF DiskCurrent
    <2>7. AckedOnTables'
      BY <1>2, <2>1 DEF AckedOnTables, Durable
    <2> QED BY <2>3, <2>6, <2>7
  <1> QED BY <1>4, <1>5 DEF SerialInv

\* A start, and the first run: no request is in flight.
LEMMA StartStaysSerial ==
  ASSUME SerialInv, IInv', Start, Serial' => Serial
  PROVE  SerialInv'
  <1>1. CASE SeedNext \/ SyncSeeds
    <2>1. /\ server = "seeding" /\ UNCHANGED <<stage, logged, miscounted, overlapped>>
          /\ SyncSeeds => server' = "up" /\ trail' = trail /\ mem' = mem
                          /\ disk' = [agg \in Aggregates |-> {mem[agg]}]
          /\ SeedNext => server' = server /\ disk' = disk
      BY <1>1 DEF SeedNext, SyncSeeds, mutVars, pastVars
    <2>2. InFlight = {} /\ InFlight' = {}
      BY <2>1 DEF SerialInv, IInv, StartUp, InFlight
    <2>3. NewIsUnheard'
      <3>1. CASE SyncSeeds
        BY <2>1, <3>1 DEF SerialInv, NewIsUnheard
      <3>2. CASE SeedNext
        <4>1. PICK i \in 1..Len(FlushOrder) :
                trail' = Append(trail, [req |-> Seed, agg |-> FlushOrder[i], op |-> "Create",
                                        audited |-> TRUE])
          BY <3>2 DEF SeedNext
        <4> DEFINE seed == [req |-> Seed, agg |-> FlushOrder[i], op |-> "Create", audited |-> TRUE]
        <4>2. seed.req = Seed /\ trail' = Append(trail, seed)
          BY <4>1
        <4> HIDE DEF seed
        <4>3. trail \in Seq(Mutation)
          BY DEF SerialInv, IInv, TypeOK
        <4>4. \A j \in DOMAIN trail' : trail'[j] = seed \/ (j \in DOMAIN trail /\ trail'[j] = trail[j])
          <5> SUFFICES ASSUME NEW j \in DOMAIN trail'
                       PROVE  trail'[j] = seed \/ (j \in DOMAIN trail /\ trail'[j] = trail[j])
            OBVIOUS
          <5>1. j \in 1..(Len(trail) + 1) /\ DOMAIN trail = 1..Len(trail) /\ Len(trail) \in Nat
            BY <4>2, <4>3
          <5>2. CASE j = Len(trail) + 1
            BY <4>2, <4>3, <5>2
          <5>3. CASE j \in 1..Len(trail)
            BY <4>2, <4>3, <5>1, <5>3
          <5> QED BY <5>1, <5>2, <5>3
        <4> QED BY <2>1, <4>2, <4>4, SeedAssumption DEF SerialInv, NewIsUnheard
      <3> QED BY <1>1, <3>1, <3>2
    <2>4. OwnInMemory'
      BY <2>2 DEF OwnInMemory
    <2>5. ASSUME Serial' PROVE FreshClones' /\ WrittenClones' /\ DiskCurrent' /\ AckedOnTables'
      <3>1. \A q \in Requests : ~Flushing(q)' /\ stage'[q] # "flushed"
        BY <2>2 DEF Flushing, InFlight
      <3>2. FreshClones' /\ WrittenClones'
        BY <3>1 DEF FreshClones, WrittenClones
      <3>3. DiskCurrent'
        BY <1>1, <2>1 DEF DiskCurrent
      <3>4. disk = EmptyTables /\ \A i \in DOMAIN trail : trail[i].req = Seed
        BY <2>1, <2>5 DEF Serial, SerialInv, IInv, StartUp, SeedsOnly
      <3>5. \A i \in DOMAIN trail' : trail'[i].req = Seed
        <4>1. CASE SyncSeeds
          BY <2>1, <3>4, <4>1
        <4>2. CASE SeedNext
          BY <2>1, <3>4, <4>2 DEF IInv, SeedsOnly
        <4> QED BY <1>1, <4>1, <4>2
      <3>6. AckedOnTables'
        BY <3>5, SeedAssumption DEF AckedOnTables
      <3> QED BY <3>2, <3>3, <3>6
    <2> QED BY <2>3, <2>4, <2>5 DEF SerialInv
  <1>2. CASE Restart \/ RestartMiscounted
    <2>1. /\ UNCHANGED <<trail, disk, logged>>
          /\ stage' = [r \in Requests |-> IF r \in InFlight THEN "lost" ELSE stage[r]]
      BY <1>2 DEF Restart, RestartMiscounted, RestartWith
    <2>2. InFlight' = {}
      BY <2>1 DEF InFlight
    <2>3. \A q \in Requests : stage'[q] \in {"new", "acked"} => stage'[q] = stage[q]
      BY <2>1
    <2>4. NewIsUnheard' /\ OwnInMemory'
      BY <2>1, <2>2, <2>3 DEF SerialInv, NewIsUnheard, OwnInMemory
    <2>5. FreshClones' /\ WrittenClones'
      BY <2>2 DEF FreshClones, WrittenClones, Flushing, InFlight
    <2>6. DiskCurrent'
      <3>1. CASE server' # "up"
        BY <3>1 DEF DiskCurrent
      <3>2. CASE server' = "up"
        <4>1. ~is_first_run(disk) /\ Restorable(disk) /\ mem' = Loaded(disk)
          BY <1>2, <3>2 DEF Restart, RestartMiscounted, RestartWith
        <4>2. \A agg \in Aggregates : disk[agg] = {mem'[agg]}
          BY <4>1, LoadedTables DEF SerialInv
        <4> QED BY <2>1, <4>2 DEF DiskCurrent
      <3> QED BY <3>1, <3>2
    <2>7. ASSUME Serial' PROVE AckedOnTables'
      BY <2>1, <2>3, <2>7 DEF SerialInv, AckedOnTables, Durable
    <2> QED BY <2>4, <2>5, <2>6, <2>7 DEF SerialInv
  <1> QED BY <1>1, <1>2 DEF Start

\* Every step keeps it.
LEMMA NextStaysSerial == SerialInv /\ IInv' /\ [Next]_vars => SerialInv'
  <1> SUFFICES ASSUME SerialInv, IInv', [Next]_vars PROVE SerialInv'
    OBVIOUS
  <1>1. ASSUME NEW r \in Requests, Arrive(r) PROVE SerialInv'
    <2>1. /\ server = "up" /\ overlapped' = (overlapped \/ InFlight # {})
          /\ overlapped \in BOOLEAN /\ miscounted \in BOOLEAN
      BY <1>1 DEF Arrive, SerialInv, IInv, TypeOK
    <2>2. PICK call \in Calls :
             \/ Mutate(r, call[1], call[2])
             \/ MutateFails(r, call[1], call[2])
             \/ Reject(r, call[1], call[2])
      BY <1>1 DEF Arrive
    <2> DEFINE agg == call[1]
               op == call[2]
    <2>3. agg \in Aggregates /\ op \in Ops
      BY CallsAssumption
    <2> HIDE DEF agg, op
    <2>4. CASE Mutate(r, agg, op)
      <3> DEFINE e == [req |-> r, agg |-> agg, op |-> op, audited |-> TRUE]
      <3>1. e \in Mutation /\ e.req = r /\ e.agg = agg
        BY <2>3 DEF Mutation
      <3>2. /\ stage[r] = "new" /\ mem' = [mem EXCEPT ![agg] = Append(@, e)]
            /\ trail' = Append(trail, e) /\ clone' = [clone EXCEPT ![r] = << >>]
            /\ Answer(r, "cloning") /\ UNCHANGED <<server, disk, logged, miscounted>>
        BY <2>4 DEF Mutate
      <3> HIDE DEF e
      <3>3. Serial' => Serial /\ InFlight = {}
        BY <2>1, <3>2 DEF Serial
      <3> QED BY <2>1, <2>3, <3>1, <3>2, <3>3, MutationStaysSerial
    <2>5. CASE MutateFails(r, agg, op)
      <3> DEFINE e == [req |-> r, agg |-> agg, op |-> op, audited |-> FALSE]
      <3>1. e \in Mutation /\ e.req = r /\ e.agg = agg
        BY <2>3 DEF Mutation
      <3>2. /\ stage[r] = "new" /\ mem' = [mem EXCEPT ![agg] = Append(@, e)]
            /\ trail' = trail \/ trail' = Append(trail, e)
            /\ Answer(r, "failed") /\ UNCHANGED <<server, disk, logged, miscounted>>
        BY <2>5 DEF MutateFails
      <3> HIDE DEF e
      <3>3. Serial' => Serial /\ InFlight = {}
        BY <2>1, <3>2 DEF Serial
      <3> QED BY <2>1, <2>3, <3>1, <3>2, <3>3, MutationStaysSerial
    <2>6. CASE Reject(r, agg, op)
      <3>1. /\ stage[r] = "new" /\ Answer(r, "rejected")
            /\ UNCHANGED <<server, mem, trail, disk, logged, miscounted>>
        BY <2>6 DEF Reject, mutVars
      <3>2. Serial' => Serial /\ InFlight = {}
        BY <2>1, <3>1 DEF Serial
      <3> QED BY <2>1, <3>1, <3>2, RejectStaysSerial
    <2> QED BY <2>2, <2>4, <2>5, <2>6 DEF agg, op
  <1>2. ASSUME NEW r \in Requests, Flush(r) PROVE SerialInv'
    <2>1. Serial' => Serial
      BY <1>2 DEF Flush, CloneNext, SqliteSync, SqlitePanic, PgBegin, PgCommit, PgRollback,
         PgCommitUnheard, Acknowledge, pastVars, Serial
    <2> QED BY <1>2, <2>1, FlushStaysSerial
  <1>3. CASE Start
    <2>1. Serial' => Serial
      BY <1>3 DEF Start, SeedNext, SyncSeeds, Restart, RestartMiscounted, RestartWith,
         pastVars, Serial
    <2> QED BY <1>3, <2>1, StartStaysSerial
  <1>4. CASE UNCHANGED vars
    <2>1. UNCHANGED <<server, mem, trail, disk, stage, clone, logged, overlapped, miscounted>>
      BY <1>4 DEF vars, mutVars, pastVars
    <2>2. InFlight' = InFlight /\ (Serial' <=> Serial) /\ Unsaved' = Unsaved
          /\ \A r \in Requests : Flushing(r)' <=> Flushing(r)
      BY <2>1 DEF InFlight, Serial, Unsaved, Flushing
    <2>3. \A a \in Aggregates : Behind(a) => Behind(a)'
      BY <2>1, <2>2 DEF Behind
    <2>4. /\ FreshClones => FreshClones'
          /\ WrittenClones => WrittenClones'
          /\ DiskCurrent => DiskCurrent'
          /\ AckedOnTables => AckedOnTables'
      BY <2>1, <2>2, <2>3
         DEF FreshClones, WrittenClones, TablesAreMemory, DiskCurrent, AckedOnTables, Durable
    <2>5. NewIsUnheard' /\ OwnInMemory'
      BY <2>1, <2>2 DEF SerialInv, NewIsUnheard, OwnInMemory
    <2> QED BY <2>2, <2>4, <2>5 DEF SerialInv
  <1> QED BY <1>1, <1>2, <1>3, <1>4 DEF Next

\* The invariant of requests handled one after the other: the one in flight has
\* clones that are the memory, and writes them before it answers, unless the
\* error of its flush is logged.
LEMMA SerialInvariant == Spec => []SerialInv
  <1>1. Init => SerialInv
    <2> SUFFICES ASSUME Init PROVE SerialInv
      OBVIOUS
    <2>1. InFlight = {} /\ trail = << >> /\ server = "seeding"
          /\ \A r \in Requests : ~Flushing(r) /\ stage[r] = "new"
      BY DEF Init, InFlight, Flushing
    <2>2. NewIsUnheard /\ OwnInMemory
      BY <2>1 DEF NewIsUnheard, OwnInMemory
    <2>3. FreshClones /\ WrittenClones /\ DiskCurrent /\ AckedOnTables
      BY <2>1 DEF FreshClones, WrittenClones, DiskCurrent, AckedOnTables
    <2> QED BY <2>2, <2>3, InitInvariant DEF SerialInv
  <1> QED BY <1>1, NextStaysSerial, WriteThroughInvariant, PTL DEF Spec

\* For requests handled one after the other a 2xx means durable, unless the
\* error of the flush was logged, wherever the process is killed, with either
\* store, and whatever fails before or after.
THEOREM SerialAckAlwaysDurable == Spec => []SerialAckIsDurable
  <1>1. SerialInv => SerialAckIsDurable
    BY DEF SerialInv, SerialAckIsDurable, AckedOnTables
  <1> QED BY <1>1, SerialInvariant, PTL

\* And whenever none of them is in flight a table is the memory, or the last to
\* change its aggregate has failed.
THEOREM SerialDiskAlwaysCurrent == Spec => []SerialDiskIsCurrent
  <1>1. ASSUME SerialInv PROVE SerialDiskIsCurrent
    <2> SUFFICES ASSUME Serial, InFlight = {}, server = "up", NEW agg \in Aggregates
                 PROVE  disk[agg] = {mem[agg]} \/ Last(mem[agg]).req \in Unsaved
      BY DEF SerialDiskIsCurrent
    <2>1. \A r \in Requests : ~Flushing(r)
      BY DEF InFlight, Flushing
    <2> QED BY <1>1, <2>1 DEF SerialInv, DiskCurrent, Behind
  <1> QED BY <1>1, SerialInvariant, PTL

-----------------------------------------------------------------------------
(* Trail and memory, mutation by mutation. *)

\* Picking the audited mutations of an aggregate is a fold over the log's positions.
FoldsDone(f, agg, s) ==
    f = [T \in SUBSET (DOMAIN s) |->
            IF T = {} THEN << >>
            ELSE IF s[Max(T)].agg = agg /\ s[Max(T)].audited THEN Append(f[T \ {Max(T)}], s[Max(T)])
                 ELSE f[T \ {Max(T)}]]

DoneFold(agg, s) == CHOOSE f : FoldsDone(f, agg, s)

AddDone(agg, done, m) == IF m.agg = agg /\ m.audited THEN Append(done, m) ELSE done

DoneStep(agg) == [p \in Seq(Mutation) \X Mutation |-> AddDone(agg, p[1], p[2])]

\* What is picked is the fold of all positions, built up prefix by prefix.
LEMMA DoneIsFold ==
    ASSUME NEW agg, NEW s \in Seq(Mutation)
    PROVE  /\ DoneTo(agg, s) = DoneFold(agg, s)[DOMAIN s]
           /\ DoneFold(agg, s)[{}] = << >>
           /\ FoldsPrefixes(DoneFold(agg, s), s, Seq(Mutation), Mutation, << >>, DoneStep(agg))
  <1> DEFINE V == Seq(Mutation)
             base == << >>
             step == DoneStep(agg)
             F == DoneFold(agg, s)
  <1>1. DoneTo(agg, s) = F[DOMAIN s]
    BY DEF DoneTo, FoldLeft, MapThenFoldSet, DoneFold, FoldsDone
  <1>2. base \in V
    OBVIOUS
  <1>3. \A done \in V, m \in Mutation : AddDone(agg, done, m) \in V
    BY DEF AddDone
  <1>4. step \in [V \X Mutation -> V]
    BY <1>3 DEF DoneStep
  <1>5. \A done \in V, m \in Mutation : step[<<done, m>>] = AddDone(agg, done, m)
    BY DEF DoneStep
  <1> HIDE DEF V, base, step, F
  <1>6. PICK f \in [SUBSET (DOMAIN s) -> V] : FoldsPositions(f, s, base, step)
    BY <1>2, <1>4, ListFoldExists
  <1>7. \A T \in SUBSET (DOMAIN s) : T # {} => Max(T) \in DOMAIN s /\ s[Max(T)] \in Mutation
    <2>1. \A i \in DOMAIN s : s[i] \in Mutation
      OBVIOUS
    <2> QED
      BY <1>6, <2>1 DEF FoldsPositions
  <1>8. ASSUME NEW T \in SUBSET (DOMAIN s)
        PROVE  f[T] = IF T = {} THEN base ELSE AddDone(agg, f[T \ {Max(T)}], s[Max(T)])
    BY <1>5, <1>6, <1>7 DEF FoldsPositions
  <1>9. FoldsDone(f, agg, s)
    BY <1>6, <1>8 DEF FoldsDone, AddDone, base
  <1>10. FoldsDone(F, agg, s)
    BY <1>9 DEF DoneFold, F
  <1>11. F[{}] = base
    BY <1>10 DEF FoldsDone, base
  <1>12. ASSUME NEW T \in SUBSET (DOMAIN s), T # {}, F[T \ {Max(T)}] \in V
         PROVE  F[T] = step[<<F[T \ {Max(T)}], s[Max(T)]>>]
    <2>1. F[T] = AddDone(agg, F[T \ {Max(T)}], s[Max(T)])
      BY <1>10, <1>12 DEF FoldsDone, AddDone
    <2> QED
      BY <1>5, <1>7, <1>12, <2>1
  <1>13. FoldsPrefixes(F, s, V, Mutation, base, step)
    BY <1>2, <1>4, <1>11, <1>12, FoldFollowsPrefixes
  <1> QED
    BY <1>1, <1>11, <1>13 DEF V, base, step, F

\* One more mutation is picked for its own aggregate, and for no other.
LEMMA DoneToOneMore ==
    ASSUME NEW agg, NEW s \in Seq(Mutation), NEW m \in Mutation,
           NEW longer, OneMore(longer, s, m)
    PROVE  DoneTo(agg, longer) = AddDone(agg, DoneTo(agg, s), m)
  <1> DEFINE V == Seq(Mutation)
             step == DoneStep(agg)
             base == << >>
  <1>1. longer \in Seq(Mutation)
    BY DEF OneMore
  <1> HIDE DEF V, step, base
  <1>2. /\ FoldsPrefixes(DoneFold(agg, s), s, V, Mutation, base, step)
        /\ FoldsPrefixes(DoneFold(agg, longer), longer, V, Mutation, base, step)
    BY <1>1, DoneIsFold DEF V, step, base
  <1>3. OneStep(DoneFold(agg, longer), longer, DoneFold(agg, s), s, m, V, step)
    BY <1>1, <1>2, ListFoldSteps
  <1>4. /\ DoneTo(agg, s) = DoneFold(agg, s)[DOMAIN s]
        /\ DoneTo(agg, longer) = DoneFold(agg, longer)[DOMAIN longer]
    BY <1>1, DoneIsFold
  <1>5. /\ DoneTo(agg, s) \in V
        /\ DoneTo(agg, longer) = step[<<DoneTo(agg, s), m>>]
    BY <1>3, <1>4 DEF OneStep
  <1> QED
    BY <1>5 DEF V, step, DoneStep

\* An empty log says nothing was done.
LEMMA NothingDone == \A agg : DoneTo(agg, << >>) = << >>
  <1> SUFFICES ASSUME NEW agg PROVE DoneTo(agg, << >>) = << >>
    OBVIOUS
  <1> DEFINE none == << >>
  <1>1. none \in Seq(Mutation) /\ DOMAIN none = {}
    OBVIOUS
  <1> HIDE DEF none
  <1>2. DoneTo(agg, none) = DoneFold(agg, none)[DOMAIN none] /\ DoneFold(agg, none)[{}] = << >>
    BY <1>1, DoneIsFold
  <1> QED
    BY <1>1, <1>2 DEF none

\* A mutation that goes to the memory keeps it and the trail alike, if its event
\* is appended as well or its request fails.
LEMMA MutationMatches ==
    ASSUME TypeOK, NEW agg \in Aggregates, NEW m \in Mutation, m.agg = agg,
           \A a \in Aggregates : DoneTo(a, trail) = DoneTo(a, mem[a]),
           trail' = Append(trail, m) \/ (trail' = trail /\ ~m.audited),
           mem' = [mem EXCEPT ![agg] = Append(@, m)]
    PROVE  \A a \in Aggregates : DoneTo(a, trail') = DoneTo(a, mem'[a])
  <1> SUFFICES ASSUME NEW a \in Aggregates PROVE DoneTo(a, trail') = DoneTo(a, mem'[a])
    OBVIOUS
  <1>1. DoneTo(a, trail') = AddDone(a, DoneTo(a, trail), m)
    <2>1. CASE trail' = Append(trail, m)
      <3>1. trail \in Seq(Mutation) /\ OneMore(trail', trail, m)
        BY <2>1 DEF TypeOK, OneMore
      <3> QED
        BY <3>1, DoneToOneMore
    <2>2. CASE trail' = trail /\ ~m.audited
      <3>1. DoneTo(a, trail') = DoneTo(a, trail)
        BY <2>2
      <3> QED
        BY <2>2, <3>1 DEF AddDone
    <2> QED
      BY <2>1, <2>2
  <1>2. DoneTo(a, mem'[a]) = AddDone(a, DoneTo(a, mem[a]), m)
    <2>1. CASE a = agg
      <3>1. mem[a] \in Seq(Mutation) /\ mem'[a] = Append(mem[a], m)
        BY <2>1 DEF TypeOK
      <3>2. OneMore(mem'[a], mem[a], m)
        BY <3>1 DEF OneMore
      <3> QED
        BY <3>1, <3>2, DoneToOneMore
    <2>2. CASE a # agg
      <3>1. mem'[a] = mem[a]
        BY <2>2 DEF TypeOK
      <3> QED
        BY <2>2, <3>1 DEF AddDone
    <2> QED
      BY <2>1, <2>2
  <1> QED
    BY <1>1, <1>2

\* The service call of a request.
LEMMA ArriveMatches ==
    ASSUME TypeOK, TrailMatchesMemory, NEW r \in Requests, Arrive(r)
    PROVE  TrailMatchesMemory'
  <1>1. PICK agg \in Aggregates, op \in Ops :
           Mutate(r, agg, op) \/ MutateFails(r, agg, op) \/ Reject(r, agg, op)
    <2>1. PICK call \in Calls :
             \/ Mutate(r, call[1], call[2])
             \/ MutateFails(r, call[1], call[2])
             \/ Reject(r, call[1], call[2])
      BY DEF Arrive
    <2>2. call[1] \in Aggregates /\ call[2] \in Ops
      BY CallsAssumption
    <2> QED
      BY <2>1, <2>2
  <1>2. ASSUME NEW m \in Mutation, m.agg = agg,
               trail' = Append(trail, m) \/ (trail' = trail /\ ~m.audited),
               mem' = [mem EXCEPT ![agg] = Append(@, m)], restarts' = restarts
        PROVE  TrailMatchesMemory'
    BY <1>2, MutationMatches DEF TrailMatchesMemory
  <1>3. CASE Mutate(r, agg, op)
    <2> DEFINE m == [req |-> r, agg |-> agg, op |-> op, audited |-> TRUE]
    <2>1. m \in Mutation /\ m.agg = agg
      BY DEF Mutation
    <2>2. /\ trail' = Append(trail, m) /\ mem' = [mem EXCEPT ![agg] = Append(@, m)]
          /\ restarts' = restarts
      BY <1>3 DEF Mutate
    <2> HIDE DEF m
    <2> QED
      BY <1>2, <2>1, <2>2
  <1>4. CASE MutateFails(r, agg, op)
    <2> DEFINE m == [req |-> r, agg |-> agg, op |-> op, audited |-> FALSE]
    <2>1. m \in Mutation /\ m.agg = agg /\ ~m.audited
      BY DEF Mutation
    <2>2. /\ trail' = Append(trail, m) \/ trail' = trail
          /\ mem' = [mem EXCEPT ![agg] = Append(@, m)] /\ restarts' = restarts
      BY <1>4 DEF MutateFails
    <2> HIDE DEF m
    <2> QED
      BY <1>2, <2>1, <2>2
  <1>5. CASE Reject(r, agg, op)
    BY <1>5 DEF Reject, mutVars, TrailMatchesMemory
  <1> QED
    BY <1>1, <1>3, <1>4, <1>5

\* Start-up: a seed goes to an aggregate that is still empty.
LEMMA SeedNextMatches ==
    ASSUME TypeOK, TrailMatchesMemory, SeedNext
    PROVE  TrailMatchesMemory'
  <1>1. PICK i \in 1..Len(FlushOrder) :
          LET m == [req |-> Seed, agg |-> FlushOrder[i], op |-> "Create", audited |-> TRUE]
          IN  /\ \A j \in 1..Len(FlushOrder) : mem[FlushOrder[j]] = << >> <=> i <= j
              /\ mem' = [mem EXCEPT ![FlushOrder[i]] = <<m>>] /\ trail' = Append(trail, m)
    BY DEF SeedNext
  <1> DEFINE agg == FlushOrder[i]
             m == [req |-> Seed, agg |-> agg, op |-> "Create", audited |-> TRUE]
  <1>2. agg \in Aggregates
    BY TheAggregates
  <1>3. mem[agg] = << >>
    <2>1. i <= i
      BY TheAggregates
    <2> QED
      BY <1>1, <2>1
  <1>4. m \in Mutation /\ m.agg = agg
    BY <1>2 DEF Mutation, Ops
  <1>5. mem' = [mem EXCEPT ![agg] = <<m>>] /\ trail' = Append(trail, m)
    BY <1>1
  <1> HIDE DEF agg, m
  <1>6. mem' = [mem EXCEPT ![agg] = Append(@, m)]
    <2>1. Append(mem[agg], m) = <<m>>
      BY <1>3
    <2> QED
      BY <1>5, <2>1
  <1>7. restarts' = restarts
    BY DEF SeedNext
  <1> QED
    BY <1>2, <1>4, <1>5, <1>6, <1>7, MutationMatches DEF TrailMatchesMemory

\* Steps that leave memory and trail alone, or follow a kill.
LEMMA NextMatches == TypeOK /\ TrailMatchesMemory /\ [Next]_vars => TrailMatchesMemory'
  <1> SUFFICES ASSUME TypeOK, TrailMatchesMemory, [Next]_vars PROVE TrailMatchesMemory'
    OBVIOUS
  <1>1. ASSUME NEW r \in Requests, Flush(r) PROVE TrailMatchesMemory'
    BY <1>1 DEF Flush, CloneNext, SqliteSync, SqlitePanic, PgBegin, PgCommit, PgCommitUnheard,
                PgRollback, Acknowledge, mutVars, TrailMatchesMemory
  <1>2. CASE SyncSeeds
    BY <1>2 DEF SyncSeeds, mutVars, TrailMatchesMemory
  <1>3. CASE Restart \/ RestartMiscounted
    <2>1. restarts' = restarts + 1 /\ restarts \in 0..MaxRestarts
      BY <1>3 DEF Restart, RestartMiscounted, RestartWith, TypeOK
    <2>2. restarts' # 0
      BY <2>1, BoundsAssumption
    <2> QED
      BY <2>2 DEF TrailMatchesMemory
  <1>4. CASE UNCHANGED vars
    BY <1>4 DEF vars, mutVars, TrailMatchesMemory
  <1> QED
    BY <1>1, <1>2, <1>3, <1>4, ArriveMatches, SeedNextMatches DEF Next, Start

\* Until the first kill the trail has for each aggregate exactly what was done to
\* it, in that order, however the handlers of different aggregates interleave
\* their appends, but for the requests whose append failed.
THEOREM TrailAlwaysMatchesMemory == Spec => []TrailMatchesMemory
  <1>1. Init => TrailMatchesMemory
    BY NothingDone DEF Init, Empty, TrailMatchesMemory
  <1> QED
    BY <1>1, NextMatches, WriteThroughTypeCorrect, PTL DEF Spec
=============================================================================
