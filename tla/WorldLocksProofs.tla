-------------------------- MODULE WorldLocksProofs --------------------------
(***************************************************************************)
(* Theorems about WorldLocks, for every set of requests, every choice of   *)
(* handlers, either store and any number of workers.                       *)
(***************************************************************************)
EXTENDS WorldLocks, SequenceTheorems, TLAPS

Guard == [lock : Locks, mode : {"read", "write"}]

Works == {"view", "clone", "count", "snapshot", "gate", "replace", "mutate", "use", "sync", "ping"}

\* A phase whose guards are taken in the documented order.
InOrder(p) == \A i, j \in 1..Len(p.take) : i < j => p.take[i].lock < p.take[j].lock

\* The phase that replaces the aggregates writes all of them.
ReplacesAll(p) ==
    p.work = "replace" => Len(p.take) = 5 /\ \A l \in Locks : p.take[l] = Write(l)

\* A service is called with the lock of its aggregate held for writing.
WritesWhatChanges(p) ==
    p.work \in {"mutate", "use"} => \E i \in 1..Len(p.take) : p.take[i].mode = "write"

OrderedPhase ==
    {p \in [take : Seq(Guard), work : Works] : InOrder(p) /\ ReplacesAll(p) /\ WritesWhatChanges(p)}

OrderedScript == {s \in Seq(OrderedPhase) : Len(s) > 0}

\* A phase that takes no lock is in order.
LEMMA NoGuard ==
  ASSUME NEW w \in Works, w \notin {"replace", "mutate", "use"}
  PROVE  Phase(<< >>, w) \in OrderedPhase
  BY DEF Phase, OrderedPhase, InOrder, ReplacesAll, WritesWhatChanges

\* A phase that takes one lock is in order.
LEMMA OneGuard ==
  ASSUME NEW g \in Guard, NEW w \in Works, w # "replace",
         w \in {"mutate", "use"} => g.mode = "write"
  PROVE  Phase(<<g>>, w) \in OrderedPhase
  BY DEF Phase, OrderedPhase, InOrder, ReplacesAll, WritesWhatChanges

\* The guards of the five locks are well-formed.
LEMMA GuardTypes == \A l \in Locks : Read(l) \in Guard /\ Write(l) \in Guard
  BY DEF Read, Write, Guard

\* POST /access reads both rosters before it writes the access log.
LEMMA UsePhase == Phase(<<Read(passengers), Read(resources), Write(access)>>, "use") \in OrderedPhase
  <1> DEFINE own == <<Read(passengers), Read(resources), Write(access)>>
  <1>1. /\ own \in Seq(Guard) /\ Len(own) = 3
        /\ own[1].lock = 2 /\ own[2].lock = 3 /\ own[3].lock = 4 /\ own[3].mode = "write"
    BY DEF Read, Write, Guard, passengers, resources, access, Locks
  <1> HIDE DEF own
  <1>2. \A i, j \in 1..Len(own) : i < j => own[i].lock < own[j].lock
    BY <1>1
  <1>3. \E i \in 1..Len(own) : own[i].mode = "write"
    BY <1>1
  <1>4. Phase(own, "use") \in OrderedPhase
    BY <1>1, <1>2, <1>3 DEF Phase, OrderedPhase, InOrder, ReplacesAll, WritesWhatChanges, Works
  <1> QED BY <1>4 DEF own

\* POST /reset writes the five locks in the documented order.
LEMMA ReplacePhase ==
  Phase(<<Write(crew_leads), Write(passengers), Write(resources), Write(access),
          Write(audit_sink)>>, "replace") \in OrderedPhase
  <1> DEFINE own == <<Write(crew_leads), Write(passengers), Write(resources), Write(access),
                      Write(audit_sink)>>
  <1>1. /\ own \in Seq(Guard) /\ Len(own) = 5
        /\ \A l \in Locks : own[l] = Write(l) /\ own[l].lock = l
    BY DEF Write, Guard, crew_leads, passengers, resources, access, audit_sink, Locks
  <1> HIDE DEF own
  <1>2. \A i, j \in 1..Len(own) : i < j => own[i].lock < own[j].lock
    BY <1>1 DEF Locks
  <1>3. Phase(own, "replace") \in OrderedPhase
    BY <1>1, <1>2 DEF Phase, OrderedPhase, InOrder, ReplacesAll, WritesWhatChanges, Works
  <1> QED BY <1>3 DEF own

\* flush_to_db holds one lock at a time.
LEMMA FlushInOrder == flush_to_db \in Seq(OrderedPhase)
  <1>1. /\ Phase(<<Read(crew_leads)>>, "clone") \in OrderedPhase
        /\ Phase(<<Read(passengers)>>, "clone") \in OrderedPhase
        /\ Phase(<<Read(resources)>>, "clone") \in OrderedPhase
    BY OneGuard, GuardTypes DEF Works, crew_leads, passengers, resources, Locks
  <1>2. Phase(<< >>, "sync") \in OrderedPhase
    BY NoGuard DEF Works
  <1> QED BY <1>1, <1>2 DEF flush_to_db

\* The queries.
LEMMA ViewInOrder == \A l \in Locks : View(l) \in OrderedScript
  BY OneGuard, GuardTypes DEF View, Works, OrderedScript

\* The create, update and delete handlers.
LEMMA MutationInOrder == \A l \in Locks : Mutation(l) \in OrderedScript
  <1> SUFFICES ASSUME NEW l \in Locks PROVE Mutation(l) \in OrderedScript
    OBVIOUS
  <1>1. <<Phase(<<Write(l)>>, "mutate")>> \in Seq(OrderedPhase)
    BY OneGuard, GuardTypes DEF Works, Write
  <1> QED BY <1>1, FlushInOrder, ConcatProperties DEF Mutation, OrderedScript

\* POST /reset.
LEMMA ResetInOrder == reset_world \in OrderedScript
  <1>1. Phase(<<Read(crew_leads)>>, "gate") \in OrderedPhase
    BY OneGuard, GuardTypes DEF Works, crew_leads, Locks
  <1> DEFINE own == <<Phase(<<Read(crew_leads)>>, "gate"),
               Phase(<<Write(crew_leads), Write(passengers), Write(resources), Write(access),
                       Write(audit_sink)>>, "replace")>>
  <1>2. own \in Seq(OrderedPhase) /\ Len(own) = 2
    BY <1>1, ReplacePhase
  <1> HIDE DEF own
  <1>3. own \o flush_to_db \in OrderedScript
    BY <1>2, FlushInOrder, ConcatProperties DEF OrderedScript
  <1> QED BY <1>3 DEF reset_world, own

\* GET /health/ready.
LEMMA ReadyInOrder == health_ready \in OrderedScript
  <1> DEFINE ping == IF Store = "memory" THEN << >> ELSE <<Phase(<< >>, "ping")>>
             peeks == [l \in Locks |-> Phase(<<Read(l)>>, "count")]
  <1>1. ping \in Seq(OrderedPhase)
    BY NoGuard DEF Works
  <1>2. \A l \in Locks : Phase(<<Read(l)>>, "count") \in OrderedPhase
    BY OneGuard, GuardTypes DEF Works
  <1>3. peeks \in Seq(OrderedPhase) /\ Len(peeks) = 5
    BY <1>2 DEF Locks
  <1> HIDE DEF ping, peeks
  <1>4. ping \o peeks \in Seq(OrderedPhase) /\ Len(ping \o peeks) = Len(ping) + Len(peeks)
    BY <1>1, <1>3, ConcatProperties
  <1>5. Len(ping \o peeks) > 0
    BY <1>1, <1>3, <1>4, LenProperties
  <1> QED BY <1>4, <1>5 DEF health_ready, ping, peeks, OrderedScript

\* GET /metrics.
LEMMA MetricsInOrder == metrics \in OrderedScript
  <1>1. \A l \in Locks : /\ Phase(<<Read(l)>>, "view") \in OrderedPhase
                         /\ Phase(<<Read(l)>>, "snapshot") \in OrderedPhase
    BY OneGuard, GuardTypes DEF Works
  <1> QED BY <1>1 DEF OrderedScript, metrics, crew_leads, passengers, resources, access, audit_sink, Locks

\* The remaining handlers.
LEMMA OthersInOrder ==
  /\ use_resource \in OrderedScript
  /\ list_admin_events \in OrderedScript
  /\ verify_audit_chain \in OrderedScript
  <1>1. Phase(<<Read(audit_sink)>>, "snapshot") \in OrderedPhase
    BY OneGuard, GuardTypes DEF Works, audit_sink, Locks
  <1> QED BY <1>1, UsePhase DEF OrderedScript, use_resource, list_admin_events, verify_audit_chain

\* Every handler of http.rs takes its locks in the documented order.
LEMMA ScriptsInOrder == Script \in [Handlers -> OrderedScript]
  <1>1. /\ \A l \in {crew_leads, passengers, resources} : Mutation(l) \in OrderedScript
        /\ \A l \in {crew_leads, passengers, resources, access} : View(l) \in OrderedScript
    BY MutationInOrder, ViewInOrder DEF crew_leads, passengers, resources, access, Locks
  <1>2. \A h \in Handlers : Script[h] \in OrderedScript
    BY <1>1, ResetInOrder, ReadyInOrder, MetricsInOrder, OthersInOrder
    DEF Handlers, Script, list_crew_leads, add_crew_lead, replace_crew_lead, remove_crew_lead,
        list_passengers, get_passenger, create_passenger, change_passenger_tier,
        soft_delete_passenger, list_resources, get_resource, list_accessible_resources,
        create_resource, change_resource_min_tier, soft_delete_resource, list_usage_events,
        report_by_tier, report_top_resources, report_personal_history
  <1> QED BY <1>2 DEF Handlers, Script

-----------------------------------------------------------------------------
(* Type correctness *)

\* Nobody holds a guard before its request starts or after it has ended.
HandledHold == \A r \in Requests : taken[r] > 0 => Handled(r)

\* Whatever a request still has to do was in order from the start.
LEMMA NowInOrder ==
  ASSUME LocksTypeOK, NEW r \in Requests, stage[r] # "queued"
  PROVE  /\ Now(r) \in OrderedPhase
         /\ Script[plan[r]] \in OrderedScript
         /\ Now(r).take \in Seq(Guard)
         /\ Len(Now(r).take) \in Nat
  <1>1. Script[plan[r]] \in OrderedScript
    BY ScriptsInOrder DEF LocksTypeOK
  <1>2. phase[r] \in 1..Len(Script[plan[r]])
    BY DEF LocksTypeOK
  <1>3. Now(r) \in OrderedPhase
    BY <1>1, <1>2 DEF Now, OrderedScript
  <1> QED BY <1>1, <1>3 DEF OrderedPhase

\* Nothing is held or wanted at first.
LEMMA TypeInit == Init => LocksTypeOK /\ HandledHold
  BY PlansAssumption, MaxFailuresAssumption
  DEF Init, LocksTypeOK, HandledHold, Results, Locks

\* What the work of a phase can change: its end is a move to "leaving".
LEMMA LeaveKeepsTypes ==
  ASSUME LocksTypeOK, HandledHold, NEW r \in Requests, Handled(r),
         NEW answer \in Results, Leave(r, answer),
         handedOff' = handedOff, world' \in [Locks -> Nat],
         poisoned' \subseteq Locks, broken' \subseteq {"admin", "usage", "entity"},
         failures' \in 0..MaxFailures
  PROVE  LocksTypeOK' /\ HandledHold'
  <1> USE DEF Handled
  <1>1. \A q \in Requests : stage'[q] = "queued" <=> stage[q] = "queued"
    BY DEF Leave, LocksTypeOK
  <1>2. \A q \in Requests : Now(q)' = Now(q)
    BY DEF Leave, Now
  <1>3. \A q \in Requests :
          IF stage'[q] = "queued" THEN phase'[q] = 0 /\ taken'[q] = 0
          ELSE /\ phase'[q] \in 1..Len(Script[plan'[q]])
               /\ taken'[q] \in 0..Len(Now(q)'.take)
    BY <1>1, <1>2 DEF Leave, LocksTypeOK
  <1>4. LocksTypeOK'
    BY <1>3 DEF Leave, LocksTypeOK
  <1>5. HandledHold'
    BY DEF Leave, HandledHold, LocksTypeOK
  <1> QED BY <1>4, <1>5

\* The locks that a panic poisons are locks.
LEMMA GuardsAreGuards ==
  ASSUME LocksTypeOK, NEW r \in Requests, Handled(r)
  PROVE  /\ \A g \in Guards(r) : g \in Guard
         /\ {g.lock : g \in {x \in Guards(r) : x.mode = "write"}} \subseteq Locks
  <1>1. taken[r] \in 0..Len(Now(r).take)
    BY DEF LocksTypeOK, Handled
  <1>2. Now(r).take \in Seq(Guard)
    BY NowInOrder DEF Handled
  <1>3. \A g \in Guards(r) : g \in Guard
    BY <1>1, <1>2 DEF Guards
  <1> QED BY <1>3 DEF Guard

\* A handler that panics drops its guards.
LEMMA PanicKeepsTypes ==
  ASSUME LocksTypeOK, HandledHold, NEW r \in Requests, Handled(r), Panic(r),
         handedOff' = handedOff, world' = world,
         broken' \subseteq {"admin", "usage", "entity"},
         failures' \in 0..MaxFailures
  PROVE  LocksTypeOK' /\ HandledHold'
  <1>1. poisoned' \subseteq Locks
    BY GuardsAreGuards DEF Panic, LocksTypeOK
  <1>2. "panicked" \in Results /\ Leave(r, "panicked")
    BY DEF Results, Panic
  <1>3. world' \in [Locks -> Nat]
    BY DEF LocksTypeOK
  <1> QED BY <1>1, <1>2, <1>3, LeaveKeepsTypes

\* Every step keeps the types, and that only handled requests hold guards.
LEMMA TypeNext == LocksTypeOK /\ HandledHold /\ [Next]_vars => LocksTypeOK' /\ HandledHold'
  <1> SUFFICES ASSUME LocksTypeOK, HandledHold, [Next]_vars
               PROVE  LocksTypeOK' /\ HandledHold'
    OBVIOUS
  <1>1. ASSUME UNCHANGED vars PROVE LocksTypeOK' /\ HandledHold'
    BY <1>1 DEF vars, control, LocksTypeOK, HandledHold, Handled, Now
  <1>2. ASSUME NEW r \in Requests, Start(r) PROVE LocksTypeOK' /\ HandledHold'
    <2>1. Script[plan[r]] \in OrderedScript
      BY ScriptsInOrder DEF LocksTypeOK
    <2>2. 1 \in 1..Len(Script[plan[r]]) /\ Now(r)' \in OrderedPhase
      BY <1>2, <2>1 DEF Start, Now, OrderedScript, LocksTypeOK
    <2>3. taken[r] = 0 /\ 0 \in 0..Len(Now(r)'.take)
      BY <1>2, <2>2 DEF Start, LocksTypeOK, OrderedPhase
    <2>4. \A q \in Requests : q # r => Now(q)' = Now(q)
      BY <1>2 DEF Start, Now, LocksTypeOK
    <2>5. LocksTypeOK'
      BY <1>2, <2>2, <2>3, <2>4 DEF Start, LocksTypeOK
    <2>6. HandledHold'
      BY <1>2, <2>3 DEF Start, HandledHold, Handled, LocksTypeOK
    <2> QED BY <2>5, <2>6
  <1>3. ASSUME NEW r \in Requests, Take(r) PROVE LocksTypeOK' /\ HandledHold'
    <2>1. Handled(r)
      BY <1>3 DEF Take, Wants, Handled
    <2>2. \A q \in Requests : Now(q)' = Now(q)
      BY <1>3 DEF Take, Now
    <2>3. taken[r] + 1 \in 0..Len(Now(r).take)
      BY <1>3, <2>1, NowInOrder DEF Take, Wants, Handled, LocksTypeOK
    <2>4. LocksTypeOK'
      BY <1>3, <2>1, <2>2, <2>3 DEF Take, Handled, LocksTypeOK
    <2>5. HandledHold'
      BY <1>3, <2>1 DEF Take, HandledHold, Handled, LocksTypeOK
    <2> QED BY <2>4, <2>5
  <1>4. ASSUME NEW r \in Requests, Await(r) PROVE LocksTypeOK' /\ HandledHold'
    <2>0. Handled(r)
      BY <1>4 DEF Await, Wants, Handled
    <2>1. Wanted(r) \in Guard
      <3>1. Now(r).take \in Seq(Guard)
        BY <2>0, NowInOrder DEF Handled
      <3>2. taken[r] + 1 \in 1..Len(Now(r).take)
        BY <1>4, <2>0, <3>1 DEF Await, Wants, Handled, LocksTypeOK
      <3> QED BY <3>1, <3>2 DEF Wanted
    <2>2. \A q \in Requests : Now(q)' = Now(q)
      BY <1>4 DEF Await, Now, control
    <2>3. LocksTypeOK'
      BY <1>4, <2>1, <2>2 DEF Await, control, Guard, LocksTypeOK
    <2>4. HandledHold'
      BY <1>4 DEF Await, control, HandledHold, Handled
    <2> QED BY <2>3, <2>4
  <1>5. ASSUME NEW r \in Requests, Work(r) PROVE LocksTypeOK' /\ HandledHold'
    <2>1. Handled(r)
      BY <1>5 DEF Work, Look, Count, Snapshot, Gate, Replace, Refuse, Record, CallStore, At, Handled
    <2>2. CASE Look(r) \/ Refuse(r) \/ Record(r)
      <3>1. \E answer \in Results : Leave(r, answer)
        BY <2>2 DEF Look, Refuse, Record, Results
      <3> QED BY <2>1, <2>2, <3>1, LeaveKeepsTypes DEF Look, Refuse, Record, LocksTypeOK
    <2>3. CASE Count(r)
      <3>1. CASE Panic(r)
        BY <2>1, <2>3, <3>1, PanicKeepsTypes DEF Count, LocksTypeOK
      <3>2. ASSUME NEW answer \in Results, Leave(r, answer), UNCHANGED poisoned
            PROVE  LocksTypeOK' /\ HandledHold'
        BY <2>1, <2>3, <3>2, LeaveKeepsTypes DEF Count, LocksTypeOK
      <3>3. "unready" \in Results /\ "none" \in Results
        BY DEF Results
      <3> QED BY <2>3, <3>1, <3>2, <3>3 DEF Count
    <2>4. CASE Gate(r)
      <3>1. \E answer \in Results : Leave(r, answer)
        BY <2>4 DEF Gate, Results
      <3> QED BY <2>1, <2>4, <3>1, LeaveKeepsTypes DEF Gate, LocksTypeOK
    <2>5. CASE Snapshot(r)
      <3>1. CASE Panic(r)
        BY <2>1, <2>5, <3>1, PanicKeepsTypes DEF Snapshot, LocksTypeOK
      <3>2. CASE Leave(r, "none") /\ UNCHANGED poisoned
        BY <2>1, <2>5, <3>2, LeaveKeepsTypes DEF Snapshot, Results, LocksTypeOK
      <3> QED BY <2>5, <3>1, <3>2 DEF Snapshot
    <2>6. CASE Replace(r)
      <3>1. world' \in [Locks -> Nat]
        <4>1. PICK n : world' = [world EXCEPT ![n] = world[n] + 1]
          BY <2>6 DEF Replace
        <4>2. \A l \in Locks : world'[l] = IF l = n THEN world[l] + 1 ELSE world[l]
          BY <4>1 DEF LocksTypeOK
        <4>3. DOMAIN world' = Locks /\ world' = [l \in Locks |-> world'[l]]
          BY <4>1 DEF LocksTypeOK
        <4> QED BY <4>2, <4>3 DEF LocksTypeOK
      <3>2. CASE Leave(r, "none")
        BY <2>1, <2>6, <3>1, <3>2, LeaveKeepsTypes DEF Replace, Results, LocksTypeOK
      <3>3. CASE UNCHANGED <<plan, stage, phase, taken, result, barred, alarmed>>
        BY <2>6, <3>1, <3>3 DEF Replace, LocksTypeOK, HandledHold, Handled, Now
      <3> QED BY <2>6, <3>2, <3>3 DEF Replace
    <2>7. CASE CallStore(r)
      <3>1. \A q \in Requests : Now(q)' = Now(q)
        BY <2>7 DEF CallStore, Now
      <3>2. LocksTypeOK'
        BY <2>1, <2>7, <3>1 DEF CallStore, Handled, LocksTypeOK
      <3>3. HandledHold'
        BY <2>7 DEF CallStore, HandledHold, Handled, LocksTypeOK
      <3> QED BY <3>2, <3>3
    <2> QED BY <1>5, <2>2, <2>3, <2>4, <2>5, <2>6, <2>7 DEF Work
  <1>6. ASSUME NEW r \in Requests, StoreAnswers(r),
               StoreSucceeds(r) \/ StoreFails(r) \/ StoreIsBroken(r)
        PROVE  LocksTypeOK' /\ HandledHold'
    <2>1. Handled(r)
      BY <1>6 DEF StoreAnswers, Handled
    <2>2. Connection(Now(r).work) \in {"admin", "usage", "entity"}
      BY DEF Connection
    <2>3. failures' \in 0..MaxFailures
      BY <1>6, MaxFailuresAssumption DEF StoreSucceeds, StoreFails, StoreIsBroken, LocksTypeOK
    <2>4. CASE StoreSucceeds(r)
      BY <2>1, <2>3, <2>4, LeaveKeepsTypes DEF StoreSucceeds, Results, LocksTypeOK
    <2>5. CASE StoreIsBroken(r)
      BY <2>1, <2>3, <2>5, PanicKeepsTypes DEF StoreIsBroken, LocksTypeOK
    <2>6. CASE StoreFails(r) /\ StorePanics(r)
      <3>1. broken' \subseteq {"admin", "usage", "entity"}
        BY <2>2, <2>6 DEF StorePanics, LocksTypeOK
      <3> QED BY <2>1, <2>3, <2>6, <3>1, PanicKeepsTypes DEF StoreFails, StorePanics
    <2>7. CASE StoreFails(r) /\ StoreRefuses(r)
      <3>1. \E answer \in Results : Leave(r, answer)
        BY <2>7 DEF StoreRefuses, Results
      <3> QED BY <2>1, <2>3, <2>7, <3>1, LeaveKeepsTypes DEF StoreFails, StoreRefuses, LocksTypeOK
    <2> QED BY <1>6, <2>4, <2>5, <2>6, <2>7 DEF StoreFails
  <1>7. ASSUME NEW r \in Requests, Drop(r) PROVE LocksTypeOK' /\ HandledHold'
    <2>1. Handled(r)
      BY <1>7 DEF Drop, Handled
    <2>2. \A q \in Requests : Now(q)' = Now(q)
      BY <1>7 DEF Drop, Now
    <2>3. taken[r] - 1 \in 0..Len(Now(r).take)
      <3>1. taken[r] \in 0..Len(Now(r).take) /\ taken[r] > 0 /\ Len(Now(r).take) \in Nat
        BY <1>7, <2>1, NowInOrder DEF Drop, Handled, LocksTypeOK
      <3> QED BY <3>1
    <2>4. LocksTypeOK'
      BY <1>7, <2>1, <2>2, <2>3 DEF Drop, Handled, LocksTypeOK
    <2>5. HandledHold'
      BY <1>7, <2>1 DEF Drop, HandledHold, Handled, LocksTypeOK
    <2> QED BY <2>4, <2>5
  <1>8. ASSUME NEW r \in Requests, Proceed(r) PROVE LocksTypeOK' /\ HandledHold'
    <2>1. Handled(r) /\ taken[r] = 0
      BY <1>8 DEF Proceed, Handled
    <2>2. Script[plan[r]] \in OrderedScript
      BY ScriptsInOrder DEF LocksTypeOK
    <2>3. phase'[r] \in 1..Len(Script[plan[r]])
      BY <1>8, <2>1, <2>2 DEF Proceed, Handled, LocksTypeOK, OrderedScript
    <2>4. Now(r)' \in OrderedPhase
      BY <1>8, <2>2, <2>3 DEF Proceed, Now, OrderedScript
    <2>5. 0 \in 0..Len(Now(r)'.take)
      BY <2>4 DEF OrderedPhase
    <2>6. \A q \in Requests : q # r => Now(q)' = Now(q)
      BY <1>8 DEF Proceed, Now, LocksTypeOK
    <2>7. /\ stage' \in [Requests -> {"queued", "taking", "storing", "leaving", "ended"}]
          /\ stage'[r] # "queued"
          /\ \A q \in Requests : q # r => stage'[q] = stage[q]
      BY <1>8 DEF Proceed, LocksTypeOK
    <2>10. /\ phase' \in [Requests -> Nat]
           /\ \A q \in Requests : q # r => phase'[q] = phase[q]
      <3>1. PICK k \in Nat : phase' = [phase EXCEPT ![r] = k]
        <4>1. phase[r] \in Nat /\ phase = [phase EXCEPT ![r] = phase[r]]
          BY DEF LocksTypeOK
        <4>2. phase[r] + 1 \in Nat
          BY <4>1
        <4>3. \/ phase' = [phase EXCEPT ![r] = phase[r] + 1]
              \/ phase' = [phase EXCEPT ![r] = phase[r]]
          BY <1>8, <4>1 DEF Proceed
        <4> QED BY <4>1, <4>2, <4>3
      <3> QED BY <3>1 DEF LocksTypeOK
    <2>11. result' \in [Requests -> Results]
      <3>1. PICK a \in Results : result' = [result EXCEPT ![r] = a]
        <4>1. result[r] \in Results /\ result = [result EXCEPT ![r] = result[r]]
          BY DEF LocksTypeOK
        <4> QED BY <1>8, <4>1 DEF Proceed, Results
      <3> QED BY <3>1 DEF LocksTypeOK
    <2>12. \A q \in Requests :
             IF stage'[q] = "queued" THEN phase'[q] = 0 /\ taken'[q] = 0
             ELSE /\ phase'[q] \in 1..Len(Script[plan'[q]])
                  /\ taken'[q] \in 0..Len(Now(q)'.take)
      <3>1. CASE UNCHANGED <<plan, taken>>
        BY <2>1, <2>3, <2>5, <2>6, <2>7, <2>10, <3>1 DEF LocksTypeOK
      <3> QED BY <1>8, <3>1 DEF Proceed
    <2>8. LocksTypeOK'
      BY <1>8, <2>7, <2>10, <2>11, <2>12 DEF Proceed, LocksTypeOK
    <2>9. HandledHold'
      BY <1>8, <2>1, <2>7 DEF Proceed, HandledHold, Handled, LocksTypeOK
    <2> QED BY <2>8, <2>9
  <1> QED
    BY <1>1, <1>2, <1>3, <1>4, <1>5, <1>6, <1>7, <1>8
    DEF Next, Step, Idle, StoreSucceeds, StoreFails, StoreIsBroken

\* The state keeps its types, for any requests, handlers, workers and store.
THEOREM LocksTypeCorrect == Spec => []LocksTypeOK
  <1>1. Spec => [](LocksTypeOK /\ HandledHold)
    BY TypeInit, TypeNext, PTL DEF Spec
  <1> QED BY <1>1, PTL

-----------------------------------------------------------------------------
(* Who holds what *)

\* A lock that readers are kept from is held by somebody.
BarredIsHeld == \A l \in barred : Holders(l) # {}

\* Who writes holds the lock alone.
Exclusive ==
    \A q, r \in Requests, l \in Locks : Write(l) \in Guards(r) /\ q \in Holders(l) => q = r

\* Guards come and go in three kinds of step only.
LEMMA GuardsMove ==
  ASSUME LocksTypeOK, HandledHold, [Next]_vars
  PROVE  \/ (\A q \in Requests : Guards(q)' = Guards(q)) /\ barred' = barred
         \/ \E r \in Requests : Take(r) \/ Await(r) \/ Drop(r)
  <1>1. ASSUME UNCHANGED <<plan, phase, taken>>
        PROVE  \A q \in Requests : Guards(q)' = Guards(q)
    BY <1>1 DEF Guards, Now
  <1>2. CASE UNCHANGED vars
    BY <1>1, <1>2 DEF vars, control
  <1>3. ASSUME NEW r \in Requests, Start(r) \/ Proceed(r)
        PROVE  (\A q \in Requests : Guards(q)' = Guards(q)) /\ barred' = barred
    <2>1. taken[r] = 0 /\ taken' = taken /\ plan' = plan /\ barred' = barred
      BY <1>3 DEF Start, Proceed, LocksTypeOK
    <2>2. \A q \in Requests : q # r => phase'[q] = phase[q]
      BY <1>3 DEF Start, Proceed, LocksTypeOK
    <2>3. Guards(r) = {} /\ Guards(r)' = {}
      BY <2>1 DEF Guards
    <2>4. \A q \in Requests : q # r => Guards(q)' = Guards(q)
      BY <2>1, <2>2 DEF Guards, Now
    <2> QED BY <2>1, <2>3, <2>4
  <1>4. ASSUME NEW r \in Requests,
               Work(r) \/ StoreSucceeds(r) \/ StoreFails(r) \/ StoreIsBroken(r)
        PROVE  UNCHANGED <<plan, phase, taken, barred>>
    BY <1>4
    DEF Work, Look, Count, Snapshot, Gate, Replace, Refuse, Record, CallStore, StoreSucceeds,
        StoreFails, StorePanics, StoreRefuses, StoreIsBroken, Panic, Leave
  <1> QED BY <1>1, <1>2, <1>3, <1>4 DEF Next, Step, Idle

\* Taking a guard adds that guard and no other.
LEMMA TakeAddsOne ==
  ASSUME LocksTypeOK, NEW r \in Requests, Take(r)
  PROVE  /\ Guards(r)' = Guards(r) \cup {Wanted(r)}
         /\ \A q \in Requests : q # r => Guards(q)' = Guards(q)
         /\ Wanted(r) \in Guard
         /\ barred' = barred
  <1>1. Now(r).take \in Seq(Guard) /\ taken[r] \in Nat /\ taken[r] + 1 \in 1..Len(Now(r).take)
    BY NowInOrder DEF Take, Wants, LocksTypeOK
  <1>2. \A q \in Requests : Now(q)' = Now(q)
    BY DEF Take, Now
  <1>3. taken'[r] = taken[r] + 1 /\ \A q \in Requests : q # r => taken'[q] = taken[q]
    BY DEF Take, LocksTypeOK
  <1>4. 1..(taken[r] + 1) = 1..taken[r] \cup {taken[r] + 1}
    BY <1>1
  <1>5. Guards(r)' = Guards(r) \cup {Wanted(r)}
    BY <1>2, <1>3, <1>4 DEF Guards, Wanted
  <1>6. \A q \in Requests : q # r => Guards(q)' = Guards(q)
    BY <1>2, <1>3 DEF Guards
  <1> QED BY <1>1, <1>5, <1>6 DEF Wanted, Take

\* Dropping a guard leaves those of the others.
LEMMA DropRemovesOne ==
  ASSUME LocksTypeOK, NEW r \in Requests, Drop(r)
  PROVE  \E g \in Guard :
           /\ Guards(r) = Guards(r)' \cup {g}
           /\ \A h \in Guards(r)' : h.lock # g.lock
           /\ \A q \in Requests : q # r => Guards(q)' = Guards(q)
           /\ barred' = IF Holders(g.lock) = {r} THEN barred \ {g.lock} ELSE barred
  <1> DEFINE n == taken[r]
             g == Now(r).take[n]
  <1>1. /\ Now(r) \in OrderedPhase /\ Now(r).take \in Seq(Guard)
        /\ n \in 1..Len(Now(r).take) /\ Len(Now(r).take) \in Nat
    BY NowInOrder DEF Drop, LocksTypeOK
  <1>2. \A q \in Requests : Now(q)' = Now(q)
    BY DEF Drop, Now
  <1>3. taken'[r] = n - 1 /\ \A q \in Requests : q # r => taken'[q] = taken[q]
    BY DEF Drop, LocksTypeOK
  <1>4. 1..n = 1..(n - 1) \cup {n}
    BY <1>1
  <1>5. Guards(r)' = {Now(r).take[i] : i \in 1..(n - 1)}
    BY <1>2, <1>3 DEF Guards
  <1>6. Guards(r) = Guards(r)' \cup {g}
    BY <1>4, <1>5 DEF Guards
  <1>7. \A i \in 1..(n - 1) : Now(r).take[i].lock < g.lock /\ Now(r).take[i] \in Guard
    BY <1>1 DEF OrderedPhase, InOrder
  <1>8. \A h \in Guards(r)' : h.lock # g.lock
    BY <1>1, <1>5, <1>7 DEF Guard, Locks
  <1>9. \A q \in Requests : q # r => Guards(q)' = Guards(q)
    BY <1>2, <1>3 DEF Guards
  <1>10. barred' = IF Holders(g.lock) = {r} THEN barred \ {g.lock} ELSE barred
    BY DEF Drop
  <1>11. g \in Guard
    BY <1>1
  <1> HIDE DEF g
  <1> QED BY <1>6, <1>8, <1>9, <1>10, <1>11

\* At first nobody is barred and nobody holds anything.
LEMMA HoldersInit == Init => BarredIsHeld /\ Exclusive
  <1> SUFFICES ASSUME Init PROVE BarredIsHeld /\ Exclusive
    OBVIOUS
  <1>1. \A r \in Requests : Guards(r) = {}
    BY DEF Init, Guards
  <1> QED BY <1>1 DEF Init, BarredIsHeld, Exclusive, Holders

\* Every step keeps readers and writers apart.
LEMMA HoldersNext ==
  LocksTypeOK /\ HandledHold /\ BarredIsHeld /\ Exclusive /\ [Next]_vars
    => BarredIsHeld' /\ Exclusive'
  <1> SUFFICES ASSUME LocksTypeOK, HandledHold, BarredIsHeld, Exclusive, [Next]_vars
               PROVE  BarredIsHeld' /\ Exclusive'
    OBVIOUS
  <1>1. CASE (\A q \in Requests : Guards(q)' = Guards(q)) /\ barred' = barred
    BY <1>1 DEF BarredIsHeld, Exclusive, Holders
  <1>2. ASSUME NEW r \in Requests, Take(r) PROVE BarredIsHeld' /\ Exclusive'
    <2>1. /\ Guards(r)' = Guards(r) \cup {Wanted(r)}
          /\ \A q \in Requests : q # r => Guards(q)' = Guards(q)
          /\ Wanted(r) \in Guard
          /\ barred' = barred
      BY <1>2, TakeAddsOne
    <2>2. BarredIsHeld'
      BY <2>1 DEF BarredIsHeld, Holders
    <2>3. Granted(Wanted(r))
      BY <1>2 DEF Take
    <2>4. ASSUME NEW q \in Requests, NEW s \in Requests, NEW l \in Locks,
                 Write(l) \in Guards(s)', q \in Holders(l)'
          PROVE  q = s
      <3>1. CASE Write(l) \in Guards(s) /\ q \in Holders(l)
        BY <3>1 DEF Exclusive
      <3>2. CASE Write(l) \notin Guards(s)
        <4>1. s = r /\ Wanted(r) = Write(l)
          BY <2>1, <2>4, <3>2
        <4>2. Holders(l) = {}
          BY <2>3, <4>1 DEF Granted, Write
        <4> QED BY <2>1, <2>4, <4>1, <4>2 DEF Holders
      <3>3. CASE Write(l) \in Guards(s) /\ q \notin Holders(l)
        <4>1. q = r /\ Wanted(r).lock = l
          BY <2>1, <2>4, <3>3 DEF Holders
        <4>2. HasWriter(l) /\ s \in Holders(l)
          BY <3>3 DEF HasWriter, Holders, Write
        <4> QED BY <2>3, <4>1, <4>2 DEF Granted
      <3> QED BY <3>1, <3>2, <3>3
    <2> QED BY <2>2, <2>4 DEF Exclusive
  <1>3. ASSUME NEW r \in Requests, Await(r) PROVE BarredIsHeld' /\ Exclusive'
    <2>1. \A q \in Requests : Guards(q)' = Guards(q)
      BY <1>3 DEF Await, control, Guards, Now
    <2>2. Holders(Wanted(r).lock) # {}
      <3>1. CASE Wanted(r).mode = "write"
        BY <1>3, <3>1 DEF Await, Granted
      <3>2. CASE HasWriter(Wanted(r).lock)
        BY <3>2 DEF HasWriter, Holders, Write
      <3> QED BY <1>3, <3>1, <3>2 DEF Await, Granted
    <2>3. barred' = barred \cup {Wanted(r).lock}
      BY <1>3 DEF Await
    <2>4. \A l : Holders(l)' = Holders(l)
      BY <2>1 DEF Holders
    <2> QED BY <2>1, <2>2, <2>3, <2>4 DEF BarredIsHeld, Exclusive
  <1>4. ASSUME NEW r \in Requests, Drop(r) PROVE BarredIsHeld' /\ Exclusive'
    <2>1. PICK g \in Guard :
            /\ Guards(r) = Guards(r)' \cup {g}
            /\ \A h \in Guards(r)' : h.lock # g.lock
            /\ \A q \in Requests : q # r => Guards(q)' = Guards(q)
            /\ barred' = IF Holders(g.lock) = {r} THEN barred \ {g.lock} ELSE barred
      BY <1>4, DropRemovesOne
    <2>2. \A l : l # g.lock => Holders(l)' = Holders(l)
      BY <2>1 DEF Holders
    <2>3. Holders(g.lock)' = Holders(g.lock) \ {r} /\ r \in Holders(g.lock)
      BY <2>1 DEF Holders
    <2>4. BarredIsHeld'
      BY <2>1, <2>2, <2>3 DEF BarredIsHeld
    <2>5. /\ \A q \in Requests : \A x \in Guards(q)' : x \in Guards(q)
          /\ \A l : \A q \in Holders(l)' : q \in Holders(l)
      BY <2>1, <2>2, <2>3
    <2>6. Exclusive'
      BY <2>5 DEF Exclusive
    <2> QED BY <2>4, <2>6
  <1> QED BY <1>1, <1>2, <1>3, <1>4, GuardsMove

\* Writers are alone, and whoever is barred from a lock is barred by a holder.
LEMMA HoldersCorrect == Spec => [](LocksTypeOK /\ HandledHold /\ BarredIsHeld /\ Exclusive)
  BY TypeInit, TypeNext, HoldersInit, HoldersNext, PTL DEF Spec

-----------------------------------------------------------------------------
(* The documented order prevents deadlocks *)

\* Whoever waits for a lock waits for somebody who holds it.
LEMMA WaitsForSomebody ==
  ASSUME BarredIsHeld, NEW r \in Requests, Waits(r)
  PROVE  \E q \in Requests : \E g \in Guards(q) : g.lock = Wanted(r).lock
  <1>1. Holders(Wanted(r).lock) # {}
    <2>1. CASE Wanted(r).mode = "write"
      BY <2>1 DEF Waits, Granted
    <2>2. CASE HasWriter(Wanted(r).lock)
      BY <2>2 DEF HasWriter, Holders, Write
    <2> QED BY <2>1, <2>2 DEF Waits, Granted, BarredIsHeld
  <1> QED BY <1>1 DEF Holders

\* Whoever wants a lock holds only locks that come before it.
LEMMA HoldsLower ==
  ASSUME LocksTypeOK, NEW r \in Requests, Wants(r)
  PROVE  /\ Wanted(r).lock \in Locks
         /\ \A g \in Guards(r) : g.lock < Wanted(r).lock
  <1>1. /\ Now(r) \in OrderedPhase /\ Now(r).take \in Seq(Guard)
        /\ taken[r] \in Nat /\ taken[r] + 1 \in 1..Len(Now(r).take)
    BY NowInOrder DEF Wants, LocksTypeOK
  <1>2. \A i \in 1..taken[r] : Now(r).take[i].lock < Now(r).take[taken[r] + 1].lock
    BY <1>1 DEF OrderedPhase, InOrder
  <1>3. Wanted(r) \in Guard
    BY <1>1 DEF Wanted
  <1>4. \A g \in Guards(r) : g.lock < Wanted(r).lock
    BY <1>2 DEF Guards, Wanted
  <1> QED BY <1>3, <1>4 DEF Guard

\* The request that waits for the largest lock waits for somebody who waits for none.
LEMMA OrderPreventsDeadlock ==
  ASSUME LocksTypeOK, HandledHold, BarredIsHeld
  PROVE  SomebodyRuns
  <1> SUFFICES ASSUME NEW s \in Requests, Handled(s),
                      \A r \in Requests : Handled(r) => Waits(r)
               PROVE  FALSE
    BY DEF SomebodyRuns
  <1> DEFINE WantedLocks == {Wanted(r).lock : r \in {q \in Requests : Handled(q)}}
  <1>1. WantedLocks \subseteq 1..5 /\ WantedLocks # {}
    BY HoldsLower DEF Waits, Locks
  <1>2. PICK top \in WantedLocks : \A l \in WantedLocks : l <= top
    <2> HIDE DEF WantedLocks
    <2>1. \A n \in WantedLocks : n = 1 \/ n = 2 \/ n = 3 \/ n = 4 \/ n = 5
      BY <1>1
    <2>2. CASE 5 \in WantedLocks
      BY <2>1, <2>2
    <2>3. CASE 5 \notin WantedLocks /\ 4 \in WantedLocks
      BY <2>1, <2>3
    <2>4. CASE 5 \notin WantedLocks /\ 4 \notin WantedLocks /\ 3 \in WantedLocks
      BY <2>1, <2>4
    <2>5. CASE 5 \notin WantedLocks /\ 4 \notin WantedLocks /\ 3 \notin WantedLocks
      <3>1. CASE 2 \in WantedLocks
        BY <2>1, <2>5, <3>1
      <3>2. CASE 2 \notin WantedLocks
        <4>1. \A n \in WantedLocks : n = 1
          BY <2>1, <2>5, <3>2
        <4>2. PICK n : n \in WantedLocks
          BY <1>1
        <4> QED BY <4>1, <4>2
      <3> QED BY <3>1, <3>2
    <2> QED BY <2>2, <2>3, <2>4, <2>5
  <1>3. PICK r \in Requests : Handled(r) /\ Wanted(r).lock = top
    BY <1>2
  <1>4. PICK q \in Requests : \E g \in Guards(q) : g.lock = top
    BY <1>3, WaitsForSomebody
  <1>5. Handled(q)
    BY <1>4 DEF Guards, HandledHold, LocksTypeOK
  <1>6. top < Wanted(q).lock /\ Wanted(q).lock \in Locks
    BY <1>4, <1>5, HoldsLower DEF Waits
  <1>7. Wanted(q).lock <= top
    BY <1>2, <1>5
  <1>8. top \in 1..5
    BY <1>1, <1>2
  <1> HIDE DEF WantedLocks
  <1> QED BY <1>6, <1>7, <1>8 DEF Locks

\* The lock order of http.rs:89 does its work: of the requests being handled,
\* one does not wait for a lock, however many there are, whatever they are for,
\* also while writers keep new readers out.
THEOREM SomebodyAlwaysRuns == Spec => []SomebodyRuns
  <1>1. LocksTypeOK /\ HandledHold /\ BarredIsHeld => SomebodyRuns
    BY OrderPreventsDeadlock
  <1> QED BY HoldersCorrect, <1>1, PTL

-----------------------------------------------------------------------------
(* A use sees one world *)

Replacing(r) == At(r, {"replace"})

\* The aggregates differ only while a reset has all five locks, and by one.
OldOrNew ==
    /\ \A l \in Locks : world[l] = world[5] \/ world[l] = world[5] + 1
    /\ (\A l \in Locks : world[l] = world[5]) \/ \E r \in Requests : Replacing(r)

\* Whoever replaces the aggregates holds all five write guards.
LEMMA ReplacingHoldsAll ==
  ASSUME LocksTypeOK, NEW r \in Requests, Replacing(r)
  PROVE  Guards(r) = {Write(l) : l \in Locks}
  <1>1. Now(r) \in OrderedPhase /\ taken[r] = Len(Now(r).take) /\ Now(r).work = "replace"
    BY NowInOrder DEF Replacing, At, LocksTypeOK
  <1>2. taken[r] = 5 /\ \A l \in Locks : Now(r).take[l] = Write(l)
    BY <1>1 DEF OrderedPhase, ReplacesAll
  <1> QED BY <1>2 DEF Guards, Locks

\* One assignment of a reset: the first aggregate that is still the old one.
LEMMA ReplaceSteps ==
  ASSUME LocksTypeOK, OldOrNew, NEW r \in Requests, Replace(r)
  PROVE  \E n \in Locks :
           /\ world[n] = world[5]
           /\ \A m \in Locks : m < n => world[m] # world[5]
           /\ world' = [world EXCEPT ![n] = @ + 1]
           /\ n # 5 => UNCHANGED <<plan, stage, phase, taken>>
  <1> DEFINE writing == {g.lock : g \in Guards(r)}
             last == CHOOSE l \in writing : \A m \in writing : m <= l
             First(l) == world[l] = world[last] /\ \A m \in writing : m < l => world[m] # world[last]
             next == CHOOSE l \in writing : First(l)
  <1>1. writing = 1..5
    <2>1. \A l : Write(l).lock = l
      BY DEF Write
    <2>2. Guards(r) = {Write(l) : l \in Locks}
      BY ReplacingHoldsAll DEF Replace, Replacing
    <2> QED BY <2>1, <2>2 DEF Locks
  <1>2. /\ world' = [world EXCEPT ![next] = @ + 1]
        /\ next # last => UNCHANGED <<plan, stage, phase, taken>>
    BY DEF Replace
  <1> HIDE DEF writing
  <1>3. last = 5
    <2>1. 5 \in writing /\ \A m \in writing : m <= 5
      BY <1>1
    <2>2. last \in writing /\ \A m \in writing : m <= last
      BY <2>1
    <2> QED BY <1>1, <2>1, <2>2
  <1> HIDE DEF last
  <1>4. \E l \in writing : First(l)
    <2>1. First(5) \/ world[1] = world[5] \/ world[2] = world[5] \/ world[3] = world[5] \/ world[4] = world[5]
      BY <1>1, <1>3
    <2>2. world[1] = world[5] => First(1)
      BY <1>1, <1>3
    <2>3. world[2] = world[5] => First(1) \/ First(2)
      BY <1>1, <1>3
    <2>4. world[3] = world[5] => First(1) \/ First(2) \/ First(3)
      BY <1>1, <1>3
    <2>5. world[4] = world[5] => First(1) \/ First(2) \/ First(3) \/ First(4)
      BY <1>1, <1>3
    <2> HIDE DEF First
    <2> QED BY <1>1, <2>1, <2>2, <2>3, <2>4, <2>5
  <1>5. next \in writing /\ First(next)
    BY <1>4
  <1> HIDE DEF next
  <1> QED BY <1>1, <1>2, <1>3, <1>5 DEF Locks

\* Nothing but its assignments ends the replacing of a request.
LEMMA ReplacingGoesOn ==
  ASSUME LocksTypeOK, [Next]_vars, NEW q \in Requests, Replacing(q)
  PROVE  (Replacing(q)' /\ world' = world) \/ \E r \in Requests : Replace(r)
  <1> USE DEF Replacing
  <1>1. ASSUME plan' = plan, stage'[q] = stage[q], phase'[q] = phase[q], taken'[q] = taken[q]
        PROVE  Replacing(q)'
    BY <1>1 DEF At, Now
  <1>2. CASE UNCHANGED vars
    BY <1>1, <1>2 DEF vars, control
  <1>3. ASSUME NEW r \in Requests, Step(r), r # q, ~Replace(r)
        PROVE  Replacing(q)' /\ world' = world
    <2>1. plan' = plan /\ world' = world
      BY <1>3 DEF Step, Start, Take, Await, Work, Look, Count, Snapshot, Gate, Refuse, Record,
                  CallStore, StoreSucceeds, StoreFails, StorePanics, StoreRefuses, StoreIsBroken,
                  Drop, Proceed, Panic, Leave, control
    <2>2. stage'[q] = stage[q] /\ phase'[q] = phase[q] /\ taken'[q] = taken[q]
      BY <1>3 DEF Step, Start, Take, Await, Work, Look, Count, Snapshot, Gate, Refuse, Record,
                  CallStore, StoreSucceeds, StoreFails, StorePanics, StoreRefuses, StoreIsBroken,
                  Drop, Proceed, Panic, Leave, control, LocksTypeOK
    <2> QED BY <1>1, <2>1, <2>2
  <1>4. ASSUME Step(q), ~Replace(q)
        PROVE  Replacing(q)' /\ world' = world
    <2>1. Await(q)
      BY <1>4, NowInOrder
      DEF Step, Start, Take, Wants, Work, Look, Count, Snapshot, Gate, Refuse, Record, CallStore,
          At, StoreSucceeds, StoreFails, StoreIsBroken, StoreAnswers, Drop, Proceed
    <2> QED BY <1>1, <2>1 DEF Await, control
  <1> QED BY <1>2, <1>3, <1>4 DEF Next, Idle

\* Before the first reset there is one world.
LEMMA OldOrNewInit == Init => OldOrNew
  BY DEF Init, OldOrNew, Locks

\* Every step keeps the aggregates of one world, except while a reset replaces them.
LEMMA OldOrNewNext == LocksTypeOK /\ OldOrNew /\ [Next]_vars => OldOrNew'
  <1> SUFFICES ASSUME LocksTypeOK, OldOrNew, [Next]_vars PROVE OldOrNew'
    OBVIOUS
  <1>1. ASSUME NEW r \in Requests, Replace(r) PROVE OldOrNew'
    <2>1. PICK n \in Locks :
            /\ world[n] = world[5]
            /\ \A m \in Locks : m < n => world[m] # world[5]
            /\ world' = [world EXCEPT ![n] = @ + 1]
            /\ n # 5 => UNCHANGED <<plan, stage, phase, taken>>
      BY <1>1, ReplaceSteps
    <2>2. \A l \in Locks : world'[l] = IF l = n THEN world[l] + 1 ELSE world[l]
      BY <2>1 DEF LocksTypeOK
    <2>3. \A l \in Locks : world[l] \in Nat
      BY DEF LocksTypeOK
    <2>4. CASE n = 5
      <3>1. \A l \in Locks : l # 5 => world[l] = world[5] + 1
        BY <2>1, <2>4 DEF OldOrNew, Locks
      <3>2. \A l \in Locks : world'[l] = world[5] + 1
        BY <2>2, <2>4, <3>1
      <3> QED BY <3>2 DEF OldOrNew, Locks
    <2>5. CASE n # 5
      <3>1. Replacing(r)'
        BY <1>1, <2>1, <2>5 DEF Replace, Replacing, At, Now
      <3>2. world'[5] = world[5]
        BY <2>2, <2>5 DEF Locks
      <3>3. \A l \in Locks : world'[l] = world'[5] \/ world'[l] = world'[5] + 1
        BY <2>1, <2>2, <2>3, <3>2 DEF OldOrNew
      <3> QED BY <3>1, <3>3 DEF OldOrNew
    <2> QED BY <2>4, <2>5
  <1>2. CASE \A r \in Requests : ~Replace(r)
    <2>1. CASE \E q \in Requests : Replacing(q)
      <3>1. PICK q \in Requests : Replacing(q)
        BY <2>1
      <3>2. Replacing(q)' /\ world' = world
        BY <1>2, <3>1, ReplacingGoesOn
      <3> QED BY <3>2 DEF OldOrNew
    <2>2. CASE \A q \in Requests : ~Replacing(q)
      <3>1. world' = world
        BY <1>2 DEF Next, Idle, vars, Step, Start, Take, Await, Work, Look, Count, Snapshot, Gate,
                    Refuse, Record, CallStore, StoreSucceeds, StoreFails, StoreIsBroken, Drop,
                    Proceed
      <3> QED BY <2>2, <3>1 DEF OldOrNew
    <2> QED BY <2>1, <2>2
  <1> QED BY <1>1, <1>2

\* Whoever holds the three guards of POST /access excludes the reset under way.
LEMMA AccessSeesOne ==
  ASSUME LocksTypeOK, Exclusive, OldOrNew
  PROVE  AccessSeesOneWorld
  <1> SUFFICES ASSUME NEW r \in Requests, plan[r] = "use_resource",
                      NEW g \in Guards(r), NEW h \in Guards(r)
               PROVE  world[g.lock] = world[h.lock]
    BY DEF AccessSeesOneWorld
  <1>1. stage[r] # "queued"
    BY DEF Guards, LocksTypeOK
  <1>2. g \in Guard /\ h \in Guard
    <2>1. taken[r] \in 0..Len(Now(r).take) /\ Now(r).take \in Seq(Guard)
      BY <1>1, NowInOrder DEF LocksTypeOK
    <2> QED BY <2>1 DEF Guards
  <1>3. ASSUME NEW q \in Requests, Replacing(q) PROVE FALSE
    <2>1. Write(g.lock) \in Guards(q)
      BY <1>2, <1>3, ReplacingHoldsAll DEF Guard
    <2>2. r = q
      BY <1>2, <2>1 DEF Exclusive, Holders, Guard
    <2>3. Script[plan[r]] = use_resource
      BY DEF Script
    <2>4. phase[r] = 1
      <3>1. phase[r] \in 1..Len(use_resource)
        BY <1>1, <2>3 DEF LocksTypeOK
      <3>2. Len(use_resource) = 1
        BY DEF use_resource
      <3> QED BY <3>1, <3>2
    <2>5. Now(r).work = "use"
      BY <2>3, <2>4 DEF Now, use_resource, Phase
    <2> QED BY <1>3, <2>2, <2>5 DEF Replacing, At
  <1> QED BY <1>2, <1>3 DEF OldOrNew, Guard

\* POST /access never works on aggregates of two worlds, whatever resets,
\* flushes and failures happen around it (http.rs:1179 and 1546).
THEOREM AccessAlwaysSeesOneWorld == Spec => []AccessSeesOneWorld
  <1>1. Spec => []OldOrNew
    <2>1. LocksTypeOK /\ HandledHold /\ BarredIsHeld /\ Exclusive /\ OldOrNew /\ [Next]_vars => OldOrNew'
      BY OldOrNewNext
    <2> QED BY HoldersCorrect, OldOrNewInit, <2>1, PTL DEF Spec
  <1>2. LocksTypeOK /\ HandledHold /\ BarredIsHeld /\ Exclusive /\ OldOrNew => AccessSeesOneWorld
    BY AccessSeesOne
  <1> QED BY HoldersCorrect, <1>1, <1>2, PTL
-----------------------------------------------------------------------------
(* Readiness tells of panics *)

\* What a panic leaves behind for GET /health/ready to see.
Trace == poisoned # {} \/ "entity" \in broken

\* A connection breaks with SQLite only, and the sinks' ones under a write lock.
BrokenLeavesPoison ==
    /\ broken # {} => Store = "sqlite"
    /\ broken \subseteq {"entity"} \/ poisoned # {}

PanicsLeaveTrace == \A r \in Requests : result[r] = "panicked" => Trace

\* A request that waits for the store has all guards of its phase.
StoringHolds ==
    \A r \in Requests :
        stage[r] = "storing" =>
            /\ Store # "memory" /\ taken[r] = Len(Now(r).take)
            /\ Now(r).work \in {"mutate", "use", "sync", "ping"}

\* The result is known when the work of a phase is over, "ok" at the very end.
ResultsInTime ==
    \A r \in Requests :
        /\ stage[r] \in {"queued", "taking", "storing"} => result[r] = "none"
        /\ result[r] = "ok" => stage[r] = "ended" /\ phase[r] = Len(Script[plan[r]])

\* The phase of health_ready before its first look at a lock.
pings == IF Store = "memory" THEN 0 ELSE 1

Uncounted(r, l) ==
    phase[r] < l + pings \/ (phase[r] = l + pings /\ stage[r] = "taking")

Unpinged(r) == Store # "memory" /\ phase[r] = 1 /\ stage[r] \in {"taking", "storing"}

\* As long as it may still answer "ready", it has the trace before it.
TraceAhead ==
    \A r \in alarmed :
        plan[r] = "health_ready" /\ result[r] \in {"none", "ok"} =>
            \/ \E l \in poisoned : Uncounted(r, l)
            \/ "entity" \in broken /\ Unpinged(r)

ReadyInv ==
    /\ LocksTypeOK /\ HandledHold
    /\ BrokenLeavesPoison /\ PanicsLeaveTrace /\ StoringHolds /\ ResultsInTime /\ TraceAhead

\* GET /health/ready pings, unless the store is in memory, and looks at the five locks.
LEMMA ReadyPhases ==
  /\ Len(health_ready) = 5 + pings
  /\ \A l \in Locks : health_ready[l + pings] = Phase(<<Read(l)>>, "count")
  /\ Store # "memory" => health_ready[1] = Phase(<< >>, "ping")
  <1> DEFINE peeks == [l \in Locks |-> Phase(<<Read(l)>>, "count")]
  <1>1. Len(peeks) = 5 /\ \A l \in 1..5 : peeks[l] = Phase(<<Read(l)>>, "count")
    BY DEF Locks
  <1>2. peeks \in Seq(OrderedPhase)
    BY OneGuard, GuardTypes DEF Locks, Works
  <1> HIDE DEF peeks
  <1>3. CASE Store = "memory"
    <2>1. health_ready = << >> \o peeks /\ pings = 0
      BY <1>3 DEF health_ready, peeks, pings
    <2> QED BY <1>1, <1>2, <1>3, <2>1, ConcatEmptySeq DEF Locks
  <1>4. CASE Store # "memory"
    <2>1. health_ready = <<Phase(<< >>, "ping")>> \o peeks /\ pings = 1
      BY <1>4 DEF health_ready, peeks, pings
    <2>2. <<Phase(<< >>, "ping")>> \in Seq(OrderedPhase)
      BY NoGuard DEF Works
    <2> DEFINE head == <<Phase(<< >>, "ping")>>
    <2>3. Len(head) = 1 /\ head[1] = Phase(<< >>, "ping")
      OBVIOUS
    <2> HIDE DEF head
    <2>4. health_ready = head \o peeks /\ head \in Seq(OrderedPhase)
      BY <2>1, <2>2 DEF head
    <2>5. /\ Len(head \o peeks) = Len(head) + Len(peeks)
          /\ \A i \in 1..(Len(head) + Len(peeks)) :
                (head \o peeks)[i] = IF i <= Len(head) THEN head[i] ELSE peeks[i - Len(head)]
      BY <1>2, <2>4, ConcatProperties
    <2>6. /\ Len(health_ready) = 6
          /\ \A i \in 1..6 : health_ready[i] = IF i <= 1 THEN head[1] ELSE peeks[i - 1]
      BY <1>1, <2>3, <2>4, <2>5
    <2>7. \A l \in 1..5 : l + 1 \in 1..6 /\ ~(l + 1 <= 1) /\ (l + 1) - 1 = l
      OBVIOUS
    <2>8. \A l \in 1..5 : health_ready[l + 1] = peeks[l]
      BY <2>6, <2>7
    <2>9. health_ready[1] = head[1]
      BY <2>6
    <2> QED BY <1>1, <2>1, <2>3, <2>6, <2>8, <2>9 DEF Locks
  <1> QED BY <1>3, <1>4

\* A step of one request leaves the others where they are, and mends nothing.
LEMMA StepTouchesOne ==
  ASSUME LocksTypeOK, NEW r \in Requests, Step(r)
  PROVE  /\ plan' = plan /\ poisoned \subseteq poisoned' /\ broken \subseteq broken'
         /\ \A q \in Requests : q # r =>
               /\ stage'[q] = stage[q] /\ phase'[q] = phase[q]
               /\ taken'[q] = taken[q] /\ result'[q] = result[q]
         /\ alarmed' \subseteq alarmed \cup {r}
         /\ Start(r) \/ alarmed' = alarmed
  <1>1. ASSUME NEW answer, Leave(r, answer)
        PROVE  /\ plan' = plan /\ alarmed' = alarmed
               /\ \A q \in Requests : q # r =>
                     /\ stage'[q] = stage[q] /\ phase'[q] = phase[q]
                     /\ taken'[q] = taken[q] /\ result'[q] = result[q]
    BY <1>1 DEF Leave, LocksTypeOK
  <1>2. CASE Start(r) \/ Take(r) \/ Await(r) \/ Drop(r) \/ Proceed(r)
    BY <1>2 DEF Start, Take, Await, Drop, Proceed, control, LocksTypeOK
  <1>3. CASE Look(r) \/ Snapshot(r) \/ Count(r) \/ Gate(r) \/ Refuse(r) \/ Record(r)
    BY <1>1, <1>3 DEF Look, Snapshot, Count, Gate, Refuse, Record, Panic
  <1>4. CASE Replace(r)
    BY <1>1, <1>4 DEF Replace
  <1>5. CASE CallStore(r)
    BY <1>5 DEF CallStore, LocksTypeOK
  <1>6. CASE StoreSucceeds(r) \/ StoreFails(r) \/ StoreIsBroken(r)
    BY <1>1, <1>6 DEF StoreSucceeds, StoreFails, StorePanics, StoreRefuses, StoreIsBroken, Panic
  <1> QED BY <1>2, <1>3, <1>4, <1>5, <1>6 DEF Step, Work

\* What the work of a phase can come to.
LEMMA WorkEnds ==
  ASSUME LocksTypeOK, NEW r \in Requests,
         \/ Look(r) \/ Snapshot(r) \/ Count(r) \/ Gate(r) \/ Replace(r) \/ Refuse(r) \/ Record(r)
         \/ StoreSucceeds(r) \/ StoreFails(r) \/ StoreIsBroken(r)
  PROVE  /\ stage[r] \in {"taking", "storing"} /\ phase' = phase /\ taken' = taken
         /\ \/ stage'[r] = "leaving" /\ result'[r] \in {"none", "refused", "unready", "panicked"}
            \/ stage' = stage /\ result' = result
  <1>1. ASSUME NEW answer \in {"none", "refused", "unready", "panicked"}, Leave(r, answer)
        PROVE  /\ phase' = phase /\ taken' = taken
               /\ stage'[r] = "leaving" /\ result'[r] \in {"none", "refused", "unready", "panicked"}
    BY <1>1 DEF Leave, LocksTypeOK
  <1>2. ASSUME Panic(r)
        PROVE  /\ phase' = phase /\ taken' = taken
               /\ stage'[r] = "leaving" /\ result'[r] \in {"none", "refused", "unready", "panicked"}
    BY <1>1, <1>2 DEF Panic
  <1>3. CASE Look(r) \/ Gate(r) \/ Refuse(r) \/ Record(r)
    BY <1>1, <1>3 DEF Look, Gate, Refuse, Record, At
  <1>4. CASE Snapshot(r) \/ Count(r)
    BY <1>1, <1>2, <1>4 DEF Snapshot, Count, At
  <1>5. CASE Replace(r)
    BY <1>1, <1>5 DEF Replace, At
  <1>6. CASE StoreSucceeds(r) \/ StoreFails(r) \/ StoreIsBroken(r)
    BY <1>1, <1>2, <1>6 DEF StoreSucceeds, StoreFails, StorePanics, StoreRefuses, StoreIsBroken,
       StoreAnswers
  <1> QED BY <1>3, <1>4, <1>5, <1>6

\* Results are known in time, and nobody waits for the store without its guards.
LEMMA ResultsKeep ==
  ASSUME LocksTypeOK, StoringHolds, ResultsInTime, NEW r \in Requests, Step(r)
  PROVE  StoringHolds' /\ ResultsInTime'
  <1>1. /\ plan' = plan
        /\ \A q \in Requests : q # r =>
              /\ stage'[q] = stage[q] /\ phase'[q] = phase[q]
              /\ taken'[q] = taken[q] /\ result'[q] = result[q]
    BY StepTouchesOne
  <1> DEFINE Holding(q) ==
               stage[q] = "storing" =>
                 /\ Store # "memory" /\ taken[q] = Len(Now(q).take)
                 /\ Now(q).work \in {"mutate", "use", "sync", "ping"}
             InTime(q) ==
               /\ stage[q] \in {"queued", "taking", "storing"} => result[q] = "none"
               /\ result[q] = "ok" => stage[q] = "ended" /\ phase[q] = Len(Script[plan[q]])
  <1>2. Holding(r) /\ InTime(r)
    BY DEF StoringHolds, ResultsInTime
  <1>3. ASSUME phase' = phase /\ taken' = taken PROVE Now(r)' = Now(r)
    BY <1>1, <1>3 DEF Now
  <1>4. CASE Start(r) \/ Take(r) \/ Await(r) \/ Drop(r)
    <2>1. /\ stage[r] \in {"queued", "taking", "leaving"} /\ result'[r] = result[r]
          /\ stage'[r] = IF stage[r] = "queued" THEN "taking" ELSE stage[r]
      BY <1>4 DEF Start, Take, Await, Drop, Wants, control, LocksTypeOK
    <2>2. result[r] # "ok"
      BY <1>2, <2>1
    <2> QED BY <1>1, <1>2, <2>1, <2>2 DEF StoringHolds, ResultsInTime, Now
  <1>5. CASE \/ Look(r) \/ Snapshot(r) \/ Count(r) \/ Gate(r) \/ Replace(r) \/ Refuse(r) \/ Record(r)
             \/ StoreSucceeds(r) \/ StoreFails(r) \/ StoreIsBroken(r)
    <2>1. /\ stage[r] \in {"taking", "storing"} /\ phase' = phase /\ taken' = taken
          /\ \/ stage'[r] = "leaving" /\ result'[r] \in {"none", "refused", "unready", "panicked"}
             \/ stage' = stage /\ result' = result
      BY <1>5, WorkEnds
    <2> QED BY <1>1, <1>2, <1>3, <2>1 DEF StoringHolds, ResultsInTime, Now
  <1>6. CASE CallStore(r)
    <2>1. /\ stage[r] = "taking" /\ stage'[r] = "storing" /\ result'[r] = result[r]
          /\ phase' = phase /\ taken' = taken /\ Store # "memory" /\ taken[r] = Len(Now(r).take)
          /\ Now(r).work \in {"mutate", "use", "sync", "ping"}
      BY <1>6 DEF CallStore, At, Stored, LocksTypeOK
    <2> QED BY <1>1, <1>2, <1>3, <2>1 DEF StoringHolds, ResultsInTime, Now
  <1>7. CASE Proceed(r)
    <2>1. /\ stage'[r] \in {"taking", "ended"}
          /\ stage'[r] = "taking" => result'[r] = "none"
          /\ result'[r] = "ok" => stage'[r] = "ended" /\ phase'[r] = phase[r]
                                  /\ phase[r] >= Len(Script[plan[r]])
      <3>1. phase[r] \in Nat /\ Len(Script[plan[r]]) \in Nat /\ stage[r] = "leaving" /\ result[r] # "ok"
        BY <1>2, <1>7, NowInOrder DEF Proceed, LocksTypeOK, OrderedScript
      <3> QED BY <1>7, <3>1 DEF Proceed, LocksTypeOK
    <2>2. phase[r] \in 1..Len(Script[plan[r]]) /\ Len(Script[plan[r]]) \in Nat
      BY <1>7, NowInOrder DEF Proceed, LocksTypeOK, OrderedScript
    <2>3. result'[r] = "ok" => phase'[r] = Len(Script[plan[r]])
      BY <2>1, <2>2
    <2> QED BY <1>1, <2>1, <2>3 DEF StoringHolds, ResultsInTime, Now
  <1> QED BY <1>4, <1>5, <1>6, <1>7 DEF Step, Work

\* A handler that panics in its service call poisons its aggregate.
LEMMA WriterPoisons ==
  ASSUME LocksTypeOK, StoringHolds, NEW r \in Requests, stage[r] = "storing",
         Now(r).work \in {"mutate", "use"}, Panic(r)
  PROVE  poisoned' # {}
  <1>1. Now(r) \in OrderedPhase
    BY NowInOrder
  <1>2. PICK i \in 1..Len(Now(r).take) : Now(r).take[i].mode = "write"
    BY <1>1 DEF OrderedPhase, WritesWhatChanges
  <1>3. taken[r] = Len(Now(r).take)
    BY DEF StoringHolds
  <1>4. Now(r).take[i] \in {x \in Guards(r) : x.mode = "write"}
    BY <1>2, <1>3 DEF Guards
  <1> QED BY <1>4 DEF Panic

\* Panics leave a trace, and traces stay.
LEMMA TracesKeep ==
  ASSUME LocksTypeOK, StoringHolds, BrokenLeavesPoison, PanicsLeaveTrace,
         NEW r \in Requests, Step(r)
  PROVE  BrokenLeavesPoison' /\ PanicsLeaveTrace' /\ (Trace => Trace')
  <1>1. /\ poisoned \subseteq poisoned' /\ broken \subseteq broken'
        /\ \A q \in Requests : q # r => result'[q] = result[q]
    BY StepTouchesOne
  <1>2. Trace => Trace'
    BY <1>1 DEF Trace
  <1>3. broken # {} => Trace
    BY DEF BrokenLeavesPoison, Trace
  <1>4. CASE StoreFails(r) /\ StorePanics(r)
    <2>1. /\ stage[r] = "storing" /\ Panic(r) /\ StorePanics(r)
          /\ Now(r).work \in {"mutate", "use", "sync"}
      BY <1>4 DEF StoreFails, StoreAnswers, StorePanics
    <2>2. CASE Now(r).work \in {"mutate", "use"}
      <3>1. poisoned' # {}
        BY <2>1, <2>2, WriterPoisons
      <3>2. broken' # {} => Store = "sqlite"
        BY <2>1 DEF StorePanics, BrokenLeavesPoison
      <3> QED BY <1>1, <1>2, <3>1, <3>2 DEF BrokenLeavesPoison, PanicsLeaveTrace, Trace
    <2>3. CASE Now(r).work = "sync"
      <3>1. Store = "sqlite" /\ broken' = broken \cup {"entity"}
        BY <2>1, <2>3 DEF StorePanics, Connection
      <3> QED BY <1>1, <1>2, <3>1 DEF BrokenLeavesPoison, PanicsLeaveTrace, Trace
    <2> QED BY <2>1, <2>2, <2>3
  <1>5. CASE ~(StoreFails(r) /\ StorePanics(r))
    <2>1. broken' = broken
      BY <1>5 DEF Step, Start, Take, Await, Work, Look, Count, Snapshot, Gate, Replace, Refuse,
         Record, CallStore, StoreSucceeds, StoreFails, StoreRefuses, StoreIsBroken, Drop, Proceed
    <2>2. BrokenLeavesPoison'
      BY <1>1, <2>1 DEF BrokenLeavesPoison
    <2>3. result'[r] = "panicked" /\ result[r] # "panicked" => broken # {}
      <3>1. CASE Start(r) \/ Take(r) \/ Await(r) \/ Drop(r) \/ CallStore(r) \/ Proceed(r)
        BY <3>1 DEF Start, Take, Await, Drop, CallStore, Proceed, control, LocksTypeOK
      <3>2. CASE Look(r) \/ Gate(r) \/ Replace(r) \/ Refuse(r) \/ Record(r) \/ StoreSucceeds(r)
        BY <3>2 DEF Look, Gate, Replace, Refuse, Record, StoreSucceeds, Leave, LocksTypeOK
      <3>3. CASE Snapshot(r) \/ Count(r)
        <4>1. CASE SnapshotPanics(r)
          BY <4>1 DEF SnapshotPanics
        <4>2. CASE ~SnapshotPanics(r)
          BY <3>3, <4>2 DEF Snapshot, Count, Leave, LocksTypeOK
        <4> QED BY <4>1, <4>2
      <3>4. CASE StoreFails(r)
        BY <1>5, <3>4 DEF StoreFails, StoreRefuses, Leave, LocksTypeOK
      <3>5. CASE StoreIsBroken(r)
        BY <3>5 DEF StoreIsBroken
      <3> QED BY <3>1, <3>2, <3>3, <3>4, <3>5 DEF Step, Work
    <2>4. PanicsLeaveTrace'
      BY <1>1, <1>2, <1>3, <2>3 DEF PanicsLeaveTrace
    <2> QED BY <1>2, <2>2, <2>4
  <1> QED BY <1>4, <1>5

\* Where a GET /health/ready is, it counts one lock, or pings.
LEMMA ReadyNow ==
  ASSUME LocksTypeOK, NEW r \in Requests, plan[r] = "health_ready", stage[r] # "queued"
  PROVE  \/ \E l \in Locks : phase[r] = l + pings /\ Now(r) = Phase(<<Read(l)>>, "count")
         \/ Store # "memory" /\ phase[r] = 1 /\ Now(r) = Phase(<< >>, "ping")
  <1>1. Script[plan[r]] = health_ready
    BY DEF Script
  <1>2. phase[r] \in 1..(5 + pings) /\ Now(r) = health_ready[phase[r]]
    BY <1>1, ReadyPhases DEF LocksTypeOK, Now
  <1>3. CASE Store = "memory"
    BY <1>2, <1>3, ReadyPhases DEF pings, Locks
  <1>4. CASE Store # "memory" /\ phase[r] = 1
    BY <1>2, <1>4, ReadyPhases
  <1>5. CASE Store # "memory" /\ phase[r] # 1
    <2>1. phase[r] - 1 \in Locks /\ phase[r] = (phase[r] - 1) + pings
      BY <1>2, <1>5 DEF pings, Locks
    <2> QED BY <1>2, <2>1, ReadyPhases
  <1> QED BY <1>3, <1>4, <1>5

\* A lock that is counted is not poisoned, or the answer is not "ready".
LEMMA CountTells ==
  ASSUME LocksTypeOK, NEW r \in Requests, NEW l \in Locks, stage[r] = "taking",
         phase[r] = l + pings, Now(r) = Phase(<<Read(l)>>, "count"), l \in poisoned, Count(r)
  PROVE  result'[r] \in {"unready", "panicked"}
  <1>1. taken[r] = 1 /\ Now(r).take[1] = Read(l)
    BY DEF Count, At, Phase
  <1>2. Read(l) \in Guards(r) /\ Read(l).lock = l
    BY <1>1 DEF Guards, Read
  <1>3. Leave(r, "unready")
    BY <1>2 DEF Count
  <1> QED BY <1>3 DEF Leave, LocksTypeOK

\* The trace stays ahead of a request that may still answer "ready".
LEMMA TraceStaysAhead ==
  ASSUME LocksTypeOK, BrokenLeavesPoison, PanicsLeaveTrace, StoringHolds, ResultsInTime,
         TraceAhead, NEW r \in Requests, Step(r)
  PROVE  TraceAhead'
  <1>1. /\ plan' = plan /\ poisoned \subseteq poisoned' /\ broken \subseteq broken'
        /\ \A q \in Requests : q # r =>
              /\ stage'[q] = stage[q] /\ phase'[q] = phase[q]
              /\ taken'[q] = taken[q] /\ result'[q] = result[q]
        /\ alarmed' \subseteq alarmed \cup {r}
        /\ Start(r) \/ alarmed' = alarmed
    BY StepTouchesOne
  <1>2. alarmed \subseteq Requests /\ poisoned \subseteq Locks /\ pings \in {0, 1}
    BY DEF LocksTypeOK, pings
  <1>3. ASSUME NEW q \in alarmed', q # r
        PROVE  plan'[q] = "health_ready" /\ result'[q] \in {"none", "ok"} =>
                 \/ \E l \in poisoned' : Uncounted(q, l)'
                 \/ "entity" \in broken' /\ Unpinged(q)'
    <2>1. q \in alarmed /\ q \in Requests
      BY <1>1, <1>2, <1>3
    <2>2. /\ \A l \in poisoned : Uncounted(q, l)' <=> Uncounted(q, l)
          /\ Unpinged(q)' <=> Unpinged(q)
      BY <1>1, <1>3, <2>1 DEF Uncounted, Unpinged, pings
    <2> QED BY <1>1, <1>3, <2>1, <2>2 DEF TraceAhead
  <1>4. ASSUME r \in alarmed', plan[r] = "health_ready", result'[r] \in {"none", "ok"}
        PROVE  \/ \E l \in poisoned' : Uncounted(r, l)'
               \/ "entity" \in broken' /\ Unpinged(r)'
    <2>1. CASE Start(r)
      <3>1. stage[r] = "queued" /\ phase[r] = 0 /\ phase'[r] = 1 /\ stage'[r] = "taking"
        BY <2>1 DEF Start, LocksTypeOK
      <3>2. \A l \in Locks : Uncounted(r, l)'
        BY <1>2, <3>1 DEF Uncounted, Locks, pings
      <3>3. poisoned' = poisoned /\ broken' = broken /\ result[r] = "none"
        BY <2>1, <3>1 DEF Start, ResultsInTime
      <3>4. CASE r \in alarmed
        BY <1>2, <1>4, <3>1, <3>2, <3>3, <3>4 DEF TraceAhead, Unpinged
      <3>5. CASE r \notin alarmed
        <4>1. Trace
          BY <1>4, <2>1, <3>5 DEF Start, PanicsLeaveTrace
        <4>2. CASE poisoned # {}
          BY <1>2, <3>2, <3>3, <4>2
        <4>3. CASE "entity" \in broken
          BY <3>1, <3>3, <4>3 DEF BrokenLeavesPoison, Unpinged
        <4> QED BY <4>1, <4>2, <4>3 DEF Trace
      <3> QED BY <3>4, <3>5
    <2>2. CASE ~Start(r)
      <3>1. r \in alarmed /\ alarmed' = alarmed
        BY <1>1, <1>4, <2>2
      <3>2. CASE Take(r) \/ Await(r) \/ Drop(r)
        <4>1. /\ stage' = stage /\ phase' = phase /\ result' = result
              /\ poisoned' = poisoned /\ broken' = broken
          BY <3>2 DEF Take, Await, Drop, control
        <4>2. (\A l \in poisoned : Uncounted(r, l)' <=> Uncounted(r, l)) /\ (Unpinged(r)' <=> Unpinged(r))
          BY <4>1 DEF Uncounted, Unpinged, pings
        <4> QED BY <1>4, <3>1, <4>1, <4>2 DEF TraceAhead
      <3>3. CASE Proceed(r)
        <4>1. /\ stage[r] = "leaving" /\ poisoned' = poisoned /\ result[r] \in {"none", "ok"}
              /\ \/ stage'[r] = "taking" /\ phase'[r] = phase[r] + 1
                 \/ stage'[r] = "ended" /\ phase'[r] = phase[r]
          BY <1>4, <3>3 DEF Proceed, LocksTypeOK
        <4>2. PICK l \in poisoned : Uncounted(r, l)
          BY <1>4, <3>1, <4>1 DEF TraceAhead, Unpinged
        <4>3. phase[r] \in Nat /\ phase[r] < l + pings /\ l \in Nat
          <5>1. l \in Locks /\ l \in Nat
            BY <1>2 DEF Locks
          <5>2. phase[r] \in Nat
            BY DEF LocksTypeOK
          <5>3. phase[r] < l + pings
            BY <4>1, <4>2 DEF Uncounted
          <5> QED BY <5>1, <5>2, <5>3
        <4>4. Uncounted(r, l)'
          BY <1>2, <4>1, <4>3 DEF Uncounted, pings
        <4> QED BY <4>1, <4>4
      <3>4. CASE Count(r)
        <4>1. /\ stage[r] = "taking" /\ result[r] = "none" /\ Now(r).work = "count"
          BY <3>4 DEF Count, At, ResultsInTime
        <4>2. PICK c \in Locks : phase[r] = c + pings /\ Now(r) = Phase(<<Read(c)>>, "count")
          BY <1>4, <4>1, ReadyNow DEF Phase
        <4>3. ~Unpinged(r)
          BY <4>2 DEF Unpinged, pings, Locks
        <4>4. PICK l \in poisoned : Uncounted(r, l)
          BY <1>4, <3>1, <4>1, <4>3 DEF TraceAhead
        <4>5. l # c
          BY <1>4, <3>4, <4>1, <4>2, <4>4, CountTells
        <4>6. phase'[r] = phase[r]
          BY <3>4, WorkEnds
        <4>7. phase[r] < l + pings
          BY <1>2, <4>2, <4>4, <4>5 DEF Uncounted, Locks
        <4>8. Uncounted(r, l)'
          BY <4>6, <4>7 DEF Uncounted, pings
        <4> QED BY <1>1, <4>4, <4>8
      <3>5. CASE CallStore(r)
        <4>1. /\ stage[r] = "taking" /\ result[r] = "none" /\ stage'[r] = "storing"
              /\ Now(r).work \in {"mutate", "use", "sync", "ping"}
              /\ phase' = phase /\ poisoned' = poisoned /\ broken' = broken
          BY <3>5 DEF CallStore, At, ResultsInTime, LocksTypeOK
        <4>2. Store # "memory" /\ phase[r] = 1
          BY <1>4, <4>1, ReadyNow DEF Phase
        <4>3. Unpinged(r)' /\ \A l \in Locks : Uncounted(r, l)'
          BY <4>1, <4>2 DEF Unpinged, Uncounted, pings, Locks
        <4>4. poisoned # {} \/ "entity" \in broken
          BY <1>4, <3>1, <4>1 DEF TraceAhead
        <4> QED BY <1>2, <4>1, <4>3, <4>4
      <3>6. CASE StoreSucceeds(r) \/ StoreFails(r) \/ StoreIsBroken(r)
        <4>1. stage[r] = "storing" /\ result[r] = "none" /\ Now(r).work = "ping"
              /\ Store # "memory" /\ phase[r] = 1
          <5>1. stage[r] = "storing"
            BY <3>6 DEF StoreSucceeds, StoreFails, StoreIsBroken, StoreAnswers
          <5>2. result[r] = "none" /\ Now(r).work \in {"mutate", "use", "sync", "ping"}
            BY <5>1 DEF ResultsInTime, StoringHolds
          <5> QED BY <1>4, <5>1, <5>2, ReadyNow DEF Phase
        <4>2. StoreSucceeds(r)
          <5>1. \A answer \in {"unready", "panicked"} : ~Leave(r, answer)
            BY <1>4 DEF Leave, LocksTypeOK
          <5>2. ~StoreFails(r) /\ ~StoreIsBroken(r)
            BY <4>1, <5>1 DEF StoreFails, StorePanics, StoreRefuses, StoreIsBroken, Panic
          <5> QED BY <3>6, <5>2
        <4>3. "entity" \notin broken
          BY <4>1, <4>2 DEF StoreSucceeds, Connection
        <4>4. PICK l \in poisoned : Uncounted(r, l)
          BY <1>4, <3>1, <4>1, <4>3 DEF TraceAhead
        <4>5. phase'[r] = 1
          BY <4>1, <4>2, WorkEnds
        <4>6. Uncounted(r, l)'
          BY <1>2, <4>1, <4>5 DEF Uncounted, pings, Locks
        <4> QED BY <1>1, <4>4, <4>6
      <3>7. CASE Look(r) \/ Snapshot(r) \/ Gate(r) \/ Replace(r) \/ Refuse(r) \/ Record(r)
        <4>1. stage[r] = "taking" /\ Now(r).work \notin {"count", "ping"}
          BY <3>7 DEF Look, Snapshot, Gate, Replace, Refuse, Record, At
        <4> QED BY <1>4, <4>1, ReadyNow DEF Phase
      <3> QED BY <2>2, <3>2, <3>3, <3>4, <3>5, <3>6, <3>7 DEF Step, Work
    <2> QED BY <2>1, <2>2
  <1> QED BY <1>1, <1>3, <1>4 DEF TraceAhead

\* Every step keeps ReadyInv.
LEMMA ReadyNext == ReadyInv /\ [Next]_vars => ReadyInv'
  <1> SUFFICES ASSUME ReadyInv, [Next]_vars PROVE ReadyInv'
    OBVIOUS
  <1>1. LocksTypeOK' /\ HandledHold'
    BY TypeNext DEF ReadyInv
  <1>2. ASSUME NEW r \in Requests, Step(r) PROVE ReadyInv'
    BY <1>1, <1>2, ResultsKeep, TracesKeep, TraceStaysAhead DEF ReadyInv
  <1>3. CASE UNCHANGED vars
    BY <1>1, <1>3 DEF vars, control, ReadyInv, BrokenLeavesPoison, PanicsLeaveTrace, StoringHolds,
       ResultsInTime, TraceAhead, Trace, Uncounted, Unpinged, Now, pings
  <1> QED BY <1>2, <1>3 DEF Next, Idle

\* A trace is what a later GET /health/ready has before it: in every state.
LEMMA ReadyInvariant == Spec => []ReadyInv
  <1>1. Init => ReadyInv
    BY TypeInit DEF Init, ReadyInv, BrokenLeavesPoison, PanicsLeaveTrace, StoringHolds,
       ResultsInTime, TraceAhead
  <1> QED BY <1>1, ReadyNext, PTL DEF Spec

\* Whatever handler has panicked, and wherever, a GET /health/ready that begins
\* after it has ended does not say "ready".
THEOREM ReadyAlwaysMeansNoPanicBefore == Spec => []ReadyMeansNoPanicBefore
  <1>1. ReadyInv => ReadyMeansNoPanicBefore
    <2> SUFFICES ASSUME ReadyInv, NEW r \in Requests, plan[r] = "health_ready",
                        result[r] = "ok", r \in alarmed
                 PROVE  FALSE
      BY DEF ReadyMeansNoPanicBefore
    <2>1. stage[r] = "ended" /\ phase[r] = Len(Script[plan[r]])
      BY DEF ReadyInv, ResultsInTime
    <2>2. phase[r] = 5 + pings /\ pings \in {0, 1}
      BY <2>1, ReadyPhases DEF Script, pings
    <2>3. PICK l \in poisoned : Uncounted(r, l)
      BY <2>1 DEF ReadyInv, TraceAhead, Unpinged
    <2>4. l \in Locks
      BY DEF ReadyInv, LocksTypeOK
    <2> QED BY <2>1, <2>2, <2>3, <2>4 DEF Uncounted, Locks
  <1> QED BY <1>1, ReadyInvariant, PTL
=============================================================================
