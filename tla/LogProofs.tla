------------------------------ MODULE LogProofs ------------------------------
(***************************************************************************)
(* The two append-only logs.  First the admin events: the hash chain is    *)
(* sound as long as appends do not overlap, for every set of services and  *)
(* verifiers and every number of appends.  Then the usage events: the      *)
(* reports, computed from the log in three ways, agree, the ranking is its *)
(* reference, the listing of accessible resources tells the truth and a    *)
(* paging client misses nothing, for every roster and every log.           *)
(***************************************************************************)
EXTENDS AuditChain, Reporting, ListLemmas

-----------------------------------------------------------------------------
(* The admin events: prefixes                                              *)

\* A proper prefix does not change when the list grows.
LEMMA ProperPrefixStays ==
    ASSUME NEW S, NEW s \in Seq(S), NEW e \in S, NEW i \in 1..Len(s)
    PROVE  SubSeq(Append(s, e), 1, i) = SubSeq(s, 1, i)
  OBVIOUS

\* The longest prefix is the list itself.
LEMMA WholePrefix ==
    ASSUME NEW S, NEW s \in Seq(S)
    PROVE  SubSeq(s, 1, Len(s)) = s
  OBVIOUS

-----------------------------------------------------------------------------
(* The inductive invariant                                                 *)

\* Every stored hash is the hash of the events up to its own.
ChainSound ==
    /\ Len(hashes) <= Len(inner)
    /\ \A i \in 1..Len(hashes) : hashes[i] = SubSeq(inner, 1, i)

\* At most one append is under way, and the hash it holds is the next link.
OneAppendAtATime ==
    /\ \A s, t \in Services : (stage[s] # "idle" /\ stage[t] # "idle") => s = t
    /\ (\A s \in Services : stage[s] # "pushed") => Len(inner) = Len(hashes)
    /\ \A s \in Services :
         /\ stage[s] = "hashed" => link[s] = Append(inner, CurrentEvent(s))
         /\ stage[s] = "pushed" => link[s] = inner /\ Len(inner) = Len(hashes) + 1

\* Until two appends overlap, both hold.
ChainInv ==
    /\ ChainTypeOK
    /\ \A s \in Services : stage[s] # "idle" => sent[s] > 0
    /\ raced \/ (ChainSound /\ OneAppendAtATime)

\* With no append under way the last hash covers exactly the events stored.
LEMMA LastHashIsWhole ==
    ASSUME ChainTypeOK, ChainSound, Len(inner) = Len(hashes)
    PROVE  LastHash = inner
  <1>1. inner \in Seq(Event) /\ hashes \in Seq(Hash)
    BY DEF ChainTypeOK
  <1>2. CASE hashes = << >>
    <2>1. Len(inner) = 0
      BY <1>2
    <2>2. inner = << >>
      BY <1>1, <2>1
    <2> QED
      BY <1>2, <2>2 DEF LastHash, Genesis
  <1>3. CASE hashes # << >>
    <2>1. Len(hashes) \in 1..Len(hashes)
      BY <1>1, <1>3
    <2>2. hashes[Len(hashes)] = SubSeq(inner, 1, Len(inner))
      BY <2>1 DEF ChainSound
    <2> QED
      BY <1>1, <1>3, <2>2, WholePrefix DEF LastHash
  <1> QED
    BY <1>2, <1>3

-----------------------------------------------------------------------------
(* Every step preserves it                                                 *)

\* The first critical section of append keeps ChainInv.
LEMMA ReadLastPreserves ==
    ASSUME ChainInv, NEW s \in Services, ReadLast(s)
    PROVE  ChainInv'
  <1> DEFINE e == <<s, sent[s] + 1>>
             h == ComputeHash(LastHash, e)
  <1>1. ChainTypeOK
    BY DEF ChainInv
  <1>2. /\ stage[s] = "idle"
        /\ sent' = [sent EXCEPT ![s] = sent[s] + 1]
        /\ link' = [link EXCEPT ![s] = h]
        /\ stage' = [stage EXCEPT ![s] = "hashed"]
        /\ raced' = (raced \/ \E t \in Services : stage[t] # "idle")
        /\ UNCHANGED <<inner, hashes, snapshot, verdict>>
    BY DEF ReadLast
  <1>3. e \in Event /\ LastHash \in Hash /\ h \in Hash
    <2>1. e \in Event
      BY <1>1 DEF ChainTypeOK, Event
    <2>2. LastHash \in Hash
      BY <1>1 DEF ChainTypeOK, LastHash, Genesis, Hash
    <2> QED
      BY <2>1, <2>2 DEF ComputeHash, Hash
  <1>4. ChainTypeOK'
    BY <1>1, <1>2, <1>3 DEF ChainTypeOK
  <1>5. ASSUME ~raced' PROVE ChainSound' /\ OneAppendAtATime'
    <2>1. ~raced /\ \A t \in Services : stage[t] = "idle"
      BY <1>1, <1>2, <1>5 DEF ChainTypeOK
    <2>2. ChainSound /\ OneAppendAtATime
      BY <2>1 DEF ChainInv
    <2>3. Len(inner) = Len(hashes)
      BY <2>1, <2>2 DEF OneAppendAtATime
    <2>4. h = Append(inner, e)
      BY <1>1, <2>2, <2>3, LastHashIsWhole DEF ComputeHash
    <2>5. ChainSound'
      BY <1>2, <2>2 DEF ChainSound
    <2>6. /\ stage' \in [Services -> {"idle", "hashed", "pushed"}]
          /\ \A t \in Services : stage'[t] = IF t = s THEN "hashed" ELSE "idle"
          /\ link'[s] = h
          /\ CurrentEvent(s)' = e
      BY <1>1, <1>2, <2>1 DEF ChainTypeOK, CurrentEvent
    <2>7. OneAppendAtATime'
      BY <1>2, <2>3, <2>4, <2>6 DEF OneAppendAtATime
    <2> QED
      BY <2>5, <2>7
  <1>6. \A t \in Services : stage'[t] # "idle" => sent'[t] > 0
    <2> SUFFICES ASSUME NEW t \in Services, stage'[t] # "idle" PROVE sent'[t] > 0
      OBVIOUS
    <2>1. sent \in [Services -> Nat] /\ stage \in [Services -> {"idle", "hashed", "pushed"}]
      BY <1>1 DEF ChainTypeOK
    <2>2. CASE t = s
      BY <1>2, <2>1, <2>2
    <2>3. CASE t # s
      <3>1. stage[t] # "idle" /\ sent'[t] = sent[t]
        BY <1>2, <2>1, <2>3
      <3> QED
        BY <3>1 DEF ChainInv
    <2> QED
      BY <2>2, <2>3
  <1> QED
    BY <1>4, <1>5, <1>6 DEF ChainInv

\* The second critical section of append keeps ChainInv.
LEMMA PushEventPreserves ==
    ASSUME ChainInv, NEW s \in Services, PushEvent(s)
    PROVE  ChainInv'
  <1> DEFINE e == CurrentEvent(s)
  <1>1. ChainTypeOK
    BY DEF ChainInv
  <1>2. /\ stage[s] = "hashed"
        /\ inner' = Append(inner, e)
        /\ stage' = [stage EXCEPT ![s] = "pushed"]
        /\ UNCHANGED <<hashes, link, sent, raced, snapshot, verdict>>
    BY DEF PushEvent
  <1>3. e \in Event /\ inner \in Seq(Event) /\ hashes \in Seq(Hash)
    <2>1. sent[s] \in Nat /\ sent[s] > 0
      BY <1>1, <1>2 DEF ChainInv, ChainTypeOK
    <2>2. e \in Event
      BY <2>1 DEF CurrentEvent, Event
    <2> QED
      BY <1>1, <2>2 DEF ChainTypeOK
  <1>4. ChainTypeOK' /\ \A t \in Services : stage'[t] # "idle" => sent'[t] > 0
    <2> HIDE DEF e
    <2>1. inner' \in Seq(Event)
      BY <1>2, <1>3
    <2>2. stage' \in [Services -> {"idle", "hashed", "pushed"}]
      BY <1>1, <1>2 DEF ChainTypeOK
    <2> QED
      BY <1>1, <1>2, <2>1, <2>2 DEF ChainInv, ChainTypeOK
  <1>5. ASSUME ~raced' PROVE ChainSound' /\ OneAppendAtATime'
    <2>1. ~raced /\ ChainSound /\ OneAppendAtATime
      BY <1>2, <1>5 DEF ChainInv
    <2>2. \A t \in Services : t # s => stage[t] = "idle"
      BY <1>2, <2>1 DEF OneAppendAtATime
    <2>3. link[s] = inner' /\ Len(inner) = Len(hashes)
      BY <1>2, <2>1, <2>2 DEF OneAppendAtATime
    <2>4. \A t \in Services : stage'[t] = IF t = s THEN "pushed" ELSE "idle"
      BY <1>1, <1>2, <2>2 DEF ChainTypeOK
    <2> HIDE DEF e
    <2>5. Len(inner') = Len(hashes) + 1
      BY <1>2, <1>3, <2>3
    <2>6. ChainSound'
      <3>1. \A i \in 1..Len(hashes) : SubSeq(inner', 1, i) = SubSeq(inner, 1, i)
        BY <1>2, <1>3, <2>3, ProperPrefixStays
      <3>2. Len(hashes) <= Len(inner')
        BY <1>3, <2>5
      <3> QED
        BY <1>2, <2>1, <3>1, <3>2 DEF ChainSound
    <2>7. OneAppendAtATime'
      BY <1>2, <2>3, <2>4, <2>5 DEF OneAppendAtATime
    <2> QED
      BY <2>6, <2>7
  <1> QED
    BY <1>4, <1>5 DEF ChainInv

\* The third critical section of append keeps ChainInv.
LEMMA PushHashPreserves ==
    ASSUME ChainInv, NEW s \in Services, PushHash(s)
    PROVE  ChainInv'
  <1> DEFINE h == link[s]
  <1>1. ChainTypeOK
    BY DEF ChainInv
  <1>2. /\ stage[s] = "pushed"
        /\ hashes' = Append(hashes, h)
        /\ stage' = [stage EXCEPT ![s] = "idle"]
        /\ UNCHANGED <<inner, link, sent, raced, snapshot, verdict>>
    BY DEF PushHash
  <1>3. h \in Hash /\ inner \in Seq(Event) /\ hashes \in Seq(Hash)
    BY <1>1 DEF ChainTypeOK
  <1>4. ChainTypeOK' /\ \A t \in Services : stage'[t] # "idle" => sent'[t] > 0
    <2> HIDE DEF h
    <2>1. hashes' \in Seq(Hash)
      BY <1>2, <1>3
    <2>2. stage' \in [Services -> {"idle", "hashed", "pushed"}]
      BY <1>1, <1>2 DEF ChainTypeOK
    <2>3. \A t \in Services : stage'[t] # "idle" => stage[t] # "idle"
      BY <1>1, <1>2 DEF ChainTypeOK
    <2> QED
      BY <1>1, <1>2, <2>1, <2>2, <2>3 DEF ChainInv, ChainTypeOK
  <1>5. ASSUME ~raced' PROVE ChainSound' /\ OneAppendAtATime'
    <2>1. ~raced /\ ChainSound /\ OneAppendAtATime
      BY <1>2, <1>5 DEF ChainInv
    <2>2. \A t \in Services : t # s => stage[t] = "idle"
      BY <1>2, <2>1 DEF OneAppendAtATime
    <2>3. h = inner /\ Len(inner) = Len(hashes) + 1
      BY <1>2, <2>1 DEF OneAppendAtATime
    <2>4. \A t \in Services : stage'[t] = "idle"
      BY <1>1, <1>2, <2>2 DEF ChainTypeOK
    <2> HIDE DEF h
    <2>5. /\ Len(hashes') = Len(inner) /\ hashes'[Len(inner)] = inner
          /\ \A i \in 1..Len(hashes) : hashes'[i] = hashes[i]
      BY <1>2, <1>3, <2>3
    <2>6. ChainSound'
      <3> SUFFICES ASSUME NEW i \in 1..Len(hashes')
                   PROVE  hashes'[i] = SubSeq(inner, 1, i)
        BY <1>2, <1>3, <2>5 DEF ChainSound
      <3>1. CASE i \in 1..Len(hashes)
        BY <2>1, <2>5, <3>1 DEF ChainSound
      <3>2. CASE i = Len(inner)
        BY <1>3, <2>5, <3>2, WholePrefix
      <3> QED
        BY <1>3, <2>3, <2>5, <3>1, <3>2
    <2>7. OneAppendAtATime'
      BY <1>2, <2>4, <2>5 DEF OneAppendAtATime
    <2> QED
      BY <2>6, <2>7
  <1> QED
    BY <1>4, <1>5 DEF ChainInv

\* Verifiers only read the two lists.
LEMMA VerifierPreserves ==
    ASSUME ChainInv, NEW v \in Verifiers, SnapshotEvents(v) \/ SnapshotHashes(v)
    PROVE  ChainInv'
  <1>1. ChainTypeOK /\ UNCHANGED appendVars
    BY DEF ChainInv, SnapshotEvents, SnapshotHashes
  <1>2. snapshot' \in [Verifiers -> Seq(Event)]
    BY <1>1 DEF ChainTypeOK, SnapshotEvents, SnapshotHashes
  <1>3. verdict' \in [Verifiers -> {"none", "reading", "valid", "broken"}]
    BY <1>1 DEF ChainTypeOK, SnapshotEvents, SnapshotHashes, Answer
  <1> QED
    BY <1>1, <1>2, <1>3
       DEF ChainInv, ChainTypeOK, appendVars, ChainSound, OneAppendAtATime, CurrentEvent

\* Every step keeps ChainInv.
LEMMA ChainStepPreserves == ChainInv /\ [ChainNext]_chainVars => ChainInv'
  <1> SUFFICES ASSUME ChainInv, [ChainNext]_chainVars PROVE ChainInv'
    OBVIOUS
  <1>1. CASE UNCHANGED chainVars
    BY <1>1 DEF chainVars, appendVars, ChainInv, ChainTypeOK, ChainSound,
                OneAppendAtATime, CurrentEvent
  <1> QED
    BY <1>1, ReadLastPreserves, PushEventPreserves, PushHashPreserves, VerifierPreserves
       DEF ChainNext

\* The invariant holds in every reachable state.
THEOREM ChainInvariant == ChainSpec => []ChainInv
  <1>1. ChainInit => ChainInv
    <2> SUFFICES ASSUME ChainInit PROVE ChainInv
      OBVIOUS
    <2>1. << >> \in Seq(Event) /\ << >> \in Seq(Hash) /\ << >> \in Hash /\ Len(<< >>) = 0
      BY DEF Hash
    <2>2. ChainTypeOK
      BY <2>1 DEF ChainInit, ChainTypeOK, Genesis
    <2>3. ChainSound /\ OneAppendAtATime
      BY DEF ChainInit, ChainSound, OneAppendAtATime
    <2> QED
      BY <2>2, <2>3 DEF ChainInit, ChainInv
  <1> QED
    BY <1>1, ChainStepPreserves, PTL DEF ChainSpec

-----------------------------------------------------------------------------
(* What follows from it                                                    *)

\* Type correctness.
THEOREM ChainTypeCorrect == ChainSpec => []ChainTypeOK
  BY ChainInvariant, PTL DEF ChainInv

\* A chain is broken only after two appends have overlapped: with one writer
\* at a time, GET /audit/verify has nothing to find at any moment.
THEOREM ChainBrokenOnlyAfterRace == ChainSpec => []BrokenOnlyAfterRace
  <1>1. ChainInv => BrokenOnlyAfterRace
    <2> SUFFICES ASSUME ChainInv, ~raced PROVE Mismatches(inner, hashes) = {}
      BY DEF BrokenOnlyAfterRace
    <2>1. ChainSound /\ hashes \in Seq(Hash)
      BY DEF ChainInv, ChainTypeOK
    <2> QED
      BY <2>1 DEF ChainSound, Mismatches
  <1> QED
    BY <1>1, ChainInvariant, PTL
-----------------------------------------------------------------------------
(* However the appends overlap                                             *)

\* The services that still owe a hash.
Pushed == {s \in Services : stage[s] = "pushed"}

\* What a verifier has cloned are events that the list still begins with.
SnapshotsPast ==
    \A v \in Verifiers :
        /\ Len(snapshot[v]) <= Len(inner)
        /\ \A i \in 1..Len(snapshot[v]) : snapshot[v][i] = inner[i]

ListsInv == ChainInv /\ HashPerEvent /\ SnapshotsPast /\ NoFalseAlarm

\* A mismatch between the lists never goes away: both only grow.
LEMMA MismatchStays ==
  ASSUME ChainTypeOK, ChainTypeOK', Len(inner) <= Len(inner'), Len(hashes) <= Len(hashes'),
         \A i \in 1..Len(inner) : inner'[i] = inner[i],
         \A i \in 1..Len(hashes) : hashes'[i] = hashes[i],
         Mismatches(inner, hashes) # {}
  PROVE  Mismatches(inner, hashes)' # {}
  <1>1. PICK i \in DOMAIN inner \cap DOMAIN hashes : hashes[i] # SubSeq(inner, 1, i)
    BY DEF Mismatches
  <1>2. /\ inner \in Seq(Event) /\ inner' \in Seq(Event) /\ hashes \in Seq(Hash)
        /\ hashes' \in Seq(Hash)
    BY DEF ChainTypeOK
  <1>3. i \in 1..Len(inner) /\ i \in 1..Len(hashes) /\ i \in DOMAIN inner' \cap DOMAIN hashes'
    BY <1>1, <1>2
  <1>4. SubSeq(inner', 1, i) = SubSeq(inner, 1, i)
    BY <1>2, <1>3
  <1>5. hashes'[i] # SubSeq(inner', 1, i)
    BY <1>1, <1>3, <1>4
  <1> QED BY <1>3, <1>5 DEF Mismatches

\* A step of append: the lists grow, and a hash is owed from the event on.
LEMMA AppendKeepsLists ==
  ASSUME ListsInv, ChainInv', NEW s \in Services, ReadLast(s) \/ PushEvent(s) \/ PushHash(s)
  PROVE  ListsInv'
  <1>1. ChainTypeOK /\ ChainTypeOK' /\ UNCHANGED <<snapshot, verdict>>
    BY DEF ListsInv, ChainInv, ReadLast, PushEvent, PushHash
  <1>2. /\ inner \in Seq(Event) /\ hashes \in Seq(Hash)
        /\ CurrentEvent(s) \in Event \/ UNCHANGED inner
        /\ link[s] \in Hash
    <2>1. PushEvent(s) => sent[s] \in Nat /\ sent[s] > 0
      BY <1>1 DEF ListsInv, ChainInv, ChainTypeOK, PushEvent
    <2>2. sent[s] \in Nat /\ sent[s] > 0 => CurrentEvent(s) \in Event
      BY DEF CurrentEvent, Event
    <2>3. ReadLast(s) \/ PushHash(s) => UNCHANGED inner
      BY DEF ReadLast, PushHash
    <2> QED BY <1>1, <2>1, <2>2, <2>3 DEF ChainTypeOK
  <1>3. /\ UNCHANGED inner \/ inner' = Append(inner, CurrentEvent(s))
        /\ UNCHANGED hashes \/ hashes' = Append(hashes, link[s])
    BY DEF ReadLast, PushEvent, PushHash
  <1>4. /\ Len(inner) <= Len(inner') /\ \A i \in 1..Len(inner) : inner'[i] = inner[i]
        /\ Len(hashes) <= Len(hashes') /\ \A i \in 1..Len(hashes) : hashes'[i] = hashes[i]
        /\ Len(inner) \in Nat /\ Len(hashes) \in Nat
    BY <1>2, <1>3
  <1>5. SnapshotsPast'
    <2> SUFFICES ASSUME NEW v \in Verifiers
                 PROVE  /\ Len(snapshot[v]) <= Len(inner')
                        /\ \A i \in 1..Len(snapshot[v]) : snapshot[v][i] = inner'[i]
      BY <1>1 DEF SnapshotsPast
    <2>1. snapshot[v] \in Seq(Event)
      BY <1>1 DEF ChainTypeOK
    <2>2. Len(snapshot[v]) \in Nat /\ Len(inner') \in Nat
      BY <1>1, <2>1 DEF ChainTypeOK
    <2>3. \A i \in 1..Len(snapshot[v]) : i \in 1..Len(inner)
      BY <1>4, <2>2 DEF ListsInv, SnapshotsPast
    <2> QED BY <1>4, <2>2, <2>3 DEF ListsInv, SnapshotsPast
  <1>6. NoFalseAlarm'
    BY <1>1, <1>4, MismatchStays DEF ListsInv, NoFalseAlarm
  <1>7. HashPerEvent'
    <2>1. IsFiniteSet(Pushed) /\ Cardinality(Pushed) \in Nat
      BY ServicesAssumption, FS_Subset, FS_CardinalityType DEF Pushed
    <2>2. Len(inner) = Len(hashes) + Cardinality(Pushed)
      BY DEF ListsInv, HashPerEvent, Pushed
    <2>3. CASE ReadLast(s)
      <3>1. Pushed' = Pushed /\ UNCHANGED <<inner, hashes>>
        BY <1>1, <2>3 DEF ReadLast, Pushed, ChainTypeOK
      <3> QED BY <2>2, <3>1 DEF HashPerEvent, Pushed
    <2>4. CASE PushEvent(s)
      <3>1. Pushed' = Pushed \cup {s} /\ s \notin Pushed
        BY <1>1, <2>4 DEF PushEvent, Pushed, ChainTypeOK
      <3>2. Cardinality(Pushed') = Cardinality(Pushed) + 1
        BY <2>1, <3>1, FS_AddElement
      <3>3. Len(inner') = Len(inner) + 1 /\ hashes' = hashes
        BY <1>2, <2>4 DEF PushEvent
      <3>4. Len(inner') = Len(hashes') + Cardinality(Pushed')
        BY <1>4, <2>1, <2>2, <3>2, <3>3
      <3> QED BY <3>4 DEF HashPerEvent, Pushed
    <2>5. CASE PushHash(s)
      <3>1. Pushed' = Pushed \ {s} /\ s \in Pushed
        BY <1>1, <2>5 DEF PushHash, Pushed, ChainTypeOK
      <3>2. Cardinality(Pushed') = Cardinality(Pushed) - 1
        BY <2>1, <3>1, FS_RemoveElement
      <3>3. Len(hashes') = Len(hashes) + 1 /\ inner' = inner
        BY <1>2, <2>5 DEF PushHash
      <3>4. Len(inner') = Len(hashes') + Cardinality(Pushed')
        BY <1>4, <2>1, <2>2, <3>2, <3>3
      <3> QED BY <3>4 DEF HashPerEvent, Pushed
    <2> QED BY <2>3, <2>4, <2>5
  <1> QED BY <1>5, <1>6, <1>7 DEF ListsInv

\* A verifier compares an earlier list of events with the hashes of now.
LEMMA VerifierKeepsLists ==
  ASSUME ListsInv, ChainInv', NEW v \in Verifiers, SnapshotEvents(v) \/ SnapshotHashes(v)
  PROVE  ListsInv'
  <1>1. ChainTypeOK /\ UNCHANGED <<inner, hashes, stage>>
    BY DEF ListsInv, ChainInv, SnapshotEvents, SnapshotHashes, appendVars
  <1>2. HashPerEvent'
    BY <1>1 DEF ListsInv, HashPerEvent
  <1>3. \A u \in Verifiers : snapshot'[u] = snapshot[u] \/ snapshot'[u] = inner
    BY <1>1 DEF SnapshotEvents, SnapshotHashes, ChainTypeOK
  <1>4. inner \in Seq(Event) /\ Len(inner) \in Nat
    BY <1>1 DEF ChainTypeOK
  <1>5. SnapshotsPast'
    BY <1>1, <1>3, <1>4 DEF ListsInv, SnapshotsPast
  <1>6. ASSUME Mismatches(snapshot[v], hashes) # {}
        PROVE  Mismatches(inner, hashes) # {}
    <2>1. PICK i \in DOMAIN snapshot[v] \cap DOMAIN hashes :
             hashes[i] # SubSeq(snapshot[v], 1, i)
      BY <1>6 DEF Mismatches
    <2>2. snapshot[v] \in Seq(Event)
      BY <1>1 DEF ChainTypeOK
    <2>3. i \in 1..Len(snapshot[v]) /\ i \in 1..Len(inner) /\ Len(snapshot[v]) <= Len(inner)
      BY <1>4, <2>1, <2>2 DEF ListsInv, SnapshotsPast
    <2>4. SubSeq(snapshot[v], 1, i) = SubSeq(inner, 1, i)
      <3>1. \A j \in 1..i : snapshot[v][j] = inner[j]
        BY <2>2, <2>3 DEF ListsInv, SnapshotsPast
      <3>2. /\ SubSeq(snapshot[v], 1, i) \in Seq(Event) /\ SubSeq(inner, 1, i) \in Seq(Event)
            /\ Len(SubSeq(snapshot[v], 1, i)) = i /\ Len(SubSeq(inner, 1, i)) = i
            /\ \A j \in 1..i : /\ SubSeq(snapshot[v], 1, i)[j] = snapshot[v][j]
                               /\ SubSeq(inner, 1, i)[j] = inner[j]
        BY <1>4, <2>2, <2>3
      <3> QED BY <3>1, <3>2
    <2>5. i \in DOMAIN inner \cap DOMAIN hashes /\ hashes[i] # SubSeq(inner, 1, i)
      BY <1>4, <2>1, <2>3, <2>4
    <2> QED BY <2>5 DEF Mismatches
  <1>7. \A u \in Verifiers : verdict'[u] = "broken" =>
           verdict[u] = "broken" \/ (u = v /\ Mismatches(snapshot[v], hashes) # {})
    BY <1>1 DEF SnapshotEvents, SnapshotHashes, ChainTypeOK, Answer
  <1>8. NoFalseAlarm'
    BY <1>1, <1>6, <1>7 DEF ListsInv, NoFalseAlarm
  <1> QED BY <1>2, <1>5, <1>8 DEF ListsInv

\* The lists in step, the snapshots past, no false alarm: in every state.
LEMMA ListsInvariant == ChainSpec => []ListsInv
  <1>1. ChainInit /\ ChainInv => ListsInv
    <2> SUFFICES ASSUME ChainInit, ChainInv PROVE ListsInv
      OBVIOUS
    <2>1. Len(inner) = 0 /\ Len(hashes) = 0 /\ {s \in Services : stage[s] = "pushed"} = {}
      BY DEF ChainInit
    <2>2. HashPerEvent
      BY <2>1, FS_EmptySet DEF HashPerEvent
    <2>3. SnapshotsPast /\ NoFalseAlarm
      BY DEF ChainInit, SnapshotsPast, NoFalseAlarm
    <2> QED BY <2>2, <2>3 DEF ListsInv
  <1>2. ListsInv /\ ChainInv' /\ [ChainNext]_chainVars => ListsInv'
    <2> SUFFICES ASSUME ListsInv, ChainInv', [ChainNext]_chainVars PROVE ListsInv'
      OBVIOUS
    <2>1. CASE UNCHANGED chainVars
      BY <2>1 DEF chainVars, appendVars, ListsInv, HashPerEvent, SnapshotsPast, NoFalseAlarm
    <2> QED BY <2>1, AppendKeepsLists, VerifierKeepsLists DEF ChainNext
  <1> QED BY <1>1, <1>2, ChainInvariant, PTL DEF ChainSpec

\* However the appends of any number of services interleave, the chain is short
\* of exactly the hashes of the appends between their last two steps.
THEOREM ChainHashPerEvent == ChainSpec => []HashPerEvent
  <1>1. ListsInv => HashPerEvent
    BY DEF ListsInv
  <1> QED BY <1>1, ListsInvariant, PTL

\* A torn snapshot is no false alarm: when GET /audit/verify says "broken", the
\* chain is broken, and it stays so.
THEOREM ChainNoFalseAlarm == ChainSpec => []NoFalseAlarm
  <1>1. ListsInv => NoFalseAlarm
    BY DEF ListsInv
  <1> QED BY <1>1, ListsInvariant, PTL

-----------------------------------------------------------------------------
(* The usage log: counting                                                 *)

\* The things counted under each of several labels, added up, are the things
\* that have one of these labels.
LEMMA CountsAddUp ==
    ASSUME NEW S, IsFiniteSet(S), NEW D, IsFiniteSet(D), NEW label,
           NEW fun, \A x \in S : fun[x] = Cardinality({k \in D : label[k] = x})
    PROVE  SumFunctionOnSet(fun, S) = Cardinality({k \in D : label[k] \in S})
  <1> DEFINE Labelled(T) == {k \in D : label[k] \in T}
             same == {n \in 0..Cardinality(S) :
                         \A T \in SUBSET S : Cardinality(T) <= n =>
                             SumFunctionOnSet(fun, T) = Cardinality(Labelled(T))}
  <1>1. /\ Cardinality(S) \in Nat
        /\ \A T \in SUBSET S : IsFiniteSet(T) /\ Cardinality(T) \in Nat
                               /\ Cardinality(T) <= Cardinality(S)
    BY FS_Subset, FS_CardinalityType
  <1>2. \A T \in SUBSET S : Cardinality(T) <= 0 => T = {}
    BY <1>1, FS_EmptySet
  <1>3. \A T \in SUBSET S : \A x \in T : Cardinality(T \ {x}) = Cardinality(T) - 1
    BY <1>1, FS_RemoveElement
  <1>4. \A T : IsFiniteSet(Labelled(T)) /\ Cardinality(Labelled(T)) \in Nat
    BY FS_Subset, FS_CardinalityType
  <1>5. \A x \in S : fun[x] = Cardinality(Labelled({x})) /\ fun[x] \in Nat
    <2> SUFFICES ASSUME NEW x \in S
                 PROVE  fun[x] = Cardinality(Labelled({x})) /\ fun[x] \in Nat
      OBVIOUS
    <2>1. Labelled({x}) = {k \in D : label[k] = x}
      OBVIOUS
    <2>2. fun[x] = Cardinality({k \in D : label[k] = x})
      OBVIOUS
    <2> HIDE DEF Labelled
    <2> QED
      BY <1>4, <2>1, <2>2
  <1>6. ASSUME NEW T, NEW x \in T
        PROVE  Cardinality(Labelled(T)) = Cardinality(Labelled({x})) + Cardinality(Labelled(T \ {x}))
    <2>1. /\ Labelled(T) = Labelled({x}) \cup Labelled(T \ {x})
          /\ Labelled({x}) \cap Labelled(T \ {x}) = {}
      BY <1>6
    <2> HIDE DEF Labelled
    <2>2. Cardinality(Labelled({x}) \cap Labelled(T \ {x})) = 0
      BY <2>1, FS_EmptySet
    <2>3. Cardinality(Labelled({x}) \cup Labelled(T \ {x}))
            = Cardinality(Labelled({x})) + Cardinality(Labelled(T \ {x}))
                - Cardinality(Labelled({x}) \cap Labelled(T \ {x}))
      BY <1>4, FS_Union
    <2>4. Cardinality(Labelled(T)) = Cardinality(Labelled({x}) \cup Labelled(T \ {x}))
      BY <2>1, Zenon
    <2>5. Cardinality(Labelled({x})) \in Nat /\ Cardinality(Labelled(T \ {x})) \in Nat
      BY <1>4
    <2> QED
      BY <2>2, <2>3, <2>4, <2>5
  <1>7. 0 \in same
    <2>1. SumFunctionOnSet(fun, {}) = 0
      BY FS_EmptySet, SumTakesOne
    <2>2. Cardinality(Labelled({})) = 0
      <3>1. Labelled({}) = {}
        OBVIOUS
      <3> QED
        BY <3>1, FS_EmptySet
    <2> HIDE DEF Labelled
    <2> QED
      BY <1>1, <1>2, <2>1, <2>2
  <1> HIDE DEF Labelled
  <1>8. ASSUME NEW n \in 1..Cardinality(S), n - 1 \in same PROVE n \in same
    <2> SUFFICES ASSUME NEW T \in SUBSET S, Cardinality(T) <= n
                 PROVE  SumFunctionOnSet(fun, T) = Cardinality(Labelled(T))
      BY <1>1
    <2>1. CASE T = {}
      <3>1. Cardinality(T) <= n - 1
        BY <1>1, <2>1, FS_EmptySet
      <3> QED
        BY <1>8, <3>1
    <2>2. CASE T # {}
      <3>1. PICK x \in T : TRUE
        BY <2>2
      <3>2. T \ {x} \in SUBSET S /\ Cardinality(T \ {x}) <= n - 1
        BY <1>1, <1>3
      <3>3. SumFunctionOnSet(fun, T \ {x}) = Cardinality(Labelled(T \ {x}))
        BY <1>8, <3>2
      <3>4. SumFunctionOnSet(fun, T) = fun[x] + SumFunctionOnSet(fun, T \ {x})
        <4>1. IsFiniteSet(T) /\ \A y \in T : fun[y] \in Nat
          BY <1>1, <1>5
        <4> QED
          BY <4>1, SumTakesAny
      <3>5. x \in S
        OBVIOUS
      <3> QED
        BY <1>5, <1>6, <3>3, <3>4, <3>5
    <2> QED BY <2>1, <2>2
  <1> HIDE DEF same
  <1>9. Cardinality(S) \in same
    BY <1>1, <1>7, <1>8, CountingUp
  <1> QED
    BY <1>1, <1>9 DEF same, Labelled

\* The places of a list that hold an element of a set.
Hits(s, Q) == {k \in DOMAIN s : s[k] \in Q}

\* One more element is one more place if it is in the set.
LEMMA HitsOneMore ==
    ASSUME NEW E, NEW s \in Seq(E), NEW e \in E, NEW t, OneMore(t, s, e), NEW Q
    PROVE  /\ IsFiniteSet(Hits(s, Q)) /\ Cardinality(Hits(s, Q)) \in Nat
           /\ Cardinality(Hits(t, Q)) =
                IF e \in Q THEN Cardinality(Hits(s, Q)) + 1 ELSE Cardinality(Hits(s, Q))
  <1> DEFINE n == Len(s) + 1
  <1>1. Len(s) \in Nat /\ DOMAIN s = 1..Len(s) /\ n \notin DOMAIN s
    OBVIOUS
  <1>2. IsFiniteSet(DOMAIN s)
    BY <1>1, FS_Interval
  <1>3. IsFiniteSet(Hits(s, Q)) /\ Cardinality(Hits(s, Q)) \in Nat
    <2>1. Hits(s, Q) \in SUBSET (DOMAIN s)
      BY DEF Hits
    <2> HIDE DEF n
    <2> QED
      BY <1>2, <2>1, FS_Subset, FS_CardinalityType
  <1>4. /\ DOMAIN t = DOMAIN s \cup {n} /\ t[n] = e
        /\ \A k \in DOMAIN s : t[k] = s[k]
    BY <1>1 DEF OneMore
  <1> HIDE DEF n
  <1>5. Hits(t, Q) = IF e \in Q THEN Hits(s, Q) \cup {n} ELSE Hits(s, Q)
    BY <1>1, <1>4 DEF Hits
  <1>6. n \notin Hits(s, Q)
    BY <1>1 DEF Hits
  <1>7. Cardinality(Hits(s, Q) \cup {n}) = Cardinality(Hits(s, Q)) + 1
    BY <1>3, <1>6, FS_AddElement
  <1> QED
    BY <1>3, <1>5, <1>7

-----------------------------------------------------------------------------
(* What filter keeps                                                       *)

\* Keeping is a fold over the list's positions.
FoldsKept(f, set, s) ==
    f = [T \in SUBSET (DOMAIN s) |->
            IF T = {} THEN << >>
            ELSE IF s[Max(T)] \in set THEN Append(f[T \ {Max(T)}], s[Max(T)])
                 ELSE f[T \ {Max(T)}]]

\* The fold of one list, and its step.
KeptFold(set, s) == CHOOSE f : FoldsKept(f, set, s)

AddKept(set, kept, x) == IF x \in set THEN Append(kept, x) ELSE kept

KeptStep(set, E) == [p \in Seq(E) \X E |-> AddKept(set, p[1], p[2])]

\* What is kept is the fold of all positions, built up prefix by prefix.
LEMMA KeptIsFold ==
    ASSUME NEW E, NEW set, NEW s \in Seq(E)
    PROVE  /\ Kept(s, set) = KeptFold(set, s)[DOMAIN s]
           /\ KeptFold(set, s)[{}] = << >>
           /\ FoldsPrefixes(KeptFold(set, s), s, Seq(E), E, << >>, KeptStep(set, E))
  <1> DEFINE V == Seq(E)
             base == << >>
             step == KeptStep(set, E)
             F == KeptFold(set, s)
  <1>1. Kept(s, set) = F[DOMAIN s]
    BY DEF Kept, FoldLeft, MapThenFoldSet, KeptFold, FoldsKept
  <1>2. base \in V
    OBVIOUS
  <1>3. \A kept \in V, x \in E : AddKept(set, kept, x) \in V
    BY DEF AddKept
  <1>4. step \in [V \X E -> V]
    BY <1>3 DEF KeptStep
  <1>5. \A kept \in V, x \in E : step[<<kept, x>>] = AddKept(set, kept, x)
    BY DEF KeptStep
  <1> HIDE DEF V, base, step, F
  <1>6. PICK f \in [SUBSET (DOMAIN s) -> V] : FoldsPositions(f, s, base, step)
    BY <1>2, <1>4, ListFoldExists
  <1>7. \A T \in SUBSET (DOMAIN s) : T # {} => Max(T) \in DOMAIN s /\ s[Max(T)] \in E
    <2>1. \A i \in DOMAIN s : s[i] \in E
      OBVIOUS
    <2> QED
      BY <1>6, <2>1 DEF FoldsPositions
  <1>8. ASSUME NEW T \in SUBSET (DOMAIN s)
        PROVE  f[T] = IF T = {} THEN base ELSE AddKept(set, f[T \ {Max(T)}], s[Max(T)])
    BY <1>5, <1>6, <1>7 DEF FoldsPositions
  <1>9. FoldsKept(f, set, s)
    BY <1>6, <1>8 DEF FoldsKept, AddKept, base
  <1>10. FoldsKept(F, set, s)
    BY <1>9 DEF KeptFold, F
  <1>11. F[{}] = base
    BY <1>10 DEF FoldsKept, base
  <1>12. ASSUME NEW T \in SUBSET (DOMAIN s), T # {}, F[T \ {Max(T)}] \in V
         PROVE  F[T] = step[<<F[T \ {Max(T)}], s[Max(T)]>>]
    <2>1. F[T] = AddKept(set, F[T \ {Max(T)}], s[Max(T)])
      BY <1>10, <1>12 DEF FoldsKept, AddKept
    <2> QED
      BY <1>5, <1>7, <1>12, <2>1
  <1>13. FoldsPrefixes(F, s, V, E, base, step)
    BY <1>2, <1>4, <1>11, <1>12, FoldFollowsPrefixes
  <1> QED
    BY <1>1, <1>11, <1>13 DEF V, base, step, F

\* Nothing is kept of nothing.
LEMMA KeptEmpty == \A set : Kept(<< >>, set) = << >>
  <1> SUFFICES ASSUME NEW set PROVE Kept(<< >>, set) = << >>
    OBVIOUS
  <1> DEFINE none == << >>
  <1>1. none \in Seq({}) /\ DOMAIN none = {}
    OBVIOUS
  <1> HIDE DEF none
  <1>2. Kept(none, set) = KeptFold(set, none)[DOMAIN none] /\ KeptFold(set, none)[{}] = << >>
    BY <1>1, KeptIsFold
  <1> QED
    BY <1>1, <1>2 DEF none

\* One more element is kept behind the others, or dropped.
LEMMA KeptOneMore ==
    ASSUME NEW E, NEW set, NEW s \in Seq(E), NEW e \in E, NEW t, OneMore(t, s, e)
    PROVE  /\ Kept(s, set) \in Seq(E)
           /\ Kept(t, set) = AddKept(set, Kept(s, set), e)
  <1> DEFINE V == Seq(E)
             step == KeptStep(set, E)
             base == << >>
  <1>1. t \in Seq(E)
    BY DEF OneMore
  <1> HIDE DEF V, step, base
  <1>2. /\ FoldsPrefixes(KeptFold(set, s), s, V, E, base, step)
        /\ FoldsPrefixes(KeptFold(set, t), t, V, E, base, step)
    BY <1>1, KeptIsFold DEF V, step, base
  <1>3. OneStep(KeptFold(set, t), t, KeptFold(set, s), s, e, V, step)
    BY <1>1, <1>2, ListFoldSteps
  <1>4. /\ Kept(s, set) = KeptFold(set, s)[DOMAIN s]
        /\ Kept(t, set) = KeptFold(set, t)[DOMAIN t]
    BY <1>1, KeptIsFold
  <1>5. Kept(s, set) \in V /\ Kept(t, set) = step[<<Kept(s, set), e>>]
    BY <1>3, <1>4 DEF OneStep
  <1> QED
    BY <1>5 DEF V, step, KeptStep

\* Among the kept elements are as many of Q as there are of Q and the set.
LEMMA KeptHits ==
    ASSUME NEW E, NEW list \in Seq(E), NEW set, NEW Q
    PROVE  /\ Kept(list, set) \in Seq(E)
           /\ Cardinality(Hits(Kept(list, set), Q)) = Cardinality(Hits(list, set \cap Q))
           /\ ToSet(Kept(list, set)) = ToSet(list) \cap set
  <1> DEFINE n == Len(list)
             none == << >>
             first(k) == Joined(none, list, k)
             kept(k) == Kept(first(k), set)
             same == {k \in 0..n :
                        /\ kept(k) \in Seq(E)
                        /\ Cardinality(Hits(kept(k), Q)) = Cardinality(Hits(first(k), set \cap Q))
                        /\ ToSet(kept(k)) = ToSet(first(k)) \cap set}
  <1>1. n \in Nat /\ DOMAIN list = 1..n /\ none \in Seq(E)
    OBVIOUS
  <1> HIDE DEF n, none
  <1>2. /\ first(0) = none
        /\ \A k \in 1..n : /\ first(k - 1) \in Seq(E) /\ list[k] \in E
                           /\ OneMore(first(k), first(k - 1), list[k])
    BY <1>1, JoinedSteps DEF n
  <1>3. first(n) = list
    <2>1. first(n) = none \o list
      BY <1>1, JoinedSteps DEF n
    <2> QED
      BY <1>1, <2>1 DEF none
  <1> HIDE DEF first
  <1>4. 0 \in same
    <2>1. kept(0) = none
      BY <1>2, KeptEmpty DEF none
    <2>2. Hits(none, Q) = {} /\ Hits(none, set \cap Q) = {} /\ ToSet(none) = {}
      BY DEF Hits, ToSet, none
    <2> HIDE DEF kept
    <2>3. Hits(kept(0), Q) = Hits(first(0), set \cap Q)
      BY <1>2, <2>1, <2>2
    <2>4. Cardinality(Hits(kept(0), Q)) = Cardinality(Hits(first(0), set \cap Q))
      BY <2>3
    <2>5. ToSet(kept(0)) = ToSet(first(0)) \cap set
      BY <1>2, <2>1, <2>2
    <2>6. kept(0) \in Seq(E) /\ 0 \in 0..n
      BY <1>1, <2>1
    <2> QED
      BY <2>4, <2>5, <2>6
  <1>5. \A k \in 1..n : k - 1 \in same => k \in same
    <2> SUFFICES ASSUME NEW k \in 1..n, k - 1 \in same PROVE k \in same
      OBVIOUS
    <2> DEFINE e == list[k]
    <2>1. /\ first(k - 1) \in Seq(E) /\ e \in E
          /\ OneMore(first(k), first(k - 1), e)
      BY <1>2
    <2>2. /\ kept(k - 1) \in Seq(E)
          /\ Cardinality(Hits(kept(k - 1), Q)) = Cardinality(Hits(first(k - 1), set \cap Q))
          /\ ToSet(kept(k - 1)) = ToSet(first(k - 1)) \cap set
      OBVIOUS
    <2> HIDE DEF e
    <2>3. kept(k) = AddKept(set, kept(k - 1), e)
      BY <2>1, KeptOneMore
    <2> HIDE DEF kept, same
    <2>4. Cardinality(Hits(first(k), set \cap Q)) =
            IF e \in set \cap Q THEN Cardinality(Hits(first(k - 1), set \cap Q)) + 1
            ELSE Cardinality(Hits(first(k - 1), set \cap Q))
      BY <2>1, HitsOneMore
    <2>5. ToSet(first(k)) = ToSet(first(k - 1)) \cup {e}
      BY <2>1, ElementsOfAppend DEF OneMore
    <2>6. CASE e \in set
      <3>1. OneMore(kept(k), kept(k - 1), e)
        BY <2>3, <2>6 DEF AddKept, OneMore
      <3>2. Cardinality(Hits(kept(k), Q)) =
              IF e \in Q THEN Cardinality(Hits(kept(k - 1), Q)) + 1
              ELSE Cardinality(Hits(kept(k - 1), Q))
        BY <2>1, <2>2, <3>1, HitsOneMore
      <3>3. ToSet(kept(k)) = ToSet(kept(k - 1)) \cup {e} /\ kept(k) \in Seq(E)
        BY <2>1, <2>2, <3>1, ElementsOfAppend, AppendProperties DEF OneMore
      <3> QED
        BY <1>1, <2>2, <2>4, <2>5, <2>6, <3>2, <3>3 DEF same
    <2>7. CASE e \notin set
      <3>1. kept(k) = kept(k - 1)
        BY <2>3, <2>7 DEF AddKept
      <3> QED
        BY <1>1, <2>2, <2>4, <2>5, <2>7, <3>1 DEF same
    <2> QED BY <2>6, <2>7
  <1> HIDE DEF same
  <1>6. n \in same
    <2>1. 0..n \subseteq same
      BY <1>1, <1>4, <1>5, CountingUp
    <2> QED
      BY <1>1, <2>1
  <1> QED
    BY <1>3, <1>6 DEF same

-----------------------------------------------------------------------------
(* The inductive invariant                                                 *)

\* The passengers with a history, the resources on offer, and the log's events.
Histories == {PassengerSeeds[i].id : i \in DOMAIN PassengerSeeds}

Offered == ToSet(ResourceOrder)

LogEntry == [passenger : Histories, resource : Offered, tier : Tiers, minTier : Tiers,
             time : Nat, outcome : {"Allowed", "Denied"}]

\* The lists differ from the seeds only in the passengers' tiers, the log holds
\* events of theirs, and what the client has got begins like it, up to the cap.
ReportInv ==
    /\ Listing(pActive, ActorIds) /\ DOMAIN pActive = DOMAIN PassengerSeeds
    /\ \A i \in DOMAIN pActive : pActive[i].id = PassengerSeeds[i].id
    /\ rActive = ResourceSeeds
    /\ accessClock \in Nat
    /\ usage \in Seq(LogEntry) /\ read \in Seq(LogEntry)
    /\ PagesExactUpToCap

\* find returns the one record with the id.
LEMMA FoundRecord ==
    ASSUME NEW ids, NEW list, Listing(list, ids), NEW id
    PROVE  /\ \A i \in DOMAIN list : list[i].id = id => Finds(list, id) /\ Find(list, id) = list[i]
           /\ Finds(list, id) => Find(list, id).level \in Tiers
  <1> DEFINE R == [id : ids, level : Tiers]
  <1>1. /\ list \in Seq(R)
        /\ \A i, j \in DOMAIN list : list[i].id = list[j].id => i = j
    BY DEF Listing
  <1>3. \A r \in R : r.level \in Tiers
    OBVIOUS
  <1> HIDE DEF R
  <1>2. ASSUME NEW i \in DOMAIN list, list[i].id = id
        PROVE  Finds(list, id) /\ Find(list, id) = list[i] /\ list[i].level \in Tiers
    <2>1. \A j \in 1..(i - 1) : list[j].id # id
      BY <1>1, <1>2
    <2> DEFINE k == CHOOSE k \in DOMAIN list : list[k].id = id /\ \A j \in 1..(k - 1) : list[j].id # id
    <2>2. k \in DOMAIN list /\ list[k].id = id
      BY <1>2, <2>1
    <2>3. Finds(list, id) /\ Find(list, id) = list[k]
      BY <1>2 DEF Finds, Find
    <2> HIDE DEF k
    <2>4. k = i
      BY <1>1, <1>2, <2>2
    <2>5. list[i] \in R
      BY <1>1
    <2> QED
      BY <1>3, <2>3, <2>4, <2>5
  <1> QED
    BY <1>2 DEF Finds

\* Truncate keeps the first elements of a list.
LEMMA TruncateKeeps ==
    ASSUME NEW E, NEW list \in Seq(E), NEW n \in Nat
    PROVE  /\ Truncate(list, n) \in Seq(E)
           /\ n <= Len(list) => Truncate(list, n) = SubSeq(list, 1, n)
           /\ Len(list) <= n => Truncate(list, n) = list
  <1>1. CASE n < Len(list)
    <2>1. Truncate(list, n) = SubSeq(list, 1, n)
      BY <1>1 DEF Truncate
    <2> QED
      BY <1>1, <2>1
  <1>2. CASE ~(n < Len(list))
    <2>1. Truncate(list, n) = SubSeq(list, 1, Len(list))
      BY <1>2 DEF Truncate
    <2>2. SubSeq(list, 1, Len(list)) = list
      OBVIOUS
    <2>3. n <= Len(list) => n = Len(list)
      BY <1>2
    <2> QED
      BY <2>1, <2>2, <2>3
  <1> QED
    BY <1>1, <1>2

\* The first elements of a prefix are a prefix.
LEMMA TruncatePrefix ==
    ASSUME NEW E, NEW list \in Seq(E), NEW log \in Seq(E), NEW n \in Nat, IsPrefix(list, log)
    PROVE  IsPrefix(Truncate(list, n), log)
  <1>1. CASE n <= Len(list)
    <2> DEFINE first == SubSeq(list, 1, n)
    <2>1. first \in Seq(E) /\ Len(first) = n /\ n <= Len(log) /\ Len(list) <= Len(log)
      BY <1>1 DEF IsPrefix
    <2>2. \A k \in 1..n : first[k] = log[k]
      <3>1. SubSeq(list, 1, Len(list)) = SubSeq(log, 1, Len(list))
        BY DEF IsPrefix
      <3>2. \A k \in 1..Len(list) : SubSeq(list, 1, Len(list))[k] = list[k]
                                     /\ SubSeq(log, 1, Len(list))[k] = log[k]
        BY <2>1
      <3>3. \A k \in 1..n : first[k] = list[k] /\ k \in 1..Len(list)
        BY <1>1
      <3> QED
        BY <3>1, <3>2, <3>3
    <2>3. Truncate(list, n) = first
      BY <1>1, TruncateKeeps
    <2> HIDE DEF first
    <2>4. SubSeq(first, 1, n) = SubSeq(log, 1, n)
      BY <2>1, <2>2
    <2> QED
      BY <2>1, <2>3, <2>4 DEF IsPrefix
  <1>2. CASE Len(list) <= n
    BY <1>2, TruncateKeeps
  <1> QED
    BY <1>1, <1>2

\* Below the cap a page is what comes next in the log, at most so much of it.
LEMMA PageContinues ==
    ASSUME NEW E, NEW log \in Seq(E), NEW seen \in Seq(E), IsPrefix(seen, log),
           Len(seen) <= MaxOffset
    PROVE  LET more == seen \o Page(log, Len(seen), PageLimit)
           IN  more \in Seq(E) /\ IsPrefix(more, log)
  <1> DEFINE n == Len(seen)
             rest == SubSeq(log, n + 1, Len(log))
             page == Page(log, n, PageLimit)
             m == IF PageLimit < Len(rest) THEN PageLimit ELSE Len(rest)
  <1>1. n \in Nat /\ Len(log) \in Nat /\ n <= Len(log) /\ PageLimit \in Nat
    BY PagingAssumption DEF IsPrefix
  <1>2. \A k \in 1..n : seen[k] = log[k]
    <2>1. SubSeq(seen, 1, n) = SubSeq(log, 1, n)
      BY DEF IsPrefix
    <2>2. \A k \in 1..n : SubSeq(seen, 1, n)[k] = seen[k] /\ SubSeq(log, 1, n)[k] = log[k]
      BY <1>1
    <2> QED
      BY <2>1, <2>2
  <1>3. /\ rest \in Seq(E) /\ Len(rest) = Len(log) - n
        /\ \A k \in 1..Len(rest) : rest[k] = log[n + k]
    BY <1>1
  <1>4. page = SubSeq(rest, 1, m)
    <2>1. Offset(n) = n
      BY <1>1, PagingAssumption DEF Offset
    <2> QED
      BY <2>1 DEF Page, Truncate
  <1> HIDE DEF rest, page
  <1>5. m \in Nat /\ m <= Len(rest)
    BY <1>1, <1>3
  <1> HIDE DEF m
  <1>6. page \in Seq(E) /\ Len(page) = m /\ \A k \in 1..m : page[k] = rest[k]
    BY <1>3, <1>4, <1>5
  <1> HIDE DEF n
  <1> DEFINE all == seen \o page
  <1>7. /\ all \in Seq(E) /\ Len(all) = n + m
        /\ \A k \in 1..(n + m) : all[k] = IF k <= n THEN seen[k] ELSE page[k - n]
    <2>1. all \in Seq(E) /\ Len(all) = Len(seen) + Len(page)
      BY <1>6
    <2>2. \A k \in 1..(Len(seen) + Len(page)) :
             all[k] = IF k <= Len(seen) THEN seen[k] ELSE page[k - Len(seen)]
      BY <1>6
    <2> QED
      BY <1>6, <2>1, <2>2 DEF n
  <1>8. \A k \in 1..(n + m) : all[k] = log[k]
    <2> SUFFICES ASSUME NEW k \in 1..(n + m) PROVE all[k] = log[k]
      OBVIOUS
    <2>1. CASE k <= n
      BY <1>1, <1>2, <1>5, <1>7, <2>1
    <2>2. CASE k > n
      <3>1. k - n \in 1..m /\ k - n \in 1..Len(rest) /\ n + (k - n) = k
        BY <1>1, <1>3, <1>5, <2>2
      <3>2. all[k] = page[k - n]
        BY <1>1, <1>5, <1>7, <2>2
      <3>3. page[k - n] = rest[k - n] /\ rest[k - n] = log[n + (k - n)]
        BY <1>3, <1>6, <3>1
      <3> QED
        BY <3>1, <3>2, <3>3
    <2>3. k <= n \/ k > n
      BY <1>1, <1>5
    <2> QED BY <2>1, <2>2, <2>3
  <1> HIDE DEF all
  <1>9. SubSeq(all, 1, Len(all)) = SubSeq(log, 1, Len(all))
    BY <1>1, <1>3, <1>5, <1>7, <1>8
  <1>10. Len(all) <= Len(log)
    BY <1>1, <1>3, <1>5, <1>7
  <1> QED
    BY <1>7, <1>9, <1>10 DEF IsPrefix, all, page, n

\* An attempt adds its event to the log.
LEMMA AccessKeeps ==
    ASSUME ReportInv, NEW pid \in Histories, NEW rid \in Offered, Access(pid, rid)
    PROVE  ReportInv'
  <1> DEFINE u == UsageEvent(pid, rid)
  <1>1. /\ usage' = Append(usage, u) /\ accessClock' = accessClock + 1
        /\ Finds(pActive, pid) /\ Finds(rActive, rid)
        /\ UNCHANGED <<pActive, rActive, read>>
    BY DEF Access, UseResource, UseOutcome
  <1>2. Listing(pActive, ActorIds) /\ Listing(rActive, ResourceIds)
    BY SeedsAssumption DEF ReportInv
  <1>3. Find(pActive, pid).level \in Tiers /\ Find(rActive, rid).level \in Tiers
    BY <1>1, <1>2, FoundRecord
  <1>4. u \in LogEntry
    BY <1>3 DEF UsageEvent, LogEntry, ReportInv
  <1> HIDE DEF u
  <1>5. usage' \in Seq(LogEntry)
    BY <1>1, <1>4 DEF ReportInv
  <1>6. PagesExactUpToCap'
    <2> DEFINE got == Truncate(read, MaxOffset + 1)
    <2>1. usage \in Seq(LogEntry) /\ IsPrefix(got, usage)
      BY DEF ReportInv, PagesExactUpToCap
    <2>2. got \in Seq(LogEntry)
      BY PagingAssumption, TruncateKeeps DEF ReportInv
    <2> HIDE DEF got
    <2>3. IsPrefix(got, Append(usage, u))
      BY <1>4, <2>1, <2>2, PrefixOfAppend
    <2> QED
      BY <1>1, <2>3 DEF PagesExactUpToCap, got
  <1> QED
    BY <1>1, <1>2, <1>5, <1>6 DEF ReportInv

\* A change of a passenger's tier.
LEMMA ChangeTierKeeps ==
    ASSUME ReportInv, NEW i \in DOMAIN PassengerSeeds, NEW level \in Levels, ChangeTier(i, level)
    PROVE  ReportInv'
  <1>1. /\ pActive' = [pActive EXCEPT ![i].level = level]
        /\ UNCHANGED <<rActive, accessClock, usage, read>>
    BY DEF ChangeTier
  <1> DEFINE R == [id : ActorIds, level : Tiers]
             r == [pActive[i] EXCEPT !.level = level]
  <1>2. pActive \in Seq(R) /\ i \in DOMAIN pActive /\ level \in Tiers
    BY LevelsAssumption DEF ReportInv, Listing
  <1>3. r \in R /\ r.id = pActive[i].id
    <2>1. pActive[i] \in R
      <3> HIDE DEF R
      <3> QED
        BY <1>2
    <2> QED
      BY <1>2, <2>1
  <1>4. pActive' = [pActive EXCEPT ![i] = r]
    BY <1>1
  <1> HIDE DEF r, R
  <1>5. /\ pActive' \in Seq(R) /\ Len(pActive') = Len(pActive)
        /\ DOMAIN pActive' = DOMAIN pActive
        /\ \A k \in DOMAIN pActive : pActive'[k] = IF k = i THEN r ELSE pActive[k]
    BY <1>2, <1>3, <1>4, OverwriteProperties
  <1>6. \A k \in DOMAIN pActive' : pActive'[k].id = pActive[k].id
    BY <1>3, <1>5
  <1>7. Listing(pActive', ActorIds)
    BY <1>5, <1>6 DEF ReportInv, Listing, R
  <1>8. \A k \in DOMAIN pActive' : pActive'[k].id = PassengerSeeds[k].id
    BY <1>5, <1>6 DEF ReportInv
  <1> QED
    BY <1>1, <1>5, <1>7, <1>8 DEF ReportInv, PagesExactUpToCap

\* The client gets the next page.
LEMMA ReadPageKeeps ==
    ASSUME ReportInv, ReadPage
    PROVE  ReportInv'
  <1>1. /\ read' = read \o Page(usage, Len(read), PageLimit)
        /\ UNCHANGED <<pActive, rActive, accessClock, usage>>
    BY DEF ReadPage
  <1> DEFINE page == Page(usage, Len(read), PageLimit)
             cap == MaxOffset + 1
  <1>2. /\ usage \in Seq(LogEntry) /\ read \in Seq(LogEntry)
        /\ IsPrefix(Truncate(read, cap), usage) /\ cap \in Nat
    BY PagingAssumption DEF ReportInv, PagesExactUpToCap
  <1>3. page \in Seq(LogEntry)
    <2> DEFINE rest == SubSeq(usage, Offset(Len(read)) + 1, Len(usage))
    <2>1. Offset(Len(read)) \in Nat
      BY <1>2, PagingAssumption DEF Offset
    <2>2. rest \in Seq(LogEntry)
      BY <1>2, <2>1
    <2>3. page = Truncate(rest, PageLimit)
      BY DEF Page
    <2> HIDE DEF rest
    <2> QED
      BY <2>2, <2>3, PagingAssumption, TruncateKeeps
  <1> HIDE DEF page
  <1>4. read \o page \in Seq(LogEntry)
    BY <1>2, <1>3
  <1>5. IsPrefix(Truncate(read \o page, cap), usage)
    <2>1. CASE Len(read) <= MaxOffset
      <3>1. IsPrefix(read, usage)
        <4>1. Len(read) <= cap
          BY <1>2, <2>1, PagingAssumption
        <4> QED
          BY <1>2, <4>1, TruncateKeeps
      <3>2. IsPrefix(read \o page, usage)
        BY <1>2, <2>1, <3>1, PageContinues DEF page
      <3> QED
        BY <1>2, <1>4, <3>2, TruncatePrefix
    <2>2. CASE cap <= Len(read)
      <3>1. cap <= Len(read \o page)
        BY <1>2, <1>3, <2>2
      <3>2. SubSeq(read \o page, 1, cap) = SubSeq(read, 1, cap)
        BY <1>2, <1>3, <2>2
      <3>3. /\ Truncate(read \o page, cap) = SubSeq(read \o page, 1, cap)
            /\ Truncate(read, cap) = SubSeq(read, 1, cap)
        BY <1>2, <1>4, <2>2, <3>1, TruncateKeeps
      <3> QED
        BY <1>2, <3>2, <3>3
    <2> QED
      BY <1>2, <2>1, <2>2, PagingAssumption
  <1> QED
    BY <1>1, <1>4, <1>5 DEF ReportInv, Listing, PagesExactUpToCap, page

-----------------------------------------------------------------------------
(* The listing of accessible resources                                     *)

\* What the listing has is what the access service would allow.
LEMMA InvAccessible == ReportInv => AccessibleMeansAllowed
  <1> SUFFICES ASSUME ReportInv, NEW i \in DOMAIN pActive, NEW j \in DOMAIN rActive
               PROVE  rActive[j] \in ToSet(ListAccessibleFor(pActive[i].level))
                        <=> UseOutcome([role |-> "Passenger", id |-> pActive[i].id], rActive[j].id) = "Ok"
    BY DEF AccessibleMeansAllowed
  <1> DEFINE p == pActive[i]
             r == rActive[j]
             fit == {x \in ToSet(rActive) : CanAccess(p.level, x.level)}
             actor == [role |-> "Passenger", id |-> p.id]
  <1>1. Listing(pActive, ActorIds) /\ Listing(rActive, ResourceIds)
    BY SeedsAssumption DEF ReportInv
  <1>2. /\ Finds(pActive, p.id) /\ Find(pActive, p.id) = p
        /\ Finds(rActive, r.id) /\ Find(rActive, r.id) = r
    BY <1>1, FoundRecord
  <1>3. UseOutcome(actor, r.id) = "Ok" <=> CanAccess(p.level, r.level)
    BY <1>2 DEF UseOutcome, Allowed
  <1>4. ToSet(ListAccessibleFor(p.level)) = ToSet(rActive) \cap fit
    <2> DEFINE R == [id : ResourceIds, level : Tiers]
    <2>1. rActive \in Seq(R)
      BY <1>1 DEF Listing
    <2>2. ListAccessibleFor(p.level) = Kept(rActive, fit)
      BY DEF ListAccessibleFor
    <2> HIDE DEF R, fit
    <2> QED
      BY <2>1, <2>2, KeptHits
  <1>5. r \in ToSet(rActive)
    BY DEF ToSet
  <1> QED
    BY <1>3, <1>4, <1>5

-----------------------------------------------------------------------------
(* The ranking                                                             *)

\* Ids have different ranks.
LEMMA RanksDiffer ==
    ASSUME NEW rid \in Offered
    PROVE  /\ IdRank(rid) \in DOMAIN ResourceOrder /\ IdRank(rid) \in Nat
           /\ ResourceOrder[IdRank(rid)] = rid
  <1>1. PICK k \in DOMAIN ResourceOrder : ResourceOrder[k] = rid
    BY DEF Offered, ToSet
  <1>2. /\ ResourceSeeds \in Seq([id : ResourceIds, level : Tiers])
        /\ \A i, j \in DOMAIN ResourceSeeds : ResourceSeeds[i].id = ResourceSeeds[j].id => i = j
    BY SeedsAssumption DEF Listing
  <1>3. /\ Len(ResourceSeeds) \in Nat /\ DOMAIN ResourceOrder = 1..Len(ResourceSeeds)
        /\ DOMAIN ResourceOrder = DOMAIN ResourceSeeds
        /\ \A i \in DOMAIN ResourceSeeds : ResourceOrder[i] = ResourceSeeds[i].id
    BY <1>2 DEF ResourceOrder
  <1>4. Len(ResourceOrder) = Len(ResourceSeeds)
    BY <1>3 DEF ResourceOrder
  <1> DEFINE I == {i \in 1..Len(ResourceOrder) : ResourceOrder[i] = rid}
  <1>5. I = {k}
    BY <1>1, <1>2, <1>3, <1>4
  <1>6. Min(I) = k
    BY <1>1, <1>3, <1>5 DEF Min
  <1>7. IdRank(rid) = k
    BY <1>5, <1>6 DEF IdRank, SelectInSeq
  <1> QED
    BY <1>1, <1>3, <1>7

\* The places of the log are finitely many numbers.
LogFinite == IsFiniteSet(DOMAIN usage) /\ DOMAIN usage = 1..Len(usage) /\ Len(usage) \in Nat

\* So it is with every log.
LEMMA InvLogFinite == ReportInv => LogFinite
  BY FS_Interval DEF ReportInv, LogFinite

\* How many attempts there are of any kind is a number.
LEMMA AllowedUsesNat ==
    ASSUME LogFinite, NEW rid
    PROVE  AllowedUses(rid) \in Nat
  <1>1. {k \in DOMAIN usage : usage[k].resource = rid /\ usage[k].outcome = "Allowed"} \in SUBSET (DOMAIN usage)
    OBVIOUS
  <1> QED
    BY <1>1, FS_Subset, FS_CardinalityType DEF AllowedUses, LogFinite

\* The entries: one per resource, and finitely many.
LEMMA EntriesAre ==
    ASSUME LogFinite
    PROVE  /\ IsFiniteSet(Entries) /\ Cardinality(Entries) \in Nat
           /\ \A e \in Entries : e.id \in Offered /\ e.count = AllowedUses(e.id)
                                 /\ e.count \in Nat /\ e.count > 0
           /\ \A d, e \in Entries : d.id = e.id => d = e
           /\ \A rid \in Offered : AllowedUses(rid) > 0 => \E e \in Entries : e.id = rid
           /\ Cardinality(Entries) <= Len(ResourceOrder) /\ Len(ResourceOrder) \in Nat
  <1>1. \A rid \in Offered : AllowedUses(rid) \in Nat
    BY AllowedUsesNat
  <1>2. /\ \A e \in Entries : e.id \in Offered /\ e.count = AllowedUses(e.id)
                              /\ e.count \in Nat /\ e.count > 0
        /\ \A d, e \in Entries : d.id = e.id => d = e
        /\ \A rid \in Offered : AllowedUses(rid) > 0 => \E e \in Entries : e.id = rid
    <2>1. \A e \in Entries : \E rid \in Offered :
             AllowedUses(rid) > 0 /\ e = [id |-> rid, count |-> AllowedUses(rid)]
      BY DEF Entries, Offered
    <2>2. \A rid \in Offered : AllowedUses(rid) > 0 =>
             [id |-> rid, count |-> AllowedUses(rid)] \in Entries
      BY DEF Entries, Offered
    <2>3. \A e \in Entries : e.id \in Offered /\ e.count = AllowedUses(e.id) /\ e.count > 0
                               /\ e = [id |-> e.id, count |-> AllowedUses(e.id)]
      BY <2>1
    <2>4. \A d, e \in Entries : d.id = e.id => d = e
      BY <2>3
    <2>5. \A rid \in Offered : AllowedUses(rid) > 0 => \E e \in Entries : e.id = rid
      BY <2>2
    <2> QED
      BY <1>1, <2>3, <2>4, <2>5
  <1>3. Len(ResourceOrder) \in Nat /\ DOMAIN ResourceOrder = 1..Len(ResourceOrder)
    <2>1. ResourceSeeds \in Seq([id : ResourceIds, level : Tiers])
      BY SeedsAssumption DEF Listing
    <2>2. Len(ResourceSeeds) \in Nat /\ DOMAIN ResourceSeeds = 1..Len(ResourceSeeds)
      BY <2>1
    <2> QED
      BY <2>2 DEF ResourceOrder
  <1> DEFINE D == DOMAIN ResourceOrder
             f == [e \in Entries |-> IdRank(e.id)]
  <1>4. IsFiniteSet(D) /\ Cardinality(D) = Len(ResourceOrder)
    <2> DEFINE m == Len(ResourceOrder)
    <2>1. m \in Nat /\ D = 1..m
      BY <1>3
    <2> HIDE DEF m, D
    <2>2. IsFiniteSet(1..m) /\ Cardinality(1..m) = m
      BY <2>1, FS_Interval
    <2> QED
      BY <2>1, <2>2 DEF m
  <1>5. f \in Injection(Entries, D)
    <2>1. \A e \in Entries : IdRank(e.id) \in D
      <3> SUFFICES ASSUME NEW e \in Entries PROVE IdRank(e.id) \in D
        OBVIOUS
      <3> QED
        BY <1>2, RanksDiffer
    <2>2. \A d, e \in Entries : IdRank(d.id) = IdRank(e.id) => d = e
      BY <1>2, RanksDiffer
    <2> QED
      BY <2>1, <2>2 DEF Injection, IsInjective
  <1>6. IsFiniteSet(Entries) /\ Cardinality(Entries) <= Cardinality(D)
    BY <1>4, <1>5, FS_Injection
  <1> QED
    BY <1>2, <1>3, <1>4, <1>6, FS_CardinalityType

\* The order of the ranking is strict and total.
LEMMA BeforeIsOrder ==
    ASSUME LogFinite
    PROVE  /\ \A e \in Entries : ~Before(e, e)
           /\ \A d, e \in Entries : d # e => Before(d, e) \/ Before(e, d)
           /\ \A c, d, e \in Entries : Before(c, d) /\ Before(d, e) => Before(c, e)
  <1>1. \A e \in Entries : e.count \in Nat /\ IdRank(e.id) \in Nat
    BY EntriesAre, RanksDiffer
  <1>2. \A d, e \in Entries : IdRank(d.id) = IdRank(e.id) => d = e
    BY EntriesAre, RanksDiffer
  <1> QED
    BY <1>1, <1>2 DEF Before

\* The entries in front of an entry.
Ahead(e) == {d \in Entries : Before(d, e)}

\* Whoever comes before another has fewer ahead.
LEMMA PlacesGrow ==
    ASSUME LogFinite
    PROVE  /\ \A e \in Entries : Cardinality(Ahead(e)) \in 0..(Cardinality(Entries) - 1)
           /\ \A d, e \in Entries : Before(d, e) => Cardinality(Ahead(d)) < Cardinality(Ahead(e))
           /\ \A d, e \in Entries : Cardinality(Ahead(d)) = Cardinality(Ahead(e)) => d = e
  <1>1. IsFiniteSet(Entries) /\ Cardinality(Entries) \in Nat
    BY EntriesAre
  <1>2. ASSUME NEW e \in Entries
        PROVE  /\ IsFiniteSet(Ahead(e)) /\ Cardinality(Ahead(e)) \in Nat
               /\ Cardinality(Ahead(e)) <= Cardinality(Entries) - 1
    <2>1. Ahead(e) \in SUBSET (Entries \ {e})
      BY BeforeIsOrder DEF Ahead
    <2>2. IsFiniteSet(Entries \ {e}) /\ Cardinality(Entries \ {e}) = Cardinality(Entries) - 1
      BY <1>1, FS_RemoveElement
    <2> QED
      BY <2>1, <2>2, FS_Subset, FS_CardinalityType
  <1>3. ASSUME NEW d \in Entries, NEW e \in Entries, Before(d, e)
        PROVE  Cardinality(Ahead(d)) < Cardinality(Ahead(e))
    <2>1. Ahead(d) \cup {d} \in SUBSET Ahead(e) /\ d \notin Ahead(d)
      BY <1>3, BeforeIsOrder DEF Ahead
    <2>2. Cardinality(Ahead(d) \cup {d}) = Cardinality(Ahead(d)) + 1
      BY <1>2, <2>1, FS_AddElement
    <2>3. Cardinality(Ahead(d) \cup {d}) <= Cardinality(Ahead(e))
      BY <1>2, <2>1, FS_Subset
    <2> QED
      BY <1>2, <2>2, <2>3
  <1>4. ASSUME NEW d \in Entries, NEW e \in Entries, Cardinality(Ahead(d)) = Cardinality(Ahead(e))
        PROVE  d = e
    <2>1. ~Before(d, e) /\ ~Before(e, d)
      BY <1>2, <1>3, <1>4
    <2> QED
      BY <2>1, BeforeIsOrder
  <1> QED
    BY <1>1, <1>2, <1>3, <1>4

\* The ranking has every entry once, in the order.
LEMMA RankingIsSorted ==
    ASSUME LogFinite
    PROVE  /\ Ranking \in Seq(Entries) /\ Len(Ranking) = Cardinality(Entries)
           /\ \A e \in Entries : \E i \in DOMAIN Ranking : Ranking[i] = e
           /\ \A i, j \in DOMAIN Ranking : i < j => Before(Ranking[i], Ranking[j])
  <1> DEFINE n == Cardinality(Entries)
             f == [e \in Entries |-> Cardinality(Ahead(e))]
  <1>1. n \in Nat /\ IsFiniteSet(Entries)
    BY EntriesAre
  <1>2. f \in Injection(Entries, 0..(n - 1))
    BY PlacesGrow DEF Injection, IsInjective
  <1>3. IsFiniteSet(0..(n - 1)) /\ Cardinality(0..(n - 1)) = n
    BY <1>1, FS_Interval
  <1>4. f \in Surjection(Entries, 0..(n - 1))
    BY <1>1, <1>2, <1>3, FS_Injection
  <1>5. \A k \in 0..(n - 1) : \E e \in Entries : Cardinality(Ahead(e)) = k
    BY <1>4 DEF Surjection
  <1>6. Ranking = [i \in 1..n |-> CHOOSE e \in Entries : Cardinality(Ahead(e)) = i - 1]
    BY DEF Ranking, Ahead
  <1> HIDE DEF n, f
  <1>7. \A i \in 1..n : Ranking[i] \in Entries /\ Cardinality(Ahead(Ranking[i])) = i - 1
    <2> SUFFICES ASSUME NEW i \in 1..n
                 PROVE  Ranking[i] \in Entries /\ Cardinality(Ahead(Ranking[i])) = i - 1
      OBVIOUS
    <2>1. i - 1 \in 0..(n - 1)
      BY <1>1
    <2>2. \E e \in Entries : Cardinality(Ahead(e)) = i - 1
      BY <1>5, <2>1
    <2>3. Ranking[i] = CHOOSE e \in Entries : Cardinality(Ahead(e)) = i - 1
      BY <1>6
    <2> QED
      BY <2>2, <2>3
  <1>8. Ranking \in Seq(Entries) /\ Len(Ranking) = n /\ DOMAIN Ranking = 1..n
    BY <1>1, <1>6, <1>7
  <1>9. ASSUME NEW e \in Entries PROVE \E i \in 1..n : Ranking[i] = e
    <2> DEFINE k == Cardinality(Ahead(e))
    <2>1. k \in 0..(n - 1)
      BY PlacesGrow DEF n
    <2>2. k + 1 \in 1..n /\ (k + 1) - 1 = k
      BY <1>1, <2>1
    <2>3. Ranking[k + 1] \in Entries /\ Cardinality(Ahead(Ranking[k + 1])) = k
      BY <1>7, <2>2
    <2>4. Ranking[k + 1] = e
      BY <2>3, PlacesGrow
    <2> QED
      BY <2>2, <2>4
  <1>10. ASSUME NEW i \in 1..n, NEW j \in 1..n, i < j PROVE Before(Ranking[i], Ranking[j])
    <2>1. /\ Ranking[i] \in Entries /\ Cardinality(Ahead(Ranking[i])) = i - 1
          /\ Ranking[j] \in Entries /\ Cardinality(Ahead(Ranking[j])) = j - 1
      BY <1>7
    <2>2. ~(Cardinality(Ahead(Ranking[j])) < Cardinality(Ahead(Ranking[i])))
          /\ Ranking[i] # Ranking[j]
      BY <1>10, <2>1
    <2> QED
      BY <2>1, <2>2, BeforeIsOrder, PlacesGrow
  <1> QED
    BY <1>8, <1>9, <1>10 DEF n

\* The top of the ranking.
LEMMA TopIsStart ==
    ASSUME LogFinite, NEW n \in Nat
    PROVE  LET top == TopResources(n)
           IN  /\ top \in Seq(Entries) /\ Len(top) <= Len(Ranking) /\ Len(top) \in Nat
               /\ Len(top) = n \/ Len(top) = Len(Ranking)
               /\ \A i \in DOMAIN top : i \in DOMAIN Ranking /\ top[i] = Ranking[i]
  <1> DEFINE m == IF n < Len(Ranking) THEN n ELSE Len(Ranking)
             E == Entries
  <1>1. Ranking \in Seq(E)
    BY RankingIsSorted
  <1>2. TopResources(n) = SubSeq(Ranking, 1, m)
    BY DEF TopResources, Truncate
  <1> HIDE DEF E
  <1>3. m \in Nat /\ m <= Len(Ranking) /\ (m = n \/ m = Len(Ranking))
    BY <1>1
  <1> HIDE DEF m
  <1>4. /\ SubSeq(Ranking, 1, m) \in Seq(E) /\ Len(SubSeq(Ranking, 1, m)) = m
        /\ \A i \in 1..m : i \in DOMAIN Ranking /\ SubSeq(Ranking, 1, m)[i] = Ranking[i]
    BY <1>1, <1>3
  <1> QED
    BY <1>2, <1>3, <1>4 DEF E

\* The ranking is the reference.
LEMMA InvTop == ReportInv => TopIsReference
  <1> SUFFICES ASSUME ReportInv, NEW n \in 0..Len(ResourceOrder) + 1
               PROVE  LET top == TopResources(n)
                          ranked == {top[i].id : i \in DOMAIN top}
                          others == {rid \in ToSet(ResourceOrder) \ ranked : AllowedUses(rid) > 0}
                      IN  /\ others # {} => Len(top) = n
                          /\ \A i \in DOMAIN top : top[i].count = AllowedUses(top[i].id)
                          /\ \A i, j \in DOMAIN top :
                               i < j => /\ top[i].count >= top[j].count
                                        /\ top[i].count = top[j].count => IdRank(top[i].id) < IdRank(top[j].id)
                          /\ \A rid \in others, i \in DOMAIN top :
                               /\ AllowedUses(rid) <= top[i].count
                               /\ AllowedUses(rid) = top[i].count => IdRank(top[i].id) < IdRank(rid)
    BY DEF TopIsReference
  <1> DEFINE top == TopResources(n)
             ranked == {top[i].id : i \in DOMAIN top}
             others == {rid \in ToSet(ResourceOrder) \ ranked : AllowedUses(rid) > 0}
  <1>1. LogFinite /\ n \in Nat
    BY InvLogFinite, EntriesAre
  <1>2. /\ top \in Seq(Entries) /\ Len(top) <= Len(Ranking) /\ Len(top) \in Nat
        /\ Len(top) = n \/ Len(top) = Len(Ranking)
        /\ \A i \in DOMAIN top : i \in DOMAIN Ranking /\ top[i] = Ranking[i]
    BY <1>1, TopIsStart
  <1> HIDE DEF top
  <1>3. DOMAIN top = 1..Len(top)
    BY <1>2
  <1>4. /\ \A i \in DOMAIN Ranking : Ranking[i] \in Entries
        /\ DOMAIN Ranking = 1..Len(Ranking) /\ Len(Ranking) \in Nat
    <2> DEFINE E == Entries
    <2>1. Ranking \in Seq(E)
      BY <1>1, RankingIsSorted
    <2> HIDE DEF E
    <2>2. /\ \A i \in DOMAIN Ranking : Ranking[i] \in E
          /\ DOMAIN Ranking = 1..Len(Ranking) /\ Len(Ranking) \in Nat
      BY <2>1
    <2> QED
      BY <2>2 DEF E
  <1>5. \A e \in Entries : e.id \in Offered /\ e.count = AllowedUses(e.id) /\ e.count \in Nat
                           /\ IdRank(e.id) \in Nat
    BY <1>1, EntriesAre, RanksDiffer
  <1>6. \A i, j \in DOMAIN Ranking : i < j => Before(Ranking[i], Ranking[j])
    BY <1>1, RankingIsSorted
  <1>7. ASSUME NEW rid \in others
        PROVE  \E k \in DOMAIN Ranking : /\ Ranking[k].id = rid /\ Ranking[k].count = AllowedUses(rid)
                                         /\ \A i \in DOMAIN top : i < k
                                         /\ k > Len(top)
    <2>1. rid \in Offered /\ AllowedUses(rid) > 0 /\ rid \notin ranked
      BY DEF Offered
    <2>2. PICK e \in Entries : e.id = rid
      BY <1>1, <2>1, EntriesAre
    <2>3. PICK k \in DOMAIN Ranking : Ranking[k] = e
      BY <1>1, RankingIsSorted
    <2>4. k \notin DOMAIN top
      <3> SUFFICES ASSUME k \in DOMAIN top PROVE top[k].id = rid
        BY <2>1
      <3> QED
        BY <1>2, <2>2, <2>3
    <2>5. k > Len(top)
      <3>1. k \in Nat /\ k >= 1 /\ Len(top) \in Nat
        BY <1>2, <1>4
      <3>2. k \notin 1..Len(top)
        BY <1>3, <2>4
      <3> QED
        BY <3>1, <3>2
    <2>6. \A i \in DOMAIN top : i < k
      <3>1. k \in Int /\ Len(top) \in Int
        BY <1>2, <1>4
      <3>2. \A i \in 1..Len(top) : i < k
        BY <3>1, <2>5
      <3> QED
        BY <1>3, <3>2
    <2> QED
      BY <1>5, <2>2, <2>3, <2>5, <2>6
  <1>8. others # {} => Len(top) = n
    <2> SUFFICES ASSUME others # {} PROVE Len(top) = n
      OBVIOUS
    <2>1. PICK rid \in others : TRUE
      OBVIOUS
    <2>2. PICK k \in DOMAIN Ranking : k > Len(top)
      BY <1>7
    <2> QED
      BY <1>2, <1>4, <2>2
  <1>9. \A i \in DOMAIN top : top[i].count = AllowedUses(top[i].id)
    BY <1>2, <1>4, <1>5
  <1>10. ASSUME NEW i \in DOMAIN top, NEW j \in DOMAIN top, i < j
         PROVE  /\ top[i].count >= top[j].count
                /\ top[i].count = top[j].count => IdRank(top[i].id) < IdRank(top[j].id)
    <2>1. /\ Before(top[i], top[j]) /\ top[i] \in Entries /\ top[j] \in Entries
      BY <1>2, <1>4, <1>6, <1>10
    <2> QED
      BY <1>5, <2>1 DEF Before
  <1>11. ASSUME NEW rid \in others, NEW i \in DOMAIN top
         PROVE  /\ AllowedUses(rid) <= top[i].count
                /\ AllowedUses(rid) = top[i].count => IdRank(top[i].id) < IdRank(rid)
    <2>1. PICK k \in DOMAIN Ranking : /\ Ranking[k].id = rid /\ Ranking[k].count = AllowedUses(rid)
                                      /\ i < k
      BY <1>7
    <2>2. Before(top[i], Ranking[k]) /\ top[i] \in Entries /\ Ranking[k] \in Entries
      BY <1>2, <1>4, <1>6, <2>1
    <2>3. top[i].count \in Nat /\ Ranking[k].count \in Nat
      BY <1>5, <2>2
    <2> QED
      BY <2>1, <2>2, <2>3 DEF Before
  <1> HIDE DEF others
  <1>12. /\ others # {} => Len(top) = n
         /\ \A k \in DOMAIN top : top[k].count = AllowedUses(top[k].id)
         /\ \A i, j \in DOMAIN top :
              i < j => /\ top[i].count >= top[j].count
                       /\ top[i].count = top[j].count => IdRank(top[i].id) < IdRank(top[j].id)
         /\ \A rid \in others, i \in DOMAIN top :
              /\ AllowedUses(rid) <= top[i].count
              /\ AllowedUses(rid) = top[i].count => IdRank(top[i].id) < IdRank(rid)
    BY <1>8, <1>9, <1>10, <1>11
  <1> QED
    BY <1>12, Zenon DEF top, others, ranked

-----------------------------------------------------------------------------
(* The three reports                                                       *)

\* The image of a finite set.
LEMMA ImageFinite ==
    ASSUME NEW D, IsFiniteSet(D), NEW f
    PROVE  IsFiniteSet({f[x] : x \in D})
  <1> DEFINE T == {f[x] : x \in D}
             g == [x \in D |-> f[x]]
  <1>1. g \in Surjection(D, T)
    BY DEF Surjection
  <1> HIDE DEF T, g
  <1>2. IsFiniteSet(T)
    BY <1>1, FS_Surjection
  <1> QED
    BY <1>2 DEF T

\* The places of the attempts with an outcome.
With(outcome) == {k \in DOMAIN usage : usage[k].outcome = outcome}

\* Each attempt was allowed or denied.
LEMMA AllowedOrDenied ==
    ASSUME ReportInv
    PROVE  /\ IsFiniteSet(With("Allowed")) /\ Cardinality(With("Allowed")) \in Nat
           /\ IsFiniteSet(With("Denied"))
           /\ Cardinality(With("Allowed")) + Cardinality(With("Denied")) = Len(usage)
  <1> DEFINE A == With("Allowed")
             B == With("Denied")
             n == Len(usage)
  <1>1. IsFiniteSet(DOMAIN usage) /\ DOMAIN usage = 1..n /\ n \in Nat
    BY InvLogFinite DEF LogFinite
  <1>2. \A k \in DOMAIN usage : usage[k] \in LogEntry
    BY DEF ReportInv
  <1>3. A \cup B = DOMAIN usage /\ A \cap B = {}
    BY <1>2 DEF With, LogEntry
  <1> HIDE DEF A, B, n
  <1>4. /\ IsFiniteSet(A) /\ Cardinality(A) \in Nat
        /\ IsFiniteSet(B) /\ Cardinality(B) \in Nat
    <2>1. A \in SUBSET (DOMAIN usage) /\ B \in SUBSET (DOMAIN usage)
      BY <1>3
    <2> QED
      BY <1>1, <2>1, FS_Subset, FS_CardinalityType
  <1>5. Cardinality(A \cup B) = Cardinality(A) + Cardinality(B) - Cardinality(A \cap B)
    BY <1>4, FS_Union
  <1>6. Cardinality(A \cap B) = 0
    BY <1>3, FS_EmptySet
  <1>7. Cardinality(A \cup B) = n
    <2>1. Cardinality(1..n) = n
      BY <1>1, FS_Interval
    <2> QED
      BY <1>1, <1>3, <2>1
  <1>8. Cardinality(A) + Cardinality(B) = n
    BY <1>4, <1>5, <1>6, <1>7
  <1> QED
    BY <1>4, <1>8 DEF A, B, n

\* The rows of the tier report.
Rows == Prepopulated \cup {usage[k].tier : k \in DOMAIN usage}

\* The attempts with an outcome, added up over the rows of the tier report.
LEMMA TiersAddUp ==
    ASSUME ReportInv, NEW outcome, IsFiniteSet(With(outcome)),
           NEW fun, DOMAIN fun = Rows, \A t \in Rows : fun[t] = Attempts(t, outcome)
    PROVE  SumFunction(fun) = Cardinality(With(outcome))
  <1> DEFINE label == [k \in DOMAIN usage |-> usage[k].tier]
             D == With(outcome)
  <1>1. IsFiniteSet(Rows)
    <2>1. IsFiniteSet({label[k] : k \in DOMAIN usage})
      BY InvLogFinite, ImageFinite DEF LogFinite
    <2>2. {label[k] : k \in DOMAIN usage} = {usage[k].tier : k \in DOMAIN usage}
      OBVIOUS
    <2>3. IsFiniteSet(Prepopulated)
      <3>1. Prepopulated = ({"Silver"} \cup {"Gold"}) \cup {"Platinum"}
        BY DEF Prepopulated
      <3>2. IsFiniteSet(({"Silver"} \cup {"Gold"}) \cup {"Platinum"})
        BY FS_Singleton, FS_Union
      <3> QED
        BY <3>1, <3>2
    <2>4. IsFiniteSet({usage[k].tier : k \in DOMAIN usage})
      BY <2>1, <2>2
    <2> QED
      BY <2>3, <2>4, FS_Union DEF Rows
  <1>2. ASSUME NEW t \in Rows
        PROVE  fun[t] = Cardinality({k \in D : label[k] = t})
    <2>1. {k \in D : label[k] = t} = {k \in DOMAIN usage : usage[k].tier = t /\ usage[k].outcome = outcome}
      BY DEF With
    <2> QED
      BY <2>1 DEF Attempts
  <1>3. \A k \in D : label[k] \in Rows
    BY DEF With, Rows
  <1> HIDE DEF label, D
  <1>4. SumFunctionOnSet(fun, Rows) = Cardinality({k \in D : label[k] \in Rows})
    BY <1>1, <1>2, CountsAddUp DEF D
  <1>5. {k \in D : label[k] \in Rows} = D
    BY <1>3
  <1> QED
    BY <1>4, <1>5 DEF SumFunction, D

\* The allowed uses, added up over the histories of the passengers.
LEMMA HistoriesAddUp ==
    ASSUME ReportInv,
           NEW fun, DOMAIN fun = Histories,
           \A p \in Histories :
              LET log == PersonalHistory(p)
              IN  fun[p] = Cardinality({k \in DOMAIN log : log[k].outcome = "Allowed"})
    PROVE  SumFunction(fun) = Cardinality(With("Allowed"))
  <1> DEFINE label == [k \in DOMAIN usage |-> usage[k].passenger]
             D == With("Allowed")
             Q == {e \in LogEntry : e.outcome = "Allowed"}
  <1>1. IsFiniteSet(Histories)
    <2> DEFINE f == [i \in DOMAIN PassengerSeeds |-> PassengerSeeds[i].id]
    <2>1. PassengerSeeds \in Seq([id : ActorIds, level : Tiers])
      BY SeedsAssumption DEF Listing
    <2>2. DOMAIN PassengerSeeds = 1..Len(PassengerSeeds) /\ Len(PassengerSeeds) \in Nat
      BY <2>1
    <2>3. IsFiniteSet(DOMAIN PassengerSeeds)
      BY <2>2, FS_Interval
    <2>4. IsFiniteSet({f[i] : i \in DOMAIN PassengerSeeds})
      BY <2>3, ImageFinite
    <2>5. {f[i] : i \in DOMAIN PassengerSeeds} = Histories
      BY DEF Histories
    <2> QED
      BY <2>4, <2>5
  <1>2. usage \in Seq(LogEntry)
    BY DEF ReportInv
  <1>3. \A k \in DOMAIN usage : usage[k] \in LogEntry
    BY <1>2
  <1>4. ASSUME NEW p \in Histories
        PROVE  fun[p] = Cardinality({k \in D : label[k] = p})
    <2> DEFINE own == {e \in ToSet(usage) : e.passenger = p}
               log == PersonalHistory(p)
    <2>1. log = Kept(usage, own)
      BY DEF PersonalHistory
    <2> HIDE DEF own, log, Q
    <2>2. log \in Seq(LogEntry) /\ Cardinality(Hits(log, Q)) = Cardinality(Hits(usage, own \cap Q))
      BY <1>2, <2>1, KeptHits
    <2>3. \A k \in DOMAIN log : log[k] \in LogEntry
      BY <2>2
    <2>4. Hits(log, Q) = {k \in DOMAIN log : log[k].outcome = "Allowed"}
      BY <2>3 DEF Hits, Q
    <2>5. Hits(usage, own \cap Q) = {k \in D : label[k] = p}
      BY <1>3 DEF Hits, Q, own, With, ToSet
    <2>6. fun[p] = Cardinality({k \in DOMAIN log : log[k].outcome = "Allowed"})
      BY DEF log
    <2> QED
      BY <2>2, <2>4, <2>5, <2>6
  <1>5. \A k \in D : label[k] \in Histories
    BY <1>3 DEF With, LogEntry
  <1>6. IsFiniteSet(D)
    BY AllowedOrDenied
  <1> HIDE DEF label, D
  <1>7. SumFunctionOnSet(fun, Histories) = Cardinality({k \in D : label[k] \in Histories})
    BY <1>1, <1>4, <1>6, CountsAddUp
  <1>8. {k \in D : label[k] \in Histories} = D
    BY <1>5
  <1> QED
    BY <1>7, <1>8 DEF SumFunction, D

\* The allowed uses, added up over the whole ranking.
LEMMA RankingAddsUp ==
    ASSUME ReportInv, NEW fun,
           LET top == TopResources(Len(ResourceOrder))
           IN  DOMAIN fun = DOMAIN top /\ \A i \in DOMAIN top : fun[i] = top[i].count
    PROVE  SumFunction(fun) = Cardinality(With("Allowed"))
  <1> DEFINE N == Len(ResourceOrder)
             top == TopResources(N)
             D == With("Allowed")
             place(rid) == CHOOSE i \in DOMAIN Ranking : Ranking[i].id = rid
             label == [k \in DOMAIN usage |-> place(usage[k].resource)]
  <1>1. LogFinite /\ N \in Nat /\ Cardinality(Entries) <= N
    BY InvLogFinite, EntriesAre
  <1>2. Ranking \in Seq(Entries) /\ Len(Ranking) = Cardinality(Entries)
    BY <1>1, RankingIsSorted
  <1>3. /\ DOMAIN Ranking = 1..Len(Ranking) /\ Len(Ranking) \in Nat /\ Len(Ranking) <= N
        /\ \A i \in DOMAIN Ranking : Ranking[i] \in Entries
    <2> DEFINE E == Entries
    <2> HIDE DEF E
    <2>1. Ranking \in Seq(E)
      BY <1>2 DEF E
    <2>2. /\ \A i \in DOMAIN Ranking : Ranking[i] \in E
          /\ DOMAIN Ranking = 1..Len(Ranking) /\ Len(Ranking) \in Nat
      BY <2>1
    <2> QED
      BY <1>1, <1>2, <2>2 DEF E
  <1>4. DOMAIN top = DOMAIN Ranking /\ \A i \in DOMAIN top : top[i] = Ranking[i]
    <2>1. /\ top \in Seq(Entries) /\ Len(top) <= Len(Ranking) /\ Len(top) \in Nat
          /\ Len(top) = N \/ Len(top) = Len(Ranking)
          /\ \A i \in DOMAIN top : i \in DOMAIN Ranking /\ top[i] = Ranking[i]
      BY <1>1, TopIsStart
    <2> HIDE DEF top, N
    <2>2. DOMAIN top = 1..Len(top)
      BY <2>1
    <2>3. Len(top) = Len(Ranking)
      BY <1>1, <1>3, <2>1
    <2> QED
      BY <1>3, <2>1, <2>2, <2>3
  <1>5. \A i \in DOMAIN Ranking : fun[i] = Ranking[i].count /\ DOMAIN fun = DOMAIN Ranking
    BY <1>4
  <1>6. \A i, j \in DOMAIN Ranking : Ranking[i].id = Ranking[j].id => i = j
    <2> SUFFICES ASSUME NEW i \in DOMAIN Ranking, NEW j \in DOMAIN Ranking, i # j
                 PROVE  Ranking[i] # Ranking[j]
      BY <1>1, <1>3, EntriesAre
    <2>1. i < j \/ j < i
      BY <1>3
    <2>2. Before(Ranking[i], Ranking[j]) \/ Before(Ranking[j], Ranking[i])
      BY <1>1, <2>1, RankingIsSorted
    <2> QED
      BY <1>1, <1>3, <2>2, BeforeIsOrder
  <1>7. \A i \in DOMAIN Ranking : place(Ranking[i].id) = i
    BY <1>6
  <1>8. ASSUME NEW k \in D
        PROVE  \E i \in DOMAIN Ranking : Ranking[i].id = usage[k].resource
    <2> DEFINE rid == usage[k].resource
               uses == {j \in DOMAIN usage : usage[j].resource = rid /\ usage[j].outcome = "Allowed"}
    <2>1. k \in uses /\ usage[k] \in LogEntry
      BY DEF With, ReportInv
    <2>2. rid \in Offered
      BY <2>1 DEF LogEntry
    <2>3. IsFiniteSet(uses) /\ Cardinality(uses) \in Nat
      <3>1. uses \in SUBSET (DOMAIN usage)
        OBVIOUS
      <3> QED
        BY <1>1, <3>1, FS_Subset, FS_CardinalityType DEF LogFinite
    <2>4. Cardinality(uses) # 0
      BY <2>1, <2>3, FS_EmptySet
    <2>5. AllowedUses(rid) > 0
      BY <2>3, <2>4 DEF AllowedUses
    <2>6. PICK e \in Entries : e.id = rid
      BY <1>1, <2>2, <2>5, EntriesAre
    <2> QED
      BY <1>1, <2>6, RankingIsSorted
  <1>9. \A k \in D : label[k] \in DOMAIN Ranking /\ Ranking[label[k]].id = usage[k].resource
    <2> SUFFICES ASSUME NEW k \in D
                 PROVE  label[k] \in DOMAIN Ranking /\ Ranking[label[k]].id = usage[k].resource
      OBVIOUS
    <2>1. label[k] = place(usage[k].resource)
      BY DEF With
    <2> QED
      BY <1>8, <2>1
  <1> HIDE DEF label
  <1>10. ASSUME NEW i \in DOMAIN Ranking
         PROVE  fun[i] = Cardinality({k \in D : label[k] = i})
    <2> DEFINE rid == Ranking[i].id
               uses == {j \in DOMAIN usage : usage[j].resource = rid /\ usage[j].outcome = "Allowed"}
    <2>1. fun[i] = AllowedUses(rid)
      BY <1>1, <1>3, <1>5, EntriesAre
    <2>2. \A k \in D : label[k] = i <=> usage[k].resource = rid
      BY <1>6, <1>9
    <2>3. {k \in D : label[k] = i} = uses
      BY <2>2 DEF With
    <2> QED
      BY <2>1, <2>3 DEF AllowedUses
  <1>11. IsFiniteSet(DOMAIN Ranking) /\ IsFiniteSet(D)
    <2> DEFINE m == Len(Ranking)
    <2>1. DOMAIN Ranking = 1..m /\ m \in Nat
      BY <1>3
    <2> HIDE DEF m
    <2>2. IsFiniteSet(1..m)
      BY <2>1, FS_Interval
    <2>3. IsFiniteSet(D)
      BY AllowedOrDenied
    <2> QED
      BY <2>1, <2>2, <2>3
  <1> HIDE DEF D, label
  <1>12. SumFunctionOnSet(fun, DOMAIN Ranking) = Cardinality({k \in D : label[k] \in DOMAIN Ranking})
    <2> DEFINE S == DOMAIN Ranking
    <2>1. IsFiniteSet(S) /\ IsFiniteSet(D) /\ \A x \in S : fun[x] = Cardinality({k \in D : label[k] = x})
      BY <1>10, <1>11
    <2> HIDE DEF S
    <2>2. SumFunctionOnSet(fun, S) = Cardinality({k \in D : label[k] \in S})
      BY <2>1, CountsAddUp
    <2> QED
      BY <2>2 DEF S
  <1>13. {k \in D : label[k] \in DOMAIN Ranking} = D
    BY <1>9
  <1>14. DOMAIN fun = DOMAIN Ranking
    BY <1>4
  <1> QED
    BY <1>12, <1>13, <1>14 DEF SumFunction, D

\* So they agree.
LEMMA InvReports == ReportInv => ReportsAgree
  <1> SUFFICES ASSUME ReportInv PROVE ReportsAgree
    OBVIOUS
  <1> DEFINE rows == DOMAIN AggregateByTier
             top == TopResources(Len(ResourceOrder))
             allowedIn(log) == Cardinality({k \in DOMAIN log : log[k].outcome = "Allowed"})
             byTier == SumFunction([t \in rows |-> AggregateByTier[t].allowed])
             denied == SumFunction([t \in rows |-> AggregateByTier[t].denied])
             byTop == SumFunction([i \in DOMAIN top |-> top[i].count])
             byHistory == SumFunction([p \in Histories |-> allowedIn(PersonalHistory(p))])
             total == Cardinality(With("Allowed"))
  <1>1. rows = Rows /\ \A t \in Rows : /\ AggregateByTier[t].allowed = Attempts(t, "Allowed")
                                       /\ AggregateByTier[t].denied = Attempts(t, "Denied")
    BY DEF AggregateByTier, TierCounts, Rows
  <1>2. byTier = total
    <2> DEFINE fun == [t \in rows |-> AggregateByTier[t].allowed]
    <2>1. DOMAIN fun = Rows /\ \A t \in Rows : fun[t] = Attempts(t, "Allowed")
      BY <1>1
    <2> HIDE DEF fun
    <2>2. SumFunction(fun) = total
      BY <2>1, AllowedOrDenied, TiersAddUp
    <2> QED
      BY <2>2 DEF fun
  <1>3. denied = Cardinality(With("Denied"))
    <2> DEFINE fun == [t \in rows |-> AggregateByTier[t].denied]
    <2>1. DOMAIN fun = Rows /\ \A t \in Rows : fun[t] = Attempts(t, "Denied")
      BY <1>1
    <2> HIDE DEF fun
    <2>2. SumFunction(fun) = Cardinality(With("Denied"))
      BY <2>1, AllowedOrDenied, TiersAddUp
    <2> QED
      BY <2>2 DEF fun
  <1>4. byTop = total
    <2> DEFINE fun == [i \in DOMAIN top |-> top[i].count]
    <2>1. DOMAIN fun = DOMAIN top /\ \A i \in DOMAIN top : fun[i] = top[i].count
      OBVIOUS
    <2> HIDE DEF fun
    <2>2. SumFunction(fun) = total
      BY <2>1, RankingAddsUp
    <2> QED
      BY <2>2 DEF fun
  <1>5. byHistory = total
    <2> DEFINE fun == [p \in Histories |-> allowedIn(PersonalHistory(p))]
    <2>1. DOMAIN fun = Histories /\ \A p \in Histories : fun[p] = allowedIn(PersonalHistory(p))
      OBVIOUS
    <2> HIDE DEF fun
    <2>2. SumFunction(fun) = total
      BY <2>1, HistoriesAddUp
    <2> QED
      BY <2>2 DEF fun
  <1>6. total + Cardinality(With("Denied")) = Len(usage)
    BY AllowedOrDenied
  <1> HIDE DEF rows, top, allowedIn, byTier, denied, byTop, byHistory, total
  <1>7. byTier = byTop /\ byTier = byHistory /\ byTier + denied = Len(usage)
    BY <1>2, <1>3, <1>4, <1>5, <1>6 DEF total
  <1> QED
    BY <1>7, Zenon DEF ReportsAgree, rows, top, allowedIn, byTier, denied, byTop, byHistory, Histories

-----------------------------------------------------------------------------
(* The theorems of the reports                                             *)

\* Start-up.
LEMMA ReportInitEstablishes == ReportInit => ReportInv
  <1> SUFFICES ASSUME ReportInit PROVE ReportInv
    OBVIOUS
  <1>1. << >> \in Seq(LogEntry)
    OBVIOUS
  <1>2. IsPrefix(<< >>, << >>)
    BY <1>1, EmptyIsPrefix
  <1>3. Truncate(<< >>, MaxOffset + 1) = << >>
    <2>1. Len(<< >>) <= MaxOffset + 1 /\ MaxOffset + 1 \in Nat
      BY PagingAssumption
    <2> QED
      BY <1>1, <2>1, TruncateKeeps
  <1> QED
    BY <1>1, <1>2, <1>3, SeedsAssumption DEF ReportInit, ReportInv, PagesExactUpToCap

\* Every step keeps the invariant.
LEMMA ReportStepKeeps == ReportInv /\ [ReportNext]_reportVars => ReportInv'
  <1> SUFFICES ASSUME ReportInv, [ReportNext]_reportVars PROVE ReportInv'
    OBVIOUS
  <1>1. ASSUME NEW i \in DOMAIN PassengerSeeds, NEW rid \in ToSet(ResourceOrder),
               Access(PassengerSeeds[i].id, rid)
        PROVE  ReportInv'
    BY <1>1, AccessKeeps DEF Histories, Offered
  <1>2. ASSUME NEW i \in DOMAIN PassengerSeeds, NEW level \in Levels, ChangeTier(i, level)
        PROVE  ReportInv'
    BY <1>2, ChangeTierKeeps
  <1>3. CASE ReadPage
    BY <1>3, ReadPageKeeps
  <1>4. CASE UNCHANGED reportVars
    BY <1>4 DEF reportVars, ReportInv, Listing, PagesExactUpToCap
  <1> QED
    BY <1>1, <1>2, <1>3, <1>4 DEF ReportNext

\* The log is well-formed, tier changes touch no id, and what the paging client
\* has got begins like the log, up to the cap of the offset.
THEOREM ReportInvariant == ReportSpec => []ReportInv
  BY ReportInitEstablishes, ReportStepKeeps, PTL DEF ReportSpec

\* RP-R1..R4: aggregate_by_tier, top_resources and the personal histories add
\* up to the same number of allowed uses, for every log.
THEOREM ReportsAlwaysAgree == ReportSpec => []ReportsAgree
  BY InvReports, ReportInvariant, PTL

\* RP-R3, RP-R4: top_resources is its reference, for every log and every n.
THEOREM TopAlwaysReference == ReportSpec => []TopIsReference
  BY InvTop, ReportInvariant, PTL

\* RS-R7, AC-R4: list_accessible_for and use_resource never disagree.
THEOREM AccessibleAlwaysAllowed == ReportSpec => []AccessibleMeansAllowed
  BY InvAccessible, ReportInvariant, PTL

\* A client that pages through a growing log gets every event once, in order, up
\* to the first one behind the cap of the offset.
THEOREM PagesAlwaysExactUpToCap == ReportSpec => []PagesExactUpToCap
  <1>1. ReportInv => PagesExactUpToCap
    BY DEF ReportInv
  <1> QED
    BY <1>1, ReportInvariant, PTL
==============================================================================
