----------------------------- MODULE ServeProofs -----------------------------
(***************************************************************************)
(* Theorems about the Idempotency-Key (modules IdempotentCreate and        *)
(* Serve), for any attempts, keys, actors and ids, and any number of       *)
(* panics and restarts: whoever receives a 201 receives a creation made    *)
(* with his scoped key, his own if the actors' ids have no colon, and a    *)
(* key that is kept, not raced and meets no panic acts once.               *)
(***************************************************************************)
EXTENDS Serve, SequenceTheorems, FiniteSetTheorems, TLAPS

Stage == {"unsent", "sending", "sent", "missed", "created", "answered", "lost", "dropped"}

Answer == [attempt : Attempts, status : {201, 409}, creation : Nat, done : BOOLEAN]

TrailEvent == [action : {"Created", "Deleted"}, kind : Kinds, target : Ids, actor : ActorIds]

\* The state of the handlers has its types.
PostTypeOK ==
    /\ trail \in Seq(TrailEvent)
    /\ cache \in [DOMAIN cache -> Nat]
    /\ stage \in [Attempts -> Stage]
    /\ made \in [Attempts -> Nat]
    /\ answers \in Seq(Answer)

\* A handler has made its creation when it leaves the aggregate's lock, not before.
MadeWhenCreated ==
    \A a \in Attempts :
        /\ stage[a] \in {"unsent", "sending", "sent", "missed"} => made[a] = NoCreation
        /\ stage[a] = "created" => made[a] # NoCreation

\* A creation that a handler has made is in the trail, under the name of its actor.
CreationsAreReal ==
    \A a \in Attempts :
        made[a] # NoCreation =>
            /\ made[a] \in DOMAIN trail
            /\ trail[made[a]].action = "Created"
            /\ trail[made[a]].actor = Request[a].actor

\* No two attempts have made the same creation.
CreationsDiffer ==
    \A a, b \in Attempts : made[a] # NoCreation /\ made[a] = made[b] => a = b

\* An entry of the cache is what an attempt with its key has made.
CacheIsOwn ==
    \A key \in DOMAIN cache :
        \E b \in Attempts :
            /\ Keyed(b) /\ ScopedKey(b) = key
            /\ made[b] # NoCreation /\ made[b] = cache[key]

\* A 201 names what its attempt, or another one with its key, has made.
CreatedAnswersAreOwn ==
    \A i \in DOMAIN answers :
        answers[i].status = 201 =>
            \E b \in Siblings(answers[i].attempt) \cup {answers[i].attempt} :
                made[b] # NoCreation /\ made[b] = answers[i].creation

\* The keys to which nothing has happened but their own requests, in turn.
Kept(a) == Keyed(a) /\ Causes(a) = {}

OneAtATime ==
    \A a \in Attempts : Kept(a) =>
        \A b \in Siblings(a) : stage[a] \in InHandler /\ stage[b] \in InHandler => a = b

CachedIsOver ==
    \A a \in Attempts : Kept(a) /\ ScopedKey(a) \in DOMAIN cache => stage[a] \notin InHandler

MadeIsCached ==
    \A a \in Attempts : Kept(a) /\ made[a] # NoCreation =>
        stage[a] = "created" \/ (ScopedKey(a) \in DOMAIN cache /\ cache[ScopedKey(a)] = made[a])

AnswersAgree ==
    \A a \in Attempts : Kept(a) =>
        \A i \in DOMAIN answers :
            answers[i].attempt \in Siblings(a) =>
                /\ answers[i].status = 409 => ~answers[i].done
                /\ answers[i].status = 201 =>
                     \A b \in Siblings(a) :
                         made[b] # NoCreation => made[b] = answers[i].creation

KeyInv ==
    /\ PostTypeOK
    /\ MadeWhenCreated /\ CreationsAreReal /\ CreationsDiffer
    /\ CacheIsOwn /\ CreatedAnswersAreOwn
    /\ OneAtATime /\ CachedIsOver /\ MadeIsCached /\ AnswersAgree

-----------------------------------------------------------------------------
(* Keys and siblings *)

\* Attempts with one key are siblings of each other and share its history.
LEMMA SiblingsShare ==
  ASSUME NEW a \in Attempts, Keyed(a), NEW b \in Siblings(a)
  PROVE  /\ b \in Attempts /\ Keyed(b) /\ ScopedKey(b) = ScopedKey(a)
         /\ Siblings(b) = Siblings(a) /\ Causes(b) = Causes(a)
         /\ a \in Siblings(a)
  BY DEF Siblings, Causes

\* A concatenation starts as its first part does.
LEMMA FirstOfConcat ==
  ASSUME NEW S, NEW x \in Seq(S), NEW k \in Seq(S), Len(x) = 1
  PROVE  (x \o k)[1] = x[1]
  <1>1. \A i \in 1..Len(x) + Len(k) : (x \o k)[i] = IF i <= Len(x) THEN x[i] ELSE k[i - Len(x)]
    BY ConcatProperties
  <1>2. Len(k) \in Nat /\ 1 \in 1..Len(x) + Len(k)
    OBVIOUS
  <1> QED BY <1>1, <1>2

\* Two keys that are joined to one string with actors whose ids have no colon
\* are keys of one actor.
LEMMA PlainActorsAgree ==
  ASSUME NEW a \in Attempts, NEW b \in Attempts, ScopedKey(b) = ScopedKey(a), Plain(a), Plain(b)
  PROVE  Request[b].actor = Request[a].actor
  <1>1. ASSUME NEW c \in Attempts, Plain(c)
        PROVE  /\ Request[c].actor \in Seq(Segments) /\ Request[c].key \in Seq(Segments)
               /\ Len(Request[c].actor) = 1 /\ ScopedKey(c)[1] = Request[c].actor[1]
    <2>1. Request[c].actor \in Seq(Segments) /\ Request[c].key \in Seq(Segments)
      <3>1. Request[c].actor \in ActorIds /\ Request[c].key \in Strings \cup {NoKey}
        <4> DEFINE K == Strings \cup {NoKey}
        <4>1. Request[c] \in [actor : ActorIds, key : K, kind : Kinds, id : Ids]
          BY RequestAssumption
        <4> HIDE DEF K
        <4>2. Request[c].actor \in ActorIds /\ Request[c].key \in K
          BY <4>1
        <4> QED BY <4>2 DEF K
      <3>2. NoKey \in Seq(Segments)
        BY DEF NoKey
      <3> QED BY <3>1, <3>2, ActorsAssumption DEF Strings
    <2>2. Len(Request[c].actor) = 1
      BY <1>1 DEF Plain
    <2> DEFINE x == Request[c].actor
               k == Request[c].key
    <2>3. x \in Seq(Segments) /\ k \in Seq(Segments) /\ Len(x) = 1
      BY <2>1, <2>2
    <2>4. ScopedKey(c) = x \o k
      BY DEF ScopedKey
    <2> HIDE DEF x, k
    <2>5. (x \o k)[1] = x[1]
      BY <2>3, FirstOfConcat
    <2>6. ScopedKey(c)[1] = x[1]
      BY <2>4, <2>5
    <2> QED BY <2>1, <2>2, <2>6 DEF x
  <1> DEFINE x == Request[a].actor
             y == Request[b].actor
  <1>2. x \in Seq(Segments) /\ y \in Seq(Segments) /\ Len(x) = 1 /\ Len(y) = 1 /\ x[1] = y[1]
    BY <1>1
  <1> HIDE DEF x, y
  <1>3. x = y
    BY <1>2
  <1> QED BY <1>3 DEF x, y

\* What happened to a key stays known.
LEMMA KeptBefore ==
  ASSUME disturbed \subseteq disturbed', NEW a \in Attempts, Kept(a)'
  PROVE  Kept(a)
  BY DEF Kept, Causes, Keyed, ScopedKey

\* While a handler is between its lookup and its creation, no attempt with its
\* key has made one.
LEMMA NothingMadeYet ==
  ASSUME KeyInv, NEW a \in Attempts, Kept(a), stage[a] = "missed", NEW b \in Siblings(a)
  PROVE  made[b] = NoCreation
  <1>1. b \in Attempts /\ Kept(b) /\ ScopedKey(b) = ScopedKey(a) /\ b \in Siblings(a)
    BY SiblingsShare DEF Kept
  <1>2. ScopedKey(a) \notin DOMAIN cache
    BY DEF KeyInv, CachedIsOver, InHandler
  <1>3. stage[b] = "created" => a = b
    BY <1>1 DEF KeyInv, OneAtATime, InHandler
  <1> QED BY <1>1, <1>2, <1>3 DEF KeyInv, MadeIsCached

\* Of the attempts with a kept key one at most has made a creation.
LEMMA MadeByOne ==
  ASSUME KeyInv, NEW a \in Attempts, Kept(a), NEW b \in Siblings(a), NEW c \in Siblings(a),
         made[b] # NoCreation, made[c] # NoCreation
  PROVE  b = c
  <1>1. /\ b \in Attempts /\ Kept(b) /\ ScopedKey(b) = ScopedKey(a)
        /\ c \in Attempts /\ Kept(c) /\ ScopedKey(c) = ScopedKey(a) /\ c \in Siblings(b)
    BY SiblingsShare DEF Kept
  <1>2. CASE stage[b] = "created" /\ stage[c] = "created"
    BY <1>1, <1>2 DEF KeyInv, OneAtATime, InHandler
  <1>3. CASE stage[b] # "created" /\ stage[c] # "created"
    BY <1>1, <1>3 DEF KeyInv, MadeIsCached, CreationsDiffer
  <1>4. CASE stage[b] = "created" /\ stage[c] # "created"
    BY <1>1, <1>4 DEF KeyInv, MadeIsCached, CachedIsOver, InHandler
  <1>5. CASE stage[b] # "created" /\ stage[c] = "created"
    BY <1>1, <1>5 DEF KeyInv, MadeIsCached, CachedIsOver, InHandler
  <1> QED BY <1>2, <1>3, <1>4, <1>5
-----------------------------------------------------------------------------
(* What the steps do to the invariant *)

\* An event is added at the end of the trail.
LEMMA TrailGoesOn ==
  ASSUME trail \in Seq(TrailEvent), NEW e \in TrailEvent, trail' = Append(trail, e)
  PROVE  /\ trail' \in Seq(TrailEvent)
         /\ \A i \in DOMAIN trail : i \in DOMAIN trail' /\ trail'[i] = trail[i]
         /\ Len(trail') = Len(trail) + 1 /\ Len(trail') \in DOMAIN trail'
         /\ trail'[Len(trail')] = e
         /\ DOMAIN trail = 1..Len(trail) /\ Len(trail) \in Nat
  OBVIOUS

\* Connections move, handlers end or panic, the server drains or stops.
LEMMA MovesKeep ==
  ASSUME KeyInv, UNCHANGED <<trail, cache, made>>, disturbed \subseteq disturbed',
         answers' \in Seq(Answer), CreatedAnswersAreOwn', AnswersAgree',
         stage' \in [Attempts -> Stage],
         \A a \in Attempts :
             /\ stage'[a] \in InHandler => stage'[a] = stage[a]
             /\ stage[a] = "created" /\ Kept(a)' => stage'[a] = "created"
             /\ stage'[a] \in {"unsent", "sending", "sent"} =>
                    stage[a] \in {"unsent", "sending", "sent"}
  PROVE  KeyInv'
  <1>2. PostTypeOK' /\ CacheIsOwn' /\ CreationsDiffer'
    BY DEF KeyInv, PostTypeOK, CacheIsOwn, CreationsDiffer
  <1>3. CreationsAreReal'
    BY DEF KeyInv, CreationsAreReal
  <1>4. MadeWhenCreated'
    BY DEF KeyInv, MadeWhenCreated, InHandler
  <1>5. \A b \in Attempts : Kept(b)' => Kept(b)
    BY KeptBefore
  <1>6. \A b \in Attempts : stage'[b] \in InHandler => stage[b] \in InHandler
    OBVIOUS
  <1>7. OneAtATime'
    <2> SUFFICES ASSUME NEW b \in Attempts, Kept(b)', NEW c \in Siblings(b),
                        stage'[b] \in InHandler, stage'[c] \in InHandler
                 PROVE  b = c
      BY DEF OneAtATime
    <2>1. c \in Attempts
      BY DEF Siblings
    <2> QED BY <1>5, <1>6, <2>1 DEF KeyInv, OneAtATime
  <1>8. CachedIsOver' /\ MadeIsCached'
    BY <1>5, <1>6 DEF KeyInv, CachedIsOver, MadeIsCached
  <1> QED BY <1>2, <1>3, <1>4, <1>7, <1>8 DEF KeyInv

\* The lookup misses: an attempt that overlaps with a sibling is known to.
LEMMA MissKeeps ==
  ASSUME KeyInv, NEW a \in Attempts, Miss(a)
  PROVE  KeyInv'
  <1>1. /\ stage[a] = "sent" /\ stage' = [stage EXCEPT ![a] = "missed"]
        /\ Keyed(a) => ScopedKey(a) \notin DOMAIN cache
        /\ UNCHANGED <<trail, cache, made, answers>>
        /\ disturbed \subseteq disturbed'
        /\ Keyed(a) /\ (\E b \in Siblings(a) : stage[b] \in InHandler) =>
              <<ScopedKey(a), "overlap">> \in disturbed'
    BY DEF Miss, InHandler, Disturb, recordVars
  <1>2. \A b \in Attempts : stage'[b] = IF b = a THEN "missed" ELSE stage[b]
    BY <1>1 DEF KeyInv, PostTypeOK
  <1>4. PostTypeOK'
    BY <1>1 DEF KeyInv, PostTypeOK, Stage
  <1>5. CacheIsOwn' /\ CreatedAnswersAreOwn' /\ CreationsDiffer' /\ CreationsAreReal'
    BY <1>1 DEF KeyInv, CacheIsOwn, CreatedAnswersAreOwn, CreationsDiffer, CreationsAreReal
  <1>6. \A b \in Attempts : Kept(b)' => Kept(b)
    BY <1>1, KeptBefore
  <1>7. AnswersAgree'
    BY <1>1, <1>6 DEF KeyInv, AnswersAgree
  <1>8. MadeWhenCreated'
    BY <1>1, <1>2 DEF KeyInv, MadeWhenCreated
  <1>9. OneAtATime'
    <2> SUFFICES ASSUME NEW b \in Attempts, Kept(b)', NEW c \in Siblings(b), b # c,
                        stage'[b] \in InHandler, stage'[c] \in InHandler
                 PROVE  FALSE
      BY DEF OneAtATime
    <2>1. /\ c \in Attempts /\ Keyed(c) /\ ScopedKey(c) = ScopedKey(b) /\ Keyed(b)
          /\ b \in Siblings(c)
      BY SiblingsShare DEF Kept
    <2>2. <<ScopedKey(b), "overlap">> \notin disturbed'
      BY DEF Kept, Causes
    <2>3. CASE b = a
      BY <1>1, <1>2, <2>1, <2>2, <2>3
    <2>4. CASE c = a
      BY <1>1, <1>2, <2>1, <2>2, <2>4
    <2>5. CASE b # a /\ c # a
      BY <1>2, <1>6, <2>1, <2>5 DEF KeyInv, OneAtATime
    <2> QED BY <2>3, <2>4, <2>5
  <1>10. CachedIsOver'
    BY <1>1, <1>2, <1>6 DEF KeyInv, CachedIsOver, Kept
  <1>11. MadeIsCached'
    BY <1>1, <1>2, <1>6 DEF KeyInv, MadeIsCached
  <1> QED BY <1>4, <1>5, <1>7, <1>8, <1>9, <1>10, <1>11 DEF KeyInv

\* Entries are forgotten, which is known of their keys.
LEMMA ForgettingKeeps ==
  ASSUME KeyInv, UNCHANGED <<trail, stage, made, answers>>, disturbed \subseteq disturbed',
         cache' \in [DOMAIN cache' -> Nat],
         \A key \in DOMAIN cache' : key \in DOMAIN cache /\ cache'[key] = cache[key],
         \A a \in Attempts : Kept(a)' /\ ScopedKey(a) \in DOMAIN cache =>
                                  ScopedKey(a) \in DOMAIN cache'
  PROVE  KeyInv'
  <1>2. PostTypeOK' /\ CacheIsOwn'
    BY DEF KeyInv, PostTypeOK, CacheIsOwn
  <1>3. MadeWhenCreated' /\ CreatedAnswersAreOwn' /\ CreationsDiffer' /\ CreationsAreReal'
    BY DEF KeyInv, MadeWhenCreated, CreatedAnswersAreOwn, CreationsDiffer, CreationsAreReal
  <1>4. \A b \in Attempts : Kept(b)' => Kept(b)
    BY KeptBefore
  <1>5. AnswersAgree'
    BY <1>4 DEF KeyInv, AnswersAgree
  <1>6. OneAtATime' /\ CachedIsOver' /\ MadeIsCached'
    BY <1>4 DEF KeyInv, OneAtATime, CachedIsOver, MadeIsCached
  <1> QED BY <1>2, <1>3, <1>5, <1>6 DEF KeyInv

\* Nothing is answered.
LEMMA SilenceKeeps ==
  ASSUME KeyInv, UNCHANGED <<made, answers>>, disturbed \subseteq disturbed'
  PROVE  answers' \in Seq(Answer) /\ CreatedAnswersAreOwn' /\ AnswersAgree'
  <1>1. \A b \in Attempts : Kept(b)' => Kept(b)
    BY KeptBefore
  <1> QED BY <1>1 DEF KeyInv, PostTypeOK, CreatedAnswersAreOwn, AnswersAgree

\* An answer that reports an own creation and agrees with the others.
LEMMA AnswerKeeps ==
  ASSUME KeyInv, UNCHANGED <<made, disturbed>>, NEW x \in Answer, answers' = Append(answers, x),
         x.status = 201 =>
             \E b \in Siblings(x.attempt) \cup {x.attempt} :
                 made[b] # NoCreation /\ made[b] = x.creation,
         \A a \in Attempts : Kept(a) /\ x.attempt \in Siblings(a) =>
             /\ x.status = 409 => ~x.done
             /\ x.status = 201 =>
                  \A b \in Siblings(a) : made[b] # NoCreation => made[b] = x.creation
  PROVE  answers' \in Seq(Answer) /\ CreatedAnswersAreOwn' /\ AnswersAgree'
  <1>1. answers \in Seq(Answer)
    BY DEF KeyInv, PostTypeOK
  <1>2. /\ answers' \in Seq(Answer)
        /\ \A i \in DOMAIN answers : answers'[i] = answers[i]
        /\ \A i \in DOMAIN answers' : i \in DOMAIN answers \/ answers'[i] = x
    BY <1>1
  <1>3. CreatedAnswersAreOwn'
    <2> SUFFICES ASSUME NEW i \in DOMAIN answers', answers'[i].status = 201
                 PROVE  \E b \in Siblings(answers'[i].attempt) \cup {answers'[i].attempt} :
                            made[b] # NoCreation /\ made[b] = answers'[i].creation
      BY DEF CreatedAnswersAreOwn, Siblings, Keyed, ScopedKey
    <2>1. CASE answers'[i] = x
      BY <2>1
    <2>2. CASE i \in DOMAIN answers
      BY <1>2, <2>2 DEF KeyInv, CreatedAnswersAreOwn
    <2> QED BY <1>2, <2>1, <2>2
  <1>4. \A a \in Attempts : Kept(a)' => Kept(a)
    BY KeptBefore
  <1>5. AnswersAgree'
    <2> SUFFICES ASSUME NEW a \in Attempts, Kept(a)', NEW i \in DOMAIN answers',
                        answers'[i].attempt \in Siblings(a)
                 PROVE  /\ answers'[i].status = 409 => ~answers'[i].done
                        /\ answers'[i].status = 201 =>
                             \A b \in Siblings(a) :
                                 made[b] # NoCreation => made[b] = answers'[i].creation
      BY DEF AnswersAgree
    <2>1. CASE answers'[i] = x
      BY <1>4, <2>1
    <2>2. CASE i \in DOMAIN answers
      BY <1>2, <1>4, <2>2 DEF KeyInv, AnswersAgree
    <2> QED BY <1>2, <2>1, <2>2
  <1> QED BY <1>2, <1>3, <1>5

\* An answer records whether its key's request had been carried out.
LEMMA ReceivedIsAnswer ==
  ASSUME NEW a \in Attempts, NEW status \in {201, 409}, NEW creation \in Nat
  PROVE  /\ Received(a, status, creation) \in Answer
         /\ Received(a, status, creation).attempt = a
         /\ Received(a, status, creation).status = status
         /\ Received(a, status, creation).creation = creation
         /\ Received(a, status, creation).done
              <=> Keyed(a) /\ \E b \in Siblings(a) : made[b] # NoCreation
  BY DEF Received, Answer

\* The cached 201 is the creation that the key's request made.
LEMMA ReplayKeeps ==
  ASSUME KeyInv, NEW a \in Attempts, Replay(a)
  PROVE  KeyInv'
  <1> DEFINE n == cache[ScopedKey(a)]
             x == Received(a, 201, n)
  <1>1. /\ stage[a] = "sent" /\ Keyed(a) /\ ScopedKey(a) \in DOMAIN cache
        /\ answers' = Append(answers, x) /\ stage' = [stage EXCEPT ![a] = "answered"]
        /\ UNCHANGED <<trail, cache, made, disturbed>>
    BY DEF Replay, Respond, recordVars
  <1>2. n \in Nat
    BY <1>1 DEF KeyInv, PostTypeOK
  <1>3. PICK b \in Siblings(a) : made[b] # NoCreation /\ made[b] = n
    BY <1>1 DEF KeyInv, CacheIsOwn, Siblings
  <1> HIDE DEF n
  <1>4. x \in Answer /\ x.attempt = a /\ x.status = 201 /\ x.creation = n
    BY <1>2, ReceivedIsAnswer
  <1> HIDE DEF x
  <1>5. ASSUME NEW c \in Attempts, Kept(c), a \in Siblings(c), NEW d \in Siblings(c),
               made[d] # NoCreation
        PROVE  made[d] = n
    <2>1. b \in Siblings(c)
      BY <1>5, SiblingsShare DEF Kept
    <2> QED BY <1>3, <1>5, <2>1, MadeByOne
  <1>6. answers' \in Seq(Answer) /\ CreatedAnswersAreOwn' /\ AnswersAgree'
    BY <1>1, <1>3, <1>4, <1>5, AnswerKeeps
  <1>7. /\ stage' \in [Attempts -> Stage]
        /\ \A c \in Attempts : stage'[c] = IF c = a THEN "answered" ELSE stage[c]
    BY <1>1 DEF KeyInv, PostTypeOK, Stage
  <1> QED BY <1>1, <1>6, <1>7, MovesKeep DEF InHandler

\* A 409 is no answer to a kept key whose request was carried out.
LEMMA ConflictKeeps ==
  ASSUME KeyInv, NEW a \in Attempts, Conflict(a)
  PROVE  KeyInv'
  <1> DEFINE x == Received(a, 409, NoCreation)
  <1>1. /\ stage[a] = "missed"
        /\ answers' = Append(answers, x) /\ stage' = [stage EXCEPT ![a] = "answered"]
        /\ UNCHANGED <<trail, cache, made, disturbed>>
    BY DEF Conflict, Respond, recordVars
  <1>2. /\ x \in Answer /\ x.attempt = a /\ x.status = 409
        /\ x.done => \E b \in Siblings(a) : made[b] # NoCreation
    BY ReceivedIsAnswer DEF NoCreation
  <1> HIDE DEF x
  <1>3. ASSUME NEW c \in Attempts, Kept(c), a \in Siblings(c)
        PROVE  ~x.done
    <2>1. Kept(a)
      BY <1>3, SiblingsShare DEF Kept
    <2> QED BY <1>1, <1>2, <2>1, NothingMadeYet
  <1>4. answers' \in Seq(Answer) /\ CreatedAnswersAreOwn' /\ AnswersAgree'
    BY <1>1, <1>2, <1>3, AnswerKeeps
  <1>5. /\ stage' \in [Attempts -> Stage]
        /\ \A c \in Attempts : stage'[c] = IF c = a THEN "answered" ELSE stage[c]
    BY <1>1 DEF KeyInv, PostTypeOK, Stage
  <1> QED BY <1>1, <1>4, <1>5, MovesKeep DEF InHandler

\* A creation is new; with a kept key, nobody has been told anything else.
LEMMA CreateRecordKeeps ==
  ASSUME KeyInv, NEW a \in Attempts, CreateRecord(a)
  PROVE  KeyInv'
  <1> DEFINE n == Len(trail')
             e == Event("Created", Request[a].kind, Request[a].id, Request[a].actor)
  <1>1. /\ stage[a] = "missed" /\ made' = [made EXCEPT ![a] = n]
        /\ stage' = [stage EXCEPT ![a] = "created"] /\ trail' = Append(trail, e)
        /\ UNCHANGED <<cache, answers, disturbed>>
    BY DEF CreateRecord
  <1>2. e \in TrailEvent /\ e.action = "Created" /\ e.actor = Request[a].actor
    BY RequestAssumption DEF Event, TrailEvent
  <1>3. trail \in Seq(TrailEvent)
    BY DEF KeyInv, PostTypeOK
  <1> HIDE DEF e
  <1>5. /\ trail' \in Seq(TrailEvent)
        /\ \A i \in DOMAIN trail : i \in DOMAIN trail' /\ trail'[i] = trail[i]
        /\ n = Len(trail) + 1 /\ n \in DOMAIN trail'
        /\ trail'[n].action = "Created" /\ trail'[n].actor = Request[a].actor
        /\ DOMAIN trail = 1..Len(trail) /\ Len(trail) \in Nat
    BY <1>1, <1>2, <1>3, TrailGoesOn
  <1> HIDE DEF n
  <1>6. n \notin DOMAIN trail /\ n \in Nat /\ n # NoCreation
    BY <1>5 DEF NoCreation
  <1>7. \A b \in Attempts : /\ made'[b] = IF b = a THEN n ELSE made[b]
                            /\ stage'[b] = IF b = a THEN "created" ELSE stage[b]
    BY <1>1 DEF KeyInv, PostTypeOK
  <1>8. made[a] = NoCreation
    BY <1>1 DEF KeyInv, MadeWhenCreated
  <1>9. PostTypeOK'
    BY <1>1, <1>5, <1>6 DEF KeyInv, PostTypeOK, Stage
  <1>10. MadeWhenCreated'
    BY <1>6, <1>7 DEF KeyInv, MadeWhenCreated
  <1>11. CreationsAreReal'
    BY <1>5, <1>7 DEF KeyInv, CreationsAreReal
  <1>12. CreationsDiffer'
    BY <1>6, <1>7 DEF KeyInv, CreationsDiffer, CreationsAreReal
  <1>13. CacheIsOwn'
    BY <1>1, <1>7, <1>8 DEF KeyInv, CacheIsOwn
  <1>14. CreatedAnswersAreOwn'
    <2> SUFFICES ASSUME NEW i \in DOMAIN answers, answers[i].status = 201
                 PROVE  \E b \in Siblings(answers[i].attempt) \cup {answers[i].attempt} :
                            made'[b] # NoCreation /\ made'[b] = answers[i].creation
      BY <1>1 DEF CreatedAnswersAreOwn
    <2>1. PICK b \in Siblings(answers[i].attempt) \cup {answers[i].attempt} :
             made[b] # NoCreation /\ made[b] = answers[i].creation
      BY DEF KeyInv, CreatedAnswersAreOwn
    <2>2. b \in Attempts
      <3>1. answers[i] \in Answer
        BY DEF KeyInv, PostTypeOK
      <3> QED BY <2>1, <3>1 DEF Answer, Siblings
    <2>3. made'[b] = made[b]
      BY <1>7, <1>8, <2>1, <2>2
    <2> QED BY <2>1, <2>3
  <1>15. \A b \in Attempts : Kept(b)' => Kept(b)
    BY <1>1, KeptBefore
  <1>16. OneAtATime'
    <2> SUFFICES ASSUME NEW b \in Attempts, Kept(b)', NEW c \in Siblings(b),
                        stage'[b] \in InHandler, stage'[c] \in InHandler
                 PROVE  b = c
      BY DEF OneAtATime
    <2>1. c \in Attempts /\ stage[b] \in InHandler /\ stage[c] \in InHandler
      BY <1>1, <1>7 DEF Siblings, InHandler
    <2> QED BY <1>15, <2>1 DEF KeyInv, OneAtATime
  <1>17. CachedIsOver'
    BY <1>1, <1>7, <1>15 DEF KeyInv, CachedIsOver, InHandler
  <1>18. MadeIsCached'
    BY <1>1, <1>7, <1>15 DEF KeyInv, MadeIsCached
  <1>19. AnswersAgree'
    <2> SUFFICES ASSUME NEW c \in Attempts, Kept(c), NEW i \in DOMAIN answers,
                        answers[i].attempt \in Siblings(c)
                 PROVE  /\ answers[i].status = 409 => ~answers[i].done
                        /\ answers[i].status = 201 =>
                             \A b \in Siblings(c) :
                                 made'[b] # NoCreation => made'[b] = answers[i].creation
      BY <1>1, <1>15 DEF AnswersAgree
    <2>1. CASE a \notin Siblings(c)
      BY <1>7, <2>1 DEF KeyInv, AnswersAgree, Siblings
    <2>2. CASE a \in Siblings(c)
      <3>1. Kept(a) /\ Siblings(a) = Siblings(c) /\ Keyed(c)
        BY <2>2, SiblingsShare DEF Kept
      <3>2. ASSUME answers[i].status = 201 PROVE FALSE
        <4>1. PICK b \in Siblings(answers[i].attempt) \cup {answers[i].attempt} :
                 made[b] # NoCreation
          BY <3>2 DEF KeyInv, CreatedAnswersAreOwn
        <4>2. b \in Siblings(a)
          BY <3>1, SiblingsShare
        <4> QED BY <1>1, <3>1, <4>1, <4>2, NothingMadeYet
      <3> QED BY <3>2 DEF KeyInv, AnswersAgree
    <2> QED BY <2>1, <2>2
  <1> QED BY <1>9, <1>10, <1>11, <1>12, <1>13, <1>14, <1>16, <1>17, <1>18, <1>19 DEF KeyInv

\* A handler stores its answer and ends, heard or unheard.
LEMMA KeepKeeps ==
  ASSUME KeyInv, NEW a \in Attempts, NEW to \in {"answered", "lost"}, stage[a] = "created",
         Keep(a), stage' = [stage EXCEPT ![a] = to], UNCHANGED <<trail, made, disturbed>>,
         answers' \in Seq(Answer), CreatedAnswersAreOwn', AnswersAgree'
  PROVE  KeyInv'
  <1>1. made[a] \in Nat /\ made[a] # NoCreation
    BY DEF KeyInv, PostTypeOK, MadeWhenCreated
  <1>2. \A b \in Attempts : stage'[b] = IF b = a THEN to ELSE stage[b]
    BY DEF KeyInv, PostTypeOK
  <1>3. cache \in [DOMAIN cache -> Nat]
    BY DEF KeyInv, PostTypeOK
  <1>4. CASE ~Keyed(a)
    <2>1. cache' = cache
      BY <1>4 DEF Keep
    <2>2. PostTypeOK'
      BY <1>3, <2>1 DEF KeyInv, PostTypeOK, Stage
    <2>3. MadeWhenCreated'
      BY <1>2 DEF KeyInv, MadeWhenCreated
    <2>4. CreationsAreReal' /\ CreationsDiffer' /\ CacheIsOwn'
      BY <2>1 DEF KeyInv, CreationsAreReal, CreationsDiffer, CacheIsOwn
    <2>5. \A b \in Attempts : Kept(b)' => Kept(b) /\ b # a
      BY <1>4, KeptBefore DEF Kept
    <2>6. OneAtATime'
      BY <1>2, <2>5 DEF KeyInv, OneAtATime, InHandler, Siblings
    <2>7. CachedIsOver' /\ MadeIsCached'
      BY <1>2, <2>1, <2>5 DEF KeyInv, CachedIsOver, MadeIsCached, InHandler
    <2> QED BY <2>2, <2>3, <2>4, <2>6, <2>7 DEF KeyInv
  <1>5. CASE Keyed(a)
    <2> DEFINE k == ScopedKey(a)
    <2>1. /\ DOMAIN cache' = DOMAIN cache \cup {k}
          /\ \A key \in DOMAIN cache' : cache'[key] = IF key = k THEN made[a] ELSE cache[key]
          /\ cache' = [key \in DOMAIN cache' |-> cache'[key]]
      BY <1>5 DEF Keep
    <2>2. PostTypeOK'
      <3>1. \A key \in DOMAIN cache' : cache'[key] \in Nat
        BY <1>1, <1>3, <2>1
      <3>2. cache' \in [DOMAIN cache' -> Nat]
        BY <2>1, <3>1
      <3> QED BY <3>2 DEF KeyInv, PostTypeOK, Stage
    <2>3. MadeWhenCreated'
      BY <1>2 DEF KeyInv, MadeWhenCreated
    <2>4. CreationsAreReal' /\ CreationsDiffer'
      BY DEF KeyInv, CreationsAreReal, CreationsDiffer
    <2>5. CacheIsOwn'
      BY <1>1, <1>5, <2>1 DEF KeyInv, CacheIsOwn
    <2>6. \A b \in Attempts : Kept(b)' => Kept(b)
      BY KeptBefore
    <2>7. OneAtATime'
      BY <1>2, <2>6 DEF KeyInv, OneAtATime, InHandler, Siblings
    <2>8. ASSUME NEW b \in Attempts, Kept(b), ScopedKey(b) = k
          PROVE  b \in Siblings(a) /\ Kept(a) /\ a \in Siblings(b)
      BY <1>5, <2>8 DEF Kept, Siblings, Causes
    <2>9. CachedIsOver'
      <3> SUFFICES ASSUME NEW b \in Attempts, Kept(b)', ScopedKey(b) \in DOMAIN cache',
                          stage'[b] \in InHandler
                   PROVE  FALSE
        BY DEF CachedIsOver
      <3>1. b # a /\ stage[b] \in InHandler
        BY <1>2 DEF InHandler
      <3>2. CASE ScopedKey(b) # k
        BY <2>1, <2>6, <3>1, <3>2 DEF KeyInv, CachedIsOver
      <3>3. CASE ScopedKey(b) = k
        BY <2>6, <2>8, <3>1, <3>3 DEF KeyInv, OneAtATime, InHandler
      <3> QED BY <3>2, <3>3
    <2>10. MadeIsCached'
      <3> SUFFICES ASSUME NEW b \in Attempts, Kept(b)', made[b] # NoCreation,
                          stage'[b] # "created"
                   PROVE  ScopedKey(b) \in DOMAIN cache' /\ cache'[ScopedKey(b)] = made[b]
        BY DEF MadeIsCached
      <3>1. CASE ScopedKey(b) # k
        BY <1>2, <2>1, <2>6, <3>1 DEF KeyInv, MadeIsCached
      <3>2. CASE ScopedKey(b) = k
        <4>1. a = b
          BY <1>1, <1>5, <2>6, <2>8, <3>2, MadeByOne, SiblingsShare
        <4> QED BY <2>1, <4>1
      <3> QED BY <3>1, <3>2
    <2> QED BY <2>2, <2>3, <2>4, <2>5, <2>7, <2>9, <2>10 DEF KeyInv
  <1> QED BY <1>4, <1>5

\* The 201 of a handler names what it has made.
LEMMA FinishKeeps ==
  ASSUME KeyInv, NEW a \in Attempts, Finish(a)
  PROVE  KeyInv'
  <1> DEFINE x == Received(a, 201, made[a])
  <1>1. /\ stage[a] = "created" /\ Keep(a)
        /\ answers' = Append(answers, x) /\ stage' = [stage EXCEPT ![a] = "answered"]
        /\ UNCHANGED <<trail, made, disturbed>>
    BY DEF Finish, Respond, recordVars
  <1>2. made[a] \in Nat /\ made[a] # NoCreation
    BY <1>1 DEF KeyInv, PostTypeOK, MadeWhenCreated
  <1>3. x \in Answer /\ x.attempt = a /\ x.status = 201 /\ x.creation = made[a]
    BY <1>2, ReceivedIsAnswer
  <1> HIDE DEF x
  <1>4. \A c \in Attempts : Kept(c) /\ a \in Siblings(c) =>
           \A b \in Siblings(c) : made[b] # NoCreation => made[b] = made[a]
    BY <1>2, MadeByOne
  <1>5. answers' \in Seq(Answer) /\ CreatedAnswersAreOwn' /\ AnswersAgree'
    BY <1>1, <1>2, <1>3, <1>4, AnswerKeeps
  <1> QED BY <1>1, <1>5, KeepKeeps

\* A handler that panics has cached nothing, which is known of its key.
LEMMA PanicKeeps ==
  ASSUME KeyInv, NEW a \in Attempts, EmitPanics(a) \/ FlushPanics(a)
  PROVE  KeyInv'
  <1>1. /\ stage' = [stage EXCEPT ![a] = "dropped"]
        /\ UNCHANGED <<trail, cache, made, answers>> /\ disturbed \subseteq disturbed'
        /\ Keyed(a) => <<ScopedKey(a), "panic">> \in disturbed'
    BY DEF EmitPanics, FlushPanics, StatementFails, Disturb, recordVars
  <1>2. answers' \in Seq(Answer) /\ CreatedAnswersAreOwn' /\ AnswersAgree'
    BY <1>1, SilenceKeeps
  <1>3. ~Kept(a)'
    BY <1>1 DEF Kept, Causes
  <1>4. /\ stage' \in [Attempts -> Stage]
        /\ \A c \in Attempts : stage'[c] = IF c = a THEN "dropped" ELSE stage[c]
    BY <1>1 DEF KeyInv, PostTypeOK, Stage
  <1> QED BY <1>1, <1>2, <1>3, <1>4, MovesKeep DEF InHandler

\* A handler that ends while the process exits.
LEMMA RunUnheardKeeps ==
  ASSUME KeyInv, NEW a \in Attempts, RunUnheard(a)
  PROVE  KeyInv'
  <1>1. /\ stage' = [stage EXCEPT ![a] = "lost"] /\ UNCHANGED <<trail, made, answers, disturbed>>
        /\ \/ stage[a] = "created" /\ Keep(a)
           \/ stage[a] = "missed" /\ UNCHANGED cache
    BY DEF RunUnheard, recordVars
  <1>2. answers' \in Seq(Answer) /\ CreatedAnswersAreOwn' /\ AnswersAgree'
    BY <1>1, SilenceKeeps
  <1>3. CASE stage[a] = "created" /\ Keep(a)
    BY <1>1, <1>2, <1>3, KeepKeeps
  <1>4. CASE stage[a] = "missed" /\ UNCHANGED cache
    <2>1. /\ stage' \in [Attempts -> Stage]
          /\ \A c \in Attempts : stage'[c] = IF c = a THEN "lost" ELSE stage[c]
      BY <1>1 DEF KeyInv, PostTypeOK, Stage
    <2> QED BY <1>1, <1>2, <1>4, <2>1, MovesKeep DEF InHandler
  <1> QED BY <1>1, <1>3, <1>4

\* A deletion adds its event and leaves the creations where they are.
LEMMA DeleteRecordKeeps ==
  ASSUME KeyInv, NEW remover \in Removers, NEW kind \in Kinds, NEW id \in Ids,
         DeleteRecord(remover, kind, id)
  PROVE  KeyInv'
  <1> DEFINE e == Event("Deleted", kind, id, remover)
  <1>1. trail' = Append(trail, e) /\ UNCHANGED <<cache, stage, made, answers, disturbed>>
    BY DEF DeleteRecord
  <1>2. e \in TrailEvent
    BY RemoversAssumption DEF Event, TrailEvent
  <1> HIDE DEF e
  <1>3. trail \in Seq(TrailEvent)
    BY DEF KeyInv, PostTypeOK
  <1>4. /\ trail' \in Seq(TrailEvent)
        /\ \A i \in DOMAIN trail : i \in DOMAIN trail' /\ trail'[i] = trail[i]
    BY <1>1, <1>2, <1>3, TrailGoesOn
  <1>5. CreationsAreReal'
    BY <1>1, <1>4 DEF KeyInv, CreationsAreReal
  <1>6. PostTypeOK' /\ MadeWhenCreated' /\ CreationsDiffer' /\ CacheIsOwn' /\ CreatedAnswersAreOwn'
    BY <1>1, <1>4 DEF KeyInv, PostTypeOK, MadeWhenCreated, CreationsDiffer, CacheIsOwn,
                CreatedAnswersAreOwn
  <1>7. OneAtATime' /\ CachedIsOver' /\ MadeIsCached' /\ AnswersAgree'
    BY <1>1 DEF KeyInv, OneAtATime, CachedIsOver, MadeIsCached, AnswersAgree, Kept, Causes
  <1> QED BY <1>5, <1>6, <1>7 DEF KeyInv

\* A lookup drops an entry whose ten minutes are over.
LEMMA ExpiredKeeps ==
  ASSUME KeyInv, NEW key \in DOMAIN cache, Expired(key)
  PROVE  KeyInv'
  <1>1. /\ cache' = [k \in DOMAIN cache \ {key} |-> cache[k]]
        /\ disturbed' = disturbed \cup {<<key, "expired">>}
        /\ UNCHANGED <<trail, stage, made, answers>>
    BY DEF Expired, Expire, recordVars
  <1>2. /\ cache' \in [DOMAIN cache' -> Nat]
        /\ \A k \in DOMAIN cache' : k \in DOMAIN cache /\ cache'[k] = cache[k]
    BY <1>1 DEF KeyInv, PostTypeOK
  <1>3. ASSUME NEW a \in Attempts, Kept(a)', ScopedKey(a) \in DOMAIN cache
        PROVE  ScopedKey(a) \in DOMAIN cache'
    <2>1. <<ScopedKey(a), "expired">> \notin disturbed'
      BY <1>3 DEF Kept, Causes
    <2> QED BY <1>1, <1>3, <2>1
  <1> QED BY <1>1, <1>2, <1>3, ForgettingKeeps

\* A restart forgets the cache.
LEMMA StartAgainKeeps ==
  ASSUME KeyInv, StartAgain
  PROVE  KeyInv'
  <1>1. /\ cache' = << >>
        /\ disturbed' = disturbed \cup {<<key, "restart">> : key \in DOMAIN cache}
        /\ UNCHANGED <<trail, stage, made, answers>>
    BY DEF StartAgain
  <1>2. DOMAIN cache' = {} /\ cache' \in [DOMAIN cache' -> Nat]
    BY <1>1
  <1>3. ASSUME NEW a \in Attempts, Kept(a)', ScopedKey(a) \in DOMAIN cache
        PROVE  FALSE
    <2>1. <<ScopedKey(a), "restart">> \notin disturbed'
      BY <1>3 DEF Kept, Causes
    <2> QED BY <1>1, <1>3, <2>1
  <1> QED BY <1>1, <1>2, <1>3, ForgettingKeeps

\* Clients and the server's life, apart from the restart.
LEMMA LifeKeeps ==
  ASSUME KeyInv, \/ \E a \in Attempts : Connect(a) \/ Send(a) \/ HangUp(a)
                 \/ Signal \/ Shutdown
                 \/ UNCHANGED serveVars
  PROVE  KeyInv'
  <1>1. UNCHANGED <<trail, cache, made, answers, disturbed>>
    BY DEF Connect, Send, HangUp, MoveTo, Signal, Shutdown, Drained, GraceOver, ForcedExit,
           Stop, recordVars, postVars, serveVars
  <1>2. answers' \in Seq(Answer) /\ CreatedAnswersAreOwn' /\ AnswersAgree'
    BY <1>1, SilenceKeeps
  <1>3. stage \in [Attempts -> Stage]
    BY DEF KeyInv, PostTypeOK
  <1>4. CASE UNCHANGED stage
    BY <1>1, <1>2, <1>3, <1>4, MovesKeep
  <1>5. ASSUME NEW a \in Attempts, NEW next \in {"unsent", "sending", "sent"},
               stage[a] \in {"unsent", "sending"}, stage' = [stage EXCEPT ![a] = next]
        PROVE  KeyInv'
    <2>1. /\ stage' \in [Attempts -> Stage]
          /\ \A c \in Attempts : stage'[c] = IF c = a THEN next ELSE stage[c]
      BY <1>3, <1>5 DEF Stage
    <2> QED BY <1>1, <1>2, <1>5, <2>1, MovesKeep DEF InHandler
  <1>6. CASE ForcedExit
    <2>1. /\ \A c \in Attempts : stage[c] \notin InHandler
          /\ stage' = [c \in Attempts |-> IF c \in Busy THEN "lost" ELSE stage[c]]
      BY <1>6 DEF ForcedExit
    <2>2. \A c \in Attempts : stage'[c] = "lost" \/ stage'[c] = stage[c]
      BY <2>1
    <2>3. stage' \in [Attempts -> Stage]
      BY <1>3, <2>1 DEF Stage
    <2> QED BY <1>1, <1>2, <2>1, <2>2, <2>3, MovesKeep DEF InHandler
  <1>7. CASE \E a \in Attempts : Connect(a) \/ Send(a) \/ HangUp(a)
    BY <1>5, <1>7 DEF Connect, Send, HangUp, MoveTo
  <1>8. CASE Signal \/ Drained \/ GraceOver \/ UNCHANGED serveVars
    <2>1. UNCHANGED stage
      BY <1>8 DEF Signal, Drained, GraceOver, serveVars, postVars
    <2> QED BY <1>4, <2>1
  <1> QED BY <1>6, <1>7, <1>8 DEF Shutdown

\* At first nothing is cached, made or answered.
LEMMA KeyInit == ServeInit => KeyInv
  <1> SUFFICES ASSUME ServeInit PROVE KeyInv
    OBVIOUS
  <1>1. trail \in Seq(TrailEvent)
    BY DEF ServeInit
  <1>2. /\ cache = << >> /\ DOMAIN cache = {} /\ answers = << >> /\ DOMAIN answers = {}
        /\ \A a \in Attempts : stage[a] = "unsent" /\ made[a] = NoCreation
    BY DEF ServeInit
  <1>3. PostTypeOK
    <2>1. stage \in [Attempts -> Stage] /\ made \in [Attempts -> Nat]
      BY DEF ServeInit, Stage, NoCreation
    <2> QED BY <1>1, <1>2, <2>1 DEF PostTypeOK
  <1>4. MadeWhenCreated /\ CreationsAreReal /\ CreationsDiffer
    BY <1>2 DEF MadeWhenCreated, CreationsAreReal, CreationsDiffer
  <1>5. CacheIsOwn /\ CreatedAnswersAreOwn /\ AnswersAgree
    BY <1>2 DEF CacheIsOwn, CreatedAnswersAreOwn, AnswersAgree
  <1>6. OneAtATime /\ CachedIsOver /\ MadeIsCached
    BY <1>2 DEF OneAtATime, CachedIsOver, MadeIsCached, InHandler
  <1> QED BY <1>3, <1>4, <1>5, <1>6 DEF KeyInv

\* Every step of clients, handlers and server keeps the invariant.
LEMMA KeyNext == KeyInv /\ [ServeNext]_serveVars => KeyInv'
  <1> SUFFICES ASSUME KeyInv, [ServeNext]_serveVars PROVE KeyInv'
    OBVIOUS
  <1>1. ASSUME NEW a \in Attempts, Run(a) PROVE KeyInv'
    BY <1>1, ReplayKeeps, MissKeeps, CreateRecordKeeps, ConflictKeeps, FinishKeeps,
       PanicKeeps
    DEF Run, Handle
  <1>2. ASSUME NEW a \in Attempts, RunUnheard(a) PROVE KeyInv'
    BY <1>2, RunUnheardKeeps
  <1>3. ASSUME NEW key \in DOMAIN cache, Expired(key) PROVE KeyInv'
    BY <1>3, ExpiredKeeps
  <1>4. ASSUME NEW remover \in Removers, NEW kind \in Kinds, NEW id \in Ids,
               DeleteRecord(remover, kind, id)
        PROVE  KeyInv'
    BY <1>4, DeleteRecordKeeps
  <1>5. CASE StartAgain
    BY <1>5, StartAgainKeeps
  <1>6. CASE \/ \E a \in Attempts : Connect(a) \/ Send(a) \/ HangUp(a)
             \/ Signal \/ Shutdown \/ UNCHANGED serveVars
    BY <1>6, LifeKeeps
  <1> QED BY <1>1, <1>2, <1>3, <1>4, <1>5, <1>6 DEF ServeNext

-----------------------------------------------------------------------------
(* Theorems *)

\* The inductive invariant of the keys: what the cache and the answers name was
\* made by an attempt with the key, and of a kept key one handler at a time is
\* between lookup and put, and none once it is cached.
THEOREM KeyInvariant == ServeSpec => []KeyInv
  <1> QED BY KeyInit, KeyNext, PTL DEF ServeSpec

\* A 201, fresh or replayed, reports a creation that is in the trail, made by an
\* attempt with the same scoped key under the name of its actor, who is the one
\* who asked unless one of the two has a colon in his id.
THEOREM AnswersAlwaysOwn == ServeSpec => []AnswersAreOwn
  <1>1. KeyInv => AnswersAreOwn
    <2> SUFFICES ASSUME KeyInv, NEW i \in DOMAIN answers, answers[i].status = 201
                 PROVE  LET ans == answers[i] IN
                        /\ trail[ans.creation].action = "Created"
                        /\ \E b \in Siblings(ans.attempt) \cup {ans.attempt} :
                              /\ made[b] = ans.creation
                              /\ trail[ans.creation].actor = Request[b].actor
                              /\ Plain(b) /\ Plain(ans.attempt) =>
                                    Request[b].actor = Request[ans.attempt].actor
      BY DEF AnswersAreOwn
    <2> DEFINE a == answers[i].attempt
    <2>1. PICK b \in Siblings(a) \cup {a} : made[b] # NoCreation /\ made[b] = answers[i].creation
      BY DEF KeyInv, CreatedAnswersAreOwn
    <2>2. a \in Attempts /\ b \in Attempts /\ (b = a \/ ScopedKey(b) = ScopedKey(a))
      <3>1. answers[i] \in Answer
        BY DEF KeyInv, PostTypeOK
      <3> QED BY <2>1, <3>1 DEF Answer, Siblings
    <2>3. Plain(b) /\ Plain(a) => Request[b].actor = Request[a].actor
      BY <2>2, PlainActorsAgree
    <2>4. trail[made[b]].action = "Created" /\ trail[made[b]].actor = Request[b].actor
      BY <2>1, <2>2 DEF KeyInv, CreationsAreReal
    <2> QED BY <2>1, <2>3, <2>4
  <1> QED BY <1>1, KeyInvariant, PTL

\* As long as a key's attempts do not overlap, none panics and its entry is kept,
\* its request acts once, and every attempt after that is told so.
THEOREM KeptKeyAlwaysExactlyOnce == ServeSpec => []KeptKeyIsExactlyOnce
  <1>1. KeyInv => KeptKeyIsExactlyOnce
    <2> SUFFICES ASSUME KeyInv, NEW a \in Attempts, Kept(a)
                 PROVE  /\ Cardinality({b \in Siblings(a) : made[b] # NoCreation}) <= 1
                        /\ \A i \in DOMAIN answers :
                              answers[i].attempt \in Siblings(a) =>
                                  /\ answers[i].status = 409 => ~answers[i].done
                                  /\ answers[i].status = 201 =>
                                       \A b \in Siblings(a) :
                                           made[b] # NoCreation => made[b] = answers[i].creation
      BY DEF KeptKeyIsExactlyOnce, Kept
    <2> DEFINE Makers == {b \in Siblings(a) : made[b] # NoCreation}
    <2>1. Makers = {} \/ \E b : Makers = {b}
      BY MadeByOne
    <2>2. Cardinality(Makers) <= 1
      <3>1. Cardinality({}) = 0 /\ \A x : Cardinality({x}) = 1
        BY FS_EmptySet, FS_Singleton
      <3> HIDE DEF Makers
      <3>2. Cardinality(Makers) = 0 \/ Cardinality(Makers) = 1
        BY <2>1, <3>1
      <3> QED BY <3>2
    <2>3. Cardinality({b \in Siblings(a) : made[b] # NoCreation}) <= 1
      BY <2>2
    <2> QED BY <2>3 DEF KeyInv, AnswersAgree
  <1> QED BY <1>1, KeyInvariant, PTL
=============================================================================
