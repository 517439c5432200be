----------------------------- MODULE ListLemmas -----------------------------
(***************************************************************************)
(* Facts that the proofs of the component modules share: what appending    *)
(* and removing do to a list, counting up to a number, sums over finite    *)
(* sets, and folds over lists.  Induction is by the least element of a set *)
(* of naturals: what a fold or a sum is, is proved by counting up to the   *)
(* length of the list or the size of the set.                              *)
(***************************************************************************)
EXTENDS SequencesExt, WellFoundedInduction, FiniteSetTheorems, TLAPS

-----------------------------------------------------------------------------
(* Lists *)

\* Vec::remove drops one element and keeps the others in order.
LEMMA RemoveAtProperties ==
    ASSUME NEW S, NEW s \in Seq(S), NEW k \in DOMAIN s
    PROVE  /\ RemoveAt(s, k) \in Seq(S)
           /\ Len(RemoveAt(s, k)) = Len(s) - 1
           /\ \A i \in DOMAIN RemoveAt(s, k) :
                RemoveAt(s, k)[i] = IF i < k THEN s[i] ELSE s[i + 1]
  <1>1. k \in 1..Len(s) /\ Len(s) \in Nat
    OBVIOUS
  <1> DEFINE front == SubSeq(s, 1, k - 1)
             back == SubSeq(s, k + 1, Len(s))
  <1>2. front \in Seq(S) /\ Len(front) = k - 1 /\ \A i \in 1..(k - 1) : front[i] = s[i]
    BY <1>1
  <1>3. back \in Seq(S) /\ Len(back) = Len(s) - k
        /\ \A i \in 1..(Len(s) - k) : back[i] = s[k + i]
    BY <1>1
  <1> HIDE DEF front, back
  <1>4. RemoveAt(s, k) = front \o back
    BY DEF RemoveAt, front, back
  <1> QED
    BY <1>1, <1>2, <1>3, <1>4

\* A sequence is a function on its positions.
LEMMA SequenceIsFunction ==
    ASSUME NEW S, NEW s \in Seq(S)
    PROVE  s \in [1..Len(s) -> S] /\ Len(s) \in Nat
  OBVIOUS

\* Appending keeps what is there and adds one element at the end.
LEMMA AppendProperties ==
    ASSUME NEW S, NEW s \in Seq(S), NEW e \in S
    PROVE  /\ Append(s, e) \in Seq(S)
           /\ Len(Append(s, e)) = Len(s) + 1
           /\ Append(s, e)[Len(s) + 1] = e
           /\ \A i \in DOMAIN s : i \in DOMAIN Append(s, e) /\ Append(s, e)[i] = s[i]
           /\ \A i \in DOMAIN Append(s, e) : i \in DOMAIN s \/ i = Len(s) + 1
  OBVIOUS

\* Overwriting one element keeps the sequence a sequence over the set, and its length.
LEMMA OverwriteProperties ==
    ASSUME NEW S, NEW s \in Seq(S), NEW k \in DOMAIN s, NEW e \in S
    PROVE  /\ [s EXCEPT ![k] = e] \in Seq(S)
           /\ Len([s EXCEPT ![k] = e]) = Len(s)
           /\ \A i \in DOMAIN s : [s EXCEPT ![k] = e][i] = IF i = k THEN e ELSE s[i]
  OBVIOUS

\* Mapping a list that grew by one element: the image grows by its image.
LEMMA MapAppend ==
    ASSUME NEW S, NEW T, NEW f \in [S -> T], NEW s \in Seq(S), NEW e \in S
    PROVE  [i \in DOMAIN Append(s, e) |-> f[Append(s, e)[i]]]
             = Append([i \in DOMAIN s |-> f[s[i]]], f[e])
  <1> DEFINE old == [i \in DOMAIN s |-> f[s[i]]]
             new == [i \in DOMAIN Append(s, e) |-> f[Append(s, e)[i]]]
  <1>1. s \in [1..Len(s) -> S] /\ Len(s) \in Nat
    OBVIOUS
  <1>2. old \in Seq(T) /\ Len(old) = Len(s)
    BY <1>1
  <1>3. new \in Seq(T) /\ Len(new) = Len(s) + 1
    BY <1>1
  <1>4. Append(old, f[e]) \in Seq(T) /\ Len(Append(old, f[e])) = Len(s) + 1
    BY <1>2
  <1>5. \A i \in 1..(Len(s) + 1) : new[i] = Append(old, f[e])[i]
    BY <1>1, <1>2
  <1> HIDE DEF old, new
  <1>6. new = Append(old, f[e])
    BY <1>1, <1>3, <1>4, <1>5
  <1> QED
    BY <1>6 DEF old, new

\* The image of a list under f.
Mapped(f, s) == [i \in DOMAIN s |-> f[s[i]]]

\* Mapping a list that lost an element: the image loses its image.
LEMMA MapRemoveAt ==
    ASSUME NEW S, NEW f, NEW s \in Seq(S), NEW k \in DOMAIN s
    PROVE  Mapped(f, RemoveAt(s, k)) = RemoveAt(Mapped(f, s), k)
  <1> DEFINE rest == RemoveAt(s, k)
             old == [i \in DOMAIN s |-> f[s[i]]]
             less == RemoveAt(old, k)
             new == [i \in DOMAIN rest |-> f[rest[i]]]
             n == Len(s) - 1
             T == {f[x] : x \in S}
  <1>1. s \in [1..(n + 1) -> S] /\ n \in Nat /\ k \in 1..(n + 1)
    OBVIOUS
  <1>9. \A x \in S : f[x] \in T
    OBVIOUS
  <1> HIDE DEF T
  <1>2. /\ old \in Seq(T) /\ Len(old) = n + 1 /\ k \in DOMAIN old
        /\ \A i \in 1..(n + 1) : old[i] = f[s[i]]
    BY <1>1, <1>9
  <1>3. /\ rest \in Seq(S) /\ Len(rest) = n
        /\ \A i \in DOMAIN rest : rest[i] = IF i < k THEN s[i] ELSE s[i + 1]
    BY RemoveAtProperties
  <1> HIDE DEF n, old, rest
  <1>4. /\ less \in Seq(T) /\ Len(less) = n
        /\ \A i \in DOMAIN less : less[i] = IF i < k THEN old[i] ELSE old[i + 1]
    <2>1. /\ less \in Seq(T) /\ Len(less) = Len(old) - 1
          /\ \A i \in DOMAIN less : less[i] = IF i < k THEN old[i] ELSE old[i + 1]
      BY <1>2, RemoveAtProperties
    <2> HIDE DEF less
    <2> QED
      BY <1>1, <1>2, <2>1
  <1> HIDE DEF less
  <1>5. /\ DOMAIN rest = 1..n /\ DOMAIN less = 1..n /\ rest \in [1..n -> S]
    BY <1>1, <1>3, <1>4
  <1>6. new \in Seq(T) /\ Len(new) = n /\ \A i \in 1..n : new[i] = f[rest[i]]
    BY <1>1, <1>5, <1>9
  <1> HIDE DEF new
  <1>7. ASSUME NEW i \in 1..n PROVE new[i] = less[i]
    <2>1. i \in 1..(n + 1) /\ i + 1 \in 1..(n + 1)
      BY <1>1
    <2>2. new[i] = f[rest[i]] /\ rest[i] = IF i < k THEN s[i] ELSE s[i + 1]
      BY <1>3, <1>5, <1>6
    <2>3. less[i] = IF i < k THEN old[i] ELSE old[i + 1]
      BY <1>4, <1>5
    <2> QED
      BY <1>2, <2>1, <2>2, <2>3
  <1>8. new = less
    BY <1>1, <1>4, <1>6, <1>7
  <1> QED
    BY <1>8 DEF new, less, old, rest, Mapped

\* A longer list that agrees with a shorter one on its positions extends it.
LEMMA AppendIsPrefix ==
    ASSUME NEW S, NEW s \in Seq(S), NEW e \in S
    PROVE  IsPrefix(s, Append(s, e))
  BY DEF IsPrefix

\* A sequence is a prefix of itself.
LEMMA PrefixReflexive ==
    ASSUME NEW S, NEW s \in Seq(S)
    PROVE  IsPrefix(s, s)
  BY DEF IsPrefix

\* The empty list is a prefix of every list.
LEMMA EmptyIsPrefix ==
  ASSUME NEW S, NEW s \in Seq(S)
  PROVE  IsPrefix(<< >>, s)
  BY DEF IsPrefix

\* A prefix of a list stays one when the list grows.
LEMMA PrefixOfAppend ==
  ASSUME NEW S, NEW s \in Seq(S), NEW t \in Seq(S), NEW e \in S, IsPrefix(s, t)
  PROVE  IsPrefix(s, Append(t, e))
  <1>1. Len(s) \in Nat /\ Len(t) \in Nat /\ Len(s) <= Len(t)
    BY DEF IsPrefix
  <1>2. SubSeq(Append(t, e), 1, Len(s)) = SubSeq(t, 1, Len(s))
    BY <1>1
  <1> QED BY <1>1, <1>2 DEF IsPrefix

\* A list has the elements of its prefixes.
LEMMA PrefixElements ==
  ASSUME NEW S, NEW s \in Seq(S), NEW t \in Seq(S), IsPrefix(s, t)
  PROVE  Len(s) <= Len(t) /\ ToSet(s) \subseteq ToSet(t)
  <1>1. Len(s) \in Nat /\ Len(t) \in Nat /\ Len(s) <= Len(t)
    BY DEF IsPrefix
  <1>2. SubSeq(s, 1, Len(s)) = SubSeq(t, 1, Len(s))
    BY DEF IsPrefix
  <1>3. \A i \in 1..Len(s) : SubSeq(s, 1, Len(s))[i] = s[i] /\ SubSeq(t, 1, Len(s))[i] = t[i]
    BY <1>1
  <1>4. \A i \in DOMAIN s : i \in DOMAIN t /\ s[i] = t[i]
    BY <1>1, <1>2, <1>3
  <1> QED BY <1>1, <1>4 DEF ToSet

\* Appending adds one element to what a list contains.
LEMMA ElementsOfAppend ==
  ASSUME NEW S, NEW s \in Seq(S), NEW e \in S
  PROVE  ToSet(Append(s, e)) = ToSet(s) \cup {e}
  <1>1. ToSet(Append(s, e)) \subseteq ToSet(s) \cup {e}
    BY AppendProperties DEF ToSet
  <1>2. ToSet(s) \subseteq ToSet(Append(s, e))
    BY AppendProperties DEF ToSet
  <1>3. e \in ToSet(Append(s, e))
    <2>1. Len(s) + 1 \in DOMAIN Append(s, e)
      OBVIOUS
    <2> QED BY <2>1, AppendProperties DEF ToSet
  <1> QED BY <1>1, <1>2, <1>3

\* t is s and then e.
OneMore(t, s, e) == t = Append(s, e)

\* s, followed by the first k elements of t.
Joined(s, t, k) == s \o SubSeq(t, 1, k)

\* One list is appended to another element by element.
LEMMA JoinedSteps ==
    ASSUME NEW E, NEW s \in Seq(E), NEW t \in Seq(E)
    PROVE  /\ Joined(s, t, 0) = s
           /\ Joined(s, t, Len(t)) = s \o t
           /\ \A k \in 1..Len(t) :
                /\ Joined(s, t, k - 1) \in Seq(E) /\ t[k] \in E
                /\ OneMore(Joined(s, t, k), Joined(s, t, k - 1), t[k])
  <1>1. SubSeq(t, 1, 0) = << >> /\ s \o << >> = s
    OBVIOUS
  <1>2. SubSeq(t, 1, Len(t)) = t
    OBVIOUS
  <1>3. ASSUME NEW k \in 1..Len(t)
        PROVE  /\ Joined(s, t, k - 1) \in Seq(E) /\ t[k] \in E
               /\ OneMore(Joined(s, t, k), Joined(s, t, k - 1), t[k])
    <2> DEFINE before == SubSeq(t, 1, k - 1)
               upto == SubSeq(t, 1, k)
               e == t[k]
    <2>1. Len(t) \in Nat /\ k \in Nat /\ k - 1 \in Nat /\ e \in E
      OBVIOUS
    <2>2. before \in Seq(E) /\ upto \in Seq(E) /\ Len(before) = k - 1 /\ Len(upto) = k
          /\ (\A i \in 1..(k - 1) : before[i] = t[i]) /\ (\A i \in 1..k : upto[i] = t[i])
      BY <2>1
    <2> HIDE DEF before, upto, e
    <2>3. upto = Append(before, e)
      <3>1. Append(before, e) \in Seq(E) /\ Len(Append(before, e)) = k
            /\ \A i \in 1..k : Append(before, e)[i] = upto[i]
        BY <2>1, <2>2 DEF e
      <3> QED
        BY <2>1, <2>2, <3>1
    <2>4. s \o Append(before, e) = Append(s \o before, e)
      BY <2>1, <2>2
    <2>5. s \o before \in Seq(E)
      BY <2>2
    <2> QED
      BY <2>1, <2>3, <2>4, <2>5 DEF Joined, OneMore, before, upto, e
  <1> QED
    BY <1>1, <1>2, <1>3 DEF Joined

-----------------------------------------------------------------------------
(* Induction *)

\* A non-empty set of naturals has a least element.
LEMMA LeastNatural ==
    ASSUME NEW T \in SUBSET Nat, T # {}
    PROVE  \E n \in T : \A m \in T : n <= m
  <1> DEFINE less == OpToRel(<, Nat)
  <1> HIDE DEF less
  <1>1. IsWellFoundedOn(less, Nat)
    BY NatLessThanWellFounded DEF less
  <1>2. \E n \in T : \A m \in T : ~(<<m, n>> \in less)
    BY <1>1, WFMin
  <1>3. PICK n \in T : \A m \in T : ~(<<m, n>> \in less)
    BY <1>2
  <1>4. \A m \in T : ~(m < n)
    BY <1>3 DEF less, OpToRel
  <1> QED
    BY <1>4

\* A non-empty set of positions has a largest element, and Max is it.
LEMMA MaxOfIndices ==
    ASSUME NEW n \in Nat, NEW T \in SUBSET (1..n), T # {}
    PROVE  Max(T) \in T /\ \A i \in T : i <= Max(T)
  <1> DEFINE distances == {n - i : i \in T}
  <1>1. distances \in SUBSET Nat /\ distances # {}
    <2>1. \A i \in T : n - i \in Nat
      OBVIOUS
    <2>2. PICK i \in T : TRUE
      OBVIOUS
    <2> QED
      BY <2>1, <2>2
  <1>2. PICK d \in distances : \A c \in distances : d <= c
    <2> HIDE DEF distances
    <2> QED
      BY <1>1, LeastNatural
  <1>3. PICK m \in T : d = n - m
    BY <1>2
  <1>4. \A i \in T : i <= m
    <2> SUFFICES ASSUME NEW i \in T PROVE i <= m
      OBVIOUS
    <2>1. n - i \in distances
      OBVIOUS
    <2>2. n - m <= n - i
      BY <1>2, <1>3, <2>1
    <2> QED
      BY <2>2
  <1>5. \E x \in T : \A y \in T : x >= y
    BY <1>3, <1>4
  <1> QED
    BY <1>5 DEF Max

\* Induction up to n: a set that holds 0 and with k - 1 also k holds 0..n.
LEMMA CountingUp ==
    ASSUME NEW n \in Nat, NEW T, 0 \in T, \A k \in 1..n : k - 1 \in T => k \in T
    PROVE  0..n \subseteq T
  <1> DEFINE missing == (0..n) \ T
  <1> SUFFICES ASSUME missing # {} PROVE FALSE
    OBVIOUS
  <1>1. PICK m \in missing : \A k \in missing : m <= k
    <2>1. missing \in SUBSET Nat
      OBVIOUS
    <2> HIDE DEF missing
    <2> QED
      BY <2>1, LeastNatural
  <1>2. m \in 1..n /\ m - 1 \in 0..n /\ ~(m <= m - 1)
    BY <1>1
  <1>3. m - 1 \in T
    BY <1>1, <1>2
  <1> QED
    BY <1>1, <1>2, <1>3

-----------------------------------------------------------------------------
(* Sums over finite sets *)

\* pick chooses an element of every non-empty subset of S.
Picks(pick, S) == \A T \in SUBSET S : T # {} => pick[T] \in T

\* f folds every subset of S with step, taking away one picked element at a time.
FoldsSubsets(f, S, base, step, pick) ==
    \A T \in SUBSET S :
        f[T] = IF T = {} THEN base ELSE step[<<pick[T], f[T \ {pick[T]}]>>]

\* A fold over the subsets of a finite set exists: what a recursive function over
\* the subsets of S, that takes away one element at a time, is defined to be.
LEMMA SubsetFoldExists ==
    ASSUME NEW S, IsFiniteSet(S), NEW V, NEW base \in V, NEW step \in [S \X V -> V],
           NEW pick, Picks(pick, S)
    PROVE  \E f \in [SUBSET S -> V] : FoldsSubsets(f, S, base, step, pick)
  <1> DEFINE Small(k) == {T \in SUBSET S : Cardinality(T) <= k}
             Value(f, T) == IF T = {} THEN base ELSE step[<<pick[T], f[T \ {pick[T]}]>>]
             n == Cardinality(S)
             solved == {k \in 0..n : \E f \in [Small(k) -> V] :
                                        \A T \in Small(k) : f[T] = Value(f, T)}
  <1>1. n \in Nat
    BY FS_CardinalityType
  <1>2. \A T \in SUBSET S : IsFiniteSet(T) /\ Cardinality(T) \in Nat /\ Cardinality(T) <= n
    BY FS_Subset, FS_CardinalityType
  <1>3. \A T \in SUBSET S : Cardinality(T) = 0 <=> T = {}
    BY <1>2, FS_EmptySet
  <1>4. \A T \in SUBSET S : T # {} =>
           /\ T \ {pick[T]} \in SUBSET S
           /\ Cardinality(T \ {pick[T]}) = Cardinality(T) - 1
    BY <1>2, FS_RemoveElement DEF Picks
  <1> HIDE DEF n
  <1>5. 0 \in solved
    <2> DEFINE f == [T \in Small(0) |-> base]
    <2>1. \A T \in Small(0) : T = {}
      BY <1>2, <1>3
    <2>2. f \in [Small(0) -> V] /\ \A T \in Small(0) : f[T] = Value(f, T)
      BY <2>1
    <2> HIDE DEF f, Small, Value
    <2> QED
      BY <1>1, <2>2
  <1>6. ASSUME NEW k \in 1..n, k - 1 \in solved PROVE k \in solved
    <2>1. PICK f \in [Small(k - 1) -> V] : \A T \in Small(k - 1) : f[T] = Value(f, T)
      BY <1>6
    <2> DEFINE g == [T \in Small(k) |-> Value(f, T)]
    <2>2. \A T \in Small(k) : T # {} => T \ {pick[T]} \in Small(k - 1)
      BY <1>1, <1>2, <1>4
    <2>3. g \in [Small(k) -> V]
      <3>1. \A T \in Small(k) : Value(f, T) \in V
        BY <2>1, <2>2
      <3> QED
        BY <3>1
    <2>4. Small(k - 1) \subseteq Small(k)
      BY <1>1, <1>2
    <2>5. \A T \in Small(k - 1) : g[T] = f[T]
      BY <2>1, <2>4
    <2>6. \A T \in Small(k) : g[T] = Value(g, T)
      <3> SUFFICES ASSUME NEW T \in Small(k) PROVE Value(f, T) = Value(g, T)
        OBVIOUS
      <3>1. CASE T = {}
        BY <3>1
      <3>2. CASE T # {}
        <4>1. g[T \ {pick[T]}] = f[T \ {pick[T]}]
          BY <2>2, <2>5, <3>2
        <4> HIDE DEF g, Small
        <4> QED
          BY <3>2, <4>1
      <3> QED BY <3>1, <3>2
    <2> HIDE DEF g, Small, Value
    <2> QED
      BY <1>6, <2>3, <2>6
  <1> HIDE DEF solved
  <1>7. n \in solved
    BY <1>1, <1>5, <1>6, CountingUp
  <1>8. Small(n) = SUBSET S
    BY <1>2
  <1> HIDE DEF Small
  <1>9. PICK f \in [SUBSET S -> V] : \A T \in SUBSET S : f[T] = Value(f, T)
    BY <1>7, <1>8 DEF solved
  <1>10. FoldsSubsets(f, S, base, step, pick)
    BY <1>9 DEF FoldsSubsets
  <1> QED
    BY <1>10

\* What the sum of a function over a finite set is: an element taken away leaves
\* the sum of the others.
LEMMA SumTakesOne ==
    ASSUME NEW S, IsFiniteSet(S), NEW fun, \A x \in S : fun[x] \in Nat
    PROVE  /\ SumFunctionOnSet(fun, S) \in Nat
           /\ S = {} => SumFunctionOnSet(fun, S) = 0
           /\ S # {} => \E x \in S :
                SumFunctionOnSet(fun, S) = fun[x] + SumFunctionOnSet(fun, S \ {x})
  <1> DEFINE first(U) == CHOOSE x \in U : TRUE
             Folds(f, T) == f = [U \in SUBSET T |->
                                   IF U = {} THEN 0 ELSE fun[first(U)] + f[U \ {first(U)}]]
             fold(T) == CHOOSE f : Folds(f, T)
             agree == {k \in 0..Cardinality(S) :
                          \A T \in SUBSET S : \A U \in SUBSET T : Cardinality(U) <= k =>
                             fold(T)[U] = fold(U)[U] /\ fold(T)[U] \in Nat}
  <1>1. \A T : SumFunctionOnSet(fun, T) = fold(T)[T]
    BY DEF SumFunctionOnSet, FoldFunctionOnSet, MapThenFoldSet
  <1>2. \A U : U # {} => first(U) \in U
    OBVIOUS
  <1> HIDE DEF first
  <1>3. ASSUME NEW T \in SUBSET S PROVE Folds(fold(T), T)
    <2> DEFINE pick == [U \in SUBSET T |-> first(U)]
               step == [p \in T \X Nat |-> fun[p[1]] + p[2]]
               N == Nat
               zero == 0
    <2>1. IsFiniteSet(T)
      BY FS_Subset
    <2>2. step \in [T \X Nat -> Nat]
      <3> SUFFICES ASSUME NEW p \in T \X Nat PROVE fun[p[1]] + p[2] \in Nat
        OBVIOUS
      <3>1. fun[p[1]] \in Nat /\ p[2] \in Nat
        OBVIOUS
      <3> QED
        BY <3>1
    <2>3. Picks(pick, T)
      BY <1>2 DEF Picks
    <2>4. \A x \in T, v \in Nat : step[<<x, v>>] = fun[x] + v
      OBVIOUS
    <2>5. \A U \in SUBSET T : pick[U] = first(U)
      OBVIOUS
    <2> HIDE DEF pick, step, Folds, fold, agree
    <2>9. step \in [T \X N -> N] /\ zero \in N
      BY <2>2
    <2> HIDE DEF N, zero
    <2>6. PICK f \in [SUBSET T -> N] : FoldsSubsets(f, T, zero, step, pick)
      BY <2>1, <2>9, <2>3, SubsetFoldExists
    <2>7. ASSUME NEW U \in SUBSET T
          PROVE  f[U] = IF U = {} THEN 0 ELSE fun[first(U)] + f[U \ {first(U)}]
      <3>1. CASE U = {}
        BY <2>6, <3>1 DEF zero, FoldsSubsets
      <3>2. CASE U # {}
        <4>1. f[U] = step[<<pick[U], f[U \ {pick[U]}]>>]
          BY <2>6, <3>2 DEF FoldsSubsets
        <4>2. pick[U] \in T /\ f[U \ {pick[U]}] \in Nat
          BY <2>3, <2>6, <3>2 DEF N, Picks
        <4> QED
          BY <2>4, <2>5, <3>2, <4>1, <4>2
      <3> QED BY <3>1, <3>2
    <2>8. Folds(f, T)
      BY <2>6, <2>7 DEF Folds
    <2> QED
      BY <2>8 DEF fold
  <1> HIDE DEF fold
  <1>4. \A T \in SUBSET S : \A U \in SUBSET T : U = {} => fold(T)[U] = 0
    BY <1>3
  <1>14. ASSUME NEW T \in SUBSET S, NEW U \in SUBSET T, U # {}
         PROVE  fold(T)[U] = fun[first(U)] + fold(T)[U \ {first(U)}]
    BY <1>3, <1>14
  <1>5. /\ Cardinality(S) \in Nat
        /\ \A T \in SUBSET S : IsFiniteSet(T) /\ Cardinality(T) \in Nat
                               /\ Cardinality(T) <= Cardinality(S)
    BY FS_Subset, FS_CardinalityType
  <1>6. \A T \in SUBSET S : Cardinality(T) = 0 <=> T = {}
    BY <1>5, FS_EmptySet
  <1>7. \A T \in SUBSET S : \A x \in T : Cardinality(T \ {x}) = Cardinality(T) - 1
    BY <1>5, FS_RemoveElement
  <1>8. 0 \in agree
    <2> SUFFICES ASSUME NEW T \in SUBSET S, NEW U \in SUBSET T, Cardinality(U) <= 0
                 PROVE  fold(T)[U] = fold(U)[U] /\ fold(T)[U] \in Nat
      BY <1>5
    <2>1. U = {}
      BY <1>5, <1>6
    <2>2. U \in SUBSET S /\ U \in SUBSET U
      OBVIOUS
    <2> QED
      BY <1>4, <2>1, <2>2
  <1>9. ASSUME NEW k \in 1..Cardinality(S), k - 1 \in agree PROVE k \in agree
    <2> SUFFICES ASSUME NEW T \in SUBSET S, NEW U \in SUBSET T, Cardinality(U) <= k
                 PROVE  fold(T)[U] = fold(U)[U] /\ fold(T)[U] \in Nat
      OBVIOUS
    <2>1. CASE U = {}
      <3>1. U \in SUBSET S /\ U \in SUBSET U
        OBVIOUS
      <3> QED
        BY <1>4, <2>1, <3>1
    <2>2. CASE U # {}
      <3> DEFINE W == U \ {first(U)}
      <3>1. first(U) \in U /\ W \in SUBSET U /\ W \in SUBSET T /\ W \in SUBSET S
        BY <1>2, <2>2
      <3>2. Cardinality(W) <= k - 1
        BY <1>5, <1>7, <3>1
      <3>3. fold(T)[W] = fold(W)[W] /\ fold(U)[W] = fold(W)[W] /\ fold(W)[W] \in Nat
        BY <1>9, <3>1, <3>2
      <3>4. fold(T)[U] = fun[first(U)] + fold(T)[W] /\ fold(U)[U] = fun[first(U)] + fold(U)[W]
        BY <1>14, <2>2, U \in SUBSET S, U \in SUBSET U
      <3>5. fun[first(U)] \in Nat
        BY <3>1
      <3> HIDE DEF W
      <3> QED
        BY <3>3, <3>4, <3>5
    <2> QED BY <2>1, <2>2
  <1> HIDE DEF agree
  <1>10. Cardinality(S) \in agree
    BY <1>5, <1>8, <1>9, CountingUp
  <1>11. \A T \in SUBSET S : \A U \in SUBSET T : fold(T)[U] = fold(U)[U] /\ fold(T)[U] \in Nat
    <2> SUFFICES ASSUME NEW T \in SUBSET S, NEW U \in SUBSET T
                 PROVE  fold(T)[U] = fold(U)[U] /\ fold(T)[U] \in Nat
      OBVIOUS
    <2>1. Cardinality(U) <= Cardinality(S)
      BY <1>5
    <2> QED
      BY <1>10, <2>1 DEF agree
  <1>12. fold(S)[S] \in Nat /\ (S = {} => fold(S)[S] = 0)
    BY <1>4, <1>11
  <1>13. S # {} => first(S) \in S /\ fold(S)[S] = fun[first(S)] + fold(S \ {first(S)})[S \ {first(S)}]
    <2> SUFFICES ASSUME S # {}
                 PROVE first(S) \in S /\ fold(S)[S] = fun[first(S)] + fold(S \ {first(S)})[S \ {first(S)}]
      OBVIOUS
    <2>1. fold(S)[S] = fun[first(S)] + fold(S)[S \ {first(S)}]
      BY <1>14
    <2>2. fold(S)[S \ {first(S)}] = fold(S \ {first(S)})[S \ {first(S)}]
      BY <1>11
    <2> QED
      BY <1>2, <2>1, <2>2
  <1> QED
    BY <1>1, <1>12, <1>13

\* It does not matter which element is taken away.
LEMMA SumTakesAny ==
    ASSUME NEW S, IsFiniteSet(S), NEW fun, \A x \in S : fun[x] \in Nat
    PROVE  \A x \in S : SumFunctionOnSet(fun, S) = fun[x] + SumFunctionOnSet(fun, S \ {x})
  <1> DEFINE Sum(T) == SumFunctionOnSet(fun, T)
             any == {k \in 0..Cardinality(S) :
                        \A T \in SUBSET S : Cardinality(T) <= k =>
                            \A x \in T : Sum(T) = fun[x] + Sum(T \ {x})}
  <1>1. /\ Cardinality(S) \in Nat
        /\ \A T \in SUBSET S : IsFiniteSet(T) /\ Cardinality(T) \in Nat
                               /\ Cardinality(T) <= Cardinality(S)
    BY FS_Subset, FS_CardinalityType
  <1>2. \A T \in SUBSET S : Cardinality(T) = 0 <=> T = {}
    BY <1>1, FS_EmptySet
  <1>3. \A T \in SUBSET S : \A x \in T : Cardinality(T \ {x}) = Cardinality(T) - 1
    BY <1>1, FS_RemoveElement
  <1>4. ASSUME NEW T \in SUBSET S
        PROVE  Sum(T) \in Nat /\ (T # {} => \E x \in T : Sum(T) = fun[x] + Sum(T \ {x}))
    <2>1. IsFiniteSet(T) /\ \A x \in T : fun[x] \in Nat
      BY <1>1
    <2> QED
      BY <2>1, SumTakesOne
  <1> HIDE DEF Sum
  <1>5. 0 \in any
    <2>1. \A T \in SUBSET S : Cardinality(T) <= 0 => T = {}
      BY <1>1, <1>2
    <2> QED
      BY <1>1, <2>1
  <1>6. ASSUME NEW k \in 1..Cardinality(S), k - 1 \in any PROVE k \in any
    <2> SUFFICES ASSUME NEW T \in SUBSET S, Cardinality(T) <= k, NEW x \in T
                 PROVE  Sum(T) = fun[x] + Sum(T \ {x})
      OBVIOUS
    <2>1. PICK p \in T : Sum(T) = fun[p] + Sum(T \ {p})
      BY <1>4
    <2>2. CASE p = x
      BY <2>1, <2>2
    <2>3. CASE p # x
      <3>1. /\ T \ {p} \in SUBSET S /\ Cardinality(T \ {p}) <= k - 1 /\ x \in T \ {p}
            /\ T \ {x} \in SUBSET S /\ Cardinality(T \ {x}) <= k - 1 /\ p \in T \ {x}
        BY <1>1, <1>3, <2>3
      <3>2. Sum(T \ {p}) = fun[x] + Sum((T \ {p}) \ {x})
        BY <1>6, <3>1
      <3>3. Sum(T \ {x}) = fun[p] + Sum((T \ {x}) \ {p})
        BY <1>6, <3>1
      <3>4. (T \ {p}) \ {x} = (T \ {x}) \ {p}
        OBVIOUS
      <3>5. fun[x] \in Nat /\ fun[p] \in Nat /\ Sum((T \ {x}) \ {p}) \in Nat
        BY <1>4
      <3>6. Sum((T \ {p}) \ {x}) = Sum((T \ {x}) \ {p})
        BY <3>4
      <3> QED
        BY <2>1, <3>2, <3>3, <3>5, <3>6
    <2> QED BY <2>2, <2>3
  <1> HIDE DEF any
  <1>7. Cardinality(S) \in any
    BY <1>1, <1>5, <1>6, CountingUp
  <1> QED
    BY <1>1, <1>7 DEF any, Sum

\* Functions that agree on a set have the same sum over it.
LEMMA SumsAgree ==
    ASSUME NEW S, IsFiniteSet(S), NEW fun, \A x \in S : fun[x] \in Nat,
           NEW gun, \A x \in S : gun[x] = fun[x]
    PROVE  SumFunctionOnSet(gun, S) = SumFunctionOnSet(fun, S)
  <1> DEFINE same == {k \in 0..Cardinality(S) :
                        \A T \in SUBSET S : Cardinality(T) <= k =>
                            SumFunctionOnSet(gun, T) = SumFunctionOnSet(fun, T)}
  <1>1. /\ Cardinality(S) \in Nat
        /\ \A T \in SUBSET S : IsFiniteSet(T) /\ Cardinality(T) \in Nat
                               /\ Cardinality(T) <= Cardinality(S)
    BY FS_Subset, FS_CardinalityType
  <1>2. \A T \in SUBSET S : Cardinality(T) = 0 <=> T = {}
    BY <1>1, FS_EmptySet
  <1>3. \A T \in SUBSET S : \A x \in T : Cardinality(T \ {x}) = Cardinality(T) - 1
    BY <1>1, FS_RemoveElement
  <1>4. ASSUME NEW T \in SUBSET S
        PROVE  /\ T = {} => SumFunctionOnSet(fun, T) = 0 /\ SumFunctionOnSet(gun, T) = 0
               /\ \A x \in T :
                    /\ SumFunctionOnSet(fun, T) = fun[x] + SumFunctionOnSet(fun, T \ {x})
                    /\ SumFunctionOnSet(gun, T) = gun[x] + SumFunctionOnSet(gun, T \ {x})
    <2>1. IsFiniteSet(T) /\ (\A x \in T : fun[x] \in Nat) /\ (\A x \in T : gun[x] \in Nat)
      BY <1>1
    <2>2. T = {} => SumFunctionOnSet(fun, T) = 0 /\ SumFunctionOnSet(gun, T) = 0
      BY <2>1, SumTakesOne
    <2>3. \A x \in T : SumFunctionOnSet(fun, T) = fun[x] + SumFunctionOnSet(fun, T \ {x})
      BY <2>1, SumTakesAny
    <2>4. \A x \in T : SumFunctionOnSet(gun, T) = gun[x] + SumFunctionOnSet(gun, T \ {x})
      BY <2>1, SumTakesAny
    <2> QED
      BY <2>2, <2>3, <2>4
  <1>5. 0 \in same
    <2>1. \A T \in SUBSET S : Cardinality(T) <= 0 => T = {}
      BY <1>1, <1>2
    <2> QED
      BY <1>1, <1>4, <2>1
  <1>6. ASSUME NEW k \in 1..Cardinality(S), k - 1 \in same PROVE k \in same
    <2> SUFFICES ASSUME NEW T \in SUBSET S, Cardinality(T) <= k
                 PROVE  SumFunctionOnSet(gun, T) = SumFunctionOnSet(fun, T)
      OBVIOUS
    <2>1. CASE T = {}
      BY <1>4, <2>1
    <2>2. CASE T # {}
      <3>1. PICK x \in T : TRUE
        BY <2>2
      <3>2. Cardinality(T \ {x}) <= k - 1
        BY <1>1, <1>3
      <3>3. SumFunctionOnSet(gun, T \ {x}) = SumFunctionOnSet(fun, T \ {x})
        BY <1>6, <3>2
      <3> QED
        BY <1>4, <3>3
    <2> QED BY <2>1, <2>2
  <1> HIDE DEF same
  <1>7. Cardinality(S) \in same
    BY <1>1, <1>5, <1>6, CountingUp
  <1> QED
    BY <1>1, <1>7 DEF same

-----------------------------------------------------------------------------
(* Folds over lists: FoldLeft(Op, base, s) is f[DOMAIN s] for the f below. *)

\* A list's first k positions end with k.
LEMMA LastPosition ==
    ASSUME NEW k \in Nat \ {0}
    PROVE  Max(1..k) = k /\ (1..k) \ {k} = 1..(k - 1)
  BY DEF Max

\* f, which is to fold the positions of s, does so for its first ones, as long
\* as the values are in V.
FoldsPrefixes(f, s, V, E, base, step) ==
    /\ s \in Seq(E) /\ base \in V /\ step \in [V \X E -> V]
    /\ f[{}] = base
    /\ \A k \in 1..Len(s) :
          f[1..(k - 1)] \in V => f[1..k] = step[<<f[1..(k - 1)], s[k]>>]

\* f folds every set of positions of s, the largest position last.
FoldsPositions(f, s, base, step) ==
    \A T \in SUBSET (DOMAIN s) :
        /\ T # {} => Max(T) \in T
        /\ f[T] = IF T = {} THEN base ELSE step[<<f[T \ {Max(T)}], s[Max(T)]>>]

\* A fold over a list exists.
LEMMA ListFoldExists ==
    ASSUME NEW V, NEW E, NEW base \in V, NEW step \in [V \X E -> V], NEW s \in Seq(E)
    PROVE  \E f \in [SUBSET (DOMAIN s) -> V] : FoldsPositions(f, s, base, step)
  <1> DEFINE P == DOMAIN s
             pick == [T \in SUBSET P |-> Max(T)]
             turned == [p \in P \X V |-> step[<<p[2], s[p[1]]>>]]
  <1>1. IsFiniteSet(P) /\ P = 1..Len(s) /\ Len(s) \in Nat
    BY FS_Interval
  <1>2. \A T \in SUBSET P : T # {} => Max(T) \in T
    BY <1>1, MaxOfIndices
  <1>3. Picks(pick, P)
    BY <1>2 DEF Picks
  <1>4. turned \in [P \X V -> V]
    OBVIOUS
  <1>5. \A x \in P, v \in V : turned[<<x, v>>] = step[<<v, s[x]>>]
    OBVIOUS
  <1>6. \A T \in SUBSET P : pick[T] = Max(T)
    OBVIOUS
  <1> HIDE DEF P, pick, turned
  <1>7. PICK f \in [SUBSET P -> V] : FoldsSubsets(f, P, base, turned, pick)
    BY <1>1, <1>3, <1>4, SubsetFoldExists
  <1>8. ASSUME NEW T \in SUBSET P
        PROVE  f[T] = IF T = {} THEN base ELSE step[<<f[T \ {Max(T)}], s[Max(T)]>>]
    <2>1. CASE T = {}
      BY <1>7, <2>1 DEF FoldsSubsets
    <2>2. CASE T # {}
      <3>1. f[T] = turned[<<Max(T), f[T \ {Max(T)}]>>]
        BY <1>6, <1>7, <2>2 DEF FoldsSubsets
      <3>2. Max(T) \in P /\ f[T \ {Max(T)}] \in V
        BY <1>2, <1>7, <2>2
      <3> QED
        BY <1>5, <2>2, <3>1, <3>2
    <2> QED BY <2>1, <2>2
  <1> QED
    BY <1>2, <1>7, <1>8 DEF P, FoldsPositions

\* The value that g gives to the list t is one step from the one f gives to s.
OneStep(g, t, f, s, e, V, step) ==
    /\ f[DOMAIN s] \in V
    /\ g[DOMAIN t] = step[<<f[DOMAIN s], e>>]

\* One more element of the list is one more step of the fold.
LEMMA ListFoldSteps ==
    ASSUME NEW V, NEW E, NEW base, NEW step, NEW s, NEW e \in E,
           NEW t, OneMore(t, s, e),
           NEW f, FoldsPrefixes(f, s, V, E, base, step),
           NEW g, FoldsPrefixes(g, t, V, E, base, step)
    PROVE  OneStep(g, t, f, s, e, V, step)
  <1> DEFINE n == Len(s)
             same == {k \in 0..n : f[1..k] = g[1..k] /\ f[1..k] \in V}
  <1>0. s \in Seq(E) /\ base \in V /\ step \in [V \X E -> V]
    BY DEF FoldsPrefixes
  <1>1. /\ n \in Nat /\ DOMAIN s = 1..n
        /\ Len(t) = n + 1 /\ DOMAIN t = 1..(n + 1)
        /\ t[n + 1] = e
        /\ \A k \in 1..n : s[k] \in E /\ t[k] = s[k]
    BY <1>0 DEF OneMore
  <1>2. 0 \in same
    <2>1. 1..0 = {}
      OBVIOUS
    <2> QED
      BY <1>0, <1>1, <2>1 DEF FoldsPrefixes
  <1>3. ASSUME NEW k \in 1..n, k - 1 \in same PROVE k \in same
    <2>1. f[1..(k - 1)] = g[1..(k - 1)] /\ f[1..(k - 1)] \in V
      BY <1>3
    <2>2. f[1..k] = step[<<f[1..(k - 1)], s[k]>>]
      BY <2>1 DEF FoldsPrefixes
    <2>3. g[1..k] = step[<<g[1..(k - 1)], s[k]>>]
      BY <1>1, <2>1 DEF FoldsPrefixes
    <2>4. step[<<f[1..(k - 1)], s[k]>>] \in V
      BY <1>0, <1>1, <2>1
    <2> QED
      BY <1>1, <2>1, <2>2, <2>3, <2>4
  <1> HIDE DEF same, n
  <1>4. n \in same
    <2>1. n \in Nat
      BY <1>1
    <2>2. \A k \in 1..n : k - 1 \in same => k \in same
      BY <1>3
    <2>3. 0..n \subseteq same
      BY <1>2, <2>1, <2>2, CountingUp
    <2> QED
      BY <2>1, <2>3
  <1>5. f[1..n] = g[1..n] /\ f[1..n] \in V
    BY <1>4 DEF same
  <1>6. n + 1 \in 1..(n + 1) /\ (n + 1) - 1 = n
    BY <1>1
  <1>7. g[1..(n + 1)] = step[<<g[1..n], e>>]
    BY <1>1, <1>5, <1>6 DEF FoldsPrefixes
  <1> QED
    BY <1>1, <1>5, <1>7 DEF OneStep

\* What a fold over a list is of, in the form that a FoldLeft expands to.
LEMMA FoldFollowsPrefixes ==
    ASSUME NEW V, NEW E, NEW base \in V, NEW step \in [V \X E -> V], NEW s \in Seq(E),
           NEW f, f[{}] = base,
           \A T \in SUBSET (DOMAIN s) :
               T # {} /\ f[T \ {Max(T)}] \in V =>
                   f[T] = step[<<f[T \ {Max(T)}], s[Max(T)]>>]
    PROVE  FoldsPrefixes(f, s, V, E, base, step)
  <1> SUFFICES ASSUME NEW k \in 1..Len(s), f[1..(k - 1)] \in V
               PROVE  f[1..k] = step[<<f[1..(k - 1)], s[k]>>]
    BY DEF FoldsPrefixes
  <1>1. 1..k \in SUBSET (DOMAIN s) /\ 1..k # {}
    <2>1. DOMAIN s = 1..Len(s) /\ Len(s) \in Nat /\ k \in 1..k
      OBVIOUS
    <2>2. 1..k \subseteq 1..Len(s)
      BY <2>1
    <2> QED
      BY <2>1, <2>2
  <1>2. Max(1..k) = k /\ (1..k) \ {k} = 1..(k - 1)
    BY LastPosition
  <1> QED
    BY <1>1, <1>2
=============================================================================
