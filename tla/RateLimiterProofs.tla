-------------------------- MODULE RateLimiterProofs --------------------------
(***************************************************************************)
(* Proofs about the rate limiter, for every set of users, capacity and     *)
(* multiplicity.                                                           *)
(***************************************************************************)
EXTENDS RateLimiter, FiniteSetTheorems, SequenceTheorems, TLAPS

-----------------------------------------------------------------------------
(* Counting the entries of a queue. *)

(* The occurrences of a user are finitely many, so that they can be counted. *)
LEMMA OccurrencesFinite ==
    ASSUME NEW q \in Seq(Users), NEW u
    PROVE  /\ IsFiniteSet(Occurrences(q, u))
           /\ Count(q, u) \in Nat
<1>1. IsFiniteSet(1..Len(q))
  BY FS_Interval
<1>2. Occurrences(q, u) \subseteq 1..Len(q)
  BY DEF Occurrences
<1> QED
  BY <1>1, <1>2, FS_Subset, FS_CardinalityType DEF Count

(* A user in the queue has an occurrence, any other has none. *)
LEMMA CountPositive ==
    ASSUME NEW q \in Seq(Users), NEW u
    PROVE  Count(q, u) = 0 <=> \A i \in 1..Len(q) : q[i] # u
<1>1. Count(q, u) = 0 <=> Occurrences(q, u) = {}
  BY OccurrencesFinite, FS_EmptySet DEF Count
<1> QED
  BY <1>1 DEF Occurrences

(* The entries of a queue with a new head are the old ones, one place on. *)
LEMMA CountPrepend ==
    ASSUME NEW q \in Seq(Users), NEW u \in Users, NEW v
    PROVE  Count(<<u>> \o q, v) = Count(q, v) + (IF u = v THEN 1 ELSE 0)
<1> DEFINE new     == <<u>> \o q
           shift   == [i \in Occurrences(q, v) |-> i + 1]
           shifted == {i + 1 : i \in Occurrences(q, v)}
<1>1. new \in Seq(Users) /\ Len(new) = Len(q) + 1 /\ new[1] = u
  OBVIOUS
<1>2. \A i \in 1..Len(q) : new[i + 1] = q[i]
  OBVIOUS
<1>3. Cardinality(shifted) = Count(q, v) /\ IsFiniteSet(shifted)
  <2>1. shift \in Bijection(Occurrences(q, v), shifted)
    BY DEF Bijection, Injection, IsInjective, Surjection, Occurrences
  <2>2. ExistsBijection(Occurrences(q, v), shifted)
    BY <2>1 DEF ExistsBijection
  <2> QED
    BY <2>2, OccurrencesFinite, FS_Bijection DEF Count
<1>4. Occurrences(new, v) = shifted \cup (IF u = v THEN {1} ELSE {})
  <2>1. ASSUME NEW i \in 1..Len(new), i # 1
        PROVE  i - 1 \in 1..Len(q) /\ new[i] = q[i - 1] /\ i = (i - 1) + 1
    BY <2>1, <1>1, <1>2
  <2>2. ASSUME NEW i \in shifted
        PROVE  i \in Occurrences(new, v)
    BY <1>1, <1>2 DEF Occurrences
  <2>3. ASSUME NEW i \in Occurrences(new, v), i # 1
        PROVE  i \in shifted
    BY <2>1, <2>3 DEF Occurrences
  <2>4. 1 \in Occurrences(new, v) <=> u = v
    BY <1>1 DEF Occurrences
  <2> QED
    BY <2>2, <2>3, <2>4
<1>5. 1 \notin shifted
  BY DEF Occurrences
<1>6. Count(q, v) \in Nat
  BY OccurrencesFinite
<1>7. Count(new, v) = Cardinality(Occurrences(new, v))
  BY DEF Count
<1> HIDE DEF new, shifted
<1>8. CASE u = v
  <2>1. Occurrences(new, v) = shifted \cup {1}
    BY <1>4, <1>8
  <2>2. Cardinality(shifted \cup {1}) = Cardinality(shifted) + 1
    BY <1>3, <1>5, FS_AddElement
  <2> QED
    BY <1>3, <1>6, <1>7, <1>8, <2>1, <2>2 DEF new
<1>9. CASE u # v
  <2>1. Occurrences(new, v) = shifted
    BY <1>4, <1>9
  <2> QED
    BY <1>3, <1>6, <1>7, <1>9, <2>1 DEF new
<1> QED
  BY <1>8, <1>9

(* The queue without its oldest entry. *)
Younger(q) == SubSeq(q, 1, Len(q) - 1)

(* Without its oldest entry a queue has one occurrence less of the user of
   that entry, and as many of every other. *)
LEMMA CountYounger ==
    ASSUME NEW q \in Seq(Users), q # << >>, NEW v
    PROVE  /\ Younger(q) \in Seq(Users)
           /\ Len(Younger(q)) = Len(q) - 1
           /\ Count(q, v) = Count(Younger(q), v) + (IF q[Len(q)] = v THEN 1 ELSE 0)
<1>1. Len(q) \in Nat /\ Len(q) # 0 /\ \A i \in 1..Len(q) : q[i] \in Users
  BY EmptySeq, LenProperties
<1>2. /\ Younger(q) \in Seq(Users) /\ Len(Younger(q)) = Len(q) - 1
      /\ \A i \in 1..Len(q) - 1 : Younger(q)[i] = q[i]
  <2> DEFINE n == Len(q) - 1
  <2>1. n \in Int /\ 1 \in Int /\ \A i \in 1..n : q[i] \in Users
    BY <1>1
  <2>2. n \in Nat
    BY <1>1
  <2>3. Younger(q) = SubSeq(q, 1, n)
    BY DEF Younger
  <2> HIDE DEF n, Younger
  <2>4. /\ Younger(q) \in Seq(Users)
        /\ Len(Younger(q)) = IF 1 <= n THEN n - 1 + 1 ELSE 0
        /\ \A i \in 1..n - 1 + 1 : Younger(q)[i] = q[1 + i - 1]
    BY <2>1, <2>3, SubSeqProperties
  <2>5. Len(Younger(q)) = n /\ \A i \in 1..n : Younger(q)[i] = q[i]
    BY <2>2, <2>4
  <2> QED
    BY <2>4, <2>5 DEF n
<1>3. Occurrences(q, v)
        = Occurrences(Younger(q), v) \cup (IF q[Len(q)] = v THEN {Len(q)} ELSE {})
  BY <1>1, <1>2 DEF Occurrences
<1>4. Len(q) \notin Occurrences(Younger(q), v)
  BY <1>1, <1>2 DEF Occurrences
<1>5. IsFiniteSet(Occurrences(Younger(q), v)) /\ Count(Younger(q), v) \in Nat
  BY <1>2, OccurrencesFinite
<1>6. CASE q[Len(q)] = v
  <2>1. Occurrences(q, v) = Occurrences(Younger(q), v) \cup {Len(q)}
    BY <1>3, <1>6
  <2>2. Count(q, v) = Count(Younger(q), v) + 1
    BY <1>4, <1>5, <2>1, FS_AddElement DEF Count
  <2> QED
    BY <1>2, <1>6, <2>2
<1>7. CASE q[Len(q)] # v
  <2>1. Count(q, v) = Count(Younger(q), v)
    BY <1>3, <1>7 DEF Count
  <2> QED
    BY <1>2, <1>5, <1>7, <2>1
<1> QED
  BY <1>6, <1>7

-----------------------------------------------------------------------------
(* The map as the index of a count: it holds the count of every user that
   has one. *)
Index(c) == [v \in {w \in Users : c[w] # 0} |-> c[v]]

Counts(q) == [v \in Users |-> Count(q, v)]

(* What counting a queue gives is a map of the type of the limiter's. *)
LEMMA CountsType ==
    ASSUME NEW q \in Seq(Users)
    PROVE  Counts(q) \in [Users -> Nat]
BY OccurrencesFinite DEF Counts

(* Counting one more occurrence keeps the map the index of the occurrences. *)
LEMMA IncrementedIndex ==
    ASSUME NEW c \in [Users -> Nat], NEW u \in Users
    PROVE  Incremented(Index(c), u) = Index([c EXCEPT ![u] = @ + 1])
BY DEF Incremented, Occupied, Index

(* Forgetting one occurrence keeps the map the index of the occurrences. *)
LEMMA DecrementedIndex ==
    ASSUME NEW c \in [Users -> Nat], NEW u \in Users, c[u] # 0
    PROVE  Decremented(Index(c), u) = Index([c EXCEPT ![u] = @ - 1])
BY DEF Decremented, Index

(* A lookup in the index gives the number of occurrences, zero included. *)
LEMMA OccupiedIndex ==
    ASSUME NEW c \in [Users -> Nat], NEW u \in Users
    PROVE  Occupied(Index(c), u) = c[u]
BY DEF Occupied, Index

(* MappingCountsQueue in these terms, for any queue and map. *)
LEMMA IndexOfQueue ==
    ASSUME NEW q \in Seq(Users), NEW m,
           DOMAIN m \subseteq Users, m = [v \in DOMAIN m |-> m[v]]
    PROVE  /\ DOMAIN m = {q[i] : i \in 1..Len(q)}
           /\ \A u \in DOMAIN m : m[u] = Count(q, u)
           <=> m = Index(Counts(q))
<1>1. \A i \in 1..Len(q) : q[i] \in Users
  OBVIOUS
<1>2. \A u \in Users : Count(q, u) = 0 <=> \A i \in 1..Len(q) : q[i] # u
  BY CountPositive
<1>3. {q[i] : i \in 1..Len(q)} = {w \in Users : Counts(q)[w] # 0}
  BY <1>1, <1>2 DEF Counts
<1> QED
  BY <1>3 DEF Index, Counts

(* MappingCountsQueue says that the map is the index of the queue. *)
LEMMA MappingIsIndex ==
    ASSUME LimiterTypeOK
    PROVE  MappingCountsQueue <=> mapping = Index(Counts(queue))
BY IndexOfQueue DEF MappingCountsQueue, LimiterTypeOK

-----------------------------------------------------------------------------
(* What one update does to the queue and to the counts. *)

(* What update_limit does to the queue: its type, its length and the counts. *)
LEMMA UpdateQueue ==
    ASSUME queue \in Seq(Users), NEW u \in Users, UpdateLimit(u)
    PROVE  /\ queue' \in Seq(Users)
           /\ Len(queue') = IF Evicts THEN Len(queue) ELSE Len(queue) + 1
           /\ \A v \in Users :
                 Count(queue', v) = Count(queue, v)
                     + (IF u = v THEN 1 ELSE 0)
                     - (IF Evicts /\ queue[Len(queue)] = v THEN 1 ELSE 0)
<1>1. \A v \in Users : Count(queue, v) \in Nat
  BY OccurrencesFinite
<1>2. CASE Evicts
  <2>1. queue # << >> /\ queue' = <<u>> \o Younger(queue)
    BY <1>2 DEF Evicts, UpdateLimit, Younger
  <2>2. Younger(queue) \in Seq(Users) /\ Len(Younger(queue)) = Len(queue) - 1
    BY <2>1, CountYounger
  <2>3. queue' \in Seq(Users) /\ Len(queue') = Len(queue)
    BY <2>1, <2>2
  <2>4. ASSUME NEW v \in Users
        PROVE  Count(queue', v) = Count(queue, v)
                     + (IF u = v THEN 1 ELSE 0)
                     - (IF queue[Len(queue)] = v THEN 1 ELSE 0)
    <3>1. Count(queue', v) = Count(Younger(queue), v) + (IF u = v THEN 1 ELSE 0)
      BY <2>1, <2>2, CountPrepend
    <3>2. Count(queue, v)
            = Count(Younger(queue), v) + (IF queue[Len(queue)] = v THEN 1 ELSE 0)
      BY <2>1, CountYounger
    <3>3. Count(Younger(queue), v) \in Nat
      BY <2>2, OccurrencesFinite
    <3> QED
      BY <3>1, <3>2, <3>3
  <2> QED
    BY <1>2, <2>3, <2>4
<1>3. CASE ~Evicts
  <2>1. queue' = <<u>> \o queue
    BY <1>3 DEF UpdateLimit
  <2>2. \A v \in Users : Count(queue', v) = Count(queue, v) + (IF u = v THEN 1 ELSE 0)
    BY <2>1, CountPrepend
  <2>3. queue' \in Seq(Users) /\ Len(queue') = Len(queue) + 1
    BY <2>1
  <2> QED
    BY <1>1, <1>3, <2>2, <2>3
<1> QED
  BY <1>2, <1>3

(* What update_limit does to the map: it is the index of the new queue. *)
LEMMA UpdateMapping ==
    ASSUME LimiterTypeOK, MappingCountsQueue, NEW u \in Users, UpdateLimit(u)
    PROVE  mapping' = Index(Counts(queue'))
<1> DEFINE c       == Counts(queue)
           counted == [c EXCEPT ![u] = @ + 1]
           oldest  == queue[Len(queue)]
<1>1. queue \in Seq(Users) /\ c \in [Users -> Nat] /\ counted \in [Users -> Nat]
  BY CountsType DEF LimiterTypeOK
<1>2. Incremented(mapping, u) = Index(counted)
  BY <1>1, MappingIsIndex, IncrementedIndex
<1>3. queue' \in Seq(Users)
      /\ \A v \in Users :
            Count(queue', v) = c[v]
                + (IF u = v THEN 1 ELSE 0)
                - (IF Evicts /\ oldest = v THEN 1 ELSE 0)
  BY <1>1, UpdateQueue DEF Counts
<1>4. Counts(queue') = [v \in Users |-> Count(queue', v)]
  BY DEF Counts
<1> HIDE DEF c
<1>5. CASE Evicts
  <2>1. oldest \in Users /\ Count(queue, oldest) # 0
    <3>1. Len(queue) \in 1..Len(queue)
      BY <1>1, <1>5, EmptySeq DEF Evicts
    <3>2. oldest \in Users
      BY <1>1, <3>1
    <3> QED
      BY <1>1, <3>1, <3>2, CountPositive
  <2>2. c[oldest] # 0 /\ counted[oldest] # 0
    BY <1>1, <2>1 DEF c, Counts
  <2>3. mapping' = Decremented(Index(counted), oldest)
    BY <1>2, <1>5 DEF UpdateLimit
  <2>4. mapping' = Index([counted EXCEPT ![oldest] = @ - 1])
    BY <1>1, <2>1, <2>2, <2>3, DecrementedIndex
  <2>5. Counts(queue') = [counted EXCEPT ![oldest] = @ - 1]
    <3> DEFINE less == [counted EXCEPT ![oldest] = @ - 1]
    <3> HIDE DEF oldest
    <3>1. \A v \in Users : counted[v] = c[v] + (IF u = v THEN 1 ELSE 0)
      BY <1>1
    <3> HIDE DEF counted
    <3>2. /\ less \in [Users -> Int]
          /\ \A v \in Users :
                less[v] = counted[v] - (IF oldest = v THEN 1 ELSE 0)
      BY <1>1, <2>1
    <3> HIDE DEF less
    <3>3. ASSUME NEW v \in Users
          PROVE  less[v] = Count(queue', v)
      <4>1. Count(queue', v) = c[v] + (IF u = v THEN 1 ELSE 0)
                                    - (IF oldest = v THEN 1 ELSE 0)
        BY <1>3, <1>5
      <4> QED
        BY <1>1, <3>1, <3>2, <4>1
    <3>4. less = [v \in Users |-> Count(queue', v)]
      BY <3>2, <3>3
    <3> QED
      BY <1>4, <3>4 DEF less, counted
  <2> QED
    BY <2>4, <2>5
<1>6. CASE ~Evicts
  <2>1. mapping' = Index(counted)
    BY <1>2, <1>6 DEF UpdateLimit
  <2>2. Counts(queue') = counted
    <3>1. \A v \in Users : counted[v] = Count(queue', v)
      BY <1>1, <1>3, <1>6
    <3> HIDE DEF counted
    <3>2. counted = [v \in Users |-> Count(queue', v)]
      BY <1>1, <3>1
    <3> QED
      BY <1>4, <3>2
  <2> QED
    BY <2>1, <2>2
<1> QED
  BY <1>5, <1>6

-----------------------------------------------------------------------------
(* The inductive invariant: the type invariant, the map as the index of the
   queue, and the limit.  The limit alone is not inductive, because
   check_limit looks at the map, not at the queue. *)
LimiterInv == LimiterTypeOK /\ MappingCountsQueue /\ LimitRespected

(* check_limit, a lookup, decides as counting the queue would. *)
LEMMA CheckLimitCounts ==
    ASSUME LimiterTypeOK, MappingCountsQueue, NEW u \in Users
    PROVE  CheckLimit(u) <=> Count(queue, u) < Multiplicity
<1>1. queue \in Seq(Users)
  BY DEF LimiterTypeOK
<1>2. Occupied(mapping, u) = Counts(queue)[u]
  BY <1>1, MappingIsIndex, CountsType, OccupiedIndex
<1> QED
  BY <1>2 DEF CheckLimit, Counts

(* Among queues within the limit, the full ones are those that evict. *)
LEMMA EvictsWhenFull ==
    ASSUME queue \in Seq(Users), Len(queue) <= Window
    PROVE  Evicts <=> Len(queue) = Window
<1>1. Len(queue) \in Nat /\ (queue # << >> <=> Len(queue) # 0)
  BY EmptySeq, LenProperties
<1>2. CASE MaxQueueSize = 0
  BY <1>1, <1>2 DEF Evicts, Window
<1>3. CASE MaxQueueSize # 0
  BY <1>1, <1>3, LimiterAssumption DEF Evicts, Window
<1> QED
  BY <1>2, <1>3

(* The invariant holds of the empty limiter. *)
LEMMA LimiterInitInv == LimiterInit => LimiterInv
<1> SUFFICES ASSUME LimiterInit
             PROVE  LimiterInv
  OBVIOUS
<1>1. queue = << >> /\ queue \in Seq(Users) /\ Len(queue) = 0 /\ DOMAIN mapping = {}
  BY EmptySeq DEF LimiterInit
<1>2. LimiterTypeOK
  BY <1>1 DEF LimiterTypeOK, LimiterInit
<1>3. MappingCountsQueue
  BY <1>1 DEF MappingCountsQueue
<1>4. \A u \in Users : Count(queue, u) = 0
  <2>1. \A u : \A i \in 1..Len(queue) : queue[i] # u
    BY <1>1
  <2> QED
    BY <1>1, <2>1, CountPositive
<1>5. LimitRespected
  BY <1>1, <1>4, LimiterAssumption DEF LimitRespected, Window
<1> QED
  BY <1>2, <1>3, <1>5 DEF LimiterInv

(* One issuance that passed the check preserves all of it.  Stated for one
   step, so that a system built around the limiter can cite it. *)
LEMMA IssuePreserves ==
    ASSUME LimiterInv, NEW u \in Users, CheckLimit(u), UpdateLimit(u)
    PROVE  LimiterInv'
<1>1. queue \in Seq(Users) /\ LimiterTypeOK /\ MappingCountsQueue
  BY DEF LimiterInv, LimiterTypeOK
<1>2. mapping' = Index(Counts(queue'))
  BY <1>1, UpdateMapping
<1>3. queue' \in Seq(Users)
  BY <1>1, UpdateQueue
<1>4. LimiterTypeOK'
  <2>1. Counts(queue') \in [Users -> Nat]
    BY <1>3, CountsType
  <2>2. /\ DOMAIN mapping' \subseteq Users
        /\ mapping' \in [DOMAIN mapping' -> Nat \ {0}]
    BY <1>2, <2>1 DEF Index
  <2> QED
    BY <1>3, <2>2 DEF LimiterTypeOK
<1>5. MappingCountsQueue'
  BY <1>2, <1>3, <1>4, IndexOfQueue DEF MappingCountsQueue, LimiterTypeOK
<1>6. LimitRespected'
  <2>1. Len(queue') <= Window
    <3>1. Len(queue) \in Nat /\ Len(queue) <= Window
      BY <1>1, LenProperties DEF LimiterInv, LimitRespected
    <3>2. Window \in Nat
      BY LimiterAssumption DEF Window
    <3> QED
      BY <1>1, <3>1, <3>2, UpdateQueue, EvictsWhenFull
  <2>2. ASSUME NEW v \in Users
        PROVE  Count(queue', v) <= Multiplicity
    <3>1. Count(queue, v) \in Nat /\ Count(queue', v) \in Nat
      BY <1>1, <1>3, OccurrencesFinite
    <3>2. Count(queue, v) <= Multiplicity
      BY DEF LimiterInv, LimitRespected
    <3>3. Count(queue', v) <= Count(queue, v) + (IF u = v THEN 1 ELSE 0)
      BY <1>1, <3>1, UpdateQueue
    <3>4. u = v => Count(queue, v) < Multiplicity
      BY <1>1, CheckLimitCounts
    <3> QED
      BY <3>1, <3>2, <3>3, <3>4, LimiterAssumption
  <2> QED
    BY <2>1, <2>2 DEF LimitRespected
<1> QED
  BY <1>4, <1>5, <1>6 DEF LimiterInv

-----------------------------------------------------------------------------
(* The limiter's map always agrees with its queue and the limit is kept, for
   every capacity, zero included, and every multiplicity. *)
THEOREM LimiterSafe == LimiterSpec => [](LimiterTypeOK /\ MappingCountsQueue /\ LimitRespected)
<1>1. LimiterInv /\ [LimiterNext]_limiterVars => LimiterInv'
  <2> SUFFICES ASSUME LimiterInv, [LimiterNext]_limiterVars
               PROVE  LimiterInv'
    OBVIOUS
  <2>1. CASE LimiterNext
    BY <2>1, IssuePreserves DEF LimiterNext, Issue
  <2>2. CASE UNCHANGED limiterVars
    BY <2>2 DEF limiterVars, LimiterInv, LimiterTypeOK, MappingCountsQueue, LimitRespected
  <2> QED
    BY <2>1, <2>2
<1>2. LimiterInv <=> LimiterTypeOK /\ MappingCountsQueue /\ LimitRespected
  BY DEF LimiterInv
<1> QED
  BY <1>1, <1>2, LimiterInitInv, PTL DEF LimiterSpec

(* The queue holds users, and the map gives some of them a positive count. *)
THEOREM LimiterTypes == LimiterSpec => []LimiterTypeOK
BY LimiterSafe, PTL

-----------------------------------------------------------------------------
(* What the limiter keeps is what the sliding window keeps. *)
LEMMA UpdateIsRemember ==
    ASSUME queue \in Seq(Users), Len(queue) <= Window, NEW u \in Users, UpdateLimit(u)
    PROVE  queue' = Promise!Remember(u)
<1> DEFINE longer == <<u>> \o queue
<1>1. Len(queue) \in Nat /\ Window \in Nat \ {0}
  BY LenProperties, LimiterAssumption DEF Window
<1>2. longer \in Seq(Users) /\ Len(longer) = Len(queue) + 1
  OBVIOUS
<1>3. CASE Evicts
  <2>1. Len(queue) = Window /\ queue' = <<u>> \o Younger(queue)
    BY <1>3, EvictsWhenFull DEF UpdateLimit, Younger
  <2>2. SubSeq(longer, 1, Window) = <<u>> \o Younger(queue)
    <3>1. queue # << >>
      BY <1>3 DEF Evicts
    <3>2. /\ Younger(queue) \in Seq(Users) /\ Len(Younger(queue)) = Window - 1
          /\ \A i \in 1..Window - 1 : Younger(queue)[i] = queue[i]
      BY <1>1, <2>1, <3>1, CountYounger DEF Younger
    <3>3. /\ SubSeq(longer, 1, Window) \in Seq(Users)
          /\ Len(SubSeq(longer, 1, Window)) = Window
          /\ \A i \in 1..Window : SubSeq(longer, 1, Window)[i] = longer[i]
      <4>1. 1 \in Int /\ Window \in Int /\ \A i \in 1..Window : longer[i] \in Users
        BY <1>1, <1>2, <2>1
      <4> HIDE DEF longer
      <4>2. /\ SubSeq(longer, 1, Window) \in Seq(Users)
            /\ Len(SubSeq(longer, 1, Window)) = IF 1 <= Window THEN Window - 1 + 1 ELSE 0
            /\ \A i \in 1..Window - 1 + 1 : SubSeq(longer, 1, Window)[i] = longer[1 + i - 1]
        BY <4>1, SubSeqProperties
      <4> QED
        BY <1>1, <4>2
    <3>4. /\ <<u>> \o Younger(queue) \in Seq(Users)
          /\ Len(<<u>> \o Younger(queue)) = Window
      BY <1>1, <3>2
    <3>5. ASSUME NEW i \in 1..Window
          PROVE  (<<u>> \o Younger(queue))[i] = longer[i]
      BY <1>1, <2>1, <3>2
    <3> QED
      BY <3>3, <3>4, <3>5, SeqEqual
  <2> QED
    BY <1>1, <1>2, <2>1, <2>2 DEF Promise!Remember
<1>4. CASE ~Evicts
  <2>1. Len(queue) # Window /\ queue' = longer
    BY <1>4, EvictsWhenFull DEF UpdateLimit
  <2> QED
    BY <1>1, <1>2, <2>1 DEF Promise!Remember
<1> QED
  BY <1>3, <1>4

(* The limiter, deciding by its map, implements the sliding window, which
   decides by counting the latest issuances. *)
THEOREM LimiterRefinement == LimiterSpec => ImplementsSlidingWindow
<1>1. LimiterInit => Promise!Init
  BY DEF LimiterInit, Promise!Init
<1>2. LimiterInv /\ [LimiterNext]_limiterVars => [Promise!Next]_queue
  <2> SUFFICES ASSUME LimiterInv, [LimiterNext]_limiterVars
               PROVE  [Promise!Next]_queue
    OBVIOUS
  <2>1. /\ LimiterTypeOK /\ MappingCountsQueue
        /\ queue \in Seq(Users) /\ Len(queue) <= Window
    BY DEF LimiterInv, LimiterTypeOK, LimitRespected
  <2>2. ASSUME NEW u \in Users, Issue(u)
        PROVE  Promise!Admit(u)
    <3>1. Promise!Times(u) < Multiplicity
      BY <2>1, <2>2, CheckLimitCounts DEF Issue, Promise!Times, Promise!Cardinality,
                                         Cardinality, Count, Occurrences
    <3> QED
      BY <2>1, <2>2, <3>1, UpdateIsRemember DEF Issue, Promise!Admit
  <2>3. CASE UNCHANGED limiterVars
    BY <2>3 DEF limiterVars
  <2> QED
    BY <2>2, <2>3 DEF LimiterNext, Promise!Next
<1>3. LimiterSpec => []LimiterInv
  BY LimiterSafe, PTL DEF LimiterInv
<1> QED
  BY <1>1, <1>2, <1>3, PTL DEF LimiterSpec, ImplementsSlidingWindow, Promise!Spec
=============================================================================
