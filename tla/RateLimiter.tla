----------------------------- MODULE RateLimiter -----------------------------
(***************************************************************************)
(* The per-user rate limiter of the example issuers                        *)
(* (examples/some-issuer/src/lib.rs, struct RateLimiter).  It remembers    *)
(* the users of the latest issued credentials in a queue, newest first,    *)
(* and keeps beside it a map from user to the number of times the user     *)
(* occurs in the queue, so that the check is a lookup.                     *)
(***************************************************************************)
EXTENDS Integers, Sequences, FiniteSets

CONSTANTS Users,         \* the identities credentials are issued to
          MaxQueueSize,  \* --rate-limit-capacity
          Multiplicity   \* --rate-limit-max-repeats

ASSUME LimiterAssumption ==
    /\ MaxQueueSize \in Nat
    /\ Multiplicity \in Nat

VARIABLES queue,   \* Seq(Users): users of the latest issuances, newest first
          mapping  \* partial function Users -> Nat: the HashMap

limiterVars == <<queue, mapping>>

-----------------------------------------------------------------------------
(* mapping.get(u).unwrap_or(&0) and mapping.entry(u).or_insert(0) *)
Occupied(m, u) == IF u \in DOMAIN m THEN m[u] ELSE 0

(* *multiplicity += 1 on the entry, created when absent *)
Incremented(m, u) ==
    [v \in DOMAIN m \cup {u} |-> IF v = u THEN Occupied(m, u) + 1 ELSE m[v]]

(* Mutant: entries that reach zero stay in the map. *)
DecrementedKept(m, u) ==
    [v \in DOMAIN m |-> IF v = u THEN m[v] - 1 ELSE m[v]]

(* *occupied -= 1, and the entry is removed when it reaches zero;
   nothing happens to a user without an entry *)
Decremented(m, u) ==
    [v \in {w \in DOMAIN m : w = u => m[w] # 1} |->
        IF v = u THEN m[v] - 1 ELSE m[v]]

(* Mutant: one more than the configured number of repeats. *)
CheckLimitInclusive(u) == Occupied(mapping, u) <= Multiplicity

(* Whether u may be issued one more credential. *)
CheckLimit(u) == Occupied(mapping, u) < Multiplicity

(* Mutant: the queue grows one beyond its capacity before it forgets. *)
EvictsLate == Len(queue) > MaxQueueSize /\ queue # << >>

(* The oldest issuance is forgotten once the queue is full.  With a
   capacity of zero the queue still grows to length one: there is
   nothing to pop the first time. *)
Evicts == Len(queue) >= MaxQueueSize /\ queue # << >>

UpdateLimit(u) ==
    LET counted == Incremented(mapping, u)
        oldest  == queue[Len(queue)]
    IN  IF Evicts
        THEN /\ mapping' = Decremented(counted, oldest)
             /\ queue' = <<u>> \o SubSeq(queue, 1, Len(queue) - 1)
        ELSE /\ mapping' = counted
             /\ queue' = <<u>> \o queue

(* VecDeque::new() and HashMap::new() in SyncState::new. *)
LimiterInit == /\ queue = << >>
               /\ mapping = [u \in {} |-> 0]

(* One issuance: register_credential checks before it sends the
   transaction and updates after the node accepted it. *)
Issue(u) == CheckLimit(u) /\ UpdateLimit(u)

LimiterNext == \E u \in Users : Issue(u)

LimiterSpec == LimiterInit /\ [][LimiterNext]_limiterVars

-----------------------------------------------------------------------------
(* The entries of a queue that belong to u, and their number. *)
Occurrences(q, u) == {i \in 1..Len(q) : q[i] = u}

Count(q, u) == Cardinality(Occurrences(q, u))

(* The length the queue is limited to. *)
Window == IF MaxQueueSize = 0 THEN 1 ELSE MaxQueueSize

(* Type invariant: the queue holds users, the map counts some of them. *)
LimiterTypeOK ==
    /\ queue \in Seq(Users)
    /\ DOMAIN mapping \subseteq Users
    /\ mapping \in [DOMAIN mapping -> Nat \ {0}]

(* The map is the index of the queue: it has an entry for exactly the users
   in the queue (update_limit removes entries that reach zero, so that the
   map cannot grow without bound), and the entry is the number of their
   occurrences.  update_limit keeps it by one increment and one decrement,
   in that order, which may concern the same user. *)
MappingCountsQueue ==
    /\ DOMAIN mapping = {queue[i] : i \in 1..Len(queue)}
    /\ \A u \in DOMAIN mapping : mapping[u] = Count(queue, u)

(* The limit: the queue never outgrows its capacity (one, for a capacity of
   zero), and no user occurs in it more often than the multiplicity that
   check_limit compares the map with. *)
LimitRespected ==
    /\ Len(queue) <= Window
    /\ \A u \in Users : Count(queue, u) <= Multiplicity

(* What the limiter promises, without the map. *)
Promise == INSTANCE SlidingWindow WITH window <- queue, Size <- Window

(* The limiter, which never looks at the queue to decide, admits exactly what
   counting the latest issuances would admit: every step of check_limit and
   update_limit is a step of the sliding window. *)
ImplementsSlidingWindow == Promise!Spec
=============================================================================
