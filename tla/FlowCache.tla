------------------------------- MODULE FlowCache -------------------------------
(***************************************************************************)
(* The flow cache of one exporter (flow_cache.go) under the calls a tick   *)
(* makes on it: trim to the scenario's population, expire, refill.  Each   *)
(* call takes the cache's mutex; the refill takes it twice, once to see how*)
(* many flows are missing and once to insert them, and an ingest (Add) may *)
(* come in between.  A flow is its key, the time of its last packet and    *)
(* its active deadline, in clock ticks.                                    *)
(***************************************************************************)
EXTENDS Integers, FiniteSets, Sequences

CONSTANTS
  FlowKeys,         \* the 5-tuples the generator may draw
  ActiveTimeout,
  InactiveTimeout,
  MaxFlows,         \* FlowProfile.MaxFlows
  ConcurrentFlows,  \* FlowProfile.ConcurrentFlows
  Overrides,        \* concurrentOverride values; 0 for none
  Durations,        \* sampled flow durations
  Jitters,          \* drawn active-timeout jitters, at most a quarter of it
  MaxClock          \* bound on the clock

ASSUME CacheAssumption == /\ IsFiniteSet(FlowKeys)
                          /\ {ActiveTimeout, InactiveTimeout} \subseteq Nat \ {0}
                          /\ {MaxFlows, MaxClock} \subseteq Nat
                          /\ ConcurrentFlows \in Nat
                          /\ Overrides \subseteq Nat /\ Durations \subseteq Nat
                          /\ \A j \in Jitters : j \in Int /\ ActiveTimeout + j > 0

VARIABLES
  clock,        \* the time of the tick in progress or to come
  flows,        \* the cache: a function from the keys it holds
  warmed,       \* the first fill is done
  step,         \* where the tick is
  goal,         \* targetFlows(), read at the start of the tick
  paced,        \* concurrentOverride was positive at the tick's trim
  missing,      \* need, computed under the first lock
  expired       \* what Expire returned, and of it how many were still active

cacheVars == <<clock, flows, warmed, step, goal, paced, missing, expired>>

Entries == [seen : Int, deadline : Int]

CacheTypeOK == /\ clock \in 0..MaxClock
               /\ DOMAIN flows \subseteq FlowKeys
               /\ \A k \in DOMAIN flows : flows[k] \in Entries
               /\ warmed \in BOOLEAN /\ paced \in BOOLEAN
               /\ step \in {"rest", "trim", "expire", "need", "insert"}
               /\ goal \in Nat /\ missing \in Nat
               /\ expired \subseteq FlowKeys

CacheInit == /\ clock = 0
             /\ flows = [k \in {} |-> [seen |-> 0, deadline |-> 0]]
             /\ warmed = FALSE /\ step = "rest" /\ goal = 0 /\ paced = FALSE
             /\ missing = 0 /\ expired = {}
-------------------------------------------------------------------------------
Without(keys) == [k \in DOMAIN flows \ keys |-> flows[k]]

\* Tick begins: the population it aims for is the override or the profile's.
BeginSweep(target) ==
  /\ step = "rest"
  /\ goal' = IF target > 0 THEN target ELSE ConcurrentFlows
  /\ paced' = (target > 0)
  /\ step' = "trim"
  /\ UNCHANGED <<clock, flows, warmed, missing, expired>>

\* TrimTo, only on a paced device: whichever flows the map yields first go.
TrimTo == /\ step = "trim"
          /\ IF paced /\ Cardinality(DOMAIN flows) > goal
             THEN \E out \in SUBSET DOMAIN flows :
                    /\ Cardinality(out) = Cardinality(DOMAIN flows) - goal
                    /\ flows' = Without(out)
             ELSE UNCHANGED flows
          /\ step' = "expire"
          /\ UNCHANGED <<clock, warmed, goal, paced, missing, expired>>

\* Expire's two tests.
ByActive(f) == clock >= f.deadline
ByInactive(f) == clock - f.seen >= InactiveTimeout

\* Expire: every due flow leaves and is returned.
ExpireFlows == /\ step = "expire"
               /\ expired' = {k \in DOMAIN flows : ByActive(flows[k]) \/ ByInactive(flows[k])}
               /\ flows' = Without(expired')
               /\ step' = "need"
               /\ UNCHANGED <<clock, warmed, goal, paced, missing>>

\* GenerateFlowsFrom, first lock: nothing to do when the cache is full enough.
NeedFlows == /\ step = "need"
             /\ missing' = IF goal > Cardinality(DOMAIN flows)
                           THEN goal - Cardinality(DOMAIN flows) ELSE 0
             /\ step' = IF missing' = 0 THEN "rest" ELSE "insert"
             /\ UNCHANGED <<clock, flows, warmed, goal, paced, expired>>

\* min(active deadline, duration + inactive timeout): how long a flow lives.
Lifetime(d, j) == IF ActiveTimeout + j < d + InactiveTimeout
                  THEN ActiveTimeout + j ELSE d + InactiveTimeout

\* warmStartOffset: how far into its own life a flow of the first fill is.
WarmOffsets(d, j) == LET span == Lifetime(d, j) IN
                     IF span <= 0 THEN {0} ELSE 0..span - 1

\* The entries a draw can produce: only the first fill is backdated, and the last
\* packet lies a duration after the creation.
Drawn == LET born(d, j) == IF warmed THEN {clock} ELSE {clock - o : o \in WarmOffsets(d, j)} IN
         UNION {{[seen |-> c + d, deadline |-> c + ActiveTimeout + j] : c \in born(d, j)} :
                  d \in Durations, j \in Jitters}

\* A slip in the second lock: the capacity is not looked at again.
InsertableUnchecked == missing

\* How many of the missing flows still go in: the cache may have grown meanwhile.
Insertable == LET room == MaxFlows - Cardinality(DOMAIN flows) IN
              IF room < 0 THEN 0 ELSE IF missing < room THEN missing ELSE room

\* GenerateFlowsFrom, second lock: the batch goes in until the cache is at
\* MaxFlows; a key it already holds is skipped, so fewer may arrive.
InsertFlows == /\ step = "insert"
               /\ \E new \in SUBSET (FlowKeys \ DOMAIN flows) :
                    /\ Cardinality(new) <= Insertable
                    /\ \E e \in [new -> Drawn] :
                         flows' = [k \in DOMAIN flows \cup new |->
                                     IF k \in new THEN e[k] ELSE flows[k]]
               /\ warmed' = TRUE
               /\ step' = "rest"
               /\ UNCHANGED <<clock, goal, paced, missing, expired>>

\* Add, the ingest seam: a packet of the flow k arrives now.
Add(k) == /\ IF k \in DOMAIN flows
             THEN flows' = [flows EXCEPT ![k].seen = clock]
             ELSE /\ Cardinality(DOMAIN flows) < MaxFlows
                  /\ flows' = [x \in DOMAIN flows \cup {k} |->
                                 IF x = k THEN [seen |-> clock, deadline |-> clock + ActiveTimeout]
                                 ELSE flows[x]]
          /\ UNCHANGED <<clock, warmed, step, goal, paced, missing, expired>>

\* The next tick comes later.
CacheClock == /\ step = "rest"
              /\ clock < MaxClock
              /\ clock' = clock + 1
              /\ UNCHANGED <<flows, warmed, step, goal, paced, missing, expired>>

CacheNext == \/ \E o \in Overrides : BeginSweep(o)
             \/ TrimTo \/ ExpireFlows \/ NeedFlows \/ InsertFlows
             \/ \E k \in FlowKeys : Add(k)
             \/ CacheClock

CacheSpec == CacheInit /\ [][CacheNext]_cacheVars
-------------------------------------------------------------------------------
(* Properties of the cache. *)

\* The cache never holds more than MaxFlows although the refill sizes its batch
\* under one lock and inserts it under another.
CacheBounded == Cardinality(DOMAIN flows) <= MaxFlows

\* No flow is born expired: whatever the refill has put in, the backdated flows of
\* the first fill included, is alive at the instant it was put in, so the first
\* sweep is not a burst (nl6#446).
NoneBornExpired ==
  [][\A k \in DOMAIN flows' \ DOMAIN flows :
       /\ clock < flows'[k].deadline
       /\ clock - flows'[k].seen < InactiveTimeout]_cacheVars

\* The cache keeps within its limit although the refill works under two locks, and
\* puts in no flow that the next sweep would take out (flow_cache.go).
CacheKept ==
  /\ [](CacheTypeOK /\ CacheBounded)
  /\ NoneBornExpired
===============================================================================
