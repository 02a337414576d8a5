---------------------------------- MODULE Pool ----------------------------------
(***************************************************************************)
(* ucoo::Pool (utils/pool.tcc): storages for objects; a free one holds the *)
(* link to the next free one in the place of the object.  A constructor,   *)
(* or a destructor, may use the pool it is called by.                      *)
(***************************************************************************)
EXTENDS Integers, FiniteSets

CONSTANT PoolSize

ASSUME PoolBounds == PoolSize \in Nat \ {0}

VARIABLES
    pool,           \* pool_: link or object
    next_free,      \* next_free_
    constructing, destroying,   \* storages whose constructor, destructor runs
    got             \* the last result of construct, for the properties

poolVars == <<pool, next_free, constructing, destroying, got>>

Storages == 1..PoolSize
nullptr == 0
Object == -1

PoolInit ==
    /\ pool = [s \in Storages |-> IF s = PoolSize THEN nullptr ELSE s + 1]
    /\ next_free = 1
    /\ constructing = {} /\ destroying = {} /\ got = [is |-> nullptr, free |-> 0]

Live == {s \in Storages : pool[s] = Object}

\* Mutant of Take: the link is followed once the object is constructed over it.
TakeLater == UNCHANGED next_free

\* What comes before the constructor.
Take == next_free' = pool[next_free]

\* construct, up to the constructor.
construct ==
    /\ got' = [is |-> next_free, free |-> PoolSize - Cardinality(Live \cup constructing)]
    /\ IF next_free # nullptr
       THEN Take /\ constructing' = constructing \cup {next_free}
       ELSE UNCHANGED <<next_free, constructing>>
    /\ UNCHANGED <<pool, destroying>>

Constructed(s) ==
    /\ s \in constructing
    /\ pool' = [pool EXCEPT ![s] = Object]
    /\ constructing' = constructing \ {s}
    /\ UNCHANGED <<next_free, destroying, got>>

\* destroy: the destructor, then the rest.
destroy(s) ==
    /\ s \in Live \ destroying
    /\ destroying' = destroying \cup {s}
    /\ UNCHANGED <<pool, next_free, constructing, got>>

Destroyed(s) ==
    /\ s \in destroying
    /\ pool' = [pool EXCEPT ![s] = next_free] /\ next_free' = s
    /\ destroying' = destroying \ {s}
    /\ UNCHANGED <<constructing, got>>

PoolNext == construct \/ \E s \in Storages : Constructed(s) \/ destroy(s) \/ Destroyed(s)

PoolSpec == PoolInit /\ [][PoolNext]_poolVars

--------------------------------------------------------------------------------
\* What is met from next_free_ on, as ~Pool counts it.
Link(s) == IF s \in Storages THEN pool[s] ELSE s
met[n \in 0..PoolSize] == IF n = 0 THEN next_free ELSE Link(met[n - 1])
FreeList == {met[n] : n \in 0..PoolSize} \ {nullptr}

\* The free list ends, it has each storage no object is in, nor is being made in,
\* and no other: nothing leaks and no storage is given twice, whatever constructors
\* and destructors do; nullptr is for a full pool only (utils/pool.hh:63).
PoolIsExact ==
    /\ met[PoolSize] = nullptr
    /\ FreeList = Storages \ (Live \cup constructing)
    /\ got.is = nullptr <=> got.free = 0
================================================================================
