------------------------------ MODULE EntityWorld ------------------------------
(***************************************************************************)
(* The entities of World (ecs/mod.rs): handles made of an index and a      *)
(* generation, a dense vector of them whose first `partition` entries are  *)
(* alive and whose others are free, and a sparse vector from an index to   *)
(* its place in the dense one.                                             *)
(*                                                                         *)
(* A place of a vector is an index of the code; the sequences that stand   *)
(* for the vectors hold it one further on.  Entities are pairs <<id,       *)
(* generation>> with the generation modulo its width; a handle is <<id, n>>*)
(* where n counts the despawns of the id, so that two handles differ even  *)
(* when the entities the code gave out for them have become equal.         *)
(***************************************************************************)
EXTENDS Integers, Sequences, FiniteSets

CONSTANTS
    Capacity,     \* the argument of World::new
    Generations,  \* how many values a generation has (2^GEN_BITS)
    MaxEntities,  \* bound on the length of the dense vector
    MaxReuses     \* bound on the despawns of one id

ASSUME CapacityAssumption == Capacity \in Nat
ASSUME GenerationsAssumption == Generations \in Nat \ {0}
ASSUME BoundsAssumption == MaxEntities \in Nat /\ MaxReuses \in Nat

VARIABLES
    entities,          \* World.entities
    entity_pointers,   \* EntityPointers.internal
    partition,         \* World.partition
    free_entities,     \* World.free_entities
    reuses,            \* history: how often each id has been despawned
    given,             \* history: the handles spawn has returned
    live,              \* history: those that have not been despawned
    successes          \* history: how many spawns and despawns have succeeded

entityVars == <<entities, entity_pointers, partition, free_entities, reuses, given, live, successes>>

Ids == 0..Len(entities) - 1

\* The entity the code gives out for a handle.
Key(h) == <<h[1], h[2] % Generations>>

\* The handle that the entity e of the dense vector stands for.
HandleOf(e) == <<e[1], reuses[e[1] + 1]>>

\* A handle kept while its index was despawned as often as there are
\* generations.  The application is taken not to have one.
Expired(h) == reuses[h[1] + 1] - h[2] >= Generations

-----------------------------------------------------------------------------
EntityInit ==
    /\ entities = <<>>
    /\ entity_pointers = [i \in 1..Capacity |-> 0]
    /\ partition = 0
    /\ free_entities = 0
    /\ reuses = <<>>
    /\ given = {} /\ live = {} /\ successes = 0

\* EntityPointers::insert: within the capacity, or one more.
InsertPointer(sparse_loc, dense_loc) ==
    entity_pointers' = IF sparse_loc < Len(entity_pointers)
                       THEN [entity_pointers EXCEPT ![sparse_loc + 1] = dense_loc]
                       ELSE Append(entity_pointers, dense_loc)

Give(h) ==
    /\ given' = given \cup {h}
    /\ live' = live \cup {h}
    /\ successes' = successes + 1

\* spawn() with no free entity: a new one, of generation zero ...
SpawnNew ==
    /\ free_entities = 0 /\ Len(entities) < MaxEntities
    /\ LET dense_loc == Len(entities)
       IN  /\ InsertPointer(dense_loc, dense_loc)
           /\ entities' = Append(entities, <<dense_loc, 0>>)
           /\ Give(<<dense_loc, 0>>)
    /\ reuses' = Append(reuses, 0)
    /\ partition' = partition + 1
    /\ UNCHANGED free_entities

\* Mutant of the operator below: the last of the free ones.
SpawnReused_Last ==
    /\ free_entities # 0
    /\ Give(HandleOf(entities[Len(entities)]))
    /\ free_entities' = free_entities - 1
    /\ partition' = partition + 1
    /\ UNCHANGED <<entities, entity_pointers, reuses>>

\* ... or the first of the free ones.
SpawnReused ==
    /\ free_entities # 0
    /\ Give(HandleOf(entities[partition + 1]))
    /\ free_entities' = free_entities - 1
    /\ partition' = partition + 1
    /\ UNCHANGED <<entities, entity_pointers, reuses>>

\* The test of despawn(): the dense entry is the entity that was passed.
Accepts(h) ==
    LET dense_loc == entity_pointers[h[1] + 1]
    IN  dense_loc < Len(entities) /\ entities[dense_loc + 1] = Key(h)

Swap(seq, i, j) == [seq EXCEPT ![i] = seq[j], ![j] = seq[i]]

\* Mutant of the operator below: the generation is left as it is.
Increment_Skip(e) == e

\* Entity::increment, a wrapping_add(1).
Increment(e) == <<e[1], (e[2] + 1) % Generations>>

\* Mutant of the operator below: the dense entries are swapped, the sparse
\* ones are not.
SwapOut_DenseOnly(e, dense_loc, last) ==
    /\ entities' = Swap([entities EXCEPT ![dense_loc + 1] = Increment(e)], dense_loc + 1, last + 1)
    /\ UNCHANGED entity_pointers

\* The entity e leaves its place to the last living one, and goes to the head
\* of the free ones with its next generation.
SwapOut(e, dense_loc, last) ==
    LET aged == [entities EXCEPT ![dense_loc + 1] = Increment(e)]
    IN  IF dense_loc # last
        THEN /\ entity_pointers' = Swap(entity_pointers, e[1] + 1, aged[last + 1][1] + 1)
             /\ entities' = Swap(aged, dense_loc + 1, last + 1)
        ELSE /\ entities' = aged
             /\ UNCHANGED entity_pointers

\* despawn() of an entity that passes the test.  (When it does not, an error
\* is returned and nothing changes.)
Despawn(h) ==
    /\ Accepts(h)
    /\ reuses[h[1] + 1] < MaxReuses
    /\ SwapOut(Key(h), entity_pointers[h[1] + 1], partition - 1)
    /\ partition' = partition - 1
    /\ free_entities' = free_entities + 1
    /\ reuses' = [reuses EXCEPT ![h[1] + 1] = @ + 1]
    /\ live' = live \ {h}
    /\ successes' = successes + 1
    /\ UNCHANGED given

EntityNext ==
    \/ SpawnNew
    \/ SpawnReused
    \/ \E h \in given : ~Expired(h) /\ Despawn(h)

EntitySpec == EntityInit /\ [][EntityNext]_entityVars

-----------------------------------------------------------------------------
(* Type correctness. *)
EntityTypeOK ==
    /\ entities \in Seq(Nat \X (0..Generations - 1))
    /\ entity_pointers \in Seq(Nat)
    /\ partition \in Nat /\ free_entities \in Nat
    /\ reuses \in Seq(Nat)
    /\ given \subseteq Nat \X Nat
    /\ live \subseteq given
    /\ successes \in Nat

(* The sparse vector leads from every index to its place in the dense one,  *)
(* through any number of swaps.                                             *)
PointersInverse ==
    \A i \in Ids : /\ entity_pointers[i + 1] \in Ids
                   /\ entities[entity_pointers[i + 1] + 1][1] = i

(* The entries below `partition` are the living entities, one each.         *)
PartitionSound ==
    /\ partition + free_entities = Len(entities)
    /\ live = {HandleOf(entities[d]) : d \in 1..partition}
    /\ Cardinality(live) = partition

(* ecs/mod.rs:194, "if not its stale": despawn takes a handle if and only   *)
(* if it has not been despawned, wherever its entity has been swapped to    *)
(* and however often its index has been reused, short of all generations.   *)
StaleRefused == \A h \in given : ~Expired(h) => (Accepts(h) <=> h \in live)

(* World keeps the promise of EntityHandles.                                *)
HandlesOf == INSTANCE EntityHandles WITH Handles <- (0..MaxEntities - 1) \X (0..MaxReuses)
EntityStep == HandlesOf!HandlesSpec
=============================================================================
