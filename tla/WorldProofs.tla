------------------------------ MODULE WorldProofs ------------------------------
(***************************************************************************)
(* The ECS world, for every capacity, every number of generations, every   *)
(* set of component types and every number of calls.  First the entities:  *)
(* EntityWorld keeps the promise of EntityHandles, and its vectors their   *)
(* order.  Then the archetypes of World: ids are not shared, a row's       *)
(* components are those of its entity, and no two archetypes have the same *)
(* types.                                                                  *)
(***************************************************************************)
EXTENDS World, FiniteSetTheorems, TLAPS

-----------------------------------------------------------------------------
(* The entities. *)

\* The lengths of the vectors, and the two bounds.
Lengths ==
    /\ Len(reuses) = Len(entities)
    /\ Len(entity_pointers) >= Len(entities)
    /\ partition + free_entities = Len(entities)
    /\ Len(entities) <= MaxEntities
    /\ \A i \in Ids : reuses[i + 1] <= MaxReuses

\* Every dense entry has an index of its own, knows its generation, and its
\* index leads back to it.
Placed ==
    \A d \in 1..Len(entities) :
       /\ entities[d][1] \in Ids
       /\ entity_pointers[entities[d][1] + 1] = d - 1
       /\ entities[d][2] = reuses[entities[d][1] + 1] % Generations

\* The entries below the partition are the living ones.
LiveDense == live = {HandleOf(entities[d]) : d \in 1..partition}

\* A handle is as old as its index or older, and alive if it is as old.
GivenAged ==
    \A h \in given : /\ h[1] \in Ids
                     /\ h[2] <= reuses[h[1] + 1]
                     /\ h[2] = reuses[h[1] + 1] => h \in live

EInv == EntityTypeOK /\ Lengths /\ Placed /\ PointersInverse /\ LiveDense /\ GivenAged

-----------------------------------------------------------------------------
(* Generations: arithmetic modulo their number.                            *)

LEMMA Division ==
    ASSUME NEW G \in Nat \ {0}, NEW a \in Nat
    PROVE  \E q \in Int, r \in 0..G - 1 : r = a % G /\ a = G * q + r
OBVIOUS

LEMMA DivisionUnique ==
    ASSUME NEW G \in Nat \ {0}, NEW a \in Int, NEW q \in Int, NEW r \in 0..G - 1, a = G * q + r
    PROVE  a % G = r
OBVIOUS

\* The next generation is the generation of the next despawn.
LEMMA NextGeneration ==
    ASSUME NEW G \in Nat \ {0}, NEW a \in Nat
    PROVE  ((a % G) + 1) % G = (a + 1) % G
<1>1. PICK q \in Int, r \in 0..G - 1 : r = a % G /\ a = G * q + r BY Division
<1>2. CASE r + 1 \in 0..G - 1
  <2>1. a + 1 \in Int /\ a + 1 = G * q + (r + 1) BY <1>1
  <2>2. (a + 1) % G = r + 1 BY <2>1, <1>2, DivisionUnique
  <2>3. (r + 1) % G = r + 1 BY <1>2
  <2> QED BY <2>2, <2>3, <1>1
<1>3. CASE r + 1 = G
  <2>1. a + 1 \in Int /\ q + 1 \in Int /\ 0 \in 0..G - 1 OBVIOUS
  <2>2. a + 1 = G * (q + 1) + 0 BY <1>1, <1>3
  <2>3. (a + 1) % G = 0 BY <2>1, <2>2, DivisionUnique
  <2>4. G % G = 0 OBVIOUS
  <2> QED BY <2>3, <2>4, <1>3, <1>1
<1> QED BY <1>1, <1>2, <1>3

\* Fewer than all generations apart, two counts of despawns are told apart.
LEMMA SameGeneration ==
    ASSUME NEW G \in Nat \ {0}, NEW a \in Nat, NEW b \in Nat,
           a <= b, b - a < G, a % G = b % G
    PROVE  a = b
<1>1. PICK p \in Int, r \in 0..G - 1 : r = a % G /\ a = G * p + r BY Division
<1>2. PICK q \in Int, t \in 0..G - 1 : t = b % G /\ b = G * q + t BY Division
<1>3. b - a = G * (q - p) BY <1>1, <1>2
<1>4. CASE q - p >= 1
  <2>1. G * (q - p) >= G BY <1>4
  <2> QED BY <2>1, <1>3
<1>5. CASE q - p <= 0
  <2>1. G * (q - p) <= 0 BY <1>5
  <2> QED BY <2>1, <1>3
<1> QED BY <1>4, <1>5

-----------------------------------------------------------------------------
(* The types, pointwise.                                                   *)

LEMMA EntryTypes ==
    ASSUME EntityTypeOK
    PROVE  /\ Len(entities) \in Nat /\ Len(reuses) \in Nat /\ Len(entity_pointers) \in Nat
           /\ \A d \in 1..Len(entities) :
                 /\ entities[d] = <<entities[d][1], entities[d][2]>>
                 /\ entities[d][1] \in Nat /\ entities[d][2] \in 0..Generations - 1
           /\ \A i \in 1..Len(reuses) : reuses[i] \in Nat
           /\ \A i \in 1..Len(entity_pointers) : entity_pointers[i] \in Nat
           /\ \A h \in given : h = <<h[1], h[2]>> /\ h[1] \in Nat /\ h[2] \in Nat
           /\ partition \in Nat /\ free_entities \in Nat /\ successes \in Nat
           /\ live \subseteq given
<1> USE DEF EntityTypeOK
<1>1. /\ Len(entities) \in Nat /\ Len(reuses) \in Nat /\ Len(entity_pointers) \in Nat
      /\ \A d \in 1..Len(entities) : entities[d] \in Nat \X (0..Generations - 1)
      /\ \A i \in 1..Len(reuses) : reuses[i] \in Nat
      /\ \A i \in 1..Len(entity_pointers) : entity_pointers[i] \in Nat
  OBVIOUS
<1>2. \A h \in given : h \in Nat \X Nat OBVIOUS
<1> QED BY <1>1, <1>2

\* A living handle is that of the place its index leads to.
LEMMA LivingPlace ==
    ASSUME EInv, NEW h \in live
    PROVE  /\ h[1] \in Ids
           /\ h = HandleOf(entities[entity_pointers[h[1] + 1] + 1])
           /\ h[2] = reuses[h[1] + 1]
           /\ entity_pointers[h[1] + 1] + 1 \in 1..partition
<1>1. PICK d \in 1..partition : h = HandleOf(entities[d]) BY DEF EInv, LiveDense
<1>2. d \in 1..Len(entities) BY EntryTypes DEF EInv, Lengths
<1>3. h[1] = entities[d][1] /\ h[2] = reuses[entities[d][1] + 1] BY <1>1 DEF HandleOf
<1>4. entities[d][1] \in Ids /\ entity_pointers[entities[d][1] + 1] = d - 1
  BY <1>2 DEF EInv, Placed
<1>5. entity_pointers[h[1] + 1] + 1 = d BY <1>3, <1>4
<1> QED BY <1>1, <1>3, <1>4, <1>5

(* ecs/mod.rs:194: the test of despawn tells living handles from stale     *)
(* ones.                                                                   *)
LEMMA AcceptsLiving ==
    ASSUME EInv
    PROVE  StaleRefused
<1> SUFFICES ASSUME NEW h \in given, ~Expired(h)
             PROVE  Accepts(h) <=> h \in live
  BY DEF StaleRefused
<1> DEFINE i == h[1]
           d == entity_pointers[i + 1] + 1
<1>1. h[1] \in Ids /\ h[2] <= reuses[h[1] + 1] /\ (h[2] = reuses[h[1] + 1] => h \in live)
  BY DEF EInv, GivenAged
<1>2. h = <<h[1], h[2]>> /\ h[1] \in Nat /\ h[2] \in Nat BY EntryTypes DEF EInv
<1>3. entity_pointers[i + 1] \in Ids /\ entities[d][1] = i
  BY <1>1 DEF EInv, PointersInverse
<1>4. d \in 1..Len(entities) /\ i + 1 \in 1..Len(reuses) /\ reuses[i + 1] \in Nat
  <2>1. /\ Len(entities) \in Nat /\ Len(reuses) = Len(entities)
        /\ \A k \in 1..Len(reuses) : reuses[k] \in Nat
    BY EntryTypes DEF EInv, Lengths
  <2> QED BY <1>1, <1>3, <2>1 DEF Ids
<1>5. entities[d] = <<i, reuses[i + 1] % Generations>>
  BY <1>3, <1>4, EntryTypes DEF EInv, Placed
<1>6. Accepts(h) <=> entities[d] = Key(h)
  BY <1>3, <1>4, EntryTypes, SMTT(30) DEF Accepts, Ids, EInv
<1>7. Key(h) = <<i, h[2] % Generations>> BY DEF Key
<1>8. ASSUME h[2] % Generations = reuses[i + 1] % Generations
      PROVE  h \in live
  <2>1. reuses[i + 1] - h[2] < Generations BY <1>2, <1>4, GenerationsAssumption DEF Expired
  <2> HIDE DEF i
  <2>2. h[2] = reuses[i + 1]
    BY <1>1, <1>2, <1>4, <1>8, <2>1, SameGeneration, GenerationsAssumption DEF i
  <2> QED BY <1>1, <2>2 DEF i
<1>9. ASSUME h \in live
      PROVE  h[2] % Generations = reuses[i + 1] % Generations
  BY <1>9, LivingPlace
<1> QED BY <1>5, <1>6, <1>7, <1>8, <1>9

-----------------------------------------------------------------------------
(* The initial state.                                                      *)
LEMMA EInvInit == ASSUME EntityInit PROVE EInv
<1> USE DEF EntityInit
<1>1. EntityTypeOK
  BY CapacityAssumption, GenerationsAssumption DEF EntityTypeOK
<1>2. Lengths
  <2>1. Len(entity_pointers) = Capacity BY CapacityAssumption
  <2> QED BY <2>1, CapacityAssumption, BoundsAssumption DEF Lengths, Ids
<1>3. Placed BY DEF Placed
<1>4. PointersInverse BY DEF PointersInverse, Ids
<1>5. LiveDense BY DEF LiveDense
<1>6. GivenAged BY DEF GivenAged
<1> QED BY <1>1, <1>2, <1>3, <1>4, <1>5, <1>6 DEF EInv

-----------------------------------------------------------------------------
(* spawn() of a new entity.                                                *)

\* What InsertPointer does at the end of the dense vector.
LEMMA NewPointer ==
    ASSUME EInv, InsertPointer(Len(entities), Len(entities))
    PROVE  /\ entity_pointers' \in Seq(Nat)
           /\ Len(entity_pointers') \in Nat /\ Len(entity_pointers') >= Len(entities) + 1
           /\ entity_pointers'[Len(entities) + 1] = Len(entities)
           /\ \A k \in 1..Len(entities) : entity_pointers'[k] = entity_pointers[k]
<1> DEFINE n == Len(entities)
<1>1. /\ n \in Nat /\ entity_pointers \in Seq(Nat)
      /\ Len(entity_pointers) \in Nat /\ Len(entity_pointers) >= n
  BY EntryTypes DEF EInv, EntityTypeOK, Lengths
<1>2. entity_pointers' = IF n < Len(entity_pointers)
                         THEN [entity_pointers EXCEPT ![n + 1] = n]
                         ELSE Append(entity_pointers, n)
  BY DEF InsertPointer
<1> HIDE DEF n
<1>3. CASE n < Len(entity_pointers)
  <2>1. entity_pointers' = [entity_pointers EXCEPT ![n + 1] = n] BY <1>2, <1>3
  <2> QED BY <1>1, <1>3, <2>1 DEF n
<1>4. CASE n = Len(entity_pointers)
  <2>1. entity_pointers' = Append(entity_pointers, n) BY <1>1, <1>2, <1>4
  <2>2. /\ entity_pointers' \in Seq(Nat) /\ Len(entity_pointers') = n + 1
        /\ entity_pointers'[n + 1] = n
        /\ \A k \in 1..n : entity_pointers'[k] = entity_pointers[k]
    BY <1>1, <1>4, <2>1
  <2> QED BY <1>1, <2>2 DEF n
<1> QED BY <1>1, <1>3, <1>4

LEMMA SpawnNewInv ==
    ASSUME EInv, SpawnNew
    PROVE  EInv' /\ <<Len(entities), 0>> \notin given
<1> DEFINE n == Len(entities)
           h == <<n, 0>>
<1>1. /\ free_entities = 0 /\ n < MaxEntities
      /\ InsertPointer(n, n)
      /\ entities' = Append(entities, h)
      /\ given' = given \cup {h} /\ live' = live \cup {h}
      /\ successes' = successes + 1
      /\ reuses' = Append(reuses, 0)
      /\ partition' = partition + 1 /\ free_entities' = 0
  BY DEF SpawnNew, Give
<1>2. /\ n \in Nat /\ Len(reuses) = n /\ partition = n
      /\ entities \in Seq(Nat \X (0..Generations - 1)) /\ reuses \in Seq(Nat)
      /\ n \in 0..MaxEntities
  BY <1>1, EntryTypes, BoundsAssumption DEF EInv, EntityTypeOK, Lengths
<1>3. /\ entity_pointers' \in Seq(Nat)
      /\ Len(entity_pointers') >= n + 1
      /\ entity_pointers'[n + 1] = n
      /\ \A k \in 1..n : entity_pointers'[k] = entity_pointers[k]
  BY <1>1, NewPointer
<1>4. h \in Nat \X (0..Generations - 1) /\ 0 % Generations = 0
  BY <1>2, GenerationsAssumption
<1>5. /\ entities' \in Seq(Nat \X (0..Generations - 1)) /\ Len(entities') = n + 1
      /\ entities'[n + 1] = h
      /\ \A d \in 1..n : entities'[d] = entities[d]
  BY <1>1, <1>2, <1>4
<1>6. /\ reuses' \in Seq(Nat) /\ Len(reuses') = n + 1 /\ reuses'[n + 1] = 0
      /\ \A k \in 1..n : reuses'[k] = reuses[k]
  BY <1>1, <1>2
<1>7. \A i \in Nat : i \in Ids' <=> i \in Ids \/ i = n BY <1>2, <1>5 DEF Ids
<1>8. \A i \in Ids : i \in Nat /\ i + 1 \in 1..n BY <1>2 DEF Ids
<1>9. \A g \in given : g[1] \in Ids BY DEF EInv, GivenAged
<1>10. h \notin given BY <1>2, <1>9 DEF Ids
<1>11. EntityTypeOK'
  <2>1. partition' \in Nat /\ free_entities' \in Nat /\ successes' \in Nat
    BY <1>1, EntryTypes DEF EInv
  <2>2. given' \subseteq Nat \X Nat /\ live' \subseteq given'
    BY <1>1, <1>2 DEF EInv, EntityTypeOK
  <2> QED BY <1>3, <1>5, <1>6, <2>1, <2>2 DEF EntityTypeOK
<1>12. Lengths'
  <2>1. \A i \in Ids' : reuses'[i + 1] <= MaxReuses
    <3>1. \A i \in Ids : reuses'[i + 1] <= MaxReuses BY <1>6, <1>8 DEF EInv, Lengths
    <3> QED BY <1>2, <1>5, <1>6, <3>1, BoundsAssumption DEF Ids
  <2>2. Len(reuses') = Len(entities') /\ Len(entities') <= MaxEntities
    BY <1>1, <1>2, <1>5, <1>6, BoundsAssumption
  <2>3. Len(entity_pointers') >= Len(entities') BY <1>3, <1>5
  <2>4. partition' + free_entities' = Len(entities') BY <1>1, <1>2, <1>5
  <2> QED BY <2>1, <2>2, <2>3, <2>4 DEF Lengths
<1>13. Placed'
  <2> SUFFICES ASSUME NEW d \in 1..n + 1
               PROVE  /\ entities'[d][1] \in Ids'
                      /\ entity_pointers'[entities'[d][1] + 1] = d - 1
                      /\ entities'[d][2] = reuses'[entities'[d][1] + 1] % Generations
    BY <1>5 DEF Placed
  <2>1. CASE d = n + 1
    BY <2>1, <1>2, <1>3, <1>4, <1>5, <1>6, <1>7
  <2>2. CASE d \in 1..n
    <3>1. /\ entities[d][1] \in Ids
          /\ entity_pointers[entities[d][1] + 1] = d - 1
          /\ entities[d][2] = reuses[entities[d][1] + 1] % Generations
      BY <2>2 DEF EInv, Placed
    <3>2. entities[d][1] \in Nat BY <2>2, EntryTypes DEF EInv
    <3>3. entities[d][1] + 1 \in 1..n BY <3>1, <1>8
    <3>4. entities'[d] = entities[d] BY <2>2, <1>5
    <3>5. entity_pointers'[entities[d][1] + 1] = d - 1 BY <3>1, <3>3, <1>3
    <3>6. reuses'[entities[d][1] + 1] = reuses[entities[d][1] + 1] BY <3>3, <1>6
    <3>7. entities[d][1] \in Ids' BY <3>1, <3>2, <1>7
    <3> QED BY <3>1, <3>4, <3>5, <3>6, <3>7
  <2> QED BY <2>1, <2>2, <1>2
<1>14. PointersInverse'
  <2> SUFFICES ASSUME NEW i \in Ids'
               PROVE  /\ entity_pointers'[i + 1] \in Ids'
                      /\ entities'[entity_pointers'[i + 1] + 1][1] = i
    BY DEF PointersInverse
  <2>1. i \in Nat BY <1>2, <1>5 DEF Ids
  <2>2. CASE i = n BY <2>1, <2>2, <1>3, <1>5, <1>7
  <2>3. CASE i \in Ids
    <3>1. /\ entity_pointers[i + 1] \in Ids
          /\ entities[entity_pointers[i + 1] + 1][1] = i
      BY <2>3 DEF EInv, PointersInverse
    <3>2. entity_pointers'[i + 1] = entity_pointers[i + 1] BY <2>3, <1>3, <1>8
    <3>3. entity_pointers[i + 1] \in Nat /\ entity_pointers[i + 1] + 1 \in 1..n
      BY <3>1, <1>8
    <3> QED BY <3>1, <3>2, <3>3, <1>5, <1>7
  <2> QED BY <2>1, <2>2, <2>3, <1>7
<1>15. LiveDense'
  <2> DEFINE NewHandle(d) == <<entities'[d][1], reuses'[entities'[d][1] + 1]>>
  <2>1. \A d \in 1..n : NewHandle(d) = HandleOf(entities[d])
    <3> TAKE d \in 1..n
    <3>1. entities[d][1] \in Ids BY DEF EInv, Placed
    <3>2. entities'[d] = entities[d] BY <1>5
    <3>3. reuses'[entities[d][1] + 1] = reuses[entities[d][1] + 1] BY <3>1, <1>6, <1>8
    <3> QED BY <3>2, <3>3 DEF HandleOf
  <2>2. NewHandle(n + 1) = h
    <3>1. entities'[n + 1][1] = n BY <1>5
    <3>2. reuses'[n + 1] = 0 BY <1>6
    <3> QED BY <3>1, <3>2
  <2>3. live = {HandleOf(entities[d]) : d \in 1..n} BY <1>2 DEF EInv, LiveDense
  <2>4. 1..partition' = (1..n) \cup {n + 1} BY <1>1, <1>2
  <2>5. {NewHandle(d) : d \in 1..partition'} = live \cup {h}
    <3> HIDE DEF h, n, NewHandle
    <3> QED BY <2>1, <2>2, <2>3, <2>4
  <2> QED BY <1>1, <2>5 DEF LiveDense, HandleOf
<1>16. GivenAged'
  <2> SUFFICES ASSUME NEW g \in given'
               PROVE  /\ g[1] \in Ids' /\ g[2] <= reuses'[g[1] + 1]
                      /\ g[2] = reuses'[g[1] + 1] => g \in live'
    BY DEF GivenAged
  <2>1. CASE g = h BY <2>1, <1>1, <1>2, <1>6, <1>7
  <2>2. CASE g \in given
    <3>1. /\ g[1] \in Ids /\ g[2] <= reuses[g[1] + 1]
          /\ g[2] = reuses[g[1] + 1] => g \in live
      BY <2>2 DEF EInv, GivenAged
    <3>2. g[1] \in Nat BY <2>2, EntryTypes DEF EInv
    <3> QED BY <3>1, <3>2, <1>1, <1>6, <1>7, <1>8
  <2> QED BY <2>1, <2>2, <1>1
<1> QED BY <1>10, <1>11, <1>12, <1>13, <1>14, <1>15, <1>16 DEF EInv

-----------------------------------------------------------------------------
(* spawn() of the first free entity.                                       *)
LEMMA SpawnReusedInv ==
    ASSUME EInv, SpawnReused
    PROVE  /\ EInv'
           /\ partition + 1 \in 1..Len(entities)
           /\ HandleOf(entities[partition + 1]) \notin given
<1> DEFINE n == Len(entities)
           p == partition + 1
           h == HandleOf(entities[p])
<1>1. /\ free_entities # 0 /\ free_entities' = free_entities - 1
      /\ given' = given \cup {h} /\ live' = live \cup {h}
      /\ successes' = successes + 1 /\ partition' = p
      /\ entities' = entities /\ entity_pointers' = entity_pointers /\ reuses' = reuses
  BY DEF SpawnReused, Give
<1>2. /\ n \in Nat /\ Len(reuses) = n /\ partition \in Nat /\ free_entities \in Nat
      /\ partition + free_entities = n
  BY EntryTypes DEF EInv, Lengths
<1>3. p \in 1..n BY <1>1, <1>2
<1>4. /\ h = <<entities[p][1], reuses[entities[p][1] + 1]>>
      /\ entities[p][1] \in Ids /\ entities[p][1] \in Nat
      /\ entity_pointers[entities[p][1] + 1] = p - 1
  BY <1>3, EntryTypes DEF EInv, Placed, HandleOf
<1>5. h \in Nat \X Nat
  <2>1. entities[p][1] + 1 \in 1..Len(reuses) BY <1>2, <1>4 DEF Ids
  <2> QED BY <2>1, <1>4, EntryTypes DEF EInv
<1>6. h \notin given
  <2> SUFFICES ASSUME h \in given PROVE FALSE OBVIOUS
  <2>1. h \in live BY <1>4 DEF EInv, GivenAged
  <2>2. entity_pointers[h[1] + 1] + 1 \in 1..partition BY <2>1, LivingPlace
  <2>3. h[1] = entities[p][1] BY <1>4
  <2> QED BY <2>2, <2>3, <1>2, <1>4
<1>7. EntityTypeOK'
  <2>1. partition' \in Nat /\ free_entities' \in Nat /\ successes' \in Nat
    BY <1>1, <1>2, EntryTypes DEF EInv
  <2>2. given' \subseteq Nat \X Nat /\ live' \subseteq given'
    BY <1>1, <1>5 DEF EInv, EntityTypeOK
  <2> QED BY <1>1, <2>1, <2>2 DEF EInv, EntityTypeOK
<1>8. Lengths'
  <2>1. partition' + free_entities' = n BY <1>1, <1>2
  <2>2. /\ n <= MaxEntities /\ Len(entity_pointers) >= n
        /\ \A i \in Ids : reuses[i + 1] <= MaxReuses
    BY DEF EInv, Lengths
  <2> QED BY <1>1, <1>2, <2>1, <2>2 DEF Lengths, Ids
<1>9. Placed' /\ PointersInverse'
  BY <1>1 DEF EInv, Placed, PointersInverse, Ids
<1>10. LiveDense'
  <2>1. live = {HandleOf(entities[d]) : d \in 1..partition} BY DEF EInv, LiveDense
  <2>2. 1..partition' = (1..partition) \cup {p} BY <1>1, <1>2
  <2>3. {HandleOf(entities[d]) : d \in 1..partition'} = live \cup {h} BY <2>1, <2>2
  <2> QED BY <1>1, <2>3 DEF LiveDense, HandleOf
<1>11. GivenAged'
  <2>1. h[1] \in Ids /\ h[2] = reuses[h[1] + 1] BY <1>4
  <2>2. h[2] \in Nat BY <1>5
  <2>3. \A g \in given' : g \in given \/ g = h BY <1>1
  <2> QED BY <1>1, <2>1, <2>2, <2>3 DEF EInv, GivenAged, Ids
<1> QED BY <1>3, <1>6, <1>7, <1>8, <1>9, <1>10, <1>11 DEF EInv

-----------------------------------------------------------------------------
(* despawn().                                                              *)

\* Where the despawned handle h is, and what its entity is: place d of the
\* dense vector, at or below the last living place p.
LEMMA DespawnPlace ==
    ASSUME EInv, NEW h \in given, ~Expired(h), Accepts(h)
    PROVE  /\ h \in live /\ h[1] \in Ids /\ h[1] \in Nat
           /\ h[1] + 1 \in 1..Len(reuses) /\ h[1] + 1 \in 1..Len(entity_pointers)
           /\ h[2] = reuses[h[1] + 1]
           /\ entity_pointers[h[1] + 1] + 1 \in 1..partition
           /\ partition \in 1..Len(entities)
           /\ entities[entity_pointers[h[1] + 1] + 1] = Key(h)
           /\ Key(h)[1] = h[1] /\ Key(h)[2] = reuses[h[1] + 1] % Generations
<1>1. h \in live BY AcceptsLiving DEF StaleRefused
<1>2. /\ h[1] \in Ids /\ h[2] = reuses[h[1] + 1]
      /\ entity_pointers[h[1] + 1] + 1 \in 1..partition
  BY <1>1, LivingPlace
<1>3. /\ Len(reuses) = Len(entities) /\ Len(entities) \in Nat
      /\ Len(entity_pointers) \in Nat /\ Len(entity_pointers) >= Len(entities)
      /\ partition \in Nat /\ partition <= Len(entities)
  BY EntryTypes DEF EInv, Lengths
<1>4. h[1] \in Nat BY EntryTypes DEF EInv
<1> QED BY <1>1, <1>2, <1>3, <1>4 DEF Ids, Accepts, Key

\* What swapping two pointers does.
LEMMA SwapPointers ==
    ASSUME entity_pointers \in Seq(Nat),
           NEW x \in 1..Len(entity_pointers), NEW y \in 1..Len(entity_pointers),
           entity_pointers' = Swap(entity_pointers, x, y)
    PROVE  /\ entity_pointers' \in Seq(Nat)
           /\ Len(entity_pointers') = Len(entity_pointers)
           /\ entity_pointers'[x] = entity_pointers[y]
           /\ entity_pointers'[y] = entity_pointers[x]
           /\ \A k \in 1..Len(entity_pointers) :
                 k # x /\ k # y => entity_pointers'[k] = entity_pointers[k]
BY DEF Swap

\* What swapping two entries of the dense vector does, once one has aged.
LEMMA SwapEntries ==
    ASSUME NEW aged \in Seq(Nat \X (0..Generations - 1)),
           NEW x \in 1..Len(aged), NEW y \in 1..Len(aged),
           entities' = Swap(aged, x, y)
    PROVE  /\ entities' \in Seq(Nat \X (0..Generations - 1))
           /\ Len(entities') = Len(aged)
           /\ entities'[x] = aged[y]
           /\ entities'[y] = aged[x]
           /\ \A k \in 1..Len(aged) : k # x /\ k # y => entities'[k] = aged[k]
BY SMTT(30) DEF Swap

\* What the swap leaves behind, for the entity of index i, d and p as above,
\* and j the index of the entity that had the last living place.
LEMMA SwappedOut ==
    ASSUME EInv,
           NEW e \in Nat \X (0..Generations - 1),
           NEW p \in 1..Len(entities), NEW d \in 1..p,
           entities[d] = e,
           e[1] + 1 \in 1..Len(entity_pointers),
           entities[p][1] + 1 \in 1..Len(entity_pointers),
           entity_pointers[e[1] + 1] = d - 1,
           entity_pointers[entities[p][1] + 1] = p - 1,
           SwapOut(e, d - 1, p - 1)
    PROVE  /\ entities' \in Seq(Nat \X (0..Generations - 1))
           /\ Len(entities') = Len(entities)
           /\ entities'[p] = Increment(e)
           /\ d # p => entities'[d] = entities[p]
           /\ \A k \in 1..Len(entities) : k # d /\ k # p => entities'[k] = entities[k]
           /\ entity_pointers' \in Seq(Nat)
           /\ Len(entity_pointers') = Len(entity_pointers)
           /\ entity_pointers'[e[1] + 1] = p - 1
           /\ d # p => entity_pointers'[entities[p][1] + 1] = d - 1
           /\ \A k \in 1..Len(entity_pointers) :
                 k # e[1] + 1 /\ k # entities[p][1] + 1 => entity_pointers'[k] = entity_pointers[k]
<1> DEFINE S == Nat \X (0..Generations - 1)
           aged == [entities EXCEPT ![d] = Increment(e)]
<1>1. /\ entities \in Seq(S) /\ entity_pointers \in Seq(Nat) /\ Len(entities) \in Nat
      /\ d \in 1..Len(entities) /\ d - 1 \in Nat /\ p - 1 \in Nat
      /\ (d - 1) + 1 = d /\ (p - 1) + 1 = p
  <2>1. entities \in Seq(S) /\ entity_pointers \in Seq(Nat) BY DEF EInv, EntityTypeOK
  <2>2. Len(entities) \in Nat BY EntryTypes DEF EInv
  <2>3. p \in Nat /\ p - 1 \in Nat /\ (p - 1) + 1 = p BY <2>2
  <2>4. d \in Nat /\ d - 1 \in Nat /\ (d - 1) + 1 = d BY <2>3
  <2>5. d \in 1..Len(entities) BY <2>2, <2>3
  <2> QED BY <2>1, <2>2, <2>3, <2>4, <2>5
<1>2. Increment(e) \in S
  <2>1. e[2] + 1 \in Nat BY GenerationsAssumption
  <2>2. (e[2] + 1) % Generations \in 0..Generations - 1
    BY <2>1, Division, GenerationsAssumption
  <2> QED BY <2>2 DEF Increment
<1>3. /\ aged \in Seq(S) /\ Len(aged) = Len(entities) /\ aged[d] = Increment(e)
      /\ \A k \in 1..Len(entities) : k # d => aged[k] = entities[k]
  BY <1>1, <1>2
<1>4. IF d - 1 # p - 1
      THEN /\ entity_pointers' = Swap(entity_pointers, e[1] + 1, aged[p][1] + 1)
           /\ entities' = Swap(aged, d, p)
      ELSE entities' = aged /\ entity_pointers' = entity_pointers
  BY <1>1 DEF SwapOut
<1> HIDE DEF aged, S
<1>5. CASE d # p
  <2>1. aged[p] = entities[p] BY <1>3, <1>5
  <2>2. /\ entity_pointers' = Swap(entity_pointers, e[1] + 1, entities[p][1] + 1)
        /\ entities' = Swap(aged, d, p)
    BY <1>1, <1>4, <1>5, <2>1
  <2>3. /\ entities' \in Seq(S) /\ Len(entities') = Len(entities)
        /\ entities'[p] = Increment(e) /\ entities'[d] = entities[p]
        /\ \A k \in 1..Len(entities) : k # d /\ k # p => entities'[k] = entities[k]
    <3>1. d \in 1..Len(aged) /\ p \in 1..Len(aged) BY <1>1, <1>3
    <3>2. aged \in Seq(S) /\ entities' = Swap(aged, d, p) BY <1>3, <2>2
    <3>3. /\ entities' \in Seq(S) /\ Len(entities') = Len(aged)
          /\ entities'[d] = aged[p] /\ entities'[p] = aged[d]
          /\ \A k \in 1..Len(aged) : k # d /\ k # p => entities'[k] = aged[k]
      BY <3>1, <3>2, SwapEntries DEF S
    <3> QED BY <1>3, <2>1, <3>3
  <2>4. /\ entity_pointers' \in Seq(Nat) /\ Len(entity_pointers') = Len(entity_pointers)
        /\ entity_pointers'[e[1] + 1] = p - 1
        /\ entity_pointers'[entities[p][1] + 1] = d - 1
        /\ \A k \in 1..Len(entity_pointers) :
              k # e[1] + 1 /\ k # entities[p][1] + 1 => entity_pointers'[k] = entity_pointers[k]
    <3>1. entity_pointers \in Seq(Nat) BY <1>1
    <3>2. /\ entity_pointers' \in Seq(Nat)
          /\ Len(entity_pointers') = Len(entity_pointers)
          /\ entity_pointers'[e[1] + 1] = entity_pointers[entities[p][1] + 1]
          /\ entity_pointers'[entities[p][1] + 1] = entity_pointers[e[1] + 1]
          /\ \A k \in 1..Len(entity_pointers) :
                k # e[1] + 1 /\ k # entities[p][1] + 1 => entity_pointers'[k] = entity_pointers[k]
      BY <2>2, <3>1, SwapPointers
    <3> QED BY <3>2
  <2> QED BY <1>5, <2>3, <2>4 DEF S
<1>6. CASE d = p
  <2>1. entities' = aged /\ entity_pointers' = entity_pointers BY <1>1, <1>4, <1>6
  <2> QED BY <1>1, <1>3, <1>6, <2>1 DEF S
<1> QED BY <1>5, <1>6

LEMMA DespawnInv ==
    ASSUME EInv, NEW h \in given, ~Expired(h), Despawn(h)
    PROVE  EInv' /\ h \in live
<1> DEFINE n == Len(entities)
           i == h[1]
<1>0. /\ Accepts(h)
      /\ SwapOut(Key(h), entity_pointers[i + 1], partition - 1)
      /\ partition' = partition - 1
  BY DEF Despawn
<1>p. PICK p \in 1..Len(entities) : p = partition BY <1>0, DespawnPlace
<1>d. PICK d \in 1..p : d = entity_pointers[i + 1] + 1 BY <1>0, <1>p, DespawnPlace
<1> DEFINE j == entities[p][1]
<1>1. /\ Accepts(h) /\ reuses[i + 1] < MaxReuses
      /\ SwapOut(Key(h), entity_pointers[i + 1], p - 1)
      /\ partition' = p - 1 /\ free_entities' = free_entities + 1
      /\ reuses' = [reuses EXCEPT ![i + 1] = reuses[i + 1] + 1]
      /\ live' = live \ {h} /\ successes' = successes + 1 /\ given' = given
  BY <1>p DEF Despawn
<1>2. /\ h \in live /\ i \in Ids /\ i \in Nat
      /\ i + 1 \in 1..Len(reuses) /\ i + 1 \in 1..Len(entity_pointers)
      /\ h[2] = reuses[i + 1]
      /\ d \in 1..p /\ p \in 1..n
      /\ entities[d] = Key(h) /\ Key(h)[1] = i /\ Key(h)[2] = reuses[i + 1] % Generations
  BY <1>1, <1>d, DespawnPlace
<1>3. /\ n \in Nat /\ Len(reuses) = n /\ Len(entity_pointers) \in Nat
      /\ Len(entity_pointers) >= n /\ free_entities \in Nat /\ p + free_entities = n
      /\ n <= MaxEntities
      /\ reuses \in Seq(Nat) /\ reuses[i + 1] \in Nat
      /\ \A k \in Ids : reuses[k + 1] <= MaxReuses
  <2>1. reuses[i + 1] \in Nat BY <1>2, EntryTypes DEF EInv
  <2> QED BY <2>1, <1>p, EntryTypes DEF EInv, EntityTypeOK, Lengths
<1>4. \A k \in Ids : k \in Nat /\ k + 1 \in 1..n /\ k + 1 \in 1..Len(entity_pointers)
  BY <1>3 DEF Ids
<1>5. \A k \in 1..n :
         /\ entities[k] \in Nat \X (0..Generations - 1)
         /\ entities[k][1] \in Ids
         /\ entity_pointers[entities[k][1] + 1] = k - 1
         /\ entities[k][2] = reuses[entities[k][1] + 1] % Generations
  <2>1. \A k \in 1..Len(entities) : entities[k] \in Nat \X (0..Generations - 1)
    BY DEF EInv, EntityTypeOK
  <2>2. Placed BY DEF EInv
  <2> QED BY <2>1, <2>2 DEF Placed
<1>6. d \in 1..n /\ entity_pointers[i + 1] = d - 1
  <2>1. entity_pointers[i + 1] \in Nat BY <1>2, EntryTypes DEF EInv
  <2>2. entity_pointers[i + 1] = d - 1 BY <2>1, <1>d
  <2>3. d \in 1..p /\ p \in 1..n /\ n \in Nat BY <1>2, <1>3
  <2> HIDE DEF n
  <2>4. d \in 1..n BY <2>3
  <2> QED BY <2>2, <2>4
<1>7. j \in Ids /\ entity_pointers[j + 1] = p - 1 /\ j + 1 \in 1..Len(entity_pointers)
  BY <1>2, <1>4, <1>5
<1> HIDE DEF i, j, n
<1>8. /\ entities' \in Seq(Nat \X (0..Generations - 1)) /\ Len(entities') = n
      /\ entities'[p] = Increment(Key(h))
      /\ d # p => entities'[d] = entities[p]
      /\ \A k \in 1..n : k # d /\ k # p => entities'[k] = entities[k]
      /\ entity_pointers' \in Seq(Nat) /\ Len(entity_pointers') = Len(entity_pointers)
      /\ entity_pointers'[i + 1] = p - 1
      /\ d # p => entity_pointers'[j + 1] = d - 1
      /\ \A k \in 1..Len(entity_pointers) :
            k # i + 1 /\ k # j + 1 => entity_pointers'[k] = entity_pointers[k]
  <2> DEFINE e == Key(h)
  <2>1. e \in Nat \X (0..Generations - 1) BY <1>2, <1>5, <1>6
  <2>2. SwapOut(e, d - 1, p - 1) BY <1>1, <1>6
  <2>3. p \in 1..Len(entities) BY <1>2 DEF n
  <2>4. entities[p][1] + 1 \in 1..Len(entity_pointers)
        /\ entity_pointers[entities[p][1] + 1] = p - 1
    BY <1>7 DEF j
  <2>5. e[1] + 1 \in 1..Len(entity_pointers) /\ entity_pointers[e[1] + 1] = d - 1
    BY <1>2, <1>6
  <2>6. d \in 1..p /\ entities[d] = e /\ e = Key(h) BY <1>2
  <2> HIDE DEF e
  <2>7. /\ entities' \in Seq(Nat \X (0..Generations - 1))
        /\ Len(entities') = Len(entities)
        /\ entities'[p] = Increment(e)
        /\ d # p => entities'[d] = entities[p]
        /\ \A k \in 1..Len(entities) : k # d /\ k # p => entities'[k] = entities[k]
        /\ entity_pointers' \in Seq(Nat)
        /\ Len(entity_pointers') = Len(entity_pointers)
        /\ entity_pointers'[e[1] + 1] = p - 1
        /\ d # p => entity_pointers'[entities[p][1] + 1] = d - 1
        /\ \A k \in 1..Len(entity_pointers) :
              k # e[1] + 1 /\ k # entities[p][1] + 1 => entity_pointers'[k] = entity_pointers[k]
    BY <2>1, <2>2, <2>3, <2>4, <2>5, <2>6, SwappedOut, ZenonT(60)
  <2>8. e[1] = i BY <1>2, <2>6
  <2> QED BY <2>6, <2>7, <2>8 DEF n, j
<1>9. entities'[p][1] = i /\ entities'[p][2] = (reuses[i + 1] + 1) % Generations
  <2>1. entities'[p] = <<Key(h)[1], (Key(h)[2] + 1) % Generations>> BY <1>8 DEF Increment
  <2>2. ((reuses[i + 1] % Generations) + 1) % Generations = (reuses[i + 1] + 1) % Generations
    BY <1>3, NextGeneration, GenerationsAssumption
  <2> QED BY <2>1, <2>2, <1>2
<1>10. /\ reuses' \in Seq(Nat) /\ Len(reuses') = n /\ reuses'[i + 1] = reuses[i + 1] + 1
       /\ \A k \in Ids : k # i => reuses'[k + 1] = reuses[k + 1]
  <2>1. reuses[i + 1] + 1 \in Nat BY <1>3
  <2>2. /\ reuses' \in Seq(Nat) /\ Len(reuses') = n
        /\ reuses'[i + 1] = reuses[i + 1] + 1
        /\ \A k \in 1..n : k # i + 1 => reuses'[k] = reuses[k]
    BY <1>1, <1>2, <1>3, <2>1
  <2>3. \A k \in Ids : k # i => reuses'[k + 1] = reuses[k + 1]
    <3> SUFFICES ASSUME NEW k \in Ids, k # i
                 PROVE  reuses'[k + 1] = reuses[k + 1]
      OBVIOUS
    <3>1. k \in Nat /\ i \in Nat /\ k + 1 \in 1..n BY <1>2, <1>4
    <3>2. k + 1 # i + 1 BY <3>1
    <3> QED BY <2>2, <3>1, <3>2
  <2> QED BY <2>2, <2>3
<1>11. Ids' = Ids BY <1>8 DEF Ids, n
<1>12. \A k \in 1..n : k # d => entities[k][1] # i
  <2> TAKE k \in 1..n
  <2>1. entity_pointers[entities[k][1] + 1] = k - 1 BY <1>5
  <2>2. d \in Int BY <1>3, <1>6
  <2>3. entity_pointers[i + 1] = d - 1 BY <1>6
  <2> QED BY <2>1, <2>2, <2>3
<1>13. \A k \in 1..n : k # p => entities[k][1] # j
  <2> TAKE k \in 1..n
  <2>1. entity_pointers[entities[k][1] + 1] = k - 1 BY <1>5
  <2>2. p \in Int BY <1>2, <1>3
  <2>3. entity_pointers[j + 1] = p - 1 BY <1>7
  <2> QED BY <2>1, <2>2, <2>3
<1>14. entities[d][1] = i /\ entities[p][1] = j BY <1>2 DEF j
<1>15. EntityTypeOK'
  <2>1. partition' \in Nat /\ free_entities' \in Nat
    <3>1. partition' = p - 1 /\ free_entities' = free_entities + 1 BY <1>1
    <3>2. p - 1 \in Nat /\ free_entities + 1 \in Nat BY <1>3
    <3> QED BY <3>1, <3>2
  <2>3. successes' \in Nat BY <1>1, EntryTypes DEF EInv
  <2>2. given' \subseteq Nat \X Nat /\ live' \subseteq given'
    BY <1>1 DEF EInv, EntityTypeOK
  <2> QED BY <1>8, <1>10, <2>1, <2>2, <2>3 DEF EntityTypeOK
<1>16. Lengths'
  <2>1. partition' + free_entities' = n BY <1>1, <1>2, <1>3
  <2>2. \A k \in Ids : reuses'[k + 1] <= MaxReuses
    <3> TAKE k \in Ids
    <3>1. CASE k = i BY <1>1, <1>3, <1>10, <3>1, BoundsAssumption
    <3>2. CASE k # i BY <1>3, <1>10, <3>2
    <3> QED BY <3>1, <3>2
  <2> QED BY <1>3, <1>8, <1>10, <1>11, <2>1, <2>2 DEF Lengths
<1>17. Placed'
  <2> SUFFICES ASSUME NEW k \in 1..n
               PROVE  /\ entities'[k][1] \in Ids
                      /\ entity_pointers'[entities'[k][1] + 1] = k - 1
                      /\ entities'[k][2] = reuses'[entities'[k][1] + 1] % Generations
    BY <1>8, <1>11 DEF Placed
  <2>1. CASE k = p BY <2>1, <1>2, <1>8, <1>9, <1>10
  <2>2. CASE k = d /\ d # p
    <3>1. entities'[k] = entities[p] BY <2>2, <1>8
    <3>2. j # i BY <2>2, <1>6, <1>12, <1>14, <1>2
    <3>3. reuses'[j + 1] = reuses[j + 1] BY <3>2, <1>7, <1>10
    <3>4. entities[p][2] = reuses[j + 1] % Generations BY <1>2, <1>5, <1>14
    <3> QED BY <2>2, <3>1, <3>3, <3>4, <1>7, <1>8, <1>14
  <2>3. CASE k # d /\ k # p
    <3>1. entities'[k] = entities[k] BY <2>3, <1>8
    <3>2. entities[k][1] # i /\ entities[k][1] # j BY <2>3, <1>12, <1>13
    <3>3. entities[k][1] \in Ids BY <1>5
    <3>4. entities[k][1] + 1 # i + 1 /\ entities[k][1] + 1 # j + 1
          /\ entities[k][1] + 1 \in 1..Len(entity_pointers)
      <4>1. entities[k][1] \in Nat /\ i \in Nat /\ j \in Nat BY <3>3, <1>2, <1>4, <1>7
      <4>2. entities[k][1] + 1 \in 1..Len(entity_pointers) BY <3>3, <1>4
      <4> QED BY <3>2, <4>1, <4>2, SMTT(30)
    <3>5. entity_pointers'[entities[k][1] + 1] = k - 1 BY <3>4, <1>5, <1>8
    <3>6. reuses'[entities[k][1] + 1] = reuses[entities[k][1] + 1] BY <3>2, <3>3, <1>10
    <3> QED BY <3>1, <3>3, <3>5, <3>6, <1>5
  <2> QED BY <2>1, <2>2, <2>3
<1>18. PointersInverse'
  <2> SUFFICES ASSUME NEW m \in Ids
               PROVE  /\ entity_pointers'[m + 1] \in Ids
                      /\ entities'[entity_pointers'[m + 1] + 1][1] = m
    BY <1>11 DEF PointersInverse
  <2>1. \A k \in 1..n : k - 1 \in Ids /\ (k - 1) + 1 = k BY <1>3 DEF Ids, n
  <2>2. CASE m = i BY <2>1, <2>2, <1>2, <1>8, <1>9
  <2>3. CASE m = j /\ m # i
    <3>1. d # p BY <2>3, <1>14
    <3> QED BY <2>1, <2>3, <3>1, <1>6, <1>8, <1>14
  <2>4. CASE m # i /\ m # j
    <3>1. /\ entity_pointers[m + 1] \in Ids
          /\ entities[entity_pointers[m + 1] + 1][1] = m
      BY DEF EInv, PointersInverse
    <3>2. m + 1 # i + 1 /\ m + 1 # j + 1 /\ m + 1 \in 1..Len(entity_pointers)
      BY <2>4, <1>2, <1>4, <1>7, SMTT(30)
    <3>3. entity_pointers'[m + 1] = entity_pointers[m + 1] BY <3>2, <1>8
    <3>4. entity_pointers[m + 1] + 1 \in 1..n BY <3>1, <1>4
    <3>5. entity_pointers[m + 1] + 1 # d /\ entity_pointers[m + 1] + 1 # p
      BY <2>4, <3>1, <1>14
    <3> QED BY <3>1, <3>3, <3>4, <3>5, <1>8
  <2> QED BY <2>2, <2>3, <2>4
<1>19. LiveDense'
  <2> DEFINE NewHandle(k) == <<entities'[k][1], reuses'[entities'[k][1] + 1]>>
             From(k) == IF k = d THEN p ELSE k
  <2>1. \A k \in 1..p - 1 : /\ From(k) \in 1..p /\ From(k) # d
                            /\ NewHandle(k) = HandleOf(entities[From(k)])
    <3> TAKE k \in 1..p - 1
    <3>1. k \in 1..n /\ k # p /\ From(k) \in 1..p /\ From(k) # d /\ From(k) \in 1..n
      BY <1>2, <1>3
    <3>2. entities'[k] = entities[From(k)] BY <3>1, <1>8
    <3>3. entities[From(k)][1] \in Ids /\ entities[From(k)][1] # i BY <3>1, <1>5, <1>12
    <3>4. reuses'[entities[From(k)][1] + 1] = reuses[entities[From(k)][1] + 1] BY <3>3, <1>10
    <3> HIDE DEF From
    <3> QED BY <3>1, <3>2, <3>4 DEF HandleOf
  <2>2. \A k \in 1..p : k # d => \E l \in 1..p - 1 : From(l) = k
    <3> TAKE k \in 1..p
    <3> SUFFICES ASSUME k # d PROVE \E l \in 1..p - 1 : From(l) = k OBVIOUS
    <3>1. CASE k = p
      <4>1. d \in 1..p - 1 /\ From(d) = k BY <3>1, <1>2, <1>3
      <4> QED BY <4>1
    <3>2. CASE k # p
      <4>1. k \in 1..p - 1 /\ From(k) = k BY <3>2, <1>2, <1>3
      <4> QED BY <4>1
    <3> QED BY <3>1, <3>2
  <2>3. HandleOf(entities[d]) = h
    BY <1>2, <1>14, EntryTypes DEF HandleOf, EInv, i
  <2>4. \A k \in 1..p : k # d => HandleOf(entities[k]) # h
    <3> TAKE k \in 1..p
    <3>1. k \in 1..n BY <1>2, <1>3
    <3>2. HandleOf(entities[k])[1] = entities[k][1] BY DEF HandleOf
    <3> QED BY <3>1, <3>2, <1>12 DEF i
  <2>5. live = {HandleOf(entities[k]) : k \in 1..p} BY <1>p DEF EInv, LiveDense
  <2>6. {NewHandle(k) : k \in 1..p - 1} = live \ {h}
    <3> HIDE DEF NewHandle, From
    <3>1. {NewHandle(k) : k \in 1..p - 1} \subseteq live \ {h} BY <2>1, <2>4, <2>5
    <3>2. \A g \in live \ {h} : \E k \in 1..p : k # d /\ g = HandleOf(entities[k])
      BY <2>3, <2>5
    <3>3. \A g \in live \ {h} : \E l \in 1..p - 1 : g = NewHandle(l)
      BY <3>2, <2>1, <2>2
    <3> QED BY <3>1, <3>3
  <2>7. live' = {NewHandle(k) : k \in 1..partition'} BY <1>1, <2>6
  <2> QED BY <2>7 DEF LiveDense, HandleOf
<1>20. GivenAged'
  <2> SUFFICES ASSUME NEW g \in given
               PROVE  /\ g[1] \in Ids /\ g[2] <= reuses'[g[1] + 1]
                      /\ g[2] = reuses'[g[1] + 1] => g \in live'
    BY <1>1, <1>11 DEF GivenAged
  <2>1. /\ g[1] \in Ids /\ g[2] <= reuses[g[1] + 1] /\ g[2] \in Nat
        /\ g[2] = reuses[g[1] + 1] => g \in live
    BY EntryTypes DEF EInv, GivenAged
  <2>2. CASE g[1] = i BY <2>1, <2>2, <1>3, <1>10
  <2>3. CASE g[1] # i
    <3>1. g # h BY <2>3 DEF i
    <3> QED BY <2>1, <2>3, <3>1, <1>1, <1>10
  <2> QED BY <2>2, <2>3
<1> QED BY <1>2, <1>15, <1>16, <1>17, <1>18, <1>19, <1>20 DEF EInv

-----------------------------------------------------------------------------
(* The invariant, and what follows from it.                                *)

LEMMA EInvNext ==
    ASSUME EInv, [EntityNext]_entityVars
    PROVE  EInv'
<1>1. CASE SpawnNew BY <1>1, SpawnNewInv
<1>2. CASE SpawnReused BY <1>2, SpawnReusedInv
<1>3. CASE \E h \in given : ~Expired(h) /\ Despawn(h) BY <1>3, DespawnInv
<1>4. CASE UNCHANGED entityVars
  BY <1>4 DEF EInv, entityVars, EntityTypeOK, Lengths, Placed, PointersInverse,
              LiveDense, GivenAged, HandleOf, Ids
<1> QED BY <1>1, <1>2, <1>3, <1>4 DEF EntityNext

THEOREM EntityInvariant == EntitySpec => []EInv
BY EInvInit, EInvNext, PTL DEF EntitySpec

(* Type correctness of the entities.                                       *)
THEOREM EntityTypeCorrect == EntitySpec => []EntityTypeOK
BY EntityInvariant, PTL DEF EInv

(* The sparse vector leads from every index to its place in the dense one  *)
(* (ecs/mod.rs:193 and the swaps of lines 203 and 204).                    *)
THEOREM SparseIsInverse == EntitySpec => []PointersInverse
BY EntityInvariant, PTL DEF EInv

(* despawn refuses a handle if and only if it has been despawned           *)
(* (ecs/mod.rs:194), for every number of generations.                      *)
THEOREM StaleHandlesRefused == EntitySpec => []StaleRefused
BY EntityInvariant, AcceptsLiving, PTL

\* The living entities are as many as the places below the partition.
LEMMA PartitionCounts == ASSUME EInv PROVE PartitionSound
<1> DEFINE f == [d \in 1..partition |-> HandleOf(entities[d])]
<1>1. /\ partition \in Nat /\ partition + free_entities = Len(entities)
      /\ \A d \in 1..partition : d \in 1..Len(entities)
  BY EntryTypes DEF EInv, Lengths
<1>2. live = {HandleOf(entities[d]) : d \in 1..partition} BY DEF EInv, LiveDense
<1>3. \A a, b \in 1..partition : f[a] = f[b] => a = b
  <2> TAKE a, b \in 1..partition
  <2> HAVE f[a] = f[b]
  <2>1. entities[a][1] = entities[b][1]
    <3>1. f[a][1] = entities[a][1] /\ f[b][1] = entities[b][1] BY DEF HandleOf
    <3> QED BY <3>1
  <2>2. entity_pointers[entities[a][1] + 1] = a - 1 /\ entity_pointers[entities[b][1] + 1] = b - 1
    BY <1>1 DEF EInv, Placed
  <2> QED BY <1>1, <2>1, <2>2
<1>4. f \in [1..partition -> live] BY <1>2
<1>5. \A g \in live : \E d \in 1..partition : f[d] = g BY <1>2
<1>6. ExistsBijection(1..partition, live)
  <2> HIDE DEF f
  <2>1. f \in Bijection(1..partition, live)
    BY <1>3, <1>4, <1>5 DEF Bijection, Injection, Surjection, IsInjective
  <2> QED BY <2>1 DEF ExistsBijection
<1>7. Cardinality(live) = partition BY <1>1, <1>6, FS_CountingElements
<1> QED BY <1>1, <1>2, <1>7 DEF PartitionSound

(* The entries below the partition are the living entities, one each       *)
(* (ecs/mod.rs:197 to 205).                                                *)
THEOREM PartitionIsLiving == EntitySpec => []PartitionSound
BY EntityInvariant, PartitionCounts, PTL

-----------------------------------------------------------------------------
(* The implementation of EntityHandles.                                    *)

LEMMA EntityStepInit == ASSUME EntityInit PROVE HandlesOf!HandlesInit
BY DEF EntityInit, HandlesOf!HandlesInit

LEMMA EntityStepNext ==
    ASSUME EInv, EInv', [EntityNext]_entityVars
    PROVE  [HandlesOf!HandlesNext]_HandlesOf!handleVars
<1> DEFINE Handles == (0..MaxEntities - 1) \X (0..MaxReuses)
<1>1. CASE SpawnNew
  <2>1. <<Len(entities), 0>> \notin given BY <1>1, SpawnNewInv
  <2>2. <<Len(entities), 0>> \in Handles
    BY <1>1, EntryTypes, BoundsAssumption DEF SpawnNew, EInv
  <2>3. HandlesOf!Give(<<Len(entities), 0>>)
    BY <1>1, <2>1 DEF SpawnNew, Give, HandlesOf!Give
  <2> QED BY <2>2, <2>3 DEF HandlesOf!HandlesNext
<1>2. CASE SpawnReused
  <2> DEFINE e == entities[partition + 1]
  <2>1. partition + 1 \in 1..Len(entities) /\ HandleOf(e) \notin given
    BY <1>2, SpawnReusedInv
  <2>2. /\ e[1] \in Ids /\ reuses[e[1] + 1] <= MaxReuses
        /\ Len(entities) \in Nat /\ Len(entities) <= MaxEntities
        /\ Len(reuses) = Len(entities)
        /\ \A i \in 1..Len(reuses) : reuses[i] \in Nat
    BY <2>1, EntryTypes DEF EInv, Lengths, Placed
  <2>3. HandleOf(e) \in Handles
    <3> HIDE DEF e
    <3> QED BY <2>2, BoundsAssumption DEF HandleOf, Ids
  <2>4. HandlesOf!Give(HandleOf(e))
    BY <1>2, <2>1 DEF SpawnReused, Give, HandlesOf!Give
  <2> QED BY <2>3, <2>4 DEF HandlesOf!HandlesNext
<1>3. CASE \E h \in given : ~Expired(h) /\ Despawn(h)
  <2>1. PICK h \in given : ~Expired(h) /\ Despawn(h) BY <1>3
  <2>2. h \in live BY <2>1, DespawnInv
  <2>3. /\ h[1] \in Ids /\ reuses[h[1] + 1] <= MaxReuses
        /\ h[2] = reuses[h[1] + 1]
        /\ Len(entities) \in Nat /\ Len(entities) <= MaxEntities
        /\ h = <<h[1], h[2]>> /\ h[2] \in Nat
    BY <2>2, LivingPlace, EntryTypes DEF EInv, Lengths
  <2>4. h \in Handles
    <3>1. h[1] \in 0..MaxEntities - 1 BY <2>3, BoundsAssumption DEF Ids
    <3>2. h[2] \in 0..MaxReuses BY <2>3, BoundsAssumption
    <3> QED BY <2>3, <3>1, <3>2
  <2>5. HandlesOf!TakeBack(h)
    BY <2>1, <2>2 DEF Despawn, HandlesOf!TakeBack
  <2> QED BY <2>4, <2>5 DEF HandlesOf!HandlesNext
<1>4. CASE UNCHANGED entityVars
  BY <1>4 DEF entityVars, HandlesOf!handleVars
<1> QED BY <1>1, <1>2, <1>3, <1>4 DEF EntityNext

(* spawn never gives out a handle twice and despawn never takes one back   *)
(* twice: the entities implement EntityHandles.                            *)
THEOREM ImplementsEntityHandles == EntitySpec => EntityStep
<1>1. EntityInit => HandlesOf!HandlesInit BY EntityStepInit
<1>2. EInv /\ EInv' /\ [EntityNext]_entityVars => [HandlesOf!HandlesNext]_HandlesOf!handleVars
  BY EntityStepNext
<1> QED BY <1>1, <1>2, EntityInvariant, PTL DEF EntitySpec, EntityStep, HandlesOf!HandlesSpec

-----------------------------------------------------------------------------
(* The archetypes. *)

\* Ids are given out from zero on, one to each type.
IdsOK(ids) ==
    /\ DOMAIN ids \subseteq Types /\ IsFiniteSet(DOMAIN ids)
    /\ \A T \in DOMAIN ids : ids[T] \in 0..Cardinality(DOMAIN ids) - 1
    /\ \A T, U \in DOMAIN ids : ids[T] = ids[U] => T = U

\* The ids that new has more than old are higher than those of old.
Extends(old, new) ==
    /\ DOMAIN old \subseteq DOMAIN new
    /\ \A T \in DOMAIN old : new[T] = old[T]
    /\ \A T \in DOMAIN new \ DOMAIN old : new[T] >= Cardinality(DOMAIN old)

\* A set of ids that an archetype may be for.
BitsOK(bits, ids) == \E T, U \in DOMAIN ids : bits = {ids[T], ids[U]}

Handle == Nat \X Nat

\* Two columns of components of C.
Columns(C) == {data \in Seq(Seq(C)) : Len(data) = 2}

\* What is in an archetype, and where sparse leads to.
Shape(ents, sparse, data, bits, n) ==
    /\ ents \in Seq(Handle)
    /\ data \in Columns(Types \X (1..n))
    /\ sparse \in [bits -> {0, 1}]
    /\ \A x, y \in bits : sparse[x] = sparse[y] => x = y

\* The components of a type are in the column that sparse has for it, ...
Sorted(sparse, data, bits, ids) ==
    \A T \in DOMAIN ids : ids[T] \in bits =>
       \A r \in DOMAIN data[sparse[ids[T]] + 1] :
          data[sparse[ids[T]] + 1][r][1] = T

\* ... a row of it came with the entity of the row, if there are two types, ...
Rows(ents, sparse, data, bits, cs) ==
    \A x, y \in bits : x # y =>
       /\ Len(data[sparse[x] + 1]) = Len(ents)
       /\ \A r \in DOMAIN data[sparse[x] + 1] :
             cs[data[sparse[x] + 1][r][2]] = ents[r]

\* ... no column has a component of another type, ...
Typed(data, bits, ids) ==
    \A c \in 1..2 : \A r \in DOMAIN data[c] :
       data[c][r][1] \in DOMAIN ids /\ ids[data[c][r][1]] \in bits

\* ... and a call that has a component here has one of every type here.
Whole(data, bits, ids) ==
    \A c \in 1..2 : \A r \in DOMAIN data[c] :
       \A T \in DOMAIN ids : ids[T] \in bits =>
          \E d \in 1..2 : \E q \in DOMAIN data[d] :
             data[d][q] = <<T, data[c][r][2]>>

ArchetypeOK(arch, bits, ids, cs) ==
    /\ Shape(arch.entities, arch.sparse, arch.data, bits, Len(cs))
    /\ Sorted(arch.sparse, arch.data, bits, ids)
    /\ Rows(arch.entities, arch.sparse, arch.data, bits, cs)
    /\ Typed(arch.data, bits, ids)
    /\ Whole(arch.data, bits, ids)

Archetypes == [entities : Seq(Handle), sparse : UNION {[S -> {0, 1}] : S \in SUBSET Nat},
               data : Columns(Types \X Nat)]

WInv ==
    /\ IdsOK(component_ids)
    /\ calls \in Seq(Handle)
    /\ bitsets \in Seq(SUBSET Nat)
    /\ archetypes \in Seq(Archetypes)
    /\ Len(bitsets) = Len(archetypes)
    /\ \A i, j \in 1..Len(bitsets) : bitsets[i] = bitsets[j] => i = j
    /\ \A a \in 1..Len(bitsets) :
          /\ BitsOK(bitsets[a], component_ids)
          /\ ArchetypeOK(archetypes[a], bitsets[a], component_ids, calls)

-----------------------------------------------------------------------------
(* Component ids.                                                          *)

LEMMA RegisterOK ==
    ASSUME NEW ids, IdsOK(ids), NEW T \in Types
    PROVE  /\ IdsOK(Register(ids, T)) /\ T \in DOMAIN Register(ids, T)
           /\ Extends(ids, Register(ids, T))
<1>1. CASE T \in DOMAIN ids
  BY <1>1 DEF Register, Extends
<1>2. CASE T \notin DOMAIN ids
  <2> DEFINE n == Cardinality(DOMAIN ids)
             new == Register(ids, T)
  <2>1. n \in Nat BY FS_CardinalityType DEF IdsOK
  <2>2. /\ DOMAIN new = DOMAIN ids \cup {T}
        /\ \A U \in DOMAIN ids : new[U] = ids[U]
        /\ new[T] = n
    BY <1>2 DEF Register, GiveId
  <2>3. IsFiniteSet(DOMAIN new) /\ Cardinality(DOMAIN new) = n + 1
    BY <1>2, <2>2, FS_AddElement DEF IdsOK
  <2> HIDE DEF n, new
  <2>4. \A U \in DOMAIN ids : ids[U] \in Int /\ 0 <= ids[U] /\ ids[U] < n
    BY <2>1 DEF IdsOK, n
  <2>5. IdsOK(new)
    <3>1. \A U \in DOMAIN new : new[U] \in 0..Cardinality(DOMAIN new) - 1
      BY <2>1, <2>2, <2>3, <2>4
    <3>2. \A U, V \in DOMAIN new : new[U] = new[V] => U = V
      <4> SUFFICES ASSUME NEW U \in DOMAIN new, NEW V \in DOMAIN new, new[U] = new[V]
                   PROVE  U = V
        OBVIOUS
      <4>1. CASE U \in DOMAIN ids /\ V \in DOMAIN ids BY <4>1, <2>2 DEF IdsOK
      <4>2. CASE U = T \/ V = T BY <4>2, <2>1, <2>2, <2>4
      <4> QED BY <4>1, <4>2, <2>2
    <3> QED BY <2>2, <2>3, <3>1, <3>2 DEF IdsOK
  <2>6. Extends(ids, new)
    BY <2>1, <2>2 DEF Extends, n
  <2> QED BY <2>2, <2>5, <2>6 DEF new
<1> QED BY <1>1, <1>2

LEMMA ExtendsTransitive ==
    ASSUME NEW a, NEW b, NEW c, IdsOK(a), IdsOK(b), IdsOK(c), Extends(a, b), Extends(b, c)
    PROVE  Extends(a, c)
<1>1. Cardinality(DOMAIN a) \in Nat /\ Cardinality(DOMAIN b) \in Nat
      /\ Cardinality(DOMAIN a) <= Cardinality(DOMAIN b)
  BY FS_CardinalityType, FS_Subset DEF IdsOK, Extends
<1>2. \A T \in DOMAIN c : c[T] \in Int BY DEF IdsOK
<1> QED BY <1>1, <1>2 DEF Extends

\* The set of ids of an archetype names the same types as before.
LEMMA BitsKeep ==
    ASSUME NEW old, NEW new, IdsOK(old), IdsOK(new), Extends(old, new),
           NEW bits, BitsOK(bits, old)
    PROVE  /\ BitsOK(bits, new)
           /\ \A T \in DOMAIN new : new[T] \in bits => T \in DOMAIN old /\ old[T] \in bits
<1>1. PICK T \in DOMAIN old, U \in DOMAIN old : bits = {old[T], old[U]} BY DEF BitsOK
<1>2. new[T] = old[T] /\ new[U] = old[U] /\ T \in DOMAIN new /\ U \in DOMAIN new
  BY DEF Extends
<1>3. BitsOK(bits, new) BY <1>1, <1>2 DEF BitsOK
<1>4. \A V \in DOMAIN new : new[V] \in bits => V = T \/ V = U
  BY <1>1, <1>2 DEF IdsOK
<1> QED BY <1>1, <1>3, <1>4, <1>2

-----------------------------------------------------------------------------
(* One archetype.                                                          *)

LEMMA SeqMonotone ==
    ASSUME NEW A, NEW B, A \subseteq B, NEW q \in Seq(A)
    PROVE  q \in Seq(B)
OBVIOUS

LEMMA ColumnsMonotone ==
    ASSUME NEW A, NEW B, A \subseteq B
    PROVE  Columns(A) \subseteq Columns(B)
<1>1. Seq(A) \subseteq Seq(B) BY SeqMonotone
<1>2. Seq(Seq(A)) \subseteq Seq(Seq(B)) BY <1>1, SeqMonotone
<1> QED BY <1>2 DEF Columns

LEMMA AppendFacts ==
    ASSUME NEW A, NEW q \in Seq(A), NEW x \in A
    PROVE  /\ Append(q, x) \in Seq(A)
           /\ Len(Append(q, x)) = Len(q) + 1
           /\ DOMAIN q = 1..Len(q) /\ DOMAIN Append(q, x) = 1..Len(q) + 1
           /\ \A i \in 1..Len(q) : Append(q, x)[i] = q[i] /\ q[i] \in A
           /\ Append(q, x)[Len(q) + 1] = x
           /\ Len(q) \in Nat
OBVIOUS

LEMMA PairFacts ==
    ASSUME NEW B, NEW q \in Seq(B), Len(q) = 2
    PROVE  /\ DOMAIN q = 1..2
           /\ \A c \in 1..2 : q[c] \in B
           /\ \A c \in 1..2, y \in B :
                 /\ [q EXCEPT ![c] = y] \in Seq(B) /\ Len([q EXCEPT ![c] = y]) = 2
                 /\ [q EXCEPT ![c] = y][c] = y
                 /\ \A d \in 1..2 : d # c => [q EXCEPT ![c] = y][d] = q[d]
<1>1. DOMAIN q = 1..2 /\ \A c \in 1..2 : q[c] \in B OBVIOUS
<1>2. ASSUME NEW c \in 1..2, NEW y \in B
      PROVE  /\ [q EXCEPT ![c] = y] \in Seq(B) /\ Len([q EXCEPT ![c] = y]) = 2
             /\ [q EXCEPT ![c] = y][c] = y
             /\ \A d \in 1..2 : d # c => [q EXCEPT ![c] = y][d] = q[d]
  BY <1>1, <1>2, SMTT(30)
<1> QED BY <1>1, <1>2

LEMMA ColumnsFacts ==
    ASSUME NEW A, NEW data \in Columns(A)
    PROVE  DOMAIN data = 1..2 /\ \A d \in 1..2 : data[d] \in Seq(A)
<1> DEFINE B == Seq(A)
<1>1. data \in Seq(B) /\ Len(data) = 2 BY DEF Columns
<1> HIDE DEF B
<1>2. DOMAIN data = 1..2 /\ \A d \in 1..2 : data[d] \in B BY <1>1, PairFacts
<1> QED BY <1>2 DEF B

\* new is data with x at the end of the column of index c.
Pushed(new, data, c, x) ==
    /\ new[c + 1] = Append(data[c + 1], x)
    /\ \A d \in 1..2 : d # c + 1 => new[d] = data[d]

LEMMA PushOK ==
    ASSUME NEW A, NEW data \in Columns(A), NEW c \in {0, 1}, NEW x \in A
    PROVE  Push(data, c, x) \in Columns(A) /\ Pushed(Push(data, c, x), data, c, x)
<1>1. DOMAIN data = 1..2 /\ \A d \in 1..2 : data[d] \in Seq(A) BY ColumnsFacts
<1>2. c + 1 \in 1..2 OBVIOUS
<1>3. Append(data[c + 1], x) \in Seq(A) BY <1>1, <1>2
<1>4. Push(data, c, x) = [data EXCEPT ![c + 1] = Append(data[c + 1], x)] BY DEF Push
<1> DEFINE y == Append(data[c + 1], x)
           B == Seq(A)
<1>5. y \in B BY <1>3
<1>6. Push(data, c, x) = [data EXCEPT ![c + 1] = y] BY <1>4
<1>7. data \in Seq(B) /\ Len(data) = 2 BY DEF Columns
<1> HIDE DEF y, B
<1>8. /\ [data EXCEPT ![c + 1] = y] \in Seq(B) /\ Len([data EXCEPT ![c + 1] = y]) = 2
      /\ [data EXCEPT ![c + 1] = y][c + 1] = y
      /\ \A d \in 1..2 : d # c + 1 => [data EXCEPT ![c + 1] = y][d] = data[d]
  BY <1>2, <1>5, <1>7, PairFacts
<1> QED BY <1>6, <1>8 DEF y, B, Columns, Pushed

\* The columns of an archetype, and what sparse says of them.
LEMMA ShapeFacts ==
    ASSUME NEW arch, NEW bits, NEW n \in Nat, Shape(arch.entities, arch.sparse, arch.data, bits, n)
    PROVE  /\ \A c \in 1..2 : /\ arch.data[c] \in Seq(Types \X (1..n))
                             /\ DOMAIN arch.data[c] = 1..Len(arch.data[c])
                             /\ \A r \in DOMAIN arch.data[c] :
                                   arch.data[c][r] \in Types \X (1..n)
           /\ \A x \in bits : arch.sparse[x] \in {0, 1} /\ arch.sparse[x] + 1 \in 1..2
<1>1. DOMAIN arch.data = 1..2 /\ \A c \in 1..2 : arch.data[c] \in Seq(Types \X (1..n))
  BY ColumnsFacts DEF Shape
<1>2. \A x \in bits : arch.sparse[x] \in {0, 1} BY DEF Shape
<1> QED BY <1>1, <1>2

\* A call that registers types of its own leaves an archetype as it is.
LEMMA ArchetypeKeeps ==
    ASSUME NEW old, NEW new, IdsOK(old), IdsOK(new), Extends(old, new),
           NEW bits, BitsOK(bits, old),
           NEW cs \in Seq(Handle), NEW h \in Handle,
           NEW arch, ArchetypeOK(arch, bits, old, cs)
    PROVE  ArchetypeOK(arch, bits, new, Append(cs, h))
<1> DEFINE n == Len(cs)
<1>1. n \in Nat /\ Len(Append(cs, h)) = n + 1 /\ \A k \in 1..n : Append(cs, h)[k] = cs[k]
  BY AppendFacts
<1>2. Shape(arch.entities, arch.sparse, arch.data, bits, n) BY DEF ArchetypeOK
<1> HIDE DEF n
<1>3. /\ \A c \in 1..2 : /\ arch.data[c] \in Seq(Types \X (1..n))
                        /\ DOMAIN arch.data[c] = 1..Len(arch.data[c])
                        /\ \A r \in DOMAIN arch.data[c] : arch.data[c][r] \in Types \X (1..n)
      /\ \A x \in bits : arch.sparse[x] \in {0, 1} /\ arch.sparse[x] + 1 \in 1..2
  BY <1>1, <1>2, ShapeFacts
<1>4. /\ BitsOK(bits, new)
      /\ \A T \in DOMAIN new : new[T] \in bits => T \in DOMAIN old /\ old[T] \in bits
  BY BitsKeep
<1>5. \A T \in DOMAIN old : T \in DOMAIN new /\ new[T] = old[T] BY DEF Extends
<1>6. Shape(arch.entities, arch.sparse, arch.data, bits, n + 1)
  <2>1. Types \X (1..n) \subseteq Types \X (1..n + 1) BY <1>1
  <2>2. arch.data \in Columns(Types \X (1..n + 1)) BY <2>1, <1>2, ColumnsMonotone DEF Shape
  <2> QED BY <2>2, <1>2 DEF Shape
<1>7. Sorted(arch.sparse, arch.data, bits, new) BY <1>4, <1>5 DEF ArchetypeOK, Sorted
<1>8. Rows(arch.entities, arch.sparse, arch.data, bits, Append(cs, h))
  <2> SUFFICES ASSUME NEW x \in bits, NEW y \in bits, x # y
               PROVE  /\ Len(arch.data[arch.sparse[x] + 1]) = Len(arch.entities)
                      /\ \A r \in DOMAIN arch.data[arch.sparse[x] + 1] :
                            Append(cs, h)[arch.data[arch.sparse[x] + 1][r][2]] = arch.entities[r]
    BY DEF Rows
  <2>1. /\ Len(arch.data[arch.sparse[x] + 1]) = Len(arch.entities)
        /\ \A r \in DOMAIN arch.data[arch.sparse[x] + 1] :
              cs[arch.data[arch.sparse[x] + 1][r][2]] = arch.entities[r]
    BY DEF ArchetypeOK, Rows
  <2>2. \A r \in DOMAIN arch.data[arch.sparse[x] + 1] : arch.data[arch.sparse[x] + 1][r][2] \in 1..n
    BY <1>3
  <2> QED BY <2>1, <2>2, <1>1
<1>9. Typed(arch.data, bits, new) BY <1>5 DEF ArchetypeOK, Typed
<1>10. Whole(arch.data, bits, new) BY <1>4, <1>5 DEF ArchetypeOK, Whole
<1> QED BY <1>1, <1>6, <1>7, <1>8, <1>9, <1>10 DEF ArchetypeOK

\* The types of an archetype are the two of the call.
LEMMA TypesOfBits ==
    ASSUME NEW ids, IdsOK(ids), NEW T \in DOMAIN ids, NEW U \in DOMAIN ids
    PROVE  /\ \A V \in DOMAIN ids : ids[V] \in {ids[T], ids[U]} => V = T \/ V = U
           /\ ids[T] = ids[U] <=> T = U
BY DEF IdsOK

LEMMA NewArchetypeOK ==
    ASSUME NEW ids, IdsOK(ids), NEW T \in DOMAIN ids, NEW U \in DOMAIN ids,
           NEW cs \in Seq(Handle), NEW h \in Handle, NEW k \in Nat, k = Len(cs), k > 0, cs[k] = h
    PROVE  ArchetypeOK(NewArchetype(h, ids[T], ids[U], <<T, k>>, <<U, k>>), {ids[T], ids[U]}, ids, cs)
<1> DEFINE off1 == ids[T]
           off2 == ids[U]
           bits == {off1, off2}
           arch == NewArchetype(h, off1, off2, <<T, k>>, <<U, k>>)
           col == Types \X (1..k)
<1>1. T \in Types /\ U \in Types /\ off1 \in Nat /\ off2 \in Nat
  <2>1. Cardinality(DOMAIN ids) \in Nat BY FS_CardinalityType DEF IdsOK
  <2> QED BY <2>1 DEF IdsOK
<1>2. /\ \A V \in DOMAIN ids : ids[V] \in bits => V = T \/ V = U
      /\ off1 = off2 <=> T = U
  BY TypesOfBits
<1>3. /\ arch.entities = <<h>>
      /\ arch.data = <<<<<<T, k>>>>, <<<<U, k>>>>>>
      /\ arch.sparse = [c \in bits |-> IF c = off2 THEN 1 ELSE 0]
  BY DEF NewArchetype
<1> HIDE DEF off1, off2, arch, col
<1>4. /\ arch.data[1] = <<<<T, k>>>> /\ arch.data[2] = <<<<U, k>>>>
      /\ DOMAIN arch.data[1] = {1} /\ DOMAIN arch.data[2] = {1}
      /\ arch.data[1][1] = <<T, k>> /\ arch.data[2][1] = <<U, k>>
      /\ Len(arch.data[1]) = 1 /\ Len(arch.data[2]) = 1
  BY <1>3
<1>5. arch.sparse[off2] = 1 /\ (off1 # off2 => arch.sparse[off1] = 0) BY <1>3
<1>6. Shape(arch.entities, arch.sparse, arch.data, bits, Len(cs))
  <2>1. <<T, k>> \in col /\ <<U, k>> \in col BY <1>1 DEF col
  <2>2. <<<<T, k>>>> \in Seq(col) /\ <<<<U, k>>>> \in Seq(col) BY <2>1
  <2>3. arch.data \in Columns(col)
    <3> DEFINE B == Seq(col)
               x == <<<<T, k>>>>
               y == <<<<U, k>>>>
    <3>1. x \in B /\ y \in B /\ arch.data = <<x, y>> BY <2>2, <1>3
    <3> HIDE DEF B, x, y
    <3>2. arch.data \in Seq(B) /\ Len(arch.data) = 2 BY <3>1
    <3> QED BY <3>2 DEF B, Columns
  <2>4. arch.sparse \in [bits -> {0, 1}] BY <1>3
  <2>5. \A x, y \in bits : arch.sparse[x] = arch.sparse[y] => x = y BY <1>5
  <2>6. arch.entities \in Seq(Handle) BY <1>3
  <2> QED BY <2>3, <2>4, <2>5, <2>6 DEF Shape, col
<1>7. Sorted(arch.sparse, arch.data, bits, ids)
  <2> SUFFICES ASSUME NEW V \in DOMAIN ids, ids[V] \in bits,
                      NEW r \in DOMAIN arch.data[arch.sparse[ids[V]] + 1]
               PROVE  arch.data[arch.sparse[ids[V]] + 1][r][1] = V
    BY DEF Sorted
  <2>1. CASE V = U BY <2>1, <1>4, <1>5 DEF off2
  <2>2. CASE V # U
    <3>1. V = T /\ ids[V] = off1 /\ off1 # off2 BY <2>2, <1>2 DEF off1
    <3>2. arch.sparse[ids[V]] + 1 = 1 BY <3>1, <1>5
    <3> QED BY <3>1, <3>2, <1>4
  <2> QED BY <2>1, <2>2
<1>8. Rows(arch.entities, arch.sparse, arch.data, bits, cs)
  <2> SUFFICES ASSUME NEW x \in bits
               PROVE  /\ Len(arch.data[arch.sparse[x] + 1]) = Len(arch.entities)
                      /\ \A r \in DOMAIN arch.data[arch.sparse[x] + 1] :
                            cs[arch.data[arch.sparse[x] + 1][r][2]] = arch.entities[r]
    BY DEF Rows
  <2>1. arch.sparse[x] + 1 = 1 \/ arch.sparse[x] + 1 = 2 BY <1>5
  <2>2. Len(arch.entities) = 1 /\ arch.entities[1] = h BY <1>3
  <2>3. \A d \in 1..2 : /\ Len(arch.data[d]) = 1
                       /\ \A r \in DOMAIN arch.data[d] : r = 1 /\ arch.data[d][r][2] = k
    <3>1. \A d \in 1..2 : d = 1 \/ d = 2 OBVIOUS
    <3>2. <<T, k>>[2] = k /\ <<U, k>>[2] = k OBVIOUS
    <3> QED BY <3>1, <3>2, <1>4
  <2>4. arch.sparse[x] + 1 \in 1..2 BY <2>1
  <2> QED BY <2>2, <2>3, <2>4
<1>9. Typed(arch.data, bits, ids) BY <1>4 DEF Typed, off1, off2
<1>10. Whole(arch.data, bits, ids)
  <2> SUFFICES ASSUME NEW c \in 1..2, NEW r \in DOMAIN arch.data[c],
                      NEW V \in DOMAIN ids, ids[V] \in bits
               PROVE  \E d \in 1..2 : \E q \in DOMAIN arch.data[d] :
                         arch.data[d][q] = <<V, arch.data[c][r][2]>>
    BY DEF Whole
  <2>1. arch.data[c][r][2] = k BY <1>4
  <2>2. V = T \/ V = U BY <1>2
  <2>3. CASE V = T
    <3>1. 1 \in 1..2 /\ 1 \in DOMAIN arch.data[1] /\ arch.data[1][1] = <<V, k>> BY <2>3, <1>4
    <3> QED BY <3>1, <2>1
  <2>4. CASE V = U
    <3>1. 2 \in 1..2 /\ 1 \in DOMAIN arch.data[2] /\ arch.data[2][1] = <<V, k>> BY <2>4, <1>4
    <3> QED BY <3>1, <2>1
  <2> QED BY <2>2, <2>3, <2>4
<1> QED BY <1>6, <1>7, <1>8, <1>9, <1>10 DEF ArchetypeOK, arch, off1, off2

\* What x and y, of the columns of index a and b, add to the columns of data.
Grown(new, data, a, b, x, y) ==
    /\ \A d \in 1..2 : \A r \in DOMAIN data[d] : r \in DOMAIN new[d] /\ new[d][r] = data[d][r]
    /\ \A d \in 1..2 : \A r \in DOMAIN new[d] :
          r \in DOMAIN data[d] \/ (d = a + 1 /\ new[d][r] = x) \/ (d = b + 1 /\ new[d][r] = y)
    /\ \E r \in DOMAIN new[a + 1] : new[a + 1][r] = x
    /\ \E r \in DOMAIN new[b + 1] : new[b + 1][r] = y
    /\ a # b => \A d \in 1..2 : Len(new[d]) = Len(data[d]) + 1

LEMMA PushTwice ==
    ASSUME NEW A, NEW data \in Columns(A),
           NEW a \in {0, 1}, NEW b \in {0, 1}, NEW x \in A, NEW y \in A,
           NEW new, new = Push(Push(data, a, x), b, y)
    PROVE  new \in Columns(A) /\ Grown(new, data, a, b, x, y)
<1> DEFINE mid == Push(data, a, x)
<1>1. /\ mid \in Columns(A)
      /\ mid[a + 1] = Append(data[a + 1], x)
      /\ \A d \in 1..2 : d # a + 1 => mid[d] = data[d]
  <2>1. mid \in Columns(A) /\ Pushed(mid, data, a, x) BY PushOK
  <2> QED BY <2>1 DEF Pushed
<1> HIDE DEF mid
<1>2. /\ new \in Columns(A)
      /\ new[b + 1] = Append(mid[b + 1], y)
      /\ \A d \in 1..2 : d # b + 1 => new[d] = mid[d]
  <2>1. new = Push(mid, b, y) BY DEF mid
  <2>2. mid \in Columns(A) BY <1>1
  <2>3. new \in Columns(A) /\ Pushed(new, mid, b, y) BY <2>1, <2>2, PushOK
  <2> QED BY <2>3 DEF Pushed
<1>3. /\ \A d \in 1..2 : data[d] \in Seq(A) /\ mid[d] \in Seq(A) /\ new[d] \in Seq(A)
      /\ a + 1 \in 1..2 /\ b + 1 \in 1..2
  BY <1>1, <1>2, ColumnsFacts
<1>4. /\ DOMAIN data[a + 1] = 1..Len(data[a + 1]) /\ Len(data[a + 1]) \in Nat
      /\ DOMAIN mid[a + 1] = 1..Len(data[a + 1]) + 1 /\ Len(mid[a + 1]) = Len(data[a + 1]) + 1
      /\ \A r \in DOMAIN data[a + 1] : mid[a + 1][r] = data[a + 1][r]
      /\ mid[a + 1][Len(data[a + 1]) + 1] = x
  BY <1>1, <1>3, AppendFacts, SMTT(30)
<1>5. /\ DOMAIN mid[b + 1] = 1..Len(mid[b + 1]) /\ Len(mid[b + 1]) \in Nat
      /\ DOMAIN new[b + 1] = 1..Len(mid[b + 1]) + 1 /\ Len(new[b + 1]) = Len(mid[b + 1]) + 1
      /\ \A r \in DOMAIN mid[b + 1] : new[b + 1][r] = mid[b + 1][r]
      /\ new[b + 1][Len(mid[b + 1]) + 1] = y
  BY <1>2, <1>3, AppendFacts
<1>6. \A d \in 1..2 : \A r \in DOMAIN data[d] : r \in DOMAIN mid[d] /\ mid[d][r] = data[d][r]
  <2>1. \A r \in DOMAIN data[a + 1] : r \in DOMAIN mid[a + 1] BY <1>4
  <2> QED BY <1>1, <1>4, <2>1
<1>7. \A d \in 1..2 : \A r \in DOMAIN mid[d] : r \in DOMAIN new[d] /\ new[d][r] = mid[d][r]
  <2>1. \A r \in DOMAIN mid[b + 1] : r \in DOMAIN new[b + 1] BY <1>5
  <2> QED BY <1>2, <1>5, <2>1
<1>8. \A d \in 1..2 : \A r \in DOMAIN mid[d] : r \in DOMAIN data[d] \/ (d = a + 1 /\ mid[d][r] = x)
  <2>1. \A r \in DOMAIN mid[a + 1] : r \in DOMAIN data[a + 1] \/ r = Len(data[a + 1]) + 1 BY <1>4
  <2> QED BY <1>1, <1>4, <2>1
<1>9. \A d \in 1..2 : \A r \in DOMAIN new[d] : r \in DOMAIN mid[d] \/ (d = b + 1 /\ new[d][r] = y)
  <2>1. \A r \in DOMAIN new[b + 1] : r \in DOMAIN mid[b + 1] \/ r = Len(mid[b + 1]) + 1 BY <1>5
  <2> QED BY <1>2, <1>5, <2>1
<1>10. \E r \in DOMAIN new[b + 1] : new[b + 1][r] = y
  <2>1. Len(mid[b + 1]) + 1 \in DOMAIN new[b + 1] BY <1>5
  <2> QED BY <2>1, <1>5
<1>11. \E r \in DOMAIN new[a + 1] : new[a + 1][r] = x
  <2>1. Len(data[a + 1]) + 1 \in DOMAIN mid[a + 1] BY <1>4
  <2> QED BY <2>1, <1>3, <1>4, <1>7
<1>12. ASSUME a # b PROVE \A d \in 1..2 : Len(new[d]) = Len(data[d]) + 1
  <2>1. mid[b + 1] = data[b + 1] /\ new[a + 1] = mid[a + 1] BY <1>1, <1>2, <1>3, <1>12, SMTT(30)
  <2>2. Len(new[a + 1]) = Len(data[a + 1]) + 1 /\ Len(new[b + 1]) = Len(data[b + 1]) + 1
    BY <2>1, <1>4, <1>5
  <2>3. \A d \in 1..2 : d = a + 1 \/ d = b + 1 BY <1>12
  <2> QED BY <2>2, <2>3
<1>13. \A d \in 1..2 : \A r \in DOMAIN data[d] : r \in DOMAIN new[d] /\ new[d][r] = data[d][r]
  BY <1>6, <1>7
<1>14. \A d \in 1..2 : \A r \in DOMAIN new[d] :
          r \in DOMAIN data[d] \/ (d = a + 1 /\ new[d][r] = x) \/ (d = b + 1 /\ new[d][r] = y)
  BY <1>7, <1>8, <1>9
<1> QED BY <1>2, <1>10, <1>11, <1>12, <1>13, <1>14 DEF Grown

\* An archetype with one more row.
LEMMA RowAdded ==
    ASSUME NEW ids, IdsOK(ids), NEW T \in DOMAIN ids, NEW U \in DOMAIN ids,
           NEW bits, bits = {ids[T], ids[U]},
           NEW cs \in Seq(Handle), NEW h \in Handle, NEW k \in Nat, k = Len(cs), cs[k] = h,
           NEW ents, NEW sparse, NEW data, NEW new,
           Shape(ents, sparse, data, bits, k), Sorted(sparse, data, bits, ids),
           Rows(ents, sparse, data, bits, cs), Typed(data, bits, ids), Whole(data, bits, ids),
           NEW x, NEW y, x = <<T, k>>, y = <<U, k>>,
           new \in Columns(Types \X (1..k)),
           Grown(new, data, sparse[ids[T]], sparse[ids[U]], x, y)
    PROVE  /\ Shape(Append(ents, h), sparse, new, bits, k) /\ Sorted(sparse, new, bits, ids)
           /\ Rows(Append(ents, h), sparse, new, bits, cs) /\ Typed(new, bits, ids)
           /\ Whole(new, bits, ids)
<1> DEFINE a == sparse[ids[T]]
           b == sparse[ids[U]]
           col == Types \X (1..k)
<1>1. /\ \A d \in 1..2 : \A r \in DOMAIN data[d] : r \in DOMAIN new[d] /\ new[d][r] = data[d][r]
      /\ \A d \in 1..2 : \A r \in DOMAIN new[d] :
            r \in DOMAIN data[d] \/ (d = a + 1 /\ new[d][r] = x) \/ (d = b + 1 /\ new[d][r] = y)
      /\ \E r \in DOMAIN new[a + 1] : new[a + 1][r] = x
      /\ \E r \in DOMAIN new[b + 1] : new[b + 1][r] = y
      /\ a # b => \A d \in 1..2 : Len(new[d]) = Len(data[d]) + 1
  BY DEF Grown
<1>2. x[1] = T /\ y[1] = U /\ x[2] = k /\ y[2] = k OBVIOUS
<1>3. /\ \A V \in DOMAIN ids : ids[V] \in bits => V = T \/ V = U
      /\ ids[T] = ids[U] <=> T = U
      /\ ids[T] \in bits /\ ids[U] \in bits
  BY TypesOfBits
<1>4. /\ a \in {0, 1} /\ b \in {0, 1} /\ (a = b => T = U)
      /\ \A z \in bits : sparse[z] + 1 \in 1..2
      /\ data \in Columns(col) /\ new \in Columns(col) /\ ents \in Seq(Handle)
  BY <1>3 DEF Shape
<1> HIDE DEF a, b, col
<1>5. /\ Append(ents, h) \in Seq(Handle)
      /\ Len(ents) \in Nat /\ Len(Append(ents, h)) = Len(ents) + 1
      /\ \A i \in 1..Len(ents) : Append(ents, h)[i] = ents[i]
      /\ Append(ents, h)[Len(ents) + 1] = h
  BY <1>4, AppendFacts
<1>6. Shape(Append(ents, h), sparse, new, bits, k) BY <1>4, <1>5 DEF Shape, col
<1>7. Sorted(sparse, new, bits, ids)
  <2> SUFFICES ASSUME NEW V \in DOMAIN ids, ids[V] \in bits,
                      NEW r \in DOMAIN new[sparse[ids[V]] + 1]
               PROVE  new[sparse[ids[V]] + 1][r][1] = V
    BY DEF Sorted
  <2> DEFINE d == sparse[ids[V]] + 1
  <2>1. d \in 1..2 BY <1>4
  <2>2. CASE r \in DOMAIN data[d]
    <3>1. data[d][r][1] = V BY <2>2 DEF Sorted
    <3> QED BY <2>1, <2>2, <3>1, <1>1
  <2>3. CASE r \notin DOMAIN data[d]
    <3>1. V = T \/ V = U BY <1>3
    <3>2. CASE T = U BY <3>1, <3>2, <2>1, <2>3, <1>1, <1>2
    <3>3. CASE T # U
      <4>1. (d = a + 1 /\ V = T) \/ (d = b + 1 /\ V = U) BY <3>1 DEF a, b
      <4>2. a + 1 # b + 1 BY <3>3, <1>4
      <4> QED BY <4>1, <4>2, <2>1, <2>3, <1>1, <1>2
    <3> QED BY <3>2, <3>3
  <2> QED BY <2>2, <2>3
<1>8. \A d \in 1..2 : \A r \in DOMAIN new[d] : r \notin DOMAIN data[d] => new[d][r][2] = k
  BY <1>1, <1>2
<1>9. Rows(Append(ents, h), sparse, new, bits, cs)
  <2> SUFFICES ASSUME NEW v \in bits, NEW w \in bits, v # w, NEW d, d = sparse[v] + 1
               PROVE  /\ Len(new[d]) = Len(Append(ents, h))
                      /\ \A r \in DOMAIN new[d] : cs[new[d][r][2]] = Append(ents, h)[r]
    BY SMTT(30) DEF Rows
  <2> DEFINE n == Len(ents)
  <2>1. d \in 1..2 BY <1>4
  <2>2. Len(data[d]) = n /\ \A r \in DOMAIN data[d] : cs[data[d][r][2]] = ents[r]
    BY DEF Rows
  <2>3. a # b BY <1>3, <1>4
  <2>4. Len(new[d]) = n + 1 BY <1>1, <2>1, <2>2, <2>3
  <2>5. DOMAIN data[d] = 1..n /\ DOMAIN new[d] = 1..n + 1
    <3>1. data[d] \in Seq(col) /\ new[d] \in Seq(col) BY <1>4, <2>1, ColumnsFacts
    <3> QED BY <3>1, <2>2, <2>4
  <2>6. ASSUME NEW r \in DOMAIN new[d] PROVE cs[new[d][r][2]] = Append(ents, h)[r]
    <3>1. CASE r \in 1..n
      <4>1. new[d][r] = data[d][r] BY <3>1, <2>1, <2>5, <1>1
      <4> QED BY <4>1, <3>1, <2>2, <2>5, <1>5
    <3>2. CASE r = n + 1
      <4>1. r \notin DOMAIN data[d] BY <3>2, <2>5, <1>5
      <4>2. new[d][r][2] = k BY <4>1, <2>1, <2>6, <1>8
      <4> QED BY <4>2, <3>2, <1>5
    <3> QED BY <3>1, <3>2, <2>5, <1>5
  <2> QED BY <2>4, <2>6, <1>5
<1>10. Typed(new, bits, ids)
  <2> SUFFICES ASSUME NEW d \in 1..2, NEW r \in DOMAIN new[d]
               PROVE  new[d][r][1] \in DOMAIN ids /\ ids[new[d][r][1]] \in bits
    BY DEF Typed
  <2>1. CASE r \in DOMAIN data[d] BY <2>1, <1>1 DEF Typed
  <2>2. CASE r \notin DOMAIN data[d]
    <3>1. new[d][r] = x \/ new[d][r] = y BY <2>2, <1>1
    <3> QED BY <3>1, <1>2, <1>3
  <2> QED BY <2>1, <2>2
<1>11. Whole(new, bits, ids)
  <2> SUFFICES ASSUME NEW c \in 1..2, NEW r \in DOMAIN new[c], NEW V \in DOMAIN ids, ids[V] \in bits
               PROVE  \E d \in 1..2 : \E q \in DOMAIN new[d] : new[d][q] = <<V, new[c][r][2]>>
    BY DEF Whole
  <2>1. CASE r \in DOMAIN data[c]
    <3>1. PICK d \in 1..2 : \E q \in DOMAIN data[d] : data[d][q] = <<V, data[c][r][2]>>
      BY <2>1 DEF Whole
    <3>2. PICK q \in DOMAIN data[d] : data[d][q] = <<V, data[c][r][2]>> BY <3>1
    <3>3. q \in DOMAIN new[d] /\ new[d][q] = data[d][q] BY <1>1
    <3>4. new[c][r] = data[c][r] BY <2>1, <1>1
    <3> QED BY <3>2, <3>3, <3>4
  <2>2. CASE r \notin DOMAIN data[c]
    <3>1. new[c][r][2] = k BY <2>2, <1>8
    <3>2. a + 1 \in 1..2 /\ b + 1 \in 1..2 BY <1>4
    <3>3. CASE V = T BY <3>1, <3>2, <3>3, <1>1
    <3>4. CASE V = U BY <3>1, <3>2, <3>4, <1>1
    <3> QED BY <3>3, <3>4, <1>3
  <2> QED BY <2>1, <2>2
<1> QED BY <1>6, <1>7, <1>9, <1>10, <1>11

LEMMA AddRowOK ==
    ASSUME NEW ids, IdsOK(ids), NEW T \in DOMAIN ids, NEW U \in DOMAIN ids,
           NEW bits, bits = {ids[T], ids[U]},
           NEW cs \in Seq(Handle), NEW h \in Handle, NEW k \in Nat, k = Len(cs), k > 0, cs[k] = h,
           NEW arch, ArchetypeOK(arch, bits, ids, cs), arch \in Archetypes
    PROVE  ArchetypeOK(AddRow(arch, h, ids[T], ids[U], <<T, k>>, <<U, k>>), bits, ids, cs)
<1> DEFINE a == arch.sparse[ids[T]]
           b == arch.sparse[ids[U]]
           x == <<T, k>>
           y == <<U, k>>
           new == Push(Push(arch.data, a, x), b, y)
           next == AddRow(arch, h, ids[T], ids[U], x, y)
<1>1. /\ Shape(arch.entities, arch.sparse, arch.data, bits, k)
      /\ Sorted(arch.sparse, arch.data, bits, ids)
      /\ Rows(arch.entities, arch.sparse, arch.data, bits, cs)
      /\ Typed(arch.data, bits, ids) /\ Whole(arch.data, bits, ids)
  BY DEF ArchetypeOK
<1>2. x \in Types \X (1..k) /\ y \in Types \X (1..k) BY DEF IdsOK
<1>3. a \in {0, 1} /\ b \in {0, 1} /\ arch.data \in Columns(Types \X (1..k)) BY <1>1 DEF Shape
<1>4. new \in Columns(Types \X (1..k)) /\ Grown(new, arch.data, a, b, x, y)
  BY <1>2, <1>3, PushTwice
<1>5. next.entities = Append(arch.entities, h) /\ next.sparse = arch.sparse /\ next.data = new
  BY DEF AddRow, Archetypes
<1> HIDE DEF new, next
<1>6. /\ Shape(Append(arch.entities, h), arch.sparse, new, bits, k)
      /\ Sorted(arch.sparse, new, bits, ids)
      /\ Rows(Append(arch.entities, h), arch.sparse, new, bits, cs)
      /\ Typed(new, bits, ids) /\ Whole(new, bits, ids)
  BY <1>1, <1>4, RowAdded
<1>7. ArchetypeOK(next, bits, ids, cs) BY <1>5, <1>6 DEF ArchetypeOK
<1> QED BY <1>7 DEF next

-----------------------------------------------------------------------------
(* The steps of World.                                                     *)

LEMMA WInvInit == ASSUME WorldInit PROVE WInv
<1>1. /\ component_ids = <<>> /\ DOMAIN component_ids = {}
      /\ bitsets = <<>> /\ archetypes = <<>> /\ calls = <<>>
  BY DEF WorldInit
<1>2. IdsOK(component_ids) BY <1>1, FS_EmptySet DEF IdsOK
<1>3. /\ calls \in Seq(Handle) /\ bitsets \in Seq(SUBSET Nat) /\ archetypes \in Seq(Archetypes)
      /\ Len(bitsets) = 0 /\ Len(archetypes) = 0
  BY <1>1
<1> QED BY <1>2, <1>3 DEF WInv

\* The archetype that is found is the one for these types.
LEMMA FindArchetypeOK ==
    ASSUME NEW bits, bitsets \in Seq(SUBSET Nat),
           \A i, j \in 1..Len(bitsets) : bitsets[i] = bitsets[j] => i = j
    PROVE  \/ /\ FindArchetype(bits) = 0
              /\ \A i \in 1..Len(bitsets) : bitsets[i] # bits
           \/ /\ FindArchetype(bits) \in 1..Len(bitsets)
              /\ bitsets[FindArchetype(bits)] = bits
<1> DEFINE I == {i \in 1..Len(bitsets) : bitsets[i] = bits}
<1>1. FindArchetype(bits) = IF I # {} THEN Min(I) ELSE 0
  BY DEF FindArchetype, SelectInSeq
<1>2. CASE I = {} BY <1>1, <1>2
<1>3. CASE I # {}
  <2>1. PICK i \in 1..Len(bitsets) : bitsets[i] = bits BY <1>3
  <2>2. I = {i} BY <2>1
  <2>3. Min(I) = i BY <2>2 DEF Min
  <2> QED BY <1>1, <1>3, <2>1, <2>3
<1> QED BY <1>2, <1>3

LEMMA ReplaceFacts ==
    ASSUME NEW A, NEW q \in Seq(A), NEW i \in 1..Len(q), NEW x \in A
    PROVE  /\ [q EXCEPT ![i] = x] \in Seq(A) /\ Len([q EXCEPT ![i] = x]) = Len(q)
           /\ [q EXCEPT ![i] = x][i] = x
           /\ \A j \in 1..Len(q) : j # i => [q EXCEPT ![i] = x][j] = q[j]
OBVIOUS

\* The archetypes that add_comp writes are archetypes.
LEMMA ArchetypeTypes ==
    ASSUME NEW arch, NEW bits \in SUBSET Nat, NEW ids, NEW cs \in Seq(Handle),
           ArchetypeOK(arch, bits, ids, cs)
    PROVE  /\ arch.entities \in Seq(Handle)
           /\ arch.sparse \in UNION {[S -> {0, 1}] : S \in SUBSET Nat}
           /\ arch.data \in Columns(Types \X Nat)
<1>1. Len(cs) \in Nat OBVIOUS
<1>2. Types \X (1..Len(cs)) \subseteq Types \X Nat BY <1>1
<1>3. /\ arch.entities \in Seq(Handle) /\ arch.sparse \in [bits -> {0, 1}]
      /\ arch.data \in Columns(Types \X (1..Len(cs)))
  BY DEF ArchetypeOK, Shape
<1>4. arch.data \in Columns(Types \X Nat) BY <1>2, <1>3, ColumnsMonotone
<1> QED BY <1>3, <1>4

LEMMA AddCompInv ==
    ASSUME WInv, NEW h \in Handle, NEW T \in Types, NEW U \in Types, AddComp(h, T, U)
    PROVE  WInv'
<1> DEFINE mid == Register(component_ids, T)
           ids == Register(mid, U)
           bits == {ids[T], ids[U]}
           k == Len(calls) + 1
           cs == Append(calls, h)
           a == FindArchetype(bits)
           added == AddRow(archetypes[a], h, ids[T], ids[U], <<T, k>>, <<U, k>>)
           new == NewArchetype(h, ids[T], ids[U], <<T, k>>, <<U, k>>)
           n == Len(bitsets)
<1>1. /\ component_ids' = ids /\ calls' = cs
      /\ a # 0 => archetypes' = [archetypes EXCEPT ![a] = added] /\ bitsets' = bitsets
      /\ a = 0 => archetypes' = Append(archetypes, new) /\ bitsets' = Append(bitsets, bits)
  BY DEF AddComp
<1>2. /\ IdsOK(component_ids) /\ calls \in Seq(Handle)
      /\ bitsets \in Seq(SUBSET Nat) /\ archetypes \in Seq(Archetypes)
      /\ n \in Nat /\ Len(archetypes) = n
      /\ \A i, j \in 1..n : bitsets[i] = bitsets[j] => i = j
      /\ \A i \in 1..n : BitsOK(bitsets[i], component_ids)
      /\ \A i \in 1..n : ArchetypeOK(archetypes[i], bitsets[i], component_ids, calls)
  BY DEF WInv
<1>3. /\ a = 0 => \A i \in 1..n : bitsets[i] # bits
      /\ a # 0 => a \in 1..n /\ bitsets[a] = bits
  <2>1. /\ bitsets \in Seq(SUBSET Nat)
        /\ \A i, j \in 1..Len(bitsets) : bitsets[i] = bitsets[j] => i = j
    BY <1>2
  <2> HIDE DEF bits
  <2>2. \/ a = 0 /\ \A i \in 1..n : bitsets[i] # bits
        \/ a \in 1..n /\ bitsets[a] = bits
    BY <2>1, FindArchetypeOK
  <2> HIDE DEF a
  <2> QED BY <2>2
<1>4. IdsOK(mid) /\ T \in DOMAIN mid /\ Extends(component_ids, mid) BY <1>2, RegisterOK
<1> HIDE DEF mid
<1>5. IdsOK(ids) /\ U \in DOMAIN ids /\ Extends(mid, ids) BY <1>4, RegisterOK
<1> HIDE DEF ids
<1>6. T \in DOMAIN ids /\ Extends(component_ids, ids)
  BY <1>2, <1>4, <1>5, ExtendsTransitive DEF Extends
<1>7. k \in Nat /\ k > 0 /\ cs \in Seq(Handle) /\ Len(cs) = k /\ cs[k] = h
  BY <1>2, AppendFacts
<1>8. bits \in SUBSET Nat /\ BitsOK(bits, ids)
  <2>1. Cardinality(DOMAIN ids) \in Nat BY <1>5, FS_CardinalityType DEF IdsOK
  <2> QED BY <2>1, <1>5, <1>6 DEF IdsOK, BitsOK
<1>9. \A i \in 1..n : /\ BitsOK(bitsets[i], ids)
                      /\ ArchetypeOK(archetypes[i], bitsets[i], ids, cs)
  <2> TAKE i \in 1..n
  <2>1. BitsOK(bitsets[i], component_ids) BY <1>2
  <2>2. ArchetypeOK(archetypes[i], bitsets[i], component_ids, calls) BY <1>2
  <2>3. BitsOK(bitsets[i], ids) BY <2>1, <1>2, <1>5, <1>6, BitsKeep
  <2>4. ArchetypeOK(archetypes[i], bitsets[i], ids, cs)
    BY <2>1, <2>2, <1>2, <1>5, <1>6, ArchetypeKeeps
  <2> QED BY <2>3, <2>4
<1> HIDE DEF a
<1>10. CASE a # 0
  <2>1. a \in 1..n /\ bitsets[a] = bits /\ archetypes[a] \in Archetypes
    BY <1>2, <1>3, <1>10
  <2>2. ArchetypeOK(archetypes[a], bits, ids, cs) BY <2>1, <1>9
  <2>3. ArchetypeOK(added, bits, ids, cs)
    BY <2>1, <2>2, <1>5, <1>6, <1>7, AddRowOK
  <2>4. added \in Archetypes
    <3> DEFINE ents == Append(archetypes[a].entities, h)
               data == Push(Push(archetypes[a].data, archetypes[a].sparse[ids[T]], <<T, k>>),
                            archetypes[a].sparse[ids[U]], <<U, k>>)
    <3>1. /\ added = [archetypes[a] EXCEPT !.entities = ents, !.data = data]
          /\ added.entities = ents /\ added.data = data
      BY <2>1 DEF AddRow, Archetypes
    <3>2. added.entities \in Seq(Handle) /\ added.data \in Columns(Types \X Nat)
      BY <2>3, <1>7, <1>8, ArchetypeTypes
    <3> HIDE DEF ents, data
    <3> QED BY <3>1, <3>2, <2>1 DEF Archetypes
  <2>5. /\ archetypes' \in Seq(Archetypes) /\ Len(archetypes') = n
        /\ archetypes'[a] = added
        /\ \A i \in 1..n : i # a => archetypes'[i] = archetypes[i]
    <3> HIDE DEF added
    <3>1. archetypes' = [archetypes EXCEPT ![a] = added] BY <1>1, <1>10
    <3> QED BY <3>1, <2>1, <2>4, <1>2, ReplaceFacts
  <2>6. \A i \in 1..n : ArchetypeOK(archetypes'[i], bitsets[i], ids, cs)
    BY <2>1, <2>3, <2>5, <1>9
  <2>7. bitsets' = bitsets BY <1>1, <1>10
  <2> HIDE DEF cs
  <2> QED BY <2>5, <2>6, <2>7, <1>1, <1>2, <1>5, <1>7, <1>9 DEF WInv
<1>11. CASE a = 0
  <2>1. ArchetypeOK(new, bits, ids, cs) BY <1>5, <1>6, <1>7, NewArchetypeOK
  <2>2. new \in Archetypes
    <3>1. /\ new.entities \in Seq(Handle) /\ new.data \in Columns(Types \X Nat)
          /\ new.sparse \in UNION {[S -> {0, 1}] : S \in SUBSET Nat}
      BY <2>1, <1>7, <1>8, ArchetypeTypes
    <3>2. new = [entities |-> new.entities, sparse |-> new.sparse, data |-> new.data]
      BY DEF NewArchetype
    <3> HIDE DEF new
    <3> QED BY <3>1, <3>2 DEF Archetypes
  <2> HIDE DEF new, bits, cs
  <2>3. /\ archetypes' \in Seq(Archetypes) /\ Len(archetypes') = n + 1
        /\ archetypes'[n + 1] = new
        /\ \A i \in 1..n : archetypes'[i] = archetypes[i]
    <3>1. archetypes' = Append(archetypes, new) BY <1>1, <1>11
    <3>2. DOMAIN archetypes = 1..n BY <1>2
    <3> QED BY <3>1, <3>2, <2>2, <1>2, AppendFacts
  <2>4. /\ bitsets' \in Seq(SUBSET Nat) /\ Len(bitsets') = n + 1
        /\ bitsets'[n + 1] = bits
        /\ \A i \in 1..n : bitsets'[i] = bitsets[i]
    <3>1. bitsets' = Append(bitsets, bits) BY <1>1, <1>11
    <3> QED BY <3>1, <1>2, <1>8, AppendFacts
  <2>5. \A i \in 1..n + 1 : i \in 1..n \/ i = n + 1 BY <1>2
  <2>6. \A i, j \in 1..n + 1 : bitsets'[i] = bitsets'[j] => i = j
    BY <2>4, <2>5, <1>2, <1>3, <1>11
  <2>7. \A i \in 1..n + 1 : /\ BitsOK(bitsets'[i], ids)
                            /\ ArchetypeOK(archetypes'[i], bitsets'[i], ids, cs)
    BY <2>1, <2>3, <2>4, <2>5, <1>8, <1>9
  <2> QED BY <2>3, <2>4, <2>6, <2>7, <1>1, <1>5, <1>7 DEF WInv
<1> QED BY <1>10, <1>11

LEMMA WInvNext ==
    ASSUME WInv, EntityTypeOK, [WorldNext]_worldVars
    PROVE  WInv'
<1>1. CASE UNCHANGED componentVars BY <1>1 DEF WInv, componentVars
<1>2. CASE \E h \in given, T, U \in Types : AddComp(h, T, U)
  <2>1. PICK h \in given, T \in Types, U \in Types : AddComp(h, T, U) BY <1>2
  <2>2. h \in Handle BY DEF EntityTypeOK, Handle
  <2> QED BY <2>1, <2>2, AddCompInv
<1> QED BY <1>1, <1>2 DEF WorldNext, worldVars

(* The entities of World are those of EntityWorld: add_comp does not touch *)
(* them (ecs/mod.rs:150 to 190), so that every theorem about EntitySpec is *)
(* one about WorldSpec.                                                    *)
THEOREM WorldHasEntities == WorldSpec => EntitySpec
<1>1. WorldInit => EntityInit BY DEF WorldInit
<1>2. [WorldNext]_worldVars => [EntityNext]_entityVars
  BY DEF WorldNext, worldVars, AddComp
<1> QED BY <1>1, <1>2, PTL DEF WorldSpec, EntitySpec

LEMMA WorldInvariant == WorldSpec => []WInv
<1>1. WorldSpec => []EntityTypeOK BY WorldHasEntities, EntityTypeCorrect, PTL
<1> QED BY <1>1, WInvInit, WInvNext, PTL DEF WorldSpec

LEMMA WInvTypes == ASSUME WInv, EntityTypeOK PROVE WorldTypeOK
<1>1. DOMAIN component_ids \subseteq Types /\ IsInjective(component_ids)
  BY DEF WInv, IdsOK, IsInjective
<1>2. Len(bitsets) = Len(archetypes) /\ DOMAIN archetypes = 1..Len(bitsets) BY DEF WInv
<1>3. ASSUME NEW a \in 1..Len(bitsets)
      PROVE  /\ bitsets[a] # {} /\ bitsets[a] \subseteq Range(component_ids)
             /\ DOMAIN archetypes[a].sparse = bitsets[a]
  <2>1. BitsOK(bitsets[a], component_ids) BY DEF WInv
  <2>2. archetypes[a].sparse \in [bitsets[a] -> {0, 1}] BY DEF WInv, ArchetypeOK, Shape
  <2> QED BY <2>1, <2>2 DEF BitsOK, Range
<1> QED BY <1>1, <1>2, <1>3 DEF WorldTypeOK

(* Type correctness of the world.                                          *)
THEOREM WorldTypeCorrect == WorldSpec => []WorldTypeOK
BY WorldHasEntities, EntityTypeCorrect, WorldInvariant, WInvTypes, PTL

LEMMA WInvRows == ASSUME WInv PROVE RowsAligned
<1> SUFFICES ASSUME NEW a \in DOMAIN archetypes, Cardinality(bitsets[a]) = 2,
                    NEW T \in DOMAIN component_ids, component_ids[T] \in bitsets[a]
             PROVE  /\ Len(Column(a, component_ids[T])) = Len(archetypes[a].entities)
                    /\ \A r \in DOMAIN Column(a, component_ids[T]) :
                          /\ Column(a, component_ids[T])[r][1] = T
                          /\ calls[Column(a, component_ids[T])[r][2]] = archetypes[a].entities[r]
  BY DEF RowsAligned
<1>1. a \in 1..Len(bitsets) BY DEF WInv
<1>2. BitsOK(bitsets[a], component_ids)
      /\ ArchetypeOK(archetypes[a], bitsets[a], component_ids, calls)
  BY <1>1 DEF WInv
<1>3. PICK V \in DOMAIN component_ids, W \in DOMAIN component_ids :
         bitsets[a] = {component_ids[V], component_ids[W]}
  BY <1>2 DEF BitsOK
<1>4. component_ids[V] # component_ids[W]
  <2>1. component_ids[V] = component_ids[W] => bitsets[a] = {component_ids[V]} BY <1>3
  <2>2. Cardinality({component_ids[V]}) = 1 BY FS_Singleton
  <2> QED BY <2>1, <2>2
<1>5. PICK x \in bitsets[a] : x # component_ids[T] BY <1>3, <1>4
<1> QED BY <1>2, <1>5 DEF ArchetypeOK, Rows, Sorted, Column

(* In an archetype of two types, the component at a row of either column   *)
(* came with the entity at that row: the rows of lines 169 to 175 of       *)
(* ecs/mod.rs belong together, whichever way round the calls name the      *)
(* types.                                                                  *)
THEOREM RowsBelongTogether == WorldSpec => []RowsAligned
BY WorldInvariant, WInvRows, PTL

LEMMA WInvDistinct == ASSUME WInv PROVE ArchetypesDistinct
<1>1. IsInjective(bitsets) BY DEF WInv, IsInjective
<1>2. DOMAIN archetypes = 1..Len(bitsets) BY DEF WInv
<1>3. ASSUME NEW a \in 1..Len(bitsets), NEW c \in DOMAIN archetypes[a].data,
             NEW r \in DOMAIN archetypes[a].data[c]
      PROVE  LET call == archetypes[a].data[c][r][2]
                 types == {T \in Types : \E d \in DOMAIN archetypes[a].data :
                              <<T, call>> \in Range(archetypes[a].data[d])}
             IN  {component_ids[T] : T \in types} = bitsets[a]
  <2> DEFINE data == archetypes[a].data
             call == data[c][r][2]
             types == {T \in Types : \E d \in DOMAIN data : <<T, call>> \in Range(data[d])}
  <2>1. BitsOK(bitsets[a], component_ids)
        /\ ArchetypeOK(archetypes[a], bitsets[a], component_ids, calls)
    BY DEF WInv
  <2>2. DOMAIN data = 1..2 BY <2>1, ColumnsFacts DEF ArchetypeOK, Shape
  <2>3. Typed(data, bitsets[a], component_ids) /\ Whole(data, bitsets[a], component_ids)
    BY <2>1 DEF ArchetypeOK
  <2>4. c \in 1..2 /\ r \in DOMAIN data[c] BY <2>2
  <2>5. DOMAIN component_ids \subseteq Types BY DEF WInv, IdsOK
  <2>6. PICK V \in DOMAIN component_ids, W \in DOMAIN component_ids :
           bitsets[a] = {component_ids[V], component_ids[W]}
    BY <2>1 DEF BitsOK
  <2> HIDE DEF data
  <2>7. \A T \in types : component_ids[T] \in bitsets[a]
    <3> SUFFICES ASSUME NEW T \in Types, NEW d \in 1..2, <<T, call>> \in Range(data[d])
                 PROVE  component_ids[T] \in bitsets[a]
      BY <2>2
    <3>1. PICK q \in DOMAIN data[d] : data[d][q] = <<T, call>> BY DEF Range
    <3> QED BY <3>1, <2>3 DEF Typed
  <2>8. \A T \in DOMAIN component_ids : component_ids[T] \in bitsets[a] => T \in types
    <3> SUFFICES ASSUME NEW T \in DOMAIN component_ids, component_ids[T] \in bitsets[a]
                 PROVE  \E d \in 1..2 : <<T, call>> \in Range(data[d])
      BY <2>2, <2>5
    <3>1. PICK d \in 1..2 : \E q \in DOMAIN data[d] : data[d][q] = <<T, call>>
      BY <2>3, <2>4 DEF Whole
    <3> QED BY <3>1 DEF Range
  <2>9. {component_ids[T] : T \in types} = bitsets[a]
    <3> HIDE DEF types
    <3> QED BY <2>6, <2>7, <2>8
  <2> QED BY <2>9 DEF data
<1> QED BY <1>1, <1>2, <1>3 DEF ArchetypesDistinct

(* No two archetypes have the same types, and the components of one call   *)
(* are together in the archetype of their two types (ecs/mod.rs:163).      *)
THEOREM ArchetypesAreDistinct == WorldSpec => []ArchetypesDistinct
BY WorldInvariant, WInvDistinct, PTL
===============================================================================
