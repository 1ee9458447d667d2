---------------------------- MODULE WorldProofs ----------------------------
(***************************************************************************)
(* Proofs about World for every number of entities, names and spawners and *)
(* every size of a spawner's group: the id pool and the lookup account for *)
(* every id, a spawner's count is that of its monsters, and no target      *)
(* outlives its entity by more than a tick.                                *)
(***************************************************************************)
EXTENDS World, FiniteSetTheorems, WellFoundedInduction, TLAPS

(* The n lowest.                                                           *)

\* What is not below a number in the relation of the library is not below it.
LEMMA NotBelow ==
    ASSUME NEW x, NEW y, x \in Nat, y \in Nat, ~(<<y, x>> \in OpToRel(<, Nat))
    PROVE  ~(y < x)
  BY Zenon DEF OpToRel

\* A set of natural numbers that is not empty has a least element.
LEMMA Least ==
    ASSUME NEW T, T \subseteq Nat, T # {}
    PROVE  \E x \in T : \A y \in T : x <= y
<1>1. PICK x \in T : \A y \in T : ~(<<y, x>> \in OpToRel(<, Nat))
  BY NatLessThanWellFounded, WFMin
<1>2. \A y \in T : ~(y < x)
  BY <1>1, NotBelow, Zenon
<1>3. QED
  BY <1>2

\* A finite set of numbers has an n-th lowest element, for every n up to its
\* size: the n-th id that IdPool::request_id hands out is a free one.
LEMMA NthIs ==
    ASSUME NEW S \in SUBSET Nat, IsFiniteSet(S), NEW n \in 1..Cardinality(S)
    PROVE  Nth(S, n) \in S /\ Cardinality({y \in S : y <= Nth(S, n)}) = n
<1> DEFINE UpTo(x) == {y \in S : y <= x}
           Bad == {i \in 1..Cardinality(S) : ~\E x \in S : Cardinality(UpTo(x)) = i}
<1>1. Cardinality(S) \in Nat /\ \A x \in S : IsFiniteSet(UpTo(x))
  BY FS_CardinalityType, FS_Subset
<1>2. ASSUME Bad # {} PROVE FALSE
  <2>1. PICK i \in Bad : \A j \in Bad : i <= j
    <3>1. Bad \subseteq Nat
      BY <1>1
    <3>2. QED
      BY <1>2, <3>1, Least
  <2>2. CASE i = 1
    <3>1. S # {}
      BY <2>1, FS_EmptySet
    <3>2. PICK x \in S : \A y \in S : x <= y
      BY <3>1, Least
    <3>3. UpTo(x) = {x}
      <4>1. \A y \in S : y <= x <=> y = x
        BY <3>2
      <4>2. QED
        BY <4>1
    <3>4. Cardinality(UpTo(x)) = 1
      BY <3>3, FS_Singleton
    <3>5. QED
      BY <2>1, <2>2, <3>4
  <2>3. CASE i # 1
    <3>1. i \in Nat /\ i <= Cardinality(S) /\ i - 1 \in 1..Cardinality(S) /\ i - 1 \notin Bad
      BY <1>1, <2>1, <2>3
    <3>2. PICK x \in S : Cardinality(UpTo(x)) = i - 1
      BY <3>1
    <3> DEFINE Above == {y \in S : y > x}
    <3>3. Above # {}
      <4>1. SUFFICES ASSUME Above = {} PROVE FALSE
        OBVIOUS
      <4>2. \A y \in S : y <= x
        BY <4>1
      <4>3. UpTo(x) = S
        BY <4>2
      <4>4. Cardinality(S) = i - 1
        BY <3>2, <4>3
      <4>5. QED
        BY <1>1, <3>1, <4>4
    <3>4. PICK z \in Above : \A y \in Above : z <= y
      BY <3>3, Least
    <3>5. UpTo(z) = UpTo(x) \cup {z} /\ z \notin UpTo(x)
      <4>1. z \in S /\ ~(z <= x) /\ \A y \in S : y <= z <=> (y <= x \/ y = z)
        BY <3>4
      <4>2. QED
        BY <4>1
    <3>6. Cardinality(UpTo(z)) = i
      <4>1. Cardinality(UpTo(x) \cup {z}) = Cardinality(UpTo(x)) + 1
        BY <1>1, <3>5, FS_AddElement
      <4>2. Cardinality(UpTo(z)) = Cardinality(UpTo(x)) + 1
        BY <3>5, <4>1
      <4> HIDE DEF UpTo
      <4>3. QED
        BY <3>1, <3>2, <4>2
    <3>7. QED
      BY <2>1, <3>6
  <2>4. QED
    BY <2>2, <2>3
<1>3. \E x \in S : Cardinality(UpTo(x)) = n
  BY <1>2
<1>4. QED
  BY <1>3 DEF Nth

-----------------------------------------------------------------------------
(* What a spawn adds.                                                      *)

\* Identities and ids are numbers, and there are finitely many of them.
LEMMA FreshFinite ==
    /\ Fresh \in SUBSET Nat /\ IsFiniteSet(Fresh) /\ Fresh \subseteq Entities
    /\ Ids \ taken \in SUBSET Nat /\ IsFiniteSet(Ids \ taken)
<1>1. IsFiniteSet(Entities) /\ Entities \subseteq Nat
  BY WorldAssumption, FS_Interval DEF Entities
<1>2. QED
  BY <1>1, FS_Subset DEF Fresh, Ids

\* A spawn of n bundles takes n ids the pool had not given out, each for an
\* entity of its own that nothing refers to.
LEMMA BundlesAre ==
    ASSUME NEW n \in Nat, CanSpawn(n), NEW kind, NEW home, NEW name,
           NEW new, new = Bundles(n, kind, home, name)
    PROVE  /\ DOMAIN new \subseteq Fresh /\ IsFiniteSet(DOMAIN new) /\ Cardinality(DOMAIN new) = n
           /\ \A e \in DOMAIN new :
                /\ new[e].id \in Ids \ taken /\ new[e] = [id |-> new[e].id, kind |-> kind,
                                   home |-> home, name |-> name, dead |-> FALSE]
           /\ \A e, f \in DOMAIN new : new[e].id = new[f].id => e = f
           /\ Requested(n) = {new[e].id : e \in DOMAIN new}
<1> DEFINE RankOf(e) == Cardinality({f \in Fresh : f <= e})
           Free == Ids \ taken
<1>1. /\ \A i \in 1..n : Nth(Fresh, i) \in Fresh /\ RankOf(Nth(Fresh, i)) = i
      /\ \A i \in 1..n : Nth(Free, i) \in Free
      /\ \A i, j \in 1..n : Nth(Free, i) = Nth(Free, j) => i = j
  <2>1. Cardinality(Fresh) \in Nat /\ Cardinality(Free) \in Nat
    BY FreshFinite, FS_CardinalityType
  <2>2. \A i \in 1..n : i \in 1..Cardinality(Fresh) /\ i \in 1..Cardinality(Free)
    BY <2>1 DEF CanSpawn
  <2>3. \A i \in 1..n : Nth(Fresh, i) \in Fresh /\ RankOf(Nth(Fresh, i)) = i
    BY <2>2, FreshFinite, NthIs
  <2>4. \A i \in 1..n : /\ Nth(Free, i) \in Free
                        /\ Cardinality({y \in Free : y <= Nth(Free, i)}) = i
    BY <2>2, FreshFinite, NthIs
  <2>5. \A i, j \in 1..n : Nth(Free, i) = Nth(Free, j) => i = j
    BY <2>4
  <2>6. QED
    BY <2>3, <2>4, <2>5
<1>2. DOMAIN new = {Nth(Fresh, i) : i \in 1..n}
  BY DEF Bundles
<1>3. \A e \in DOMAIN new : /\ new[e].id = Nth(Free, RankOf(e))
                            /\ new[e] = [id |-> new[e].id, kind |-> kind, home |-> home,
                                         name |-> name, dead |-> FALSE]
  BY DEF Bundles
<1> HIDE DEF RankOf, Free
<1>4. \A i \in 1..n : new[Nth(Fresh, i)].id = Nth(Free, i)
  BY <1>1, <1>2, <1>3
<1>5. DOMAIN new \subseteq Fresh /\ IsFiniteSet(DOMAIN new) /\ Cardinality(DOMAIN new) = n
  <2> DEFINE f == [i \in 1..n |-> Nth(Fresh, i)]
  <2>1. f \in [1..n -> DOMAIN new]
    BY <1>2
  <2>2. \A i, j \in 1..n : f[i] = f[j] => i = j
    BY <1>1
  <2>3. \A e \in DOMAIN new : \E i \in 1..n : f[i] = e
    BY <1>2
  <2> HIDE DEF f
  <2>4. f \in Bijection(1..n, DOMAIN new)
    BY <2>1, <2>2, <2>3 DEF Bijection, Injection, Surjection, IsInjective
  <2>5. ExistsBijection(1..n, DOMAIN new)
    BY <2>4 DEF ExistsBijection
  <2>6. QED
    BY <1>1, <1>2, <2>5, FS_CountingElements, FS_NatBijection
<1>6. \A e \in DOMAIN new : new[e].id \in Free
  BY <1>1, <1>2, <1>4
<1>7. \A e, f \in DOMAIN new : new[e].id = new[f].id => e = f
  BY <1>1, <1>2, <1>4
<1>8. Requested(n) = {new[e].id : e \in DOMAIN new}
  <2>1. Requested(n) = {Nth(Free, i) : i \in 1..n}
    BY DEF Requested, Free
  <2>2. QED
    BY <1>2, <1>4, <2>1
<1>9. QED
  BY <1>3, <1>5, <1>6, <1>7, <1>8 DEF Free

-----------------------------------------------------------------------------
(* The inductive invariant.  What is in the command buffers depends on the *)
(* system that runs next: spawns and despawns are only buffered within a   *)
(* schedule, deaths only until they are collected, and an entity that the  *)
(* lookup does not know yet is not despawned, as collect_entities runs in  *)
(* the tick that adds it.                                                  *)
Buffered ==
    /\ entity \in [Existing -> Bundle] /\ Existing \subseteq Entities
    /\ spawning \in [DOMAIN spawning -> Bundle] /\ DOMAIN spawning \subseteq Entities
    /\ taken \subseteq Ids /\ DOMAIN spawning \cap Existing = {}
    /\ despawning \subseteq Existing /\ added \subseteq Existing /\ died \subseteq Existing
    /\ spawnEvents \in Nat /\ dropEvents \in Nat

PreUpdate == {"maintain_entities", "disconnected", "update_player_activity", "update_timers",
              "ApplyPreUpdate"}
NoSpawns == PreUpdate \cup {"spawn_monsters", "create_drops", "collect_entities",
                            "collect_monster_deaths"}
NoDespawns == {"maintain_entities", "disconnected", "spawn_monsters", "create_drops",
               "ApplyPostUpdate", "collect_entities", "collect_monster_deaths"}
NoDeaths == PreUpdate \cup {"spawn_monsters", "do_spawn_mobs", "handle_join", "monsters"}
Adding == {"create_drops", "ApplyPostUpdate", "collect_entities"}

Scheduled ==
    /\ phase \in NoSpawns => DOMAIN spawning = {}
    /\ phase \in NoDespawns => despawning = {}
    /\ phase \in NoDeaths => died = {}
    /\ phase \notin Adding => \A e \in added : entity[e].kind = "npc"
    /\ \A e \in despawning : entity[e].kind # "npc"
    /\ \A e \in Existing : entity[e].dead => entity[e].kind = "monster"
    /\ \A e \in died : entity[e].kind = "monster"
    /\ phase \in Adding \cup {"collect_monster_deaths"} => \A e \in died : entity[e].dead
    /\ \A e \in DOMAIN spawning : ~spawning[e].dead

\* The lookup knows every entity under its id, but for those of this tick.
Looked ==
    /\ \A e \in Existing \ added : entity[e].id \in DOMAIN idMap /\ idMap[entity[e].id] = e
    /\ \A e \in added : entity[e].id \notin DOMAIN idMap
    /\ \A e \in DOMAIN spawning : spawning[e].id \notin DOMAIN idMap

Unique ==
    /\ \A e, f \in Existing : entity[e].id = entity[f].id => e = f
    /\ \A e, f \in DOMAIN spawning : spawning[e].id = spawning[f].id => e = f
    /\ \A e \in Existing : \A f \in DOMAIN spawning : entity[e].id # spawning[f].id

Accounted ==
    \A i : i \in taken <=> \/ i \in DOMAIN idMap
                           \/ \E e \in Existing : entity[e].id = i
                           \/ \E e \in DOMAIN spawning : spawning[e].id = i

Inv == Buffered /\ Scheduled /\ Looked /\ Unique /\ Accounted

\* The world starts with one NPC that the lookup is yet to learn of.
LEMMA InvInit == Init => Inv
<1> SUFFICES ASSUME Init PROVE Inv
  OBVIOUS
<1>1. /\ Existing = {1} /\ DOMAIN spawning = {} /\ DOMAIN idMap = {}
      /\ entity[1] = [id |-> 1, kind |-> "npc", home |-> None, name |-> None, dead |-> FALSE]
  BY DEF Init, Existing
<1>2. 1 \in Entities
  BY WorldAssumption DEF Entities
<1>3. Buffered
  <2>1. entity[1] \in Bundle
    BY <1>1, <1>2 DEF Bundle, Ids, Kinds
  <2>2. entity \in [Existing -> Bundle] /\ spawning \in [DOMAIN spawning -> Bundle]
    BY <1>1, <2>1 DEF Init
  <2>3. QED
    BY <1>1, <1>2, <2>2 DEF Init, Buffered, Ids
<1>4. Scheduled
  BY <1>1 DEF Init, Scheduled, Adding
<1>5. Looked /\ Unique /\ Accounted
  BY <1>1 DEF Init, Looked, Unique, Accounted
<1>6. QED
  BY <1>3, <1>4, <1>5 DEF Inv

\* A spawn adds to the buffer what is not there, under ids that are not taken.
LEMMA SpawnKeeps ==
    ASSUME Inv, NEW n \in Nat, NEW kind \in Kinds, NEW home \in Spawners \cup {None},
           NEW name \in Names \cup {None}, Spawn(n, kind, home, name),
           UNCHANGED <<entity, idMap, added, died>>,
           despawning' \subseteq Existing,
           spawnEvents' \in Nat, dropEvents' \in Nat
    PROVE  Buffered' /\ Looked' /\ Unique' /\ Accounted' /\ \A e \in DOMAIN spawning' : ~spawning'[e].dead
<1>1. PICK new : new = Bundles(n, kind, home, name)
  OBVIOUS
<1>2. /\ spawning' = Over(new, spawning) /\ taken' = taken \cup Requested(n) /\ CanSpawn(n)
  BY <1>1 DEF Spawn
<1>3. /\ DOMAIN new \subseteq Fresh
      /\ \A e \in DOMAIN new :
           /\ new[e].id \in Ids \ taken
           /\ new[e] = [id |-> new[e].id, kind |-> kind, home |-> home, name |-> name, dead |-> FALSE]
      /\ \A e, f \in DOMAIN new : new[e].id = new[f].id => e = f
      /\ Requested(n) = {new[e].id : e \in DOMAIN new}
  BY <1>1, <1>2, BundlesAre
<1>4. DOMAIN new \cap Existing = {} /\ DOMAIN new \cap DOMAIN spawning = {} /\ DOMAIN new \subseteq Entities
  BY <1>3 DEF Fresh, Referenced
<1>5. /\ DOMAIN spawning' = DOMAIN new \cup DOMAIN spawning
      /\ \A e \in DOMAIN new : spawning'[e] = new[e]
      /\ \A e \in DOMAIN spawning : spawning'[e] = spawning[e]
  BY <1>2, <1>4 DEF Over
<1>6. \A e \in DOMAIN new : new[e] \in Bundle /\ ~new[e].dead
  <2>1. \A i \in Ids : LET b == [id |-> i, kind |-> kind, home |-> home, name |-> name, dead |-> FALSE]
                      IN  b \in Bundle /\ ~b.dead
    BY DEF Bundle
  <2>2. QED
    BY <1>3, <2>1
<1>7. Buffered'
  <2>1. spawning' \in [DOMAIN spawning' -> Bundle]
    <3>1. \A e \in DOMAIN spawning' : spawning'[e] \in Bundle
      BY <1>5, <1>6 DEF Inv, Buffered
    <3>2. spawning' = [e \in DOMAIN spawning' |-> spawning'[e]]
      BY <1>2 DEF Over
    <3>3. QED
      BY <3>1, <3>2
  <2>2. taken' \subseteq Ids
    BY <1>2, <1>3 DEF Inv, Buffered
  <2>3. QED
    BY <1>4, <1>5, <2>1, <2>2 DEF Inv, Buffered, Existing
<1>8. Unique'
  <2>1. \A e \in Existing : entity[e].id \in taken
    BY DEF Inv, Accounted
  <2>2. \A e \in DOMAIN spawning : spawning[e].id \in taken
    BY DEF Inv, Accounted
  <2>3. QED
    BY <1>3, <1>5, <2>1, <2>2 DEF Inv, Unique, Existing
<1>9. Looked'
  <2>1. \A i \in DOMAIN idMap : i \in taken
    BY DEF Inv, Accounted
  <2>2. QED
    BY <1>3, <1>5, <2>1 DEF Inv, Looked, Existing
<1>10. Accounted'
  BY <1>2, <1>3, <1>5 DEF Inv, Accounted, Existing
<1>11. QED
  BY <1>5, <1>6, <1>7, <1>8, <1>9, <1>10 DEF Inv, Scheduled

\* Applying the buffers at the end of a schedule keeps every id accounted for:
\* what is despawned stays in the lookup, which returns its id.
LEMMA FlushKeeps ==
    ASSUME Inv, NEW gone, gone \subseteq despawning,
           Existing' = (DOMAIN spawning \cup Existing) \ gone,
           entity' \in [Existing' -> Bundle],
           \A e \in DOMAIN spawning : entity'[e] = spawning[e],
           \A e \in Existing \ gone : entity'[e].id = entity[e].id,
           DOMAIN spawning' = {}, despawning' = despawning \ gone,
           despawning = {} \/ \A e \in added : entity[e].kind = "npc",
           added' = added \cup DOMAIN spawning, died' \subseteq Existing',
           UNCHANGED <<taken, idMap, spawnEvents, dropEvents>>
    PROVE  /\ Looked' /\ Unique' /\ Accounted'
           /\ spawning' \in [DOMAIN spawning' -> Bundle] => Buffered'
<1>1. gone \subseteq Existing /\ gone \cap added = {} /\ gone \cap DOMAIN spawning = {}
  BY DEF Inv, Buffered, Scheduled
<1>2. DOMAIN spawning \cap Existing = {} /\ added \subseteq Existing
  BY DEF Inv, Buffered
<1>3. Looked'
  BY <1>1, <1>2 DEF Inv, Looked
<1>4. Unique'
  <2>1. \A e \in Existing' : \/ e \in DOMAIN spawning /\ entity'[e].id = spawning[e].id
                             \/ e \in Existing /\ entity'[e].id = entity[e].id
    BY <1>1, <1>2
  <2>2. QED
    BY <2>1 DEF Inv, Unique
<1>5. Accounted'
  <2>1. ASSUME NEW i, i \in taken'
        PROVE  i \in DOMAIN idMap' \/ \E e \in Existing' : entity'[e].id = i
    <3>1. CASE \E e \in DOMAIN spawning : spawning[e].id = i
      BY <1>1, <3>1
    <3>2. CASE \E e \in Existing \ gone : entity[e].id = i
      BY <3>2
    <3>3. CASE \E e \in gone : entity[e].id = i
      BY <1>1, <3>3 DEF Inv, Looked
    <3>4. QED
      BY <2>1, <3>1, <3>2, <3>3 DEF Inv, Accounted
  <2>2. ASSUME NEW e \in Existing' PROVE entity'[e].id \in taken'
    BY <1>1, <1>2 DEF Inv, Accounted
  <2>3. \A i \in DOMAIN idMap' : i \in taken'
    BY DEF Inv, Accounted
  <2>4. QED
    BY <2>1, <2>2, <2>3 DEF Accounted
<1>6. Existing' \subseteq Entities /\ despawning' \subseteq Existing' /\ added' \subseteq Existing'
  BY <1>1, <1>2 DEF Inv, Buffered
<1>7. QED
  BY <1>3, <1>4, <1>5, <1>6 DEF Inv, Buffered

\* maintain_entities returns the ids of the entities that are gone, and of no
\* other: an entity there is stands in the lookup under its own id.
LEMMA MaintainKeeps == Inv /\ maintain_entities => Inv'
<1> SUFFICES ASSUME Inv, maintain_entities PROVE Inv'
  OBVIOUS
<1> DEFINE alive == {i \in DOMAIN idMap : idMap[i] \in Existing}
<1>1. /\ phase = "maintain_entities" /\ phase' = "disconnected"
      /\ idMap' = RestrictTo(idMap, alive) /\ taken' = taken \ (DOMAIN idMap \ alive)
      /\ UNCHANGED <<entity, spawning, despawning, added, died, spawnEvents, dropEvents>>
  BY DEF maintain_entities, Then, world, events, news
<1>2. DOMAIN idMap' = alive /\ \A i \in alive : idMap'[i] = idMap[i]
  BY <1>1 DEF RestrictTo, Restrict
<1>3. DOMAIN spawning = {} /\ despawning = {} /\ died = {} /\ \A e \in added : entity[e].kind = "npc"
  BY <1>1 DEF Inv, Scheduled, NoSpawns, PreUpdate, NoDespawns, NoDeaths, Adding
<1>4. Buffered' /\ Unique'
  BY <1>1 DEF Inv, Buffered, Unique, Existing
<1>5. Scheduled'
  BY <1>1, <1>3 DEF Inv, Scheduled, Existing
<1>6. Looked'
  BY <1>1, <1>2, <1>3 DEF Inv, Looked, Existing
<1>7. Accounted'
  <2>1. \A e \in Existing : entity[e].id \in taken'
    BY <1>1 DEF Inv, Accounted, Looked
  <2>2. \A i \in taken' : i \in alive \/ \E e \in Existing : entity[e].id = i
    BY <1>1, <1>3 DEF Inv, Accounted
  <2>3. \A i \in alive : i \in taken'
    BY <1>1 DEF Inv, Accounted
  <2>4. QED
    BY <1>1, <1>2, <1>3, <2>1, <2>2, <2>3 DEF Accounted, Existing
<1>8. QED
  BY <1>4, <1>5, <1>6, <1>7 DEF Inv

\* collect_entities enters what is new this tick, each under its own id.
LEMMA CollectKeeps == Inv /\ collect_entities => Inv'
<1> SUFFICES ASSUME Inv, collect_entities PROVE Inv'
  OBVIOUS
<1> DEFINE entityOf(i) == CHOOSE e \in added : entity[e].id = i
           ids == {entity[e].id : e \in added}
<1>1. /\ phase = "collect_entities" /\ phase' = "collect_monster_deaths"
      /\ idMap' = Over([i \in ids |-> entityOf(i)], idMap) /\ added' = {}
      /\ UNCHANGED <<entity, spawning, despawning, taken, died, spawnEvents, dropEvents>>
  BY DEF collect_entities, Then, world, events
<1>2. \A e \in added : entityOf(entity[e].id) = e
  BY DEF Inv, Unique, Buffered
<1>3. /\ DOMAIN idMap' = ids \cup DOMAIN idMap
      /\ \A e \in added : idMap'[entity[e].id] = e
      /\ \A i \in DOMAIN idMap \ ids : idMap'[i] = idMap[i]
  BY <1>1, <1>2 DEF Over
<1>4. DOMAIN spawning = {} /\ despawning = {}
  BY <1>1 DEF Inv, Scheduled, NoSpawns, NoDespawns
<1>5. Buffered' /\ Unique'
  BY <1>1 DEF Inv, Buffered, Unique, Existing
<1>6. Scheduled'
  BY <1>1, <1>4 DEF Inv, Scheduled, Existing, NoDeaths, PreUpdate, Adding
<1>7. Looked'
  <2>1. \A e \in Existing \ added : entity[e].id \notin ids
    BY DEF Inv, Unique, Buffered
  <2>2. QED
    BY <1>1, <1>3, <1>4, <2>1 DEF Inv, Looked, Existing
<1>8. Accounted'
  BY <1>1, <1>3 DEF Inv, Accounted, Existing, Buffered
<1>9. QED
  BY <1>5, <1>6, <1>7, <1>8 DEF Inv

\* A system that spawns nothing, and leaves the pool and the lookup alone.
LEMMA FrameKeeps ==
    ASSUME Inv, UNCHANGED <<entity, spawning, taken, idMap, added>>,
           despawning' \subseteq Existing, died' \subseteq Existing,
           spawnEvents' \in Nat, dropEvents' \in Nat
    PROVE  Buffered' /\ Looked' /\ Unique' /\ Accounted'
<1>1. Existing' = Existing
  BY DEF Existing
<1>2. Buffered'
  BY <1>1 DEF Inv, Buffered
<1>3. QED
  BY <1>1, <1>2 DEF Inv, Looked, Unique, Accounted

\* The systems of PreUpdate despawn a disconnected player at most.
LEMMA PreUpdateKeeps ==
    ASSUME Inv, disconnected \/ update_player_activity \/ update_timers
    PROVE  Inv'
<1>1. CASE disconnected
  <2>1. /\ phase = "disconnected" /\ phase' = "update_player_activity"
        /\ UNCHANGED <<entity, spawning, taken, idMap, added, died, spawnEvents, dropEvents>>
    BY <1>1 DEF disconnected, Then, lookups, events, news
  <2>2. despawning' \subseteq Existing /\ \A e \in despawning' : entity[e].kind # "npc"
    <3>1. despawning' = despawning \/ \E e \in OfKind("player") : despawning' = {e}
      BY <1>1 DEF disconnected
    <3>2. QED
      BY <3>1 DEF Inv, Buffered, Scheduled, OfKind
  <2>3. Buffered' /\ Looked' /\ Unique' /\ Accounted'
    BY <2>1, <2>2, FrameKeeps DEF Inv, Buffered
  <2>4. Scheduled'
    BY <2>1, <2>2 DEF Inv, Scheduled, Existing, NoSpawns, PreUpdate, NoDespawns, NoDeaths, Adding
  <2>5. QED
    BY <2>3, <2>4 DEF Inv
<1>2. CASE update_player_activity \/ update_timers
  <2>1. /\ \/ phase = "update_player_activity" /\ phase' = "update_timers"
           \/ phase = "update_timers" /\ phase' = "ApplyPreUpdate"
        /\ UNCHANGED <<entity, spawning, despawning, taken, idMap, added, died, dropEvents>>
    BY <1>2 DEF update_player_activity, update_timers, Then, world, lookups, events, news
  <2>2. spawnEvents' \in Nat
    BY <1>2 DEF update_player_activity, update_timers, events, Inv, Buffered
  <2>3. Buffered' /\ Looked' /\ Unique' /\ Accounted'
    BY <2>1, <2>2, FrameKeeps DEF Inv, Buffered
  <2>4. Scheduled'
    BY <2>1 DEF Inv, Scheduled, Existing, NoSpawns, PreUpdate, NoDespawns, NoDeaths, Adding
  <2>5. QED
    BY <2>3, <2>4 DEF Inv
<1>3. QED
  BY <1>1, <1>2

\* The end of PreUpdate, in which nothing was spawned.
LEMMA ApplyPreUpdateKeeps == Inv /\ ApplyPreUpdate => Inv'
<1> SUFFICES ASSUME Inv, ApplyPreUpdate PROVE Inv'
  OBVIOUS
<1>1. /\ phase = "ApplyPreUpdate" /\ phase' = "spawn_monsters"
      /\ spawning' = << >> /\ despawning' = {}
      /\ entity' = [e \in (DOMAIN spawning \cup Existing) \ despawning |->
                        IF e \in DOMAIN spawning THEN spawning[e] ELSE entity[e]]
      /\ UNCHANGED <<taken, idMap, added, died, spawnEvents, dropEvents>>
  BY DEF ApplyPreUpdate, Then, Flush, events, news
<1>2. DOMAIN spawning = {} /\ died = {} /\ \A e \in added : entity[e].kind = "npc"
  BY <1>1 DEF Inv, Scheduled, NoSpawns, PreUpdate, NoDeaths, Adding
<1>3. Existing' = Existing \ despawning /\ \A e \in Existing' : entity'[e] = entity[e]
  BY <1>1, <1>2 DEF Existing
<1>4. entity' \in [Existing' -> Bundle]
  BY <1>1, <1>2, <1>3 DEF Inv, Buffered
<1>5. DOMAIN spawning' = {} /\ spawning' \in [DOMAIN spawning' -> Bundle]
  BY <1>1
<1>6. Buffered' /\ Looked' /\ Unique' /\ Accounted'
  <2>1. added' = added \cup DOMAIN spawning /\ died' \subseteq Existing' /\ despawning' = despawning \ despawning
    BY <1>1, <1>2
  <2>2. QED
    BY <1>1, <1>2, <1>3, <1>4, <1>5, <2>1, FlushKeeps
<1>7. Scheduled'
  <2>1. \A e \in added' : entity'[e].kind = "npc"
    <3>1. added' \subseteq Existing'
      BY <1>6 DEF Buffered
    <3>2. QED
      BY <1>1, <1>2, <1>3, <3>1
  <2>2. \A e \in Existing' : entity'[e].dead => entity'[e].kind = "monster"
    BY <1>3 DEF Inv, Scheduled
  <2>3. QED
    BY <1>1, <1>2, <1>5, <2>1, <2>2 DEF Scheduled
<1>8. QED
  BY <1>6, <1>7 DEF Inv

\* Spawners spawn monsters, which are alive, and despawn monsters.
LEMMA SpawnMonstersKeeps == Inv /\ spawn_monsters => Inv'
<1> SUFFICES ASSUME Inv, spawn_monsters PROVE Inv'
  OBVIOUS
<1>1. /\ phase = "spawn_monsters" /\ phase' = "do_spawn_mobs"
      /\ UNCHANGED <<entity, idMap, added, died, spawnEvents, dropEvents>>
  BY DEF spawn_monsters, Then, events, news
<1>2. /\ Buffered' /\ Looked' /\ Unique' /\ Accounted'
      /\ \A e \in DOMAIN spawning' : ~spawning'[e].dead
      /\ \A e \in despawning' : entity[e].kind # "npc"
  <2>1. ASSUME NEW s \in Spawners, NEW n \in Nat, NEW on, SpawnCounted(s, n, on), UNCHANGED despawning
        PROVE  <1>2!:
    <3>1. PICK placed \in 0..n : Spawn(placed, "monster", s, None)
      BY <2>1 DEF SpawnCounted
    <3>2. placed \in Nat /\ "monster" \in Kinds
      BY DEF Kinds
    <3>3. despawning' \subseteq Existing /\ spawnEvents' \in Nat /\ dropEvents' \in Nat
      BY <1>1, <2>1 DEF Inv, Buffered
    <3>4. Buffered' /\ Looked' /\ Unique' /\ Accounted' /\ \A e \in DOMAIN spawning' : ~spawning'[e].dead
      BY <1>1, <3>1, <3>2, <3>3, SpawnKeeps
    <3>5. QED
      BY <2>1, <3>4 DEF Inv, Scheduled
  <2>2. CASE \E s \in Spawners : activate_spawner(s) \/ refill_spawner(s)
    <3>1. \E s \in Spawners, n \in Nat : SpawnCounted(s, n, TRUE) /\ UNCHANGED despawning
      <4>1. CASE \E s \in Spawners : activate_spawner(s)
        BY <4>1, WorldAssumption DEF activate_spawner
      <4>2. CASE \E s \in Spawners : refill_spawner(s)
        <5>1. PICK s \in Spawners : refill_spawner(s)
          BY <4>2
        <5>2. PICK n \in 1..Min({TargetAmount - spawner[s].current, 3}) : SpawnCounted(s, n, TRUE)
          BY <5>1 DEF refill_spawner
        <5>3. n \in Nat
          BY <5>2
        <5>4. QED
          BY <5>1, <5>2, <5>3 DEF refill_spawner
      <4>3. QED
        BY <2>2, <4>1, <4>2
    <3>2. QED
      BY <3>1, <2>1
  <2>3. CASE \E s \in Spawners : deactivate_spawner(s)
    <3>1. /\ UNCHANGED <<spawning, taken>>
          /\ \E s \in Spawners : despawning' = despawning \cup {e \in OfKind("monster") : entity[e].home = s}
      BY <2>3 DEF deactivate_spawner
    <3>2. despawning' \subseteq Existing /\ \A e \in despawning' : entity[e].kind # "npc"
      BY <3>1 DEF OfKind, Inv, Buffered, Scheduled
    <3>3. Buffered' /\ Looked' /\ Unique' /\ Accounted'
      BY <1>1, <3>1, <3>2, FrameKeeps DEF Inv, Buffered
    <3>4. QED
      BY <3>1, <3>2, <3>3 DEF Inv, Scheduled
  <2>4. CASE UNCHANGED <<spawning, despawning, taken, spawner, lost>>
    <3>1. Buffered' /\ Looked' /\ Unique' /\ Accounted'
      BY <1>1, <2>4, FrameKeeps DEF Inv, Buffered
    <3>2. QED
      BY <2>4, <3>1 DEF Inv, Scheduled
  <2>5. QED
    BY <2>2, <2>3, <2>4 DEF spawn_monsters
<1>3. Scheduled'
  BY <1>1, <1>2 DEF Inv, Scheduled, Existing, NoSpawns, PreUpdate, NoDespawns, NoDeaths, Adding
<1>4. QED
  BY <1>2, <1>3 DEF Inv

\* What the systems spawn that are not spawners.
LEMMA OtherSpawns ==
    ASSUME Inv, do_spawn_mobs \/ handle_join \/ create_drops
    PROVE  \/ UNCHANGED <<spawning, taken>>
           \/ \E n \in Nat, kind \in Kinds, name \in Names \cup {None} :
                /\ Spawn(n, kind, None, name)
                /\ kind = "player" => name \in Names
<1>1. CASE do_spawn_mobs
  <2>1. PICK before \in {0, 1} : Spawn(spawnEvents + before, "monster", None, None)
    BY <1>1 DEF do_spawn_mobs
  <2>2. spawnEvents + before \in Nat /\ "monster" \in Kinds
    BY DEF Kinds, Inv, Buffered
  <2>3. QED
    BY <2>1, <2>2
<1>2. CASE handle_join
  <2>1. UNCHANGED <<spawning, taken>> \/ \E n \in Names : Spawn(1, "player", None, n)
    BY <1>2 DEF handle_join
  <2>2. 1 \in Nat /\ "player" \in Kinds
    BY DEF Kinds
  <2>3. QED
    BY <2>1, <2>2
<1>3. CASE create_drops
  <2>1. Spawn(dropEvents, "drop", None, None)
    BY <1>3 DEF create_drops
  <2>2. dropEvents \in Nat /\ "drop" \in Kinds
    BY DEF Kinds, Inv, Buffered
  <2>3. QED
    BY <2>1, <2>2
<1>4. QED
  BY <1>1, <1>2, <1>3

\* Events, joining players and dropped gold spawn as spawners do.
LEMMA OtherSpawnsKeep ==
    ASSUME Inv, do_spawn_mobs \/ handle_join \/ create_drops
    PROVE  Inv'
<1>1. /\ \/ phase = "do_spawn_mobs" /\ phase' = "handle_join"
         \/ phase = "handle_join" /\ phase' = "monsters"
         \/ phase = "create_drops" /\ phase' = "ApplyPostUpdate" /\ despawning = {}
      /\ UNCHANGED <<entity, idMap, added, died, despawning>>
  BY DEF do_spawn_mobs, handle_join, create_drops, Then, events, news, Inv, Scheduled, NoDespawns
<1>2. spawnEvents' \in Nat /\ dropEvents' \in Nat /\ despawning' \subseteq Existing
  BY <1>1 DEF do_spawn_mobs, handle_join, create_drops, events, Inv, Buffered
<1>3. \/ UNCHANGED <<spawning, taken>>
      \/ \E n \in Nat, kind \in Kinds, name \in Names \cup {None} : Spawn(n, kind, None, name)
  BY OtherSpawns
<1>4. Buffered' /\ Looked' /\ Unique' /\ Accounted' /\ \A e \in DOMAIN spawning' : ~spawning'[e].dead
  <2>1. CASE UNCHANGED <<spawning, taken>>
    BY <1>1, <1>2, <2>1, FrameKeeps DEF Inv, Buffered, Scheduled
  <2>2. CASE \E n \in Nat, kind \in Kinds, name \in Names \cup {None} : Spawn(n, kind, None, name)
    BY <1>1, <1>2, <2>2, SpawnKeeps
  <2>3. QED
    BY <1>3, <2>1, <2>2
<1>5. Scheduled'
  BY <1>1, <1>4 DEF Inv, Scheduled, Existing, NoSpawns, PreUpdate, NoDespawns, NoDeaths, Adding
<1>6. QED
  BY <1>4, <1>5 DEF Inv

\* A monster dies, or a corpse or a drop goes: no NPC does either.
LEMMA MonstersKeep == Inv /\ monsters => Inv'
<1> SUFFICES ASSUME Inv, monsters PROVE Inv'
  OBVIOUS
<1>1. /\ phase = "monsters" /\ phase' = "player_update_target"
      /\ UNCHANGED <<entity, spawning, taken, idMap, added, spawnEvents>>
  BY DEF monsters, Then, lookups
<1>2. /\ died' \subseteq Existing /\ \A e \in died' : entity[e].kind = "monster"
      /\ despawning' \subseteq Existing /\ \A e \in despawning' : entity[e].kind # "npc"
      /\ dropEvents' \in Nat
  <2>1. CASE \E e \in OfKind("monster") : drop_gold(e)
    <3>1. PICK e \in OfKind("monster") : drop_gold(e)
      BY <2>1
    <3>2. died' = {e} /\ dropEvents' \in {0, 1} /\ despawning' = despawning
      BY <3>1 DEF drop_gold
    <3>3. QED
      BY <3>1, <3>2 DEF OfKind, Inv, Buffered, Scheduled
  <2>2. CASE \E e \in Existing : tick_drop(e) \/ dead(e)
    <3>1. PICK e \in Existing : tick_drop(e) \/ dead(e)
      BY <2>2
    <3>2. /\ despawning' = despawning \cup {e} /\ died' = died /\ dropEvents' = dropEvents
          /\ entity[e].dead \/ entity[e].kind = "drop"
      BY <3>1 DEF tick_drop, dead
    <3>3. entity[e].kind # "npc"
      BY <3>1, <3>2 DEF Inv, Scheduled
    <3>4. QED
      BY <3>1, <3>2, <3>3 DEF Inv, Buffered, Scheduled
  <2>3. CASE UNCHANGED <<died, despawning, dropEvents>>
    BY <2>3 DEF Inv, Buffered, Scheduled
  <2>4. QED
    BY <2>1, <2>2, <2>3 DEF monsters
<1>3. Buffered' /\ Looked' /\ Unique' /\ Accounted'
  BY <1>1, <1>2, FrameKeeps DEF Inv, Buffered
<1>4. Scheduled'
  BY <1>1, <1>2 DEF Inv, Scheduled, Existing, NoSpawns, PreUpdate, NoDespawns, NoDeaths, Adding
<1>5. QED
  BY <1>3, <1>4 DEF Inv

\* Targets are no business of the pool; nor is a spawner's count.
LEMMA OthersKeep ==
    ASSUME Inv, player_update_target \/ deselect_despawned \/ collect_monster_deaths
    PROVE  Inv'
<1>1. /\ \/ phase = "player_update_target" /\ phase' = "deselect_despawned" /\ died' = died
         \/ phase = "deselect_despawned" /\ phase' = "ApplyUpdate" /\ died' = died
         \/ phase = "collect_monster_deaths" /\ phase' = "maintain_entities" /\ died' = {}
      /\ UNCHANGED <<entity, spawning, despawning, taken, idMap, added, spawnEvents, dropEvents>>
  BY DEF player_update_target, deselect_despawned, collect_monster_deaths, Then, world, lookups,
         events, news
<1>2. Buffered' /\ Looked' /\ Unique' /\ Accounted'
  BY <1>1, FrameKeeps DEF Inv, Buffered
<1>3. Scheduled'
  BY <1>1 DEF Inv, Scheduled, Existing, NoSpawns, PreUpdate, NoDespawns, NoDeaths, Adding
<1>4. QED
  BY <1>2, <1>3 DEF Inv

\* What ApplyUpdate makes of the entities: those spawned come, those despawned go,
\* and those that died are dead.
LEMMA ApplyUpdateIs ==
    ASSUME Inv, ApplyUpdate
    PROVE  /\ phase = "ApplyUpdate" /\ phase' = "create_drops"
           /\ spawning' = << >> /\ despawning' = {} /\ died' = died \ despawning
           /\ added' = added \cup DOMAIN spawning
           /\ UNCHANGED <<taken, idMap, playerMap, spawner, lost, spawnEvents, dropEvents>>
           /\ Existing' = (DOMAIN spawning \cup Existing) \ despawning
           /\ \A e \in DOMAIN spawning : entity'[e] = spawning[e]
           /\ \A e \in died \ despawning : entity'[e] = [entity[e] EXCEPT !.dead = TRUE]
           /\ \A e \in Existing \ (died \cup despawning) : entity'[e] = entity[e]
           /\ entity' \in [Existing' -> Bundle]
<1> DEFINE corpses == [e \in died |-> [entity[e] EXCEPT !.dead = TRUE]]
<1>1. /\ phase = "ApplyUpdate" /\ phase' = "create_drops"
      /\ spawning' = << >> /\ despawning' = {} /\ died' = died \ despawning
      /\ added' = added \cup DOMAIN spawning
      /\ UNCHANGED <<taken, idMap, playerMap, spawner, lost, spawnEvents, dropEvents>>
  BY DEF ApplyUpdate, Then, events
<1>2. PICK new : new = Over(spawning, corpses)
  OBVIOUS
<1>3. entity' = [e \in (DOMAIN new \cup Existing) \ despawning |-> IF e \in DOMAIN new THEN new[e] ELSE entity[e]]
  BY <1>2, Zenon DEF ApplyUpdate, Flush
<1>4. /\ DOMAIN spawning \cap Existing = {} /\ died \subseteq Existing /\ despawning \subseteq Existing
      /\ entity \in [Existing -> Bundle] /\ spawning \in [DOMAIN spawning -> Bundle]
  BY DEF Inv, Buffered
<1>5. DOMAIN corpses = died /\ \A e \in died : corpses[e] = [entity[e] EXCEPT !.dead = TRUE]
  BY Zenon
<1> HIDE DEF corpses
<1>6. /\ DOMAIN new = DOMAIN spawning \cup died
      /\ \A e \in DOMAIN spawning : new[e] = spawning[e]
      /\ \A e \in died : new[e] = corpses[e]
  BY <1>2, <1>4, <1>5 DEF Over
<1>7. /\ Existing' = (DOMAIN spawning \cup Existing) \ despawning
      /\ \A e \in DOMAIN spawning : entity'[e] = spawning[e]
      /\ \A e \in died \ despawning : entity'[e] = corpses[e]
      /\ \A e \in Existing \ (died \cup despawning) : entity'[e] = entity[e]
  BY <1>3, <1>4, <1>6 DEF Existing
<1>8. \A b \in Bundle : [b EXCEPT !.dead = TRUE] \in Bundle
  BY DEF Bundle
<1>9. entity' \in [Existing' -> Bundle]
  <2>1. \A e \in Existing' : entity'[e] \in Bundle
    <3>1. SUFFICES ASSUME NEW e \in Existing' PROVE entity'[e] \in Bundle
      OBVIOUS
    <3>2. CASE e \in DOMAIN spawning
      BY <1>4, <1>7, <3>2
    <3>3. CASE e \in died
      <4>1. entity[e] \in Bundle /\ entity'[e] = corpses[e] /\ corpses[e] = [entity[e] EXCEPT !.dead = TRUE]
        BY <1>4, <1>5, <1>7, <3>3
      <4>2. QED
        BY <1>8, <4>1
    <3>4. CASE e \in Existing \ died
      BY <1>4, <1>7, <3>4
    <3>5. QED
      BY <1>7, <3>2, <3>3, <3>4
  <2>2. entity' = [e \in Existing' |-> entity'[e]]
    BY <1>3 DEF Existing
  <2>3. QED
    BY <2>1, <2>2
<1>10. \A e \in died \ despawning : entity'[e] = [entity[e] EXCEPT !.dead = TRUE]
  BY <1>5, <1>7, Zenon
<1>11. QED
  BY <1>1, <1>7, <1>9, <1>10, Zenon

\* The Dead component changes nothing else.
LEMMA DeadBundle ==
    ASSUME NEW b \in Bundle
    PROVE  LET d == [b EXCEPT !.dead = TRUE]
           IN  d \in Bundle /\ d.id = b.id /\ d.kind = b.kind /\ d.home = b.home /\ d.name = b.name /\ d.dead
  BY DEF Bundle

\* The end of Update: no entity the lookup does not know of is among the gone.
LEMMA ApplyUpdateKeeps == Inv /\ ApplyUpdate => Inv'
<1> SUFFICES ASSUME Inv, ApplyUpdate PROVE Inv'
  OBVIOUS
<1> USE ApplyUpdateIs
<1>1. /\ DOMAIN spawning \cap Existing = {} /\ died \subseteq Existing /\ despawning \subseteq Existing
      /\ \A e \in Existing : entity[e] \in Bundle
  BY DEF Inv, Buffered
<1>2. \A e \in died \ despawning : /\ entity'[e].id = entity[e].id
                                   /\ entity'[e].kind = entity[e].kind /\ entity'[e].dead
  <2>1. SUFFICES ASSUME NEW e \in died \ despawning
                 PROVE  /\ entity'[e].id = entity[e].id /\ entity'[e].kind = entity[e].kind
                        /\ entity'[e].dead
    OBVIOUS
  <2>2. entity[e] \in Bundle /\ entity'[e] = [entity[e] EXCEPT !.dead = TRUE]
    BY <1>1, Zenon
  <2>3. QED
    BY <2>2, DeadBundle
<1>3. \A e \in Existing \ despawning : entity'[e].id = entity[e].id /\ entity'[e].kind = entity[e].kind
  BY <1>2
<1>4. \A e \in added : entity[e].kind = "npc"
  BY DEF Inv, Scheduled, Adding
<1>5. DOMAIN spawning' = {} /\ spawning' \in [DOMAIN spawning' -> Bundle]
  OBVIOUS
<1>6. Buffered' /\ Looked' /\ Unique' /\ Accounted'
  <2>1. despawning' = despawning \ despawning /\ died' \subseteq Existing'
    BY <1>1
  <2>2. QED
    BY <1>3, <1>4, <1>5, <2>1, FlushKeeps
<1>7. Scheduled'
  <2>1. \A e \in Existing' : entity'[e].dead => entity'[e].kind = "monster"
    <3>1. SUFFICES ASSUME NEW e \in Existing', entity'[e].dead PROVE entity'[e].kind = "monster"
      OBVIOUS
    <3>2. CASE e \in DOMAIN spawning
      BY <3>1, <3>2 DEF Inv, Scheduled
    <3>3. CASE e \in died \ despawning
      BY <1>2, <3>3 DEF Inv, Scheduled
    <3>4. CASE e \in Existing \ (died \cup despawning)
      BY <3>1, <3>4 DEF Inv, Scheduled
    <3>5. QED
      BY <3>2, <3>3, <3>4
  <2>2. \A e \in died' : entity'[e].kind = "monster" /\ entity'[e].dead
    BY <1>2 DEF Inv, Scheduled
  <2>3. QED
    BY <1>5, <2>1, <2>2 DEF Scheduled, NoDeaths, PreUpdate, Adding
<1>8. QED
  BY <1>6, <1>7 DEF Inv

\* The end of PostUpdate, in which nothing is despawned.
LEMMA ApplyPostUpdateKeeps == Inv /\ ApplyPostUpdate => Inv'
<1> SUFFICES ASSUME Inv, ApplyPostUpdate PROVE Inv'
  OBVIOUS
<1>1. /\ phase = "ApplyPostUpdate" /\ phase' = "collect_entities"
      /\ spawning' = << >>
      /\ entity' = [e \in (DOMAIN spawning \cup Existing) \ {} |->
                        IF e \in DOMAIN spawning THEN spawning[e] ELSE entity[e]]
      /\ added' = added \cup DOMAIN spawning
      /\ UNCHANGED <<taken, idMap, despawning, died, spawnEvents, dropEvents>>
  BY DEF ApplyPostUpdate, Then, Flush, events, lookups
<1>2. /\ DOMAIN spawning \cap Existing = {} /\ died \subseteq Existing /\ despawning = {}
      /\ entity \in [Existing -> Bundle] /\ spawning \in [DOMAIN spawning -> Bundle]
  BY <1>1 DEF Inv, Buffered, Scheduled, NoDespawns
<1>3. /\ Existing' = DOMAIN spawning \cup Existing
      /\ \A e \in DOMAIN spawning : entity'[e] = spawning[e]
      /\ \A e \in Existing : entity'[e] = entity[e]
  BY <1>1, <1>2 DEF Existing
<1>4. entity' \in [Existing' -> Bundle]
  BY <1>1, <1>2, <1>3
<1>5. DOMAIN spawning' = {} /\ spawning' \in [DOMAIN spawning' -> Bundle]
  BY <1>1
<1>6. Buffered' /\ Looked' /\ Unique' /\ Accounted'
  <2>1. Existing' = (DOMAIN spawning \cup Existing) \ {} /\ despawning' = despawning \ {} /\ died' \subseteq Existing'
    BY <1>1, <1>2, <1>3
  <2>2. QED
    BY <1>1, <1>2, <1>3, <1>4, <1>5, <2>1, FlushKeeps
<1>7. Scheduled'
  <2>1. \A e \in Existing' : entity'[e].dead => entity'[e].kind = "monster"
    BY <1>3 DEF Inv, Scheduled
  <2>2. \A e \in died' : entity'[e].kind = "monster" /\ entity'[e].dead
    BY <1>1, <1>2, <1>3 DEF Inv, Scheduled, Adding
  <2>3. QED
    BY <1>1, <1>2, <1>5, <2>1, <2>2 DEF Scheduled, NoDeaths, PreUpdate, Adding
<1>8. QED
  BY <1>6, <1>7 DEF Inv

\* Every step of a tick keeps the invariant.
LEMMA InvStep == Inv /\ [Next]_vars => Inv'
<1> SUFFICES ASSUME Inv, [Next]_vars PROVE Inv'
  OBVIOUS
<1>1. CASE UNCHANGED vars
  BY <1>1 DEF vars, world, lookups, events, news, Inv, Buffered, Scheduled, Looked, Unique, Accounted,
              Existing
<1>2. CASE Next
  BY <1>2, MaintainKeeps, PreUpdateKeeps, ApplyPreUpdateKeeps, SpawnMonstersKeeps, OtherSpawnsKeep,
     MonstersKeep, OthersKeep, ApplyUpdateKeeps, ApplyPostUpdateKeeps, CollectKeeps DEF Next
<1>3. QED
  BY <1>1, <1>2

\* What the invariant says of the pool.
LEMMA InvAccounts == Inv => IdsAccounted
<1> SUFFICES ASSUME Inv PROVE IdsAccounted
  OBVIOUS
<1>1. /\ DOMAIN Bodies = DOMAIN spawning \cup Existing
      /\ \A e \in DOMAIN spawning : Bodies[e] = spawning[e]
      /\ \A e \in Existing : Bodies[e] = entity[e]
  BY DEF Inv, Buffered, Bodies, Over, Existing
<1>2. \A e, f \in DOMAIN Bodies : Bodies[e].id = Bodies[f].id => e = f
  BY <1>1 DEF Inv, Unique
<1>3. {b.id : b \in Range(Bodies)} = {Bodies[e].id : e \in DOMAIN Bodies}
  BY DEF Range
<1>4. taken = {Bodies[e].id : e \in DOMAIN Bodies} \cup DOMAIN idMap
  BY <1>1 DEF Inv, Accounted
<1>5. QED
  BY <1>2, <1>3, <1>4 DEF IdsAccounted

\* In every world, an id that the pool has given out names one entity, there or
\* about to be, or is in the lookup, which returns it: none is handed out twice
\* and none is lost, in whichever order joining, spawning, dying and
\* disconnecting happen.  (IdPool, collect_entities, maintain_entities)
THEOREM EveryIdAccounted == Spec => []IdsAccounted
<1>1. Spec => []Inv
  BY InvInit, InvStep, PTL DEF Spec
<1>2. QED
  BY <1>1, InvAccounts, PTL

-----------------------------------------------------------------------------
(* Spawners.  A spawner's monsters are those in the world that are alive,  *)
(* or whose death it is yet to collect, and those in the command buffer.   *)
Of(b, s) == b.kind = "monster" /\ b.home = s

Living(s) ==
    {e \in Existing \ despawning : Of(entity[e], s) /\ (~entity[e].dead \/ e \in died)}
    \cup {e \in DOMAIN spawning : Of(spawning[e], s)}

\* An inactive spawner counts nothing, so that activating it does not exceed the
\* amount it is to keep.
Counts ==
    /\ spawner \in [Spawners -> [active : BOOLEAN, current : 0..TargetAmount]]
    /\ lost \in [Spawners -> Nat]
    /\ \A s \in Spawners : ~spawner[s].active => spawner[s].current = 0
    /\ \A s \in Spawners : spawner[s].current = Cardinality(Living(s)) + lost[s]

\* There are finitely many of them.
LEMMA LivingFinite ==
    ASSUME Inv, NEW s
    PROVE  IsFiniteSet(Living(s)) /\ Cardinality(Living(s)) \in Nat
<1>1. IsFiniteSet(Entities)
  BY WorldAssumption, FS_Interval DEF Entities
<1>2. Living(s) \subseteq Entities
  BY DEF Living, Inv, Buffered
<1>3. QED
  BY <1>1, <1>2, FS_Subset, FS_CardinalityType

\* No monster is there yet.
LEMMA CountsInit == Init => Counts
<1> SUFFICES ASSUME Init PROVE Counts
  OBVIOUS
<1>1. \A s \in Spawners : /\ spawner[s] = [active |-> FALSE, current |-> 0] /\ lost[s] = 0
  BY DEF Init
<1>2. \A s \in Spawners : Living(s) = {}
  BY DEF Init, Living, Existing, Of
<1>3. spawner \in [Spawners -> [active : BOOLEAN, current : 0..TargetAmount]] /\ lost \in [Spawners -> Nat]
  BY WorldAssumption DEF Init
<1>4. QED
  BY <1>1, <1>2, <1>3, FS_EmptySet DEF Counts

\* Where neither the count nor the monsters change, neither does what they say.
LEMMA SameCounts ==
    ASSUME Counts, UNCHANGED <<spawner, lost>>, \A s \in Spawners : Living(s)' = Living(s)
    PROVE  Counts'
  BY DEF Counts

\* A spawn of n monsters of a spawner adds as many to its monsters, and none to
\* those of another; a spawn of anything else adds none.
LEMMA SpawnedLiving ==
    ASSUME Inv, NEW n \in Nat, NEW kind, NEW home, NEW name, Spawn(n, kind, home, name),
           UNCHANGED <<entity, despawning, died>>, NEW s \in Spawners
    PROVE  IF kind = "monster" /\ home = s
           THEN Cardinality(Living(s)') = Cardinality(Living(s)) + n
           ELSE Living(s)' = Living(s)
<1>1. PICK new : new = Bundles(n, kind, home, name)
  OBVIOUS
<1>2. spawning' = Over(new, spawning) /\ CanSpawn(n)
  BY <1>1 DEF Spawn
<1>3. /\ DOMAIN new \subseteq Fresh /\ IsFiniteSet(DOMAIN new) /\ Cardinality(DOMAIN new) = n
      /\ \A e \in DOMAIN new :
           new[e] = [id |-> new[e].id, kind |-> kind, home |-> home, name |-> name, dead |-> FALSE]
  BY <1>1, <1>2, BundlesAre
<1>4. DOMAIN new \cap Existing = {} /\ DOMAIN new \cap DOMAIN spawning = {}
  BY <1>3 DEF Fresh, Referenced
<1>5. /\ DOMAIN spawning' = DOMAIN new \cup DOMAIN spawning
      /\ \A e \in DOMAIN new : spawning'[e] = new[e]
      /\ \A e \in DOMAIN spawning : spawning'[e] = spawning[e]
  BY <1>2, <1>4 DEF Over
<1>6. \A e \in DOMAIN new : Of(new[e], s) <=> kind = "monster" /\ home = s
  <2>1. \A i : Of([id |-> i, kind |-> kind, home |-> home, name |-> name, dead |-> FALSE], s)
               <=> kind = "monster" /\ home = s
    BY DEF Of
  <2>2. QED
    BY <1>3, <2>1
<1>7. CASE ~(kind = "monster" /\ home = s)
  <2>1. Living(s)' = Living(s)
    BY <1>5, <1>6, <1>7 DEF Living, Existing
  <2>2. QED
    BY <1>7, <2>1
<1>8. CASE kind = "monster" /\ home = s
  <2>1. Living(s)' = Living(s) \cup DOMAIN new /\ Living(s) \cap DOMAIN new = {}
    BY <1>4, <1>5, <1>6, <1>8 DEF Living, Existing
  <2>2. Cardinality(Living(s)') = Cardinality(Living(s)) + n
    <3>1. Cardinality(Living(s) \cup DOMAIN new) = Cardinality(Living(s)) + n - Cardinality({})
      BY <1>3, <2>1, LivingFinite, FS_Union
    <3>2. QED
      BY <2>1, <3>1, LivingFinite, FS_EmptySet
  <2>3. QED
    BY <1>8, <2>2
<1>9. QED
  BY <1>7, <1>8

\* Activating a spawner fills it up, deactivating it empties it, and a refill adds
\* no more than there are spots; what found no place is counted all the same.
LEMMA CountsSpawnMonsters ==
    ASSUME Inv, Counts, spawn_monsters
    PROVE  Counts'
<1>1. /\ phase = "spawn_monsters" /\ UNCHANGED <<entity, died>>
  BY DEF spawn_monsters, Then, news
<1>2. DOMAIN spawning = {} /\ died = {}
  BY <1>1 DEF Inv, Scheduled, NoSpawns, NoDeaths
<1>3. ASSUME NEW s \in Spawners, NEW n \in Nat, SpawnCounted(s, n, TRUE), UNCHANGED despawning,
             spawner[s].current + n <= TargetAmount
      PROVE  Counts'
  <2>1. PICK placed \in 0..n :
          /\ Spawn(placed, "monster", s, None)
          /\ spawner' = [spawner EXCEPT ![s] = [active |-> TRUE, current |-> @.current + n]]
          /\ lost' = [lost EXCEPT ![s] = @ + n - placed]
    BY <1>3 DEF SpawnCounted
  <2>2. \A t \in Spawners : IF t = s THEN Cardinality(Living(s)') = Cardinality(Living(s)) + placed
                                     ELSE Living(t)' = Living(t)
    BY <1>1, <1>3, <2>1, SpawnedLiving
  <2>3. /\ spawner[s].current \in Nat /\ lost[s] \in Nat /\ Cardinality(Living(s)) \in Nat
        /\ spawner[s].current = Cardinality(Living(s)) + lost[s]
    BY LivingFinite DEF Counts
  <2>4. \A t \in Spawners : /\ t = s => /\ spawner'[t] = [active |-> TRUE, current |-> spawner[s].current + n]
                                        /\ lost'[t] = lost[s] + n - placed
                            /\ t # s => spawner'[t] = spawner[t] /\ lost'[t] = lost[t]
    BY <2>1 DEF Counts
  <2>5. /\ spawner' \in [Spawners -> [active : BOOLEAN, current : 0..TargetAmount]]
        /\ lost' \in [Spawners -> Nat]
    <3>1. [active |-> TRUE, current |-> spawner[s].current + n] \in [active : BOOLEAN, current : 0..TargetAmount]
      BY <1>3, <2>3, WorldAssumption
    <3>2. lost[s] + n - placed \in Nat
      BY <2>3
    <3>3. QED
      BY <2>1, <3>1, <3>2 DEF Counts
  <2>6. \A t \in Spawners : ~spawner'[t].active => spawner'[t].current = 0
    BY <2>4 DEF Counts
  <2>7. \A t \in Spawners : spawner'[t].current = Cardinality(Living(t)') + lost'[t]
    <3>1. SUFFICES ASSUME NEW t \in Spawners PROVE spawner'[t].current = Cardinality(Living(t)') + lost'[t]
      OBVIOUS
    <3>2. CASE t = s
      <4>1. spawner'[t].current = spawner[s].current + n /\ lost'[t] = lost[s] + n - placed
        BY <2>4, <3>2
      <4>2. Cardinality(Living(t)') = Cardinality(Living(s)) + placed
        BY <2>2, <3>2
      <4>3. QED
        BY <2>3, <4>1, <4>2
    <3>3. CASE t # s
      BY <2>2, <2>4, <3>3 DEF Counts
    <3>4. QED
      BY <3>2, <3>3
  <2>8. QED
    BY <2>5, <2>6, <2>7 DEF Counts
<1>4. CASE \E s \in Spawners : activate_spawner(s)
  <2>1. PICK s \in Spawners : activate_spawner(s)
    BY <1>4
  <2>2. spawner[s].current = 0
    BY <2>1 DEF activate_spawner, Counts
  <2>3. /\ TargetAmount \in Nat /\ spawner[s].current + TargetAmount <= TargetAmount
        /\ SpawnCounted(s, TargetAmount, TRUE) /\ UNCHANGED despawning
    <3>1. SpawnCounted(s, TargetAmount, TRUE) /\ UNCHANGED despawning
      BY <2>1 DEF activate_spawner
    <3>2. TargetAmount \in Nat /\ 0 + TargetAmount <= TargetAmount
      BY WorldAssumption
    <3>3. QED
      BY <2>2, <3>1, <3>2
  <2>4. QED
    BY <1>3, <2>3
<1>5. CASE \E s \in Spawners : refill_spawner(s)
  <2>1. PICK s \in Spawners : refill_spawner(s)
    BY <1>5
  <2> DEFINE spots == TargetAmount - spawner[s].current
  <2>2. PICK n \in 1..Min({spots, 3}) : SpawnCounted(s, n, TRUE)
    BY <2>1 DEF refill_spawner
  <2>3. spots \in Nat /\ spawner[s].current \in Nat
    BY <2>1, WorldAssumption DEF refill_spawner, Counts
  <2>4. Min({spots, 3}) \in {spots, 3} /\ Min({spots, 3}) <= spots
    <3>1. \E x \in {spots, 3} : \A y \in {spots, 3} : x <= y
      BY <2>3
    <3>2. QED
      BY <3>1 DEF Min
  <2>5. n \in Nat /\ n <= spots
    BY <2>2, <2>3, <2>4
  <2>6. spawner[s].current + n <= TargetAmount
    BY <2>3, <2>5, WorldAssumption
  <2>7. QED
    BY <1>3, <2>1, <2>2, <2>5, <2>6 DEF refill_spawner
<1>6. CASE \E s \in Spawners : deactivate_spawner(s)
  <2>1. PICK s \in Spawners : deactivate_spawner(s)
    BY <1>6
  <2>2. /\ despawning' = despawning \cup {e \in OfKind("monster") : entity[e].home = s}
        /\ spawner' = [spawner EXCEPT ![s] = [active |-> FALSE, current |-> 0]]
        /\ lost' = [lost EXCEPT ![s] = 0]
        /\ UNCHANGED <<spawning, taken>>
    BY <2>1 DEF deactivate_spawner
  <2>3. Living(s)' = {} /\ \A t \in Spawners \ {s} : Living(t)' = Living(t)
    BY <1>1, <1>2, <2>2 DEF Living, Existing, Of, OfKind
  <2>4. \A t \in Spawners : /\ t = s => spawner'[t] = [active |-> FALSE, current |-> 0] /\ lost'[t] = 0
                            /\ t # s => spawner'[t] = spawner[t] /\ lost'[t] = lost[t]
    BY <2>2 DEF Counts
  <2>5. /\ spawner' \in [Spawners -> [active : BOOLEAN, current : 0..TargetAmount]]
        /\ lost' \in [Spawners -> Nat]
    BY <2>2, WorldAssumption DEF Counts
  <2>6. ASSUME NEW t \in Spawners
        PROVE  /\ ~spawner'[t].active => spawner'[t].current = 0
               /\ spawner'[t].current = Cardinality(Living(t)') + lost'[t]
    <3>1. CASE t = s
      BY <2>3, <2>4, <3>1, FS_EmptySet
    <3>2. CASE t # s
      BY <2>3, <2>4, <3>2 DEF Counts
    <3>3. QED
      BY <3>1, <3>2
  <2>7. QED
    BY <2>5, <2>6 DEF Counts
<1>7. CASE UNCHANGED <<spawning, despawning, taken, spawner, lost>>
  <2>1. \A s \in Spawners : Living(s)' = Living(s)
    BY <1>1, <1>7 DEF Living, Existing
  <2>2. QED
    BY <1>7, <2>1, SameCounts
<1>8. QED
  BY <1>4, <1>5, <1>6, <1>7 DEF spawn_monsters

\* Deaths are taken off the count when they are collected, as many as there were:
\* the subtraction that saturates never does.
LEMMA CountsDeaths ==
    ASSUME Inv, Counts, collect_monster_deaths
    PROVE  Counts' /\ \A s \in Spawners : Cardinality({e \in died : entity[e].home = s}) <= spawner[s].current
<1> DEFINE dying(s) == {e \in died : entity[e].home = s}
           of(s) == Cardinality(dying(s))
<1>1. /\ phase = "collect_monster_deaths" /\ died' = {}
      /\ UNCHANGED <<entity, spawning, despawning, lost>>
  BY DEF collect_monster_deaths, Then, world
<1>11. spawner' = [s \in Spawners |-> [spawner[s] EXCEPT !.current = decrease_alive_by(@, of(s))]]
  BY Zenon DEF collect_monster_deaths
<1>2. \A s \in Spawners : spawner'[s] = [spawner[s] EXCEPT !.current = decrease_alive_by(@, of(s))]
  BY <1>11, Zenon
<1>3. DOMAIN spawning = {} /\ despawning = {}
  BY <1>1 DEF Inv, Scheduled, NoSpawns, NoDespawns
<1>4. ASSUME NEW s \in Spawners
      PROVE  /\ of(s) \in Nat /\ of(s) <= Cardinality(Living(s))
             /\ Cardinality(Living(s)') = Cardinality(Living(s)) - of(s)
  <2>1. dying(s) \subseteq Living(s) /\ Living(s)' = Living(s) \ dying(s)
    <3>1. \A e \in died : e \in Existing /\ entity[e].kind = "monster" /\ entity[e].dead
      BY <1>1 DEF Inv, Buffered, Scheduled
    <3>2. ASSUME NEW e PROVE e \in Living(s)' <=> e \in Living(s) /\ e \notin dying(s)
      BY <1>1, <1>3, <3>1 DEF Living, Existing, Of
    <3>3. dying(s) \subseteq Living(s)
      BY <1>3, <3>1 DEF Living, Of
    <3>4. QED
      BY <3>2, <3>3
  <2>2. Living(s) \cap dying(s) = dying(s)
    BY <2>1
  <2>3. IsFiniteSet(Living(s)) /\ Cardinality(Living(s)) \in Nat
    BY LivingFinite
  <2>4. of(s) \in Nat /\ of(s) <= Cardinality(Living(s))
    BY <2>1, <2>3, FS_Subset, FS_CardinalityType
  <2>5. QED
    BY <2>1, <2>2, <2>3, <2>4, FS_Difference
<1> HIDE DEF dying
<1>5. ASSUME NEW r \in [active : BOOLEAN, current : 0..TargetAmount], NEW k \in Nat, k <= r.current
      PROVE  LET q == [r EXCEPT !.current = decrease_alive_by(@, k)]
             IN  /\ q \in [active : BOOLEAN, current : 0..TargetAmount]
                 /\ q.active = r.active /\ q.current = r.current - k
  BY <1>5, WorldAssumption DEF decrease_alive_by
<1>6. ASSUME NEW s \in Spawners
      PROVE  /\ spawner'[s] \in [active : BOOLEAN, current : 0..TargetAmount]
             /\ spawner'[s].active = spawner[s].active /\ spawner'[s].current = spawner[s].current - of(s)
             /\ of(s) <= spawner[s].current
  <2>1. spawner[s] \in [active : BOOLEAN, current : 0..TargetAmount] /\ lost[s] \in Nat
    BY DEF Counts
  <2>2. of(s) <= spawner[s].current
    BY <1>4, <2>1, LivingFinite DEF Counts
  <2>3. PICK k \in Nat : k = of(s)
    BY <1>4
  <2>4. PICK r \in [active : BOOLEAN, current : 0..TargetAmount] : r = spawner[s]
    BY <2>1
  <2>5. spawner'[s] = [r EXCEPT !.current = decrease_alive_by(@, k)]
    BY <1>2, <2>3, <2>4, Zenon
  <2>6. k <= r.current
    BY <2>2, <2>3, <2>4
  <2>7. QED
    BY <1>5, <2>2, <2>3, <2>4, <2>5, <2>6
<1>7. spawner' \in [Spawners -> [active : BOOLEAN, current : 0..TargetAmount]]
  <2>1. spawner' = [s \in Spawners |-> spawner'[s]]
    BY <1>11, Zenon
  <2>2. QED
    BY <1>6, <2>1
<1>8. \A s \in Spawners : ~spawner'[s].active => spawner'[s].current = 0
  <2>1. SUFFICES ASSUME NEW s \in Spawners, ~spawner'[s].active PROVE spawner'[s].current = 0
    OBVIOUS
  <2>2. spawner[s].current = 0 /\ of(s) \in Nat /\ of(s) <= spawner[s].current
    BY <1>4, <1>6, <2>1 DEF Counts
  <2>3. QED
    BY <1>6, <2>2
<1>9. \A s \in Spawners : spawner'[s].current = Cardinality(Living(s)') + lost'[s]
  <2>1. SUFFICES ASSUME NEW s \in Spawners PROVE spawner'[s].current = Cardinality(Living(s)') + lost'[s]
    OBVIOUS
  <2>2. /\ spawner[s].current = Cardinality(Living(s)) + lost[s] /\ lost[s] \in Nat
        /\ Cardinality(Living(s)) \in Nat
    BY LivingFinite DEF Counts
  <2>3. QED
    BY <1>1, <1>4, <1>6, <2>2
<1>10. QED
  BY <1>1, <1>6, <1>7, <1>8, <1>9 DEF Counts, dying

\* Every step of a tick keeps a spawner's count true to its monsters.
LEMMA CountsStep == Inv /\ Counts /\ [Next]_vars => Counts'
<1> SUFFICES ASSUME Inv, Counts, [Next]_vars PROVE Counts'
  OBVIOUS
<1>1. CASE UNCHANGED <<entity, spawning, despawning, died, spawner, lost>>
  <2>1. \A s \in Spawners : Living(s)' = Living(s)
    BY <1>1 DEF Living, Existing
  <2>2. QED
    BY <1>1, <2>1, SameCounts
<1>2. CASE \/ UNCHANGED vars \/ maintain_entities \/ update_player_activity \/ update_timers
           \/ player_update_target \/ deselect_despawned \/ collect_entities
  BY <1>1, <1>2 DEF vars, world, spawners, news, maintain_entities, update_player_activity, update_timers,
                    player_update_target, deselect_despawned, collect_entities
<1>3. CASE disconnected
  <2>1. UNCHANGED <<entity, spawning, died, spawner, lost>> /\ died = {} /\ despawning = {}
    BY <1>3 DEF disconnected, Then, spawners, news, Inv, Scheduled, NoDeaths, PreUpdate, NoDespawns
  <2>2. despawning' = despawning \/ \E e \in OfKind("player") : despawning' = {e}
    BY <1>3 DEF disconnected
  <2>3. \A s \in Spawners : Living(s)' = Living(s)
    BY <2>1, <2>2 DEF Living, Existing, Of, OfKind
  <2>4. QED
    BY <2>1, <2>3, SameCounts
<1>4. CASE ApplyPreUpdate
  <2>1. /\ phase = "ApplyPreUpdate" /\ spawning' = << >> /\ despawning' = {}
        /\ entity' = [e \in (DOMAIN spawning \cup Existing) \ despawning |->
                          IF e \in DOMAIN spawning THEN spawning[e] ELSE entity[e]]
        /\ UNCHANGED <<died, spawner, lost>>
    BY <1>4 DEF ApplyPreUpdate, Then, Flush, news
  <2>2. DOMAIN spawning = {} /\ DOMAIN spawning' = {}
    BY <2>1 DEF Inv, Scheduled, NoSpawns, PreUpdate
  <2>3. Existing' = Existing \ despawning /\ \A e \in Existing' : entity'[e] = entity[e]
    BY <2>1, <2>2 DEF Existing
  <2>4. \A s \in Spawners : Living(s)' = Living(s)
    BY <2>1, <2>2, <2>3 DEF Living
  <2>5. QED
    BY <2>1, <2>4, SameCounts
<1>5. CASE spawn_monsters
  BY <1>5, CountsSpawnMonsters
<1>6. CASE do_spawn_mobs \/ handle_join \/ create_drops
  <2>1. UNCHANGED <<entity, despawning, died, spawner, lost>>
    BY <1>6 DEF do_spawn_mobs, handle_join, create_drops, spawners, news
  <2>2. \/ UNCHANGED spawning
        \/ \E n \in Nat, kind \in Kinds, name \in Names \cup {None} : Spawn(n, kind, None, name)
    BY <1>6, OtherSpawns
  <2>3. \A s \in Spawners : Living(s)' = Living(s)
    <3>1. CASE UNCHANGED spawning
      BY <2>1, <3>1 DEF Living, Existing
    <3>2. CASE \E n \in Nat, kind \in Kinds, name \in Names \cup {None} : Spawn(n, kind, None, name)
      <4>1. \A s \in Spawners : s # None
        BY WorldAssumption
      <4>2. QED
        BY <2>1, <3>2, <4>1, SpawnedLiving
    <3>3. QED
      BY <2>2, <3>1, <3>2
  <2>4. QED
    BY <2>1, <2>3, SameCounts
<1>7. CASE monsters
  <2>1. phase = "monsters" /\ UNCHANGED <<entity, spawning, spawner, lost>> /\ died = {}
    BY <1>7 DEF monsters, Then, Inv, Scheduled, NoDeaths
  <2>2. CASE \E e \in OfKind("monster") : drop_gold(e)
    <3>1. PICK e \in OfKind("monster") : ~entity[e].dead /\ died' = {e} /\ despawning' = despawning
      BY <2>2 DEF drop_gold
    <3>2. \A s \in Spawners : Living(s)' = Living(s)
      BY <2>1, <3>1 DEF Living, Existing
    <3>3. QED
      BY <2>1, <3>2, SameCounts
  <2>3. CASE \E e \in Existing : tick_drop(e) \/ dead(e)
    <3>1. PICK e \in Existing : /\ entity[e].dead \/ entity[e].kind = "drop"
                                /\ died' = died /\ despawning' = despawning \cup {e}
      BY <2>3 DEF tick_drop, dead
    <3>2. \A s \in Spawners : Living(s)' = Living(s)
      BY <2>1, <3>1 DEF Living, Existing, Of
    <3>3. QED
      BY <2>1, <3>2, SameCounts
  <2>4. CASE UNCHANGED <<died, despawning>>
    BY <1>1, <2>1, <2>4
  <2>5. QED
    BY <1>7, <2>2, <2>3, <2>4 DEF monsters
<1>8. CASE ApplyUpdate
  <2> USE <1>8, ApplyUpdateIs
  <2>1. /\ DOMAIN spawning \cap Existing = {} /\ died \subseteq Existing /\ despawning \subseteq Existing
        /\ \A e \in Existing : entity[e] \in Bundle
    BY DEF Inv, Buffered
  <2>2. \A e \in died \ despawning : \A s : Of(entity'[e], s) <=> Of(entity[e], s)
    <3>1. SUFFICES ASSUME NEW e \in died \ despawning, NEW s PROVE Of(entity'[e], s) <=> Of(entity[e], s)
      OBVIOUS
    <3>2. entity[e] \in Bundle /\ entity'[e] = [entity[e] EXCEPT !.dead = TRUE]
      BY <2>1, Zenon
    <3>3. QED
      BY <3>2, DeadBundle DEF Of
  <2>3. \A e \in DOMAIN spawning : ~spawning[e].dead
    BY DEF Inv, Scheduled
  <2>4. DOMAIN spawning' = {}
    OBVIOUS
  <2>5. \A s \in Spawners : Living(s)' = Living(s)
    <3>1. ASSUME NEW s \in Spawners, NEW e PROVE e \in Living(s)' <=> e \in Living(s)
      <4>1. e \in Living(s)' <=> /\ e \in Existing' /\ Of(entity'[e], s)
                                 /\ ~entity'[e].dead \/ e \in died'
        BY <2>4 DEF Living
      <4>2. CASE e \in DOMAIN spawning
        BY <2>1, <2>3, <4>1, <4>2 DEF Living
      <4>3. CASE e \in died
        BY <2>1, <2>2, <4>1, <4>3 DEF Living
      <4>4. CASE e \in Existing \ died
        BY <2>1, <4>1, <4>4 DEF Living
      <4>5. CASE e \notin Existing /\ e \notin DOMAIN spawning
        BY <4>1, <4>5 DEF Living
      <4>6. QED
        BY <4>2, <4>3, <4>4, <4>5
    <3>2. QED
      BY <3>1
  <2>6. QED
    BY <2>5, SameCounts
<1>9. CASE ApplyPostUpdate
  <2>1. /\ phase = "ApplyPostUpdate" /\ spawning' = << >>
        /\ entity' = [e \in (DOMAIN spawning \cup Existing) \ {} |->
                          IF e \in DOMAIN spawning THEN spawning[e] ELSE entity[e]]
        /\ UNCHANGED <<died, despawning, spawner, lost>>
    BY <1>9 DEF ApplyPostUpdate, Then, Flush
  <2>2. /\ DOMAIN spawning \cap Existing = {} /\ despawning = {} /\ died \subseteq Existing
        /\ \A e \in DOMAIN spawning : ~spawning[e].dead
    BY <2>1 DEF Inv, Buffered, Scheduled, NoDespawns
  <2>3. /\ Existing' = DOMAIN spawning \cup Existing
        /\ \A e \in DOMAIN spawning : entity'[e] = spawning[e]
        /\ \A e \in Existing : entity'[e] = entity[e]
    BY <2>1, <2>2 DEF Existing
  <2>4. \A s \in Spawners : Living(s)' = Living(s)
    BY <2>1, <2>2, <2>3 DEF Living
  <2>5. QED
    BY <2>1, <2>4, SameCounts
<1>10. CASE collect_monster_deaths
  BY <1>10, CountsDeaths
<1>11. QED
  BY <1>2, <1>3, <1>4, <1>5, <1>6, <1>7, <1>8, <1>9, <1>10 DEF Next

\* In every world a spawner's count is that of its living monsters, of those
\* killed whose deaths it is yet to collect, and of those it never found a place for:
\* no order of activating, refilling, killing and deactivating makes it drift.
\* (Spawner, spawn_n_monsters, collect_monster_deaths)
THEOREM EverySpawnerCounts == Spec => []SpawnersCount
<1>1. Spec => [](Inv /\ Counts)
  BY InvInit, InvStep, CountsInit, CountsStep, PTL DEF Spec
<1>2. ASSUME Inv, Counts PROVE SpawnersCount
  <2>1. /\ DOMAIN Bodies = DOMAIN spawning \cup Existing
        /\ \A e \in DOMAIN spawning : Bodies[e] = spawning[e]
        /\ \A e \in Existing : Bodies[e] = entity[e]
    BY <1>2 DEF Inv, Buffered, Bodies, Over, Existing
  <2>2. /\ DOMAIN spawning \cap Existing = {} /\ despawning \subseteq Existing /\ died \subseteq Existing
        /\ \A e \in DOMAIN spawning : ~spawning[e].dead
    BY <1>2 DEF Inv, Buffered, Scheduled
  <2>3. \A s \in Spawners :
          Living(s) = {e \in DOMAIN Bodies : /\ Bodies[e].kind = "monster" /\ Bodies[e].home = s
                                             /\ ~Bodies[e].dead \/ e \in died} \ despawning
    BY <2>1, <2>2 DEF Living, Of
  <2>4. QED
    BY <1>2, <2>3 DEF SpawnersCount, Counts
<1>3. QED
  BY <1>1, <1>2, PTL

-----------------------------------------------------------------------------
(* Targets.  A target request is only buffered within Update, for an       *)
(* entity there is; and what deselect_despawned finds is still so when its *)
(* buffer is applied, as no entity comes or goes in between.               *)
Targeting ==
    /\ phase \in {"deselect_despawned", "ApplyUpdate"} => Range(retarget) \subseteq Existing
    /\ phase \notin {"deselect_despawned", "ApplyUpdate"} => DOMAIN retarget = {}
    /\ DOMAIN untarget = {"asked", "gone"}
    /\ phase = "ApplyUpdate" => \A p \in DOMAIN target \ untarget.gone : target[p] \in Existing

\* Every step keeps it.
LEMMA TargetingStep == Targeting /\ [Next]_vars => Targeting'
<1> SUFFICES ASSUME Targeting, [Next]_vars PROVE Targeting'
  OBVIOUS
<1>1. CASE UNCHANGED vars
  BY <1>1 DEF vars, world, targets, Targeting, Existing, Range
<1>2. CASE \/ maintain_entities \/ disconnected \/ update_player_activity \/ update_timers
           \/ ApplyPreUpdate \/ spawn_monsters \/ do_spawn_mobs \/ handle_join \/ monsters
           \/ create_drops \/ ApplyPostUpdate \/ collect_entities \/ collect_monster_deaths
  <2>1. /\ UNCHANGED <<retarget, untarget>>
        /\ phase \notin {"deselect_despawned", "ApplyUpdate"}
        /\ phase' \notin {"deselect_despawned", "ApplyUpdate"}
    BY <1>2 DEF maintain_entities, disconnected, update_player_activity, update_timers, ApplyPreUpdate,
                spawn_monsters, do_spawn_mobs, handle_join, monsters, create_drops, ApplyPostUpdate,
                collect_entities, collect_monster_deaths, Then, targets
  <2>2. QED
    BY <2>1 DEF Targeting
<1>3. CASE player_update_target
  <2>1. /\ phase = "player_update_target" /\ phase' = "deselect_despawned" /\ Existing' = Existing
    BY <1>3 DEF player_update_target, Then, world, Existing
  <2>2. DOMAIN retarget = {} /\ DOMAIN untarget = {"asked", "gone"}
    BY <2>1 DEF Targeting
  <2>3. DOMAIN untarget' = {"asked", "gone"}
    BY <1>3, <2>2 DEF player_update_target
  <2>4. retarget' = retarget \/ \E p : \E i \in DOMAIN idMap : idMap[i] \in Existing /\ retarget' = [x \in {p} |-> idMap[i]]
    BY <1>3 DEF player_update_target
  <2>5. Range(retarget') \subseteq Existing
    BY <2>2, <2>4 DEF Range
  <2>6. QED
    BY <2>1, <2>3, <2>5 DEF Targeting
<1>4. CASE deselect_despawned
  <2>1. /\ phase = "deselect_despawned" /\ phase' = "ApplyUpdate" /\ UNCHANGED <<entity, target, retarget>>
        /\ untarget' = [untarget EXCEPT !.gone = {p \in DOMAIN target : target[p] \notin Existing}]
    BY <1>4 DEF deselect_despawned, Then, world
  <2>2. DOMAIN untarget = {"asked", "gone"} /\ Range(retarget) \subseteq Existing
    BY <2>1 DEF Targeting
  <2>3. untarget'.gone = {p \in DOMAIN target : target[p] \notin Existing} /\ DOMAIN untarget' = {"asked", "gone"}
    BY <2>1, <2>2
  <2>4. QED
    BY <2>1, <2>2, <2>3 DEF Targeting, Existing, Range
<1>5. CASE ApplyUpdate
  <2>1. phase' = "create_drops" /\ DOMAIN retarget' = {} /\ untarget' = [asked |-> {}, gone |-> {}]
    BY <1>5 DEF ApplyUpdate, Then
  <2>2. DOMAIN untarget' = {"asked", "gone"}
    BY <2>1
  <2>3. QED
    BY <2>1, <2>2 DEF Targeting
<1>6. QED
  BY <1>1, <1>2, <1>3, <1>4, <1>5 DEF Next

\* In every world, what is a target after Update existed before it, even if a
\* target request, an untarget request and a disconnect meet in one tick and the
\* id has been given to another.  (player_update_target, deselect_despawned)
THEOREM EveryTargetLetGo == Spec => TargetsLetGo
<1>1. Init => Targeting
  <2>1. SUFFICES ASSUME Init PROVE Targeting
    OBVIOUS
  <2>2. DOMAIN retarget = {} /\ untarget = [asked |-> {}, gone |-> {}] /\ phase = "maintain_entities"
    BY <2>1 DEF Init
  <2>3. QED
    BY <2>2 DEF Targeting
<1>2. ASSUME Targeting, [Next]_vars PROVE [phase = "ApplyUpdate" => Range(target') \subseteq Existing]_vars
  <2>1. SUFFICES ASSUME Next, phase = "ApplyUpdate" PROVE Range(target') \subseteq Existing
    BY <1>2
  <2>2. ApplyUpdate
    BY <2>1 DEF Next, maintain_entities, disconnected, update_player_activity, update_timers, ApplyPreUpdate,
                spawn_monsters, do_spawn_mobs, handle_join, monsters, player_update_target,
                deselect_despawned, create_drops, ApplyPostUpdate, collect_entities,
                collect_monster_deaths, Then
  <2>3. PICK last \in SUBSET untarget.gone :
          LET kept == (DOMAIN target \ untarget.gone) \cup DOMAIN retarget
          IN  target' = [p \in (kept \ (untarget.asked \cup last)) \ despawning |->
                            IF p \in DOMAIN retarget THEN retarget[p] ELSE target[p]]
    BY <2>2, Zenon DEF ApplyUpdate
  <2>4. \A p \in DOMAIN target' : /\ p \in DOMAIN retarget \/ p \in DOMAIN target \ untarget.gone
                                  /\ target'[p] = IF p \in DOMAIN retarget THEN retarget[p] ELSE target[p]
    BY <2>3
  <2>5. \A p \in DOMAIN target' : target'[p] \in Existing
    BY <1>2, <2>1, <2>4 DEF Targeting, Range
  <2>6. QED
    BY <2>5 DEF Range
<1>3. QED
  BY <1>1, <1>2, TargetingStep, PTL DEF Spec, TargetsLetGo

-----------------------------------------------------------------------------
(* Types.  What joins as a player has a name, and whatever refers to an    *)
(* entity refers to one there is or was.                                   *)
NamedBundle(b) == b.kind = "player" => b.name \in Names

Referring ==
    /\ \A e \in Existing : NamedBundle(entity[e])
    /\ \A e \in DOMAIN spawning : NamedBundle(spawning[e])
    /\ DOMAIN playerMap \subseteq Names
    /\ Range(idMap) \cup Range(playerMap) \cup Range(target) \cup Range(retarget) \subseteq Entities

\* Spawns and buffers keep players named.
LEMMA NamesStep ==
    ASSUME Inv, Referring, Next
    PROVE  /\ \A e \in Existing' : NamedBundle(entity'[e])
           /\ \A e \in DOMAIN spawning' : NamedBundle(spawning'[e])
<1>1. ASSUME NEW n \in Nat, NEW kind, NEW home, NEW name, Spawn(n, kind, home, name),
             kind = "player" => name \in Names, UNCHANGED entity
      PROVE  /\ \A e \in Existing' : NamedBundle(entity'[e])
             /\ \A e \in DOMAIN spawning' : NamedBundle(spawning'[e])
  <2>1. PICK new : new = Bundles(n, kind, home, name)
    OBVIOUS
  <2>2. spawning' = Over(new, spawning) /\ CanSpawn(n)
    BY <1>1, <2>1 DEF Spawn
  <2>3. \A e \in DOMAIN new :
          new[e] = [id |-> new[e].id, kind |-> kind, home |-> home, name |-> name, dead |-> FALSE]
    BY <2>1, <2>2, BundlesAre
  <2>4. \A e \in DOMAIN new : NamedBundle(new[e])
    <3>1. \A i : NamedBundle([id |-> i, kind |-> kind, home |-> home, name |-> name, dead |-> FALSE])
      BY <1>1 DEF NamedBundle
    <3>2. QED
      BY <2>3, <3>1
  <2>5. \A e \in DOMAIN spawning' : \/ e \in DOMAIN new /\ spawning'[e] = new[e]
                                    \/ e \in DOMAIN spawning /\ spawning'[e] = spawning[e]
    BY <2>2 DEF Over
  <2>6. QED
    BY <1>1, <2>4, <2>5 DEF Referring, Existing
<1>2. CASE UNCHANGED <<entity, spawning>>
  BY <1>2 DEF Referring, Existing
<1>3. CASE \/ maintain_entities \/ disconnected \/ update_player_activity \/ update_timers
           \/ monsters \/ player_update_target \/ deselect_despawned
           \/ collect_entities \/ collect_monster_deaths
  BY <1>2, <1>3 DEF maintain_entities, disconnected, update_player_activity, update_timers, monsters,
                    player_update_target, deselect_despawned, collect_entities,
                    collect_monster_deaths, world
<1>4. CASE spawn_monsters
  <2>1. UNCHANGED entity
    BY <1>4 DEF spawn_monsters
  <2>2. CASE \E s \in Spawners : \E n : SpawnCounted(s, n, TRUE)
    <3>1. PICK s \in Spawners : \E n : SpawnCounted(s, n, TRUE)
      BY <2>2
    <3>2. PICK n : SpawnCounted(s, n, TRUE)
      BY <3>1
    <3>3. PICK placed \in 0..n : Spawn(placed, "monster", s, None)
      BY <3>2 DEF SpawnCounted
    <3>4. placed \in Nat
      BY <3>3
    <3>5. QED
      BY <1>1, <2>1, <3>3, <3>4
  <2>3. CASE UNCHANGED spawning
    BY <1>2, <2>1, <2>3
  <2>4. QED
    BY <1>4, <2>2, <2>3 DEF spawn_monsters, activate_spawner, deactivate_spawner, refill_spawner
<1>5. CASE do_spawn_mobs \/ handle_join \/ create_drops
  <2>1. UNCHANGED entity
    BY <1>5 DEF do_spawn_mobs, handle_join, create_drops
  <2>2. QED
    BY <1>1, <1>2, <1>5, <2>1, OtherSpawns
<1>6. CASE ApplyPreUpdate \/ ApplyPostUpdate
  <2>1. DOMAIN spawning' = {}
    BY <1>6 DEF ApplyPreUpdate, ApplyPostUpdate
  <2>2. \E gone : entity' = [e \in (DOMAIN spawning \cup Existing) \ gone |->
                                IF e \in DOMAIN spawning THEN spawning[e] ELSE entity[e]]
    BY <1>6, Zenon DEF ApplyPreUpdate, ApplyPostUpdate, Flush
  <2>3. \A e \in Existing' : \/ e \in DOMAIN spawning /\ entity'[e] = spawning[e]
                             \/ e \in Existing /\ entity'[e] = entity[e]
    BY <2>2 DEF Existing
  <2>4. QED
    BY <2>1, <2>3 DEF Referring
<1>7. CASE ApplyUpdate
  <2> USE <1>7, ApplyUpdateIs
  <2>1. DOMAIN spawning' = {}
    OBVIOUS
  <2>2. \A e \in died \ despawning : NamedBundle(entity'[e])
    <3>1. SUFFICES ASSUME NEW e \in died \ despawning PROVE NamedBundle(entity'[e])
      OBVIOUS
    <3>2. e \in Existing /\ entity[e] \in Bundle /\ entity'[e] = [entity[e] EXCEPT !.dead = TRUE]
      <4>1. e \in Existing /\ entity[e] \in Bundle
        BY DEF Inv, Buffered
      <4>2. entity'[e] = [entity[e] EXCEPT !.dead = TRUE]
        BY Zenon
      <4>3. QED
        BY <4>1, <4>2, Zenon
    <3>3. entity'[e].kind = entity[e].kind /\ entity'[e].name = entity[e].name
      BY <3>2, DeadBundle
    <3>4. QED
      BY <3>2, <3>3 DEF NamedBundle, Referring
  <2>3. \A e \in Existing' : \/ e \in DOMAIN spawning /\ entity'[e] = spawning[e]
                             \/ e \in died \ despawning
                             \/ e \in Existing /\ entity'[e] = entity[e]
    OBVIOUS
  <2>4. \A e \in Existing' : NamedBundle(entity'[e])
    BY <2>2, <2>3 DEF Referring
  <2>5. QED
    BY <2>1, <2>4
<1>8. QED
  BY <1>3, <1>4, <1>5, <1>6, <1>7 DEF Next

\* The lookup and the targets refer to entities there are or were.
LEMMA ReferencesStep ==
    ASSUME Inv, Referring, Next
    PROVE  /\ DOMAIN playerMap' \subseteq Names
           /\ Range(idMap') \cup Range(playerMap') \cup Range(target') \cup Range(retarget') \subseteq Entities
<1>1. ASSUME NEW f, NEW S, Range(f) \subseteq Entities
      PROVE  DOMAIN RestrictTo(f, S) \subseteq DOMAIN f /\ Range(RestrictTo(f, S)) \subseteq Entities
  BY <1>1 DEF RestrictTo, Restrict, Range
<1>2. /\ Range(idMap) \subseteq Entities /\ Range(playerMap) \subseteq Entities
      /\ Range(target) \subseteq Entities /\ Range(retarget) \subseteq Entities
      /\ DOMAIN playerMap \subseteq Names
  BY DEF Referring
<1>3. Existing \subseteq Entities /\ added \subseteq Existing
  BY DEF Inv, Buffered
<1>4. CASE maintain_entities
  BY <1>1, <1>2, <1>4 DEF maintain_entities, targets
<1>5. CASE \/ disconnected \/ update_player_activity \/ update_timers \/ spawn_monsters \/ do_spawn_mobs
           \/ handle_join \/ monsters \/ deselect_despawned \/ create_drops \/ ApplyPostUpdate
           \/ collect_monster_deaths
  <2>1. UNCHANGED <<idMap, playerMap, target, retarget>>
    BY <1>5 DEF disconnected, update_player_activity, update_timers, spawn_monsters, do_spawn_mobs,
                handle_join, monsters, deselect_despawned, create_drops, ApplyPostUpdate,
                collect_monster_deaths, lookups, targets
  <2>2. QED
    BY <1>2, <2>1
<1>6. CASE ApplyPreUpdate
  BY <1>1, <1>2, <1>6 DEF ApplyPreUpdate
<1>7. CASE player_update_target
  <2>1. UNCHANGED <<idMap, playerMap, target>>
    BY <1>7 DEF player_update_target, lookups
  <2>2. retarget' = retarget \/ \E p : \E i \in DOMAIN idMap : retarget' = [x \in {p} |-> idMap[i]]
    BY <1>7 DEF player_update_target
  <2>3. Range(retarget') \subseteq Entities
    BY <1>2, <2>2 DEF Range
  <2>4. QED
    BY <1>2, <2>1, <2>3
<1>8. CASE ApplyUpdate
  <2>1. UNCHANGED <<idMap, playerMap>> /\ Range(retarget') = {}
    BY <1>8 DEF ApplyUpdate, Range
  <2>2. PICK last \in SUBSET untarget.gone :
          LET kept == (DOMAIN target \ untarget.gone) \cup DOMAIN retarget
          IN  target' = [p \in (kept \ (untarget.asked \cup last)) \ despawning |->
                            IF p \in DOMAIN retarget THEN retarget[p] ELSE target[p]]
    BY <1>8, Zenon DEF ApplyUpdate
  <2>3. Range(target') \subseteq Range(target) \cup Range(retarget)
    BY <2>2 DEF Range
  <2>4. QED
    BY <1>2, <2>1, <2>3
<1>9. CASE collect_entities
  <2> DEFINE players == {e \in added : entity[e].kind = "player"}
             names == {entity[e].name : e \in players}
             ids == {entity[e].id : e \in added}
             entityOf(i) == CHOOSE e \in added : entity[e].id = i
  <2>1. UNCHANGED <<target, retarget>> /\ idMap' = Over([i \in ids |-> entityOf(i)], idMap)
    BY <1>9 DEF collect_entities, targets
  <2>2. PICK chosen \in [names -> players] : playerMap' = Over(chosen, playerMap)
    BY <1>9 DEF collect_entities
  <2>3. \A i \in ids : entityOf(i) \in added
    OBVIOUS
  <2>4. Range(idMap') \subseteq Entities
    <3>1. \A i \in DOMAIN idMap' : idMap'[i] \in added \/ idMap'[i] \in Range(idMap)
      BY <2>1, <2>3 DEF Over, Range
    <3>2. QED
      BY <1>2, <1>3, <3>1 DEF Range
  <2>5. names \subseteq Names
    BY <1>3 DEF Referring, NamedBundle
  <2>6. DOMAIN playerMap' \subseteq Names /\ Range(playerMap') \subseteq Entities
    <3>1. DOMAIN playerMap' = names \cup DOMAIN playerMap
      BY <2>2 DEF Over
    <3>2. \A n \in DOMAIN playerMap' : playerMap'[n] \in players \/ playerMap'[n] \in Range(playerMap)
      BY <2>2 DEF Over, Range
    <3>3. QED
      BY <1>2, <1>3, <2>5, <3>1, <3>2 DEF Range
  <2>7. QED
    BY <1>2, <2>1, <2>4, <2>6
<1>10. QED
  BY <1>4, <1>5, <1>6, <1>7, <1>8, <1>9 DEF Next

\* In every world everything has its type: above all, no spawner counts more than
\* its amount, so that Spawner::available_spots never subtracts below zero.
THEOREM WorldTyped == Spec => []TypeOK
<1>1. Init => Referring
  <2>1. SUFFICES ASSUME Init PROVE Referring
    OBVIOUS
  <2>2. /\ Existing = {1} /\ entity[1].kind = "npc" /\ DOMAIN spawning = {} /\ DOMAIN idMap = {}
        /\ DOMAIN playerMap = {} /\ DOMAIN target = {} /\ DOMAIN retarget = {}
    BY <2>1 DEF Init, Existing
  <2>3. QED
    BY <2>2 DEF Referring, NamedBundle, Range
<1>2. Inv /\ Referring /\ [Next]_vars => Referring'
  <2>1. CASE UNCHANGED vars
    BY <2>1 DEF vars, world, lookups, targets, Referring, Existing, Range
  <2>2. QED
    BY <2>1, NamesStep, ReferencesStep DEF Referring
<1>3. Spec => [](Inv /\ Counts /\ Referring)
  BY <1>1, <1>2, InvInit, InvStep, CountsInit, CountsStep, PTL DEF Spec
<1>4. ASSUME Inv, Counts, Referring PROVE TypeOK
  <2>1. Range(entity) \subseteq Bundle /\ Range(spawning) \subseteq Bundle
    BY <1>4 DEF Inv, Buffered, Range
  <2>2. DOMAIN idMap \subseteq Ids
    BY <1>4 DEF Inv, Buffered, Accounted
  <2>3. \A s \in Spawners : spawner[s].active \in BOOLEAN /\ spawner[s].current \in 0..TargetAmount
    BY <1>4 DEF Counts
  <2>4. QED
    BY <1>4, <2>1, <2>2, <2>3 DEF TypeOK, Inv, Buffered, Referring, Existing
<1>5. QED
  BY <1>3, <1>4, PTL

=============================================================================
