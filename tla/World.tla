------------------------------- MODULE World -------------------------------
(***************************************************************************)
(* The world of the agent: the pool of unique ids, the lookup from ids and *)
(* names to entities, the spawners, unique monsters, drops and targets.    *)
(* (silkroad-agent/src/world, comp/spawner.rs, game/{spawn,unique,drop,    *)
(* target,player_activity}.rs, net/net.rs)                                 *)
(*                                                                         *)
(* `phase' runs through the systems of a tick.  Systems read the entities  *)
(* there are and put what they spawn, insert and despawn into command      *)
(* buffers, which are applied at the end of a schedule (ApplyPreUpdate,    *)
(* ApplyUpdate, ApplyPostUpdate).  The systems of a schedule that have no  *)
(* configured order run here in one order: they share only the id pool,    *)
(* and which of two spawns gets which of two free ids makes no difference. *)
(***************************************************************************)
EXTENDS Integers, FiniteSets, FiniteSetsExt, Functions

CONSTANTS Names,         \* names of characters
          Spawners,      \* monster spawners; each is alone in its region
          TargetAmount,  \* monsters of a spawner (SpawnOptions::amount)
          MaxEntities,   \* bound: entities there are or that are referred to
          MaxHappenings, \* bound: joins, disconnects, walks, deaths, summons, targets
          None

ASSUME WorldAssumption ==
    /\ TargetAmount \in Nat
    /\ MaxEntities \in Nat \ {0}
    /\ None \notin Names \cup Spawners \cup Nat

Entities == 1..MaxEntities
Ids == Entities
Kinds == {"player", "npc", "monster", "drop"}

VARIABLES
    phase,       \* the system that runs next
    entity,      \* the entities there are, by identity, and their components
    spawning,    \* those in a command buffer
    despawning,  \* those with a despawn in a command buffer
    taken,       \* EntityIdPool: the ids given out
    idMap,       \* EntityLookup::id_map
    playerMap,   \* EntityLookup::player_map
    spawner,     \* the Spawner components
    lost,        \* for each spawner, monsters counted that had no position
    near,        \* players that are in or beside a spawner's region
    activity,    \* PlayerActivity, of this tick's PreUpdate
    spawnEvents, \* unread SpawnMonster events
    dropEvents,  \* unread SpawnDrop events
    target,      \* the Target components
    retarget,    \* Target insertions in a command buffer
    untarget,    \* Target removals in the buffers of the two systems
    added,       \* entities whose GameEntity or PlayerBundle is new this tick
    died,        \* entities whose Dead is new this tick
    happened     \* how much has happened of what the bound counts

world == <<entity, spawning, despawning>>
lookups == <<taken, idMap, playerMap>>
spawners == <<spawner, lost, near, activity>>
targets == <<target, retarget, untarget>>
events == <<spawnEvents, dropEvents>>
news == <<added, died>>
vars == <<phase, happened, world, lookups, spawners, events, targets, news>>

-----------------------------------------------------------------------------
(* Entities *)

\* The entries of f, and those of g for what f does not have.
Over(f, g) == [x \in DOMAIN f \cup DOMAIN g |-> IF x \in DOMAIN f THEN f[x] ELSE g[x]]

Existing == DOMAIN entity
Bodies == Over(spawning, entity)
OfKind(k) == {e \in Existing : entity[e].kind = k}

\* An identity is used again only once nothing holds on to it: Entity carries a
\* generation, so that no two entities are ever mistaken for each other.
Referenced ==
    Existing \cup DOMAIN spawning \cup Range(idMap) \cup Range(playerMap)
    \cup Range(target) \cup Range(retarget)

Fresh == Entities \ Referenced
Nth(S, n) == CHOOSE x \in S : Cardinality({y \in S : y <= x}) = n

\* What `n' spawns add: the lowest free ids, each with a new entity.
\* (IdPool::request_id)
Requested(n) == {Nth(Ids \ taken, i) : i \in 1..n}
Bundles(n, kind, home, name) ==
    [e \in {Nth(Fresh, i) : i \in 1..n} |->
        [id |-> Nth(Ids \ taken, Cardinality({f \in Fresh : f <= e})),
         kind |-> kind, home |-> home, name |-> name, dead |-> FALSE]]
CanSpawn(n) == /\ Cardinality(Fresh) >= n
               /\ Cardinality(Ids \ taken) >= n

\* cmd.spawn of `n' bundles.
Spawn(n, kind, home, name) ==
    /\ CanSpawn(n)
    /\ spawning' = Over(Bundles(n, kind, home, name), spawning)
    /\ taken' = taken \cup Requested(n)

RestrictTo(f, S) == Restrict(f, S \cap DOMAIN f)

-----------------------------------------------------------------------------
(* Startup *)

\* An NPC, and one inactive spawner for each position of a monster.
\* (spawn_npcs, Spawner::new)
Init ==
    /\ phase = "maintain_entities"
    /\ entity = [e \in {1} |-> [id |-> 1, kind |-> "npc", home |-> None, name |-> None, dead |-> FALSE]]
    /\ taken = {1}
    /\ spawning = << >> /\ despawning = {}
    /\ idMap = << >> /\ playerMap = << >>
    /\ spawner = [s \in Spawners |-> [active |-> FALSE, current |-> 0]]
    /\ lost = [s \in Spawners |-> 0]
    /\ near = [s \in Spawners |-> {}]
    /\ activity = {}
    /\ spawnEvents = 0 /\ dropEvents = 0
    /\ target = << >> /\ retarget = << >>
    /\ untarget = [asked |-> {}, gone |-> {}]
    /\ added = {1} /\ died = {}
    /\ happened = 0

Then(here, next) == phase = here /\ phase' = next

\* Whatever starts with a client, a timer or chance is bounded.
Happen(n) == happened' = happened + n /\ happened' <= MaxHappenings
Quiet == UNCHANGED happened

-----------------------------------------------------------------------------
(* First *)

\* As if ids went back to the pool and stayed in the lookup.
KeepReturnedIds ==
    /\ Then("maintain_entities", "disconnected")
    /\ playerMap' = RestrictTo(playerMap, {n \in DOMAIN playerMap : playerMap[n] \in Existing})
    /\ taken' = taken \ {i \in DOMAIN idMap : idMap[i] \notin Existing}
    /\ UNCHANGED <<happened, idMap, world, spawners, targets, events, news>>

maintain_entities ==
    LET alive == {i \in DOMAIN idMap : idMap[i] \in Existing}
    IN  /\ Then("maintain_entities", "disconnected")
        /\ playerMap' = RestrictTo(playerMap, {n \in DOMAIN playerMap : playerMap[n] \in Existing})
        /\ idMap' = RestrictTo(idMap, alive)
        /\ taken' = taken \ (DOMAIN idMap \ alive)
        /\ UNCHANGED <<happened, world, spawners, targets, events, news>>

-----------------------------------------------------------------------------
(* PreUpdate *)

\* A connection is lost; in most ticks none is.
disconnected ==
    /\ Then("disconnected", "update_player_activity")
    /\ \/ Quiet /\ UNCHANGED despawning
       \/ Happen(1) /\ \E e \in OfKind("player") : despawning' = {e}
    /\ UNCHANGED <<entity, spawning, lookups, spawners, targets, events, news>>

update_player_activity ==
    /\ Then("update_player_activity", "update_timers")
    /\ activity' = {s \in Spawners : near[s] \cap OfKind("player") # {}}
    /\ UNCHANGED <<happened, world, lookups, spawner, lost, near, targets, events, news>>

\* The timer of a unique runs out, whether or not the last one is alive; without
\* a position the unique is lost until the timer runs out again.
update_timers ==
    /\ Then("update_timers", "ApplyPreUpdate")
    /\ \/ Quiet /\ UNCHANGED spawnEvents
       \/ Happen(1) /\ spawnEvents' = spawnEvents + 1
    /\ UNCHANGED <<world, lookups, spawners, dropEvents, targets, news>>

\* Applies a schedule's buffers: spawns, despawns, and components of what is gone
\* go with it.
Flush(new, gone) ==
    LET there == (DOMAIN new \cup Existing) \ gone
    IN  /\ entity' = [e \in there |-> IF e \in DOMAIN new THEN new[e] ELSE entity[e]]
        /\ near' = [s \in Spawners |-> near[s] \ gone]

ApplyPreUpdate ==
    /\ Then("ApplyPreUpdate", "spawn_monsters")
    /\ Flush(spawning, despawning)
    /\ target' = RestrictTo(target, Existing \ despawning)
    /\ spawning' = << >> /\ despawning' = {}
    /\ UNCHANGED <<happened, taken, idMap, playerMap, spawner, lost, activity, events, retarget, untarget, news>>

-----------------------------------------------------------------------------
(* Update *)

\* to_position finds no mesh for some of `n' random positions; all are counted.
\* (spawn_n_monsters)
SpawnCounted(s, n, on) ==
    \E placed \in 0..n :
        /\ Spawn(placed, "monster", s, None)
        /\ spawner' = [spawner EXCEPT ![s] = [active |-> on, current |-> @.current + n]]
        /\ lost' = [lost EXCEPT ![s] = @ + n - placed]

activate_spawner(s) ==
    /\ ~spawner[s].active /\ s \in activity
    /\ SpawnCounted(s, TargetAmount, TRUE)
    /\ UNCHANGED despawning

\* A slip: the count is left as it is.
KeepCount(s) ==
    /\ spawner[s].active /\ s \notin activity
    /\ despawning' = despawning \cup {e \in OfKind("monster") : entity[e].home = s}
    /\ spawner' = [spawner EXCEPT ![s].active = FALSE]
    /\ lost' = [lost EXCEPT ![s] = 0]
    /\ UNCHANGED <<spawning, taken>>

deactivate_spawner(s) ==
    /\ spawner[s].active /\ s \notin activity
    /\ despawning' = despawning \cup {e \in OfKind("monster") : entity[e].home = s}
    /\ spawner' = [spawner EXCEPT ![s] = [active |-> FALSE, current |-> 0]]
    /\ lost' = [lost EXCEPT ![s] = 0]
    /\ UNCHANGED <<spawning, taken>>

\* should_spawn: there are spots, the timer has run out and the coin fell so.
refill_spawner(s) ==
    /\ spawner[s].active /\ s \in activity
    /\ spawner[s].current < TargetAmount
    /\ \E n \in 1..Min({TargetAmount - spawner[s].current, 3}) : SpawnCounted(s, n, TRUE)
    /\ UNCHANGED despawning

\* One spawner changes in a tick: they share nothing but the pool.
spawn_monsters ==
    /\ Then("spawn_monsters", "do_spawn_mobs")
    /\ \/ \E s \in Spawners : activate_spawner(s) \/ deactivate_spawner(s) \/ refill_spawner(s)
       \/ UNCHANGED <<spawning, despawning, taken, spawner, lost>>
    /\ UNCHANGED <<happened, entity, idMap, playerMap, near, activity, events, targets, news>>

\* A game master's summons is written by a system that runs before or after.
do_spawn_mobs ==
    /\ Then("do_spawn_mobs", "handle_join")
    /\ \E before, after \in {0, 1} :
        /\ Happen(before + after)
        /\ Spawn(spawnEvents + before, "monster", None, None)
        /\ spawnEvents' = after
    /\ UNCHANGED <<entity, despawning, idMap, playerMap, spawners, dropEvents, targets, news>>

\* A connection gets the PlayerBundle of a character that another session may be
\* playing.  The connection's entity is new to the world with it.
handle_join ==
    /\ Then("handle_join", "monsters")
    /\ \/ Quiet /\ UNCHANGED <<spawning, taken>>
       \/ Happen(1) /\ \E n \in Names : Spawn(1, "player", None, n)
    /\ UNCHANGED <<entity, despawning, idMap, playerMap, spawners, events, targets, news>>

\* A monster dies; gold is dropped where its data is found.  (handle_damage, drop_gold)
drop_gold(e) ==
    /\ ~entity[e].dead
    /\ Happen(1)
    /\ died' = {e}
    /\ dropEvents' \in {0, 1}
    /\ UNCHANGED <<despawning, near>>

\* The time of a drop has run out, or it is picked up.  (tick_drop, pickup)
tick_drop(e) ==
    /\ entity[e].kind = "drop"
    /\ Quiet
    /\ despawning' = despawning \cup {e}
    /\ UNCHANGED <<died, dropEvents, near>>

\* A corpse's time has run out.
dead(e) ==
    /\ entity[e].dead
    /\ Quiet
    /\ despawning' = despawning \cup {e}
    /\ UNCHANGED <<died, dropEvents, near>>

\* The other systems of Update, one thing in a tick; the last one is that a player
\* walks into or out of a spawner's neighbourhood.
monsters ==
    /\ Then("monsters", "player_update_target")
    /\ \/ Quiet /\ UNCHANGED <<died, despawning, dropEvents, near>>
       \/ \E e \in OfKind("monster") : drop_gold(e)
       \/ \E e \in Existing : tick_drop(e) \/ dead(e)
       \/ \E p \in OfKind("player"), s \in Spawners :
            /\ Happen(1)
            /\ near' = [near EXCEPT ![s] = IF p \in @ THEN @ \ {p} ELSE @ \cup {p}]
            /\ UNCHANGED <<died, dropEvents, despawning>>
    /\ UNCHANGED <<entity, spawning, lookups, spawner, lost, activity, spawnEvents, targets, added>>

\* The target and untarget requests of one player, both of them optional, in any
\* distance.
player_update_target ==
    /\ Then("player_update_target", "deselect_despawned")
    /\ \/ Quiet /\ UNCHANGED <<retarget, untarget>>
       \/ \E p \in OfKind("player") :
            /\ Happen(1)
            /\ \/ UNCHANGED retarget
               \/ \E i \in DOMAIN idMap :
                    /\ idMap[i] \in Existing
                    /\ entity[idMap[i]].kind \in {"monster", "npc", "player"}
                    /\ retarget' = [x \in {p} |-> idMap[i]]
            /\ \/ UNCHANGED untarget
               \/ /\ p \in DOMAIN target
                  /\ \E i \in DOMAIN idMap : idMap[i] = target[p]
                  /\ untarget' = [untarget EXCEPT !.asked = {p}]
    /\ UNCHANGED <<world, lookups, spawners, events, target, news>>

\* A slip: the lookup by id stands in for the existence of the entity.
DeselectUnknown ==
    /\ Then("deselect_despawned", "ApplyUpdate")
    /\ untarget' = [untarget EXCEPT !.gone = {p \in DOMAIN target : target[p] \notin Range(idMap)}]
    /\ UNCHANGED <<happened, world, lookups, spawners, events, target, retarget, news>>

deselect_despawned ==
    /\ Then("deselect_despawned", "ApplyUpdate")
    /\ untarget' = [untarget EXCEPT !.gone = {p \in DOMAIN target : target[p] \notin Existing}]
    /\ UNCHANGED <<happened, world, lookups, spawners, events, target, retarget, news>>

\* An untarget follows the target request of its system; the buffer of
\* deselect_despawned is applied before or after that.
ApplyUpdate ==
    /\ Then("ApplyUpdate", "create_drops")
    /\ LET corpses == [e \in died |-> [entity[e] EXCEPT !.dead = TRUE]]
       IN  /\ Flush(Over(spawning, corpses), despawning)
           /\ added' = added \cup DOMAIN spawning
           /\ \E last \in SUBSET untarget.gone :
                LET kept == (DOMAIN target \ untarget.gone) \cup DOMAIN retarget
                IN  target' = [p \in (kept \ (untarget.asked \cup last)) \ despawning |->
                                IF p \in DOMAIN retarget THEN retarget[p] ELSE target[p]]
    /\ died' = died \ despawning
    /\ spawning' = << >> /\ despawning' = {}
    /\ retarget' = << >> /\ untarget' = [asked |-> {}, gone |-> {}]
    /\ UNCHANGED <<happened, taken, idMap, playerMap, spawner, lost, activity, events>>

-----------------------------------------------------------------------------
(* PostUpdate and Last *)

create_drops ==
    /\ Then("create_drops", "ApplyPostUpdate")
    /\ Spawn(dropEvents, "drop", None, None)
    /\ dropEvents' = 0
    /\ UNCHANGED <<happened, entity, despawning, idMap, playerMap, spawners, spawnEvents, targets, news>>

ApplyPostUpdate ==
    /\ Then("ApplyPostUpdate", "collect_entities")
    /\ Flush(spawning, {})
    /\ added' = added \cup DOMAIN spawning
    /\ spawning' = << >>
    /\ UNCHANGED <<happened, despawning, lookups, spawner, lost, activity, events, targets, died>>

\* Queries iterate in the order of archetypes, which may be any.
collect_entities ==
    LET players == {e \in added : entity[e].kind = "player"}
        names == {entity[e].name : e \in players}
        entityOf(i) == CHOOSE e \in added : entity[e].id = i
    IN  /\ Then("collect_entities", "collect_monster_deaths")
        /\ idMap' = Over([i \in {entity[e].id : e \in added} |-> entityOf(i)], idMap)
        /\ \E chosen \in [names -> players] :
            /\ \A n \in names : entity[chosen[n]].name = n
            /\ playerMap' = Over(chosen, playerMap)
        /\ added' = {}
        /\ UNCHANGED <<happened, taken, world, spawners, events, targets, died>>

\* Saturates.
decrease_alive_by(current, amount) == IF current > amount THEN current - amount ELSE 0

collect_monster_deaths ==
    LET of(s) == Cardinality({e \in died : entity[e].home = s})
    IN  /\ Then("collect_monster_deaths", "maintain_entities")
        /\ spawner' = [s \in Spawners |-> [spawner[s] EXCEPT !.current = decrease_alive_by(@, of(s))]]
        /\ died' = {}
        /\ UNCHANGED <<happened, world, lookups, lost, near, activity, events, targets, added>>

-----------------------------------------------------------------------------

Next ==
    \/ maintain_entities \/ disconnected \/ update_player_activity \/ update_timers \/ ApplyPreUpdate
    \/ spawn_monsters \/ do_spawn_mobs \/ handle_join \/ monsters
    \/ player_update_target \/ deselect_despawned \/ ApplyUpdate
    \/ create_drops \/ ApplyPostUpdate \/ collect_entities \/ collect_monster_deaths

Spec == Init /\ [][Next]_vars

-----------------------------------------------------------------------------
(* Properties *)

Bundle == [id : Ids, kind : Kinds, home : Spawners \cup {None},
           name : Names \cup {None}, dead : BOOLEAN]

\* Everything has its type; the number of monsters a spawner asks for, the
\* difference of two usize, is not negative.  (Spawner::available_spots)
TypeOK ==
    /\ DOMAIN entity \cup DOMAIN spawning \subseteq Entities
    /\ Range(entity) \cup Range(spawning) \subseteq Bundle
    /\ despawning \cup added \cup died \subseteq Entities
    /\ taken \subseteq Ids
    /\ DOMAIN idMap \subseteq Ids /\ DOMAIN playerMap \subseteq Names
    /\ Range(idMap) \cup Range(playerMap) \cup Range(target) \cup Range(retarget) \subseteq Entities
    /\ \A s \in Spawners : spawner[s].active \in BOOLEAN /\ spawner[s].current \in 0..TargetAmount
    /\ spawnEvents \in Nat /\ dropEvents \in Nat

\* An id names at most one entity, spawned or about to be, and an id that is given
\* out is either that of such an entity or known to the lookup, which will return it:
\* the pool neither hands an id out twice nor leaks one, in whichever order joining,
\* spawning, dying and disconnecting happen.
\* (EntityIdPool, collect_entities, maintain_entities)
IdsAccounted ==
    /\ \A e, f \in DOMAIN Bodies : Bodies[e].id = Bodies[f].id => e = f
    /\ taken = {b.id : b \in Range(Bodies)} \cup DOMAIN idMap

\* An active spawner counts its living monsters, those killed in this tick until
\* it has collected them, and those it never found a place for; never fewer.
\* (spawn_n_monsters, deactivate_spawner, collect_monster_deaths)
SpawnersCount ==
    \A s \in Spawners :
        LET living == {e \in DOMAIN Bodies : /\ Bodies[e].kind = "monster" /\ Bodies[e].home = s
                                             /\ ~Bodies[e].dead \/ e \in died}
        IN  spawner[s].current = Cardinality(living \ despawning) + lost[s]

\* No target outlives its entity by more than a tick: what is a target after Update
\* existed before it, even if a target, an untarget and a disconnect met in one
\* tick and the id has been given to another.  (deselect_despawned)
TargetsLetGo ==
    [][phase = "ApplyUpdate" => Range(target') \subseteq Existing]_vars
=============================================================================
