----------------------------- MODULE Visibility -----------------------------
(***************************************************************************)
(* What the clients are told of the entities around them: the sets of      *)
(* entities in a player's radius and the spawns and despawns sent for them *)
(* (silkroad-agent/src/game/visibility.rs, comp/visibility.rs), and the    *)
(* updates of players distributed to those who see them (sync/system.rs,   *)
(* sync/mod.rs).                                                           *)
(*                                                                         *)
(* A tick is Begin (First and PreUpdate), the systems of Update in any     *)
(* order with visibility_update somewhere among them, EndUpdate (the       *)
(* command buffers), and PostUpdate.  Only players have a Client, so that  *)
(* synchronize_updates drops all updates of other entities; their places   *)
(* as told are not followed.                                               *)
(***************************************************************************)
EXTENDS Integers, FiniteSets, Functions

CONSTANTS Players, Things,  \* entities with and without a client
          Places, Close,    \* places, and the pairs of them within a radius
          Home,             \* the place where the players are at first
          RegionOf,         \* the region of every place
          Beside,           \* regions and their neighbours, themselves included
          MaxHappenings,    \* bound: whatever a client, a timer or chance starts
          None

ASSUME VisibilityAssumption ==
    /\ IsFiniteSet(Players) /\ IsFiniteSet(Things) /\ Players \cap Things = {}
    /\ Home \in Places
    /\ RegionOf \in [Places -> DOMAIN Beside]
    /\ \A p \in Places : <<p, p>> \in Close
    /\ \A pair \in Close : <<pair[2], pair[1]>> \in Close
    /\ \A pair \in Close : RegionOf[pair[2]] \in Beside[RegionOf[pair[1]]]

Entities == Players \cup Things
Ids == 1..(2 * Cardinality(Entities))

VARIABLES
    phase,     \* "Begin", "Update" or "PostUpdate"
    looked,    \* visibility_update has run in this tick
    place,     \* Position of the entities there are
    id,        \* the GameEntity::unique_id of entities, also in references to those gone
    freed,     \* ids of despawned entities; the pool has them with the next tick
    invisible, \* entities with Invisible
    state,     \* of players: "idle", "moving" or "acting"
    begun,     \* players whose Moving or Idle was added in this tick
    moved,     \* players whose position has_moved in this tick
    stirred,   \* players of which others are told something else in this tick
    activity,  \* PlayerActivity
    commands,  \* spawns, despawns and insertions in the command buffers
    view,      \* Visibility of the players: entities_in_radius, added, removed
    client,    \* what each client was told: id to the place it was told, or None
    stale,     \* history: <<player, entity>> kept in view when visibility_update left the
               \* player out
    missed,    \* history: <<player, other>> in view when it left the other one out
    strangers, \* <<player, entity>> of updates in this tick for an id not told
    happened

entities == <<place, id, freed, invisible>>
tick == <<state, begun, moved, stirred>>
vars == <<phase, looked, entities, tick, activity, commands, view, client, stale, missed, strangers, happened>>

-----------------------------------------------------------------------------

Without(f, S) == [x \in DOMAIN f \ S |-> f[x]]

\* The entries of f, and those of g for what f does not have.
Over(f, g) == [x \in DOMAIN f \cup DOMAIN g |-> IF x \in DOMAIN f THEN f[x] ELSE g[x]]

Existing == DOMAIN place
Here == Players \cap Existing

NothingSeen == [seen |-> {}, added |-> {}, removed |-> {}]
NoCommands == [spawn |-> << >>, despawn |-> {}, hide |-> {}]

\* References hold the entity and its id: EntityReference of an entity that is gone
\* never equals a later one.  An identity is used again when none is left.
Referenced == Existing \cup DOMAIN commands.spawn \cup UNION {view[p].seen \cup view[p].removed : p \in Here}

Init ==
    /\ phase = "Begin" /\ looked = FALSE
    /\ place = [p \in Players |-> Home]
    /\ id = Over(CHOOSE f \in Bijection(Players, 1..Cardinality(Players)) : TRUE, [e \in Things |-> 0])
    /\ freed = {} /\ invisible = {}
    /\ state = [p \in Players |-> "idle"]
    /\ begun = {} /\ moved = {} /\ stirred = {}
    /\ activity = {}
    /\ commands = NoCommands
    /\ view = [p \in Players |-> NothingSeen]
    /\ client = [p \in Players |-> << >>]
    /\ stale = {} /\ missed = {} /\ strangers = {} /\ happened = 0

Happens == happened < MaxHappenings /\ happened' = happened + 1

-----------------------------------------------------------------------------
(* First and PreUpdate *)

\* A connection may be lost; activity is computed before its despawn is applied.
\* (maintain_entities, update_player_activity, disconnected, reset_component)
Begin ==
    /\ phase = "Begin" /\ phase' = "Update" /\ looked' = FALSE
    /\ activity' = {RegionOf[place[p]] : p \in Here}
    /\ begun' = {} /\ moved' = {} /\ stirred' = {}
    /\ strangers' = {}
    /\ \E gone \in {{}} \cup {{p} : p \in Here} :
        /\ IF gone = {} THEN UNCHANGED happened ELSE Happens
        /\ place' = Without(place, gone)
        /\ freed' = {id[e] : e \in gone}
        /\ invisible' = invisible \ gone
        /\ state' = Without(state, gone)
        /\ view' = Without(view, gone)
        /\ client' = Without(client, gone)
        /\ stale' = {pair \in stale : pair[1] \notin gone}
        /\ missed' = {pair \in missed : pair[1] \notin gone}
    /\ UNCHANGED <<id, commands>>

-----------------------------------------------------------------------------
(* Update *)

\* A player starts or stops: the state's component is replaced.
transition(p) ==
    /\ phase = "Update" /\ Happens
    /\ p \in Here \ begun
    /\ \E s \in {"idle", "moving", "acting"} \ {state[p]} :
        /\ state' = [state EXCEPT ![p] = s]
        /\ begun' = IF s = "acting" THEN begun ELSE begun \cup {p}
    /\ UNCHANGED <<phase, looked, entities, moved, stirred, activity, commands, view, client, stale, missed, strangers>>

\* A step to a place close by.  (movement)
movement(p) ==
    /\ phase = "Update" /\ Happens
    /\ p \in Here \ moved /\ state[p] = "moving"
    /\ \E q \in Places \ {place[p]} : <<place[p], q>> \in Close /\ place' = [place EXCEPT ![p] = q]
    /\ moved' = moved \cup {p}
    /\ UNCHANGED <<phase, looked, id, freed, invisible, state, begun, stirred, activity, commands, view, client, stale, missed, strangers>>

handle_teleport(p) ==
    /\ phase = "Update" /\ Happens
    /\ p \in Here
    /\ \E q \in Places \ {place[p]} : place' = [place EXCEPT ![p] = q]
    /\ moved' = moved \cup {p}
    /\ UNCHANGED <<phase, looked, id, freed, invisible, state, begun, stirred, activity, commands, view, client, stale, missed, strangers>>

\* Speed, pickup, death, the end of loading, a turn.
stir(p) ==
    /\ phase = "Update" /\ Happens
    /\ p \in Here \ stirred
    /\ stirred' = stirred \cup {p}
    /\ UNCHANGED <<phase, looked, entities, state, begun, moved, activity, commands, view, client, stale, missed, strangers>>

Command(new) ==
    /\ phase = "Update" /\ Happens
    /\ commands' = new
    /\ UNCHANGED <<phase, looked, entities, tick, activity, view, client, stale, missed, strangers>>

\* Monsters, drops and joining players appear, things disappear, game masters hide.
spawn(e) ==
    /\ e \notin Referenced
    /\ \E q \in Places : Command([commands EXCEPT !.spawn = Over([x \in {e} |-> q], @)])
despawn(e) == e \in Existing \cap Things /\ Command([commands EXCEPT !.despawn = @ \cup {e}])
hide(p) == p \in Here \ invisible /\ Command([commands EXCEPT !.hide = @ \cup {p}])

InRange(p) == {e \in Existing \ {p} : <<place[p], place[e]>> \in Close}

Looked(p) ==
    LET now == InRange(p)
    IN  [seen |-> now, added |-> view[p].added \cup (now \ view[p].seen),
         removed |-> view[p].removed \cup (view[p].seen \ now)]

\* A slip: a player with nobody around it is left out.
LookTogether ==
    LET close(p) == {q \in Here \ {p} : RegionOf[place[q]] \in Beside[RegionOf[place[p]]]}
        active == {p \in Here : close(p) # {}}
    IN  /\ phase = "Update" /\ ~looked
        /\ looked' = TRUE
        /\ view' = [p \in Here |-> IF p \in active THEN Looked(p) ELSE view[p]]
        /\ UNCHANGED <<stale, missed>>
        /\ UNCHANGED <<phase, entities, tick, activity, commands, client, strangers, happened>>

\* Only where a region around was active when the tick began.
visibility_update ==
    LET active == {p \in Here : Beside[RegionOf[place[p]]] \cap activity # {}}
    IN  /\ phase = "Update" /\ ~looked
        /\ looked' = TRUE
        /\ view' = [p \in Here |-> IF p \in active THEN Looked(p) ELSE view[p]]
        /\ stale' = stale \cup {pair \in (Here \ active) \X Entities : pair[2] \in view[pair[1]].seen}
        /\ missed' = missed \cup {pair \in Here \X (Here \ active) : pair[2] \in view'[pair[1]].seen}
        /\ UNCHANGED <<phase, entities, tick, activity, commands, client, strangers, happened>>

\* The lowest ids that are free; those of this tick's despawns are not yet.
NewIds(S) ==
    LET free == Ids \ ({id[e] : e \in Existing} \cup freed)
        lowest == {i \in free : Cardinality({j \in free : j < i}) < Cardinality(S)}
    IN  Bijection(S, lowest)

\* The command buffers are applied, in whatever order the systems are in.
EndUpdate ==
    /\ phase = "Update" /\ looked
    /\ phase' = "PostUpdate"
    /\ LET new == DOMAIN commands.spawn
           gone == commands.despawn
           joined == new \cap Players
       IN  /\ place' = Without(Over(commands.spawn, place), gone)
           /\ \E f \in NewIds(new) : id' = Over(f, id)
           /\ freed' = freed \cup {id[e] : e \in gone}
           /\ invisible' = (invisible \cup commands.hide) \ gone
           /\ state' = Over([p \in joined |-> "idle"], state)
           /\ begun' = begun \cup joined
           /\ view' = Over([p \in joined |-> NothingSeen], view)
           /\ client' = Over([p \in joined |-> << >>], client)
    /\ commands' = NoCommands
    /\ UNCHANGED <<looked, moved, stirred, activity, stale, missed, strangers, happened>>

-----------------------------------------------------------------------------
(* PostUpdate *)

\* The spawns of what was added and is there to be seen, then the despawns.
Announced(p) ==
    LET shown == {e \in view[p].added : e \in Existing \ invisible}
        told == [i \in {id[e] : e \in shown} |->
                    LET e == CHOOSE e \in shown : id[e] = i IN IF e \in Players THEN place[e] ELSE None]
    IN  Over(told, client[p])

\* As if an entity's removal were not told when it is gone by now.
DespawnsOfExisting(p) == Without(Announced(p), {id[e] : e \in view[p].removed \cap Existing})

player_visibility_update(p) == Without(Announced(p), {id[e] : e \in view[p].removed})

\* Of whom others are told something.  (collect_*)
Mentioned == begun \cup moved \cup stirred

\* A slip: stopping is not told.
StopsForgotten(e, known) ==
    CASE state[e] = "moving" /\ e \in begun -> None
      [] state[e] # "moving" /\ e \in moved -> place[e]
      [] OTHER -> known

\* The place a client knows after an update: on the way somewhere, or where the
\* player stopped or turned up.
collect_movement_update(e, known) ==
    CASE state[e] = "moving" /\ e \in begun -> None
      [] state[e] = "idle" /\ e \in begun -> place[e]
      [] state[e] # "moving" /\ e \in moved -> place[e]
      [] OTHER -> known

\* As if updates went to whoever is close by now.
ToWhoeverIsClose(known) ==
    LET about(p) == {e \in Here : e \in Mentioned /\ p \in InRange(e)}
        heard(p) == {e \in about(p) : id[e] \in DOMAIN known[p]}
    IN  /\ client' = known
        /\ strangers' = {pair \in Here \X Here : pair[2] \in about(pair[1]) \ heard(pair[1])}

\* Updates go to the players in the radius of the one they are about.
synchronize_updates(known) ==
    LET about(p) == {e \in Here : e \in Mentioned /\ p \in view[e].seen}
        heard(p) == {e \in about(p) : id[e] \in DOMAIN known[p]}
        entityOf(i) == CHOOSE e \in Existing : id[e] = i
    IN  /\ client' = [p \in Here |-> [i \in DOMAIN known[p] |->
                IF \E e \in heard(p) : id[e] = i
                  THEN collect_movement_update(entityOf(i), known[p][i]) ELSE known[p][i]]]
        /\ strangers' = {pair \in Here \X Here : pair[2] \in about(pair[1]) \ heard(pair[1])}

\* Until it leaves the view; if its id has come back with another entity, that one is
\* spawned and despawned at once.
StillStale ==
    {pair \in Here \X Entities : LET p == pair[1] e == pair[2] IN
        \/ pair \in stale /\ e \in view[p].seen
        \/ e \in view[p].added /\ \E old \in view[p].removed : <<p, old>> \in stale /\ id[old] = id[e]}

PostUpdate ==
    /\ phase = "PostUpdate" /\ phase' = "Begin"
    /\ synchronize_updates([p \in Here |-> player_visibility_update(p)])
    /\ view' = [p \in Here |-> [view[p] EXCEPT !.added = {}, !.removed = {}]]
    /\ stale' = StillStale
    /\ missed' = {pair \in Here \X Players : pair \in missed /\ pair[2] \in view[pair[1]].seen}
    /\ UNCHANGED <<looked, entities, tick, activity, commands, happened>>

-----------------------------------------------------------------------------

Next ==
    \/ Begin \/ visibility_update \/ EndUpdate \/ PostUpdate
    \/ \E p \in Players : transition(p) \/ movement(p) \/ handle_teleport(p) \/ stir(p) \/ hide(p)
    \/ \E e \in Entities : spawn(e)
    \/ \E e \in Things : despawn(e)

Spec == Init /\ [][Next]_vars

-----------------------------------------------------------------------------
(* Properties *)

EndOfTick == phase = "Begin"

\* What is in a player's radius and can be seen, its client knows, and the client
\* knows nothing else, although it is told of differences only and an id may have
\* gone from one entity to another.  Only a player that teleports to where nobody was,
\* and is left out of visibility_update for a tick, may miss the second of two entities
\* with one id.  (player_visibility_update)
KnowsWhatItSees ==
    EndOfTick => \A p \in Here :
        /\ \A e \in (view[p].seen \cap Existing) \ invisible :
              <<p, e>> \in stale \/ id[e] \in DOMAIN client[p]
        /\ DOMAIN client[p] \subseteq {id[e] : e \in view[p].seen}

\* An entity that is gone is forgotten within a tick, by whoever was not left out.
\* (visibility_update)
NoGhosts ==
    EndOfTick => \A p \in Here :
        DOMAIN client[p] \subseteq {id[e] : e \in Existing \cup {f \in Entities : <<p, f>> \in stale}} \cup freed

\* A client gets updates only for what it was told of, though they are addressed by
\* the radius of the sender: except for hidden players and where visibility_update left
\* one of the two out, as it had teleported away from everybody.  (synchronize_updates)
NoStrangers ==
    \A pair \in strangers :
        \/ pair[2] \in invisible
        \/ {pair, <<pair[2], pair[1]>>} \cap (stale \cup missed) # {}

\* A player that stands is where the clients that know it were told, whether they saw
\* it arrive or came later, unless visibility_update left one of the two out.
\* (collect_movement_update, Position::as_standing)
StandsWhereTold ==
    EndOfTick => \A p \in Here : \A e \in Here \cap view[p].seen :
        id[e] \in DOMAIN client[p] /\ state[e] = "idle" /\ <<p, e>> \notin stale \cup missed
            => client[p][id[e]] = place[e]
=============================================================================
