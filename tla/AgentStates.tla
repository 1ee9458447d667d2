----------------------------- MODULE AgentStates -----------------------------
(***************************************************************************)
(* The state machine of the players and monsters of the game loop          *)
(* (silkroad-agent/src/agent) with the systems that drive it: minds,       *)
(* actions, damage, death and picking up drops (silkroad-agent/src/game).  *)
(*                                                                         *)
(* A tick runs the Bevy schedules PreUpdate, Update and PostUpdate.  Each  *)
(* system is one action.  Within a schedule systems run in any order the   *)
(* code does not rule out (Before); what they do to components is seen at  *)
(* once, but inserting and removing components and despawning entities is  *)
(* deferred: every system fills its command buffer, and the buffers are    *)
(* applied one after the other at the end of the schedule, in any order    *)
(* that agrees with Before.  A panic in a system ends the server.          *)
(*                                                                         *)
(* Positions and durations are abstracted: whether somebody is in range,   *)
(* has arrived, or a timer has run out, is chosen by the step.             *)
(***************************************************************************)
EXTENDS Integers, Sequences, FiniteSets, Functions

CONSTANTS Players, Monsters,  \* entities with a StateTransitionQueue
          Spawned,            \* the monsters of the spawner
          Drops,              \* items on the ground, now or later
          InitialDrops,       \* those there from the start
          Gold,               \* monster of known kind -> the drop that is its gold
          Invincible,         \* players made invincible by a command
          Targets,            \* the entities that requests of clients name
          Skills,             \* skills that UseSkill may name
          AttackSkills,       \* those of them with an Attack parameter
          MaxHealth,          \* the health of every fighter
          Amounts,            \* the damage one hit may do
          MaxRequests,        \* bound: requests of clients in a behaviour
          MaxStrolls          \* bound: strolls of monsters in a behaviour

Fighters == Players \union Monsters
Entities == Fighters \union Drops
None == "none"

(* The auto attack a weapon or a monster comes with. *)
AutoAttack == "auto"

ASSUME AgentAssumption ==
    /\ Players \intersect Monsters = {} /\ Fighters \intersect Drops = {}
    /\ IsFiniteSet(Fighters) /\ IsFiniteSet(Drops)
    /\ Spawned \subseteq Monsters /\ InitialDrops \subseteq Drops /\ Invincible \subseteq Players /\ Targets \subseteq Entities
    /\ Gold \in Injection(DOMAIN Gold, Drops \ InitialDrops) /\ DOMAIN Gold \subseteq Monsters
    /\ None \notin Entities /\ AutoAttack \notin Skills /\ AttackSkills \subseteq Skills
    /\ MaxHealth \in Nat \ {0} /\ MaxRequests \in Nat /\ MaxStrolls \in Nat
    /\ Amounts \subseteq Nat

VARIABLES exists,    \* entities that are in the world
          state,     \* fighter -> its state components, at most one of a kind
          queue,     \* fighter -> its StateTransitionQueue
          goal,      \* fighter -> its Mind
          health,    \* fighter -> Health::current_health
          hurt,      \* fighter -> its DamageReceiver: attacker -> damage
          damage,    \* DamageReceiveEvents handle_damage has not read
          noticed,   \* DamageReceiveEvents attack_player has not read
          deaths,    \* fighters with an EntityDeath event drop_gold has not read
          spawns,    \* monsters with a SpawnDrop event create_drops has not read
          schedule,  \* the schedule that is running
          todo,      \* its systems that have not run
          reading,   \* handle_damage is in its loop over the events
          buffer,    \* system -> entity -> its deferred command
          panic,     \* what the server panicked for want of, or in, or None
          requests,  \* requests the clients still make (bound)
          strolls,   \* strolls the monsters still take (bound)
          died,      \* history: fighter -> EntityDeath events sent for it
          gifts      \* history: drop -> player -> times the player was given it

world == <<exists, state, queue, goal>>
battle == <<health, hurt, died>>
events == <<damage, noticed, deaths, spawns>>
loop == <<schedule, todo, reading, buffer>>
vars == <<world, battle, events, loop, panic, requests, strolls, gifts>>

-----------------------------------------------------------------------------
(* State components, transitions and commands *)

Idle == [kind |-> "Idle"]
Moving(towards) == [kind |-> "Moving", towards |-> towards]
Action(target, skill, phase) == [kind |-> "Action", target |-> target, skill |-> skill, phase |-> phase]
Pickup(target, taken) == [kind |-> "Pickup", target |-> target, taken |-> taken]
Dead(despawn) == [kind |-> "Dead", despawn |-> despawn]

MovementGoals == {"Location", "Direction"}

(* ActionProgressState: Preparation and Casting are before the hit, Execution *)
(* and Teardown after it; the timers of each pair are run through as one.     *)
Progress == {"Casting", "Teardown"}

Components ==
    {Idle} \union {Moving(t) : t \in MovementGoals}
    \union {Action(t, s, p) : t \in Entities, s \in Skills \union {AutoAttack}, p \in Progress}
    \union {Pickup(t, b) : t \in Drops, b \in BOOLEAN} \union {Dead(b) : b \in BOOLEAN}

(* The order in which requested transitions are preferred. *)
Priority(c) == CASE c.kind = "Idle" -> 0
                 [] c.kind = "Moving" -> 1
                 [] c.kind \in {"Action", "Pickup"} -> 2
                 [] c.kind = "Dead" -> 3

Has(e, kind) == \E c \in state[e] : c.kind = kind

With(kind) == {e \in Fighters \intersect exists : Has(e, kind)}

(* Inserting a component replaces the one of its kind. *)
Inserted(s, c) == {d \in s : d.kind # c.kind} \union {c}

(* A command: components removed, then one inserted, or the entity despawned. *)
Replace(kind, c) == [remove |-> {kind}, insert |-> {c}, despawn |-> FALSE]
Remove(kind) == [remove |-> {kind}, insert |-> {}, despawn |-> FALSE]
Insert(c) == [remove |-> {}, insert |-> {c}, despawn |-> FALSE]
Despawn == [remove |-> {}, insert |-> {}, despawn |-> TRUE]
Spawn == [remove |-> {}, insert |-> {}, despawn |-> FALSE]

Goals == [kind : {"Attack"}, target : Entities, skill : Skills \union {AutoAttack}]
         \union [kind : {"PickUp"}, target : Drops]
NoGoal == [kind |-> None]

(* What a mind aims at while it is there and not dead: target_query. *)
Reachable(e) == /\ e \in exists
                /\ e \in Fighters => ~Has(e, "Dead")

-----------------------------------------------------------------------------
(* The schedules *)

TransitionSet == {"transition_to_idle", "transition_from_idle",
                  "transition_from_moving", "transition_from_attacking"}
ExecuteSet == {"movement", "pickup", "action", "dead"}
SystemsOf(s) ==
    CASE s = "PreUpdate" -> {"movement_input", "update_action", "disconnected"}
      [] s = "Update" -> TransitionSet \union ExecuteSet
                         \union {"handle_action", "handle_damage", "attack_player", "drop_gold",
                                 "movement_monster", "tick_drop", "spawn_monsters"}
      [] s = "PostUpdate" -> {"enqueue_action", "create_drops"}
Systems == UNION {SystemsOf(s) : s \in {"PreUpdate", "Update", "PostUpdate"}}
Following(s) == CASE s = "PreUpdate" -> "Update" [] s = "Update" -> "PostUpdate" [] OTHER -> "PreUpdate"

(* The order the plugins configure: AgentSet's chain, and after(handle_damage). *)
Before(s, t) == \/ s \in TransitionSet /\ t \in ExecuteSet
                \/ s = "handle_damage" /\ t = "drop_gold"

(* Systems that only fill their buffer, or touch nothing that another system *)
(* of the schedule does, run in a fixed order: any other has the same effect. *)
Commuting == <<"handle_action", "movement", "pickup", "dead", "drop_gold", "tick_drop", "spawn_monsters",
               "disconnected", "create_drops">>
Rank(s) == IF s = "transition_to_idle" THEN -1
           ELSE IF \E i \in DOMAIN Commuting : Commuting[i] = s
                THEN CHOOSE i \in DOMAIN Commuting : Commuting[i] = s
                ELSE 0

NoCommands == <<>>

Runs(s) ==
    /\ panic = None
    /\ s \in todo
    /\ reading => s = "handle_damage"
    /\ \A t \in todo : ~Before(t, s) /\ Rank(t) >= Rank(s)

Finishes(s) == todo' = todo \ {s} /\ reading' = FALSE /\ UNCHANGED schedule

Buffers(s, cmds) == buffer' = [buffer EXCEPT ![s] = cmds]

(* What a system without commands leaves alone. *)
Silent == UNCHANGED buffer

-----------------------------------------------------------------------------
(* PreUpdate *)

(* Clients ask to move; a request is bounded by MaxRequests. *)
movement_input ==
    /\ Runs("movement_input") /\ Finishes("movement_input") /\ Silent
    /\ \E inputs \in UNION {[P -> MovementGoals] : P \in SUBSET (Players \intersect exists)} :
        /\ Cardinality(DOMAIN inputs) <= requests
        /\ requests' = requests - Cardinality(DOMAIN inputs)
        /\ queue' = [e \in Fighters |-> IF e \in DOMAIN inputs
                                       THEN Append(queue[e], Moving(inputs[e])) ELSE queue[e]]
    /\ UNCHANGED <<exists, state, goal, battle, events, panic, strolls, gifts>>

(* AttackProcess::try_attack: act when in range, otherwise come closer. *)
try_attack(g, inRange) == IF inRange THEN Action(g.target, g.skill, "Casting") ELSE Moving("Location")

(* What update_action does to the mind and the queue of somebody who moves. *)
WalkingTowards(e) == CHOOSE c \in state[e] : c.kind = "Moving"

Abandons(e) ==
    /\ goal[e] # NoGoal
    /\ \/ ~Reachable(goal[e].target)
       \/ WalkingTowards(e).towards # "Location"

Redirects(e, inRange) ==
    LET g == goal[e] IN
    IF g = NoGoal THEN <<>>
    ELSE IF g.kind = "PickUp"
    THEN IF Reachable(g.target) THEN <<>> ELSE <<Idle>>
    ELSE IF WalkingTowards(e).towards # "Location" THEN <<>>
    ELSE IF Reachable(g.target) THEN <<try_attack(g, inRange)>> ELSE <<Idle>>

(* Runs every 100 ms: some ticks skip it. *)
update_action ==
    /\ Runs("update_action") /\ Finishes("update_action") /\ Silent
    /\ \/ UNCHANGED <<queue, goal>>
       \/ LET walkers == With("Moving") \ With("Idle") IN
          \E near \in SUBSET walkers :
            /\ queue' = [e \in Fighters |-> IF e \in walkers
                                           THEN queue[e] \o Redirects(e, e \in near) ELSE queue[e]]
            /\ goal' = [e \in Fighters |-> IF e \in walkers /\ Abandons(e) THEN NoGoal ELSE goal[e]]
    /\ UNCHANGED <<exists, state, battle, events, panic, requests, strolls, gifts>>

(* A connection ended, or a logout ran out, since the last tick. *)
disconnected ==
    /\ Runs("disconnected") /\ Finishes("disconnected")
    /\ \E left \in SUBSET (Players \intersect exists) :
        Buffers("disconnected", [e \in left |-> Despawn])
    /\ UNCHANGED <<world, battle, events, panic, requests, strolls, gifts>>

-----------------------------------------------------------------------------
(* Update: transitions *)

(* As if the requests were sorted the other way round. *)
ChosenLowest(q) == q[CHOOSE i \in DOMAIN q :
                       \A j \in DOMAIN q : \/ Priority(q[i]) < Priority(q[j])
                                          \/ (Priority(q[i]) = Priority(q[j]) /\ i <= j)]

(* The request that wins: the first among those of the highest priority. *)
Chosen(q) == q[CHOOSE i \in DOMAIN q :
                 \A j \in DOMAIN q : \/ Priority(q[i]) > Priority(q[j])
                                    \/ (Priority(q[i]) = Priority(q[j]) /\ i <= j)]

(* Whoever has none of the four states becomes idle, the dead included. *)
transition_to_idle ==
    /\ Runs("transition_to_idle") /\ Finishes("transition_to_idle")
    /\ LET stateless == {e \in Fighters \intersect exists :
                            \A k \in {"Idle", "Moving", "Action"} : ~Has(e, k)}
       IN Buffers("transition_to_idle", [e \in stateless |-> Insert(Idle)])
    /\ UNCHANGED <<world, battle, events, panic, requests, strolls, gifts>>

(* StateTransitionQueue::transition_to_new_state: the whole queue is drained. *)
transition_to_new_state(system, kind) ==
    /\ Runs(system) /\ Finishes(system)
    /\ LET asked == {e \in With(kind) : queue[e] # <<>>} IN
       /\ Buffers(system, [e \in asked |-> Replace(kind, Chosen(queue[e]))])
       /\ queue' = [e \in Fighters |-> IF e \in asked THEN <<>> ELSE queue[e]]
    /\ UNCHANGED <<exists, state, goal, battle, events, panic, requests, strolls, gifts>>

transition_from_idle == transition_to_new_state("transition_from_idle", "Idle")
transition_from_moving == transition_to_new_state("transition_from_moving", "Moving")

(* Requests of no higher priority than an action's are dropped: the one that *)
(* wins among the higher ones is the one that wins among all, if there is one. *)
transition_from_attacking ==
    /\ Runs("transition_from_attacking") /\ Finishes("transition_from_attacking")
    /\ LET moved == {e \in With("Action") : queue[e] # <<>> /\ Priority(Chosen(queue[e])) > 2} IN
       /\ Buffers("transition_from_attacking", [e \in moved |-> Replace("Action", Chosen(queue[e]))])
       /\ queue' = [e \in Fighters |-> IF e \in With("Action") THEN <<>> ELSE queue[e]]
    /\ UNCHANGED <<exists, state, goal, battle, events, panic, requests, strolls, gifts>>

-----------------------------------------------------------------------------
(* Update: carrying states out *)

(* Some arrive; nobody who walks in a direction does. *)
movement ==
    /\ Runs("movement") /\ Finishes("movement")
    /\ \E arrived \in SUBSET {e \in With("Moving") : WalkingTowards(e).towards = "Location"} :
        Buffers("movement", [e \in arrived |-> Replace("Moving", Idle)])
    /\ UNCHANGED <<world, battle, events, panic, requests, strolls, gifts>>

PickupOf(p) == CHOOSE c \in state[p] : c.kind = "Pickup"

(* As if a drop stayed where it is. *)
PickupLeavesDrop(e, taken, late) ==
    IF e \in taken THEN Spawn ELSE IF e \in late THEN Remove("Pickup") ELSE Replace("Pickup", Idle)

PickupCommand(e, taken, late) ==
    IF e \in taken THEN Despawn ELSE IF e \in late THEN Remove("Pickup") ELSE Replace("Pickup", Idle)

(* A drop that is there is given to whoever bends for it, and the cooldown *)
(* starts; when that runs out the player is idle again.                    *)
pickup ==
    /\ Runs("pickup") /\ Finishes("pickup")
    /\ LET bending == With("Pickup")
           takers == {p \in bending : ~PickupOf(p).taken /\ PickupOf(p).target \in exists}
           late == {p \in bending : ~PickupOf(p).taken /\ PickupOf(p).target \notin exists}
           taken == {PickupOf(p).target : p \in takers}
       IN \E done \in SUBSET {p \in bending : PickupOf(p).taken} :
            /\ state' = [e \in Fighters |-> IF e \in takers
                                           THEN Inserted(state[e], Pickup(PickupOf(e).target, TRUE)) ELSE state[e]]
            /\ gifts' = [d \in Drops |-> [p \in Players |->
                            IF p \in takers /\ PickupOf(p).target = d THEN gifts[d][p] + 1 ELSE gifts[d][p]]]
            /\ Buffers("pickup", [e \in done \union late \union taken |-> PickupCommand(e, taken, late)])
    /\ UNCHANGED <<exists, queue, goal, battle, events, panic, requests, strolls>>

ActionOf(e) == CHOOSE c \in state[e] : c.kind = "Action"

(* The server unwraps the attack parameter of the skill and the target. *)
Missing(e) == IF ActionOf(e).skill \notin AttackSkills \union {AutoAttack} THEN "attack parameter"
              ELSE IF ActionOf(e).target \notin exists THEN "target"
              ELSE None

Panic(at) == panic' = at /\ UNCHANGED <<world, battle, events, loop, requests, strolls, gifts>>

(* The actions whose timer ran out go on; entering Execution is the hit, sent *)
(* as a DamageReceiveEvent.  Who is visited first is up to the query.          *)
action ==
    /\ Runs("action")
    /\ \E due \in SUBSET With("Action") :
        LET hitters == {e \in due : ActionOf(e).phase = "Casting"}
            ended == due \ hitters
            n == Cardinality(hitters)
        IN \/ \E e \in hitters : Missing(e) # None /\ Panic(Missing(e))
           \/ /\ \A e \in hitters : Missing(e) = None
              /\ Finishes("action")
              /\ \E order \in Injection(1 .. n, hitters), amount \in [1 .. n -> Amounts] :
                   LET hits == [i \in 1 .. n |-> [source |-> order[i], target |-> ActionOf(order[i]).target,
                                                  amount |-> amount[i]]]
                   IN damage' = damage \o hits /\ noticed' = noticed \o hits
              /\ state' = [e \in Fighters |->
                    IF e \in hitters
                    THEN Inserted(state[e], [ActionOf(e) EXCEPT !.phase = "Teardown"]) ELSE state[e]]
              /\ Buffers("action", [e \in ended |-> Remove("Action")])
              /\ UNCHANGED <<exists, queue, goal, battle, deaths, spawns, panic, requests, strolls, gifts>>

(* Monsters lie for five seconds, players until they leave. *)
dead ==
    /\ Runs("dead") /\ Finishes("dead")
    /\ \E rotten \in SUBSET {e \in With("Dead") : Dead(TRUE) \in state[e]} :
        Buffers("dead", [e \in rotten |-> Despawn])
    /\ UNCHANGED <<world, battle, events, panic, requests, strolls, gifts>>

-----------------------------------------------------------------------------
(* Update: the game's systems *)

(* What a client may ask for: attack anything, use a skill on anything, pick *)
(* up a drop, or stop.  A target that is gone is refused.                    *)
Requests == {NoGoal} \union [kind : {"Attack"}, target : Targets \intersect exists, skill : Skills \union {AutoAttack}]
                     \union [kind : {"PickUp"}, target : Targets \intersect Drops \intersect exists]

handle_action ==
    /\ Runs("handle_action") /\ Finishes("handle_action") /\ Silent
    /\ \E askers \in SUBSET (Players \intersect exists) :
        /\ Cardinality(askers) <= requests
        /\ requests' = requests - Cardinality(askers)
        /\ \E asked \in [askers -> Requests] :
            goal' = [e \in Fighters |-> IF e \in askers THEN asked[e] ELSE goal[e]]
    /\ UNCHANGED <<exists, state, queue, battle, events, panic, strolls, gifts>>

Absorbed(event) == IF event.target \in Invincible THEN 0 ELSE event.amount

saturating_sub(a, b) == IF b >= a THEN 0 ELSE a - b

(* As if every hit replaced what was recorded. *)
record_last_damage(event) ==
    [hurt EXCEPT ![event.target][event.source] = Absorbed(event)]

record_damage(event) ==
    [hurt EXCEPT ![event.target][event.source] = @ + Absorbed(event)]

dead_state(e) == Dead(e \in Monsters)

(* The blow that takes the last health is the one that kills. *)
Receives(event) ==
    LET left == saturating_sub(health[event.target], Absorbed(event)) IN
    /\ hurt' = record_damage(event)
    /\ health' = [health EXCEPT ![event.target] = left]
    /\ IF left = 0
       THEN /\ deaths' = deaths \union {event.target}
            /\ died' = [died EXCEPT ![event.target] = @ + 1]
            /\ queue' = [queue EXCEPT ![event.target] = Append(@, dead_state(event.target))]
       ELSE UNCHANGED <<deaths, died, queue>>

(* As if the dead could be hit. *)
is_dead_unchecked(e) == FALSE

is_dead(e) == health[e] = 0

(* handle_damage reads its events one by one and lets nobody in between. *)
handle_damage ==
    /\ Runs("handle_damage") /\ Silent
    /\ IF damage = <<>>
       THEN Finishes("handle_damage") /\ UNCHANGED <<world, battle, events, panic, requests, strolls, gifts>>
       ELSE LET event == Head(damage) IN
            IF event.target \in exists \intersect Fighters /\ event.source \notin exists
            THEN Panic("sender")
            ELSE /\ damage' = Tail(damage)
                 /\ reading' = TRUE
                 /\ IF event.target \notin exists \intersect Fighters \/ is_dead(event.target)
                    THEN UNCHANGED <<battle, deaths, queue>>
                    ELSE Receives(event)
                 /\ UNCHANGED <<exists, state, goal, noticed, spawns, schedule, todo, panic, requests, strolls, gifts>>

(* A monster without a goal turns on whoever hit it first. *)
attack_player ==
    /\ Runs("attack_player") /\ Finishes("attack_player") /\ Silent
    /\ noticed' = <<>>
    /\ LET hits(m) == {i \in DOMAIN noticed : noticed[i].target = m}
           first(m) == CHOOSE i \in hits(m) : \A j \in hits(m) : i <= j IN
       goal' = [e \in Fighters |->
                  IF e \in Monsters \intersect exists /\ goal[e] = NoGoal /\ hits(e) # {}
                  THEN [kind |-> "Attack", target |-> noticed[first(e)].source, skill |-> AutoAttack]
                  ELSE goal[e]]
    /\ UNCHANGED <<exists, state, queue, battle, damage, deaths, spawns, panic, requests, strolls, gifts>>

(* Every death of a monster leaves gold. *)
drop_gold ==
    /\ Runs("drop_gold") /\ Finishes("drop_gold") /\ Silent
    /\ deaths' = {}
    /\ spawns' = spawns \union (deaths \intersect DOMAIN Gold \intersect exists)
    /\ UNCHANGED <<world, battle, damage, noticed, panic, requests, strolls, gifts>>

(* Idle monsters with nothing in mind stroll now and then. *)
movement_monster ==
    /\ Runs("movement_monster") /\ Finishes("movement_monster") /\ Silent
    /\ \E strollers \in SUBSET {m \in With("Idle") \intersect Monsters : goal[m] = NoGoal} :
        /\ Cardinality(strollers) <= strolls
        /\ strolls' = strolls - Cardinality(strollers)
        /\ queue' = [e \in Fighters |-> IF e \in strollers
                                   THEN Append(queue[e], Moving("Location")) ELSE queue[e]]
    /\ UNCHANGED <<exists, state, goal, battle, events, panic, requests, gifts>>

(* Drops lie for a while. *)
tick_drop ==
    /\ Runs("tick_drop") /\ Finishes("tick_drop")
    /\ \E faded \in SUBSET (Drops \intersect exists) :
        Buffers("tick_drop", [d \in faded |-> Despawn])
    /\ UNCHANGED <<world, battle, events, panic, requests, strolls, gifts>>

(* A spawner nobody is near takes its monsters back. *)
spawn_monsters ==
    /\ Runs("spawn_monsters") /\ Finishes("spawn_monsters")
    /\ \E taken \in {{}, Spawned \intersect exists} :
        Buffers("spawn_monsters", [m \in taken |-> Despawn])
    /\ UNCHANGED <<world, battle, events, panic, requests, strolls, gifts>>

-----------------------------------------------------------------------------
(* PostUpdate *)

(* What enqueue_action requests for an idle mind with a goal. *)
Pursues(g, inRange) ==
    IF ~Reachable(g.target) THEN IF g.kind = "PickUp" THEN <<Idle>> ELSE <<>>
    ELSE IF g.kind = "Attack" THEN <<try_attack(g, inRange)>>
    ELSE IF inRange THEN <<Pickup(g.target, FALSE)>> ELSE <<Moving("Location")>>

Cancels(e) == ~Reachable(goal[e].target)

enqueue_action ==
    /\ Runs("enqueue_action") /\ Finishes("enqueue_action") /\ Silent
    /\ LET minded == {e \in With("Idle") : goal[e] # NoGoal} IN
       /\ \E near \in SUBSET minded :
            queue' = [e \in Fighters |-> IF e \in minded
                                       THEN queue[e] \o Pursues(goal[e], e \in near) ELSE queue[e]]
       /\ goal' = [e \in Fighters |-> IF e \in minded /\ Cancels(e)
                                     THEN NoGoal ELSE goal[e]]
    /\ UNCHANGED <<exists, state, battle, events, panic, requests, strolls, gifts>>

(* The gold of a monster appears. *)
create_drops ==
    /\ Runs("create_drops") /\ Finishes("create_drops")
    /\ spawns' = {}
    /\ Buffers("create_drops", [d \in {Gold[m] : m \in spawns} |-> Spawn])
    /\ UNCHANGED <<world, battle, damage, noticed, deaths, panic, requests, strolls, gifts>>

-----------------------------------------------------------------------------
(* The end of a schedule *)

Buffered == {s \in Systems : buffer[s] # NoCommands}

Changed(s, cmd) ==
    LET kept == {c \in s : c.kind \notin cmd.remove} IN
    IF cmd.insert = {} THEN kept ELSE Inserted(kept, CHOOSE c \in cmd.insert : TRUE)

(* The commands of system s are applied.  Inserting into an entity that is   *)
(* gone panics; removing from it and despawning it again do nothing.         *)
Apply(s) ==
    LET cmds == buffer[s]
        despawned == {e \in DOMAIN cmds : cmds[e].despawn}
        changed == {e \in DOMAIN cmds : e \in Fighters \intersect exists /\ ~cmds[e].despawn}
    IN
    /\ panic = None
    /\ todo = {}
    /\ s \in Buffered
    /\ \A t \in Buffered : ~Before(t, s)
    /\ \/ /\ \E e \in DOMAIN cmds : cmds[e].insert # {} /\ e \notin exists
          /\ Panic(s)
       \/ /\ \A e \in DOMAIN cmds : cmds[e].insert # {} => e \in exists
          /\ exists' = (exists \ despawned) \union {e \in DOMAIN cmds : cmds[e] = Spawn}
          /\ state' = [e \in Fighters |->
                IF e \in despawned THEN {}
                ELSE IF e \in changed
                THEN Changed(state[e], cmds[e])
                ELSE state[e]]
          /\ queue' = [e \in Fighters |-> IF e \in despawned THEN <<>> ELSE queue[e]]
          /\ goal' = [e \in Fighters |-> IF e \in despawned THEN NoGoal ELSE goal[e]]
          /\ buffer' = [buffer EXCEPT ![s] = NoCommands]
          /\ UNCHANGED <<battle, events, schedule, todo, reading, panic, requests, strolls, gifts>>

NextSchedule ==
    /\ panic = None
    /\ todo = {} /\ Buffered = {}
    /\ schedule' = Following(schedule)
    /\ todo' = SystemsOf(schedule')
    /\ UNCHANGED <<world, battle, events, reading, buffer, panic, requests, strolls, gifts>>

Init ==
    /\ exists = Fighters \union InitialDrops
    /\ state = [e \in Fighters |-> {}]
    /\ queue = [e \in Fighters |-> <<>>]
    /\ goal = [e \in Fighters |-> NoGoal]
    /\ health = [e \in Fighters |-> MaxHealth]
    /\ hurt = [e \in Fighters |-> [a \in Fighters |-> 0]]
    /\ damage = <<>> /\ noticed = <<>> /\ deaths = {} /\ spawns = {}
    /\ schedule = "PreUpdate" /\ todo = SystemsOf("PreUpdate")
    /\ reading = FALSE
    /\ buffer = [s \in Systems |-> NoCommands]
    /\ panic = None
    /\ requests = MaxRequests /\ strolls = MaxStrolls
    /\ died = [e \in Fighters |-> 0]
    /\ gifts = [d \in Drops |-> [p \in Players |-> 0]]

Next ==
    \/ movement_input \/ update_action \/ disconnected
    \/ transition_to_idle \/ transition_from_idle \/ transition_from_moving \/ transition_from_attacking
    \/ movement \/ pickup \/ action \/ dead
    \/ handle_action \/ handle_damage \/ attack_player \/ drop_gold \/ movement_monster
    \/ tick_drop \/ spawn_monsters
    \/ enqueue_action \/ create_drops
    \/ \E s \in Systems : Apply(s)
    \/ NextSchedule

Spec == Init /\ [][Next]_vars

-----------------------------------------------------------------------------
(* Properties *)

Commands == [remove : SUBSET {"Idle", "Moving", "Action", "Pickup"}, insert : SUBSET Components, despawn : BOOLEAN]
Hits == [source : Fighters, target : Entities, amount : Amounts]

(* Every component, request, goal and event is well formed, and nobody has *)
(* two components of one kind, as in the component storage of the world.   *)
TypeOK ==
    /\ exists \subseteq Entities
    /\ \A e \in Fighters :
        /\ state[e] \subseteq Components
        /\ \A c, d \in state[e] : c.kind = d.kind => c = d
        /\ Range(queue[e]) \subseteq Components
        /\ goal[e] \in Goals \union {NoGoal}
        /\ health[e] \in 0 .. MaxHealth
    /\ Range(damage) \union Range(noticed) \subseteq Hits
    /\ deaths \subseteq Fighters /\ spawns \subseteq DOMAIN Gold
    /\ todo \subseteq SystemsOf(schedule)
    /\ requests \in 0 .. MaxRequests /\ strolls \in 0 .. MaxStrolls

IsDead(c) == c.kind = "Dead"

(* The death of a fighter is not lost: from the blow that takes its last     *)
(* health the Dead state is requested, on its way or there, although every   *)
(* transition drains the whole queue of requests, and several systems drain  *)
(* it while handle_damage, moving and minds fill it.  Nobody who has health  *)
(* is ever dead.                                                             *)
DeathNotLost ==
    \A e \in Fighters \intersect exists :
        (health[e] = 0) <=> \/ Has(e, "Dead")
                            \/ \E c \in Range(queue[e]) : IsDead(c)
                            \/ \E s \in Buffered : e \in DOMAIN buffer[s] /\ \E c \in buffer[s][e].insert : IsDead(c)

(* A fighter dies once: whatever hits are under way when the last blow falls, *)
(* in this tick or later ones, one EntityDeath is sent for it, the one that   *)
(* drop_gold and distribute_experience pay out.                               *)
OneDeath == \A e \in Fighters : died[e] = IF health[e] = 0 THEN 1 ELSE 0

(* The sum of the values of f, a function on the fighters. *)
Total(f) ==
    LET sum[S \in SUBSET Fighters] ==
          IF S = {} THEN 0 ELSE LET a == CHOOSE a \in S : TRUE IN f[a] + sum[S \ {a}]
    IN  sum[Fighters]

(* What the DamageReceiver has recorded of all attackers is the health that *)
(* was lost; only the killing blow may be recorded above what was left.     *)
DamageAccounted ==
    \A e \in Fighters : health[e] = saturating_sub(MaxHealth, Total(hurt[e]))

(* Nobody is given the same drop twice, though the goal to pick it up stays, *)
(* Pickup and Idle overlap, and requests for it may be queued more than once. *)
NoDoubleGift == \A d \in Drops, p \in Players : gifts[d][p] <= 1

(* Players whose Pickup runs in the same tick are all given the drop, as its  *)
(* despawn is deferred; that is all the deferring costs: a drop that somebody *)
(* was given in an earlier tick is given to nobody any more.                  *)
GivenInOneTick ==
    [][\A d \in Drops : (\E p \in Players : gifts[d][p] # 0) =>
          \A p \in Players : gifts'[d][p] = gifts[d][p]]_vars

(* The three that follow state what the code says of itself, and its runs    *)
(* refute them; no configuration checks them.                               *)

(* Every damage event has a sender that is in the world when it is read. *)
SenderExists == panic # "sender"

(* StateChange::apply never puts a new state on an entity that was despawned, *)
(* as it looks the entity up first.                                           *)
StatesReachLiving ==
    panic \notin {"transition_from_idle", "transition_from_moving", "transition_from_attacking"}

(* Dead is declared not interruptable: who is dead takes up no other state. *)
DeadNotInterrupted ==
    [][\A e \in Fighters : Has(e, "Dead") =>
         \A c \in state'[e] \ state[e] : c.kind \notin {"Moving", "Action", "Pickup"}]_vars
=============================================================================
