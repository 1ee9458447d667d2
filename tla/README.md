# A TLA+ model of Skrillax

Skrillax is a server for the MMORPG Silkroad Online: a *gateway* that clients
patch, log in and choose a server with, and an *agent* that runs the game.
This directory holds TLA+ modules that model the parts of it whose correctness
depends on order, time and concurrency, the TLC configurations that check them
on small instances, and TLAPS proofs of what holds for every instance.

## The system

| part | source | state | operations | talks to |
|---|---|---|---|---|
| Admission | `silkroad-agent/src/population`, `login/web.rs`, `db/user.rs` | two atomics (`queued`, `playing`), a mutex with the reservations | `reserve_spot`, `hand_in_reservation`, expiry, token drops, `usage` | gateway over HTTP; game loop |
| Character selection | `silkroad-agent/src/login` | per connection a `CharacterSelect`: characters, checked name, one pending receiver per request | list, check name, create, delete, restore, join | database tasks on the tokio runtime |
| Job distribution | `login/job_distribution.rs` | hunter and thief counts, refresh receiver | spread, refresh | database task |
| Game loop input | `silkroad-agent/src/input`, `net` | per entity the last packet of every kind, last action time | receive, reset, accept, disconnect | network stream |
| Agent states | `silkroad-agent/src/agent` | one state component and a transition queue per entity | request, auto and forced transitions, movement, actions, pickup, death | all game systems |
| Combat and experience | `silkroad-agent/src/game` (damage, attack, action, exp, mind) | health, mana, level, experience, death lists | damage, death, exp distribution, level up | agent states, drops, sync |
| Inventory | `silkroad-game-base/src/inventory.rs`, `changes.rs`, `silkroad-agent/src/game/inventory.rs` | slot map, gold, list of recorded changes | add, move, stack, swap, remove | persistence, sync |
| Persistence | `silkroad-agent/src/persistence`, `comp/*` | per component change lists; rows in Postgres | collect, periodic save, save on exit | database tasks |
| World | `silkroad-agent/src/world`, `comp/spawner.rs` | entity maps, id pool, spawners | register, maintain, spawn, activate, deactivate | game systems |
| Visibility and sync | `game/visibility.rs`, `sync` | per entity the set of entities it sees; this tick's changes | update, broadcast, clear | network stream |
| Chat, commands, mall, targets, logout, stats, mastery | `chat`, `mall`, `game/*` | input of this tick, timers | handlers, one per packet | inventory, exp, persistence |
| Gateway | `silkroad-gateway/src` | per client a login state; list of agent servers and their health | patch, news, login, passcode, reserve | Admission over HTTP, Postgres |
| Network stream | `silkroad-network` | reader and writer task, channels | handshake, read packets and massive packets, write | security, game loop |
| Security and framing | `silkroad-security`, `silkroad-protocol`'s frames | handshake state, count bytes, ciphers | challenge, accept, encrypt, frame | network stream |
| Data | `silkroad-data`, `silkroad-definitions`, `silkroad-navmesh`, `silkroad-serde*`, `silkroad-protocol` | read-only tables, packet definitions, meshes | parsing | everything |

Concurrency: the gateway is one tokio task per client plus a poll task; the
agent is a single-threaded game loop (Bevy schedules First, PreUpdate, Update,
PostUpdate, Last; one round is a tick), a tokio runtime with the web handlers,
the database tasks and two tasks per connection. The game loop shares memory
with the runtime only through the reservations mutex, two atomics and channels.


### What is hard, and what makes each part correct

* **Admission.** Web handlers on several threads and the game loop take one
  mutex, change two atomics inside and outside of it, and a status report
  reads the atomics without it. Correct means: the counters equal the
  reservations and seats that exist; the capacity is never exceeded; an account
  has one reservation; a granted token works for as long as it was promised.
* **Inventory.** The client names slots and amounts. Correct means: where items are
  created or destroyed by a move is known exactly, at most one stack of an item is open,
  and the recorded changes, optimized or not, say what happened.
* **Persistence.** Changes are collected every frame and written by tasks that
  run beside the loop, statement by statement, while the player plays on, logs
  out, is cut off, or comes back. Correct means: the database ends up with what
  was saved last.
* **Character selection.** Requests start database tasks of several statements;
  results arrive frames later. Correct means: characters are seen whole and
  every request is answered.
* **Agent states and combat.** Some twenty systems, most of them unordered,
  read components at once and change them by deferred commands. Correct means:
  a death is neither lost nor counted twice, damage adds up, and nobody is given
  one drop twice.
* **World.** Ids are pooled and reused while maps, targets and command buffers
  still name the old entity. Correct means: an id names at most one entity and
  none leaks, spawners count what lives, targets let go of what is gone.
* **Progression.** Events, commands and requests of one tick change counters that
  depend on each other, the client is told of differences only, and each component
  is saved by a task of its own. Correct means: experience is neither made nor
  lost, what is bought is paid for, bars, client and row follow.
* **Visibility.** Views are computed somewhere in the tick from what was active when
  it began, and spawns and despawns sent as differences, by ids that are reused.
  Correct means: a client knows exactly the entities its player sees, and where
  they stand.
* **Gateway.** Two services and a database that fail apart from each other, and a
  list that is only as new as the last poll. Correct means: a spot goes to an
  account that has just been proven, the token a client is told works, faults and
  restarts only delay.
* **Stream.** Two tasks and the game end in any order, massive packets come in
  pieces. Correct means: whatever was sent is received, in order, under its
  opcode, however it was cut into frames; what was sent before the end arrives.

The places where these could go wrong are listed, with their lines and the
properties that watch them, under `hazards` in `PROJECT.json`.

## Modules

| module | models | kind |
|---|---|---|
| `Admission` | what admission promises | abstract specification |
| `LoginQueue` | `population/{capacity,queue}.rs`, `login/web.rs`, `db/user.rs`, the authentication of `login/charselect.rs`, `net/net.rs` | implementation of `Admission` |
| `InventoryChanges` | items, the recorded changes, their optimization, the SQL they become | operators |
| `Inventory` | `silkroad-game-base/src/inventory.rs` and the movement handler of the agent | state machine |
| `Persistence` | `persistence/mod.rs`, composed with `Inventory` by extending it | state machine |
| `CharacterSelect` | `login/{charselect,jobs,character_loader}.rs`, `db/character.rs` | state machine |
| `AgentStates` | `agent`, and damage, death, minds and drops of `game` | state machine |
| `World` | `world`, `comp/spawner.rs`, `game/{spawn,unique,drop,target,player_activity}.rs`, `net/net.rs` | state machine |
| `Progression` | `comp/{exp,player,mastery,skill,gold,mod}.rs`, `game/{exp,mastery,stats}.rs`, gold of `game/inventory.rs`, commands, their part of `sync/system.rs` and `persistence/{mod,apply}.rs` | state machine |
| `Visibility` | `game/visibility.rs`, `comp/visibility.rs`, `sync` | state machine |
| `Gateway` | `silkroad-gateway`, the agent's registration and token check, composed with `Admission` | state machine |
| `Channel` | what one direction of a connection promises | abstract specification |
| `Stream` | `silkroad-network`, `silkroad-security`, receiving and dropping in `input/system.rs`, `net/net.rs` | implementation of `Channel`, twice |
| `MC*` | | instances for TLC |
| `LoginQueueProofs` | | theorems about `LoginQueue` and `CharacterSelect` |
| `GatewayProofs`, `WorldProofs`, `StreamProofs`, `ProgressionProofs`, `AgentStatesProofs`, `VisibilityProofs` | | theorems about the module each is named after |
| `PersistenceProofs` | | theorems about `InventoryChanges`, `Inventory` and `Persistence` |

Definitions keep the names of the code where they stand for a function of it;
`map` in `PROJECT.json` gives the lines of each. Definitions introduced by
"A slip" or "As if" are wrong on purpose: they show, one per property, a
mistake the property would catch. No specification uses them.

### LoginQueue

One `pc` per web request, one for the game loop and one for a status report.
Every access to an atomic and every change of the reservations is a step of its
own, as other threads may run in between, except where the mutex makes the
difference unobservable.

| code | actions |
|---|---|
| `handle_spot_request`, `ServerUser::fetch`, `reserve_spot` | the actions of a request `w \in Web`: fetching or inserting the user row, taking the mutex, forgetting stale reservations, comparing accounts, loading both atomics, deciding, counting, drawing a token, pushing |
| `QueueToken`, `PlayingToken` and their `Drop` | `DropQueueToken`, `DropPlayingToken` and the increments beside them |
| `handle_auth`, `hand_in_reservation` | the steps `InputsReceived` to `UpdateDone` of the game loop, `FoundReservation` counting the seat before the reservation's token is dropped |
| `usage`, `GET /status` | `UsageLoadQueued`, `UsageLoadPlaying` |
| `ReservationQueue`'s clock | `Tick`, with time left per token |

A draw of a token can collide with one in use and fail. The history variables
(`floor`, `report`, `skipped`, `admitted`) record what the properties compare.

### InventoryChanges and Inventory

The inventory is a function from slots to items; the database's parking slot -1
is one more row of the same store. `changes` is the list `ChangeTracked` hands
out, `optimize` is `merge_recursive` with `try_merge` of every kind of change,
`Statements` the SQL of each change, `RunChange` what those do to a store one after
the other (a failed one ends its change) and `Replay` what a whole log does. The loops
are recursive functions over the length of the list. `Equip`, `Unequip`
and `MoveInBag` are the three arms of `handle_inventory_movement`, each calling
`move_item`; `add_item` has one action for each of its exits; `remove_item`,
which nothing calls, is left out. `HashMap` has no order: where the code iterates
one, the model chooses. `Fitting` has the slots an item may be worn in by all three
conditions of `item_fits_into_equipment_slot` (object type, race, required level), for a
player whose level does not change meanwhile. The bag is empty at first; what a
session may load instead is in `Persistence`.

The client's number of a move is believed: where stacks of one item meet and there is
room for it, `move_item` adds the number and removes the source. `MovesAccounted` says
that this is the only case in which a move makes or destroys items, and by how much.

### Persistence

`phase` goes through the parts of a frame: the player plays, `collect_changes`,
`apply_changes` (or its timer has not run out), `apply_changes_exit`, and First
of the next frame, where a logged out or disconnected player is despawned. A
task is a list of changes and each change a list of statements, executed one at
a time; statements that break the unique constraint fail, any statement may fail
for want of a connection, and an error ends its change. The next session
loads what is in the table when its list is read, whether tasks of the last one still
run or not, and may read it again until it joins.

Nothing keeps an account from playing a character twice: the queue compares reservations
(`queue.rs:54`), and `handle_join` does not ask. `JoinElsewhere`, `SaveElsewhere` and
`LeaveElsewhere` are a second connection with the character, whose saves (`OtherChanges`)
are those of an inventory of its own, at any time before, during and after the sessions
that the other variables follow.

The code promises less than that the database always has the player's items, and
`excuses` names every reason for which it may not:

| excuse | source | what happens |
|---|---|---|
| collision | `persistence/mod.rs:152` | changes of one slot run side by side, in a save (`join_all`) or in two |
| reordered | `changes.rs:87` | the optimization moved a change past another of the same slots |
| reload | `charselect.rs:173` | the characters were listed while tasks of the last session still ran |
| twice | `queue.rs:54`, `charselect.rs:145` | a second connection plays the character and saves what it has |
| unrecorded | `silkroad-game-base/src/inventory.rs:374` | `move_item` returns early and destroys both stacks, in memory only |
| error | `persistence/mod.rs:153` | a statement failed for a reason of its own; nothing is retried |

The run reaches all of them but `reordered`, which takes three changes in one
save (`OptimizeFaithful`, below) and the run has two, and `unrecorded`. That one takes
two open stacks of an item, which no sequence of operations makes (`OneOpenStack`) but a
lost statement can leave in the database; the next session loads them, stacks one on
the other, and the database keeps what the player lost. The proof showed it: without
this excuse the invariant is not inductive. `SavedInTheEnd` says that there is no seventh,
and a session that begins with the tables at rest and nobody else in the game has none.
A lost connection is not among them: it forgets what was not yet saved, and the
property speaks of what was.

### CharacterSelect

`rows` is the table, `select` the component of a client, `receiver` the pending
answers, `tasks` the database tasks with the statement they have reached. A new
request of a kind replaces the receiver of the last; its task goes on
unobserved. A task dies on a failed statement. Time passes with `TimePasses`. `Fetch`
is the first statement of a list, which yields rows in the order of their ids (`ById`);
the second looks up the equipment of each. A client may join with any name: one that is
not in the list it has (`JoinUnknown`) is an `unwrap` of nothing (`charselect.rs:158`),
which ends the game loop (`panicked`), after which tasks go on and nothing is polled any
more. `AllAnswered` is about loops that have not panicked. `OwnCharacters` is proved and
not repeated by the run.

### AgentStates

A tick is the schedules PreUpdate, Update and PostUpdate. Each system is an
action that reads and writes at once what the code reads and writes through
queries, and puts insertions, removals and despawns into its command buffer;
`Apply` applies the buffers, one system at a time, in any order the plugins do
not rule out (`Before`). Three facts about Bevy 0.12 are assumed: buffers are
applied at the end of a schedule; systems without a configured order run in any
order; inserting into a despawned entity panics, while removing from one and
despawning it again do nothing. A panic ends the behaviour (`panic`).

Systems that only fill a buffer, or touch nothing another system of the schedule
touches, run in a fixed order (`Commuting`): every interleaving with them leads to the
same state, and the order of their buffers stays free. `handle_action`, which handles
the requests of clients, is one of them: it writes the minds of players, and the other
systems of Update look at the minds of monsters only. The phases of an action are
merged to before (`Casting`) and after (`Teardown`) the hit, as nothing can tell the
merged ones apart. Distances and timers are choices.

### World

`phase` runs through the systems of a tick in one order, as they share nothing but
the id pool; the order in which two command buffers touch one target is a choice
(`ApplyUpdate`). `entity` holds what exists, `spawning`, `despawning`, `retarget`
and `untarget` are the buffers, `taken` the pool, `idMap` and `playerMap` the
lookup. `update_timers`, `do_spawn_mobs` and `spawn_monsters` spawn, `monsters` has one
of deaths with their gold (`drop_gold`; that Dead goes through the transition queue is in
`AgentStates`), corpses (`dead`), drops (`tick_drop`) and walks, `collect_entities` and
`maintain_entities` keep the lookup. `lost` records monsters that a spawner counted
although no place on the mesh was found for them: the code counts them until the region
is left.

### Progression

One player. `play` has the systems of Update in every order the plugin allows:
`receive_experience` comes before the reset of the bars on a level up, the stat
handler before the update of the maxima, and nothing else is ordered. `sync` is
PostUpdate: the client is told what `changed` says, and the timer may save. Every
component has its own list of tasks, which end in any order or fail; `row` is what
the table has, with gold cut to 32 bits as `apply.rs` does. `login` is the copy of
the character that the commands compare with, and whose stats a level up tells the
client; `send_spawn` tells it the health of the row, while the player has all of it.
`ClientInformed` names both; the mana, which is read by nothing but the spawn packet,
is not compared.

`Join` reads the row as it is: some tasks of the last session may have written it and
others not, and those write it later; a second connection with the character may have
saved what it had (`SaveElsewhere`). `excuses` records the first of `error`, `overtaken`,
`reload` and `twice`. A history starts anew with a session, from what the row is worth:
`earned` and `spent` are all that was received and paid, `given` what the mastery levels
cost that came with a request beyond the one it paid for.

The widths are scaled: `HalfWord` stands for 2^31, `Byte` for 2^8. Experience and SP
wrap as they do in a release build, where a debug build panics; `wrapped` records it.
`ExperienceConserved` then says what is left: experience is right modulo its width. The
number of levels gained in a tick is an `i8` in the code and is not counted here, so more
than 127 levels in one tick are outside of the model.

### Visibility

Places are points with a relation `Close`, regions a relation `Beside`. A tick is
`Begin`, the systems of Update with `visibility_update` somewhere among them,
`EndUpdate` and `PostUpdate`. `view` is the component, `client` what was sent: an id
to the place it was told, so that ids that change their owner and updates of
strangers show. A player that teleports to a region where nobody was when the tick
began is left out of `visibility_update` for that tick: `stale` records what it keeps
in view meanwhile, `missed` the players that see it at that moment, which stay told
until one of them leaves the other's view. The properties exempt these pairs, and no
others, by name. `missed` was found by the proof: without it the invariant is not
inductive, as a player may teleport a second time before its first departure is
looked at.

### Gateway

The task of a connection goes through `login`, `code`, `details`, `reserve`,
`posted` and `granted`; everything between two awaits is one step. The agent is
`Admission` by `INSTANCE` (its steps are `Agent!Reserve`, `HandIn`, `Expire`,
`Leave`, `Pass`), with a `start` that stands for the token drawn when it starts, a
row in the table, crashes and another address after a restart. The poll task
fetches, asks and replaces the list; it dies of a region it does not know. As
`LoginQueue` implements `Admission`, what holds here holds with it in its place.

### Stream

The accepting task goes through the stages of the handshake, with the modular
powers of the key exchange computed; then the reader turns frames into packets, the
game takes them, the writer turns packets into frames, the client reads them.
Sizes are in bytes with `Word` for 2^16, so that lengths that do not fit the field
occur, and products are taken in the i64 of the code (`I64`, `Word`^4 values). A modulus
of 0 divides by zero and ends the accepting task, one of 1 leaves two ends with different
secrets if exactly one of them drew 0: `HandshakeCompletes` names both (`Degenerate`) and
excludes every other failure between two ends that keep to the protocol. What an
end computes from numbers outside of it is not considered.

The game holds a stream as `login` or `playing`. While it logs in, the answer to
an IdentityInformation is sent by `Stream::send` and unwrapped (`input/system.rs:139`):
with the writer gone it panics the game loop (`send_identity_information`), where
`Client::send` ignores the error (`send`). `EndsCleanly` says that a stream that ended is
dropped unless that happens. Blowfish is taken for a function of the secret. `In` and
`Out` map the two directions to `Channel`.

## Runs

| run | instance | shows |
|---|---|---|
| `login_queue` | 2 accounts, 2 tokens, 2 requests at a time, 1 connection, 2 spots; symmetry | counters, capacity, grants and status reports are right, and `Admission` is implemented |
| `inventory` | a bow and arrows in stacks of 3; slots 6, 7 worn, 13 and 14 in the bag, 15 beyond its size | one open stack, conservation and the log, for all sequences of moves and pickups |
| `inventory_equip` | as `inventory` | **fails**: see findings |
| `persistence` | a bow and arrows in stacks of 2, picked up by 1 and by 2; slots 13 and 255; a second connection | the database follows the saves but for the named excuses; nothing recorded is forgotten; a logout saves all |
| `character_select` | 2 accounts with a character of one name, 3 requests; fair | characters are listed whole, all requests are answered until the loop panics |
| `agent_states` | a monster of two hits that leaves gold, an invincible player, a drop, a request | deaths are neither lost nor repeated, recorded damage is lost health, nobody is given a drop twice, in any order of systems and buffers |
| `world` | a name, a spawner of two monsters, 5 happenings | ids, spawner counts and targets stay right through every tick's buffers |
| `progression` | three levels, one mastery, two skills, 3 events | experience is conserved and purchases are paid but for the named cases, bars, client and row follow |
| `visibility` | 2 players, 2 other entities, 4 places in 4 regions (three in a row, one far), 4 happenings | clients know what is around them and where it stands |
| `gateway` | a connection, 2 accounts (one with a passcode), another client, 2 starts at 2 addresses, 1 spot | spots go to proven accounts; the token works where the client is sent |
| `gateway_liveness` | as `gateway`, 2 spots, right credentials; fair | the list ends up showing the agent as it is; who keeps trying gets in |
| `stream` | a word of 4 bits, 4 frames or packets; fair | the handshake agrees, frames read back, both directions implement `Channel`, connections end cleanly |

### Bounds

* `LoginQueue`: `ValidTime` 2 lets a reservation be fresh, old and stale; two
  accounts, tokens, requests and spots are the least with which they can be mixed
  up, and a seated client leaves one spot for two simultaneous requests to compete
  for. The theorems cover all other sizes. `Users`, `Tokens`,
  `Web` and `Clients` appear only in quantifiers, so permuting them is sound.
* `Inventory`: stacks of 3 and amounts 0 to 4 have every comparison of an amount
  with a stack and with the room in one come out all three ways. Slot 15 is a
  slot the client can name that `Size` does not grant. `MaxChanges` 3 is the
  length from which optimizing can go wrong; pairs suffice for `PairsFaithful`.
* `Persistence`: `MaxPending` 2 changes between saves and `MaxTasks` 2 tasks
  have two changes of one save, or two saves, run side by side. Slot 255 is the
  one a parked row is loaded into. Nothing more is played once an excuse has
  applied, until the next session: what the properties say from then on is about
  tasks that are already there.
* `CharacterSelect`: three requests are a creation and two that overlap it, or a
  delete, a restore and a list. `MaxTime` 2 with `DeletionTime` 1 lets the time
  run out before, during and after a restore.
* `AgentStates`: `MaxRequests` and `MaxStrolls` bound what clients and monsters
  do out of their own; all else (fights, deaths, pickups) runs on without bound.
  Two hits of 1 on a health of 2 have the second arrive while the first is handled.
* `World`: five happenings are a join, two walks, a death and a disconnect, or a
  target, an untarget and a disconnect around them. A spawner of two can be half
  empty. Twelve entities are never used up within five happenings, so that this bound
  only closes the sets. Spawners share nothing but the pool, so one suffices.
* `Progression`: three levels have an event worth two of them; prices 0 and 1 and
  levels 1 and 2 of a skill have every comparison come out both ways; gold of 3 and 5
  lies on both sides of `HalfWord` 4. Two saves of a component can be under way. A
  mastery is raised by 0, 1 and 2 levels, of a byte that holds 4; SP of 7, and the
  negative difference of a torn row, leave the scaled u32 and u64. Hits of 1 and 300 hurt
  and kill. One failed statement, or one column saved by the second connection, is enough
  to tear a row.
* `Visibility`: places in a row have entities that are close to one player and not to
  the other; the fourth is the far place a teleport leads to. Ids are taken lowest
  first from a pool of two for each entity, so that they come back.
* `Gateway`: two starts are a restart; one spot lets others take it. Other connections
  share nothing with this one but the list and the agent, where `Others` act for them.
* `Stream`: with a word of 16, a container holds 15 bytes and a length from 8 on does
  not fit: sizes 3, 6 and 16 are a packet that fits, a massive one of one container
  and one that does not fit. Of the moduli, 0 and 1 are degenerate and 127 is the largest
  that can be drawn; the generator 100 has products near the limit, and secrets of 0, 3
  and 6 have no round, only odd ones and an even one first.

### Fairness

Tasks and the game loop go on whenever they can (weak fairness): the operating
system runs the threads and the runtime polls the tasks. In `CharacterSelect` these
are the database tasks and the receivers, which are polled every frame; in `Gateway`
the task of a connection, the poll loop, the clock and the clean-up that is part of
each request; in `Stream` the reader, the writer and the systems of the game that
receive and disconnect. `RetriesSucceed` is about a player who keeps trying, so that
connecting is weakly fair and sending the right credentials strongly fair (another
request of the same client may come between). Nothing is assumed of
other clients, of failures or of a connection that breaks; faults are bounded in
number, so that they end. The safety runs assume no fairness.

`CHECK_DEADLOCK FALSE` is set where the system may stop: `CharacterSelect` and
`Progression` have served their last request, `AgentStates` has panicked, `Gateway`
has used up its starts, `Stream` is closed.

### Memory model

The model treats all accesses to the two atomics as sequentially consistent.
The code changes them with `Ordering::Relaxed` and loads them with `Acquire`.
Inside the mutex that is enough. The status report is outside: that it misses no
spot (`StatusCountsEveryone`) holds where read-modify-write instructions are full
barriers, as on x86, and is not guaranteed by the orderings the code asks for.

## Proofs

One proof module stands beside each state machine; that of `Persistence` has the
theorems of `Inventory` too, and that of `LoginQueue` those of `CharacterSelect`, the
two halves of a login. The theorems hold for all values of the constants that satisfy the
module's `ASSUME`, which TLC evaluates in the runs: any number of accounts, slots,
entities, frames and happenings. Each starts from an inductive invariant, built in
parts, as hardly any of the properties is inductive as it stands; the step lemma of a
part has one case for each action.

### LoginQueueProofs

Under `ConstantsAssumption`, `LoginQueue` has each of its
safety properties and implements `Admission`. That a counter equals the reservations is
preserved only if nobody else is between checking and pushing, which takes the mutex,
which takes the control state of every thread. The layers of `Inv`, each
proved preserved from the ones before it:

1. `Typing` with `LockHeld`: control is in a critical section exactly when the
   mutex is held by that thread.
2. `Control`: which variables are meaningful where (a request past the
   comparison of accounts has found none; the game loop handles a client that is
   connected).
3. `Spots`: accounts and tokens are unique among the reservations, and a request
   that is about to push one is not among them.
4. `Grants`: a token that was promised and still has time is among the
   reservations, or handed in.
5. `Dropped`: requests dropped without an answer come with an admission.
6. `Counters`: `queued` and `playing` are the cardinalities of the reservations
   and seats, corrected by the thread that has counted and not yet pushed, or
   pushed and not yet discounted; sums stay within `Max`. `NonNegative`, which is
   why the unsigned counters never wrap, follows.
7. `Status`: a report that is under way has not missed a spot occupied since it
   began. This is where the order of the two loads, and of counting a seat before
   freeing the reservation, matters.

`Refinement` maps each step to a step of `Admission` or to a
stutter, by the lemmas `Reserves`, `Expires`, `HandsIn` and `Leaves`.

The theorems about the character selection are in the second half. The module extends
both `LoginQueue` and `CharacterSelect`; they share nothing but that the connections of
the one are clients the other admitted. The assumption is `CharacterSelectAssumption`.
`SelectInv` has these parts:

* `SelectTyped`: rows, lists, receivers and tasks are well formed.
* `ShownOwn`: what a client is shown, or a task is about to show it, and what it plays
  are characters of its own account, under their names. Rows never change their owner
  or name (`Grows`), so that a list read before other tasks' statements stays true.
* `Addressed`: a receiver belongs to a task of the client that holds it, of the kind it
  is held for, however often receivers are replaced.
* `Creating`: a creation past its first statement has a row of its client, and one that
  is done has the equipment in it.
* `Undeleted`: only a character somebody asked to delete has a time at which it is.
* `Complete`: characters whose creation had finished when a list was asked for stay
  complete, are among the rows its first statement reads unless they are deleted, and
  among those its second statement finds equipment for.

`ListsAreWhole` follows from the last, `OwnCharactersOnly` from the second to the
fourth. None of them is inductive by itself: that a list is whole needs that nobody but
a deletion hides a row, which needs `Undeleted`, and that an equipped row stays equipped
while a creation of another client is between its two statements.

### GatewayProofs

`GatewayAssumption` asks for accounts with different names, and that the other clients
are not among the connections.
`SpotsProven` rests on `Typing` and `Shown`: a connection that has come as far as
asking for a spot has shown the password of a registered account, and its passcode if
it has one. `TokensWork` adds `Entries` (an entry of the list with the
token of the agent's present start has its present address), `Reservations` and
`Promises` (the spot a client remembers, while it is valid, is backed by a reservation
of the agent at the address it was given, and is no other client's).

`TokensWork` has a hypothesis, `FreshDraw`: a token drawn is not one that another
client still remembers. Among 2^32 numbers that is all but certain and the code does
not ensure it (see the observations). With one connection it holds by
itself: `TokensWorkForOne` has no hypothesis and covers the run.

### WorldProofs

`Inv` is `Buffered` (spawns are buffered under identities of their own), `Scheduled`
(which buffers can be filled at which stage of the tick), `Looked` (the lookup knows
all but the entities of this tick), `Unique` and `Accounted`: an id is taken exactly
when the lookup has it, or an entity, or one that waits to be spawned. `Counts` adds
the spawners, by cardinalities of the living monsters of each, `Targeting` the
targets, `Referring` the types (`WorldTyped`).

### StreamProofs

* Outwards: `OutInv` (`Queued`, `Legible`, `Flowing`). While nothing is broken or was
  misread, what the client got, what is in the socket and what is queued is what the
  game sent, in order. From it `EveryFrameReadsBack` and `ClientGetsWhatIsSent`, the
  refinement of `Channel`.
* Inwards: `InInv`. The frames under way are the end of a `Story` that the reader has
  understood the beginning of: a header announces a number of containers, those that
  came are in `massive`, and what the game got are the packets completed so far. From
  it `GameGetsWhatIsSent`.
* Handshake: `Shaken`, stage by stage (`Offered`, `Answered`, `Agreed`, `Confirmed`).
  That both sides compute one secret is g^xy = g^yx modulo p, proved from lemmas on
  the powers by squaring of `g_pow_x_mod_p`, for any modulus that can be drawn, prime or
  not: a product of two rests, or of a rest and a number of 31 bits, stays below 2^63, so
  that the arithmetic in i64 is exact. Moduli 0 and 1 are cases of their own.

### ProgressionProofs

`Inv` is `TypeInv`, `Whole` (no level's worth of experience is left over, unless a row
was torn) and `Writes` (while no excuse applies, the last task of each component that is
under way writes what was last saved). From it `RowsAsSaved`; with one more invariant
each, `ExperienceIsConserved` (`Exact`, in which levels are sums of what they cost, and
`Wrapping`, the same modulo the width of a u64, for any widths), `BarsAlwaysFollow`
(`Bars`), `ClientIsInformed` (`Knows`: what differs is marked as changed) and
`EverythingIsPaidFor` (`Paid` and `Capped`). The last has one hypothesis, `SkillTree`:
that a level of a skill requires the ones below it, as the game's data has it. The
number of mastery levels a client names is arbitrary, and a session may start with any
row that the tasks of earlier sessions and of a second connection leave.

### AgentStatesProofs

`DeathIsNotLost` and `DeathIsOnce` need `Shape` (which states, queues and buffers an
entity can have at each stage of a tick, in every order of the systems) and `DeathComes`
(health is gone exactly when Dead is there or on its way, in one place only).
`NobodyIsGivenTwice` needs `Gifts`, `GoldOnce` and `Gone` (a drop that was given is
despawned or about to be), `DamageIsAccounted` that a receiver's record is a sum of the
damage of its attackers (`Bled`). From `Gone` follows `DropsAreGivenInOneTick` too: a
drop that anybody was given is given to nobody in a later tick. It bounds what the
deferred despawn can cost (see the observations on combat): those who share a drop
picked it up in one tick.

`AgentsTyped` adds `Typed`, in four parts that need each other: `Bodies` (states,
requests and deferred insertions are components, one of a kind for each fighter; what
minds request is typed by `Minds`), `Minds` (goals; a monster's comes from a hit, typed by
`Fights`), `Fights` (health, hits and deaths; whom a hit is sent to comes from the action in
`Bodies`) and `Clock` (the schedule, the systems left to run and the bounds).

### VisibilityProofs

`VisibilityAssumption`: closeness is reflexive and symmetric, and close places are in
neighbouring regions; the code computes distances and loads the regions
around a player. `Inv` is `Typed`, `Distinct` (ids of what exists), `Unlooked` (when
views have pending changes), `Apart` (ids of what a player sees or saw, so that no
id is passed on while a view still has it), `Mutual` (players see each other, with
the exceptions of `stale` and `missed`), `Known` (a client knows what its view had
before the last look) and `Stands` (at the place it was told). The four properties follow.

### PersistenceProofs

* The operators: what `Run` and `Replay` do (`RunLocal`: a change touches its own rows;
  `ReplayConcat`; `OptimizeIs`), and what the merge of each kind of pair does
  (`AddThenMove`, `AddThenChange`, `MoveThenMove`, `MoveThenRemove`, `ChangeThenAny`,
  `AddThenRemove`, `SwapThenSwap`).
* `Inventory`: `InventoryInv` is `Sound`, `Tidy` (no stack is too large, and only one of
  an item is open), that nothing went unrecorded, and `ChangesComplete`. The lemma
  `Recorded` says that every operation adds changes to the log that are each possible
  when they come and play back to the new items. `StacksStayTidy` and `LogIsComplete`
  follow. For `MovesAreAccounted` and `PickupsGiveAll` `Owning` adds that there are no
  stacks of 0, for `PairsAreFaithful` `Sensible` adds that every change of the log finds
  what it is about. Three changes are not faithfully optimized, see the findings.
  `MovesAreAccounted` has no hypothesis on what can be worn and stacks: for equipping it
  gives what the refuted `EquipConserves` lacks, one minus the size of the source stack.
* `Persistence`: `PersistenceInv` is `Typed`, `Staged` (where a change can be at each
  stage of a frame), `NothingForgotten`, `SavedAtExit`, and `Settled`: as long as no
  excuse applies, no two tasks work on one row, each leaves its rows as promised, and
  all others are as promised already. A statement executed keeps it (`SettlesOn`), so
  does a save (`SettlesSpawned`); what the second connection does comes with an excuse
  (`ElsewhereSaves`), which ends when the tables are at rest and it has left. From it
  `EverythingIsSaved`, `ChangesReachTheCollection` and `NobodyLeavesUnsaved`.
* Types: `InventoryTyped` follows from the parts of `InventoryInv` (amounts that are
  subtracted are covered by `Tidy`, so nothing goes below zero) and the number of
  changes an operation records; `PersistenceTyped` from `PersistenceInv` and `Bounded`.

### What is not proved

The theorems without a property in `PROJECT.json` state invariants and action properties
that the runs do not repeat: the type invariants (`TypeCorrect`, `SelectTypeCorrect`,
`WorldTyped`, `AgentsTyped`, `InventoryTyped`, `PersistenceTyped`), `MutexCorrect`,
`OneSpotPerUserCorrect`, `UnansweredCorrect`, `OwnCharactersOnly` and
`DropsAreGivenInOneTick`.

Only model-checked are the liveness properties (`AllAnswered`, `ShownAsItIs`,
`RetriesSucceed`, `EndsCleanly`), which the prover does not do. The library's induction
theorems take an operator, which the provers cannot instantiate; recursive functions,
sums and powers are reasoned about with the lemma `Least` instead: a set of natural
numbers that is not empty has a least element, applied to the set of counterexamples.

## Findings

* **Equipping a stack destroys items** (`inventory_equip`). `move_item(source,
  target, 1)` rests on "equippable items are always amount 1"
  (`silkroad-agent/src/game/inventory.rs:66`). Arrows are equippable and stack:
  equipped onto worn arrows, one is added and the whole source is removed.

The models refute more statements of the code about itself. They are definitions of
the modules, or were found while writing one, and no configuration checks them:

* `OptimizeFaithful`: "if both the unoptimized list of changes and the optimized
  list were to be applied to an object, the end result would be identical"
  (`changes.rs:54`). Three changes of overlapping slots suffice.
* A create request without a checked name is answered with an error and still carried
  out: the branch goes on, where those for deleting and restoring `continue`
  (`charselect.rs:60`). `CharacterSelect` has the step.
* `SenderExists`: a damage event may be read after its sender left
  (`damage.rs:36-37`).
* `StatesReachLiving`: `StateChange::apply` looks an entity up that is
  despawned before its command is applied (`states.rs:32-36`).
* `DeadNotInterrupted`: Dead is declared as not interruptable, and the dead become
  idle and act again (`system.rs:13` against `states.rs:18`, `69`).

### Observations

Reachable, and contradicted by no statement of the repository, or outside of the
instances:

* Admission: an account that plays is granted another reservation (`queue.rs:54`
  compares reservations only) and joins with the character it plays already; a later
  session then hides the earlier one from the lookup by name (`lookup.rs`), and both save
  what they have (`twice` in `Persistence` and `Progression`).
* Character selection: a client joins with the list it was last given
  (`charselect.rs:153`), and a name that is not in it panics the game loop
  (`charselect.rs:158`); two first requests of an account both insert its row
  (`db/user.rs:43`).
* Combat: two players whose pickups run in one tick are both given the drop (those of
  later ticks are not, `DropsAreGivenInOneTick`); an action
  whose target vanished panics (`action.rs:204`); experience goes to attackers by ids
  that may have been given to others (`exp.rs`).
* World: an untarget in the tick of a new target removes the new one; the timer of a
  unique goes on while it lives (`unique.rs:79`); monsters without a place are counted
  (`spawning.rs`).
* Progression: a level up of a mastery is paid once and gives the number the client
  names (`mastery.rs:59`), which `PaidFor` counts as `given`; sums of experience and SP
  wrap (`comp/exp.rs:39`, `87`); the `level` command compares with the level of the login
  and, for a row torn by a failed save, subtracts below zero
  (`chat/command/system.rs:99`); gold is cut to 32 bits when saved (`apply.rs:192`)
  and when dropped (`game/inventory.rs:222`); raising intelligence fills the mana
  without telling (`comp/mod.rs`); the spawn packet has the health that was saved
  while the player comes back unhurt (`charselect.rs:353`), and a level up tells the
  client the stats of its login (`sync/system.rs:192`); learning a lower level of a
  skill replaces the higher one; skills whose save failed are not saved again.
* Visibility: only players have a client, so the updates of monsters are dropped by
  `synchronize_updates` (`sync/system.rs:44`); updates of hidden players go out; a
  player that teleports while it moves is not told to others as standing elsewhere.
* Gateway: `reserve_spot` avoids the tokens of the reservations there are
  (`queue.rs:66-77`), not one that a client still holds from an expired reservation;
  the proof names the draw that has to be excluded (`FreshDraw`). The patch of an old
  but supported version is a `todo!()`; an unknown region in the table ends the poll
  for good (`agentserver.rs`); a refused token is shown to the client as a full
  server; ports from 32768 on are stored as negative (`db/server.rs:31`); requests to
  an agent have no timeout.
* Stream: containers from 0x7FFF bytes on and plain packets from 0x8000 on do not fit
  the length field, and the number of containers is rounded down (`frame.rs:73`); a
  container that cannot be decoded does not lower the count (`stream.rs:98`); the count
  bytes are not checked, and their seed is copied (`security.rs:380`); a wrong key in
  the handshake panics the accepting task, as does a modulus of 0 (`security.rs:107`,
  `432`); an IdentityInformation whose answer finds the writer gone panics the game loop
  (`input/system.rs:139`).
* Not in a module: a repeated logout request restarts the countdown (`logout.rs:35`);
  two packets of one kind in a tick leave the last (`input/system.rs:27`); the share
  of hunters is an integer division (`job_distribution.rs:40`).

## What is not modelled

* Read-only or generated: packet definitions, serialisation, game data.
* Floating point: navigation meshes, positions, headings. The models have steps that
  arrive or do not, places that are close or not.
* Ciphers and hashes: functions of the key where it matters (`Stream`, `Gateway`).
* No state that anything else depends on: daylight, the job distribution, the news
  cache, delivering chat messages, the mall's token.
* Left out of modelled components: `remove_item` (never called), sitting and movement
  towards an entity (never requested), the order of packets within a tick and the
  logout countdown, how a monster's experience is divided, saved positions and mana,
  the gateway's command that makes a character a game master.
* Tools and start-up: the packet decryptor, configuration, arguments.

## Plan

Every safety invariant, action property and refinement that a passing run checks is
proved. What is left is to keep the proofs up with the code: a change of a handler
changes one action and the step of that action in each invariance proof.
