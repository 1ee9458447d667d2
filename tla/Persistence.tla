---------------------------- MODULE Persistence ----------------------------
(***************************************************************************)
(* How a player's inventory reaches the database (silkroad-agent           *)
(* persistence/mod.rs).  Every frame of the game loop collects the changes *)
(* the inventory recorded.  Every persist_interval, and at a logout, the   *)
(* collected changes are optimized and handed to tasks that run beside the *)
(* loop: all changes of a periodic save at once (join_all), those of a     *)
(* logout one after the other.  A lost connection despawns the player      *)
(* before the systems that would save it.  Nothing keeps a second          *)
(* connection of the account from playing the same character, with an      *)
(* inventory of its own that it saves to the same rows.                    *)
(***************************************************************************)
EXTENDS Inventory

CONSTANTS
    MaxPending,  \* bound: changes collected between two saves
    MaxTasks,    \* bound: tasks that have not finished
    OtherChanges \* what another connection that plays the character may save

ASSUME PersistenceAssumption ==
    MaxTasks \in Nat /\ MaxPending \in 0..MaxTasks /\ OtherChanges \subseteq ChangeSet

VARIABLES
    db,       \* the rows of character_items, as a store
    pending,  \* PersistenceCollection: the changes collected since the last save
    tasks,    \* per task what it has left: changes, as lists of statements
    phase,    \* the stage of the frame: "update", "apply", "exit", "first"
    session,  \* "none", "listed" (the characters are loaded) or "playing"
    logout,   \* tick_logout sent the ClientDisconnectedEvent
    elsewhere,\* another connection of the account plays the character
    \* history
    promised, \* the items whose saving was begun last
    excuses   \* why the database may differ from them, as far as was found first

persistenceVars == <<db, pending, tasks, phase, session, logout, elsewhere, promised, excuses>>
vars == <<inventoryVars, persistenceVars>>

Excuses == {"collision",  \* work on one slot ran side by side
            "reordered",  \* optimizing changed what the changes do
            "reload",     \* loaded while tasks of the last session ran
            "twice",      \* played by two connections at once
            "unrecorded", \* an operation of the inventory failed halfway
            "error"}      \* a statement failed for a reason of its own

Excused(why) == IF excuses = {} THEN why ELSE excuses

RowsOf(task) == UNION {{s.from, s.to} : s \in UNION {Range(task[i]) : i \in DOMAIN task}}

Collision(ts) ==
    \E i, j \in DOMAIN ts : i # j /\ RowsOf(ts[i]) \cap RowsOf(ts[j]) # {}

\* Playing, at this stage of the frame.
At(stage) == session = "playing" /\ phase = stage

-----------------------------------------------------------------------------
(* The frame.                                                              *)

\* Update: what the player does.  Bound: once a save may have gone wrong, no
\* more is played until the next session.
Play ==
    /\ At("update") /\ excuses = {}
    /\ Moves \/ Pickups
    /\ Len(pending) + Len(changes') <= MaxPending
    /\ UNCHANGED persistenceVars

tick_logout ==
    /\ At("update") /\ ~logout
    /\ logout' = TRUE
    /\ UNCHANGED <<inventoryVars, db, pending, tasks, phase, session, elsewhere, promised, excuses>>

\* A slip: newer changes are put before older ones.
CollectInFront ==
    /\ At("update")
    /\ pending' = changes \o pending
    /\ changes' = <<>> /\ base' = items
    /\ phase' = "apply"
    /\ UNCHANGED <<items, unrecorded, db, tasks, session, logout, elsewhere, promised, excuses>>

collect_changes ==
    /\ At("update")
    /\ pending' = pending \o changes
    /\ changes' = <<>> /\ base' = items
    /\ phase' = "apply"
    /\ UNCHANGED <<items, unrecorded, db, tasks, session, logout, elsewhere, promised, excuses>>

\* The optimized changes do something else than the changes.
Reordered(optimized) == Replay(promised, optimized) # Replay(promised, pending)

\* A slip: what was handed over stays collected.
SpawnKeeps(new) ==
    LET spawned == tasks \o new
    IN  /\ Len(spawned) <= MaxTasks
        /\ tasks' = spawned
        /\ promised' = items
        /\ excuses' = Excused(IF Collision(spawned) THEN {"collision"} ELSE {})
        /\ UNCHANGED <<inventoryVars, db, session, logout, elsewhere, pending>>

\* Hands the optimized changes over as new tasks.
Spawn(new) ==
    LET spawned == tasks \o new
    IN  /\ Len(spawned) <= MaxTasks
        /\ pending' = <<>>
        /\ tasks' = spawned
        /\ promised' = items
        /\ excuses' = Excused((IF Collision(spawned) THEN {"collision"} ELSE {})
             \cup (IF Reordered(optimize(pending)) THEN {"reordered"} ELSE {})
             \cup (IF unrecorded THEN {"unrecorded"} ELSE {}))
        /\ UNCHANGED <<inventoryVars, db, session, logout, elsewhere>>

EachAlone(cs) == [i \in DOMAIN cs |-> <<Statements(cs[i])>>]

\* One task for all; one of no changes ends at once and is left out.
InOrder(cs) == IF cs = <<>> THEN <<>> ELSE <<Work(cs)>>

apply_changes == At("apply") /\ phase' = "exit" /\ Spawn(EachAlone(optimize(pending)))

\* on_timer: the persist_interval has not passed.
NotYet ==
    /\ At("apply") /\ phase' = "exit"
    /\ UNCHANGED <<inventoryVars, db, pending, tasks, session, logout, elsewhere, promised, excuses>>

\* A slip: only the timer saves.
ExitIgnored ==
    /\ logout /\ At("exit")
    /\ phase' = "first"
    /\ UNCHANGED <<inventoryVars, db, pending, tasks, session, logout, elsewhere, promised, excuses>>

\* It may run before apply_changes, which then finds nothing.
apply_changes_exit ==
    /\ logout /\ (At("apply") \/ At("exit"))
    /\ phase' = "first"
    /\ Spawn(InOrder(optimize(pending)))

NobodyLeft ==
    /\ ~logout /\ At("exit")
    /\ phase' = "first"
    /\ UNCHANGED <<inventoryVars, db, pending, tasks, session, logout, elsewhere, promised, excuses>>

\* First and PreUpdate of the next frame: the player is despawned after its
\* logout, or when receive_game_inputs finds the connection closed or silent.
disconnected ==
    /\ At("first")
    /\ session' = "none" /\ logout' = FALSE /\ phase' = "update"
    /\ items' = NoItems /\ base' = NoItems /\ changes' = <<>> /\ unrecorded' = FALSE
    /\ pending' = <<>>
    /\ UNCHANGED <<db, tasks, elsewhere, promised, excuses>>

NextFrame ==
    /\ At("first") /\ ~logout
    /\ phase' = "update"
    /\ UNCHANGED <<inventoryVars, db, pending, tasks, session, logout, elsewhere, promised, excuses>>

-----------------------------------------------------------------------------
(* The tasks.                                                              *)

Current(t) == tasks[t][1][1]

\* The task t without its current statement; without the rest of its change
\* when that failed.
Remaining(t, failed) ==
    LET rest == IF failed \/ Len(tasks[t][1]) = 1 THEN Tail(tasks[t])
                ELSE <<Tail(tasks[t][1])>> \o Tail(tasks[t])
    IN  IF rest = <<>> THEN RemoveAt(tasks, t) ELSE [tasks EXCEPT ![t] = rest]

\* A statement is its own transaction, an error ends its change.
ExecuteStatement(t) ==
    /\ db' = IF Fails(db, Current(t)) THEN db ELSE Execute(db, Current(t))
    /\ tasks' = Remaining(t, Fails(db, Current(t)))
    /\ UNCHANGED <<inventoryVars, pending, phase, session, logout, elsewhere, promised, excuses>>

\* The connection to the database fails: the error is logged, nothing retried.
LoseStatement(t) ==
    /\ tasks' = Remaining(t, TRUE)
    /\ excuses' = Excused({"error"})
    /\ UNCHANGED <<inventoryVars, db, pending, phase, session, logout, elsewhere, promised>>

-----------------------------------------------------------------------------
(* The next session.                                                       *)

\* from_db_inventory: the slot of a parked row, cast to u8, is 255.
Loaded(s) ==
    IF s = Temp THEN NoItem
    ELSE IF s = 255 /\ db[Temp] # NoItem THEN db[Temp] ELSE db[s]

\* The character list is what join will use, and may be asked for again; a
\* session that starts with the database at rest and nobody else in the game
\* owes nothing to the ones before.
ListCharacters ==
    /\ session # "playing"
    /\ session' = "listed"
    /\ items' = [s \in Rows |-> Loaded(s)]
    /\ base' = items' /\ promised' = items'
    /\ excuses' = IF tasks # <<>> THEN Excused({"reload"})
                  ELSE IF elsewhere \/ db[Temp] # NoItem THEN excuses ELSE {}
    /\ UNCHANGED <<changes, unrecorded, db, pending, tasks, phase, logout, elsewhere>>

handle_join ==
    /\ session = "listed"
    /\ session' = "playing"
    /\ UNCHANGED <<inventoryVars, db, pending, tasks, phase, logout, elsewhere, promised, excuses>>

-----------------------------------------------------------------------------
(* Another connection of the account: neither the queue, which compares    *)
(* reservations, nor handle_join asks whether the character is played.     *)

\* The game loop runs the same systems for it, in the same stages of a frame.
Meanwhile(stage) == session # "playing" \/ phase = stage

JoinElsewhere ==
    /\ ~elsewhere /\ Meanwhile("update")
    /\ elsewhere' = TRUE
    /\ excuses' = Excused({"twice"})
    /\ UNCHANGED <<inventoryVars, db, pending, tasks, phase, session, logout, promised>>

\* Its inventory is its own, perhaps of a list read long ago.
SaveElsewhere(c) ==
    /\ elsewhere /\ Meanwhile("apply")
    /\ Len(tasks) < MaxTasks
    /\ tasks' = Append(tasks, <<Statements(c)>>)
    /\ UNCHANGED <<inventoryVars, db, pending, phase, session, logout, elsewhere, promised, excuses>>

LeaveElsewhere ==
    /\ elsewhere /\ Meanwhile("first")
    /\ elsewhere' = FALSE
    /\ UNCHANGED <<inventoryVars, db, pending, tasks, phase, session, logout, promised, excuses>>

-----------------------------------------------------------------------------
PersistenceInit ==
    /\ Init
    /\ db = NoItems /\ pending = <<>> /\ tasks = <<>>
    /\ phase = "update" /\ session = "none" /\ logout = FALSE /\ elsewhere = FALSE
    /\ promised = NoItems /\ excuses = {}

Frame ==
    \/ Play \/ tick_logout \/ collect_changes
    \/ apply_changes \/ NotYet \/ apply_changes_exit \/ NobodyLeft
    \/ disconnected \/ NextFrame

Tasks == \E t \in DOMAIN tasks : ExecuteStatement(t) \/ LoseStatement(t)

Elsewhere == JoinElsewhere \/ LeaveElsewhere \/ \E c \in OtherChanges : SaveElsewhere(c)

PersistenceNext == Frame \/ Tasks \/ ListCharacters \/ handle_join \/ Elsewhere

PersistenceSpec == PersistenceInit /\ [][PersistenceNext]_vars

-----------------------------------------------------------------------------
\* Rows and items are well formed; in particular no inventory has an item in
\* the parking slot -1, whatever was left there when it was loaded.
PersistenceTypeOK ==
    /\ TypeOK
    /\ db \in [Rows -> Item \cup {NoItem}] /\ promised \in [Rows -> Item \cup {NoItem}]
    /\ Len(pending) <= MaxPending /\ Len(tasks) <= MaxTasks
    /\ \A t \in DOMAIN tasks : tasks[t] # <<>> /\ \A i \in DOMAIN tasks[t] : tasks[t][i] # <<>>
    /\ phase \in {"update", "apply", "exit", "first"}
    /\ session \in {"none", "listed", "playing"} /\ logout \in BOOLEAN
    /\ elsewhere \in BOOLEAN /\ excuses \subseteq Excuses

\* The database once the tasks there are now have finished: a row is left as the task
\* that works on it leaves it, whatever the others do, while no two work on one row.
AtRest ==
    [r \in Rows |-> LET working == {t \in DOMAIN tasks : r \in RowsOf(tasks[t])}
                    IN  IF working = {} THEN db[r] ELSE Run(db, tasks[CHOOSE t \in working : TRUE])[r]]

\* Whatever was saved last is what the database ends up with, through any
\* interleaving of the tasks of several saves with play, logouts, lost
\* connections and new sessions, as long as none of the excuses applies.  One of
\* them is a second connection that plays the character; once it has left and its
\* saves have ended, the next session is held to what it saves again.
SavedInTheEnd == excuses = {} => AtRest = promised

\* The same for what is still to be saved: no change is dropped, applied twice
\* or put in the wrong order between the inventory and the collection.
NothingForgotten ==
    (session = "playing" /\ ~unrecorded) => Replay(promised, pending \o changes) = items

\* A player that logs out leaves with everything it has on its way to the
\* database (apply_changes_exit runs after collect_changes and before the
\* despawn).
LogoutSaves ==
    [][(session = "playing" /\ session' = "none" /\ logout) => promised = items]_vars

=============================================================================
