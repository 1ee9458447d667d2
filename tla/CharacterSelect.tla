-------------------------- MODULE CharacterSelect --------------------------
(***************************************************************************)
(* Between authentication and the game (silkroad-agent login/): a client   *)
(* lists its characters, checks names, creates, deletes and restores       *)
(* characters and joins with one.  The game loop starts a database task    *)
(* per request and keeps its oneshot receiver as a component of the        *)
(* client's entity, one per kind of request; later frames poll them.       *)
(***************************************************************************)
EXTENDS Integers, Sequences, FiniteSets, Functions

CONSTANTS
    Connections,   \* clients that are authenticated
    UserOf,        \* the account each of them plays with
    Names,         \* character names, up to case
    NoName,        \* no name was checked, or none is asked for
    Existing,      \* characters in the database from earlier sessions
    DeletionTime,  \* settings.deletion_time
    MaxTime,       \* bound: the clock
    MaxRows,       \* bound: characters in the database
    MaxRequests    \* bound: requests sent

ASSUME CharacterSelectAssumption ==
    /\ DeletionTime \in Nat \ {0} /\ MaxTime \in Nat \ {0}
    /\ MaxRows \in Nat /\ MaxRequests \in Nat /\ Len(Existing) <= MaxRows
    /\ NoName \notin Names
    /\ Existing \in Seq([user : {UserOf[c] : c \in Connections}, name : Names, deletion : {0}, equipped : {TRUE}])

VARIABLES
    rows,      \* the characters table, in the order of id
    now,       \* CURRENT_TIMESTAMP
    select,    \* per client: the CharacterSelect component
    receiver,  \* per client and kind: the task whose receiver is held, 0 if none
    tasks,     \* the tasks, numbered in the order they were started
    joined,    \* per client: the row it plays, 0 while it selects
    listed,    \* the clients whose CharacterSelect has a list, empty or not
    panicked   \* the game loop has ended

loop == <<listed, panicked>>
selectVars == <<rows, now, select, receiver, tasks, joined, loop>>

Kinds == {"create", "list", "delete", "check", "restore"}
\* deletion is deletion_end, 0 for NULL; equipped once the items are inserted.
Row == [user : {UserOf[c] : c \in Connections}, name : Names,
        deletion : 0..(MaxTime + DeletionTime), equipped : BOOLEAN]
\* A listed character: its row and what was read of it.
Entry == [row : 1..MaxRows, name : Names, deletion : Nat, equipped : BOOLEAN]
\* step counts the statements executed; ok and list are what is sent back.
\* checked: the client was not told that its name is unchecked.  History:
\* complete, the characters that were complete at the start.
Task(c, kind, name) ==
    [client |-> c, kind |-> kind, name |-> name, step |-> 0, state |-> "running",
     row |-> 0, list |-> <<>>, ok |-> FALSE, checked |-> FALSE,
     complete |-> {i \in DOMAIN rows : rows[i].equipped}]

Owns(c, i) == rows[i].user = UserOf[c]
Named(c, name) == {i \in DOMAIN rows : Owns(c, i) /\ rows[i].name = name}
Gone(i) == rows[i].deletion # 0 /\ rows[i].deletion <= now

has_user_character_with_name(c, name) ==
    \E i \in DOMAIN select[c].list : select[c].list[i].name = name
can_create_character_with_name(c, name) == select[c].checked = name

-----------------------------------------------------------------------------
(* handle_list_request.  A new task replaces the receiver of its kind.     *)

StartTask(c, task) ==
    /\ Len(tasks) < MaxRequests /\ joined[c] = 0
    /\ tasks' = Append(tasks, task)
    /\ receiver' = [receiver EXCEPT ![c][task.kind] = Len(tasks')]
    /\ UNCHANGED <<rows, now, joined, loop>>

\* Without a checked name the client is told so; the character is created all
\* the same.
RequestCreate(c, name) ==
    /\ StartTask(c, [Task(c, "create", name) EXCEPT
                       !.checked = can_create_character_with_name(c, name)])
    /\ UNCHANGED select

RequestList(c) == StartTask(c, Task(c, "list", NoName)) /\ UNCHANGED select

RequestCheckName(c, name) ==
    /\ StartTask(c, Task(c, "check", name))
    /\ select' = [select EXCEPT ![c].checked = NoName]

RequestDelete(c, name) ==
    /\ has_user_character_with_name(c, name)
    /\ StartTask(c, Task(c, "delete", name))
    /\ UNCHANGED select

RequestRestore(c, name) ==
    /\ has_user_character_with_name(c, name)
    /\ StartTask(c, Task(c, "restore", name))
    /\ UNCHANGED select

-----------------------------------------------------------------------------
(* The tasks, a statement at a time.                                       *)

Running(t, kind, step) ==
    tasks[t].kind = kind /\ tasks[t].state = "running" /\ tasks[t].step = step

Finish(t, ok) == tasks' = [tasks EXCEPT ![t].state = "done", ![t].ok = ok]

\* The new row; the four items it starts with have rows of their own.
create_character_from(c, name) ==
    [user |-> UserOf[c], name |-> name, deletion |-> 0, equipped |-> FALSE]

\* DbCharacter::create_character
InsertCharacter(t) ==
    /\ Running(t, "create", 0) /\ Len(rows) < MaxRows
    /\ rows' = Append(rows, create_character_from(tasks[t].client, tasks[t].name))
    /\ tasks' = [tasks EXCEPT ![t].step = 1, ![t].row = Len(rows')]

InsertItems(t) ==
    /\ Running(t, "create", 1)
    /\ rows' = [rows EXCEPT ![tasks[t].row].equipped = TRUE]
    /\ Finish(t, TRUE)

\* ORDER BY id
ById(S) == {s \in Bijection(1..Cardinality(S), S) : \A j, k \in DOMAIN s : j < k => s[j] < s[k]}
Read(i) == [row |-> i, name |-> rows[i].name, deletion |-> rows[i].deletion, equipped |-> FALSE]

Fetch(t, found) ==
    /\ Running(t, "list", 0)
    /\ \E mine \in ById(found) :
         tasks' = [tasks EXCEPT ![t].step = 1, ![t].list = [k \in DOMAIN mine |-> Read(mine[k])]]
    /\ UNCHANGED rows

\* A slip: NULL is not greater than NOW().
SelectDeleted(t) == Fetch(t, {i \in DOMAIN rows : Owns(tasks[t].client, i) /\ rows[i].deletion > now})

\* DbCharacter::load_characters_sparse: first the characters, then their items.
SelectCharacters(t) == Fetch(t, {i \in DOMAIN rows : Owns(tasks[t].client, i) /\ ~Gone(i)})

SelectItems(t) ==
    /\ Running(t, "list", 1)
    /\ tasks' = [tasks EXCEPT
                   ![t].state = "done", ![t].ok = TRUE,
                   ![t].list = [k \in DOMAIN tasks[t].list |->
                                  [tasks[t].list[k] EXCEPT
                                     !.equipped = rows[tasks[t].list[k].row].equipped]]]
    /\ UNCHANGED rows

\* CharacterData::check_name_available
CheckName(t) ==
    /\ Running(t, "check", 0)
    /\ Finish(t, \A i \in DOMAIN rows : rows[i].name # tasks[t].name)
    /\ UNCHANGED rows

\* DbCharacter::start_delete_character, whatever deletion_end was.
StartDelete(t) ==
    LET hit == Named(tasks[t].client, tasks[t].name)
    IN  /\ Running(t, "delete", 0)
        /\ rows' = [i \in DOMAIN rows |-> IF i \in hit
                      THEN [rows[i] EXCEPT !.deletion = now + DeletionTime] ELSE rows[i]]
        /\ Finish(t, Cardinality(hit) = 1)

\* DbCharacter::restore_character
Restore(t) ==
    LET hit == {i \in Named(tasks[t].client, tasks[t].name) : rows[i].deletion > now}
    IN  /\ Running(t, "restore", 0)
        /\ rows' = [i \in DOMAIN rows |-> IF i \in hit
                      THEN [rows[i] EXCEPT !.deletion = 0] ELSE rows[i]]
        /\ Finish(t, Cardinality(hit) = 1)

\* The unwrap of a failed statement ends the task and closes its channel.
TaskDies(t) ==
    /\ tasks[t].state = "running"
    /\ tasks' = [tasks EXCEPT ![t].state = "dead"]
    /\ UNCHANGED rows

Progress(t) ==
    \/ InsertCharacter(t) \/ InsertItems(t)
    \/ SelectCharacters(t) \/ SelectItems(t)
    \/ CheckName(t) \/ StartDelete(t) \/ Restore(t)

TaskStep(t) ==
    /\ Progress(t) \/ TaskDies(t)
    /\ UNCHANGED <<now, select, receiver, joined, loop>>

-----------------------------------------------------------------------------
(* Polling the receivers (login/jobs.rs) and joining.                      *)

Received(c, kind, state) == receiver[c][kind] # 0 /\ tasks[receiver[c][kind]].state = state

\* A slip: on an error the component stays.
DropReceiverIfAnswered(c, kind) ==
    receiver' = IF Received(c, kind, "done") THEN [receiver EXCEPT ![c][kind] = 0] ELSE receiver
DropReceiver(c, kind) == receiver' = [receiver EXCEPT ![c][kind] = 0]

handle_character_list_received(c) ==
    /\ joined[c] = 0
    /\ \/ /\ Received(c, "list", "done")
          /\ select' = [select EXCEPT ![c].list = tasks[receiver[c]["list"]].list]
          /\ listed' = listed \cup {c}
       \/ Received(c, "list", "dead") /\ UNCHANGED <<select, listed>>
    /\ DropReceiver(c, "list")
    /\ UNCHANGED <<rows, now, tasks, joined, panicked>>

\* The name counts as checked whether it was available or not.
handle_character_name_check(c) ==
    /\ joined[c] = 0
    /\ \/ /\ Received(c, "check", "done")
          /\ select' = [select EXCEPT ![c].checked = tasks[receiver[c]["check"]].name]
       \/ Received(c, "check", "dead") /\ UNCHANGED select
    /\ DropReceiver(c, "check")
    /\ UNCHANGED <<rows, now, tasks, joined, loop>>

\* handle_character_create, _delete and _restore: only an answer is sent.
handle_character_answer(c, kind) ==
    /\ kind \in {"create", "delete", "restore"}
    /\ Received(c, kind, "done") \/ Received(c, kind, "dead")
    /\ DropReceiver(c, kind)
    /\ UNCHANGED <<rows, now, select, tasks, joined, loop>>

\* By the list the client has, the first character of that name.
handle_join(c, k) ==
    /\ joined[c] = 0 /\ k \in DOMAIN select[c].list
    /\ \A j \in 1..(k - 1) : select[c].list[j].name # select[c].list[k].name
    /\ select[c].list[k].deletion = 0
    /\ joined' = [joined EXCEPT ![c] = select[c].list[k].row]
    /\ UNCHANGED <<rows, now, select, receiver, tasks, loop>>

\* A name that is not in the list, such as one of an earlier list: the unwrap panics,
\* and the game loop ends with it.
JoinUnknown(c, name) ==
    /\ joined[c] = 0 /\ c \in listed /\ ~has_user_character_with_name(c, name)
    /\ panicked' = TRUE
    /\ UNCHANGED <<rows, now, select, receiver, tasks, joined, listed>>

TimePasses == now < MaxTime /\ now' = now + 1 /\ UNCHANGED <<rows, select, receiver, tasks, joined, loop>>

-----------------------------------------------------------------------------
SelectInit ==
    /\ rows = Existing /\ now = 1
    /\ select = [c \in Connections |-> [list |-> <<>>, checked |-> NoName]]
    /\ receiver = [c \in Connections |-> [k \in Kinds |-> 0]]
    /\ tasks = <<>>
    /\ joined = [c \in Connections |-> 0]
    /\ listed = {} /\ panicked = FALSE

Requests ==
    \E c \in Connections :
       \/ RequestList(c)
       \/ \E name \in Names : \/ RequestCreate(c, name) \/ RequestCheckName(c, name)
                              \/ RequestDelete(c, name) \/ RequestRestore(c, name)

Joins ==
    \E c \in Connections :
       \/ \E k \in DOMAIN select[c].list : handle_join(c, k)
       \/ \E name \in Names : JoinUnknown(c, name)

Poll(c) ==
    \/ handle_character_list_received(c) \/ handle_character_name_check(c)
    \/ \E kind \in Kinds : handle_character_answer(c, kind)

SelectNext ==
    \/ ~panicked /\ Requests
    \/ \E t \in DOMAIN tasks : TaskStep(t)
    \/ \E c \in Connections : ~panicked /\ Poll(c)
    \/ ~panicked /\ Joins
    \/ TimePasses

\* Tasks are driven by the runtime, receivers polled every frame while there are frames.
Fairness ==
    /\ \A t \in 1..MaxRequests : WF_selectVars(t \in DOMAIN tasks /\ TaskStep(t))
    /\ \A c \in Connections : WF_selectVars(~panicked /\ Poll(c))

SelectSpec == SelectInit /\ [][SelectNext]_selectVars
FairSpec == SelectSpec /\ Fairness

-----------------------------------------------------------------------------
\* Rows, lists, receivers and tasks are well formed, and a deletion_end never
\* lies further ahead than one DeletionTime, however often it is asked for.
SelectTypeOK ==
    /\ \A i \in DOMAIN rows : rows[i] \in Row
    /\ Len(rows) <= MaxRows /\ now \in 1..MaxTime
    /\ \A c \in Connections :
         /\ \A k \in DOMAIN select[c].list : select[c].list[k] \in Entry
         /\ select[c].checked \in Names \cup {NoName}
         /\ \A kind \in Kinds : receiver[c][kind] \in 0..Len(tasks)
         /\ joined[c] \in 0..Len(rows)
    /\ \A t \in DOMAIN tasks : tasks[t].kind \in Kinds

EverDeleted(i) == \E t \in DOMAIN tasks : tasks[t].kind = "delete" /\ tasks[t].name = rows[i].name

\* A list asked for once a creation has finished has the character, with its
\* equipment, unless it was deleted meanwhile: load_characters_sparse reads
\* characters and items in two statements while other tasks write both.
ListedWhole ==
    \A t \in DOMAIN tasks : (tasks[t].kind = "list" /\ tasks[t].state = "done") =>
       \A i \in tasks[t].complete :
          (Owns(tasks[t].client, i) /\ ~EverDeleted(i)) =>
             \E k \in DOMAIN tasks[t].list : tasks[t].list[k].row = i /\ tasks[t].list[k].equipped

\* A client has to do with the characters of its own account only: those it is shown,
\* under their names, the one it plays, and the one it is told to have created, which
\* has its equipment by then.  Tasks of several clients run side by side and their
\* answers reach the clients through receivers that later requests replace.
OwnCharacters ==
    \A c \in Connections :
       /\ \A k \in DOMAIN select[c].list :
            LET shown == select[c].list[k]
            IN  shown.row \in DOMAIN rows /\ Owns(c, shown.row) /\ rows[shown.row].name = shown.name
       /\ joined[c] # 0 => joined[c] \in DOMAIN rows /\ Owns(c, joined[c])
       /\ Received(c, "create", "done") =>
            LET made == tasks[receiver[c]["create"]].row
            IN  made \in DOMAIN rows /\ Owns(c, made) /\ rows[made].equipped

\* Every receiver is emptied in the end, also when its task dies, unless a join with an
\* unknown name ends the game loop; a client that joins leaves the ones for lists and
\* names behind (handle_join removes the CharacterSelect their systems ask for).
AllAnswered ==
    \A c \in Connections :
       <>[](~panicked =>
            /\ \A kind \in Kinds \ {"list", "check"} : receiver[c][kind] = 0
            /\ joined[c] = 0 => receiver[c]["list"] = 0 /\ receiver[c]["check"] = 0)
=============================================================================
