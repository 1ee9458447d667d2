----------------------------- MODULE LoginQueue -----------------------------
(***************************************************************************)
(* Admission to the game server (silkroad-agent): the capacity counters    *)
(* (population/capacity.rs), the reservations kept behind a mutex          *)
(* (population/queue.rs), the web handlers that reserve a spot and report  *)
(* the load (login/web.rs, db/user.rs) and the game loop's systems that    *)
(* hand a reservation in and release a seat (login/charselect.rs           *)
(* handle_auth, net/net.rs, input/system.rs).                              *)
(*                                                                         *)
(* Web handlers run on tokio worker threads, the game loop (Ecs) on its    *)
(* own.  They share two atomics, queued and playing, and the mutex.  Every *)
(* atomic access and every step between two of them is an action of its    *)
(* own.  An Instant is modelled by the time that is left to it.            *)
(***************************************************************************)
EXTENDS Integers, FiniteSets

CONSTANTS
    Users,      \* accounts that ask for a spot
    Tokens,     \* values the random session token can take
    Web,        \* POST /request handlers that run at the same time
    Clients,    \* entities the game loop can create for connections
    Max,        \* max_player_count (AtomicU16 arithmetic)
    ValidTime,  \* reservation_valid_time
    Ecs,        \* the game loop's thread
    None        \* "no thread", "no token", "no client"

ASSUME ConstantsAssumption ==
    /\ IsFiniteSet(Tokens) /\ IsFiniteSet(Users) /\ IsFiniteSet(Clients)
    /\ Max \in Nat /\ Max < 65535
    /\ ValidTime \in Nat \ {0}
    /\ Ecs \notin Web
    /\ None \notin Web \cup {Ecs} \cup Tokens \cup Clients \cup Users

Threads == Web \cup {Ecs}

VARIABLES
    \* shared between all threads
    lock,          \* holder of the reservations mutex
    reservations,  \* the Vec<Reservation>; its order is never used
    ttl,           \* per token: time left to the reservation that has it
    queued,        \* AtomicU16
    playing,       \* AtomicU16
    userServers,   \* accounts with a row in user_servers
    \* threads
    pc,            \* where each thread is
    asker,         \* the account a web handler works for
    stale,         \* lock holder: reservations retain() is still to drop
    loaded,        \* lock holder: what current_total() has summed so far
    \* the game loop
    session,       \* per entity: "absent", "login" or "playing"
    auth,          \* per entity: LoginInput.auth
    closing,       \* entities with a pending ClientDisconnectedEvent
    todo,          \* entities handle_auth has not visited in this tick
    current,       \* the entity handle_auth is working on
    skipped,       \* entities whose AuthRequest this tick dropped unanswered
    \* GET /status
    statusPc,      \* "idle", "loaded" or "done"
    report,        \* the sum usage() computed
    \* history
    granted,       \* per token: time the holder was promised it works
    floor,         \* spots occupied since the running usage() began
    admitted       \* the client handle_auth accepted in this tick

sharedVars == <<lock, reservations, ttl, queued, playing, userServers>>
ecsVars    == <<session, auth, closing, todo, current, skipped, admitted>>
statusVars == <<statusPc, report, floor>>
vars == <<sharedVars, pc, asker, stale, loaded, ecsVars, statusVars, granted>>

Reservation == [user : Users, token : Tokens]

WebPc == {"idle", "fetch", "insert", "request", "cleanup", "check",
          "loadQueued", "loadPlaying", "decide", "pick"}
EcsPc == {"first", "preUpdate", "update", "cleanup", "find", "addPlaying",
          "dropQueue", "last"}

\* The labels between taking and releasing the mutex.
Locked == {"cleanup", "check", "loadQueued", "loadPlaying", "decide", "pick",
           "find", "addPlaying", "dropQueue"}

Taken == {r.token : r \in reservations}
Playing == {c \in Clients : session[c] = "playing"}

\* Capacity::available and can_queue: u16 subtraction, which wraps.
available(total) == (Max - total) % 65536
AlwaysCanQueue(total) == available(total) >= 0
can_queue(total) == available(total) > 0

\* current_total() loads the two atomics one after the other: the i-th load.
CounterSwapped(i) == IF i = 1 THEN playing ELSE queued
Counter(i) == IF i = 1 THEN queued ELSE playing

\* Dropping a QueueToken or a PlayingToken lowers the counter it stands for.
LeakQueueToken == queued' = queued
DropQueueToken == queued' = queued - 1
DropPlayingToken == playing' = playing - 1

\* The predicate retain() drops by.
NotExpired(r) == ttl[r.token] > 0
Expired(r) == ttl[r.token] = 0

\* The end of the mutex guard's scope.
Release == lock' = None
GoTo(t, label) == pc' = [pc EXCEPT ![t] = label]
\* A web handler sends its response and is done.
Respond(w) == GoTo(w, "idle") /\ asker' = [asker EXCEPT ![w] = None]
\* One spot fewer is occupied from here on.
ReleaseSpot == floor' = IF floor = 0 THEN 0 ELSE floor - 1

-----------------------------------------------------------------------------
(* Taking the mutex and dropping expired reservations; both operations of  *)
(* the queue begin with it.  retain() reads the clock once and drops the   *)
(* expired reservations one by one, each with its QueueToken.              *)

cleanup_registrations(t) ==
    /\ lock = None
    /\ lock' = t
    /\ stale' = {r \in reservations : Expired(r)}
    /\ GoTo(t, "cleanup")

DropStale(t, r) ==
    /\ pc[t] = "cleanup" /\ r \in stale
    /\ stale' = stale \ {r}
    /\ reservations' = reservations \ {r}
    /\ DropQueueToken
    /\ ReleaseSpot
    /\ UNCHANGED <<lock, ttl, playing, userServers, pc, asker, loaded, ecsVars,
                   statusPc, report, granted>>

CleanedUp(t) ==
    /\ pc[t] = "cleanup" /\ stale = {}
    /\ GoTo(t, IF t = Ecs THEN "find" ELSE "check")
    /\ UNCHANGED <<sharedVars, asker, stale, loaded, ecsVars, statusVars, granted>>

-----------------------------------------------------------------------------
(* POST /request: handle_spot_request, ServerUser::fetch, reserve_spot.    *)

handle_spot_request(w, u) ==
    /\ pc[w] = "idle"
    /\ asker' = [asker EXCEPT ![w] = u]
    /\ GoTo(w, "fetch")
    /\ UNCHANGED <<sharedVars, stale, loaded, ecsVars, statusVars, granted>>

\* The row is there, or it has to be inserted by a second query.
FetchUser(w) ==
    /\ pc[w] = "fetch"
    /\ GoTo(w, IF asker[w] \in userServers THEN "request" ELSE "insert")
    /\ UNCHANGED <<sharedVars, asker, stale, loaded, ecsVars, statusVars, granted>>

\* A concurrent request of the same account may have inserted it meanwhile:
\* the unique index makes this insert fail and the answer is NotFound.
InsertUser(w) ==
    /\ pc[w] = "insert"
    /\ IF asker[w] \in userServers
         THEN Respond(w)
         ELSE GoTo(w, "request") /\ UNCHANGED asker
    /\ userServers' = userServers \cup {asker[w]}
    /\ UNCHANGED <<lock, reservations, ttl, queued, playing, stale, loaded,
                   ecsVars, statusVars, granted>>

\* Unknown account or database error: NotFound.
FetchFails(w) ==
    /\ pc[w] \in {"fetch", "insert"}
    /\ Respond(w)
    /\ UNCHANGED <<sharedVars, stale, loaded, ecsVars, statusVars, granted>>

reserve_spot(w) ==
    /\ pc[w] = "request"
    /\ cleanup_registrations(w)
    /\ UNCHANGED <<reservations, ttl, queued, playing, userServers, asker, loaded,
                   ecsVars, statusVars, granted>>

NeverHasReservation(w) == FALSE
AlreadyHasReservation(w) == \E r \in reservations : r.user = asker[w]

CheckReservation(w) ==
    /\ pc[w] = "check"
    /\ IF AlreadyHasReservation(w)
         THEN Respond(w) /\ Release
         ELSE GoTo(w, "loadQueued") /\ UNCHANGED <<lock, asker>>
    /\ UNCHANGED <<reservations, ttl, queued, playing, userServers, stale,
                   loaded, ecsVars, statusVars, granted>>

\* add_queue() sums the two atomics, then decides.
LoadQueued(w) ==
    /\ pc[w] = "loadQueued"
    /\ loaded' = Counter(1)
    /\ GoTo(w, "loadPlaying")
    /\ UNCHANGED <<sharedVars, asker, stale, ecsVars, statusVars, granted>>

LoadPlaying(w) ==
    /\ pc[w] = "loadPlaying"
    /\ loaded' = loaded + Counter(2)
    /\ GoTo(w, "decide")
    /\ UNCHANGED <<sharedVars, asker, stale, ecsVars, statusVars, granted>>

NoSpotsAvailable(w) ==
    /\ pc[w] = "decide" /\ ~can_queue(loaded)
    /\ Respond(w) /\ Release
    /\ loaded' = 0
    /\ UNCHANGED <<reservations, ttl, queued, playing, userServers, stale,
                   ecsVars, statusVars, granted>>

add_queue(w) ==
    /\ pc[w] = "decide" /\ can_queue(loaded)
    /\ queued' = queued + 1
    /\ GoTo(w, "pick")
    /\ loaded' = 0
    /\ UNCHANGED <<lock, reservations, ttl, playing, userServers, asker, stale,
                   ecsVars, statusVars, granted>>

\* A random token no reservation has; the holder is told it lives one
\* second less than it does.
PickToken(w, t) ==
    /\ pc[w] = "pick" /\ t \notin Taken
    /\ reservations' = reservations \cup
           {[user |-> asker[w], token |-> t]}
    /\ ttl' = [ttl EXCEPT ![t] = ValidTime]
    /\ granted' = [granted EXCEPT ![t] = ValidTime - 1]
    /\ Respond(w) /\ Release
    /\ UNCHANGED <<queued, playing, userServers, stale, loaded, ecsVars,
                   statusVars>>

\* MAX_TOKEN_TRIES draws in a row hit a token in use: the QueueToken drops.
AllTokensTaken(w) ==
    /\ pc[w] = "pick" /\ reservations # {}
    /\ DropQueueToken
    /\ ReleaseSpot
    /\ Respond(w) /\ Release
    /\ UNCHANGED <<reservations, ttl, playing, userServers, stale, loaded,
                   ecsVars, statusPc, report, granted>>

-----------------------------------------------------------------------------
(* The game loop.  One tick runs First, PreUpdate, Update and Last.        *)

\* First: packets become LoginInput (a later one replaces an earlier one).
\* Nobody reads the AuthRequest of an entity that is Playing already.
receive_login_inputs(c, t) ==
    /\ pc[Ecs] = "first" /\ session[c] = "login"
    /\ auth' = [auth EXCEPT ![c] = t]
    /\ UNCHANGED <<sharedVars, pc, asker, stale, loaded, session, closing, todo,
                   current, skipped, admitted, statusVars, granted>>

\* First: the stream is closed or the client sent nothing for too long.
Disconnects(c) ==
    /\ pc[Ecs] = "first" /\ session[c] # "absent"
    /\ closing' = closing \cup {c}
    /\ UNCHANGED <<sharedVars, pc, asker, stale, loaded, session, auth, todo,
                   current, skipped, admitted, statusVars, granted>>

InputsReceived ==
    /\ pc[Ecs] = "first"
    /\ GoTo(Ecs, "preUpdate")
    /\ UNCHANGED <<sharedVars, asker, stale, loaded, ecsVars, statusVars, granted>>

\* PreUpdate: a connection that finished its handshake becomes an entity.
accept(c) ==
    /\ pc[Ecs] = "preUpdate" /\ session[c] = "absent"
    /\ session' = [session EXCEPT ![c] = "login"]
    /\ UNCHANGED <<sharedVars, pc, asker, stale, loaded, auth, closing, todo,
                   current, skipped, admitted, statusVars, granted>>

\* PreUpdate: despawning drops the entity's PlayingToken, if it has one.
disconnected(c) ==
    /\ pc[Ecs] = "preUpdate" /\ c \in closing
    /\ closing' = closing \ {c}
    /\ session' = [session EXCEPT ![c] = "absent"]
    /\ auth' = [auth EXCEPT ![c] = None]
    /\ IF session[c] = "playing"
         THEN DropPlayingToken /\ ReleaseSpot
         ELSE UNCHANGED <<playing, floor>>
    /\ UNCHANGED <<lock, reservations, ttl, queued, userServers, pc, asker, stale,
                   loaded, todo, current, skipped, admitted, statusPc, report,
                   granted>>

\* Update: handle_auth goes through the entities without Playing.
handle_auth ==
    /\ pc[Ecs] = "preUpdate" /\ closing = {}
    /\ GoTo(Ecs, "update")
    /\ todo' = {c \in Clients : session[c] = "login" /\ auth[c] # None}
    /\ UNCHANGED <<sharedVars, asker, stale, loaded, session, auth, closing,
                   current, skipped, admitted, statusVars, granted>>

hand_in_reservation(c) ==
    /\ pc[Ecs] = "update" /\ c \in todo
    /\ cleanup_registrations(Ecs)
    /\ current' = c
    /\ todo' = todo \ {c}
    /\ UNCHANGED <<reservations, ttl, queued, playing, userServers, asker, loaded,
                   session, auth, closing, skipped, admitted, statusVars,
                   granted>>

\* How the loop over the entities goes on: after a failure with the next
\* entity, after a success not at all.  Whoever it has not visited by then is
\* not answered in this tick.
NextEntity == UNCHANGED <<todo, skipped, admitted>>
EndLoop == skipped' = todo /\ todo' = {} /\ admitted' = {current}

\* The client is told its token is invalid.
NoSuchToken ==
    /\ pc[Ecs] = "find" /\ auth[current] \notin Taken
    /\ GoTo(Ecs, "update") /\ Release
    /\ current' = None /\ NextEntity
    /\ UNCHANGED <<reservations, ttl, queued, playing, userServers, asker, stale,
                   loaded, session, auth, closing, statusVars, granted>>

FoundReservation ==
    /\ pc[Ecs] = "find" /\ auth[current] \in Taken
    /\ GoTo(Ecs, "addPlaying")
    /\ UNCHANGED <<sharedVars, asker, stale, loaded, ecsVars, statusVars, granted>>

add_playing ==
    /\ pc[Ecs] = "addPlaying"
    /\ playing' = playing + 1
    /\ GoTo(Ecs, "dropQueue")
    /\ UNCHANGED <<lock, reservations, ttl, queued, userServers, asker, stale,
                   loaded, ecsVars, statusVars, granted>>

\* The reservation and its QueueToken go and the client is accepted.
RemoveReservation(r) ==
    /\ pc[Ecs] = "dropQueue" /\ r \in reservations /\ r.token = auth[current]
    /\ reservations' = reservations \ {r}
    /\ DropQueueToken
    /\ granted' = [granted EXCEPT ![r.token] = 0]
    /\ session' = [session EXCEPT ![current] = "playing"]
    /\ current' = None /\ EndLoop
    /\ GoTo(Ecs, "update") /\ Release
    /\ UNCHANGED <<ttl, playing, userServers, asker, stale, loaded, auth, closing,
                   statusVars>>

UpdateDone ==
    /\ pc[Ecs] = "update" /\ todo = {}
    /\ GoTo(Ecs, "last")
    /\ UNCHANGED <<sharedVars, asker, stale, loaded, ecsVars, statusVars, granted>>

\* Last: LoginInput is emptied, answered or not.
reset ==
    /\ pc[Ecs] = "last"
    /\ auth' = [c \in Clients |-> None]
    /\ skipped' = {} /\ admitted' = {}
    /\ GoTo(Ecs, "first")
    /\ UNCHANGED <<sharedVars, asker, stale, loaded, session, closing, todo,
                   current, statusVars, granted>>

-----------------------------------------------------------------------------
(* GET /status: usage() sums the two atomics without the mutex.            *)

Occupied == queued + playing - (IF pc[Ecs] = "dropQueue" THEN 1 ELSE 0)

UsageLoadQueued ==
    /\ statusPc = "idle"
    /\ report' = Counter(1)
    /\ floor' = Occupied
    /\ statusPc' = "loaded"
    /\ UNCHANGED <<sharedVars, pc, asker, stale, loaded, ecsVars, granted>>

UsageLoadPlaying ==
    /\ statusPc = "loaded"
    /\ report' = report + Counter(2)
    /\ statusPc' = "done"
    /\ UNCHANGED <<sharedVars, pc, asker, stale, loaded, ecsVars, floor, granted>>

handle_capacity ==
    /\ statusPc = "done"
    /\ statusPc' = "idle" /\ report' = 0 /\ floor' = 0
    /\ UNCHANGED <<sharedVars, pc, asker, stale, loaded, ecsVars, granted>>

\* The clock: every reservation and every promise has less time left.
Older(f) == [t \in Tokens |-> IF f[t] = 0 THEN 0 ELSE f[t] - 1]

Tick ==
    /\ \E t \in Tokens : ttl[t] > 0
    /\ ttl' = Older(ttl)
    /\ granted' = Older(granted)
    /\ UNCHANGED <<lock, reservations, queued, playing, userServers, pc, asker,
                   stale, loaded, ecsVars, statusVars>>

-----------------------------------------------------------------------------
Init ==
    /\ lock = None /\ reservations = {} /\ ttl = [t \in Tokens |-> 0]
    /\ queued = 0 /\ playing = 0
    /\ userServers = {}
    /\ pc = [t \in Threads |-> IF t = Ecs THEN "first" ELSE "idle"]
    /\ asker = [w \in Web |-> None]
    /\ stale = {} /\ loaded = 0
    /\ session = [c \in Clients |-> "absent"]
    /\ auth = [c \in Clients |-> None]
    /\ closing = {} /\ todo = {} /\ current = None /\ skipped = {}
    /\ admitted = {}
    /\ statusPc = "idle" /\ report = 0 /\ floor = 0
    /\ granted = [t \in Tokens |-> 0]

WebStep(w) ==
    \/ \E u \in Users : handle_spot_request(w, u)
    \/ FetchUser(w) \/ InsertUser(w) \/ FetchFails(w)
    \/ reserve_spot(w)
    \/ \E r \in stale : DropStale(w, r)
    \/ CleanedUp(w)
    \/ CheckReservation(w)
    \/ LoadQueued(w) \/ LoadPlaying(w)
    \/ NoSpotsAvailable(w) \/ add_queue(w)
    \/ \E t \in Tokens : PickToken(w, t)
    \/ AllTokensTaken(w)

EcsStep ==
    \/ \E c \in Clients : \E t \in Tokens : receive_login_inputs(c, t)
    \/ \E c \in Clients : Disconnects(c)
    \/ InputsReceived
    \/ \E c \in Clients : accept(c)
    \/ \E c \in Clients : disconnected(c)
    \/ handle_auth
    \/ \E c \in Clients : hand_in_reservation(c)
    \/ \E r \in stale : DropStale(Ecs, r)
    \/ CleanedUp(Ecs)
    \/ NoSuchToken \/ FoundReservation \/ add_playing
    \/ \E r \in reservations : RemoveReservation(r)
    \/ UpdateDone \/ reset

Next ==
    \/ \E w \in Web : WebStep(w)
    \/ EcsStep
    \/ UsageLoadQueued \/ UsageLoadPlaying \/ handle_capacity
    \/ Tick

Spec == Init /\ [][Next]_vars

-----------------------------------------------------------------------------
\* Every variable keeps its type; in particular neither AtomicU16 is lowered
\* below zero, where it would wrap (capacity.rs:15-31), and a handler that
\* is under way knows whom it works for.
TypeOK ==
    /\ lock \in Threads \cup {None}
    /\ reservations \subseteq Reservation
    /\ ttl \in [Tokens -> 0..ValidTime]
    /\ queued \in Nat /\ playing \in Nat
    /\ userServers \subseteq Users
    /\ pc \in [Threads -> WebPc \cup EcsPc]
    /\ pc[Ecs] \in EcsPc /\ \A w \in Web : pc[w] \in WebPc
    /\ asker \in [Web -> Users \cup {None}]
    /\ \A w \in Web : pc[w] # "idle" => asker[w] \in Users
    /\ stale \subseteq Reservation
    /\ loaded \in Nat
    /\ session \in [Clients -> {"absent", "login", "playing"}]
    /\ auth \in [Clients -> Tokens \cup {None}]
    /\ closing \subseteq Clients /\ todo \subseteq Clients
    /\ skipped \subseteq Clients
    /\ current \in Clients \cup {None}
    /\ admitted \subseteq Clients
    /\ statusPc \in {"idle", "loaded", "done"}
    /\ report \in Nat /\ floor \in Nat
    /\ granted \in [Tokens -> 0..ValidTime]

\* A thread is between lock() and the end of the guard's scope exactly when
\* it is the holder of the mutex.
LockHeld == \A t \in Threads : pc[t] \in Locked <=> lock = t

\* No two reservations share a token or an account, so a token handed in
\* opens the session of the account it was given to (reserve_spot's checks
\* happen under the same lock() as its push, queue.rs:49-88).
OneSpotPerUser ==
    \A r, s \in reservations : (r.user = s.user \/ r.token = s.token) => r = s

InFlight == IF \E w \in Web : pc[w] = "pick" THEN 1 ELSE 0
HandingIn == IF pc[Ecs] = "dropQueue" THEN 1 ELSE 0

\* The atomics agree with the tokens that exist: one QueueToken per
\* reservation (and the one reserve_spot holds), one PlayingToken per playing
\* entity (and the one hand_in_reservation holds), on every path that drops
\* one (capacity.rs:15-31).
TokensAccounted ==
    /\ queued = Cardinality(reservations) + InFlight
    /\ playing = Cardinality(Playing) + HandingIn

\* Reserved and taken seats together never exceed max_player_count, although
\* handing in counts a client twice for a moment and seats are released
\* without the mutex.
CapacityRespected == queued + playing <= Max + HandingIn

\* max - current_total() never underflows: whenever add_queue() has summed
\* the atomics, the sum is at most max (capacity.rs:46-48).
NoUnderflow == \A w \in Web : pc[w] = "decide" => loaded <= Max

\* A token the gateway passed on works for as long as the client was told:
\* until that time is up, the reservation is there or has been handed in
\* (queue.rs:87, 108-111).
GrantHonoured ==
    \A t \in Tokens : granted[t] > 0 => \E r \in reservations : r.token = t

\* usage() misses no spot that is occupied while it runs, even if the spot
\* turns from reserved to played in between: it loads queued before playing,
\* and hand_in_reservation raises playing before it lowers queued.
StatusCountsEveryone == statusPc = "done" => report >= floor

\* An AuthRequest goes unanswered only in a tick that admitted another client
\* (the break in handle_auth, charselect.rs:243); it is then gone, since the
\* input is emptied at the end of the tick.
UnansweredOnlyBehindAdmission ==
    /\ (skipped # {} => admitted # {})
    /\ (pc[Ecs] = "last" => \A c \in skipped : session[c] = "login")

\* The threads, the two atomics and the mutex together implement Admission: in
\* particular reservations disappear only by expiry or by being traded for a
\* seat, and a spot is granted only when there really is one.
A == INSTANCE Admission WITH reserved <- reservations, left <- ttl, seated <- Playing
RefinesAdmission == A!Spec

=============================================================================
