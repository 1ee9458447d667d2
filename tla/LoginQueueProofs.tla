-------------------------- MODULE LoginQueueProofs --------------------------
(***************************************************************************)
(* Proofs about LoginQueue for every number of accounts, tokens, requests  *)
(* and clients and every capacity.  The inductive invariant is built in    *)
(* layers, each preserved by Next with the help of the layers below it:    *)
(* typing and control, then one layer per property.  The last part proves  *)
(* CharacterSelect, where an admitted client goes next, for every database,*)
(* every number of requests and every interleaving of their tasks.         *)
(***************************************************************************)
EXTENDS LoginQueue, CharacterSelect, FiniteSetTheorems, SequenceTheorems, TLAPS

(* Typing and control.  The counters are only known to be integers here:   *)
(* that they never fall below zero is a consequence of TokensAccounted.    *)
Typing ==
    /\ lock \in Threads \cup {None}
    /\ reservations \subseteq Reservation
    /\ ttl \in [Tokens -> 0..ValidTime]
    /\ queued \in Int /\ playing \in Int
    /\ userServers \subseteq Users
    /\ pc \in [Threads -> WebPc \cup EcsPc]
    /\ pc[Ecs] \in EcsPc /\ \A w \in Web : pc[w] \in WebPc
    /\ asker \in [Web -> Users \cup {None}]
    /\ \A w \in Web : pc[w] # "idle" => asker[w] \in Users
    /\ stale \subseteq Reservation
    /\ loaded \in Int
    /\ session \in [Clients -> {"absent", "login", "playing"}]
    /\ auth \in [Clients -> Tokens \cup {None}]
    /\ closing \subseteq Clients /\ todo \subseteq Clients
    /\ skipped \subseteq Clients
    /\ current \in Clients \cup {None}
    /\ admitted \subseteq Clients \cup {None}
    /\ statusPc \in {"idle", "loaded", "done"}
    /\ report \in Int /\ floor \in Int
    /\ granted \in [Tokens -> 0..ValidTime]

\* A client handle_auth works on is in its login phase and not in the rest of
\* the loop; outside the Update phase there is no such client and no rest.
Handling == {"cleanup", "find", "addPlaying", "dropQueue"}

Control ==
    /\ pc[Ecs] \in Handling => current \in Clients /\ session[current] = "login"
                               /\ current \notin todo
    /\ pc[Ecs] \in {"addPlaying", "dropQueue"} => auth[current] \in Taken
    /\ pc[Ecs] \in {"first", "preUpdate", "last"} => todo = {}
    /\ \A c \in todo : session[c] = "login"
    /\ admitted \subseteq Clients
    /\ stale \subseteq reservations
    /\ stale # {} => \E t \in Threads : pc[t] = "cleanup"


\* The game server starts with every variable in its type and the mutex free.
LEMMA TypingInit == Init => Typing /\ LockHeld
  BY ConstantsAssumption DEF Init, Typing, LockHeld, Threads, Locked, WebPc,
       EcsPc, Reservation

\* Every step keeps types, and a thread is inside the critical sections of
\* queue.rs exactly while it has the mutex.
LEMMA TypingStep == Typing /\ LockHeld /\ [Next]_vars => Typing' /\ LockHeld'
<1>1. SUFFICES ASSUME Typing, LockHeld, [Next]_vars PROVE Typing' /\ LockHeld'
  OBVIOUS
<1>2. ASSUME NEW w \in Web, NEW u \in Users, handle_spot_request(w, u) PROVE
     Typing' /\ LockHeld'
  BY <1>1, <1>2, ConstantsAssumption DEF handle_spot_request, GoTo, sharedVars,
       ecsVars, statusVars, Typing, LockHeld, Threads, Locked, WebPc, EcsPc,
       Reservation
<1>3. ASSUME NEW w \in Web, FetchUser(w) PROVE Typing' /\ LockHeld'
  BY <1>1, <1>3, ConstantsAssumption DEF FetchUser, GoTo, sharedVars, ecsVars,
       statusVars, Typing, LockHeld, Threads, Locked, WebPc, EcsPc, Reservation
<1>4. ASSUME NEW w \in Web, InsertUser(w) PROVE Typing' /\ LockHeld'
  BY <1>1, <1>4, ConstantsAssumption DEF InsertUser, GoTo, Respond, sharedVars,
       ecsVars, statusVars, Typing, LockHeld, Threads, Locked, WebPc, EcsPc,
       Reservation
<1>5. ASSUME NEW w \in Web, FetchFails(w) PROVE Typing' /\ LockHeld'
  BY <1>1, <1>5, ConstantsAssumption DEF FetchFails, Respond, GoTo, sharedVars,
       ecsVars, statusVars, Typing, LockHeld, Threads, Locked, WebPc, EcsPc,
       Reservation
<1>6. ASSUME NEW w \in Web, reserve_spot(w) PROVE Typing' /\ LockHeld'
  BY <1>1, <1>6, ConstantsAssumption DEF reserve_spot, cleanup_registrations,
       GoTo, sharedVars, ecsVars, statusVars, Typing, LockHeld, Threads,
       Locked, WebPc, EcsPc, Reservation
<1>7. ASSUME NEW w \in Web, NEW r \in stale, DropStale(w, r) PROVE Typing' /\
     LockHeld'
  BY <1>1, <1>7, ConstantsAssumption DEF DropStale, DropQueueToken,
       ReleaseSpot, sharedVars, ecsVars, statusVars, Typing, LockHeld, Threads,
       Locked, WebPc, EcsPc, Reservation
<1>8. ASSUME NEW w \in Web, CleanedUp(w) PROVE Typing' /\ LockHeld'
  BY <1>1, <1>8, ConstantsAssumption DEF CleanedUp, GoTo, sharedVars, ecsVars,
       statusVars, Typing, LockHeld, Threads, Locked, WebPc, EcsPc, Reservation
<1>9. ASSUME NEW w \in Web, CheckReservation(w) PROVE Typing' /\ LockHeld'
  BY <1>1, <1>9, ConstantsAssumption DEF CheckReservation,
       AlreadyHasReservation, Respond, GoTo, Release, sharedVars, ecsVars,
       statusVars, Typing, LockHeld, Threads, Locked, WebPc, EcsPc, Reservation
<1>10. ASSUME NEW w \in Web, LoadQueued(w) PROVE Typing' /\ LockHeld'
  BY <1>1, <1>10, ConstantsAssumption DEF LoadQueued, GoTo, Counter,
       sharedVars, ecsVars, statusVars, Typing, LockHeld, Threads, Locked,
       WebPc, EcsPc, Reservation
<1>11. ASSUME NEW w \in Web, LoadPlaying(w) PROVE Typing' /\ LockHeld'
  BY <1>1, <1>11, ConstantsAssumption DEF LoadPlaying, GoTo, Counter,
       sharedVars, ecsVars, statusVars, Typing, LockHeld, Threads, Locked,
       WebPc, EcsPc, Reservation
<1>12. ASSUME NEW w \in Web, NoSpotsAvailable(w) PROVE Typing' /\ LockHeld'
  BY <1>1, <1>12, ConstantsAssumption DEF NoSpotsAvailable, Respond, GoTo,
       Release, sharedVars, ecsVars, statusVars, Typing, LockHeld, Threads,
       Locked, WebPc, EcsPc, Reservation
<1>13. ASSUME NEW w \in Web, add_queue(w) PROVE Typing' /\ LockHeld'
  BY <1>1, <1>13, ConstantsAssumption DEF add_queue, GoTo, sharedVars, ecsVars,
       statusVars, Typing, LockHeld, Threads, Locked, WebPc, EcsPc, Reservation
<1>14. ASSUME NEW w \in Web, NEW t \in Tokens, PickToken(w, t) PROVE Typing' /\
     LockHeld'
  BY <1>1, <1>14, ConstantsAssumption DEF PickToken, Respond, GoTo, Release,
       Taken, sharedVars, ecsVars, statusVars, Typing, LockHeld, Threads,
       Locked, WebPc, EcsPc, Reservation
<1>15. ASSUME NEW w \in Web, AllTokensTaken(w) PROVE Typing' /\ LockHeld'
  BY <1>1, <1>15, ConstantsAssumption DEF AllTokensTaken, Respond, GoTo,
       Release, DropQueueToken, ReleaseSpot, sharedVars, ecsVars, statusVars,
       Typing, LockHeld, Threads, Locked, WebPc, EcsPc, Reservation
<1>16. ASSUME NEW c \in Clients, NEW t \in Tokens, receive_login_inputs(c, t)
     PROVE Typing' /\ LockHeld'
  BY <1>1, <1>16, ConstantsAssumption DEF receive_login_inputs, sharedVars,
       ecsVars, statusVars, Typing, LockHeld, Threads, Locked, WebPc, EcsPc,
       Reservation
<1>17. ASSUME NEW c \in Clients, Disconnects(c) PROVE Typing' /\ LockHeld'
  BY <1>1, <1>17, ConstantsAssumption DEF Disconnects, sharedVars, ecsVars,
       statusVars, Typing, LockHeld, Threads, Locked, WebPc, EcsPc, Reservation
<1>18. ASSUME InputsReceived PROVE Typing' /\ LockHeld'
  BY <1>1, <1>18, ConstantsAssumption DEF InputsReceived, GoTo, sharedVars,
       ecsVars, statusVars, Typing, LockHeld, Threads, Locked, WebPc, EcsPc,
       Reservation
<1>19. ASSUME NEW c \in Clients, accept(c) PROVE Typing' /\ LockHeld'
  BY <1>1, <1>19, ConstantsAssumption DEF accept, sharedVars, ecsVars,
       statusVars, Typing, LockHeld, Threads, Locked, WebPc, EcsPc, Reservation
<1>20. ASSUME NEW c \in Clients, disconnected(c) PROVE Typing' /\ LockHeld'
  BY <1>1, <1>20, ConstantsAssumption DEF disconnected, DropPlayingToken,
       ReleaseSpot, sharedVars, ecsVars, statusVars, Typing, LockHeld, Threads,
       Locked, WebPc, EcsPc, Reservation
<1>21. ASSUME handle_auth PROVE Typing' /\ LockHeld'
  BY <1>1, <1>21, ConstantsAssumption DEF handle_auth, GoTo, sharedVars,
       ecsVars, statusVars, Typing, LockHeld, Threads, Locked, WebPc, EcsPc,
       Reservation
<1>22. ASSUME NEW c \in Clients, hand_in_reservation(c) PROVE Typing' /\
     LockHeld'
  BY <1>1, <1>22, ConstantsAssumption DEF hand_in_reservation,
       cleanup_registrations, GoTo, sharedVars, ecsVars, statusVars, Typing,
       LockHeld, Threads, Locked, WebPc, EcsPc, Reservation
<1>23. ASSUME NEW r \in stale, DropStale(Ecs, r) PROVE Typing' /\ LockHeld'
  BY <1>1, <1>23, ConstantsAssumption DEF DropStale, DropQueueToken,
       ReleaseSpot, sharedVars, ecsVars, statusVars, Typing, LockHeld, Threads,
       Locked, WebPc, EcsPc, Reservation
<1>24. ASSUME CleanedUp(Ecs) PROVE Typing' /\ LockHeld'
  BY <1>1, <1>24, ConstantsAssumption DEF CleanedUp, GoTo, sharedVars, ecsVars,
       statusVars, Typing, LockHeld, Threads, Locked, WebPc, EcsPc, Reservation
<1>25. ASSUME NoSuchToken PROVE Typing' /\ LockHeld'
  BY <1>1, <1>25, ConstantsAssumption DEF NoSuchToken, GoTo, Release,
       NextEntity, Taken, sharedVars, ecsVars, statusVars, Typing, LockHeld,
       Threads, Locked, WebPc, EcsPc, Reservation
<1>26. ASSUME FoundReservation PROVE Typing' /\ LockHeld'
  BY <1>1, <1>26, ConstantsAssumption DEF FoundReservation, GoTo, Taken,
       sharedVars, ecsVars, statusVars, Typing, LockHeld, Threads, Locked,
       WebPc, EcsPc, Reservation
<1>27. ASSUME add_playing PROVE Typing' /\ LockHeld'
  BY <1>1, <1>27, ConstantsAssumption DEF add_playing, GoTo, sharedVars,
       ecsVars, statusVars, Typing, LockHeld, Threads, Locked, WebPc, EcsPc,
       Reservation
<1>28. ASSUME NEW r \in reservations, RemoveReservation(r) PROVE Typing' /\
     LockHeld'
  <2>1. /\ session' \in [Clients -> {"absent", "login", "playing"}]
        /\ granted' \in [Tokens -> 0..ValidTime]
    <3>1. 0 \in 0..ValidTime
      BY ConstantsAssumption
    <3>2. QED
      BY <1>1, <1>28, <3>1 DEF RemoveReservation, Typing
  <2>2. admitted' \subseteq Clients \cup {None} /\ skipped' \subseteq Clients
    <3>1. admitted' = {current} /\ skipped' = todo
      BY <1>28 DEF RemoveReservation, EndLoop
    <3>2. QED
      BY <1>1, <3>1 DEF Typing
  <2>3. pc' = [pc EXCEPT ![Ecs] = "update"] /\ lock' = None
    BY <1>28 DEF RemoveReservation, GoTo, Release
  <2>4. /\ reservations' \subseteq Reservation /\ queued' \in Int
        /\ current' = None /\ todo' = {}
    BY <1>1, <1>28 DEF RemoveReservation, DropQueueToken, EndLoop, Typing
  <2>5. UNCHANGED <<ttl, playing, userServers, asker, stale, loaded, auth, closing,
                    statusPc, report, floor>> /\ pc[Ecs] = "dropQueue"
    BY <1>28 DEF RemoveReservation, statusVars
  <2>6. QED
    BY <1>1, <2>1, <2>2, <2>3, <2>4, <2>5, ConstantsAssumption DEF Typing,
         LockHeld, Threads, Locked, WebPc, EcsPc
<1>29. ASSUME UpdateDone PROVE Typing' /\ LockHeld'
  BY <1>1, <1>29, ConstantsAssumption DEF UpdateDone, GoTo, sharedVars,
       ecsVars, statusVars, Typing, LockHeld, Threads, Locked, WebPc, EcsPc,
       Reservation
<1>30. ASSUME reset PROVE Typing' /\ LockHeld'
  BY <1>1, <1>30, ConstantsAssumption DEF reset, GoTo, sharedVars, ecsVars,
       statusVars, Typing, LockHeld, Threads, Locked, WebPc, EcsPc, Reservation
<1>31. ASSUME UsageLoadQueued PROVE Typing' /\ LockHeld'
  BY <1>1, <1>31, ConstantsAssumption DEF UsageLoadQueued, Counter, Occupied,
       sharedVars, ecsVars, statusVars, Typing, LockHeld, Threads, Locked,
       WebPc, EcsPc, Reservation
<1>32. ASSUME UsageLoadPlaying PROVE Typing' /\ LockHeld'
  BY <1>1, <1>32, ConstantsAssumption DEF UsageLoadPlaying, Counter,
       sharedVars, ecsVars, statusVars, Typing, LockHeld, Threads, Locked,
       WebPc, EcsPc, Reservation
<1>33. ASSUME handle_capacity PROVE Typing' /\ LockHeld'
  BY <1>1, <1>33, ConstantsAssumption DEF handle_capacity, sharedVars, ecsVars,
       statusVars, Typing, LockHeld, Threads, Locked, WebPc, EcsPc, Reservation
<1>34. ASSUME Tick PROVE Typing' /\ LockHeld'
  BY <1>1, <1>34, ConstantsAssumption DEF Tick, Older, sharedVars, ecsVars,
       statusVars, Typing, LockHeld, Threads, Locked, WebPc, EcsPc, Reservation
<1>35. CASE UNCHANGED vars
  BY <1>1, <1>35, ConstantsAssumption DEF vars, sharedVars, ecsVars,
       statusVars, Typing, LockHeld, Threads, Locked, WebPc, EcsPc, Reservation
<1>36. QED
  BY <1>1, <1>2, <1>3, <1>4, <1>5, <1>6, <1>7, <1>8, <1>9, <1>10, <1>11, <1>12,
       <1>13, <1>14, <1>15, <1>16, <1>17, <1>18, <1>19, <1>20, <1>21, <1>22,
       <1>23, <1>24, <1>25, <1>26, <1>27, <1>28, <1>29, <1>30, <1>31, <1>32,
       <1>33, <1>34, <1>35
  DEF Next, WebStep, EcsStep

\* No entity is being handled when the server starts.
LEMMA ControlInit == Init => Control
  BY ConstantsAssumption DEF Init, Control, Handling, Threads

\* handle_auth keeps its hands on one entity in its login phase, and retain()
\* only drops reservations that are still there.
LEMMA ControlStep == Control /\ Typing /\ LockHeld /\ Typing' /\ LockHeld' /\
     [Next]_vars => Control'
<1>1. SUFFICES ASSUME Control, Typing, LockHeld, Typing', LockHeld',
     [Next]_vars PROVE Control'
  OBVIOUS
<1>2. ASSUME NEW w \in Web, NEW u \in Users, handle_spot_request(w, u) PROVE
     Control'
  BY <1>1, <1>2, ConstantsAssumption DEF handle_spot_request, GoTo, sharedVars,
       ecsVars, statusVars, Control, Handling, Typing, LockHeld, Threads,
       Locked, WebPc, EcsPc, Reservation, Taken
<1>3. ASSUME NEW w \in Web, FetchUser(w) PROVE Control'
  BY <1>1, <1>3, ConstantsAssumption DEF FetchUser, GoTo, sharedVars, ecsVars,
       statusVars, Control, Handling, Typing, LockHeld, Threads, Locked, WebPc,
       EcsPc, Reservation, Taken
<1>4. ASSUME NEW w \in Web, InsertUser(w) PROVE Control'
  BY <1>1, <1>4, ConstantsAssumption DEF InsertUser, GoTo, Respond, sharedVars,
       ecsVars, statusVars, Control, Handling, Typing, LockHeld, Threads,
       Locked, WebPc, EcsPc, Reservation, Taken
<1>5. ASSUME NEW w \in Web, FetchFails(w) PROVE Control'
  BY <1>1, <1>5, ConstantsAssumption DEF FetchFails, Respond, GoTo, sharedVars,
       ecsVars, statusVars, Control, Handling, Typing, LockHeld, Threads,
       Locked, WebPc, EcsPc, Reservation, Taken
<1>6. ASSUME NEW w \in Web, reserve_spot(w) PROVE Control'
  BY <1>1, <1>6, ConstantsAssumption DEF reserve_spot, cleanup_registrations,
       GoTo, sharedVars, ecsVars, statusVars, Control, Handling, Typing,
       LockHeld, Threads, Locked, WebPc, EcsPc, Reservation, Taken
<1>7. ASSUME NEW w \in Web, NEW r \in stale, DropStale(w, r) PROVE Control'
  BY <1>1, <1>7, ConstantsAssumption DEF DropStale, DropQueueToken,
       ReleaseSpot, sharedVars, ecsVars, statusVars, Control, Handling, Typing,
       LockHeld, Threads, Locked, WebPc, EcsPc, Reservation, Taken
<1>8. ASSUME NEW w \in Web, CleanedUp(w) PROVE Control'
  BY <1>1, <1>8, ConstantsAssumption DEF CleanedUp, GoTo, sharedVars, ecsVars,
       statusVars, Control, Handling, Typing, LockHeld, Threads, Locked, WebPc,
       EcsPc, Reservation, Taken
<1>9. ASSUME NEW w \in Web, CheckReservation(w) PROVE Control'
  BY <1>1, <1>9, ConstantsAssumption DEF CheckReservation,
       AlreadyHasReservation, Respond, GoTo, Release, sharedVars, ecsVars,
       statusVars, Control, Handling, Typing, LockHeld, Threads, Locked, WebPc,
       EcsPc, Reservation, Taken
<1>10. ASSUME NEW w \in Web, LoadQueued(w) PROVE Control'
  BY <1>1, <1>10, ConstantsAssumption DEF LoadQueued, GoTo, Counter,
       sharedVars, ecsVars, statusVars, Control, Handling, Typing, LockHeld,
       Threads, Locked, WebPc, EcsPc, Reservation, Taken
<1>11. ASSUME NEW w \in Web, LoadPlaying(w) PROVE Control'
  BY <1>1, <1>11, ConstantsAssumption DEF LoadPlaying, GoTo, Counter,
       sharedVars, ecsVars, statusVars, Control, Handling, Typing, LockHeld,
       Threads, Locked, WebPc, EcsPc, Reservation, Taken
<1>12. ASSUME NEW w \in Web, NoSpotsAvailable(w) PROVE Control'
  BY <1>1, <1>12, ConstantsAssumption DEF NoSpotsAvailable, Respond, GoTo,
       Release, sharedVars, ecsVars, statusVars, Control, Handling, Typing,
       LockHeld, Threads, Locked, WebPc, EcsPc, Reservation, Taken
<1>13. ASSUME NEW w \in Web, add_queue(w) PROVE Control'
  BY <1>1, <1>13, ConstantsAssumption DEF add_queue, GoTo, sharedVars, ecsVars,
       statusVars, Control, Handling, Typing, LockHeld, Threads, Locked, WebPc,
       EcsPc, Reservation, Taken
<1>14. ASSUME NEW w \in Web, NEW t \in Tokens, PickToken(w, t) PROVE Control'
  BY <1>1, <1>14, ConstantsAssumption DEF PickToken, Respond, GoTo, Release,
       Taken, sharedVars, ecsVars, statusVars, Control, Handling, Typing,
       LockHeld, Threads, Locked, WebPc, EcsPc, Reservation, Taken
<1>15. ASSUME NEW w \in Web, AllTokensTaken(w) PROVE Control'
  BY <1>1, <1>15, ConstantsAssumption DEF AllTokensTaken, Respond, GoTo,
       Release, DropQueueToken, ReleaseSpot, sharedVars, ecsVars, statusVars,
       Control, Handling, Typing, LockHeld, Threads, Locked, WebPc, EcsPc,
       Reservation, Taken
<1>16. ASSUME NEW c \in Clients, NEW t \in Tokens, receive_login_inputs(c, t)
     PROVE Control'
  BY <1>1, <1>16, ConstantsAssumption DEF receive_login_inputs, sharedVars,
       ecsVars, statusVars, Control, Handling, Typing, LockHeld, Threads,
       Locked, WebPc, EcsPc, Reservation, Taken
<1>17. ASSUME NEW c \in Clients, Disconnects(c) PROVE Control'
  BY <1>1, <1>17, ConstantsAssumption DEF Disconnects, sharedVars, ecsVars,
       statusVars, Control, Handling, Typing, LockHeld, Threads, Locked, WebPc,
       EcsPc, Reservation, Taken
<1>18. ASSUME InputsReceived PROVE Control'
  BY <1>1, <1>18, ConstantsAssumption DEF InputsReceived, GoTo, sharedVars,
       ecsVars, statusVars, Control, Handling, Typing, LockHeld, Threads,
       Locked, WebPc, EcsPc, Reservation, Taken
<1>19. ASSUME NEW c \in Clients, accept(c) PROVE Control'
  BY <1>1, <1>19, ConstantsAssumption DEF accept, sharedVars, ecsVars,
       statusVars, Control, Handling, Typing, LockHeld, Threads, Locked, WebPc,
       EcsPc, Reservation, Taken
<1>20. ASSUME NEW c \in Clients, disconnected(c) PROVE Control'
  BY <1>1, <1>20, ConstantsAssumption DEF disconnected, DropPlayingToken,
       ReleaseSpot, sharedVars, ecsVars, statusVars, Control, Handling, Typing,
       LockHeld, Threads, Locked, WebPc, EcsPc, Reservation, Taken
<1>21. ASSUME handle_auth PROVE Control'
  BY <1>1, <1>21, ConstantsAssumption DEF handle_auth, GoTo, sharedVars,
       ecsVars, statusVars, Control, Handling, Typing, LockHeld, Threads,
       Locked, WebPc, EcsPc, Reservation, Taken
<1>22. ASSUME NEW c \in Clients, hand_in_reservation(c) PROVE Control'
  BY <1>1, <1>22, ConstantsAssumption DEF hand_in_reservation,
       cleanup_registrations, GoTo, sharedVars, ecsVars, statusVars, Control,
       Handling, Typing, LockHeld, Threads, Locked, WebPc, EcsPc, Reservation,
       Taken
<1>23. ASSUME NEW r \in stale, DropStale(Ecs, r) PROVE Control'
  BY <1>1, <1>23, ConstantsAssumption DEF DropStale, DropQueueToken,
       ReleaseSpot, sharedVars, ecsVars, statusVars, Control, Handling, Typing,
       LockHeld, Threads, Locked, WebPc, EcsPc, Reservation, Taken
<1>24. ASSUME CleanedUp(Ecs) PROVE Control'
  BY <1>1, <1>24, ConstantsAssumption DEF CleanedUp, GoTo, sharedVars, ecsVars,
       statusVars, Control, Handling, Typing, LockHeld, Threads, Locked, WebPc,
       EcsPc, Reservation, Taken
<1>25. ASSUME NoSuchToken PROVE Control'
  BY <1>1, <1>25, ConstantsAssumption DEF NoSuchToken, GoTo, Release,
       NextEntity, Taken, sharedVars, ecsVars, statusVars, Control, Handling,
       Typing, LockHeld, Threads, Locked, WebPc, EcsPc, Reservation, Taken
<1>26. ASSUME FoundReservation PROVE Control'
  BY <1>1, <1>26, ConstantsAssumption DEF FoundReservation, GoTo, Taken,
       sharedVars, ecsVars, statusVars, Control, Handling, Typing, LockHeld,
       Threads, Locked, WebPc, EcsPc, Reservation, Taken
<1>27. ASSUME add_playing PROVE Control'
  BY <1>1, <1>27, ConstantsAssumption DEF add_playing, GoTo, sharedVars,
       ecsVars, statusVars, Control, Handling, Typing, LockHeld, Threads,
       Locked, WebPc, EcsPc, Reservation, Taken
<1>28. ASSUME NEW r \in reservations, RemoveReservation(r) PROVE Control'
  BY <1>1, <1>28, ConstantsAssumption DEF RemoveReservation, DropQueueToken,
       EndLoop, GoTo, Release, sharedVars, ecsVars, statusVars, Control,
       Handling, Typing, LockHeld, Threads, Locked, WebPc, EcsPc, Reservation,
       Taken
<1>29. ASSUME UpdateDone PROVE Control'
  BY <1>1, <1>29, ConstantsAssumption DEF UpdateDone, GoTo, sharedVars,
       ecsVars, statusVars, Control, Handling, Typing, LockHeld, Threads,
       Locked, WebPc, EcsPc, Reservation, Taken
<1>30. ASSUME reset PROVE Control'
  BY <1>1, <1>30, ConstantsAssumption DEF reset, GoTo, sharedVars, ecsVars,
       statusVars, Control, Handling, Typing, LockHeld, Threads, Locked, WebPc,
       EcsPc, Reservation, Taken
<1>31. ASSUME UsageLoadQueued PROVE Control'
  BY <1>1, <1>31, ConstantsAssumption DEF UsageLoadQueued, Counter, Occupied,
       sharedVars, ecsVars, statusVars, Control, Handling, Typing, LockHeld,
       Threads, Locked, WebPc, EcsPc, Reservation, Taken
<1>32. ASSUME UsageLoadPlaying PROVE Control'
  BY <1>1, <1>32, ConstantsAssumption DEF UsageLoadPlaying, Counter,
       sharedVars, ecsVars, statusVars, Control, Handling, Typing, LockHeld,
       Threads, Locked, WebPc, EcsPc, Reservation, Taken
<1>33. ASSUME handle_capacity PROVE Control'
  BY <1>1, <1>33, ConstantsAssumption DEF handle_capacity, sharedVars, ecsVars,
       statusVars, Control, Handling, Typing, LockHeld, Threads, Locked, WebPc,
       EcsPc, Reservation, Taken
<1>34. ASSUME Tick PROVE Control'
  BY <1>1, <1>34, ConstantsAssumption DEF Tick, Older, sharedVars, ecsVars,
       statusVars, Control, Handling, Typing, LockHeld, Threads, Locked, WebPc,
       EcsPc, Reservation, Taken
<1>35. CASE UNCHANGED vars
  BY <1>1, <1>35, ConstantsAssumption DEF vars, sharedVars, ecsVars,
       statusVars, Control, Handling, Typing, LockHeld, Threads, Locked, WebPc,
       EcsPc, Reservation, Taken
<1>36. QED
  BY <1>1, <1>2, <1>3, <1>4, <1>5, <1>6, <1>7, <1>8, <1>9, <1>10, <1>11, <1>12,
       <1>13, <1>14, <1>15, <1>16, <1>17, <1>18, <1>19, <1>20, <1>21, <1>22,
       <1>23, <1>24, <1>25, <1>26, <1>27, <1>28, <1>29, <1>30, <1>31, <1>32,
       <1>33, <1>34, <1>35
  DEF Next, WebStep, EcsStep

\* The user who is about to get a reservation has none.
Spots ==
    /\ OneSpotPerUser
    /\ \A w \in Web : pc[w] \in {"loadQueued", "loadPlaying", "decide", "pick"}
          => \A r \in reservations : r.user # asker[w]

\* There are no reservations at the start.
LEMMA SpotsInit == Init => Spots
  BY ConstantsAssumption DEF Init, Spots, OneSpotPerUser, Threads

\* The check and the push of reserve_spot cannot be separated by another request.
LEMMA SpotsStep == Spots /\ Typing /\ LockHeld /\ Control /\ Typing' /\
     LockHeld' /\ Control' /\ [Next]_vars => Spots'
<1>1. SUFFICES ASSUME Spots, Typing, LockHeld, Control, Typing', LockHeld',
     Control', [Next]_vars PROVE Spots'
  OBVIOUS
<1>2. ASSUME NEW w \in Web, NEW u \in Users, handle_spot_request(w, u) PROVE
     Spots'
  BY <1>1, <1>2, ConstantsAssumption DEF handle_spot_request, GoTo, sharedVars,
       ecsVars, statusVars, Spots, OneSpotPerUser, Typing, LockHeld, Threads,
       Locked, WebPc, EcsPc, Reservation
<1>3. ASSUME NEW w \in Web, FetchUser(w) PROVE Spots'
  BY <1>1, <1>3, ConstantsAssumption DEF FetchUser, GoTo, sharedVars, ecsVars,
       statusVars, Spots, OneSpotPerUser, Typing, LockHeld, Threads, Locked,
       WebPc, EcsPc, Reservation
<1>4. ASSUME NEW w \in Web, InsertUser(w) PROVE Spots'
  BY <1>1, <1>4, ConstantsAssumption DEF InsertUser, GoTo, Respond, sharedVars,
       ecsVars, statusVars, Spots, OneSpotPerUser, Typing, LockHeld, Threads,
       Locked, WebPc, EcsPc, Reservation
<1>5. ASSUME NEW w \in Web, FetchFails(w) PROVE Spots'
  BY <1>1, <1>5, ConstantsAssumption DEF FetchFails, Respond, GoTo, sharedVars,
       ecsVars, statusVars, Spots, OneSpotPerUser, Typing, LockHeld, Threads,
       Locked, WebPc, EcsPc, Reservation
<1>6. ASSUME NEW w \in Web, reserve_spot(w) PROVE Spots'
  BY <1>1, <1>6, ConstantsAssumption DEF reserve_spot, cleanup_registrations,
       GoTo, sharedVars, ecsVars, statusVars, Spots, OneSpotPerUser, Typing,
       LockHeld, Threads, Locked, WebPc, EcsPc, Reservation
<1>7. ASSUME NEW w \in Web, NEW r \in stale, DropStale(w, r) PROVE Spots'
  BY <1>1, <1>7, ConstantsAssumption DEF DropStale, DropQueueToken,
       ReleaseSpot, sharedVars, ecsVars, statusVars, Spots, OneSpotPerUser,
       Typing, LockHeld, Threads, Locked, WebPc, EcsPc, Reservation
<1>8. ASSUME NEW w \in Web, CleanedUp(w) PROVE Spots'
  BY <1>1, <1>8, ConstantsAssumption DEF CleanedUp, GoTo, sharedVars, ecsVars,
       statusVars, Spots, OneSpotPerUser, Typing, LockHeld, Threads, Locked,
       WebPc, EcsPc, Reservation
<1>9. ASSUME NEW w \in Web, CheckReservation(w) PROVE Spots'
  BY <1>1, <1>9, ConstantsAssumption DEF CheckReservation,
       AlreadyHasReservation, Respond, GoTo, Release, sharedVars, ecsVars,
       statusVars, Spots, OneSpotPerUser, Typing, LockHeld, Threads, Locked,
       WebPc, EcsPc, Reservation
<1>10. ASSUME NEW w \in Web, LoadQueued(w) PROVE Spots'
  BY <1>1, <1>10, ConstantsAssumption DEF LoadQueued, GoTo, Counter,
       sharedVars, ecsVars, statusVars, Spots, OneSpotPerUser, Typing,
       LockHeld, Threads, Locked, WebPc, EcsPc, Reservation
<1>11. ASSUME NEW w \in Web, LoadPlaying(w) PROVE Spots'
  BY <1>1, <1>11, ConstantsAssumption DEF LoadPlaying, GoTo, Counter,
       sharedVars, ecsVars, statusVars, Spots, OneSpotPerUser, Typing,
       LockHeld, Threads, Locked, WebPc, EcsPc, Reservation
<1>12. ASSUME NEW w \in Web, NoSpotsAvailable(w) PROVE Spots'
  BY <1>1, <1>12, ConstantsAssumption DEF NoSpotsAvailable, Respond, GoTo,
       Release, sharedVars, ecsVars, statusVars, Spots, OneSpotPerUser, Typing,
       LockHeld, Threads, Locked, WebPc, EcsPc, Reservation
<1>13. ASSUME NEW w \in Web, add_queue(w) PROVE Spots'
  BY <1>1, <1>13, ConstantsAssumption DEF add_queue, GoTo, sharedVars, ecsVars,
       statusVars, Spots, OneSpotPerUser, Typing, LockHeld, Threads, Locked,
       WebPc, EcsPc, Reservation
<1>14. ASSUME NEW w \in Web, NEW t \in Tokens, PickToken(w, t) PROVE Spots'
  BY <1>1, <1>14, ConstantsAssumption DEF PickToken, Respond, GoTo, Release,
       Taken, sharedVars, ecsVars, statusVars, Spots, OneSpotPerUser, Typing,
       LockHeld, Threads, Locked, WebPc, EcsPc, Reservation
<1>15. ASSUME NEW w \in Web, AllTokensTaken(w) PROVE Spots'
  BY <1>1, <1>15, ConstantsAssumption DEF AllTokensTaken, Respond, GoTo,
       Release, DropQueueToken, ReleaseSpot, sharedVars, ecsVars, statusVars,
       Spots, OneSpotPerUser, Typing, LockHeld, Threads, Locked, WebPc, EcsPc,
       Reservation
<1>16. ASSUME NEW c \in Clients, NEW t \in Tokens, receive_login_inputs(c, t)
     PROVE Spots'
  BY <1>1, <1>16, ConstantsAssumption DEF receive_login_inputs, sharedVars,
       ecsVars, statusVars, Spots, OneSpotPerUser, Typing, LockHeld, Threads,
       Locked, WebPc, EcsPc, Reservation
<1>17. ASSUME NEW c \in Clients, Disconnects(c) PROVE Spots'
  BY <1>1, <1>17, ConstantsAssumption DEF Disconnects, sharedVars, ecsVars,
       statusVars, Spots, OneSpotPerUser, Typing, LockHeld, Threads, Locked,
       WebPc, EcsPc, Reservation
<1>18. ASSUME InputsReceived PROVE Spots'
  BY <1>1, <1>18, ConstantsAssumption DEF InputsReceived, GoTo, sharedVars,
       ecsVars, statusVars, Spots, OneSpotPerUser, Typing, LockHeld, Threads,
       Locked, WebPc, EcsPc, Reservation
<1>19. ASSUME NEW c \in Clients, accept(c) PROVE Spots'
  BY <1>1, <1>19, ConstantsAssumption DEF accept, sharedVars, ecsVars,
       statusVars, Spots, OneSpotPerUser, Typing, LockHeld, Threads, Locked,
       WebPc, EcsPc, Reservation
<1>20. ASSUME NEW c \in Clients, disconnected(c) PROVE Spots'
  BY <1>1, <1>20, ConstantsAssumption DEF disconnected, DropPlayingToken,
       ReleaseSpot, sharedVars, ecsVars, statusVars, Spots, OneSpotPerUser,
       Typing, LockHeld, Threads, Locked, WebPc, EcsPc, Reservation
<1>21. ASSUME handle_auth PROVE Spots'
  BY <1>1, <1>21, ConstantsAssumption DEF handle_auth, GoTo, sharedVars,
       ecsVars, statusVars, Spots, OneSpotPerUser, Typing, LockHeld, Threads,
       Locked, WebPc, EcsPc, Reservation
<1>22. ASSUME NEW c \in Clients, hand_in_reservation(c) PROVE Spots'
  BY <1>1, <1>22, ConstantsAssumption DEF hand_in_reservation,
       cleanup_registrations, GoTo, sharedVars, ecsVars, statusVars, Spots,
       OneSpotPerUser, Typing, LockHeld, Threads, Locked, WebPc, EcsPc,
       Reservation
<1>23. ASSUME NEW r \in stale, DropStale(Ecs, r) PROVE Spots'
  BY <1>1, <1>23, ConstantsAssumption DEF DropStale, DropQueueToken,
       ReleaseSpot, sharedVars, ecsVars, statusVars, Spots, OneSpotPerUser,
       Typing, LockHeld, Threads, Locked, WebPc, EcsPc, Reservation
<1>24. ASSUME CleanedUp(Ecs) PROVE Spots'
  BY <1>1, <1>24, ConstantsAssumption DEF CleanedUp, GoTo, sharedVars, ecsVars,
       statusVars, Spots, OneSpotPerUser, Typing, LockHeld, Threads, Locked,
       WebPc, EcsPc, Reservation
<1>25. ASSUME NoSuchToken PROVE Spots'
  BY <1>1, <1>25, ConstantsAssumption DEF NoSuchToken, GoTo, Release,
       NextEntity, Taken, sharedVars, ecsVars, statusVars, Spots,
       OneSpotPerUser, Typing, LockHeld, Threads, Locked, WebPc, EcsPc,
       Reservation
<1>26. ASSUME FoundReservation PROVE Spots'
  BY <1>1, <1>26, ConstantsAssumption DEF FoundReservation, GoTo, Taken,
       sharedVars, ecsVars, statusVars, Spots, OneSpotPerUser, Typing,
       LockHeld, Threads, Locked, WebPc, EcsPc, Reservation
<1>27. ASSUME add_playing PROVE Spots'
  BY <1>1, <1>27, ConstantsAssumption DEF add_playing, GoTo, sharedVars,
       ecsVars, statusVars, Spots, OneSpotPerUser, Typing, LockHeld, Threads,
       Locked, WebPc, EcsPc, Reservation
<1>28. ASSUME NEW r \in reservations, RemoveReservation(r) PROVE Spots'
  BY <1>1, <1>28, ConstantsAssumption DEF RemoveReservation, DropQueueToken,
       EndLoop, GoTo, Release, sharedVars, ecsVars, statusVars, Spots,
       OneSpotPerUser, Typing, LockHeld, Threads, Locked, WebPc, EcsPc,
       Reservation
<1>29. ASSUME UpdateDone PROVE Spots'
  BY <1>1, <1>29, ConstantsAssumption DEF UpdateDone, GoTo, sharedVars,
       ecsVars, statusVars, Spots, OneSpotPerUser, Typing, LockHeld, Threads,
       Locked, WebPc, EcsPc, Reservation
<1>30. ASSUME reset PROVE Spots'
  BY <1>1, <1>30, ConstantsAssumption DEF reset, GoTo, sharedVars, ecsVars,
       statusVars, Spots, OneSpotPerUser, Typing, LockHeld, Threads, Locked,
       WebPc, EcsPc, Reservation
<1>31. ASSUME UsageLoadQueued PROVE Spots'
  BY <1>1, <1>31, ConstantsAssumption DEF UsageLoadQueued, Counter, Occupied,
       sharedVars, ecsVars, statusVars, Spots, OneSpotPerUser, Typing,
       LockHeld, Threads, Locked, WebPc, EcsPc, Reservation
<1>32. ASSUME UsageLoadPlaying PROVE Spots'
  BY <1>1, <1>32, ConstantsAssumption DEF UsageLoadPlaying, Counter,
       sharedVars, ecsVars, statusVars, Spots, OneSpotPerUser, Typing,
       LockHeld, Threads, Locked, WebPc, EcsPc, Reservation
<1>33. ASSUME handle_capacity PROVE Spots'
  BY <1>1, <1>33, ConstantsAssumption DEF handle_capacity, sharedVars, ecsVars,
       statusVars, Spots, OneSpotPerUser, Typing, LockHeld, Threads, Locked,
       WebPc, EcsPc, Reservation
<1>34. ASSUME Tick PROVE Spots'
  BY <1>1, <1>34, ConstantsAssumption DEF Tick, Older, sharedVars, ecsVars,
       statusVars, Spots, OneSpotPerUser, Typing, LockHeld, Threads, Locked,
       WebPc, EcsPc, Reservation
<1>35. CASE UNCHANGED vars
  BY <1>1, <1>35, ConstantsAssumption DEF vars, sharedVars, ecsVars,
       statusVars, Spots, OneSpotPerUser, Typing, LockHeld, Threads, Locked,
       WebPc, EcsPc, Reservation
<1>36. QED
  BY <1>1, <1>2, <1>3, <1>4, <1>5, <1>6, <1>7, <1>8, <1>9, <1>10, <1>11, <1>12,
       <1>13, <1>14, <1>15, <1>16, <1>17, <1>18, <1>19, <1>20, <1>21, <1>22,
       <1>23, <1>24, <1>25, <1>26, <1>27, <1>28, <1>29, <1>30, <1>31, <1>32,
       <1>33, <1>34, <1>35
  DEF Next, WebStep, EcsStep

\* A promise ends before the reservation does, and what retain() is about to
\* drop has run out and stays so.
Grants ==
    /\ GrantHonoured
    /\ \A t \in Tokens : granted[t] > 0 => granted[t] < ttl[t]
    /\ \A r \in stale : ttl[r.token] = 0

\* Nothing is promised at the start.
LEMMA GrantsInit == Init => Grants
  BY ConstantsAssumption DEF Init, Grants, GrantHonoured

\* A promise always runs out before its reservation can be dropped.
LEMMA GrantsStep == Grants /\ Typing /\ LockHeld /\ Control /\ Typing' /\
     LockHeld' /\ Control' /\ [Next]_vars => Grants'
<1>1. SUFFICES ASSUME Grants, Typing, LockHeld, Control, Typing', LockHeld',
     Control', [Next]_vars PROVE Grants'
  OBVIOUS
<1>2. ASSUME NEW w \in Web, NEW u \in Users, handle_spot_request(w, u) PROVE
     Grants'
  BY <1>1, <1>2, ConstantsAssumption DEF handle_spot_request, GoTo, sharedVars,
       ecsVars, statusVars, Grants, GrantHonoured, Control, Expired, Typing,
       LockHeld, Threads, Locked, WebPc, EcsPc, Reservation
<1>3. ASSUME NEW w \in Web, FetchUser(w) PROVE Grants'
  BY <1>1, <1>3, ConstantsAssumption DEF FetchUser, GoTo, sharedVars, ecsVars,
       statusVars, Grants, GrantHonoured, Control, Expired, Typing, LockHeld,
       Threads, Locked, WebPc, EcsPc, Reservation
<1>4. ASSUME NEW w \in Web, InsertUser(w) PROVE Grants'
  BY <1>1, <1>4, ConstantsAssumption DEF InsertUser, GoTo, Respond, sharedVars,
       ecsVars, statusVars, Grants, GrantHonoured, Control, Expired, Typing,
       LockHeld, Threads, Locked, WebPc, EcsPc, Reservation
<1>5. ASSUME NEW w \in Web, FetchFails(w) PROVE Grants'
  BY <1>1, <1>5, ConstantsAssumption DEF FetchFails, Respond, GoTo, sharedVars,
       ecsVars, statusVars, Grants, GrantHonoured, Control, Expired, Typing,
       LockHeld, Threads, Locked, WebPc, EcsPc, Reservation
<1>6. ASSUME NEW w \in Web, reserve_spot(w) PROVE Grants'
  BY <1>1, <1>6, ConstantsAssumption DEF reserve_spot, cleanup_registrations,
       GoTo, sharedVars, ecsVars, statusVars, Grants, GrantHonoured, Control,
       Expired, Typing, LockHeld, Threads, Locked, WebPc, EcsPc, Reservation
<1>7. ASSUME NEW w \in Web, NEW r \in stale, DropStale(w, r) PROVE Grants'
  BY <1>1, <1>7, ConstantsAssumption DEF DropStale, DropQueueToken,
       ReleaseSpot, sharedVars, ecsVars, statusVars, Grants, GrantHonoured,
       Control, Expired, Typing, LockHeld, Threads, Locked, WebPc, EcsPc,
       Reservation
<1>8. ASSUME NEW w \in Web, CleanedUp(w) PROVE Grants'
  BY <1>1, <1>8, ConstantsAssumption DEF CleanedUp, GoTo, sharedVars, ecsVars,
       statusVars, Grants, GrantHonoured, Control, Expired, Typing, LockHeld,
       Threads, Locked, WebPc, EcsPc, Reservation
<1>9. ASSUME NEW w \in Web, CheckReservation(w) PROVE Grants'
  BY <1>1, <1>9, ConstantsAssumption DEF CheckReservation,
       AlreadyHasReservation, Respond, GoTo, Release, sharedVars, ecsVars,
       statusVars, Grants, GrantHonoured, Control, Expired, Typing, LockHeld,
       Threads, Locked, WebPc, EcsPc, Reservation
<1>10. ASSUME NEW w \in Web, LoadQueued(w) PROVE Grants'
  BY <1>1, <1>10, ConstantsAssumption DEF LoadQueued, GoTo, Counter,
       sharedVars, ecsVars, statusVars, Grants, GrantHonoured, Control,
       Expired, Typing, LockHeld, Threads, Locked, WebPc, EcsPc, Reservation
<1>11. ASSUME NEW w \in Web, LoadPlaying(w) PROVE Grants'
  BY <1>1, <1>11, ConstantsAssumption DEF LoadPlaying, GoTo, Counter,
       sharedVars, ecsVars, statusVars, Grants, GrantHonoured, Control,
       Expired, Typing, LockHeld, Threads, Locked, WebPc, EcsPc, Reservation
<1>12. ASSUME NEW w \in Web, NoSpotsAvailable(w) PROVE Grants'
  BY <1>1, <1>12, ConstantsAssumption DEF NoSpotsAvailable, Respond, GoTo,
       Release, sharedVars, ecsVars, statusVars, Grants, GrantHonoured,
       Control, Expired, Typing, LockHeld, Threads, Locked, WebPc, EcsPc,
       Reservation
<1>13. ASSUME NEW w \in Web, add_queue(w) PROVE Grants'
  BY <1>1, <1>13, ConstantsAssumption DEF add_queue, GoTo, sharedVars, ecsVars,
       statusVars, Grants, GrantHonoured, Control, Expired, Typing, LockHeld,
       Threads, Locked, WebPc, EcsPc, Reservation
<1>14. ASSUME NEW w \in Web, NEW t \in Tokens, PickToken(w, t) PROVE Grants'
  <2>1. /\ t \notin Taken
        /\ reservations' = reservations \cup {[user |-> asker[w], token |-> t]}
        /\ ttl' = [ttl EXCEPT ![t] = ValidTime]
        /\ granted' = [granted EXCEPT ![t] = ValidTime - 1]
        /\ stale' = stale
    BY <1>14 DEF PickToken
  <2>2. ASSUME NEW s \in Tokens, granted'[s] > 0
        PROVE granted'[s] < ttl'[s] /\ \E r \in reservations' : r.token = s
    <3>1. CASE s = t
      <4>1. granted'[t] = ValidTime - 1 /\ ttl'[t] = ValidTime
        BY <1>1, <2>1 DEF Typing
      <4>2. QED
        <5>1. [user |-> asker[w], token |-> t] \in reservations'
          BY <2>1
        <5>2. granted'[s] < ttl'[s]
          BY <3>1, <4>1, ConstantsAssumption
        <5>3. QED
          BY <3>1, <5>1, <5>2
    <3>2. CASE s # t
      <4>1. granted'[s] = granted[s] /\ ttl'[s] = ttl[s]
        BY <1>1, <3>2, <2>1 DEF Typing
      <4>2. QED
        BY <1>1, <2>1, <2>2, <4>1 DEF Grants, GrantHonoured
    <3>3. QED
      BY <3>1, <3>2
  <2>3. ASSUME NEW r \in stale' PROVE ttl'[r.token] = 0
    <3>1. r \in reservations /\ r.token # t /\ r.token \in Tokens
      BY <1>1, <2>1, <2>3 DEF Control, Taken, Typing, Reservation
    <3>2. QED
      BY <1>1, <2>1, <2>3, <3>1 DEF Grants, Typing
  <2>4. QED
    BY <2>2, <2>3 DEF Grants, GrantHonoured
<1>15. ASSUME NEW w \in Web, AllTokensTaken(w) PROVE Grants'
  BY <1>1, <1>15, ConstantsAssumption DEF AllTokensTaken, Respond, GoTo,
       Release, DropQueueToken, ReleaseSpot, sharedVars, ecsVars, statusVars,
       Grants, GrantHonoured, Control, Expired, Typing, LockHeld, Threads,
       Locked, WebPc, EcsPc, Reservation
<1>16. ASSUME NEW c \in Clients, NEW t \in Tokens, receive_login_inputs(c, t)
     PROVE Grants'
  BY <1>1, <1>16, ConstantsAssumption DEF receive_login_inputs, sharedVars,
       ecsVars, statusVars, Grants, GrantHonoured, Control, Expired, Typing,
       LockHeld, Threads, Locked, WebPc, EcsPc, Reservation
<1>17. ASSUME NEW c \in Clients, Disconnects(c) PROVE Grants'
  BY <1>1, <1>17, ConstantsAssumption DEF Disconnects, sharedVars, ecsVars,
       statusVars, Grants, GrantHonoured, Control, Expired, Typing, LockHeld,
       Threads, Locked, WebPc, EcsPc, Reservation
<1>18. ASSUME InputsReceived PROVE Grants'
  BY <1>1, <1>18, ConstantsAssumption DEF InputsReceived, GoTo, sharedVars,
       ecsVars, statusVars, Grants, GrantHonoured, Control, Expired, Typing,
       LockHeld, Threads, Locked, WebPc, EcsPc, Reservation
<1>19. ASSUME NEW c \in Clients, accept(c) PROVE Grants'
  BY <1>1, <1>19, ConstantsAssumption DEF accept, sharedVars, ecsVars,
       statusVars, Grants, GrantHonoured, Control, Expired, Typing, LockHeld,
       Threads, Locked, WebPc, EcsPc, Reservation
<1>20. ASSUME NEW c \in Clients, disconnected(c) PROVE Grants'
  BY <1>1, <1>20, ConstantsAssumption DEF disconnected, DropPlayingToken,
       ReleaseSpot, sharedVars, ecsVars, statusVars, Grants, GrantHonoured,
       Control, Expired, Typing, LockHeld, Threads, Locked, WebPc, EcsPc,
       Reservation
<1>21. ASSUME handle_auth PROVE Grants'
  BY <1>1, <1>21, ConstantsAssumption DEF handle_auth, GoTo, sharedVars,
       ecsVars, statusVars, Grants, GrantHonoured, Control, Expired, Typing,
       LockHeld, Threads, Locked, WebPc, EcsPc, Reservation
<1>22. ASSUME NEW c \in Clients, hand_in_reservation(c) PROVE Grants'
  BY <1>1, <1>22, ConstantsAssumption DEF hand_in_reservation,
       cleanup_registrations, GoTo, sharedVars, ecsVars, statusVars, Grants,
       GrantHonoured, Control, Expired, Typing, LockHeld, Threads, Locked,
       WebPc, EcsPc, Reservation
<1>23. ASSUME NEW r \in stale, DropStale(Ecs, r) PROVE Grants'
  BY <1>1, <1>23, ConstantsAssumption DEF DropStale, DropQueueToken,
       ReleaseSpot, sharedVars, ecsVars, statusVars, Grants, GrantHonoured,
       Control, Expired, Typing, LockHeld, Threads, Locked, WebPc, EcsPc,
       Reservation
<1>24. ASSUME CleanedUp(Ecs) PROVE Grants'
  BY <1>1, <1>24, ConstantsAssumption DEF CleanedUp, GoTo, sharedVars, ecsVars,
       statusVars, Grants, GrantHonoured, Control, Expired, Typing, LockHeld,
       Threads, Locked, WebPc, EcsPc, Reservation
<1>25. ASSUME NoSuchToken PROVE Grants'
  BY <1>1, <1>25, ConstantsAssumption DEF NoSuchToken, GoTo, Release,
       NextEntity, Taken, sharedVars, ecsVars, statusVars, Grants,
       GrantHonoured, Control, Expired, Typing, LockHeld, Threads, Locked,
       WebPc, EcsPc, Reservation
<1>26. ASSUME FoundReservation PROVE Grants'
  BY <1>1, <1>26, ConstantsAssumption DEF FoundReservation, GoTo, Taken,
       sharedVars, ecsVars, statusVars, Grants, GrantHonoured, Control,
       Expired, Typing, LockHeld, Threads, Locked, WebPc, EcsPc, Reservation
<1>27. ASSUME add_playing PROVE Grants'
  BY <1>1, <1>27, ConstantsAssumption DEF add_playing, GoTo, sharedVars,
       ecsVars, statusVars, Grants, GrantHonoured, Control, Expired, Typing,
       LockHeld, Threads, Locked, WebPc, EcsPc, Reservation
<1>28. ASSUME NEW r \in reservations, RemoveReservation(r) PROVE Grants'
  BY <1>1, <1>28, ConstantsAssumption DEF RemoveReservation, DropQueueToken,
       EndLoop, GoTo, Release, sharedVars, ecsVars, statusVars, Grants,
       GrantHonoured, Control, Expired, Typing, LockHeld, Threads, Locked,
       WebPc, EcsPc, Reservation
<1>29. ASSUME UpdateDone PROVE Grants'
  BY <1>1, <1>29, ConstantsAssumption DEF UpdateDone, GoTo, sharedVars,
       ecsVars, statusVars, Grants, GrantHonoured, Control, Expired, Typing,
       LockHeld, Threads, Locked, WebPc, EcsPc, Reservation
<1>30. ASSUME reset PROVE Grants'
  BY <1>1, <1>30, ConstantsAssumption DEF reset, GoTo, sharedVars, ecsVars,
       statusVars, Grants, GrantHonoured, Control, Expired, Typing, LockHeld,
       Threads, Locked, WebPc, EcsPc, Reservation
<1>31. ASSUME UsageLoadQueued PROVE Grants'
  BY <1>1, <1>31, ConstantsAssumption DEF UsageLoadQueued, Counter, Occupied,
       sharedVars, ecsVars, statusVars, Grants, GrantHonoured, Control,
       Expired, Typing, LockHeld, Threads, Locked, WebPc, EcsPc, Reservation
<1>32. ASSUME UsageLoadPlaying PROVE Grants'
  BY <1>1, <1>32, ConstantsAssumption DEF UsageLoadPlaying, Counter,
       sharedVars, ecsVars, statusVars, Grants, GrantHonoured, Control,
       Expired, Typing, LockHeld, Threads, Locked, WebPc, EcsPc, Reservation
<1>33. ASSUME handle_capacity PROVE Grants'
  BY <1>1, <1>33, ConstantsAssumption DEF handle_capacity, sharedVars, ecsVars,
       statusVars, Grants, GrantHonoured, Control, Expired, Typing, LockHeld,
       Threads, Locked, WebPc, EcsPc, Reservation
<1>34. ASSUME Tick PROVE Grants'
  BY <1>1, <1>34, ConstantsAssumption DEF Tick, Older, sharedVars, ecsVars,
       statusVars, Grants, GrantHonoured, Control, Expired, Typing, LockHeld,
       Threads, Locked, WebPc, EcsPc, Reservation
<1>35. CASE UNCHANGED vars
  BY <1>1, <1>35, ConstantsAssumption DEF vars, sharedVars, ecsVars,
       statusVars, Grants, GrantHonoured, Control, Expired, Typing, LockHeld,
       Threads, Locked, WebPc, EcsPc, Reservation
<1>36. QED
  BY <1>1, <1>2, <1>3, <1>4, <1>5, <1>6, <1>7, <1>8, <1>9, <1>10, <1>11, <1>12,
       <1>13, <1>14, <1>15, <1>16, <1>17, <1>18, <1>19, <1>20, <1>21, <1>22,
       <1>23, <1>24, <1>25, <1>26, <1>27, <1>28, <1>29, <1>30, <1>31, <1>32,
       <1>33, <1>34, <1>35
  DEF Next, WebStep, EcsStep

\* The requests a tick has dropped belong to clients that are still waiting.
Dropped ==
    /\ skipped # {} => admitted # {}
    /\ \A c \in skipped : session[c] = "login"
    /\ pc[Ecs] \in {"first", "preUpdate"} => skipped = {}

\* No request has been dropped at the start.
LEMMA DroppedInit == Init => Dropped
  BY DEF Init, Dropped

\* The loop in handle_auth drops requests only by the break after a success.
LEMMA DroppedStep == Dropped /\ Typing /\ LockHeld /\ Control /\ Typing' /\
     LockHeld' /\ Control' /\ [Next]_vars => Dropped'
<1>1. SUFFICES ASSUME Dropped, Typing, LockHeld, Control, Typing', LockHeld',
     Control', [Next]_vars PROVE Dropped'
  OBVIOUS
<1>2. ASSUME NEW w \in Web, NEW u \in Users, handle_spot_request(w, u) PROVE
     Dropped'
  BY <1>1, <1>2, ConstantsAssumption DEF handle_spot_request, GoTo, sharedVars,
       ecsVars, statusVars, Dropped, Control, Handling, Typing, LockHeld,
       Threads, Locked, WebPc, EcsPc, Reservation
<1>3. ASSUME NEW w \in Web, FetchUser(w) PROVE Dropped'
  BY <1>1, <1>3, ConstantsAssumption DEF FetchUser, GoTo, sharedVars, ecsVars,
       statusVars, Dropped, Control, Handling, Typing, LockHeld, Threads,
       Locked, WebPc, EcsPc, Reservation
<1>4. ASSUME NEW w \in Web, InsertUser(w) PROVE Dropped'
  BY <1>1, <1>4, ConstantsAssumption DEF InsertUser, GoTo, Respond, sharedVars,
       ecsVars, statusVars, Dropped, Control, Handling, Typing, LockHeld,
       Threads, Locked, WebPc, EcsPc, Reservation
<1>5. ASSUME NEW w \in Web, FetchFails(w) PROVE Dropped'
  BY <1>1, <1>5, ConstantsAssumption DEF FetchFails, Respond, GoTo, sharedVars,
       ecsVars, statusVars, Dropped, Control, Handling, Typing, LockHeld,
       Threads, Locked, WebPc, EcsPc, Reservation
<1>6. ASSUME NEW w \in Web, reserve_spot(w) PROVE Dropped'
  BY <1>1, <1>6, ConstantsAssumption DEF reserve_spot, cleanup_registrations,
       GoTo, sharedVars, ecsVars, statusVars, Dropped, Control, Handling,
       Typing, LockHeld, Threads, Locked, WebPc, EcsPc, Reservation
<1>7. ASSUME NEW w \in Web, NEW r \in stale, DropStale(w, r) PROVE Dropped'
  BY <1>1, <1>7, ConstantsAssumption DEF DropStale, DropQueueToken,
       ReleaseSpot, sharedVars, ecsVars, statusVars, Dropped, Control,
       Handling, Typing, LockHeld, Threads, Locked, WebPc, EcsPc, Reservation
<1>8. ASSUME NEW w \in Web, CleanedUp(w) PROVE Dropped'
  BY <1>1, <1>8, ConstantsAssumption DEF CleanedUp, GoTo, sharedVars, ecsVars,
       statusVars, Dropped, Control, Handling, Typing, LockHeld, Threads,
       Locked, WebPc, EcsPc, Reservation
<1>9. ASSUME NEW w \in Web, CheckReservation(w) PROVE Dropped'
  BY <1>1, <1>9, ConstantsAssumption DEF CheckReservation,
       AlreadyHasReservation, Respond, GoTo, Release, sharedVars, ecsVars,
       statusVars, Dropped, Control, Handling, Typing, LockHeld, Threads,
       Locked, WebPc, EcsPc, Reservation
<1>10. ASSUME NEW w \in Web, LoadQueued(w) PROVE Dropped'
  BY <1>1, <1>10, ConstantsAssumption DEF LoadQueued, GoTo, Counter,
       sharedVars, ecsVars, statusVars, Dropped, Control, Handling, Typing,
       LockHeld, Threads, Locked, WebPc, EcsPc, Reservation
<1>11. ASSUME NEW w \in Web, LoadPlaying(w) PROVE Dropped'
  BY <1>1, <1>11, ConstantsAssumption DEF LoadPlaying, GoTo, Counter,
       sharedVars, ecsVars, statusVars, Dropped, Control, Handling, Typing,
       LockHeld, Threads, Locked, WebPc, EcsPc, Reservation
<1>12. ASSUME NEW w \in Web, NoSpotsAvailable(w) PROVE Dropped'
  BY <1>1, <1>12, ConstantsAssumption DEF NoSpotsAvailable, Respond, GoTo,
       Release, sharedVars, ecsVars, statusVars, Dropped, Control, Handling,
       Typing, LockHeld, Threads, Locked, WebPc, EcsPc, Reservation
<1>13. ASSUME NEW w \in Web, add_queue(w) PROVE Dropped'
  BY <1>1, <1>13, ConstantsAssumption DEF add_queue, GoTo, sharedVars, ecsVars,
       statusVars, Dropped, Control, Handling, Typing, LockHeld, Threads,
       Locked, WebPc, EcsPc, Reservation
<1>14. ASSUME NEW w \in Web, NEW t \in Tokens, PickToken(w, t) PROVE Dropped'
  BY <1>1, <1>14, ConstantsAssumption DEF PickToken, Respond, GoTo, Release,
       Taken, sharedVars, ecsVars, statusVars, Dropped, Control, Handling,
       Typing, LockHeld, Threads, Locked, WebPc, EcsPc, Reservation
<1>15. ASSUME NEW w \in Web, AllTokensTaken(w) PROVE Dropped'
  BY <1>1, <1>15, ConstantsAssumption DEF AllTokensTaken, Respond, GoTo,
       Release, DropQueueToken, ReleaseSpot, sharedVars, ecsVars, statusVars,
       Dropped, Control, Handling, Typing, LockHeld, Threads, Locked, WebPc,
       EcsPc, Reservation
<1>16. ASSUME NEW c \in Clients, NEW t \in Tokens, receive_login_inputs(c, t)
     PROVE Dropped'
  BY <1>1, <1>16, ConstantsAssumption DEF receive_login_inputs, sharedVars,
       ecsVars, statusVars, Dropped, Control, Handling, Typing, LockHeld,
       Threads, Locked, WebPc, EcsPc, Reservation
<1>17. ASSUME NEW c \in Clients, Disconnects(c) PROVE Dropped'
  BY <1>1, <1>17, ConstantsAssumption DEF Disconnects, sharedVars, ecsVars,
       statusVars, Dropped, Control, Handling, Typing, LockHeld, Threads,
       Locked, WebPc, EcsPc, Reservation
<1>18. ASSUME InputsReceived PROVE Dropped'
  BY <1>1, <1>18, ConstantsAssumption DEF InputsReceived, GoTo, sharedVars,
       ecsVars, statusVars, Dropped, Control, Handling, Typing, LockHeld,
       Threads, Locked, WebPc, EcsPc, Reservation
<1>19. ASSUME NEW c \in Clients, accept(c) PROVE Dropped'
  BY <1>1, <1>19, ConstantsAssumption DEF accept, sharedVars, ecsVars,
       statusVars, Dropped, Control, Handling, Typing, LockHeld, Threads,
       Locked, WebPc, EcsPc, Reservation
<1>20. ASSUME NEW c \in Clients, disconnected(c) PROVE Dropped'
  BY <1>1, <1>20, ConstantsAssumption DEF disconnected, DropPlayingToken,
       ReleaseSpot, sharedVars, ecsVars, statusVars, Dropped, Control,
       Handling, Typing, LockHeld, Threads, Locked, WebPc, EcsPc, Reservation
<1>21. ASSUME handle_auth PROVE Dropped'
  BY <1>1, <1>21, ConstantsAssumption DEF handle_auth, GoTo, sharedVars,
       ecsVars, statusVars, Dropped, Control, Handling, Typing, LockHeld,
       Threads, Locked, WebPc, EcsPc, Reservation
<1>22. ASSUME NEW c \in Clients, hand_in_reservation(c) PROVE Dropped'
  BY <1>1, <1>22, ConstantsAssumption DEF hand_in_reservation,
       cleanup_registrations, GoTo, sharedVars, ecsVars, statusVars, Dropped,
       Control, Handling, Typing, LockHeld, Threads, Locked, WebPc, EcsPc,
       Reservation
<1>23. ASSUME NEW r \in stale, DropStale(Ecs, r) PROVE Dropped'
  BY <1>1, <1>23, ConstantsAssumption DEF DropStale, DropQueueToken,
       ReleaseSpot, sharedVars, ecsVars, statusVars, Dropped, Control,
       Handling, Typing, LockHeld, Threads, Locked, WebPc, EcsPc, Reservation
<1>24. ASSUME CleanedUp(Ecs) PROVE Dropped'
  BY <1>1, <1>24, ConstantsAssumption DEF CleanedUp, GoTo, sharedVars, ecsVars,
       statusVars, Dropped, Control, Handling, Typing, LockHeld, Threads,
       Locked, WebPc, EcsPc, Reservation
<1>25. ASSUME NoSuchToken PROVE Dropped'
  BY <1>1, <1>25, ConstantsAssumption DEF NoSuchToken, GoTo, Release,
       NextEntity, Taken, sharedVars, ecsVars, statusVars, Dropped, Control,
       Handling, Typing, LockHeld, Threads, Locked, WebPc, EcsPc, Reservation
<1>26. ASSUME FoundReservation PROVE Dropped'
  BY <1>1, <1>26, ConstantsAssumption DEF FoundReservation, GoTo, Taken,
       sharedVars, ecsVars, statusVars, Dropped, Control, Handling, Typing,
       LockHeld, Threads, Locked, WebPc, EcsPc, Reservation
<1>27. ASSUME add_playing PROVE Dropped'
  BY <1>1, <1>27, ConstantsAssumption DEF add_playing, GoTo, sharedVars,
       ecsVars, statusVars, Dropped, Control, Handling, Typing, LockHeld,
       Threads, Locked, WebPc, EcsPc, Reservation
<1>28. ASSUME NEW r \in reservations, RemoveReservation(r) PROVE Dropped'
  BY <1>1, <1>28, ConstantsAssumption DEF RemoveReservation, DropQueueToken,
       EndLoop, GoTo, Release, sharedVars, ecsVars, statusVars, Dropped,
       Control, Handling, Typing, LockHeld, Threads, Locked, WebPc, EcsPc,
       Reservation
<1>29. ASSUME UpdateDone PROVE Dropped'
  BY <1>1, <1>29, ConstantsAssumption DEF UpdateDone, GoTo, sharedVars,
       ecsVars, statusVars, Dropped, Control, Handling, Typing, LockHeld,
       Threads, Locked, WebPc, EcsPc, Reservation
<1>30. ASSUME reset PROVE Dropped'
  BY <1>1, <1>30, ConstantsAssumption DEF reset, GoTo, sharedVars, ecsVars,
       statusVars, Dropped, Control, Handling, Typing, LockHeld, Threads,
       Locked, WebPc, EcsPc, Reservation
<1>31. ASSUME UsageLoadQueued PROVE Dropped'
  BY <1>1, <1>31, ConstantsAssumption DEF UsageLoadQueued, Counter, Occupied,
       sharedVars, ecsVars, statusVars, Dropped, Control, Handling, Typing,
       LockHeld, Threads, Locked, WebPc, EcsPc, Reservation
<1>32. ASSUME UsageLoadPlaying PROVE Dropped'
  BY <1>1, <1>32, ConstantsAssumption DEF UsageLoadPlaying, Counter,
       sharedVars, ecsVars, statusVars, Dropped, Control, Handling, Typing,
       LockHeld, Threads, Locked, WebPc, EcsPc, Reservation
<1>33. ASSUME handle_capacity PROVE Dropped'
  BY <1>1, <1>33, ConstantsAssumption DEF handle_capacity, sharedVars, ecsVars,
       statusVars, Dropped, Control, Handling, Typing, LockHeld, Threads,
       Locked, WebPc, EcsPc, Reservation
<1>34. ASSUME Tick PROVE Dropped'
  BY <1>1, <1>34, ConstantsAssumption DEF Tick, Older, sharedVars, ecsVars,
       statusVars, Dropped, Control, Handling, Typing, LockHeld, Threads,
       Locked, WebPc, EcsPc, Reservation
<1>35. CASE UNCHANGED vars
  BY <1>1, <1>35, ConstantsAssumption DEF vars, sharedVars, ecsVars,
       statusVars, Dropped, Control, Handling, Typing, LockHeld, Threads,
       Locked, WebPc, EcsPc, Reservation
<1>36. QED
  BY <1>1, <1>2, <1>3, <1>4, <1>5, <1>6, <1>7, <1>8, <1>9, <1>10, <1>11, <1>12,
       <1>13, <1>14, <1>15, <1>16, <1>17, <1>18, <1>19, <1>20, <1>21, <1>22,
       <1>23, <1>24, <1>25, <1>26, <1>27, <1>28, <1>29, <1>30, <1>31, <1>32,
       <1>33, <1>34, <1>35
  DEF Next, WebStep, EcsStep

\* What add_queue() has summed so far is at least what is taken: while a request
\* holds the mutex, queued stands still and playing can only fall.
Counters ==
    /\ IsFiniteSet(reservations)
    /\ TokensAccounted /\ CapacityRespected
    /\ loaded \in Nat
    /\ \A w \in Web : pc[w] = "loadPlaying" => loaded = queued
    /\ \A w \in Web : pc[w] = "decide" => loaded <= Max /\ queued + playing <= loaded

\* Both counters start at zero, as do reservations and seats.
LEMMA CountersInit == Init => Counters
  BY ConstantsAssumption, FS_EmptySet DEF Init, Counters, TokensAccounted,
       CapacityRespected, Threads, InFlight, HandingIn, Playing

(* While a thread is inside the mutex no other thread is. *)
LEMMA Alone ==
    ASSUME Typing, LockHeld, NEW t \in Threads, pc[t] \in Locked
    PROVE  \A v \in Threads : v # t => pc[v] \notin Locked
  BY ConstantsAssumption DEF Typing, LockHeld

(* The sum of the two loads decides: u16 subtraction cannot wrap below Max. *)
LEMMA CanQueue ==
    ASSUME NEW total \in 0..Max PROVE can_queue(total) <=> total < Max
  <1>1. available(total) = Max - total
    BY ConstantsAssumption DEF available
  <1>2. QED
    BY <1>1, ConstantsAssumption DEF can_queue

\* There are finitely many playing entities.
LEMMA PlayingFinite == IsFiniteSet(Playing) /\ Cardinality(Playing) \in Nat
  BY ConstantsAssumption, FS_Subset, FS_CardinalityType DEF Playing

\* The reservations can be counted, and neither counter is negative.
LEMMA Counted ==
    ASSUME Counters, Typing
    PROVE  Cardinality(reservations) \in Nat /\ queued \in Nat /\ playing \in Nat
  <1>1. Cardinality(reservations) \in Nat
    BY FS_CardinalityType DEF Counters
  <1>2. InFlight \in {0, 1} /\ HandingIn \in {0, 1}
    BY DEF InFlight, HandingIn
  <1>3. QED
    BY <1>1, <1>2, PlayingFinite DEF Counters, TokensAccounted

\* retain() drops a reservation and its QueueToken together.
LEMMA DropStaleCounters ==
    ASSUME Counters, Typing, LockHeld, Control,
           NEW t \in Threads, NEW r \in stale, DropStale(t, r)
    PROVE  Counters'
  <1>1. /\ IsFiniteSet(reservations')
        /\ Cardinality(reservations') = Cardinality(reservations) - 1
    BY FS_RemoveElement DEF DropStale, Control, Counters
  <1>2. /\ queued' = queued - 1 /\ UNCHANGED <<playing, pc, loaded, session>>
        /\ pc[t] = "cleanup"
    BY DEF DropStale, DropQueueToken, ecsVars
  <1>3. \A v \in Threads : pc[v] \in Locked => pc[v] = "cleanup"
    BY <1>2, Alone DEF Locked
  <1>4. InFlight' = InFlight /\ HandingIn' = 0 /\ HandingIn = 0
    BY <1>2, <1>3 DEF InFlight, HandingIn, Threads, Locked
  <1>5. Playing' = Playing
    BY <1>2 DEF Playing
  <1>6. \A w \in Web : pc'[w] \notin {"loadPlaying", "decide"}
    BY <1>2, <1>3 DEF Threads, Locked
  <1>7. InFlight \in {0, 1} /\ Cardinality(reservations) \in Nat
    BY FS_CardinalityType DEF InFlight, Counters
  <1>8. QED
    BY <1>1, <1>2, <1>4, <1>5, <1>6, <1>7, PlayingFinite, ConstantsAssumption
    DEF Counters, TokensAccounted, CapacityRespected

\* Every raise and every Drop of a token keeps the counters in step with the
\* reservations and seats, within the capacity.
LEMMA CountersStep == Counters /\ Typing /\ LockHeld /\ Control /\ Typing' /\
     LockHeld' /\ Control' /\ [Next]_vars => Counters'
<1>1. SUFFICES ASSUME Counters, Typing, LockHeld, Control, Typing', LockHeld',
     Control', [Next]_vars PROVE Counters'
  OBVIOUS
<1>2. ASSUME NEW w \in Web, NEW u \in Users, handle_spot_request(w, u) PROVE
     Counters'
  BY <1>1, <1>2, ConstantsAssumption DEF handle_spot_request, GoTo, sharedVars,
       ecsVars, statusVars, Counters, TokensAccounted, CapacityRespected,
       InFlight, HandingIn, Playing, Control, Handling, Typing, LockHeld,
       Threads, Locked, WebPc, EcsPc, Reservation
<1>3. ASSUME NEW w \in Web, FetchUser(w) PROVE Counters'
  BY <1>1, <1>3, ConstantsAssumption DEF FetchUser, GoTo, sharedVars, ecsVars,
       statusVars, Counters, TokensAccounted, CapacityRespected, InFlight,
       HandingIn, Playing, Control, Handling, Typing, LockHeld, Threads,
       Locked, WebPc, EcsPc, Reservation
<1>4. ASSUME NEW w \in Web, InsertUser(w) PROVE Counters'
  BY <1>1, <1>4, ConstantsAssumption DEF InsertUser, GoTo, Respond, sharedVars,
       ecsVars, statusVars, Counters, TokensAccounted, CapacityRespected,
       InFlight, HandingIn, Playing, Control, Handling, Typing, LockHeld,
       Threads, Locked, WebPc, EcsPc, Reservation
<1>5. ASSUME NEW w \in Web, FetchFails(w) PROVE Counters'
  BY <1>1, <1>5, ConstantsAssumption DEF FetchFails, Respond, GoTo, sharedVars,
       ecsVars, statusVars, Counters, TokensAccounted, CapacityRespected,
       InFlight, HandingIn, Playing, Control, Handling, Typing, LockHeld,
       Threads, Locked, WebPc, EcsPc, Reservation
<1>6. ASSUME NEW w \in Web, reserve_spot(w) PROVE Counters'
  BY <1>1, <1>6, ConstantsAssumption DEF reserve_spot, cleanup_registrations,
       GoTo, sharedVars, ecsVars, statusVars, Counters, TokensAccounted,
       CapacityRespected, InFlight, HandingIn, Playing, Control, Handling,
       Typing, LockHeld, Threads, Locked, WebPc, EcsPc, Reservation
<1>7. ASSUME NEW w \in Web, NEW r \in stale, DropStale(w, r) PROVE Counters'
  BY <1>1, <1>7, DropStaleCounters DEF Threads
<1>8. ASSUME NEW w \in Web, CleanedUp(w) PROVE Counters'
  BY <1>1, <1>8, ConstantsAssumption DEF CleanedUp, GoTo, sharedVars, ecsVars,
       statusVars, Counters, TokensAccounted, CapacityRespected, InFlight,
       HandingIn, Playing, Control, Handling, Typing, LockHeld, Threads,
       Locked, WebPc, EcsPc, Reservation
<1>9. ASSUME NEW w \in Web, CheckReservation(w) PROVE Counters'
  BY <1>1, <1>9, ConstantsAssumption DEF CheckReservation,
       AlreadyHasReservation, Respond, GoTo, Release, sharedVars, ecsVars,
       statusVars, Counters, TokensAccounted, CapacityRespected, InFlight,
       HandingIn, Playing, Control, Handling, Typing, LockHeld, Threads,
       Locked, WebPc, EcsPc, Reservation
<1>10. ASSUME NEW w \in Web, LoadQueued(w) PROVE Counters'
  BY <1>1, <1>10, Counted, ConstantsAssumption DEF LoadQueued, GoTo, Counter,
       sharedVars, ecsVars, statusVars, Counters, TokensAccounted,
       CapacityRespected, InFlight, HandingIn, Playing, Control, Handling,
       Typing, LockHeld, Threads, Locked, WebPc, EcsPc, Reservation
<1>11. ASSUME NEW w \in Web, LoadPlaying(w) PROVE Counters'
  <2>1. /\ pc[w] = "loadPlaying" /\ pc' = [pc EXCEPT ![w] = "decide"]
        /\ loaded' = loaded + playing /\ UNCHANGED <<reservations, queued, playing, session>>
    BY <1>11 DEF LoadPlaying, GoTo, Counter, sharedVars, ecsVars
  <2>2. \A v \in Threads : v # w => pc[v] \notin Locked
    BY <1>1, <2>1, Alone DEF Locked, Threads
  <2>3. InFlight = 0 /\ InFlight' = 0 /\ HandingIn = 0 /\ HandingIn' = 0
    BY <1>1, <2>1, <2>2, ConstantsAssumption DEF InFlight, HandingIn, Threads,
         Locked, Typing
  <2>4. \A v \in Web : pc'[v] # "loadPlaying" /\ (pc'[v] = "decide" => v = w)
    BY <1>1, <2>1, <2>2 DEF Threads, Locked, Typing
  <2>5. Playing' = Playing
    BY <2>1 DEF Playing
  <2>6. loaded = queued
    BY <1>1, <2>1 DEF Counters
  <2>7. playing \in Nat
    BY <1>1, <2>3, PlayingFinite DEF Counters, TokensAccounted
  <2>8. QED
    BY <1>1, <2>1, <2>3, <2>4, <2>5, <2>6, <2>7, ConstantsAssumption DEF
         Counters, TokensAccounted, CapacityRespected, Typing
<1>12. ASSUME NEW w \in Web, NoSpotsAvailable(w) PROVE Counters'
  BY <1>1, <1>12, ConstantsAssumption DEF NoSpotsAvailable, Respond, GoTo,
       Release, sharedVars, ecsVars, statusVars, Counters, TokensAccounted,
       CapacityRespected, InFlight, HandingIn, Playing, Control, Handling,
       Typing, LockHeld, Threads, Locked, WebPc, EcsPc, Reservation
<1>13. ASSUME NEW w \in Web, add_queue(w) PROVE Counters'
  <2>1. /\ pc[w] = "decide" /\ can_queue(loaded) /\ pc' = [pc EXCEPT ![w] = "pick"]
        /\ queued' = queued + 1 /\ loaded' = 0 /\ UNCHANGED <<reservations, playing, session>>
    BY <1>13 DEF add_queue, GoTo, ecsVars
  <2>2. \A v \in Threads : v # w => pc[v] \notin Locked
    BY <1>1, <2>1, Alone DEF Locked, Threads
  <2>3. InFlight = 0 /\ InFlight' = 1 /\ HandingIn = 0 /\ HandingIn' = 0
    BY <1>1, <2>1, <2>2, ConstantsAssumption DEF InFlight, HandingIn, Threads,
         Locked, Typing
  <2>4. \A v \in Web : pc'[v] \notin {"loadPlaying", "decide"}
    BY <1>1, <2>1, <2>2 DEF Threads, Locked, Typing
  <2>5. Playing' = Playing
    BY <2>1 DEF Playing
  <2>6. loaded \in 0..Max /\ queued + playing <= loaded
    BY <1>1, <2>1, ConstantsAssumption DEF Counters
  <2>7. loaded < Max
    BY <2>1, <2>6, CanQueue
  <2>8. QED
    BY <1>1, <2>1, <2>3, <2>4, <2>5, <2>6, <2>7, Counted, ConstantsAssumption
         DEF Counters, TokensAccounted, CapacityRespected, Typing
<1>14. ASSUME NEW w \in Web, NEW t \in Tokens, PickToken(w, t) PROVE Counters'
  <2>1. /\ pc[w] = "pick" /\ pc' = [pc EXCEPT ![w] = "idle"] /\ t \notin Taken
        /\ reservations' = reservations \cup {[user |-> asker[w], token |-> t]}
        /\ UNCHANGED <<queued, playing, session, loaded>>
    BY <1>14 DEF PickToken, Respond, GoTo, ecsVars
  <2>2. \A v \in Threads : v # w => pc[v] \notin Locked
    BY <1>1, <2>1, Alone DEF Locked, Threads
  <2>3. InFlight = 1 /\ InFlight' = 0 /\ HandingIn = 0 /\ HandingIn' = 0
    BY <1>1, <2>1, <2>2, ConstantsAssumption DEF InFlight, HandingIn, Threads,
         Locked, Typing
  <2>4. \A v \in Web : pc'[v] \notin {"loadPlaying", "decide"}
    BY <1>1, <2>1, <2>2 DEF Threads, Locked, Typing
  <2>5. Playing' = Playing
    BY <2>1 DEF Playing
  <2>6. [user |-> asker[w], token |-> t] \notin reservations
    BY <2>1 DEF Taken
  <2>7. IsFiniteSet(reservations') /\ Cardinality(reservations') = Cardinality(reservations) + 1
    BY <1>1, <2>1, <2>6, FS_AddElement DEF Counters
  <2>8. QED
    BY <1>1, <2>1, <2>3, <2>4, <2>5, <2>7, Counted, ConstantsAssumption DEF
         Counters, TokensAccounted, CapacityRespected, Typing
<1>15. ASSUME NEW w \in Web, AllTokensTaken(w) PROVE Counters'
  <2>1. /\ pc[w] = "pick" /\ pc' = [pc EXCEPT ![w] = "idle"]
        /\ queued' = queued - 1 /\ UNCHANGED <<reservations, playing, session, loaded>>
    BY <1>15 DEF AllTokensTaken, Respond, GoTo, DropQueueToken, ecsVars
  <2>2. \A v \in Threads : v # w => pc[v] \notin Locked
    BY <1>1, <2>1, Alone DEF Locked, Threads
  <2>3. InFlight = 1 /\ InFlight' = 0 /\ HandingIn = 0 /\ HandingIn' = 0
    BY <1>1, <2>1, <2>2, ConstantsAssumption DEF InFlight, HandingIn, Threads,
         Locked, Typing
  <2>4. \A v \in Web : pc'[v] \notin {"loadPlaying", "decide"}
    BY <1>1, <2>1, <2>2 DEF Threads, Locked, Typing
  <2>5. Playing' = Playing
    BY <2>1 DEF Playing
  <2>6. QED
    BY <1>1, <2>1, <2>3, <2>4, <2>5, Counted, ConstantsAssumption DEF Counters,
         TokensAccounted, CapacityRespected, Typing
<1>16. ASSUME NEW c \in Clients, NEW t \in Tokens, receive_login_inputs(c, t)
     PROVE Counters'
  BY <1>1, <1>16, ConstantsAssumption DEF receive_login_inputs, sharedVars,
       ecsVars, statusVars, Counters, TokensAccounted, CapacityRespected,
       InFlight, HandingIn, Playing, Control, Handling, Typing, LockHeld,
       Threads, Locked, WebPc, EcsPc, Reservation
<1>17. ASSUME NEW c \in Clients, Disconnects(c) PROVE Counters'
  BY <1>1, <1>17, ConstantsAssumption DEF Disconnects, sharedVars, ecsVars,
       statusVars, Counters, TokensAccounted, CapacityRespected, InFlight,
       HandingIn, Playing, Control, Handling, Typing, LockHeld, Threads,
       Locked, WebPc, EcsPc, Reservation
<1>18. ASSUME InputsReceived PROVE Counters'
  BY <1>1, <1>18, ConstantsAssumption DEF InputsReceived, GoTo, sharedVars,
       ecsVars, statusVars, Counters, TokensAccounted, CapacityRespected,
       InFlight, HandingIn, Playing, Control, Handling, Typing, LockHeld,
       Threads, Locked, WebPc, EcsPc, Reservation
<1>19. ASSUME NEW c \in Clients, accept(c) PROVE Counters'
  <2>1. /\ session[c] = "absent" /\ session' = [session EXCEPT ![c] = "login"]
        /\ UNCHANGED <<reservations, queued, playing, pc, loaded>>
    BY <1>19 DEF accept, sharedVars
  <2>2. Playing' = Playing
    BY <1>1, <2>1 DEF Playing, Typing
  <2>3. InFlight' = InFlight /\ HandingIn' = HandingIn
    BY <2>1 DEF InFlight, HandingIn
  <2>4. QED
    BY <1>1, <2>1, <2>2, <2>3 DEF Counters, TokensAccounted, CapacityRespected
<1>20. ASSUME NEW c \in Clients, disconnected(c) PROVE Counters'
  <2>1. /\ pc[Ecs] = "preUpdate" /\ session' = [session EXCEPT ![c] = "absent"]
        /\ UNCHANGED <<reservations, queued, pc, loaded>>
        /\ playing' = IF session[c] = "playing" THEN playing - 1 ELSE playing
    BY <1>20 DEF disconnected, DropPlayingToken
  <2>2. InFlight' = InFlight /\ HandingIn' = 0 /\ HandingIn = 0
    BY <2>1 DEF InFlight, HandingIn
  <2>3. Playing' = Playing \ {c}
    BY <1>1, <2>1 DEF Playing, Typing
  <2>4. c \in Playing <=> session[c] = "playing"
    BY DEF Playing
  <2>5. playing' = Cardinality(Playing') + HandingIn' /\ playing' <= playing
    <3>1. CASE session[c] = "playing"
      <4>1. Cardinality(Playing') = Cardinality(Playing) - 1
        BY <2>3, <2>4, <3>1, PlayingFinite, FS_RemoveElement
      <4>2. QED
        BY <1>1, <2>1, <2>2, <3>1, <4>1, PlayingFinite DEF Counters,
             TokensAccounted
    <3>2. CASE session[c] # "playing"
      <4>1. Playing' = Playing
        BY <2>3, <2>4, <3>2
      <4>2. QED
        BY <1>1, <2>1, <2>2, <3>2, <4>1, PlayingFinite DEF Counters,
             TokensAccounted
    <3>3. QED
      BY <3>1, <3>2
  <2>6. playing' \in Int /\ playing \in Int /\ queued \in Int
    BY <1>1 DEF Typing
  <2>7. QED
    BY <1>1, <2>1, <2>2, <2>5, <2>6, ConstantsAssumption DEF Counters,
         TokensAccounted, CapacityRespected
<1>21. ASSUME handle_auth PROVE Counters'
  BY <1>1, <1>21, ConstantsAssumption DEF handle_auth, GoTo, sharedVars,
       ecsVars, statusVars, Counters, TokensAccounted, CapacityRespected,
       InFlight, HandingIn, Playing, Control, Handling, Typing, LockHeld,
       Threads, Locked, WebPc, EcsPc, Reservation
<1>22. ASSUME NEW c \in Clients, hand_in_reservation(c) PROVE Counters'
  BY <1>1, <1>22, ConstantsAssumption DEF hand_in_reservation,
       cleanup_registrations, GoTo, sharedVars, ecsVars, statusVars, Counters,
       TokensAccounted, CapacityRespected, InFlight, HandingIn, Playing,
       Control, Handling, Typing, LockHeld, Threads, Locked, WebPc, EcsPc,
       Reservation
<1>23. ASSUME NEW r \in stale, DropStale(Ecs, r) PROVE Counters'
  BY <1>1, <1>23, DropStaleCounters DEF Threads
<1>24. ASSUME CleanedUp(Ecs) PROVE Counters'
  BY <1>1, <1>24, ConstantsAssumption DEF CleanedUp, GoTo, sharedVars, ecsVars,
       statusVars, Counters, TokensAccounted, CapacityRespected, InFlight,
       HandingIn, Playing, Control, Handling, Typing, LockHeld, Threads,
       Locked, WebPc, EcsPc, Reservation
<1>25. ASSUME NoSuchToken PROVE Counters'
  BY <1>1, <1>25, ConstantsAssumption DEF NoSuchToken, GoTo, Release,
       NextEntity, Taken, sharedVars, ecsVars, statusVars, Counters,
       TokensAccounted, CapacityRespected, InFlight, HandingIn, Playing,
       Control, Handling, Typing, LockHeld, Threads, Locked, WebPc, EcsPc,
       Reservation
<1>26. ASSUME FoundReservation PROVE Counters'
  BY <1>1, <1>26, ConstantsAssumption DEF FoundReservation, GoTo, Taken,
       sharedVars, ecsVars, statusVars, Counters, TokensAccounted,
       CapacityRespected, InFlight, HandingIn, Playing, Control, Handling,
       Typing, LockHeld, Threads, Locked, WebPc, EcsPc, Reservation
<1>27. ASSUME add_playing PROVE Counters'
  <2>1. /\ pc[Ecs] = "addPlaying" /\ pc' = [pc EXCEPT ![Ecs] = "dropQueue"]
        /\ playing' = playing + 1 /\ UNCHANGED <<reservations, queued, session, loaded>>
    BY <1>27 DEF add_playing, GoTo, ecsVars
  <2>2. \A v \in Threads : v # Ecs => pc[v] \notin Locked
    BY <1>1, <2>1, Alone DEF Locked, Threads
  <2>3. InFlight' = 0 /\ InFlight = 0 /\ HandingIn = 0 /\ HandingIn' = 1
    BY <1>1, <2>1, <2>2, ConstantsAssumption DEF InFlight, HandingIn, Threads,
         Locked, Typing
  <2>4. \A v \in Web : pc'[v] \notin {"loadPlaying", "decide"}
    BY <1>1, <2>1, <2>2, ConstantsAssumption DEF Threads, Locked, Typing
  <2>5. Playing' = Playing
    BY <2>1 DEF Playing
  <2>6. QED
    BY <1>1, <2>1, <2>3, <2>4, <2>5, PlayingFinite, ConstantsAssumption DEF
         Counters, TokensAccounted, CapacityRespected, Typing
<1>28. ASSUME NEW r \in reservations, RemoveReservation(r) PROVE Counters'
  <2>1. /\ pc[Ecs] = "dropQueue" /\ pc' = [pc EXCEPT ![Ecs] = "update"]
        /\ reservations' = reservations \ {r} /\ queued' = queued - 1
        /\ session' = [session EXCEPT ![current] = "playing"] /\ UNCHANGED <<playing, loaded>>
    BY <1>28 DEF RemoveReservation, DropQueueToken, GoTo
  <2>2. \A v \in Threads : v # Ecs => pc[v] \notin Locked
    BY <1>1, <2>1, Alone DEF Locked, Threads
  <2>3. InFlight' = 0 /\ InFlight = 0 /\ HandingIn = 1 /\ HandingIn' = 0
    BY <1>1, <2>1, <2>2, ConstantsAssumption DEF InFlight, HandingIn, Threads,
         Locked, Typing
  <2>4. \A v \in Web : pc'[v] \notin {"loadPlaying", "decide"}
    BY <1>1, <2>1, <2>2, ConstantsAssumption DEF Threads, Locked, Typing
  <2>5. Playing' = Playing \cup {current} /\ current \notin Playing
    BY <1>1, <2>1 DEF Playing, Typing, Control, Handling
  <2>6. Cardinality(Playing') = Cardinality(Playing) + 1
    BY <2>5, PlayingFinite, FS_AddElement
  <2>7. /\ IsFiniteSet(reservations')
        /\ Cardinality(reservations') = Cardinality(reservations) - 1
    BY <1>1, <2>1, FS_RemoveElement DEF Counters
  <2>8. QED
    BY <1>1, <2>1, <2>3, <2>4, <2>6, <2>7, Counted, PlayingFinite,
         ConstantsAssumption DEF Counters, TokensAccounted, CapacityRespected,
         Typing
<1>29. ASSUME UpdateDone PROVE Counters'
  BY <1>1, <1>29, ConstantsAssumption DEF UpdateDone, GoTo, sharedVars,
       ecsVars, statusVars, Counters, TokensAccounted, CapacityRespected,
       InFlight, HandingIn, Playing, Control, Handling, Typing, LockHeld,
       Threads, Locked, WebPc, EcsPc, Reservation
<1>30. ASSUME reset PROVE Counters'
  BY <1>1, <1>30, ConstantsAssumption DEF reset, GoTo, sharedVars, ecsVars,
       statusVars, Counters, TokensAccounted, CapacityRespected, InFlight,
       HandingIn, Playing, Control, Handling, Typing, LockHeld, Threads,
       Locked, WebPc, EcsPc, Reservation
<1>31. ASSUME UsageLoadQueued PROVE Counters'
  BY <1>1, <1>31, ConstantsAssumption DEF UsageLoadQueued, Counter, Occupied,
       sharedVars, ecsVars, statusVars, Counters, TokensAccounted,
       CapacityRespected, InFlight, HandingIn, Playing, Control, Handling,
       Typing, LockHeld, Threads, Locked, WebPc, EcsPc, Reservation
<1>32. ASSUME UsageLoadPlaying PROVE Counters'
  BY <1>1, <1>32, ConstantsAssumption DEF UsageLoadPlaying, Counter,
       sharedVars, ecsVars, statusVars, Counters, TokensAccounted,
       CapacityRespected, InFlight, HandingIn, Playing, Control, Handling,
       Typing, LockHeld, Threads, Locked, WebPc, EcsPc, Reservation
<1>33. ASSUME handle_capacity PROVE Counters'
  BY <1>1, <1>33, ConstantsAssumption DEF handle_capacity, sharedVars, ecsVars,
       statusVars, Counters, TokensAccounted, CapacityRespected, InFlight,
       HandingIn, Playing, Control, Handling, Typing, LockHeld, Threads,
       Locked, WebPc, EcsPc, Reservation
<1>34. ASSUME Tick PROVE Counters'
  BY <1>1, <1>34, ConstantsAssumption DEF Tick, Older, sharedVars, ecsVars,
       statusVars, Counters, TokensAccounted, CapacityRespected, InFlight,
       HandingIn, Playing, Control, Handling, Typing, LockHeld, Threads,
       Locked, WebPc, EcsPc, Reservation
<1>35. CASE UNCHANGED vars
  BY <1>1, <1>35, ConstantsAssumption DEF vars, sharedVars, ecsVars,
       statusVars, Counters, TokensAccounted, CapacityRespected, InFlight,
       HandingIn, Playing, Control, Handling, Typing, LockHeld, Threads,
       Locked, WebPc, EcsPc, Reservation
<1>36. QED
  BY <1>1, <1>2, <1>3, <1>4, <1>5, <1>6, <1>7, <1>8, <1>9, <1>10, <1>11, <1>12,
       <1>13, <1>14, <1>15, <1>16, <1>17, <1>18, <1>19, <1>20, <1>21, <1>22,
       <1>23, <1>24, <1>25, <1>26, <1>27, <1>28, <1>29, <1>30, <1>31, <1>32,
       <1>33, <1>34, <1>35
  DEF Next, WebStep, EcsStep

NonNegative == queued \in Nat /\ playing \in Nat

\* Counters that agree with sets of tokens are not negative.
LEMMA CountersNonNegative == Counters /\ Typing => NonNegative
  BY Counted DEF NonNegative

\* Between its two loads, what usage() has and what it is still to add cover
\* every spot that has been occupied all the time.
Status ==
    /\ floor \in Nat /\ report \in Nat
    /\ statusPc = "loaded" => floor <= report + playing
    /\ StatusCountsEveryone

\* The number of occupied spots is a natural number.
LEMMA OccupiedNat == Counters /\ Typing => Occupied \in Nat
  <1>1. Counters /\ Typing => HandingIn \in {0, 1} /\ playing >= HandingIn
    BY PlayingFinite DEF Counters, TokensAccounted, HandingIn
  <1>2. QED
    BY <1>1, Counted DEF Occupied, HandingIn

\* No status request runs at the start.
LEMMA StatusInit == Init => Status
  BY DEF Init, Status, StatusCountsEveryone

\* Whatever happens between the two loads of usage(), no spot is missed.
LEMMA StatusStep == Status /\ Typing /\ Counters /\ NonNegative /\ Typing' /\
     Counters' /\ NonNegative' /\ [Next]_vars => Status'
<1>1. SUFFICES ASSUME Status, Typing, Counters, NonNegative, Typing',
     Counters', NonNegative', [Next]_vars PROVE Status'
  OBVIOUS
<1>2. ASSUME NEW w \in Web, NEW u \in Users, handle_spot_request(w, u) PROVE
     Status'
  BY <1>1, <1>2 DEF handle_spot_request, GoTo, sharedVars, ecsVars, statusVars,
       Status, StatusCountsEveryone, NonNegative, Typing
<1>3. ASSUME NEW w \in Web, FetchUser(w) PROVE Status'
  BY <1>1, <1>3 DEF FetchUser, GoTo, sharedVars, ecsVars, statusVars, Status,
       StatusCountsEveryone, NonNegative, Typing
<1>4. ASSUME NEW w \in Web, InsertUser(w) PROVE Status'
  BY <1>1, <1>4 DEF InsertUser, GoTo, Respond, sharedVars, ecsVars, statusVars,
       Status, StatusCountsEveryone, NonNegative, Typing
<1>5. ASSUME NEW w \in Web, FetchFails(w) PROVE Status'
  BY <1>1, <1>5 DEF FetchFails, Respond, GoTo, sharedVars, ecsVars, statusVars,
       Status, StatusCountsEveryone, NonNegative, Typing
<1>6. ASSUME NEW w \in Web, reserve_spot(w) PROVE Status'
  BY <1>1, <1>6 DEF reserve_spot, cleanup_registrations, GoTo, sharedVars,
       ecsVars, statusVars, Status, StatusCountsEveryone, NonNegative, Typing
<1>7. ASSUME NEW w \in Web, NEW r \in stale, DropStale(w, r) PROVE Status'
  BY <1>1, <1>7 DEF DropStale, DropQueueToken, ReleaseSpot, sharedVars,
       ecsVars, statusVars, Status, StatusCountsEveryone, NonNegative, Typing
<1>8. ASSUME NEW w \in Web, CleanedUp(w) PROVE Status'
  BY <1>1, <1>8 DEF CleanedUp, GoTo, sharedVars, ecsVars, statusVars, Status,
       StatusCountsEveryone, NonNegative, Typing
<1>9. ASSUME NEW w \in Web, CheckReservation(w) PROVE Status'
  BY <1>1, <1>9 DEF CheckReservation, AlreadyHasReservation, Respond, GoTo,
       Release, sharedVars, ecsVars, statusVars, Status, StatusCountsEveryone,
       NonNegative, Typing
<1>10. ASSUME NEW w \in Web, LoadQueued(w) PROVE Status'
  BY <1>1, <1>10 DEF LoadQueued, GoTo, Counter, sharedVars, ecsVars,
       statusVars, Status, StatusCountsEveryone, NonNegative, Typing
<1>11. ASSUME NEW w \in Web, LoadPlaying(w) PROVE Status'
  BY <1>1, <1>11 DEF LoadPlaying, GoTo, Counter, sharedVars, ecsVars,
       statusVars, Status, StatusCountsEveryone, NonNegative, Typing
<1>12. ASSUME NEW w \in Web, NoSpotsAvailable(w) PROVE Status'
  BY <1>1, <1>12 DEF NoSpotsAvailable, Respond, GoTo, Release, sharedVars,
       ecsVars, statusVars, Status, StatusCountsEveryone, NonNegative, Typing
<1>13. ASSUME NEW w \in Web, add_queue(w) PROVE Status'
  BY <1>1, <1>13 DEF add_queue, GoTo, sharedVars, ecsVars, statusVars, Status,
       StatusCountsEveryone, NonNegative, Typing
<1>14. ASSUME NEW w \in Web, NEW t \in Tokens, PickToken(w, t) PROVE Status'
  BY <1>1, <1>14 DEF PickToken, Respond, GoTo, Release, Taken, sharedVars,
       ecsVars, statusVars, Status, StatusCountsEveryone, NonNegative, Typing
<1>15. ASSUME NEW w \in Web, AllTokensTaken(w) PROVE Status'
  BY <1>1, <1>15 DEF AllTokensTaken, Respond, GoTo, Release, DropQueueToken,
       ReleaseSpot, sharedVars, ecsVars, statusVars, Status,
       StatusCountsEveryone, NonNegative, Typing
<1>16. ASSUME NEW c \in Clients, NEW t \in Tokens, receive_login_inputs(c, t)
     PROVE Status'
  BY <1>1, <1>16 DEF receive_login_inputs, sharedVars, ecsVars, statusVars,
       Status, StatusCountsEveryone, NonNegative, Typing
<1>17. ASSUME NEW c \in Clients, Disconnects(c) PROVE Status'
  BY <1>1, <1>17 DEF Disconnects, sharedVars, ecsVars, statusVars, Status,
       StatusCountsEveryone, NonNegative, Typing
<1>18. ASSUME InputsReceived PROVE Status'
  BY <1>1, <1>18 DEF InputsReceived, GoTo, sharedVars, ecsVars, statusVars,
       Status, StatusCountsEveryone, NonNegative, Typing
<1>19. ASSUME NEW c \in Clients, accept(c) PROVE Status'
  BY <1>1, <1>19 DEF accept, sharedVars, ecsVars, statusVars, Status,
       StatusCountsEveryone, NonNegative, Typing
<1>20. ASSUME NEW c \in Clients, disconnected(c) PROVE Status'
  <2>1. CASE session[c] = "playing"
    BY <1>1, <1>20, <2>1 DEF disconnected, DropPlayingToken, ReleaseSpot,
         Status, StatusCountsEveryone, NonNegative, Typing
  <2>2. CASE session[c] # "playing"
    BY <1>1, <1>20, <2>2 DEF disconnected, DropPlayingToken, ReleaseSpot,
         Status, StatusCountsEveryone, NonNegative, Typing
  <2>3. QED
    BY <2>1, <2>2
<1>21. ASSUME handle_auth PROVE Status'
  BY <1>1, <1>21 DEF handle_auth, GoTo, sharedVars, ecsVars, statusVars,
       Status, StatusCountsEveryone, NonNegative, Typing
<1>22. ASSUME NEW c \in Clients, hand_in_reservation(c) PROVE Status'
  BY <1>1, <1>22 DEF hand_in_reservation, cleanup_registrations, GoTo,
       sharedVars, ecsVars, statusVars, Status, StatusCountsEveryone,
       NonNegative, Typing
<1>23. ASSUME NEW r \in stale, DropStale(Ecs, r) PROVE Status'
  BY <1>1, <1>23 DEF DropStale, DropQueueToken, ReleaseSpot, sharedVars,
       ecsVars, statusVars, Status, StatusCountsEveryone, NonNegative, Typing
<1>24. ASSUME CleanedUp(Ecs) PROVE Status'
  BY <1>1, <1>24 DEF CleanedUp, GoTo, sharedVars, ecsVars, statusVars, Status,
       StatusCountsEveryone, NonNegative, Typing
<1>25. ASSUME NoSuchToken PROVE Status'
  BY <1>1, <1>25 DEF NoSuchToken, GoTo, Release, NextEntity, Taken, sharedVars,
       ecsVars, statusVars, Status, StatusCountsEveryone, NonNegative, Typing
<1>26. ASSUME FoundReservation PROVE Status'
  BY <1>1, <1>26 DEF FoundReservation, GoTo, Taken, sharedVars, ecsVars,
       statusVars, Status, StatusCountsEveryone, NonNegative, Typing
<1>27. ASSUME add_playing PROVE Status'
  BY <1>1, <1>27 DEF add_playing, GoTo, sharedVars, ecsVars, statusVars,
       Status, StatusCountsEveryone, NonNegative, Typing
<1>28. ASSUME NEW r \in reservations, RemoveReservation(r) PROVE Status'
  BY <1>1, <1>28 DEF RemoveReservation, DropQueueToken, EndLoop, GoTo, Release,
       sharedVars, ecsVars, statusVars, Status, StatusCountsEveryone,
       NonNegative, Typing
<1>29. ASSUME UpdateDone PROVE Status'
  BY <1>1, <1>29 DEF UpdateDone, GoTo, sharedVars, ecsVars, statusVars, Status,
       StatusCountsEveryone, NonNegative, Typing
<1>30. ASSUME reset PROVE Status'
  BY <1>1, <1>30 DEF reset, GoTo, sharedVars, ecsVars, statusVars, Status,
       StatusCountsEveryone, NonNegative, Typing
<1>31. ASSUME UsageLoadQueued PROVE Status'
  <2>1. Occupied \in Nat /\ Occupied <= queued + playing
    BY <1>1, OccupiedNat DEF Occupied, NonNegative
  <2>2. QED
    BY <1>1, <1>31, <2>1 DEF UsageLoadQueued, Counter, sharedVars, Status,
         StatusCountsEveryone, NonNegative, Typing
<1>32. ASSUME UsageLoadPlaying PROVE Status'
  BY <1>1, <1>32 DEF UsageLoadPlaying, Counter, sharedVars, ecsVars,
       statusVars, Status, StatusCountsEveryone, NonNegative, Typing
<1>33. ASSUME handle_capacity PROVE Status'
  BY <1>1, <1>33 DEF handle_capacity, sharedVars, ecsVars, statusVars, Status,
       StatusCountsEveryone, NonNegative, Typing
<1>34. ASSUME Tick PROVE Status'
  BY <1>1, <1>34 DEF Tick, Older, sharedVars, ecsVars, statusVars, Status,
       StatusCountsEveryone, NonNegative, Typing
<1>35. CASE UNCHANGED vars
  BY <1>1, <1>35 DEF vars, sharedVars, ecsVars, statusVars, Status,
       StatusCountsEveryone, NonNegative, Typing
<1>36. QED
  BY <1>1, <1>2, <1>3, <1>4, <1>5, <1>6, <1>7, <1>8, <1>9, <1>10, <1>11, <1>12,
       <1>13, <1>14, <1>15, <1>16, <1>17, <1>18, <1>19, <1>20, <1>21, <1>22,
       <1>23, <1>24, <1>25, <1>26, <1>27, <1>28, <1>29, <1>30, <1>31, <1>32,
       <1>33, <1>34, <1>35
  DEF Next, WebStep, EcsStep

-----------------------------------------------------------------------------
(* The layers together. *)
Inv == Typing /\ LockHeld /\ Control /\ Spots /\ Grants /\ Dropped /\ Counters
       /\ NonNegative /\ Status

\* The inductive invariant holds in every reachable state.
THEOREM Invariance == Spec => []Inv
<1>1. Spec => [](Typing /\ LockHeld)
  BY TypingInit, TypingStep, PTL DEF Spec
<1>2. Spec => []Control
  BY <1>1, ControlInit, ControlStep, PTL DEF Spec
<1>3. Spec => []Spots
  BY <1>1, <1>2, SpotsInit, SpotsStep, PTL DEF Spec
<1>4. Spec => []Grants
  BY <1>1, <1>2, GrantsInit, GrantsStep, PTL DEF Spec
<1>5. Spec => []Dropped
  BY <1>1, <1>2, DroppedInit, DroppedStep, PTL DEF Spec
<1>6. Spec => []Counters
  BY <1>1, <1>2, CountersInit, CountersStep, PTL DEF Spec
<1>7. Spec => []NonNegative
  BY <1>1, <1>6, CountersNonNegative, PTL
<1>8. Spec => []Status
  BY <1>1, <1>6, <1>7, StatusInit, StatusStep, PTL DEF Spec
<1>9. QED
  BY <1>1, <1>2, <1>3, <1>4, <1>5, <1>6, <1>7, <1>8, PTL DEF Inv

\* Every variable keeps its type; in particular the two counters never fall
\* below zero, where the AtomicU16 would wrap (capacity.rs, the two Drops).
THEOREM TypeCorrect == Spec => []TypeOK
<1>1. Inv => TypeOK
  BY DEF Inv, Typing, Control, NonNegative, Counters, Status, TypeOK
<1>2. QED
  BY <1>1, Invariance, PTL

\* The mutex has one holder, and whoever is in a critical section is it.
THEOREM MutexCorrect == Spec => []LockHeld
  BY Invariance, PTL DEF Inv

\* No two reservations share an account or a token, however many requests of
\* one account run at the same time.
THEOREM OneSpotPerUserCorrect == Spec => []OneSpotPerUser
<1>1. Inv => OneSpotPerUser
  BY DEF Inv, Spots
<1>2. QED
  BY <1>1, Invariance, PTL

\* The counters agree with the tokens that exist, on every path.
THEOREM TokensAccountedCorrect == Spec => []TokensAccounted
<1>1. Inv => TokensAccounted
  BY DEF Inv, Counters
<1>2. QED
  BY <1>1, Invariance, PTL

\* The server never promises or seats more than max_player_count.
THEOREM CapacityCorrect == Spec => [](CapacityRespected /\ NoUnderflow)
<1>1. Inv => CapacityRespected /\ NoUnderflow
  BY DEF Inv, Counters, NoUnderflow
<1>2. QED
  BY <1>1, Invariance, PTL

\* A reservation outlives the promise given to its holder.
THEOREM GrantCorrect == Spec => []GrantHonoured
<1>1. Inv => GrantHonoured
  BY DEF Inv, Grants
<1>2. QED
  BY <1>1, Invariance, PTL

\* GET /status counts everyone who is there while it runs.
THEOREM StatusCorrect == Spec => []StatusCountsEveryone
<1>1. Inv => StatusCountsEveryone
  BY DEF Inv, Status
<1>2. QED
  BY <1>1, Invariance, PTL

\* Only an admission makes the game loop drop an AuthRequest.
THEOREM UnansweredCorrect == Spec => []UnansweredOnlyBehindAdmission
<1>1. Inv => UnansweredOnlyBehindAdmission
  BY DEF Inv, Dropped, UnansweredOnlyBehindAdmission
<1>2. QED
  BY <1>1, Invariance, PTL

-----------------------------------------------------------------------------
(* LoginQueue implements Admission. *)

\* The server starts as Admission does.
LEMMA RefinementInit == Init => A!Init
  BY DEF Init, A!Init, Playing

\* Admission's own copy of Cardinality is the same operator.
LEMMA SameCardinality == \A S : A!Cardinality(S) = Cardinality(S)
  BY ZenonT(30) DEF Cardinality, A!Cardinality

\* Pushing a reservation is Admission's Reserve: the account and the token are
\* free and there is a spot.
LEMMA Reserves ==
    ASSUME Inv, NEW w \in Web, NEW t \in Tokens, PickToken(w, t)
    PROVE  A!Reserve(asker[w], t) /\ asker[w] \in Users
  <1>1. /\ pc[w] = "pick" /\ t \notin Taken /\ session' = session
        /\ reservations' = reservations \cup {[user |-> asker[w], token |-> t]}
        /\ ttl' = [ttl EXCEPT ![t] = ValidTime]
    BY DEF PickToken, ecsVars
  <1>2. \A r \in reservations : r.user # asker[w] /\ r.token # t
    BY <1>1 DEF Inv, Spots, Taken
  <1>3. InFlight = 1 /\ HandingIn = 0
    BY <1>1, Alone, ConstantsAssumption DEF Inv, InFlight, HandingIn, Locked, Threads
  <1>4. Cardinality(reservations) + Cardinality(Playing) < Max
    BY <1>3, Counted, PlayingFinite, ConstantsAssumption
    DEF Inv, Counters, TokensAccounted, CapacityRespected
  <1>5. Playing' = Playing
    BY <1>1 DEF Playing
  <1>6. asker[w] \in Users
    BY <1>1 DEF Inv, Typing
  <1>7. QED
    BY <1>1, <1>2, <1>4, <1>5, <1>6, SameCardinality DEF A!Reserve

\* What retain() drops has expired in Admission's sense.
LEMMA Expires ==
    ASSUME Inv, NEW t \in Threads, NEW r \in stale, DropStale(t, r)
    PROVE  r \in reservations /\ A!Expire(r)
  <1>1. r \in reservations /\ ttl[r.token] = 0
    BY DEF Inv, Control, Grants
  <1>2. reservations' = reservations \ {r} /\ ttl' = ttl /\ session' = session
    BY DEF DropStale, ecsVars
  <1>3. QED
    BY <1>1, <1>2 DEF A!Expire, Playing

\* Removing the reservation and accepting the client is one HandIn.
LEMMA HandsIn ==
    ASSUME Inv, NEW r \in reservations, RemoveReservation(r)
    PROVE  current \in Clients /\ A!HandIn(r, current)
  <1>1. /\ pc[Ecs] = "dropQueue" /\ reservations' = reservations \ {r} /\ ttl' = ttl
        /\ session' = [session EXCEPT ![current] = "playing"]
    BY DEF RemoveReservation
  <1>2. current \in Clients /\ session[current] = "login"
    BY <1>1 DEF Inv, Control, Handling
  <1>3. Playing' = Playing \cup {current} /\ current \notin Playing
    BY <1>1, <1>2 DEF Inv, Typing, Playing
  <1>4. QED
    BY <1>1, <1>2, <1>3 DEF A!HandIn

\* Despawning an entity frees its seat if it has one.
LEMMA Leaves ==
    ASSUME Inv, NEW c \in Clients, disconnected(c)
    PROVE  A!Leave(c) \/ UNCHANGED <<reservations, ttl, Playing>>
  <1>1. /\ reservations' = reservations /\ ttl' = ttl
        /\ session' = [session EXCEPT ![c] = "absent"]
    BY DEF disconnected
  <1>2. Playing' = Playing \ {c}
    BY <1>1 DEF Inv, Typing, Playing
  <1>3. QED
    BY <1>1, <1>2 DEF A!Leave

\* Every step is a step of Admission or changes nothing Admission can see.
LEMMA RefinementStep == Inv /\ [Next]_vars => [A!Next]_<<reservations, ttl,
     Playing>>
<1> DEFINE Stutters == UNCHANGED <<reservations, ttl, Playing>>
<1>1. SUFFICES ASSUME Inv, [Next]_vars PROVE A!Next \/ Stutters
  OBVIOUS
<1>2. ASSUME NEW w \in Web, NEW u \in Users, handle_spot_request(w, u) PROVE
     A!Next \/ Stutters
  BY <1>2 DEF handle_spot_request, sharedVars, ecsVars, Playing
<1>3. ASSUME NEW w \in Web, FetchUser(w) PROVE A!Next \/ Stutters
  BY <1>3 DEF FetchUser, sharedVars, ecsVars, Playing
<1>4. ASSUME NEW w \in Web, InsertUser(w) PROVE A!Next \/ Stutters
  BY <1>4 DEF InsertUser, sharedVars, ecsVars, Playing
<1>5. ASSUME NEW w \in Web, FetchFails(w) PROVE A!Next \/ Stutters
  BY <1>5 DEF FetchFails, sharedVars, ecsVars, Playing
<1>6. ASSUME NEW w \in Web, reserve_spot(w) PROVE A!Next \/ Stutters
  BY <1>6 DEF reserve_spot, sharedVars, ecsVars, Playing
<1>7. ASSUME NEW w \in Web, NEW r \in stale, DropStale(w, r) PROVE A!Next \/
     Stutters
  BY <1>1, <1>7, Expires DEF A!Next, Threads
<1>8. ASSUME NEW w \in Web, CleanedUp(w) PROVE A!Next \/ Stutters
  BY <1>8 DEF CleanedUp, sharedVars, ecsVars, Playing
<1>9. ASSUME NEW w \in Web, CheckReservation(w) PROVE A!Next \/ Stutters
  BY <1>9 DEF CheckReservation, sharedVars, ecsVars, Playing
<1>10. ASSUME NEW w \in Web, LoadQueued(w) PROVE A!Next \/ Stutters
  BY <1>10 DEF LoadQueued, sharedVars, ecsVars, Playing
<1>11. ASSUME NEW w \in Web, LoadPlaying(w) PROVE A!Next \/ Stutters
  BY <1>11 DEF LoadPlaying, sharedVars, ecsVars, Playing
<1>12. ASSUME NEW w \in Web, NoSpotsAvailable(w) PROVE A!Next \/ Stutters
  BY <1>12 DEF NoSpotsAvailable, sharedVars, ecsVars, Playing
<1>13. ASSUME NEW w \in Web, add_queue(w) PROVE A!Next \/ Stutters
  BY <1>13 DEF add_queue, sharedVars, ecsVars, Playing
<1>14. ASSUME NEW w \in Web, NEW t \in Tokens, PickToken(w, t) PROVE A!Next \/
     Stutters
  BY <1>1, <1>14, Reserves DEF A!Next
<1>15. ASSUME NEW w \in Web, AllTokensTaken(w) PROVE A!Next \/ Stutters
  BY <1>15 DEF AllTokensTaken, sharedVars, ecsVars, Playing
<1>16. ASSUME NEW c \in Clients, NEW t \in Tokens, receive_login_inputs(c, t)
     PROVE A!Next \/ Stutters
  BY <1>16 DEF receive_login_inputs, sharedVars, ecsVars, Playing
<1>17. ASSUME NEW c \in Clients, Disconnects(c) PROVE A!Next \/ Stutters
  BY <1>17 DEF Disconnects, sharedVars, ecsVars, Playing
<1>18. ASSUME InputsReceived PROVE A!Next \/ Stutters
  BY <1>18 DEF InputsReceived, sharedVars, ecsVars, Playing
<1>19. ASSUME NEW c \in Clients, accept(c) PROVE A!Next \/ Stutters
  BY <1>1, <1>19 DEF accept, sharedVars, Playing, Inv, Typing
<1>20. ASSUME NEW c \in Clients, disconnected(c) PROVE A!Next \/ Stutters
  BY <1>1, <1>20, Leaves DEF A!Next
<1>21. ASSUME handle_auth PROVE A!Next \/ Stutters
  BY <1>21 DEF handle_auth, sharedVars, ecsVars, Playing
<1>22. ASSUME NEW c \in Clients, hand_in_reservation(c) PROVE A!Next \/
     Stutters
  BY <1>22 DEF hand_in_reservation, sharedVars, ecsVars, Playing
<1>23. ASSUME NEW r \in stale, DropStale(Ecs, r) PROVE A!Next \/ Stutters
  BY <1>1, <1>23, Expires DEF A!Next, Threads
<1>24. ASSUME CleanedUp(Ecs) PROVE A!Next \/ Stutters
  BY <1>24 DEF CleanedUp, sharedVars, ecsVars, Playing
<1>25. ASSUME NoSuchToken PROVE A!Next \/ Stutters
  BY <1>25 DEF NoSuchToken, sharedVars, ecsVars, Playing
<1>26. ASSUME FoundReservation PROVE A!Next \/ Stutters
  BY <1>26 DEF FoundReservation, sharedVars, ecsVars, Playing
<1>27. ASSUME add_playing PROVE A!Next \/ Stutters
  BY <1>27 DEF add_playing, sharedVars, ecsVars, Playing
<1>28. ASSUME NEW r \in reservations, RemoveReservation(r) PROVE A!Next \/
     Stutters
  BY <1>1, <1>28, HandsIn DEF A!Next
<1>29. ASSUME UpdateDone PROVE A!Next \/ Stutters
  BY <1>29 DEF UpdateDone, sharedVars, ecsVars, Playing
<1>30. ASSUME reset PROVE A!Next \/ Stutters
  BY <1>30 DEF reset, sharedVars, ecsVars, Playing
<1>31. ASSUME UsageLoadQueued PROVE A!Next \/ Stutters
  BY <1>31 DEF UsageLoadQueued, sharedVars, ecsVars, Playing
<1>32. ASSUME UsageLoadPlaying PROVE A!Next \/ Stutters
  BY <1>32 DEF UsageLoadPlaying, sharedVars, ecsVars, Playing
<1>33. ASSUME handle_capacity PROVE A!Next \/ Stutters
  BY <1>33 DEF handle_capacity, sharedVars, ecsVars, Playing
<1>34. ASSUME Tick PROVE A!Next \/ Stutters
  BY <1>34 DEF Tick, Older, ecsVars, Playing, A!Next, A!Pass
<1>35. CASE UNCHANGED vars
  BY <1>35 DEF vars, sharedVars, ecsVars, Playing
<1>36. QED
  BY <1>1, <1>2, <1>3, <1>4, <1>5, <1>6, <1>7, <1>8, <1>9, <1>10, <1>11, <1>12,
       <1>13, <1>14, <1>15, <1>16, <1>17, <1>18, <1>19, <1>20, <1>21, <1>22,
       <1>23, <1>24, <1>25, <1>26, <1>27, <1>28, <1>29, <1>30, <1>31, <1>32,
       <1>33, <1>34, <1>35
  DEF Next, WebStep, EcsStep

\* The threads, atomics and mutex implement Admission: what a client can see of
\* them is reservations and seats granted, used and given up one at a time.
THEOREM Refinement == Spec => RefinesAdmission
<1>1. Spec => [][A!Next]_<<reservations, ttl, Playing>>
  BY Invariance, RefinementStep, PTL DEF Spec
<1>2. QED
  BY <1>1, RefinementInit, PTL DEF Spec, RefinesAdmission, A!Spec

-----------------------------------------------------------------------------
(* Character selection, which a client comes to once it is admitted.  Its  *)
(* state is its own; its connections are clients that were admitted.       *)

Lists == UNION {[D -> Entry] : D \in SUBSET Nat}
TaskRecord ==
    [client : Connections, kind : Kinds, name : Names \cup {NoName}, step : 0..1,
     state : {"running", "done", "dead"}, row : Nat, list : Lists, ok : BOOLEAN,
     checked : BOOLEAN, complete : SUBSET Nat]

SelectTyped ==
    /\ rows \in Seq(Row) /\ Len(rows) <= MaxRows /\ now \in 1..MaxTime
    /\ tasks \in Seq(TaskRecord) /\ \A t \in DOMAIN tasks : tasks[t].kind # "list" => tasks[t].name \in Names
    /\ select \in [Connections -> [list : Lists, checked : Names \cup {NoName}]]
    /\ receiver \in [Connections -> [Kinds -> 0..Len(tasks)]]
    /\ joined \in [Connections -> 0..MaxRows]

\* What a client is shown, or is about to be, is a character of its own.
Mine(c, entry) == entry.row \in DOMAIN rows /\ Owns(c, entry.row) /\ rows[entry.row].name = entry.name
ShownOwn ==
    /\ \A t \in DOMAIN tasks : \A k \in DOMAIN tasks[t].list : Mine(tasks[t].client, tasks[t].list[k])
    /\ \A c \in Connections : \A k \in DOMAIN select[c].list : Mine(c, select[c].list[k])
    /\ \A c \in Connections : joined[c] # 0 => joined[c] \in DOMAIN rows /\ Owns(c, joined[c])
\* A receiver is held by the client that sent the request, under its kind.
Addressed ==
    \A c \in Connections, kind \in Kinds : receiver[c][kind] # 0 =>
       tasks[receiver[c][kind]].client = c /\ tasks[receiver[c][kind]].kind = kind
\* A creation that has come as far as the items has a row, and one that is done has both.
Creating ==
    \A t \in DOMAIN tasks : tasks[t].kind = "create" =>
       /\ tasks[t].step = 1 => tasks[t].row \in DOMAIN rows /\ Owns(tasks[t].client, tasks[t].row)
       /\ tasks[t].state = "done" => tasks[t].step = 1 /\ rows[tasks[t].row].equipped
\* Only what somebody asked to delete has a time at which it is.
Undeleted == \A i \in DOMAIN rows : ~EverDeleted(i) => rows[i].deletion = 0
\* Characters that were complete stay so, and are read by the first statement of a list.
Complete ==
    \A t \in DOMAIN tasks :
       /\ \A i \in tasks[t].complete : i \in DOMAIN rows /\ rows[i].equipped
       /\ tasks[t].kind = "list" /\ (tasks[t].step = 1 \/ tasks[t].state = "done") =>
            \A i \in tasks[t].complete : Owns(tasks[t].client, i) /\ ~EverDeleted(i) =>
               \E k \in DOMAIN tasks[t].list : tasks[t].list[k].row = i /\ (tasks[t].state = "done" => tasks[t].list[k].equipped)

SelectInv == SelectTyped /\ ShownOwn /\ Addressed /\ Creating /\ Undeleted /\ Complete

\* The table and the tasks are sequences.
LEMMA SelectSeqs ==
    ASSUME SelectTyped
    PROVE  /\ Len(rows) \in Nat /\ DOMAIN rows = 1..Len(rows) /\ \A i \in DOMAIN rows : rows[i] \in Row
           /\ Len(tasks) \in Nat /\ DOMAIN tasks = 1..Len(tasks) /\ \A t \in DOMAIN tasks : tasks[t] \in TaskRecord
<1>1. rows \in Seq(Row) /\ tasks \in Seq(TaskRecord)
  BY DEF SelectTyped
<1>2. QED
  BY <1>1, LenProperties, ElementOfSeq

\* Rows stay, with their owners and names, and once equipped they are.
Grows ==
    /\ rows' \in Seq(Row) /\ Len(rows) <= Len(rows') /\ Len(rows') <= MaxRows
    /\ \A i \in DOMAIN rows : /\ rows'[i].user = rows[i].user /\ rows'[i].name = rows[i].name
                              /\ rows[i].equipped => rows'[i].equipped

\* Owners and names do not change.
LEMMA RowsStay ==
    ASSUME SelectTyped, Grows
    PROVE  /\ DOMAIN rows \subseteq DOMAIN rows' /\ Len(rows') \in Nat /\ DOMAIN rows' = 1..Len(rows')
           /\ \A c : \A i \in DOMAIN rows : Owns(c, i)' <=> Owns(c, i)
           /\ \A c, entry : Mine(c, entry) => Mine(c, entry)'
<1>1. Len(rows') \in Nat /\ DOMAIN rows' = 1..Len(rows') /\ Len(rows) <= Len(rows')
  BY LenProperties DEF Grows
<1>2. DOMAIN rows \subseteq DOMAIN rows'
  BY <1>1, SelectSeqs
<1>3. \A c : \A i \in DOMAIN rows : Owns(c, i)' <=> Owns(c, i)
  BY DEF Grows, Owns
<1>4. \A c, entry : Mine(c, entry) => Mine(c, entry)'
  BY <1>2, <1>3, Zenon DEF Mine, Grows
<1>5. QED
  BY <1>1, <1>2, <1>3, <1>4

\* The requests that were sent stay what they are.
Keeps ==
    /\ tasks' \in Seq(TaskRecord) /\ Len(tasks) <= Len(tasks')
    /\ \A t \in DOMAIN tasks : /\ tasks'[t].client = tasks[t].client /\ tasks'[t].kind = tasks[t].kind
                               /\ tasks'[t].name = tasks[t].name /\ tasks'[t].complete = tasks[t].complete

\* So does what was asked to be deleted.
LEMMA DeletedStays ==
    ASSUME SelectTyped, Grows, Keeps
    PROVE  \A i \in DOMAIN rows : EverDeleted(i) => EverDeleted(i)'
<1>1. DOMAIN tasks \subseteq DOMAIN tasks'
  BY SelectSeqs, LenProperties DEF Keeps
<1>2. QED
  BY <1>1, Zenon DEF Grows, Keeps, EverDeleted

\* A new request.
LEMMA Starts ==
    ASSUME SelectInv, NEW c \in Connections, NEW task \in TaskRecord, StartTask(c, task),
           task.client = c, task.step = 0, task.state = "running", DOMAIN task.list = {},
           task.complete = {i \in DOMAIN rows : rows[i].equipped}, task.kind # "list" => task.name \in Names,
           select' \in [Connections -> [list : Lists, checked : Names \cup {NoName}]],
           \A d \in Connections : select'[d].list = select[d].list
    PROVE  SelectInv'
<1> DEFINE n == Len(tasks) + 1
<1>1. tasks' = Append(tasks, task) /\ UNCHANGED <<rows, now, joined>> /\ receiver' = [receiver EXCEPT ![c][task.kind] = Len(tasks')]
  BY DEF StartTask
<1>2. SelectTyped
  BY DEF SelectInv
<1>3. Len(tasks) \in Nat /\ n \in Nat /\ DOMAIN tasks = 1..Len(tasks) /\ task.kind \in Kinds
  BY <1>2, SelectSeqs DEF TaskRecord
<1>4. /\ tasks' \in Seq(TaskRecord) /\ Len(tasks') = n
      /\ \A t \in DOMAIN tasks : tasks'[t] = tasks[t]
      /\ tasks'[n] = task
  BY <1>1, <1>2, <1>3, AppendProperties DEF SelectTyped
<1>5. DOMAIN tasks' = 1..n /\ DOMAIN tasks' = DOMAIN tasks \cup {n} /\ n \notin DOMAIN tasks
  BY <1>3, <1>4, LenProperties
<1>6. Grows /\ Keeps
  <2>1. Grows
    BY <1>1, <1>2 DEF Grows, SelectTyped
  <2>2. Keeps
    BY <1>3, <1>4 DEF Keeps
  <2>3. QED
    BY <2>1, <2>2
<1>7. SelectTyped'
  <2>1. receiver' \in [Connections -> [Kinds -> 0..n]]
    <3>1. receiver \in [Connections -> [Kinds -> 0..n]] /\ n \in 0..n
      <4>1. 0..Len(tasks) \subseteq 0..n /\ n \in 0..n
        BY <1>3
      <4>2. receiver \in [Connections -> [Kinds -> 0..Len(tasks)]]
        BY <1>2 DEF SelectTyped
      <4>3. QED
        BY <4>1, <4>2
    <3>2. QED
      BY <1>1, <1>3, <1>4, <3>1
  <2>2. \A t \in DOMAIN tasks' : tasks'[t].kind # "list" => tasks'[t].name \in Names
    BY <1>2, <1>4, <1>5 DEF SelectTyped
  <2>3. QED
    BY <1>1, <1>2, <1>4, <2>1, <2>2 DEF SelectTyped
<1>8. ShownOwn'
  <2>1. ASSUME NEW t \in DOMAIN tasks', NEW k \in DOMAIN tasks'[t].list PROVE Mine(tasks[t].client, tasks[t].list[k])'
    <3>1. t \in DOMAIN tasks /\ tasks'[t] = tasks[t]
      BY <1>4, <1>5, <2>1
    <3>2. Mine(tasks[t].client, tasks[t].list[k])
      BY <2>1, <3>1 DEF SelectInv, ShownOwn
    <3>3. QED
      BY <1>1, <3>1, <3>2 DEF Mine, Owns
  <2>2. ASSUME NEW d \in Connections PROVE /\ \A k \in DOMAIN select'[d].list : Mine(d, select[d].list[k])'
                                           /\ joined'[d] # 0 => joined'[d] \in DOMAIN rows' /\ Owns(d, joined[d])'
    BY <1>1 DEF SelectInv, ShownOwn, Mine, Owns
  <2>3. \A t \in DOMAIN tasks' : \A k \in DOMAIN tasks'[t].list : Mine(tasks[t].client, tasks[t].list[k])'
    BY <2>1
  <2>4. \A d \in Connections : \A k \in DOMAIN select'[d].list : Mine(d, select[d].list[k])'
    BY <2>2
  <2>5. \A d \in Connections : joined'[d] # 0 => joined'[d] \in DOMAIN rows' /\ Owns(d, joined[d])'
    BY <2>2
  <2>6. QED
    BY <2>3, <2>4, <2>5 DEF ShownOwn
<1>9. Addressed'
  <2>1. SUFFICES ASSUME NEW d \in Connections, NEW kind \in Kinds, receiver'[d][kind] # 0
                 PROVE  tasks'[receiver'[d][kind]].client = d /\ tasks'[receiver'[d][kind]].kind = kind
    BY DEF Addressed
  <2>2. receiver \in [Connections -> [Kinds -> 0..Len(tasks)]]
    BY <1>2 DEF SelectTyped
  <2>3. CASE d = c /\ kind = task.kind
    BY <1>1, <1>4, <2>2, <2>3
  <2>4. CASE ~(d = c /\ kind = task.kind)
    <3>1. receiver'[d][kind] = receiver[d][kind]
      BY <1>1, <2>2, <2>4
    <3>2. receiver[d][kind] \in DOMAIN tasks
      BY <1>3, <2>1, <2>2, <3>1
    <3>3. QED
      BY <1>4, <2>1, <3>1, <3>2 DEF SelectInv, Addressed
  <2>5. QED
    BY <2>3, <2>4
<1>10. Creating'
  <2>1. SUFFICES ASSUME NEW t \in DOMAIN tasks', tasks'[t].kind = "create"
                 PROVE  /\ tasks'[t].step = 1 => tasks'[t].row \in DOMAIN rows' /\ Owns(tasks[t].client, tasks[t].row)'
                        /\ tasks'[t].state = "done" => tasks'[t].step = 1 /\ rows'[tasks'[t].row].equipped
    BY DEF Creating
  <2>2. CASE t \in DOMAIN tasks
    BY <1>1, <1>4, <2>1, <2>2 DEF SelectInv, Creating, Owns
  <2>3. CASE t = n
    BY <1>4, <2>3
  <2>4. QED
    BY <1>5, <2>2, <2>3
<1>11. Undeleted'
  <2>1. \A i \in DOMAIN rows : EverDeleted(i) => EverDeleted(i)'
    BY <1>2, <1>6, DeletedStays
  <2>2. QED
    BY <1>1, <2>1 DEF SelectInv, Undeleted
<1>12. Complete'
  <2>1. SUFFICES ASSUME NEW t \in DOMAIN tasks'
                 PROVE /\ \A i \in tasks'[t].complete : i \in DOMAIN rows' /\ rows'[i].equipped
                       /\ tasks'[t].kind = "list" /\ (tasks'[t].step = 1 \/ tasks'[t].state = "done") =>
                            \A i \in tasks'[t].complete : Owns(tasks[t].client, i)' /\ ~EverDeleted(i)' =>
                               \E k \in DOMAIN tasks'[t].list : tasks'[t].list[k].row = i /\ (tasks'[t].state = "done" => tasks'[t].list[k].equipped)
    BY DEF Complete
  <2>2. CASE t = n
    BY <1>1, <1>4, <2>2
  <2>3. CASE t \in DOMAIN tasks
    <3>1. tasks'[t] = tasks[t]
      BY <1>4, <2>3
    <3>2. \A i \in tasks[t].complete : i \in DOMAIN rows /\ rows[i].equipped
      BY <2>3 DEF SelectInv, Complete
    <3>3. \A i \in DOMAIN rows : /\ EverDeleted(i) => EverDeleted(i)'
                                 /\ Owns(tasks[t].client, i)' => Owns(tasks[t].client, i)
      BY <1>1, <1>2, <1>6, <3>1, DeletedStays DEF Owns
    <3>4. QED
      BY <1>1, <2>3, <3>1, <3>2, <3>3 DEF SelectInv, Complete
  <2>4. QED
    BY <1>5, <2>2, <2>3
<1>13. QED
  BY <1>7, <1>8, <1>9, <1>10, <1>11, <1>12 DEF SelectInv

\* Only a deletion sets the time of a character's end.
Spared(task) ==
    \A i \in DOMAIN rows' :
       \/ rows'[i].deletion = 0
       \/ i \in DOMAIN rows /\ rows'[i].deletion = rows[i].deletion
       \/ i \in DOMAIN rows /\ task.kind = "delete" /\ task.name = rows[i].name

\* A creation has the row it needs by now, and a list the characters.
Made(task) == task.kind = "create" =>
    /\ task.step = 1 => task.row \in DOMAIN rows' /\ rows'[task.row].user = UserOf[task.client]
    /\ task.state = "done" => task.step = 1 /\ rows'[task.row].equipped
ListedSoFar(task) == task.kind = "list" /\ (task.step = 1 \/ task.state = "done") =>
    \A i \in task.complete : Owns(task.client, i) /\ ~EverDeleted(i) =>
       \E k \in DOMAIN task.list : task.list[k].row = i /\ (task.state = "done" => task.list[k].equipped)

\* A task goes on: what has to be shown of it, and of the rows it writes.
LEMMA GoesOn ==
    ASSUME SelectInv, NEW t \in DOMAIN tasks, NEW new \in TaskRecord, tasks' = [tasks EXCEPT ![t] = new],
           new.client = tasks[t].client, new.kind = tasks[t].kind, new.name = tasks[t].name,
           new.complete = tasks[t].complete, Grows, UNCHANGED <<now, select, receiver, joined>>,
           \A k \in DOMAIN new.list : Mine(new.client, new.list[k])',
           Made(new), Spared(new), ListedSoFar(new)
    PROVE  SelectInv'
<1>1. SelectTyped
  BY DEF SelectInv
<1>2. Len(tasks) \in Nat /\ DOMAIN tasks = 1..Len(tasks)
  BY <1>1, SelectSeqs
<1>3. /\ tasks' \in Seq(TaskRecord) /\ Len(tasks') = Len(tasks) /\ DOMAIN tasks' = DOMAIN tasks
      /\ tasks'[t] = new /\ \A u \in DOMAIN tasks : u # t => tasks'[u] = tasks[u]
  <2>1. tasks \in Seq(TaskRecord) /\ t \in 1..Len(tasks)
    BY <1>1, <1>2 DEF SelectTyped
  <2>2. tasks' \in Seq(TaskRecord) /\ Len(tasks') = Len(tasks)
    BY <2>1, ExceptSeq
  <2>3. QED
    BY <2>1, <2>2
<1>4. Keeps
  BY <1>2, <1>3 DEF Keeps
<1>5. /\ DOMAIN rows \subseteq DOMAIN rows'
      /\ \A c : \A i \in DOMAIN rows : Owns(c, i)' <=> Owns(c, i)
      /\ \A c, entry : Mine(c, entry) => Mine(c, entry)'
  BY <1>1, RowsStay
<1>6. \A i \in DOMAIN rows : EverDeleted(i) => EverDeleted(i)'
  BY <1>1, <1>4, DeletedStays
<1>7. SelectTyped'
  <2>1. \A u \in DOMAIN tasks' : tasks'[u].kind # "list" => tasks'[u].name \in Names
    BY <1>1, <1>3, <1>4 DEF SelectTyped, Keeps
  <2>2. QED
    BY <1>1, <1>3, <2>1 DEF SelectTyped, Grows
<1>8. ShownOwn'
  <2>1. ASSUME NEW u \in DOMAIN tasks', NEW k \in DOMAIN tasks'[u].list PROVE Mine(tasks[u].client, tasks[u].list[k])'
    <3>1. CASE u = t
      BY <1>3, <2>1, <3>1 DEF Mine, Owns
    <3>2. CASE u # t
      <4>1. tasks'[u] = tasks[u] /\ u \in DOMAIN tasks
        BY <1>3, <3>2
      <4>2. Mine(tasks[u].client, tasks[u].list[k])
        BY <2>1, <4>1 DEF SelectInv, ShownOwn
      <4>3. PICK c, entry : c = tasks[u].client /\ entry = tasks[u].list[k] /\ Mine(c, entry)'
        BY <1>5, <4>2
      <4>4. QED
        BY <4>1, <4>3 DEF Mine, Owns
    <3>3. QED
      BY <3>1, <3>2
  <2>2. ASSUME NEW d \in Connections, NEW k \in DOMAIN select'[d].list PROVE Mine(d, select[d].list[k])'
    <3>1. PICK entry : entry = select[d].list[k] /\ Mine(d, entry)
      BY <2>2 DEF SelectInv, ShownOwn
    <3>2. Mine(d, entry)'
      BY <1>5, <3>1
    <3>3. QED
      BY <3>1, <3>2 DEF Mine, Owns
  <2>3. ASSUME NEW d \in Connections, joined'[d] # 0 PROVE joined'[d] \in DOMAIN rows' /\ Owns(d, joined[d])'
    <3>1. PICK i : i = joined[d] /\ i \in DOMAIN rows /\ Owns(d, i)
      BY <2>3 DEF SelectInv, ShownOwn
    <3>2. Owns(d, i)' /\ i \in DOMAIN rows'
      BY <1>5, <3>1
    <3>3. QED
      BY <3>1, <3>2 DEF Owns
  <2>4. QED
    BY <2>1, <2>2, <2>3 DEF ShownOwn
<1>9. Addressed'
  <2>1. SUFFICES ASSUME NEW d \in Connections, NEW kind \in Kinds, receiver'[d][kind] # 0
                 PROVE  tasks'[receiver'[d][kind]].client = d /\ tasks'[receiver'[d][kind]].kind = kind
    BY DEF Addressed
  <2>2. receiver[d][kind] \in DOMAIN tasks
    BY <1>1, <1>2, <2>1 DEF SelectTyped
  <2>3. QED
    BY <1>3, <2>1, <2>2 DEF SelectInv, Addressed
<1>10. Creating'
  <2>1. SUFFICES ASSUME NEW u \in DOMAIN tasks', tasks'[u].kind = "create"
                 PROVE  /\ tasks'[u].step = 1 => tasks'[u].row \in DOMAIN rows' /\ Owns(tasks[u].client, tasks[u].row)'
                        /\ tasks'[u].state = "done" => tasks'[u].step = 1 /\ rows'[tasks'[u].row].equipped
    BY DEF Creating
  <2>2. CASE u = t
    BY <1>3, <2>1, <2>2 DEF Owns, Made
  <2>3. CASE u # t
    <3>1. tasks'[u] = tasks[u] /\ u \in DOMAIN tasks
      BY <1>3, <2>3
    <3>2. /\ tasks[u].step = 1 => tasks[u].row \in DOMAIN rows /\ Owns(tasks[u].client, tasks[u].row)
          /\ tasks[u].state = "done" => tasks[u].step = 1 /\ rows[tasks[u].row].equipped
      BY <2>1, <3>1 DEF SelectInv, Creating
    <3>3. QED
      BY <1>5, <3>1, <3>2 DEF Grows, Owns
  <2>4. QED
    BY <2>2, <2>3
<1>11. Complete'
  <2>1. SUFFICES ASSUME NEW u \in DOMAIN tasks'
                 PROVE /\ \A i \in tasks'[u].complete : i \in DOMAIN rows' /\ rows'[i].equipped
                       /\ tasks'[u].kind = "list" /\ (tasks'[u].step = 1 \/ tasks'[u].state = "done") =>
                            \A i \in tasks'[u].complete : Owns(tasks[u].client, i)' /\ ~EverDeleted(i)' =>
                               \E k \in DOMAIN tasks'[u].list : tasks'[u].list[k].row = i /\ (tasks'[u].state = "done" => tasks'[u].list[k].equipped)
    BY DEF Complete
  <2>2. /\ u \in DOMAIN tasks /\ tasks'[u].complete = tasks[u].complete /\ tasks'[u].client = tasks[u].client
        /\ \A i \in tasks[u].complete : i \in DOMAIN rows /\ rows[i].equipped
    BY <1>3, <1>4 DEF SelectInv, Complete, Keeps
  <2>3. \A i \in tasks'[u].complete : i \in DOMAIN rows' /\ rows'[i].equipped
    BY <1>5, <2>2 DEF Grows
  <2>4. ASSUME NEW i \in tasks'[u].complete, Owns(tasks[u].client, i)', ~EverDeleted(i)'
        PROVE  Owns(tasks[u].client, i) /\ ~EverDeleted(i) /\ i \in tasks[u].complete
    <3>1. i \in DOMAIN rows /\ i \in tasks[u].complete
      BY <2>2
    <3>2. rows'[i].user = UserOf[tasks[u].client]
      BY <2>2, <2>4 DEF Owns
    <3>3. Owns(tasks[u].client, i)
      BY <3>1, <3>2 DEF Grows, Owns
    <3>4. QED
      BY <1>6, <2>4, <3>1, <3>3
  <2>5. CASE u = t
    BY <1>3, <2>3, <2>4, <2>5 DEF ListedSoFar
  <2>6. CASE u # t
    <3>1. tasks'[u] = tasks[u]
      BY <1>3, <2>2, <2>6
    <3>2. tasks[u].kind = "list" /\ (tasks[u].step = 1 \/ tasks[u].state = "done") =>
             \A i \in tasks[u].complete : Owns(tasks[u].client, i) /\ ~EverDeleted(i) =>
                \E k \in DOMAIN tasks[u].list : tasks[u].list[k].row = i /\ (tasks[u].state = "done" => tasks[u].list[k].equipped)
      BY <2>2 DEF SelectInv, Complete
    <3>3. QED
      BY <2>3, <2>4, <3>1, <3>2
  <2>7. QED
    BY <2>5, <2>6
<1>12. Undeleted'
  <2>1. SUFFICES ASSUME NEW i \in DOMAIN rows', ~EverDeleted(i)' PROVE rows'[i].deletion = 0
    BY DEF Undeleted
  <2>2. CASE i \in DOMAIN rows /\ new.kind = "delete" /\ new.name = rows[i].name
    <3>1. rows'[i].name = rows[i].name
      BY <2>2 DEF Grows
    <3>2. EverDeleted(i)'
      BY <1>3, <2>2, <3>1 DEF EverDeleted
    <3>3. QED
      BY <2>1, <3>2
  <2>3. CASE i \in DOMAIN rows /\ rows'[i].deletion = rows[i].deletion
    BY <1>6, <2>1, <2>3 DEF SelectInv, Undeleted
  <2>4. QED
    BY <2>1, <2>2, <2>3 DEF Spared
<1>13. QED
  BY <1>7, <1>8, <1>9, <1>10, <1>11, <1>12 DEF SelectInv

\* The table as it is grows.
LEMMA SameRows ==
    ASSUME SelectTyped, UNCHANGED rows
    PROVE  Grows /\ \A c, entry : Mine(c, entry) => Mine(c, entry)'
  BY DEF Grows, SelectTyped, Mine, Owns

\* A table with the same rows, of which some fields are set.
LEMMA RowsSet ==
    ASSUME SelectTyped, NEW table, rows' = table, DOMAIN table = DOMAIN rows, table = [i \in DOMAIN rows |-> table[i]],
           \A i \in DOMAIN rows : /\ table[i] \in Row /\ table[i].user = rows[i].user /\ table[i].name = rows[i].name
                                  /\ rows[i].equipped => table[i].equipped
    PROVE  Grows /\ DOMAIN rows' = DOMAIN rows
<1>1. PICK n \in Nat : n = Len(rows) /\ DOMAIN rows = 1..n
  BY SelectSeqs
<1>2. table \in [1..n -> Row]
  BY <1>1, Zenon
<1>3. rows' \in Seq(Row)
  BY <1>2, SeqDef
<1>4. PICK m \in Nat : m = Len(rows') /\ 1..m = 1..n
  BY <1>1, <1>3, LenProperties
<1>5. m = n
  BY <1>4
<1>6. QED
  BY <1>1, <1>3, <1>4, <1>5 DEF Grows, SelectTyped

\* DbCharacter::create_character, the row.
LEMMA InsertCharacterKeeps ==
    ASSUME SelectInv, NEW t \in DOMAIN tasks, InsertCharacter(t), UNCHANGED <<now, select, receiver, joined>>
    PROVE  SelectInv'
<1>1. SelectTyped
  BY DEF SelectInv
<1>2. /\ Len(rows) \in Nat /\ DOMAIN rows = 1..Len(rows) /\ tasks[t] \in TaskRecord
      /\ tasks[t].kind = "create" /\ tasks[t].state = "running" /\ tasks[t].step = 0 /\ Len(rows) < MaxRows
  BY <1>1, SelectSeqs DEF InsertCharacter, Running
<1>3. PICK row : row = create_character_from(tasks[t].client, tasks[t].name) /\ rows' = Append(rows, row)
  BY DEF InsertCharacter
<1>4. tasks[t].client \in Connections /\ tasks[t].name \in Names
  BY <1>1, <1>2 DEF TaskRecord, SelectTyped
<1>5. row \in Row /\ row.user = UserOf[tasks[t].client] /\ row.deletion = 0
  BY <1>3, <1>4, CharacterSelectAssumption DEF create_character_from, Row
<1>6. /\ rows' \in Seq(Row) /\ Len(rows') = Len(rows) + 1 /\ rows'[Len(rows) + 1] = row
      /\ \A i \in DOMAIN rows : rows'[i] = rows[i]
  BY <1>1, <1>2, <1>3, <1>5, AppendProperties DEF SelectTyped
<1>7. MaxRows \in Nat
  BY CharacterSelectAssumption
<1>8. Grows /\ DOMAIN rows' = DOMAIN rows \cup {Len(rows) + 1} /\ Len(rows') \in DOMAIN rows'
  BY <1>2, <1>6, <1>7, LenProperties DEF Grows
<1>9. PICK new : new = [tasks[t] EXCEPT !.step = 1, !.row = Len(rows')] /\ tasks' = [tasks EXCEPT ![t] = new]
  BY DEF InsertCharacter
<1>10. /\ new \in TaskRecord /\ new.client = tasks[t].client /\ new.kind = tasks[t].kind /\ new.name = tasks[t].name
       /\ new.complete = tasks[t].complete /\ new.list = tasks[t].list /\ new.state = "running"
       /\ new.row = Len(rows) + 1
  <2>1. Len(rows') = Len(rows) + 1 /\ Len(rows) + 1 \in Nat /\ 1 \in 0..1
    BY <1>2, <1>6
  <2>2. QED
    BY <1>2, <1>9, <2>1, Zenon DEF TaskRecord
<1>11. \A k \in DOMAIN new.list : Mine(new.client, new.list[k])'
  <2>1. \A k \in DOMAIN new.list : Mine(new.client, new.list[k])
    BY <1>10 DEF SelectInv, ShownOwn
  <2>2. QED
    BY <1>1, <1>8, <2>1, RowsStay
<1>12. Spared(new)
  BY <1>2, <1>5, <1>6, <1>8 DEF Spared
<1>13. Made(new) /\ ListedSoFar(new)
  BY <1>2, <1>5, <1>6, <1>8, <1>10 DEF Made, ListedSoFar
<1>14. QED
  BY <1>8, <1>9, <1>10, <1>11, <1>12, <1>13, GoesOn

\* A task ends, with whatever it wrote last.
LEMMA Ends ==
    ASSUME SelectInv, NEW t \in DOMAIN tasks, NEW new \in TaskRecord, tasks' = [tasks EXCEPT ![t] = new],
           new.client = tasks[t].client, new.kind = tasks[t].kind, new.name = tasks[t].name,
           new.complete = tasks[t].complete, new.list = tasks[t].list, new.step = tasks[t].step,
           new.row = tasks[t].row, new.state # "running", tasks[t].state = "running",
           new.kind = "list" => new.state = "dead",
           new.kind = "create" /\ new.state = "done" => new.step = 1 /\ rows'[new.row].equipped,
           Grows, UNCHANGED <<now, select, receiver, joined>>,
           Spared(new)
    PROVE  SelectInv'
<1>1. SelectTyped
  BY DEF SelectInv
<1>2. \A k \in DOMAIN new.list : Mine(new.client, new.list[k])'
  <2>1. \A k \in DOMAIN new.list : Mine(new.client, new.list[k])
    BY DEF SelectInv, ShownOwn
  <2>2. QED
    BY <1>1, <2>1, RowsStay
<1>3. ASSUME new.kind = "create"
      PROVE  /\ new.step = 1 => new.row \in DOMAIN rows' /\ rows'[new.row].user = UserOf[new.client]
             /\ new.state = "done" => new.step = 1 /\ rows'[new.row].equipped
  <2>1. new.step = 1 => new.row \in DOMAIN rows /\ Owns(new.client, new.row)
    BY <1>3 DEF SelectInv, Creating
  <2>2. \A i \in DOMAIN rows : i \in DOMAIN rows' /\ rows'[i].user = rows[i].user
    BY <1>1, RowsStay DEF Grows
  <2>3. QED
    BY <1>3, <2>1, <2>2 DEF Owns
<1>4. ASSUME new.kind = "list", new.step = 1 \/ new.state = "done"
      PROVE  \A i \in new.complete : Owns(new.client, i) /\ ~EverDeleted(i) =>
                \E k \in DOMAIN new.list : new.list[k].row = i /\ (new.state = "done" => new.list[k].equipped)
  <2>1. new.state = "dead" /\ tasks[t].step = 1 /\ "dead" # "done"
    BY <1>4
  <2>2. \A i \in tasks[t].complete : Owns(tasks[t].client, i) /\ ~EverDeleted(i) =>
                \E k \in DOMAIN tasks[t].list : tasks[t].list[k].row = i
    BY <1>4, <2>1 DEF SelectInv, Complete
  <2>3. QED
    BY <2>1, <2>2
<1>5. Made(new) /\ ListedSoFar(new)
  BY <1>3, <1>4 DEF Made, ListedSoFar
<1>6. QED
  BY <1>2, <1>5, GoesOn

\* A task that ends differs in its state and its answer.
LEMMA Finished ==
    ASSUME NEW task \in TaskRecord, NEW state \in {"done", "dead"}, NEW new,
           new = [task EXCEPT !.state = state, !.ok = TRUE] \/ new = [task EXCEPT !.state = state]
    PROVE  /\ new \in TaskRecord /\ new.client = task.client /\ new.kind = task.kind /\ new.name = task.name
           /\ new.complete = task.complete /\ new.list = task.list /\ new.step = task.step
           /\ new.row = task.row /\ new.state = state
  BY Zenon DEF TaskRecord

\* DbCharacter::create_character, the items.
LEMMA InsertItemsKeeps ==
    ASSUME SelectInv, NEW t \in DOMAIN tasks, InsertItems(t), UNCHANGED <<now, select, receiver, joined>>
    PROVE  SelectInv'
<1>1. SelectTyped
  BY DEF SelectInv
<1>2. /\ tasks[t] \in TaskRecord /\ tasks[t].kind = "create" /\ tasks[t].state = "running" /\ tasks[t].step = 1
      /\ rows' = [rows EXCEPT ![tasks[t].row].equipped = TRUE]
  BY <1>1, SelectSeqs DEF InsertItems, Running
<1>3. tasks[t].row \in DOMAIN rows /\ \A i \in DOMAIN rows : rows[i] \in Row
  BY <1>1, <1>2, SelectSeqs DEF SelectInv, Creating
<1>4. PICK new : new = [tasks[t] EXCEPT !.state = "done", !.ok = TRUE] /\ tasks' = [tasks EXCEPT ![t] = new]
  BY DEF InsertItems, Finish
<1>5. /\ new \in TaskRecord /\ new.client = tasks[t].client /\ new.kind = tasks[t].kind /\ new.name = tasks[t].name
      /\ new.complete = tasks[t].complete /\ new.list = tasks[t].list /\ new.step = tasks[t].step
      /\ new.row = tasks[t].row /\ new.state = "done"
  BY <1>2, <1>4, Finished
<1>6. PICK table : table = rows' /\ DOMAIN table = DOMAIN rows /\ table = [i \in DOMAIN rows |-> table[i]]
  BY <1>2, Zenon
<1>7. \A i \in DOMAIN rows : /\ table[i] \in Row /\ table[i].user = rows[i].user /\ table[i].name = rows[i].name
                             /\ table[i].deletion = rows[i].deletion
                             /\ table[i].equipped = (IF i = tasks[t].row THEN TRUE ELSE rows[i].equipped)
  <2>1. SUFFICES ASSUME NEW i \in DOMAIN rows
                 PROVE  /\ table[i] \in Row /\ table[i].user = rows[i].user /\ table[i].name = rows[i].name
                        /\ table[i].deletion = rows[i].deletion
                        /\ table[i].equipped = (IF i = tasks[t].row THEN TRUE ELSE rows[i].equipped)
    OBVIOUS
  <2>2. CASE i = tasks[t].row
    <3>1. table[i] = [rows[i] EXCEPT !.equipped = TRUE] /\ rows[i] \in Row
      BY <1>2, <1>3, <1>6, <2>2
    <3>2. QED
      BY <2>2, <3>1, Zenon DEF Row
  <2>3. CASE i # tasks[t].row
    <3>1. table[i] = rows[i] /\ rows[i] \in Row
      BY <1>2, <1>3, <1>6, <2>3
    <3>2. QED
      BY <2>3, <3>1
  <2>4. QED
    BY <2>2, <2>3
<1>8. Grows /\ DOMAIN rows' = DOMAIN rows
  BY <1>1, <1>6, <1>7, RowsSet
<1>9. Spared(new) /\ rows'[new.row].equipped /\ new.step = 1 /\ new.kind # "list" /\ new.state # "running"
  BY <1>2, <1>3, <1>5, <1>6, <1>7, <1>8 DEF Spared
<1>10. QED
  BY <1>2, <1>4, <1>5, <1>8, <1>9, Ends

\* CharacterData::check_name_available.
LEMMA CheckNameKeeps ==
    ASSUME SelectInv, NEW t \in DOMAIN tasks, CheckName(t), UNCHANGED <<now, select, receiver, joined>>
    PROVE  SelectInv'
<1>1. SelectTyped
  BY DEF SelectInv
<1>2. /\ tasks[t] \in TaskRecord /\ tasks[t].kind = "check" /\ tasks[t].state = "running" /\ rows' = rows
  BY <1>1, SelectSeqs DEF CheckName, Running
<1>3. PICK ok \in BOOLEAN : ok = (\A i \in DOMAIN rows : rows[i].name # tasks[t].name)
  OBVIOUS
<1>4. PICK new : new = [tasks[t] EXCEPT !.state = "done", !.ok = ok] /\ tasks' = [tasks EXCEPT ![t] = new]
  BY <1>3 DEF CheckName, Finish
<1>5. /\ new \in TaskRecord /\ new.client = tasks[t].client /\ new.kind = tasks[t].kind /\ new.name = tasks[t].name
      /\ new.complete = tasks[t].complete /\ new.list = tasks[t].list /\ new.step = tasks[t].step
      /\ new.row = tasks[t].row /\ new.state = "done"
  <2>1. "done" \in {"done", "dead"} /\ ok \in BOOLEAN
    BY <1>3
  <2>2. QED
    BY <1>2, <1>4, <2>1, Zenon DEF TaskRecord
<1>6. Grows /\ Spared(new) /\ new.kind \notin {"create", "list"} /\ new.state # "running"
  BY <1>1, <1>2, <1>5, SameRows DEF Spared
<1>7. QED
  BY <1>2, <1>4, <1>5, <1>6, Ends

\* A statement of a task fails.
LEMMA TaskDiesKeeps ==
    ASSUME SelectInv, NEW t \in DOMAIN tasks, TaskDies(t), UNCHANGED <<now, select, receiver, joined>>
    PROVE  SelectInv'
<1>1. SelectTyped
  BY DEF SelectInv
<1>2. /\ tasks[t] \in TaskRecord /\ tasks[t].state = "running" /\ rows' = rows
  BY <1>1, SelectSeqs DEF TaskDies
<1>3. PICK new : new = [tasks[t] EXCEPT !.state = "dead"] /\ tasks' = [tasks EXCEPT ![t] = new]
  BY DEF TaskDies
<1>4. /\ new \in TaskRecord /\ new.client = tasks[t].client /\ new.kind = tasks[t].kind /\ new.name = tasks[t].name
      /\ new.complete = tasks[t].complete /\ new.list = tasks[t].list /\ new.step = tasks[t].step
      /\ new.row = tasks[t].row /\ new.state = "dead"
  BY <1>2, <1>3, Finished
<1>5. Grows /\ Spared(new) /\ new.state # "running" /\ new.state # "done"
  BY <1>1, <1>2, <1>4, SameRows DEF Spared
<1>6. QED
  BY <1>2, <1>3, <1>4, <1>5, Ends

\* DbCharacter::start_delete_character.
LEMMA StartDeleteKeeps ==
    ASSUME SelectInv, NEW t \in DOMAIN tasks, StartDelete(t), UNCHANGED <<now, select, receiver, joined>>
    PROVE  SelectInv'
<1>1. SelectTyped
  BY DEF SelectInv
<1>2. tasks[t] \in TaskRecord /\ \A i \in DOMAIN rows : rows[i] \in Row
  BY <1>1, SelectSeqs
<1> DEFINE hit == Named(tasks[t].client, tasks[t].name)
<1> DEFINE end == now + DeletionTime
<1>3. /\ tasks[t].kind = "delete" /\ tasks[t].state = "running"
      /\ rows' = [i \in DOMAIN rows |-> IF i \in hit THEN [rows[i] EXCEPT !.deletion = end] ELSE rows[i]]
      /\ Finish(t, Cardinality(hit) = 1)
  BY Zenon DEF StartDelete, Running
<1>4. end \in 0..(MaxTime + DeletionTime)
  <2>1. now \in 1..MaxTime /\ DeletionTime \in Nat /\ MaxTime \in Nat
    BY <1>1, CharacterSelectAssumption DEF SelectTyped
  <2>2. QED
    BY <2>1
<1>5. \A i \in hit : rows[i].name = tasks[t].name
  BY DEF Named
<1> HIDE DEF hit, end
<1>6. PICK table : table = rows' /\ DOMAIN table = DOMAIN rows /\ table = [i \in DOMAIN rows |-> table[i]]
  BY <1>3, Zenon
<1>7. \A i \in DOMAIN rows : /\ table[i] \in Row /\ table[i].user = rows[i].user /\ table[i].name = rows[i].name
                             /\ table[i].equipped = rows[i].equipped
                             /\ i \notin hit => table[i].deletion = rows[i].deletion
  BY <1>2, <1>3, <1>4, <1>6, Zenon DEF Row
<1>8. Grows /\ DOMAIN rows' = DOMAIN rows
  BY <1>1, <1>6, <1>7, RowsSet
<1>9. PICK ok \in BOOLEAN : ok = (Cardinality(hit) = 1)
  OBVIOUS
<1>10. PICK new : new = [tasks[t] EXCEPT !.state = "done", !.ok = ok] /\ tasks' = [tasks EXCEPT ![t] = new]
  BY <1>3, <1>9 DEF Finish
<1>11. /\ new \in TaskRecord /\ new.client = tasks[t].client /\ new.kind = tasks[t].kind /\ new.name = tasks[t].name
       /\ new.complete = tasks[t].complete /\ new.list = tasks[t].list /\ new.step = tasks[t].step
       /\ new.row = tasks[t].row /\ new.state = "done"
  <2>1. "done" \in {"done", "dead"} /\ ok \in BOOLEAN
    BY <1>9
  <2>2. QED
    BY <1>2, <1>10, <2>1, Zenon DEF TaskRecord
<1>12. Spared(new) /\ new.kind \notin {"create", "list"} /\ new.state # "running"
  BY <1>3, <1>5, <1>6, <1>7, <1>8, <1>11 DEF Spared
<1>13. QED
  BY <1>3, <1>8, <1>10, <1>11, <1>12, Ends

\* DbCharacter::restore_character.
LEMMA RestoreKeeps ==
    ASSUME SelectInv, NEW t \in DOMAIN tasks, Restore(t), UNCHANGED <<now, select, receiver, joined>>
    PROVE  SelectInv'
<1>1. SelectTyped
  BY DEF SelectInv
<1>2. tasks[t] \in TaskRecord /\ \A i \in DOMAIN rows : rows[i] \in Row
  BY <1>1, SelectSeqs
<1> DEFINE hit == {i \in Named(tasks[t].client, tasks[t].name) : rows[i].deletion > now}
<1>3. /\ tasks[t].kind = "restore" /\ tasks[t].state = "running"
      /\ rows' = [i \in DOMAIN rows |-> IF i \in hit THEN [rows[i] EXCEPT !.deletion = 0] ELSE rows[i]]
      /\ Finish(t, Cardinality(hit) = 1)
  BY Zenon DEF Restore, Running
<1> HIDE DEF hit
<1>4. 0 \in 0..(MaxTime + DeletionTime)
  BY CharacterSelectAssumption
<1>5. PICK table : table = rows' /\ DOMAIN table = DOMAIN rows /\ table = [i \in DOMAIN rows |-> table[i]]
  BY <1>3, Zenon
<1>6. \A i \in DOMAIN rows : /\ table[i] \in Row /\ table[i].user = rows[i].user /\ table[i].name = rows[i].name
                             /\ table[i].equipped = rows[i].equipped
                             /\ table[i].deletion \in {0, rows[i].deletion}
  BY <1>2, <1>3, <1>4, <1>5, Zenon DEF Row
<1>7. Grows /\ DOMAIN rows' = DOMAIN rows
  BY <1>1, <1>5, <1>6, RowsSet
<1>8. PICK ok \in BOOLEAN : ok = (Cardinality(hit) = 1)
  OBVIOUS
<1>9. PICK new : new = [tasks[t] EXCEPT !.state = "done", !.ok = ok] /\ tasks' = [tasks EXCEPT ![t] = new]
  BY <1>3, <1>8 DEF Finish
<1>10. /\ new \in TaskRecord /\ new.client = tasks[t].client /\ new.kind = tasks[t].kind /\ new.name = tasks[t].name
       /\ new.complete = tasks[t].complete /\ new.list = tasks[t].list /\ new.step = tasks[t].step
       /\ new.row = tasks[t].row /\ new.state = "done"
  <2>1. "done" \in {"done", "dead"} /\ ok \in BOOLEAN
    BY <1>8
  <2>2. QED
    BY <1>2, <1>9, <2>1, Zenon DEF TaskRecord
<1>11. Spared(new) /\ new.kind \notin {"create", "list"} /\ new.state # "running"
  BY <1>3, <1>5, <1>6, <1>7, <1>10 DEF Spared
<1>12. QED
  BY <1>3, <1>7, <1>9, <1>10, <1>11, Ends

\* DbCharacter::load_characters_sparse, the characters: all that have not been deleted
\* are read.
LEMMA SelectCharactersKeeps ==
    ASSUME SelectInv, NEW t \in DOMAIN tasks, SelectCharacters(t), UNCHANGED <<now, select, receiver, joined>>
    PROVE  SelectInv'
<1>1. SelectTyped
  BY DEF SelectInv
<1>2. /\ tasks[t] \in TaskRecord /\ \A i \in DOMAIN rows : rows[i] \in Row
      /\ Len(rows) \in Nat /\ Len(rows) <= MaxRows /\ DOMAIN rows = 1..Len(rows)
  BY <1>1, SelectSeqs DEF SelectTyped
<1>3. PICK found, mine :
         /\ found = {i \in DOMAIN rows : Owns(tasks[t].client, i) /\ ~Gone(i)}
         /\ mine \in ById(found) /\ tasks[t].kind = "list" /\ tasks[t].state = "running" /\ tasks[t].step = 0
         /\ tasks' = [tasks EXCEPT ![t].step = 1, ![t].list = [k \in DOMAIN mine |-> Read(mine[k])]]
         /\ UNCHANGED rows
  BY DEF SelectCharacters, Fetch, Running
<1>4. DOMAIN mine \subseteq Nat /\ (\A k \in DOMAIN mine : mine[k] \in found) /\ \A i \in found : \E k \in DOMAIN mine : mine[k] = i
  <2> DEFINE n == Cardinality(found)
  <2>1. mine \in ById(found)
    BY <1>3
  <2>2. mine \in Bijection(1..n, found)
    BY <2>1 DEF ById
  <2> HIDE DEF n
  <2>3. mine \in [1..n -> found] /\ \A i \in found : \E k \in 1..n : mine[k] = i
    BY <2>2, Zenon DEF Bijection, Injection, Surjection
  <2>4. QED
    BY <2>3
<1>5. PICK list : list = [k \in DOMAIN mine |-> Read(mine[k])]
  OBVIOUS
<1>6. \A i \in DOMAIN rows : Read(i) \in Entry
  <2>1. \A i \in DOMAIN rows : i \in 1..MaxRows
    BY <1>2, CharacterSelectAssumption
  <2>2. \A i \in DOMAIN rows : rows[i].name \in Names /\ rows[i].deletion \in Nat
    BY <1>2, CharacterSelectAssumption DEF Row
  <2>3. QED
    BY <2>1, <2>2 DEF Read, Entry
<1>7. list \in Lists
  <2>1. list \in [DOMAIN mine -> Entry]
    BY <1>3, <1>4, <1>5, <1>6
  <2>2. QED
    BY <1>4, <2>1 DEF Lists
<1>8. PICK new : new = [tasks[t] EXCEPT !.step = 1, !.list = list] /\ tasks' = [tasks EXCEPT ![t] = new]
  BY <1>3, <1>5
<1>9. /\ new \in TaskRecord /\ new.client = tasks[t].client /\ new.kind = tasks[t].kind /\ new.name = tasks[t].name
      /\ new.complete = tasks[t].complete /\ new.list = list /\ new.step = 1 /\ new.state = tasks[t].state
  <2>1. 1 \in 0..1
    OBVIOUS
  <2>2. QED
    BY <1>2, <1>7, <1>8, <2>1, Zenon DEF TaskRecord
<1>10. Grows /\ Spared(new)
  BY <1>1, <1>3, SameRows DEF Spared
<1>11. \A k \in DOMAIN new.list : Mine(new.client, new.list[k])'
  <2>1. ASSUME NEW k \in DOMAIN list PROVE Mine(tasks[t].client, list[k])
    BY <1>3, <1>4, <1>5, <2>1 DEF Mine, Read
  <2>2. QED
    BY <1>1, <1>3, <1>9, <2>1, SameRows
<1>12. ASSUME NEW i \in new.complete, Owns(new.client, i), ~EverDeleted(i)
       PROVE  \E k \in DOMAIN new.list : new.list[k].row = i /\ (new.state = "done" => new.list[k].equipped)
  <2>1. i \in DOMAIN rows /\ rows[i].deletion = 0
    BY <1>9, <1>12 DEF SelectInv, Complete, Undeleted
  <2>2. i \in found
    BY <1>3, <1>9, <1>12, <2>1 DEF Gone
  <2>3. PICK k \in DOMAIN mine : mine[k] = i
    BY <1>4, <2>2
  <2>4. k \in DOMAIN list /\ list[k].row = i
    BY <1>5, <2>3 DEF Read
  <2>5. QED
    BY <1>3, <1>9, <2>4
<1>13. new.kind # "create"
  BY <1>3, <1>9
<1>14. Made(new) /\ ListedSoFar(new)
  BY <1>12, <1>13 DEF Made, ListedSoFar
<1>15. QED
  BY <1>8, <1>9, <1>10, <1>11, <1>14, GoesOn

\* The items: characters that were complete before are listed with them.
LEMMA SelectItemsKeeps ==
    ASSUME SelectInv, NEW t \in DOMAIN tasks, SelectItems(t), UNCHANGED <<now, select, receiver, joined>>
    PROVE  SelectInv'
<1>1. SelectTyped
  BY DEF SelectInv
<1>2. PICK old, list :
         /\ old = tasks[t].list /\ list = [k \in DOMAIN old |-> [old[k] EXCEPT !.equipped = rows[old[k].row].equipped]]
         /\ tasks[t].kind = "list" /\ tasks[t].state = "running" /\ tasks[t].step = 1
         /\ tasks' = [tasks EXCEPT ![t].state = "done", ![t].ok = TRUE, ![t].list = list]
         /\ UNCHANGED rows
  BY DEF SelectItems, Running
<1>3. tasks[t] \in TaskRecord /\ \A i \in DOMAIN rows : rows[i] \in Row
  BY <1>1, SelectSeqs
<1>4. \A k \in DOMAIN old : Mine(tasks[t].client, old[k])
  BY <1>2 DEF SelectInv, ShownOwn
<1>5. PICK D \in SUBSET Nat : old \in [D -> Entry]
  BY <1>2, <1>3, Zenon DEF TaskRecord, Lists
<1>6. \A k \in D : /\ list[k] \in Entry /\ list[k].row = old[k].row /\ list[k].name = old[k].name
                   /\ list[k].equipped = rows[old[k].row].equipped
  <2>1. \A k \in D : old[k].row \in DOMAIN rows
    BY <1>4, <1>5 DEF Mine
  <2>2. \A k \in D : rows[old[k].row].equipped \in BOOLEAN
    BY <1>3, <2>1, Zenon DEF Row
  <2>3. QED
    BY <1>2, <1>5, <2>2, Zenon DEF Entry
<1>7. list \in Lists /\ DOMAIN list = D /\ DOMAIN old = D
  <2>1. DOMAIN list = D /\ DOMAIN old = D
    BY <1>2, <1>5
  <2>2. list \in [D -> Entry]
    BY <1>2, <1>5, <1>6, <2>1, Zenon
  <2>3. QED
    BY <2>1, <2>2 DEF Lists
<1>8. PICK new : new = [tasks[t] EXCEPT !.state = "done", !.ok = TRUE, !.list = list] /\ tasks' = [tasks EXCEPT ![t] = new]
  BY <1>2
<1>9. /\ new \in TaskRecord /\ new.client = tasks[t].client /\ new.kind = tasks[t].kind /\ new.name = tasks[t].name
      /\ new.complete = tasks[t].complete /\ new.list = list /\ new.state = "done"
  BY <1>3, <1>7, <1>8, Zenon DEF TaskRecord
<1>10. Grows /\ Spared(new)
  BY <1>1, <1>2, SameRows DEF Spared
<1>11. \A k \in DOMAIN new.list : Mine(new.client, new.list[k])'
  <2>1. ASSUME NEW k \in DOMAIN list PROVE Mine(tasks[t].client, list[k])
    BY <1>4, <1>6, <1>7, <2>1 DEF Mine
  <2>2. QED
    BY <1>1, <1>2, <1>9, <2>1, SameRows
<1>12. ASSUME NEW i \in new.complete, Owns(new.client, i), ~EverDeleted(i)
       PROVE  \E k \in DOMAIN new.list : new.list[k].row = i /\ (new.state = "done" => new.list[k].equipped)
  <2>1. rows[i].equipped /\ \E k \in DOMAIN old : old[k].row = i
    BY <1>2, <1>9, <1>12 DEF SelectInv, Complete
  <2>2. PICK k \in D : old[k].row = i
    BY <1>7, <2>1
  <2>3. k \in DOMAIN new.list /\ list[k].row = i /\ list[k].equipped
    BY <1>6, <1>7, <1>9, <2>1, <2>2
  <2>4. QED
    BY <1>9, <2>3
<1>13. new.kind # "create"
  BY <1>2, <1>9
<1>14. Made(new) /\ ListedSoFar(new)
  BY <1>12, <1>13 DEF Made, ListedSoFar
<1>15. QED
  BY <1>8, <1>9, <1>10, <1>11, <1>14, GoesOn

\* A request as it is started.
LEMMA NewTask ==
    ASSUME SelectInv, NEW c \in Connections, NEW kind \in Kinds, NEW name \in Names \cup {NoName}, NEW checked \in BOOLEAN,
           NEW task, task = Task(c, kind, name) \/ task = [Task(c, kind, name) EXCEPT !.checked = checked]
    PROVE  /\ task \in TaskRecord /\ task.client = c /\ task.kind = kind /\ task.name = name
           /\ task.step = 0 /\ task.state = "running" /\ DOMAIN task.list = {}
           /\ task.complete = {i \in DOMAIN rows : rows[i].equipped}
<1>1. <<>> \in Lists /\ DOMAIN <<>> = {}
  <2>1. <<>> \in [{} -> Entry] /\ {} \in SUBSET Nat
    OBVIOUS
  <2>2. QED
    BY <2>1 DEF Lists
<1>2. PICK complete \in SUBSET Nat : complete = {i \in DOMAIN rows : rows[i].equipped}
  <2>1. DOMAIN rows \subseteq Nat
    BY SelectSeqs DEF SelectInv
  <2>2. QED
    BY <2>1
<1>3. 0 \in 0..1 /\ 0 \in Nat
  OBVIOUS
<1>4. PICK base : base = Task(c, kind, name)
  OBVIOUS
<1>5. base = [client |-> c, kind |-> kind, name |-> name, step |-> 0, state |-> "running",
              row |-> 0, list |-> <<>>, ok |-> FALSE, checked |-> FALSE, complete |-> complete]
  BY <1>2, <1>4, Zenon DEF Task
<1>6. /\ base \in TaskRecord /\ base.client = c /\ base.kind = kind /\ base.name = name
      /\ base.step = 0 /\ base.state = "running" /\ base.list = <<>> /\ base.complete = complete
  BY <1>1, <1>3, <1>5, Zenon DEF TaskRecord
<1>7. CASE task = base
  BY <1>1, <1>2, <1>6, <1>7
<1>8. CASE task = [base EXCEPT !.checked = checked]
  <2>1. /\ task \in TaskRecord /\ task.client = c /\ task.kind = kind /\ task.name = name
        /\ task.step = 0 /\ task.state = "running" /\ task.list = <<>> /\ task.complete = complete
    BY <1>6, <1>8, Zenon DEF TaskRecord
  <2>2. QED
    BY <1>1, <1>2, <2>1
<1>9. QED
  BY <1>4, <1>7, <1>8

\* handle_list_request, whatever is asked for.
LEMMA RequestsKeep ==
    ASSUME SelectInv, Requests
    PROVE  SelectInv'
<1>1. PICK c \in Connections :
         \/ RequestList(c)
         \/ \E name \in Names : \/ RequestCreate(c, name) \/ RequestCheckName(c, name)
                                \/ RequestDelete(c, name) \/ RequestRestore(c, name)
  BY DEF Requests
<1>2. select \in [Connections -> [list : Lists, checked : Names \cup {NoName}]]
  BY DEF SelectInv, SelectTyped
<1>3. ASSUME NEW kind \in Kinds, NEW name \in Names \cup {NoName}, NEW checked \in BOOLEAN,
             kind # "list" => name \in Names,
             NEW task, task = Task(c, kind, name) \/ task = [Task(c, kind, name) EXCEPT !.checked = checked],
             StartTask(c, task),
             select' = select \/ select' = [select EXCEPT ![c].checked = NoName]
      PROVE  SelectInv'
  <2>1. /\ task \in TaskRecord /\ task.client = c /\ task.kind = kind /\ task.name = name
        /\ task.step = 0 /\ task.state = "running" /\ DOMAIN task.list = {}
        /\ task.complete = {i \in DOMAIN rows : rows[i].equipped}
    BY <1>3, NewTask
  <2>2. /\ select' \in [Connections -> [list : Lists, checked : Names \cup {NoName}]]
        /\ \A d \in Connections : select'[d].list = select[d].list
    BY <1>2, <1>3
  <2>3. QED
    BY <1>3, <2>1, <2>2, Starts
<1>4. CASE RequestList(c)
  <2>1. StartTask(c, Task(c, "list", NoName)) /\ select' = select
    BY <1>4 DEF RequestList
  <2>2. QED
    BY <1>3, <2>1, Zenon DEF Kinds
<1>5. ASSUME NEW name \in Names, RequestCreate(c, name) PROVE SelectInv'
  <2>1. PICK checked \in BOOLEAN : checked = can_create_character_with_name(c, name)
    BY DEF can_create_character_with_name
  <2>2. StartTask(c, [Task(c, "create", name) EXCEPT !.checked = checked]) /\ select' = select
    BY <1>5, <2>1 DEF RequestCreate
  <2>3. QED
    BY <1>3, <2>2, Zenon DEF Kinds
<1>6. ASSUME NEW name \in Names, RequestCheckName(c, name) PROVE SelectInv'
  <2>1. StartTask(c, Task(c, "check", name)) /\ select' = [select EXCEPT ![c].checked = NoName]
    BY <1>6 DEF RequestCheckName
  <2>2. QED
    BY <1>3, <2>1, Zenon DEF Kinds
<1>7. ASSUME NEW name \in Names, RequestDelete(c, name) PROVE SelectInv'
  <2>1. StartTask(c, Task(c, "delete", name)) /\ select' = select
    BY <1>7 DEF RequestDelete
  <2>2. QED
    BY <1>3, <2>1, Zenon DEF Kinds
<1>8. ASSUME NEW name \in Names, RequestRestore(c, name) PROVE SelectInv'
  <2>1. StartTask(c, Task(c, "restore", name)) /\ select' = select
    BY <1>8 DEF RequestRestore
  <2>2. QED
    BY <1>3, <2>1, Zenon DEF Kinds
<1>9. QED
  BY <1>1, <1>4, <1>5, <1>6, <1>7, <1>8, Zenon

\* The parts about the tables and the tasks alone.
LEMMA TablesStay ==
    ASSUME SelectInv, UNCHANGED <<rows, tasks>>, SelectTyped', ShownOwn', Addressed'
    PROVE  SelectInv'
<1>1. Creating' /\ Undeleted' /\ Complete'
  BY DEF SelectInv, Creating, Undeleted, Complete, Owns, EverDeleted
<1>2. QED
  BY <1>1 DEF SelectInv

\* A receiver is polled and dropped.
LEMMA Polled ==
    ASSUME SelectInv, NEW c \in Connections, NEW kind \in Kinds, DropReceiver(c, kind), UNCHANGED <<rows, now, tasks, joined>>,
           select' \in [Connections -> [list : Lists, checked : Names \cup {NoName}]],
           \A d \in Connections : \A k \in DOMAIN select'[d].list : Mine(d, select'[d].list[k])
    PROVE  SelectInv'
<1>1. receiver \in [Connections -> [Kinds -> 0..Len(tasks)]] /\ Len(tasks) \in Nat
  BY SelectSeqs DEF SelectInv, SelectTyped
<1>2. /\ receiver' \in [Connections -> [Kinds -> 0..Len(tasks)]]
      /\ \A d \in Connections, k \in Kinds : receiver'[d][k] \in {0, receiver[d][k]}
  BY <1>1 DEF DropReceiver
<1>3. SelectTyped'
  BY <1>2 DEF SelectInv, SelectTyped
<1>4. ShownOwn'
  BY DEF SelectInv, ShownOwn, Mine, Owns
<1>5. Addressed'
  <2>1. SUFFICES ASSUME NEW d \in Connections, NEW k \in Kinds, receiver'[d][k] # 0
                 PROVE  tasks'[receiver'[d][k]].client = d /\ tasks'[receiver'[d][k]].kind = k
    BY DEF Addressed
  <2>2. receiver'[d][k] = receiver[d][k]
    BY <1>2, <2>1
  <2>3. QED
    BY <2>1, <2>2 DEF SelectInv, Addressed
<1>6. QED
  BY <1>3, <1>4, <1>5, TablesStay

\* The systems of login/jobs.rs: the list a client gets is the answer to its own request.
LEMMA PollKeeps ==
    ASSUME SelectInv, NEW c \in Connections, Poll(c)
    PROVE  SelectInv'
<1>1. select \in [Connections -> [list : Lists, checked : Names \cup {NoName}]]
  BY DEF SelectInv, SelectTyped
<1>2. \A d \in Connections : \A k \in DOMAIN select[d].list : Mine(d, select[d].list[k])
  BY DEF SelectInv, ShownOwn
<1>3. ASSUME NEW kind \in Kinds, receiver[c][kind] # 0
      PROVE  /\ receiver[c][kind] \in DOMAIN tasks /\ tasks[receiver[c][kind]] \in TaskRecord
             /\ tasks[receiver[c][kind]].client = c /\ tasks[receiver[c][kind]].kind = kind
  <2>1. receiver[c][kind] \in 0..Len(tasks)
    BY DEF SelectInv, SelectTyped
  <2>2. receiver[c][kind] \in DOMAIN tasks /\ tasks[receiver[c][kind]] \in TaskRecord
    BY <1>3, <2>1, SelectSeqs DEF SelectInv
  <2>3. QED
    BY <1>3, <2>2 DEF SelectInv, Addressed
<1>4. ASSUME NEW kind \in Kinds, DropReceiver(c, kind), UNCHANGED <<rows, now, select, tasks, joined>> PROVE SelectInv'
  BY <1>1, <1>2, <1>4, Polled
<1>5. CASE handle_character_list_received(c)
  <2>1. "list" \in Kinds /\ DropReceiver(c, "list") /\ UNCHANGED <<rows, now, tasks, joined>>
    BY <1>5 DEF handle_character_list_received, Kinds
  <2>2. CASE UNCHANGED select
    BY <1>4, <2>1, <2>2
  <2>3. CASE receiver[c]["list"] # 0 /\ select' = [select EXCEPT ![c].list = tasks[receiver[c]["list"]].list]
    <3>1. PICK u \in DOMAIN tasks : u = receiver[c]["list"] /\ tasks[u] \in TaskRecord /\ tasks[u].client = c
      BY <1>3, <2>1, <2>3
    <3>2. tasks[u].list \in Lists /\ \A k \in DOMAIN tasks[u].list : Mine(c, tasks[u].list[k])
      BY <3>1 DEF SelectInv, ShownOwn, TaskRecord
    <3>3. /\ select' \in [Connections -> [list : Lists, checked : Names \cup {NoName}]]
          /\ \A d \in Connections : select'[d].list = IF d = c THEN tasks[u].list ELSE select[d].list
      BY <1>1, <2>3, <3>1, <3>2
    <3>4. \A d \in Connections : \A k \in DOMAIN select'[d].list : Mine(d, select'[d].list[k])
      BY <1>2, <3>2, <3>3
    <3>5. QED
      BY <2>1, <3>3, <3>4, Polled
  <2>4. QED
    BY <1>5, <2>2, <2>3 DEF handle_character_list_received, Received
<1>6. CASE handle_character_name_check(c)
  <2>1. "check" \in Kinds /\ DropReceiver(c, "check") /\ UNCHANGED <<rows, now, tasks, joined>>
    BY <1>6 DEF handle_character_name_check, Kinds
  <2>2. CASE UNCHANGED select
    BY <1>4, <2>1, <2>2
  <2>3. CASE receiver[c]["check"] # 0 /\ select' = [select EXCEPT ![c].checked = tasks[receiver[c]["check"]].name]
    <3>1. PICK u \in DOMAIN tasks : u = receiver[c]["check"] /\ tasks[u] \in TaskRecord
      BY <1>3, <2>1, <2>3
    <3>2. tasks[u].name \in Names \cup {NoName}
      BY <3>1 DEF TaskRecord
    <3>3. /\ select' \in [Connections -> [list : Lists, checked : Names \cup {NoName}]]
          /\ \A d \in Connections : select'[d].list = select[d].list
      BY <1>1, <2>3, <3>1, <3>2
    <3>4. \A d \in Connections : \A k \in DOMAIN select'[d].list : Mine(d, select'[d].list[k])
      BY <1>2, <3>3
    <3>5. QED
      BY <2>1, <3>3, <3>4, Polled
  <2>4. QED
    BY <1>6, <2>2, <2>3 DEF handle_character_name_check, Received
<1>7. ASSUME NEW kind \in Kinds, handle_character_answer(c, kind) PROVE SelectInv'
  BY <1>4, <1>7 DEF handle_character_answer
<1>8. QED
  BY <1>5, <1>6, <1>7 DEF Poll

\* A client joins with a character of its list.
LEMMA JoinKeeps ==
    ASSUME SelectInv, NEW c \in Connections, NEW k \in DOMAIN select[c].list, handle_join(c, k)
    PROVE  SelectInv'
<1>1. PICK i : i = select[c].list[k].row /\ joined' = [joined EXCEPT ![c] = i]
  BY DEF handle_join
<1>2. i \in DOMAIN rows /\ Owns(c, i)
  BY <1>1 DEF SelectInv, ShownOwn, Mine
<1>3. UNCHANGED <<rows, now, select, receiver, tasks>>
  BY DEF handle_join
<1>4. joined' \in [Connections -> 0..MaxRows] /\ \A d \in Connections : joined'[d] = IF d = c THEN i ELSE joined[d]
  <2>1. joined \in [Connections -> 0..MaxRows]
    BY DEF SelectInv, SelectTyped
  <2>2. i \in 0..MaxRows
    <3>1. select[c].list \in Lists
      BY DEF SelectInv, SelectTyped
    <3>2. select[c].list[k] \in Entry
      <4>1. PICK D \in SUBSET Nat : select[c].list \in [D -> Entry]
        BY <3>1, Zenon DEF Lists
      <4>2. QED
        BY <4>1
    <3>3. QED
      BY <1>1, <3>2 DEF Entry
  <2>3. QED
    BY <1>1, <2>1, <2>2
<1>5. SelectTyped'
  BY <1>3, <1>4 DEF SelectInv, SelectTyped
<1>6. ShownOwn' /\ Addressed'
  BY <1>2, <1>3, <1>4 DEF SelectInv, ShownOwn, Addressed, Mine, Owns
<1>7. QED
  BY <1>3, <1>5, <1>6, TablesStay

\* The database as earlier sessions left it, and nobody asks for anything yet.
LEMMA SelectInitial ==
    ASSUME SelectInit
    PROVE  SelectInv
<1>1. /\ rows = Existing /\ now = 1 /\ tasks = <<>> /\ joined = [c \in Connections |-> 0]
      /\ select = [c \in Connections |-> [list |-> <<>>, checked |-> NoName]]
      /\ receiver = [c \in Connections |-> [k \in Kinds |-> 0]]
  BY DEF SelectInit
<1>2. PICK Old : /\ Old = [user : {UserOf[c] : c \in Connections}, name : Names, deletion : {0}, equipped : {TRUE}]
                 /\ Existing \in Seq(Old) /\ Len(Existing) <= MaxRows
  BY CharacterSelectAssumption
<1>3. MaxTime \in Nat \ {0} /\ DeletionTime \in Nat /\ MaxRows \in Nat
  BY CharacterSelectAssumption
<1>4. Old \subseteq Row
  <2>1. 0 \in 0..(MaxTime + DeletionTime)
    BY <1>3
  <2>2. QED
    BY <1>2, <2>1 DEF Row
<1>5. /\ Len(Existing) \in Nat /\ DOMAIN Existing = 1..Len(Existing)
      /\ \A i \in DOMAIN Existing : Existing[i] \in Row /\ Existing[i].deletion = 0
  <2>1. Len(Existing) \in Nat /\ DOMAIN Existing = 1..Len(Existing) /\ \A i \in DOMAIN Existing : Existing[i] \in Old
    <3>1. Existing \in Seq(Old)
      BY <1>2
    <3>2. QED
      BY <3>1, LenProperties, ElementOfSeq
  <2>2. QED
    BY <1>2, <1>4, <2>1
<1>6. SelectTyped
  <2>1. rows \in Seq(Row) /\ Len(rows) <= MaxRows /\ now \in 1..MaxTime
    <3>1. Existing = [i \in 1..Len(Existing) |-> Existing[i]] /\ Existing \in [1..Len(Existing) -> Row]
      BY <1>2, <1>5, LenProperties
    <3>2. Existing \in Seq(Row)
      BY <1>5, <3>1, SeqDef
    <3>3. QED
      BY <1>1, <1>2, <1>3, <3>2
  <2>2. tasks \in Seq(TaskRecord) /\ DOMAIN tasks = {} /\ Len(tasks) = 0
    BY <1>1, EmptySeq
  <2>3. <<>> \in Lists
    <3>1. <<>> \in [{} -> Entry] /\ {} \in SUBSET Nat
      OBVIOUS
    <3>2. QED
      BY <3>1 DEF Lists
  <2>4. select \in [Connections -> [list : Lists, checked : Names \cup {NoName}]]
    BY <1>1, <2>3
  <2>5. receiver \in [Connections -> [Kinds -> 0..Len(tasks)]]
    BY <1>1, <2>2
  <2>6. joined \in [Connections -> 0..MaxRows]
    BY <1>1, <1>3
  <2>7. QED
    BY <2>1, <2>2, <2>4, <2>5, <2>6 DEF SelectTyped
<1>7. DOMAIN tasks = {} /\ DOMAIN <<>> = {}
  BY <1>1
<1>8. ShownOwn
  BY <1>1, <1>7 DEF ShownOwn
<1>9. Addressed
  BY <1>1 DEF Addressed
<1>10. Creating /\ Complete
  BY <1>7 DEF Creating, Complete
<1>11. Undeleted
  BY <1>1, <1>5 DEF Undeleted
<1>12. QED
  BY <1>6, <1>8, <1>9, <1>10, <1>11 DEF SelectInv

\* The invariant is about the tables, the lists and the receivers.
LEMMA SelectStays ==
    ASSUME SelectInv, UNCHANGED <<rows, now, select, receiver, tasks, joined>>
    PROVE  SelectInv'
<1>1. SelectTyped'
  BY DEF SelectInv, SelectTyped
<1>2. ShownOwn' /\ Addressed'
  BY DEF SelectInv, ShownOwn, Addressed, Mine, Owns
<1>3. QED
  BY <1>1, <1>2, TablesStay

\* Every step of the selection keeps the invariant.
LEMMA SelectStep ==
    ASSUME SelectInv, [SelectNext]_selectVars
    PROVE  SelectInv'
<1>1. CASE Requests
  BY <1>1, RequestsKeep
<1>2. ASSUME NEW t \in DOMAIN tasks, TaskStep(t) PROVE SelectInv'
  <2>1. UNCHANGED <<now, select, receiver, joined>> /\ (Progress(t) \/ TaskDies(t))
    BY <1>2 DEF TaskStep
  <2>2. CASE InsertCharacter(t)
    BY <1>2, <2>1, <2>2, InsertCharacterKeeps
  <2>3. CASE InsertItems(t)
    BY <1>2, <2>1, <2>3, InsertItemsKeeps
  <2>4. CASE SelectCharacters(t)
    BY <1>2, <2>1, <2>4, SelectCharactersKeeps
  <2>5. CASE SelectItems(t)
    BY <1>2, <2>1, <2>5, SelectItemsKeeps
  <2>6. CASE CheckName(t)
    BY <1>2, <2>1, <2>6, CheckNameKeeps
  <2>7. CASE StartDelete(t)
    BY <1>2, <2>1, <2>7, StartDeleteKeeps
  <2>8. CASE Restore(t)
    BY <1>2, <2>1, <2>8, RestoreKeeps
  <2>9. CASE TaskDies(t)
    BY <1>2, <2>1, <2>9, TaskDiesKeeps
  <2>10. QED
    BY <2>1, <2>2, <2>3, <2>4, <2>5, <2>6, <2>7, <2>8, <2>9 DEF Progress
<1>3. ASSUME NEW c \in Connections, Poll(c) PROVE SelectInv'
  BY <1>3, PollKeeps
<1>4. CASE Joins
  <2>1. ASSUME NEW c \in Connections, NEW k \in DOMAIN select[c].list, handle_join(c, k) PROVE SelectInv'
    BY <2>1, JoinKeeps
  <2>2. ASSUME NEW c \in Connections, NEW name \in Names, JoinUnknown(c, name) PROVE SelectInv'
    BY <2>2, SelectStays DEF JoinUnknown
  <2>3. QED
    BY <1>4, <2>1, <2>2 DEF Joins
<1>5. CASE TimePasses
  <2>1. UNCHANGED <<rows, select, receiver, tasks, joined>> /\ now' \in 1..MaxTime
    BY <1>5, CharacterSelectAssumption DEF TimePasses, SelectInv, SelectTyped
  <2>2. SelectTyped'
    BY <2>1 DEF SelectInv, SelectTyped
  <2>3. ShownOwn' /\ Addressed'
    BY <2>1 DEF SelectInv, ShownOwn, Addressed, Mine, Owns
  <2>4. QED
    BY <2>1, <2>2, <2>3, TablesStay
<1>6. CASE UNCHANGED selectVars
  BY <1>6, SelectStays DEF selectVars
<1>7. QED
  BY <1>1, <1>2, <1>3, <1>4, <1>5, <1>6 DEF SelectNext

\* The invariant of character selection.
LEMMA SelectInvariance == SelectSpec => []SelectInv
<1>1. SelectInit => SelectInv
  BY SelectInitial
<1>2. SelectInv /\ [SelectNext]_selectVars => SelectInv'
  BY SelectStep
<1>3. QED
  BY <1>1, <1>2, PTL DEF SelectSpec

\* Rows, lists, receivers and tasks stay well formed, and a deletion is never more than
\* one DeletionTime ahead, for any number of clients, names and requests
\* (login/charselect.rs, db/character.rs).
THEOREM SelectTypeCorrect == SelectSpec => []SelectTypeOK
<1>1. SelectInv => SelectTypeOK
  <2>1. SUFFICES ASSUME SelectInv PROVE SelectTypeOK
    OBVIOUS
  <2>2. SelectTyped
    BY <2>1 DEF SelectInv
  <2>3. /\ \A i \in DOMAIN rows : rows[i] \in Row
        /\ Len(rows) \in Nat /\ DOMAIN rows = 1..Len(rows) /\ Len(rows) <= MaxRows /\ now \in 1..MaxTime
        /\ \A t \in DOMAIN tasks : tasks[t].kind \in Kinds
    BY <2>2, SelectSeqs DEF SelectTyped, TaskRecord
  <2>4. ASSUME NEW c \in Connections
        PROVE  /\ \A k \in DOMAIN select[c].list : select[c].list[k] \in Entry
               /\ select[c].checked \in Names \cup {NoName}
               /\ \A kind \in Kinds : receiver[c][kind] \in 0..Len(tasks)
               /\ joined[c] \in 0..Len(rows)
    <3>1. select[c].list \in Lists /\ select[c].checked \in Names \cup {NoName}
      BY <2>2 DEF SelectTyped
    <3>2. \A k \in DOMAIN select[c].list : select[c].list[k] \in Entry
      <4>1. PICK D \in SUBSET Nat : select[c].list \in [D -> Entry]
        BY <3>1, Zenon DEF Lists
      <4>2. QED
        BY <4>1
    <3>3. \A kind \in Kinds : receiver[c][kind] \in 0..Len(tasks)
      BY <2>2 DEF SelectTyped
    <3>4. joined[c] \in 0..Len(rows)
      BY <2>1, <2>3 DEF SelectInv, ShownOwn
    <3>5. QED
      BY <3>1, <3>2, <3>3, <3>4
  <2>5. QED
    BY <2>3, <2>4 DEF SelectTypeOK
<1>2. QED
  BY <1>1, SelectInvariance, PTL

\* A list asked for once a creation has finished shows the character with its equipment,
\* unless its deletion was asked for: whatever other tasks do between the two statements
\* of load_characters_sparse.
THEOREM ListsAreWhole == SelectSpec => []ListedWhole
<1>1. SelectInv => ListedWhole
  BY DEF SelectInv, Complete, ListedWhole
<1>2. QED
  BY <1>1, SelectInvariance, PTL

\* A client is shown, and plays, characters of its own account only, and the one it is
\* told to have created is its own and has its equipment, though receivers are replaced
\* while their tasks run (login/jobs.rs, handle_list_request, handle_join).
THEOREM OwnCharactersOnly == SelectSpec => []OwnCharacters
<1>1. SelectInv => OwnCharacters
  <2>1. SUFFICES ASSUME SelectInv, NEW c \in Connections
                 PROVE  /\ \A k \in DOMAIN select[c].list : Mine(c, select[c].list[k])
                        /\ joined[c] # 0 => joined[c] \in DOMAIN rows /\ Owns(c, joined[c])
                        /\ Received(c, "create", "done") =>
                             /\ tasks[receiver[c]["create"]].row \in DOMAIN rows
                             /\ Owns(c, tasks[receiver[c]["create"]].row)
                             /\ rows[tasks[receiver[c]["create"]].row].equipped
    BY Zenon DEF OwnCharacters, Mine
  <2>2. (\A k \in DOMAIN select[c].list : Mine(c, select[c].list[k])) /\ (joined[c] # 0 => joined[c] \in DOMAIN rows /\ Owns(c, joined[c]))
    BY <2>1 DEF SelectInv, ShownOwn
  <2>3. ASSUME Received(c, "create", "done")
        PROVE  LET u == receiver[c]["create"]
               IN  tasks[u].row \in DOMAIN rows /\ Owns(c, tasks[u].row) /\ rows[tasks[u].row].equipped
    <3>1. "create" \in Kinds
      BY DEF Kinds
    <3>2. PICK u : u = receiver[c]["create"] /\ u # 0 /\ tasks[u].state = "done"
      BY <2>3 DEF Received
    <3>3. u \in DOMAIN tasks
      <4>1. u \in 0..Len(tasks)
        BY <2>1, <3>1, <3>2 DEF SelectInv, SelectTyped
      <4>2. QED
        BY <2>1, <3>2, <4>1, SelectSeqs DEF SelectInv
    <3>4. tasks[u].client = c /\ tasks[u].kind = "create"
      BY <2>1, <3>1, <3>2 DEF SelectInv, Addressed
    <3>5. tasks[u].row \in DOMAIN rows /\ Owns(c, tasks[u].row) /\ rows[tasks[u].row].equipped
      BY <2>1, <3>2, <3>3, <3>4 DEF SelectInv, Creating
    <3>6. QED
      BY <3>2, <3>5
  <2>4. QED
    BY <2>2, <2>3
<1>2. QED
  BY <1>1, SelectInvariance, PTL

=============================================================================
