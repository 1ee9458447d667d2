--------------------------- MODULE GatewayProofs ---------------------------
(***************************************************************************)
(* Proofs about Gateway for every number of connections, accounts, tokens, *)
(* addresses and starts of the agent.  The inductive invariant is built in *)
(* layers: what the variables hold (Typing), which account a connection    *)
(* has shown to own (Shown), what an entry of the servers list says of the *)
(* agent (Entries), and what a spot a client remembers promises            *)
(* (Promises).                                                             *)
(***************************************************************************)
EXTENDS Gateway, TLAPS

(* What the variables hold.  A task's record carries what the code has at  *)
(* that point: the credentials from the login packet on, the address once  *)
(* server_details found it, the server's token once reserve() has looked   *)
(* the server up again, and the spot when the agent has granted it.        *)
Names == {k.name : k \in Credentials} \cup Users
Row == [start : Nat, home : Homes, region : Regions]
Entry == [start : Nat, home : Homes, online : BOOLEAN]
Told == [home : Homes]
Posted == [home : Homes, listed : Homes, auth : Nat]
Spot == [home : Homes, listed : Homes, user : Names, token : Tokens,
         start : Nat, time : Nat]
Labels == {"closed", "idle", "login", "code", "details", "reserve", "posted",
           "granted", "failed"}
Fields == [pc : Labels, creds : Credentials \cup {None}, code : Codes \cup {None},
           spot : {None} \cup Told \cup Posted \cup Spot, open : BOOLEAN]
Conn ==
    {k \in Fields :
       /\ k.pc \in {"login", "code", "details", "reserve", "posted"}
            => k.creds \in Credentials
       /\ k.pc = "reserve" => k.spot \in Told
       /\ k.pc = "posted" => k.spot \in Posted
       /\ k.pc = "granted" => k.spot \in Spot}

Typing ==
    /\ row \in Row \cup {None} /\ start \in Nat /\ home \in Homes \cup {None}
    /\ phase \in {"down", "registered", "up"}
    /\ reserved \subseteq [user : Names, token : Tokens]
    /\ left \in [Tokens -> Nat]
    /\ list \in Entry \cup {None} /\ fetched \in Entry \cup {None}
    /\ poll = "asking" => fetched \in Entry
    /\ conn \in [Conns -> Conn]
    /\ holds \in [Conns -> Spot \cup {None}]

-----------------------------------------------------------------------------
(* What the handlers do to a task's record.                                *)

\* Closed is a record of the type, and so is what Idle and Answer leave.
LEMMA Resting ==
    /\ Closed \in Conn /\ Closed.pc = "closed"
    /\ \A creds : Idle(creds).pc = "idle"
    /\ \A creds \in Credentials \cup {None} : Idle(creds) \in Conn
    /\ \A k \in Conn : (IF k.open THEN Idle(k.creds) ELSE Closed) \in Conn
  BY ZenonT(30) DEF Conn, Fields, Labels, Idle, Closed

\* A task that moves on to a point that needs no spot keeps its type.
LEMMA Moved ==
    ASSUME NEW k \in Conn,
           NEW l \in Labels \ {"reserve", "posted", "granted"},
           l \in {"login", "code", "details"} => k.creds \in Credentials
    PROVE  [k EXCEPT !.pc = l] \in Conn
  BY DEF Conn, Fields, Labels

\* So does one that has noted what the next step of try_reserve_spot needs.
LEMMA Noted ==
    ASSUME NEW k \in Conn, k.creds \in Credentials, NEW l, NEW s,
           \/ l = "reserve" /\ s \in Told
           \/ l = "posted" /\ s \in Posted
           \/ l = "granted" /\ s \in Spot
    PROVE  [[k EXCEPT !.pc = l] EXCEPT !.spot = s] \in Conn
  BY DEF Conn, Fields, Labels

\* Typing a code, hanging up and losing the spot to a crash do so too.
LEMMA Touched ==
    ASSUME NEW k \in Conn
    PROVE  /\ [k EXCEPT !.open = FALSE] \in Conn
           /\ [[k EXCEPT !.pc = "failed"] EXCEPT !.spot = None] \in Conn
           /\ \A code \in Codes : k.creds \in Credentials =>
                [[k EXCEPT !.pc = "code"] EXCEPT !.code = code] \in Conn
  BY ZenonT(30) DEF Conn, Fields, Labels

\* Time passes for a spot, in a client's hands or on the way to it.
LEMMA Aged ==
    ASSUME NEW s \in Spot
    PROVE  /\ [s EXCEPT !.time = Less(@)] \in Spot
           /\ \A k \in Conn : k.pc = "granted" => [k EXCEPT !.spot.time = Less(@)] \in Conn
<1>1. ASSUME NEW z \in Spot PROVE [z EXCEPT !.time = Less(@)] \in Spot
  BY DEF Spot, Less
<1>2. ASSUME NEW k \in Conn, k.pc = "granted"
      PROVE  [k EXCEPT !.spot.time = Less(@)] \in Conn
  <2>1. [k.spot EXCEPT !.time = Less(@)] \in Spot
    BY <1>1, <1>2 DEF Conn
  <2>2. QED
    BY <1>2, <2>1 DEF Conn, Fields
<1>3. QED
  BY <1>1, <1>2

\* The two look-ups of try_reserve_spot note what they find, or answer.
LEMMA LookedUp ==
    ASSUME Typing, NEW c \in Conns
    PROVE  /\ server_details(c) =>
                \/ /\ list \in Entry /\ list # None
                   /\ conn' = [conn EXCEPT ![c] = [[conn[c] EXCEPT !.pc = "reserve"]
                        EXCEPT !.spot = [home |-> list.home]]]
                \/ Answer(c)
           /\ reserve(c) =>
                \/ /\ list \in Entry /\ list # None
                   /\ conn' = [conn EXCEPT ![c] = [[conn[c] EXCEPT !.pc = "posted"]
                        EXCEPT !.spot = [home |-> conn[c].spot.home, listed |-> list.home,
                                         auth |-> list.start]]]
                \/ Answer(c)
<1>1. ASSUME server_details(c)
      PROVE  \/ /\ list \in Entry /\ list # None
                /\ conn' = [conn EXCEPT ![c] = [[conn[c] EXCEPT !.pc = "reserve"]
                     EXCEPT !.spot = [home |-> list.home]]]
             \/ Answer(c)
  BY <1>1 DEF server_details, Listed, Typing
<1>2. ASSUME reserve(c)
      PROVE  \/ /\ list \in Entry /\ list # None
                /\ conn' = [conn EXCEPT ![c] = [[conn[c] EXCEPT !.pc = "posted"]
                     EXCEPT !.spot = [home |-> conn[c].spot.home, listed |-> list.home,
                                      auth |-> list.start]]]
             \/ Answer(c)
  BY <1>2 DEF reserve, Listed, Typing
<1>3. QED
  BY <1>1, <1>2

\* The gateway starts with empty tables of tasks and the agent down.
LEMMA TypingInit == Init => Typing
  BY Resting DEF Init, Agent!Init, Typing

\* Every step of the gateway, the agent and their clients keeps the types.
LEMMA TypingStep ==
    ASSUME Typing, [Next]_vars PROVE Typing'
<1>1. ASSUME NEW r \in Registrations, register(r) PROVE Typing'
  BY <1>1 DEF register, agentVars, spotVars, pollVars, Typing
<1>2. ASSUME NEW c \in Conns, Connect(c) PROVE Typing'
  BY <1>2, Resting DEF Connect, agentVars, spotVars, pollVars, Typing
<1>3. ASSUME NEW c \in Conns, Hangup(c) PROVE Typing'
  BY <1>3, Resting, Touched DEF Hangup, agentVars, spotVars, pollVars, Typing
<1>4. ASSUME NEW c \in Conns, NEW v \in Versions, PatchRequest(c, v) PROVE
      Typing'
  BY <1>4, Resting DEF PatchRequest, get_patch_information, agentVars,
       spotVars, pollVars, Typing
<1>5. ASSUME NEW c \in Conns, NEW creds \in Credentials, LoginRequest(c, creds)
      PROVE Typing'
  <2>1. [Idle(creds) EXCEPT !.pc = "login"] \in Conn
    BY DEF Idle, Closed, Conn, Fields, Labels
  <2>2. QED
    BY <1>5, <2>1 DEF LoginRequest, agentVars, spotVars, pollVars, Typing
<1>6. ASSUME NEW c \in Conns, NEW code \in Codes, SecurityCodeInput(c, code)
      PROVE Typing'
  <2>1. conn[c] \in Conn /\ conn[c].creds \in Credentials
    BY <1>6 DEF SecurityCodeInput, Typing, Conn, Fields
  <2>2. [[conn[c] EXCEPT !.pc = "code"] EXCEPT !.code = code] \in Conn
    BY <2>1, Touched
  <2>3. conn' = [conn EXCEPT ![c] = [[conn[c] EXCEPT !.pc = "code"] EXCEPT !.code = code]]
    BY <1>6 DEF SecurityCodeInput, Typing
  <2>4. QED
    BY <1>6, <2>2, <2>3 DEF SecurityCodeInput, agentVars, spotVars, pollVars, Typing
<1>7. ASSUME NEW c \in Conns, QueryPanics(c) PROVE Typing'
  BY <1>7, Resting DEF QueryPanics, Happens, agentVars, spotVars, pollVars,
       Typing
<1>8. ASSUME NEW c \in Conns, Enter(c) PROVE Typing'
  BY <1>8, Resting DEF Enter, Agent!HandIn, agentVars, spotVars, pollVars,
       Typing
<1>9. ASSUME NEW c \in Conns, Leave(c) PROVE Typing'
  BY <1>9 DEF Leave, Agent!Leave, agentVars, spotVars, pollVars, Typing
<1>10. ASSUME NEW c \in Conns, try_login(c) PROVE Typing'
  <2>1. conn[c] \in Conn /\ conn[c].creds \in Credentials
    BY <1>10 DEF try_login, At, Typing, Conn
  <2>2. [conn[c] EXCEPT !.pc = "details"] \in Conn
    BY <2>1, Moved DEF Labels
  <2>3. \/ conn' = [conn EXCEPT ![c] = [conn[c] EXCEPT !.pc = "details"]]
        \/ conn' = [conn EXCEPT ![c] = IF conn[c].open THEN Idle(conn[c].creds) ELSE Closed]
    BY <1>10 DEF try_login, Move, Answer
  <2>4. conn' \in [Conns -> Conn]
    BY <2>1, <2>2, <2>3, Resting DEF Typing
  <2>5. QED
    BY <1>10, <2>4 DEF try_login, agentVars, spotVars, pollVars, Typing
<1>11. ASSUME NEW c \in Conns, try_login_passcode(c) PROVE Typing'
  <2>1. conn[c] \in Conn /\ conn[c].creds \in Credentials
    BY <1>11 DEF try_login_passcode, At, Typing, Conn
  <2>2. [conn[c] EXCEPT !.pc = "details"] \in Conn
    BY <2>1, Moved DEF Labels
  <2>3. \/ conn' = [conn EXCEPT ![c] = [conn[c] EXCEPT !.pc = "details"]]
        \/ conn' = [conn EXCEPT ![c] = IF conn[c].open THEN Idle(conn[c].creds) ELSE Closed]
    BY <1>11 DEF try_login_passcode, Move, Answer
  <2>4. conn' \in [Conns -> Conn]
    BY <2>1, <2>2, <2>3, Resting DEF Typing
  <2>5. QED
    BY <1>11, <2>4 DEF try_login_passcode, agentVars, spotVars, pollVars, Typing
<1>12. ASSUME NEW c \in Conns, server_details(c) PROVE Typing'
  <2> DEFINE s == [home |-> list.home]
  <2>1. conn[c] \in Conn /\ conn[c].creds \in Credentials
    BY <1>12 DEF server_details, At, Typing, Conn
  <2>2. \/ conn' = [conn EXCEPT ![c] = [[conn[c] EXCEPT !.pc = "reserve"] EXCEPT !.spot = s]] /\ list \in Entry
        \/ conn' = [conn EXCEPT ![c] = IF conn[c].open THEN Idle(conn[c].creds) ELSE Closed]
    BY <1>12, LookedUp DEF Answer
  <2>3. list \in Entry => s \in Told
    BY <1>12 DEF server_details, At, Typing, Conn, Told, Posted, Entry
  <2> HIDE DEF s
  <2>4. list \in Entry => [[conn[c] EXCEPT !.pc = "reserve"] EXCEPT !.spot = s] \in Conn
    BY <2>1, <2>3, Noted
  <2>5. conn' \in [Conns -> Conn]
    BY <2>1, <2>2, <2>4, Resting DEF Typing
  <2>6. QED
    BY <1>12, <2>5 DEF server_details, agentVars, spotVars, pollVars, Typing
<1>13. ASSUME NEW c \in Conns, reserve(c) PROVE Typing'
  <2> DEFINE s == [home |-> conn[c].spot.home, listed |-> list.home, auth |-> list.start]
  <2>1. conn[c] \in Conn /\ conn[c].creds \in Credentials
    BY <1>13 DEF reserve, At, Typing, Conn
  <2>2. \/ conn' = [conn EXCEPT ![c] = [[conn[c] EXCEPT !.pc = "posted"] EXCEPT !.spot = s]] /\ list \in Entry
        \/ conn' = [conn EXCEPT ![c] = IF conn[c].open THEN Idle(conn[c].creds) ELSE Closed]
    BY <1>13, LookedUp DEF Answer
  <2>3. list \in Entry => s \in Posted
    BY <1>13 DEF reserve, At, Typing, Conn, Told, Posted, Entry
  <2> HIDE DEF s
  <2>4. list \in Entry => [[conn[c] EXCEPT !.pc = "posted"] EXCEPT !.spot = s] \in Conn
    BY <2>1, <2>3, Noted
  <2>5. conn' \in [Conns -> Conn]
    BY <2>1, <2>2, <2>4, Resting DEF Typing
  <2>6. QED
    BY <1>13, <2>5 DEF reserve, agentVars, spotVars, pollVars, Typing
<1>14. ASSUME NEW c \in Conns, NEW t \in Tokens, handle_spot_request(c, t)
      PROVE Typing'
  <2>1. conn[c] \in Conn /\ conn[c].creds \in Credentials /\ conn[c].spot \in Posted
    BY <1>14 DEF handle_spot_request, Admissible, At, Typing, Conn
  <2>2. Granted(c, t) \in Spot /\ conn[c].creds.name \in Names
    BY <2>1, GatewayAssumption DEF Granted, Posted, Spot, Names, Typing
  <2>3. conn' = [conn EXCEPT ![c] = [[conn[c] EXCEPT !.pc = "granted"] EXCEPT !.spot = Granted(c, t)]]
    BY <1>14 DEF handle_spot_request
  <2>4. conn' \in [Conns -> Conn]
    BY <2>1, <2>2, <2>3, Noted DEF Typing
  <2>5. reserved' \subseteq [user : Names, token : Tokens] /\ left' \in [Tokens -> Nat]
    BY <1>14, <2>2, GatewayAssumption DEF handle_spot_request, Agent!Reserve, Typing
  <2>6. QED
    BY <1>14, <2>4, <2>5 DEF handle_spot_request, agentVars, pollVars, Typing
<1>15. ASSUME NEW c \in Conns, RefuseRequest(c) PROVE Typing'
  BY <1>15, Resting DEF RefuseRequest, Answer, agentVars, spotVars, pollVars,
       Typing
<1>16. ASSUME NEW c \in Conns, RequestFails(c) PROVE Typing'
  BY <1>16, Resting DEF RequestFails, Answer, agentVars, spotVars, pollVars,
       Typing
<1>17. ASSUME NEW c \in Conns, TellSpot(c) PROVE Typing'
  BY <1>17, Resting DEF TellSpot, Answer, At, Conn, agentVars, spotVars,
       pollVars, Typing
<1>18. ASSUME NEW c \in Conns, AccountUnread(c) PROVE Typing'
  BY <1>18, Resting DEF AccountUnread, Answer, agentVars, spotVars, pollVars,
       Typing
<1>19. ASSUME NEW c \in Conns, AnswerLost(c) PROVE Typing'
  BY <1>19, Resting DEF AnswerLost, Answer, agentVars, spotVars, pollVars,
       Typing
<1>20. ASSUME NEW h \in Homes, NEW region \in Regions, Start(h, region) PROVE
      Typing'
  BY <1>20 DEF Start, setup, Row, agentVars, spotVars, pollVars, Typing
<1>21. ASSUME WebUp PROVE Typing'
  BY <1>21 DEF WebUp, agentVars, spotVars, pollVars, Typing
<1>22. ASSUME Crash PROVE Typing'
  BY <1>22, Touched DEF Crash, agentVars, spotVars, pollVars, Typing
<1>23. ASSUME Pass PROVE Typing'
  <2>1. ASSUME NEW c \in Conns PROVE holds'[c] \in Spot \cup {None}
    BY <1>23, Aged DEF Pass, Typing
  <2>2. ASSUME NEW c \in Conns PROVE conn'[c] \in Conn
    <3>1. CASE At(c, "granted")
      <4>1. conn[c] \in Conn /\ conn[c].pc = "granted" /\ conn[c].spot \in Spot
        BY <3>1 DEF At, Typing, Conn
      <4>2. [conn[c] EXCEPT !.spot.time = Less(@)] \in Conn
        BY <4>1, Aged
      <4>3. QED
        BY <1>23, <3>1, <4>2 DEF Pass
    <3>2. CASE ~At(c, "granted")
      BY <1>23, <3>2 DEF Pass, Typing
    <3>3. QED
      BY <3>1, <3>2
  <2>3. holds' \in [Conns -> Spot \cup {None}] /\ conn' \in [Conns -> Conn]
    BY <1>23, <2>1, <2>2 DEF Pass
  <2>4. left' \in [Tokens -> Nat]
    <3>1. Agent!Pass
      BY <1>23, Zenon DEF Pass
    <3>2. QED
      BY <3>1 DEF Agent!Pass, Typing
  <2>5. QED
    BY <1>23, <2>3, <2>4 DEF Pass, Agent!Pass, agentVars, pollVars, Typing
<1>24. ASSUME NEW r \in reserved, Expire(r) PROVE Typing'
  BY <1>24 DEF Expire, Agent!Expire, agentVars, spotVars, pollVars, Typing
<1>25. ASSUME NEW u \in Users, NEW t \in Tokens, OtherRequest(u, t) PROVE
      Typing'
  BY <1>25, GatewayAssumption DEF OtherRequest, Agent!Reserve, Names,
       agentVars, spotVars, pollVars, Typing
<1>26. ASSUME NEW r \in reserved, NEW o \in Others, OtherEnters(r, o) PROVE
      Typing'
  BY <1>26 DEF OtherEnters, Agent!HandIn, agentVars, spotVars, pollVars, Typing
<1>27. ASSUME NEW o \in Others, OtherLeaves(o) PROVE Typing'
  BY <1>27 DEF OtherLeaves, Agent!Leave, agentVars, spotVars, pollVars, Typing
<1>28. ASSUME fetch_servers PROVE Typing'
  <2>1. fetched' \in Entry \/ (fetched' = None /\ poll' # "asking")
    <3>1. row # None => NewServer \in Entry
      BY DEF NewServer, Typing, Row, Entry
    <3>2. QED
      BY <1>28, <3>1 DEF fetch_servers, KnownRegion
  <2>2. QED
    BY <1>28, <2>1 DEF fetch_servers, agentVars, spotVars, Typing
<1>29. ASSUME FetchFails PROVE Typing'
  BY <1>29 DEF FetchFails, Happens, agentVars, spotVars, pollVars, Typing
<1>30. ASSUME request_server_status PROVE Typing'
  BY <1>30 DEF request_server_status, update, Entry, agentVars, spotVars,
       pollVars, Typing
<1>31. ASSUME StatusUnreadable PROVE Typing'
  BY <1>31 DEF StatusUnreadable, agentVars, spotVars, pollVars, Typing
<1>32. ASSUME ReplaceList PROVE Typing'
  BY <1>32 DEF ReplaceList, Replacement, agentVars, spotVars, pollVars, Typing
<1>33. CASE UNCHANGED vars
  BY <1>33 DEF vars, agentVars, spotVars, pollVars, Typing
<1>34. QED
  BY <1>1, <1>2, <1>3, <1>4, <1>5, <1>6, <1>7, <1>8, <1>9, <1>10, <1>11, <1>12,
       <1>13, <1>14, <1>15, <1>16, <1>17, <1>18, <1>19, <1>20, <1>21, <1>22,
       <1>23, <1>24, <1>25, <1>26, <1>27, <1>28, <1>29, <1>30, <1>31, <1>32,
       <1>33 DEF Next, Clients, Task, Poll

-----------------------------------------------------------------------------
(* Who has shown what.  Names are unique in the users table, so the row    *)
(* with the passcode that fits is the row with the password that fits; and *)
(* a task keeps the credentials and the code it went on with until the     *)
(* spot is granted.                                                        *)

\* The task has passed try_login or try_login_passcode.
Trusted == {"details", "reserve", "posted"}
ShownBy(k) ==
    \E u \in users : /\ u.name = k.creds.name /\ u.password = k.creds.password
                     /\ u.passcode \in {None, k.code}
Shown ==
    /\ \A u, v \in users : u.name = v.name => u = v
    /\ \A c \in Conns : conn[c].pc \in Trusted => ShownBy(conn[c])

\* Rows are only added to the users table: a task whose record did not change,
\* or that is back to waiting, needs no new proof.
LEMMA ShownKept ==
    ASSUME Shown, users \subseteq users', \A u, v \in users' : u.name = v.name => u = v,
           \A c \in Conns :
             \/ conn'[c].pc \notin Trusted
             \/ ShownBy(conn'[c])
             \/ /\ conn[c].pc \in Trusted /\ conn'[c].creds = conn[c].creds
                /\ conn'[c].code = conn[c].code
    PROVE  Shown'
  BY DEF Shown, ShownBy

\* No step lets a task go on to a spot that has not shown its account.
LEMMA ShownStep ==
    ASSUME Typing, Shown, [Next]_vars PROVE Shown'
<1>1. ASSUME NEW r \in Registrations, register(r) PROVE Shown'
  <2>1. users' = users \cup {r} /\ \A u \in users : u.name # r.name
    BY <1>1 DEF register
  <2>2. \A u, v \in users' : u.name = v.name => u = v
    BY <2>1 DEF Shown
  <2>3. \A d \in Conns : conn'[d] = conn[d]
    BY <1>1 DEF register
  <2>4. QED
    BY <2>1, <2>2, <2>3, ShownKept DEF Shown, ShownBy
<1>2. ASSUME NEW c \in Conns, Connect(c) PROVE Shown'
  BY <1>2 DEF Connect, At, Idle, Closed, Typing, Conn, Fields, Trusted, Shown,
       ShownBy
<1>3. ASSUME NEW c \in Conns, Hangup(c) PROVE Shown'
  BY <1>3 DEF Hangup, At, Closed, Typing, Conn, Fields, Trusted, Shown, ShownBy
<1>4. ASSUME NEW c \in Conns, NEW v \in Versions, PatchRequest(c, v) PROVE
      Shown'
  BY <1>4 DEF PatchRequest, At, Closed, Typing, Conn, Fields, Trusted, Shown,
       ShownBy
<1>5. ASSUME NEW c \in Conns, NEW creds \in Credentials, LoginRequest(c, creds)
      PROVE Shown'
  BY <1>5 DEF LoginRequest, At, Idle, Closed, Typing, Conn, Fields, Trusted,
       Shown, ShownBy
<1>6. ASSUME NEW c \in Conns, NEW code \in Codes, SecurityCodeInput(c, code)
      PROVE Shown'
  BY <1>6 DEF SecurityCodeInput, At, Typing, Conn, Fields, Trusted, Shown,
       ShownBy
<1>7. ASSUME NEW c \in Conns, QueryPanics(c) PROVE Shown'
  BY <1>7 DEF QueryPanics, Closed, Happens, Typing, Conn, Fields, Trusted,
       Shown, ShownBy
<1>8. ASSUME NEW c \in Conns, Enter(c) PROVE Shown'
  BY <1>8 DEF Enter, Closed, Agent!HandIn, Typing, Conn, Fields, Trusted,
       Shown, ShownBy
<1>9. ASSUME NEW c \in Conns, Leave(c) PROVE Shown'
  BY <1>9 DEF Leave, Agent!Leave, Typing, Conn, Fields, Trusted, Shown, ShownBy
<1>10. ASSUME NEW c \in Conns, try_login(c) PROVE Shown'
  <2>1. conn[c] \in Fields /\ conn \in [Conns -> Conn]
    BY DEF Typing, Conn
  <2>2. conn'[c].pc \in Trusted => ShownBy(conn'[c])
    <3>1. CASE conn' = [conn EXCEPT ![c].pc = "details"] /\ PasswordFits(conn[c].creds)
                 /\ ~NeedsCode(conn[c].creds)
      <4>1. conn'[c].creds = conn[c].creds
        BY <2>1, <3>1 DEF Fields
      <4>2. QED
        BY <3>1, <4>1 DEF PasswordFits, NeedsCode, ShownBy
    <3>2. CASE conn' = [conn EXCEPT ![c] = IF conn[c].open THEN Idle(conn[c].creds) ELSE Closed]
      BY <2>1, <3>2 DEF Idle, Closed, Trusted
    <3>3. QED
      BY <1>10, <3>1, <3>2 DEF try_login, Move, Answer, PasswordFits, NeedsCode
  <2>3. \A d \in Conns \ {c} : conn'[d] = conn[d]
    BY <1>10 DEF try_login, Move, Answer, Typing
  <2>4. QED
    BY <1>10, <2>2, <2>3, ShownKept DEF try_login, Shown
<1>11. ASSUME NEW c \in Conns, try_login_passcode(c) PROVE Shown'
  <2>1. conn[c] \in Fields /\ conn \in [Conns -> Conn]
    BY DEF Typing, Conn
  <2>2. conn'[c].pc \in Trusted => ShownBy(conn'[c])
    <3>1. CASE conn' = [conn EXCEPT ![c].pc = "details"] /\ CodeFits(conn[c].creds, conn[c].code)
      <4>1. conn'[c].creds = conn[c].creds /\ conn'[c].code = conn[c].code
        BY <2>1, <3>1 DEF Fields
      <4>2. QED
        BY <3>1, <4>1 DEF CodeFits, PasswordFits, ShownBy, Shown
    <3>2. CASE conn' = [conn EXCEPT ![c] = IF conn[c].open THEN Idle(conn[c].creds) ELSE Closed]
      BY <2>1, <3>2 DEF Idle, Closed, Trusted
    <3>3. QED
      BY <1>11, <3>1, <3>2 DEF try_login_passcode, Move, Answer, CodeFits, PasswordFits
  <2>3. \A d \in Conns \ {c} : conn'[d] = conn[d]
    BY <1>11 DEF try_login_passcode, Move, Answer, Typing
  <2>4. QED
    BY <1>11, <2>2, <2>3, ShownKept DEF try_login_passcode, Shown
<1>12. ASSUME NEW c \in Conns, server_details(c) PROVE Shown'
  <2>1. conn[c] \in Fields /\ conn \in [Conns -> Conn] /\ conn[c].pc \in Trusted
    BY <1>12 DEF server_details, At, Trusted, Typing, Conn
  <2>2. \/ conn'[c].pc \notin Trusted
        \/ conn'[c].creds = conn[c].creds /\ conn'[c].code = conn[c].code
    <3>1. CASE Answer(c)
      BY <2>1, <3>1 DEF Answer, Idle, Closed, Trusted
    <3>2. CASE \E s : conn' = [conn EXCEPT ![c] = [[conn[c] EXCEPT !.pc = "reserve"]
                                                     EXCEPT !.spot = s]]
      <4>1. PICK s : conn'[c] = [[conn[c] EXCEPT !.pc = "reserve"] EXCEPT !.spot = s]
        BY <2>1, <3>2
      <4>2. QED
        BY <2>1, <4>1 DEF Fields
    <3>3. QED
      BY <1>12, <3>1, <3>2, LookedUp
  <2>3. \A d \in Conns \ {c} : conn'[d] = conn[d]
    BY <1>12, <2>1 DEF server_details, Answer
  <2>4. QED
    BY <1>12, <2>1, <2>2, <2>3, ShownKept DEF server_details, Shown
<1>13. ASSUME NEW c \in Conns, reserve(c) PROVE Shown'
  <2>1. conn[c] \in Fields /\ conn \in [Conns -> Conn] /\ conn[c].pc \in Trusted
    BY <1>13 DEF reserve, At, Trusted, Typing, Conn
  <2>2. \/ conn'[c].pc \notin Trusted
        \/ conn'[c].creds = conn[c].creds /\ conn'[c].code = conn[c].code
    <3>1. CASE Answer(c)
      BY <2>1, <3>1 DEF Answer, Idle, Closed, Trusted
    <3>2. CASE \E s : conn' = [conn EXCEPT ![c] = [[conn[c] EXCEPT !.pc = "posted"]
                                                     EXCEPT !.spot = s]]
      <4>1. PICK s : conn'[c] = [[conn[c] EXCEPT !.pc = "posted"] EXCEPT !.spot = s]
        BY <2>1, <3>2
      <4>2. QED
        BY <2>1, <4>1 DEF Fields
    <3>3. QED
      BY <1>13, <3>1, <3>2, LookedUp
  <2>3. \A d \in Conns \ {c} : conn'[d] = conn[d]
    BY <1>13, <2>1 DEF reserve, Answer
  <2>4. QED
    BY <1>13, <2>1, <2>2, <2>3, ShownKept DEF reserve, Shown
<1>14. ASSUME NEW c \in Conns, NEW t \in Tokens, handle_spot_request(c, t)
      PROVE Shown'
  BY <1>14 DEF handle_spot_request, Admissible, At, Granted, Agent!Reserve,
       Typing, Conn, Fields, Trusted, Shown, ShownBy
<1>15. ASSUME NEW c \in Conns, RefuseRequest(c) PROVE Shown'
  BY <1>15 DEF RefuseRequest, At, Answer, Idle, Closed, Typing, Conn, Fields,
       Trusted, Shown, ShownBy
<1>16. ASSUME NEW c \in Conns, RequestFails(c) PROVE Shown'
  BY <1>16 DEF RequestFails, At, Answer, Idle, Closed, Typing, Conn, Fields,
       Trusted, Shown, ShownBy
<1>17. ASSUME NEW c \in Conns, TellSpot(c) PROVE Shown'
  BY <1>17 DEF TellSpot, At, Answer, Idle, Closed, Typing, Conn, Fields,
       Trusted, Shown, ShownBy
<1>18. ASSUME NEW c \in Conns, AccountUnread(c) PROVE Shown'
  BY <1>18 DEF AccountUnread, At, Answer, Idle, Closed, Happens, Typing, Conn,
       Fields, Trusted, Shown, ShownBy
<1>19. ASSUME NEW c \in Conns, AnswerLost(c) PROVE Shown'
  BY <1>19 DEF AnswerLost, At, Answer, Idle, Closed, Happens, Typing, Conn,
       Fields, Trusted, Shown, ShownBy
<1>20. ASSUME NEW h \in Homes, NEW region \in Regions, Start(h, region) PROVE
      Shown'
  BY <1>20 DEF Start, Shown, ShownBy
<1>21. ASSUME WebUp PROVE Shown'
  BY <1>21 DEF WebUp, Shown, ShownBy
<1>22. ASSUME Crash PROVE Shown'
  <2>1. \A c \in Conns : \/ conn'[c] = conn[c]
                         \/ conn'[c].pc = "failed"
    BY <1>22 DEF Crash, Typing, Conn, Fields
  <2>2. QED
    BY <1>22, <2>1, ShownKept DEF Crash, Shown, Trusted
<1>23. ASSUME Pass PROVE Shown'
  BY <1>23 DEF Pass, Agent!Pass, Less, At, Typing, Conn, Fields, Trusted,
       Shown, ShownBy
<1>24. ASSUME NEW r \in reserved, Expire(r) PROVE Shown'
  BY <1>24 DEF Expire, Agent!Expire, Shown, ShownBy
<1>25. ASSUME NEW u \in Users, NEW t \in Tokens, OtherRequest(u, t) PROVE
      Shown'
  BY <1>25 DEF OtherRequest, Agent!Reserve, Shown, ShownBy
<1>26. ASSUME NEW r \in reserved, NEW o \in Others, OtherEnters(r, o) PROVE
      Shown'
  BY <1>26 DEF OtherEnters, Agent!HandIn, Shown, ShownBy
<1>27. ASSUME NEW o \in Others, OtherLeaves(o) PROVE Shown'
  BY <1>27 DEF OtherLeaves, Agent!Leave, Shown, ShownBy
<1>28. ASSUME fetch_servers PROVE Shown'
  BY <1>28 DEF fetch_servers, Shown, ShownBy
<1>29. ASSUME FetchFails PROVE Shown'
  BY <1>29 DEF FetchFails, Shown, ShownBy
<1>30. ASSUME request_server_status PROVE Shown'
  BY <1>30 DEF request_server_status, Shown, ShownBy
<1>31. ASSUME StatusUnreadable PROVE Shown'
  BY <1>31 DEF StatusUnreadable, Shown, ShownBy
<1>32. ASSUME ReplaceList PROVE Shown'
  BY <1>32 DEF ReplaceList, Shown, ShownBy
<1>33. CASE UNCHANGED vars
  BY <1>33 DEF vars, agentVars, spotVars, pollVars, Shown, ShownBy
<1>34. QED
  BY <1>1, <1>2, <1>3, <1>4, <1>5, <1>6, <1>7, <1>8, <1>9, <1>10, <1>11, <1>12,
       <1>13, <1>14, <1>15, <1>16, <1>17, <1>18, <1>19, <1>20, <1>21, <1>22,
       <1>23, <1>24, <1>25, <1>26, <1>27, <1>28, <1>29, <1>30, <1>31, <1>32,
       <1>33 DEF Next, Clients, Task, Poll

\* Names are unique in the users table, and nobody is connected.
LEMMA ShownInit == Init => Shown
  BY GatewayAssumption DEF Init, Closed, Shown, Trusted

\* A task reaches "granted" only where handle_spot_request has granted it a
\* spot, for the name it sent.
LEMMA GrantedBy ==
    ASSUME Typing, NEW c \in Conns, At(c, "posted"), conn'[c].pc = "granted", [Next]_vars
    PROVE  \E t \in Tokens : conn'[c].spot = Granted(c, t)
<1>1. conn[c] \in Fields /\ conn \in [Conns -> Conn] /\ conn[c].pc = "posted"
  BY DEF Typing, Conn, At
<1>2. ASSUME NEW d \in Conns,
             \/ Connect(d) \/ Hangup(d) \/ QueryPanics(d) \/ Enter(d)
             \/ \E v \in Versions : PatchRequest(d, v)
             \/ \E creds \in Credentials : LoginRequest(d, creds)
      PROVE  FALSE
  <2>1. \/ conn' = [conn EXCEPT ![d] = Closed]
        \/ conn' = [conn EXCEPT ![d] = Idle(None)]
        \/ \E creds \in Credentials : conn' = [conn EXCEPT ![d] = [Idle(creds) EXCEPT !.pc = "login"]]
        \/ conn' = [conn EXCEPT ![d] = [conn[d] EXCEPT !.open = FALSE]]
        \/ conn' = [conn EXCEPT ![d] = conn[d]]
    BY <1>2 DEF Connect, Hangup, QueryPanics, Enter, PatchRequest, LoginRequest
  <2>2. conn'[d].pc \in {"closed", "idle", "login", conn[d].pc}
    <3>1. conn[d] \in Fields
      BY <1>1 DEF Conn
    <3>2. [conn[d] EXCEPT !.open = FALSE].pc = conn[d].pc
      BY <3>1 DEF Fields
    <3>3. Closed.pc = "closed" /\ Idle(None).pc = "idle"
          /\ \A creds : [Idle(creds) EXCEPT !.pc = "login"].pc = "login"
      BY DEF Closed, Idle
    <3>4. QED
      BY <1>1, <2>1, <3>2, <3>3
  <2>3. QED
    BY <1>1, <2>1, <2>2
<1>3. ASSUME NEW d \in Conns,
             \/ try_login(d) \/ try_login_passcode(d) \/ server_details(d) \/ reserve(d)
             \/ RefuseRequest(d) \/ RequestFails(d) \/ TellSpot(d) \/ AccountUnread(d)
             \/ AnswerLost(d) \/ \E code \in Codes : SecurityCodeInput(d, code)
      PROVE  FALSE
  <2>1. ASSUME Answer(d) PROVE FALSE
    BY <1>1, <2>1 DEF Answer, Idle, Closed
  <2>2. ASSUME NEW l \in {"details", "reserve", "posted", "code"},
               conn'[d].pc = l, \A e \in Conns \ {d} : conn'[e] = conn[e]
        PROVE FALSE
    BY <1>1, <2>2
  <2>3. CASE \E code \in Codes : SecurityCodeInput(d, code)
    BY <1>1, <2>2, <2>3 DEF SecurityCodeInput, Conn, Fields
  <2>4. CASE try_login(d) \/ try_login_passcode(d)
    BY <1>1, <2>1, <2>2, <2>4 DEF try_login, try_login_passcode, Move, Conn, Fields
  <2>5. CASE server_details(d) \/ reserve(d)
    BY <1>1, <2>1, <2>2, <2>5, LookedUp, ZenonT(30) DEF Conn, Fields
  <2>6. QED
    BY <1>3, <2>1, <2>3, <2>4, <2>5 DEF RefuseRequest, RequestFails, TellSpot, AccountUnread,
       AnswerLost
<1>4. ASSUME NEW d \in Conns, NEW t \in Tokens, handle_spot_request(d, t)
      PROVE  conn'[c].spot = Granted(c, t)
  <2>1. c = d
    BY <1>1, <1>4 DEF handle_spot_request
  <2>2. QED
    BY <1>1, <1>4, <2>1 DEF handle_spot_request, Fields
<1>5. ASSUME Crash \/ Pass PROVE FALSE
  BY <1>1, <1>5 DEF Crash, Pass, At
<1>6. CASE UNCHANGED conn
  BY <1>1, <1>6
<1>7. QED
  BY <1>2, <1>3, <1>4, <1>5, <1>6 DEF Next, Clients, Task, Poll, register, Start, WebUp,
     Expire, OtherRequest, OtherEnters, OtherLeaves, fetch_servers, request_server_status,
     ReplaceList, FetchFails, StatusUnreadable, Leave, vars

\* Whatever logins and codes came before: a spot that handle_spot_request
\* grants is for an account whose password and passcode the connection has
\* shown, for every set of accounts and connections.
THEOREM SpotsProven == Spec => SpotsAreProven
<1>1. Init => Typing /\ Shown
  BY TypingInit, ShownInit
<1>2. Typing /\ Shown /\ [Next]_vars => Typing' /\ Shown'
  BY TypingStep, ShownStep
<1>3. ASSUME Typing, Shown, [Next]_vars, NEW c \in Conns, At(c, "posted"),
             conn'[c].pc = "granted"
      PROVE  Proven(c, conn'[c].spot.user)
  <2>1. PICK t \in Tokens : conn'[c].spot = Granted(c, t)
    BY <1>3, GrantedBy
  <2>2. ShownBy(conn[c])
    BY <1>3 DEF Shown, At, Trusted
  <2>3. QED
    BY <2>1, <2>2 DEF Granted, ShownBy, Proven
<1>4. Typing /\ Shown /\ [Next]_vars
        => [\A c \in Conns : (At(c, "posted") /\ conn[c].pc' = "granted")
              => Proven(c, conn[c].spot'.user)]_vars
  BY <1>3
<1>5. QED
  BY <1>1, <1>2, <1>4, PTL DEF Spec, SpotsAreProven

-----------------------------------------------------------------------------
(* Most steps of a task neither post a request nor touch a spot.           *)
Calm ==
    /\ \A d \in Conns : conn'[d].pc \in {"posted", "granted"} =>
         conn'[d].pc = conn[d].pc /\ conn'[d].spot = conn[d].spot
    /\ UNCHANGED <<row, phase, start, home, theirs, reserved, left, list, poll, fetched, holds>>

\* Packets, answers, logins and the first look-up are such steps.
LEMMA CalmSteps ==
    ASSUME Typing, NEW c \in Conns,
           \/ Connect(c) \/ Hangup(c) \/ QueryPanics(c) \/ Leave(c)
           \/ \E v \in Versions : PatchRequest(c, v)
           \/ \E creds \in Credentials : LoginRequest(c, creds)
           \/ \E code \in Codes : SecurityCodeInput(c, code)
           \/ try_login(c) \/ try_login_passcode(c) \/ server_details(c)
           \/ RefuseRequest(c) \/ RequestFails(c) \/ AccountUnread(c) \/ AnswerLost(c)
    PROVE  Calm
<1>1. UNCHANGED <<row, phase, start, home, theirs, reserved, left, list, poll, fetched, holds>>
  BY DEF Connect, Hangup, QueryPanics, Leave, PatchRequest, LoginRequest, SecurityCodeInput,
     try_login, try_login_passcode, server_details, RefuseRequest, RequestFails, AccountUnread,
     AnswerLost, Agent!Leave, agentVars, spotVars, pollVars
<1>2. conn[c] \in Fields /\ conn \in [Conns -> Conn]
  BY DEF Typing, Conn
<1>3. \A d \in Conns \ {c} : conn'[d] = conn[d]
  BY <1>2, LookedUp DEF Connect, Hangup, QueryPanics, Leave, PatchRequest, LoginRequest,
     SecurityCodeInput, try_login, try_login_passcode, RefuseRequest, RequestFails,
     AccountUnread, AnswerLost, Answer, Move
<1>4. CASE Answer(c)
  BY <1>1, <1>2, <1>3, <1>4 DEF Answer, Idle, Closed, Calm
<1>5. CASE Hangup(c)
  BY <1>1, <1>2, <1>3, <1>5 DEF Hangup, Closed, Calm, Fields
<1>6. CASE Connect(c) \/ QueryPanics(c) \/ Leave(c) \/ \E v \in Versions : PatchRequest(c, v)
  <2>1. conn'[c] \in {Idle(None), Closed, conn[c]}
    BY <1>2, <1>6 DEF Connect, QueryPanics, Leave, PatchRequest
  <2>2. conn'[c] = conn[c] \/ conn'[c].pc \in {"idle", "closed"}
    BY <2>1, Resting
  <2>3. QED
    BY <1>1, <1>3, <2>2 DEF Calm
<1>7. CASE \E creds \in Credentials : LoginRequest(c, creds)
  BY <1>1, <1>2, <1>3, <1>7 DEF LoginRequest, Idle, Closed, Calm
<1>8. CASE \E code \in Codes : SecurityCodeInput(c, code)
  <2>1. conn'[c].pc = "code"
    BY <1>2, <1>8 DEF SecurityCodeInput, Fields
  <2>2. QED
    BY <1>1, <1>3, <2>1 DEF Calm
<1>9. CASE Move(c, "details")
  BY <1>1, <1>2, <1>3, <1>9 DEF Move, Calm, Fields
<1>10. CASE server_details(c)
  <2>1. CASE conn'[c] = [[conn[c] EXCEPT !.pc = "reserve"] EXCEPT !.spot = [home |-> list.home]]
    <3>1. conn'[c].pc = "reserve"
      BY <1>2, <2>1 DEF Fields
    <3>2. QED
      BY <1>1, <1>3, <3>1 DEF Calm
  <2>2. QED
    BY <1>2, <1>4, <1>10, <2>1, LookedUp
<1>11. QED
  BY <1>4, <1>5, <1>6, <1>7, <1>8, <1>9, <1>10 DEF try_login, try_login_passcode, RefuseRequest,
     RequestFails, AccountUnread, AnswerLost

-----------------------------------------------------------------------------
(* What an entry says of the agent.  The row, the list and the entry the   *)
(* poll task works on may be of an earlier start; one that carries the     *)
(* token of this start also has this start's address.  The same goes for   *)
(* what a request was posted with.                                         *)
Truthful(e) == e.start <= start /\ (e.start = start => e.home = home)
Entries ==
    /\ row # None => Truthful(row)
    /\ list # None => Truthful(list)
    /\ fetched # None \/ poll = "asking" => Truthful(fetched)
    /\ \A c \in Conns : At(c, "posted") =>
         /\ conn[c].spot.auth <= start
         /\ conn[c].spot.auth = start => conn[c].spot.listed = home

\* Nothing has been registered, listed or posted yet.
LEMMA EntriesInit == Init => Entries
  BY DEF Init, Entries, At, Closed

\* The poll, the look-ups and a restart at another address keep the entries
\* truthful.
LEMMA EntriesStep ==
    ASSUME Typing, Entries, [Next]_vars PROVE Entries'
<1>1. ASSUME UNCHANGED <<row, start, home, list, poll, fetched>>,
             \A c \in Conns : conn'[c].pc = "posted" =>
               conn[c].pc = "posted" /\ conn'[c].spot = conn[c].spot
      PROVE  Entries'
  BY <1>1 DEF Entries, Truthful, At
<1>2. conn \in [Conns -> Conn] /\ \A c \in Conns : conn[c] \in Fields
  BY DEF Typing, Conn
<1>3. CASE Calm
  BY <1>1, <1>3 DEF Calm
<1>4. ASSUME NEW c \in Conns, reserve(c) PROVE Entries'
  <2>1. CASE Answer(c)
    BY <1>1, <1>2, <1>4, <2>1 DEF reserve, Answer, Idle, Closed, agentVars, pollVars
  <2>2. CASE /\ list \in Entry
             /\ list # None
             /\ conn' = [conn EXCEPT ![c] = [[conn[c] EXCEPT !.pc = "posted"]
                  EXCEPT !.spot = [home |-> conn[c].spot.home, listed |-> list.home,
                                   auth |-> list.start]]]
    <3>1. conn'[c].spot.auth = list.start /\ conn'[c].spot.listed = list.home
      BY <1>2, <2>2 DEF Fields
    <3>2. \A d \in Conns \ {c} : conn'[d] = conn[d]
      BY <1>2, <2>2
    <3>3. Truthful(list)
      BY <2>2 DEF Entries
    <3>4. UNCHANGED <<row, start, home, list, poll, fetched>>
      BY <1>4 DEF reserve, agentVars, pollVars
    <3>5. QED
      BY <3>1, <3>2, <3>3, <3>4 DEF Entries, Truthful, At
  <2>3. QED
    BY <1>4, <2>1, <2>2, LookedUp
<1>5. ASSUME NEW c \in Conns, TellSpot(c) \/ Enter(c) \/ \E t \in Tokens : handle_spot_request(c, t)
      PROVE  Entries'
  <2>1. conn'[c].pc # "posted" /\ \A d \in Conns \ {c} : conn'[d] = conn[d]
    <3>1. CASE TellSpot(c) \/ Enter(c)
      <4>1. conn'[c] \in {Closed, Idle(conn[c].creds)} /\ \A d \in Conns \ {c} : conn'[d] = conn[d]
        BY <1>2, <3>1 DEF TellSpot, Enter, Answer
      <4>2. QED
        BY <4>1, Resting
    <3>2. CASE \E t \in Tokens : handle_spot_request(c, t)
      BY <1>2, <3>2 DEF handle_spot_request, Fields
    <3>3. QED
      BY <1>5, <3>1, <3>2
  <2>2. UNCHANGED <<row, start, home, list, poll, fetched>>
    BY <1>5 DEF TellSpot, Enter, handle_spot_request, agentVars, pollVars
  <2>3. QED
    BY <1>1, <2>1, <2>2
<1>6. ASSUME Crash PROVE Entries'
  <2>1. \A c \in Conns : conn'[c] = conn[c] \/ conn'[c].pc = "failed"
    BY <1>2, <1>6 DEF Crash, Fields
  <2>2. QED
    BY <1>1, <1>6, <2>1 DEF Crash, pollVars
<1>7. ASSUME Pass PROVE Entries'
  <2>1. \A c \in Conns : conn'[c] = conn[c] \/ conn'[c].pc = "granted"
    BY <1>2, <1>7 DEF Pass, At, Fields
  <2>2. UNCHANGED <<row, start, home, list, poll, fetched>>
    BY <1>7, Zenon DEF Pass, agentVars, pollVars
  <2>3. QED
    BY <1>1, <2>1, <2>2
<1>8. ASSUME NEW h \in Homes, NEW region \in Regions, Start(h, region) PROVE Entries'
  <2>1. /\ start' = start + 1 /\ home' = h /\ row' = [start |-> start + 1, home |-> h, region |-> region]
        /\ UNCHANGED <<list, poll, fetched, conn>>
    BY <1>8 DEF Start, setup, pollVars
  <2>2. \A e \in Entry : Truthful(e) => Truthful(e)'
    BY <2>1 DEF Truthful, Entry, Typing
  <2>3. \A c \in Conns : At(c, "posted") =>
                           conn[c].spot.auth <= start' /\ conn[c].spot.auth # start'
    <3>1. ASSUME NEW c \in Conns, At(c, "posted")
          PROVE conn[c].spot.auth <= start' /\ conn[c].spot.auth # start'
      <4>1. conn[c].spot.auth \in Nat /\ conn[c].spot.auth <= start
        BY <3>1 DEF Entries, At, Typing, Conn, Posted
      <4>2. QED
        BY <2>1, <4>1 DEF Typing
    <3>2. QED
      BY <3>1
  <2>4. Truthful(row)'
    BY <2>1 DEF Truthful, Typing
  <2>5. (list # None => Truthful(list)') /\ (fetched # None \/ poll = "asking" => Truthful(fetched)')
    BY <2>1, <2>2 DEF Entries, Typing
  <2>6. QED
    BY <2>1, <2>3, <2>4, <2>5 DEF Entries, At
<1>9. ASSUME fetch_servers \/ FetchFails \/ StatusUnreadable \/ ReplaceList PROVE Entries'
  <2>1. UNCHANGED <<row, start, home, conn>>
    BY <1>9 DEF fetch_servers, FetchFails, StatusUnreadable, ReplaceList, agentVars
  <2>2. row # None => NewServer.start = row.start /\ NewServer.home = row.home
    BY DEF NewServer
  <2>3. (fetched' # None \/ poll' = "asking") => Truthful(fetched)'
    BY <1>9, <2>1, <2>2 DEF fetch_servers, FetchFails, StatusUnreadable, ReplaceList, KnownRegion,
       Entries, Truthful
  <2>4. list' # None => Truthful(list)'
    BY <1>9, <2>1 DEF fetch_servers, FetchFails, StatusUnreadable, ReplaceList, Replacement,
       Entries, Truthful
  <2>5. QED
    BY <2>1, <2>3, <2>4 DEF Entries, Truthful, At
<1>10. ASSUME request_server_status PROVE Entries'
  <2>1. fetched \in Entry
    BY <1>10 DEF request_server_status, Typing
  <2>2. fetched'.start = fetched.start /\ fetched'.home = fetched.home
    BY <1>10, <2>1 DEF request_server_status, update, Entry
  <2>3. Truthful(fetched)'
    BY <1>10, <2>1, <2>2 DEF request_server_status, agentVars, Entries, Truthful
  <2>4. QED
    BY <1>10, <2>3 DEF request_server_status, agentVars, Entries, Truthful, At
<1>11. CASE UNCHANGED <<row, start, home, list, poll, fetched, conn>>
  BY <1>1, <1>11
<1>12. QED
  BY <1>3, <1>4, <1>5, <1>6, <1>7, <1>8, <1>9, <1>10, <1>11, CalmSteps
  DEF Next, Clients, Task, Poll, register, WebUp, Expire, OtherRequest, OtherEnters, OtherLeaves,
      agentVars, pollVars, vars

-----------------------------------------------------------------------------
(* Reservations: tokens are unique among them, and a token another client  *)
(* may still use belongs to one.                                           *)
Reservations ==
    /\ \A r, q \in reserved : r.token = q.token => r = q
    /\ \A t \in theirs : \E r \in reserved : r.token = t

\* There are no reservations yet.
LEMMA ReservationsInit == Init => Reservations
  BY DEF Init, Agent!Init, Reservations

\* Reserving draws a token nobody's reservation has; handing in, expiry and a
\* crash take the token away with the reservation.
LEMMA ReservationsStep ==
    ASSUME Typing, Reservations, [Next]_vars PROVE Reservations'
<1>1. CASE UNCHANGED <<reserved, theirs>>
  BY <1>1 DEF Reservations
<1>2. ASSUME NEW c \in Conns, NEW t \in Tokens, handle_spot_request(c, t) PROVE Reservations'
  <2>1. /\ reserved' = reserved \cup {[user |-> conn[c].creds.name, token |-> t]}
        /\ \A r \in reserved : r.token # t
        /\ theirs' = theirs
    BY <1>2 DEF handle_spot_request, Agent!Reserve, agentVars
  <2>2. QED
    BY <2>1 DEF Reservations
<1>3. ASSUME NEW u \in Users, NEW t \in Tokens, OtherRequest(u, t) PROVE Reservations'
  <2> DEFINE new == [user |-> u, token |-> t]
  <2>1. reserved' = reserved \cup {new} /\ new.token = t /\ theirs' = theirs \cup {t}
    BY <1>3 DEF OtherRequest, Agent!Reserve
  <2>2. \A r \in reserved : r.token # t
    BY <1>3 DEF OtherRequest, Agent!Reserve
  <2> HIDE DEF new
  <2>3. QED
    BY <2>1, <2>2 DEF Reservations
<1>4. ASSUME NEW r \in reserved, reserved' = reserved \ {r}, theirs' = theirs \ {r.token}
      PROVE  Reservations'
  BY <1>4 DEF Reservations
<1>5. ASSUME NEW c \in Conns, Enter(c) PROVE Reservations'
  <2>1. \/ reserved' = reserved
        \/ \E r \in reserved : r.token = holds[c].token /\ reserved' = reserved \ {r}
    BY <1>5 DEF Enter, Agent!HandIn, spotVars
  <2>2. theirs' = theirs \ {holds[c].token}
    BY <1>5 DEF Enter
  <2>3. QED
    BY <1>4, <2>1, <2>2 DEF Reservations
<1>6. CASE Crash
  BY <1>6 DEF Crash, Reservations
<1>7. ASSUME NEW r \in reserved, Expire(r) \/ \E o \in Others : OtherEnters(r, o) PROVE Reservations'
  BY <1>4, <1>7 DEF Expire, OtherEnters, Agent!Expire, Agent!HandIn
<1>8. CASE Pass
  BY <1>1, <1>8, Zenon DEF Pass, Agent!Pass, agentVars
<1>9. QED
  BY <1>1, <1>2, <1>3, <1>5, <1>6, <1>7, <1>8, CalmSteps
  DEF Next, Clients, Task, Poll, register, reserve, TellSpot, Start, WebUp, OtherLeaves,
      fetch_servers, FetchFails, request_server_status, StatusUnreadable, ReplaceList,
      Agent!Leave, Calm, agentVars, spotVars, vars

-----------------------------------------------------------------------------
(* Promises.  A spot a client remembers, or that is on its way to it, is   *)
(* of this start of the agent or of an earlier one.  While it is live, its *)
(* reservation stands for at least as long, and its token is in nobody     *)
(* else's hands: whoever hands in that token is the client it was given    *)
(* to.  That last part is why a promise can be kept, and it needs that the *)
(* number the agent draws is not one that another client remembers from an *)
(* earlier spot.                                                           *)
Memory(c, s) ==
    \/ holds[c] # None /\ s = holds[c]
    \/ At(c, "granted") /\ s = conn[c].spot
Live(s) == phase = "up" /\ s.start = start /\ s.time > 0
Backed(s) ==
    /\ [user |-> s.user, token |-> s.token] \in reserved
    /\ left[s.token] >= s.time
    /\ s.token \notin theirs
Promise(c, s) ==
    /\ s.start <= start
    /\ s.start = start => s.listed = home /\ phase # "registered"
    /\ Live(s) => /\ Backed(s)
                  /\ \A d \in Conns \ {c} : \A z \in Spot : Memory(d, z) => z.token # s.token
Promises == \A c \in Conns : \A s \in Spot : Memory(c, s) => Promise(c, s)

\* reserve_spot draws among all 32-bit numbers that no reservation has now;
\* here it does not hit one that another client still remembers.
FreshDraw ==
    \A c \in Conns : (At(c, "posted") /\ conn[c].pc' = "granted") =>
      \A d \in Conns \ {c} : \A z \in Spot : Memory(d, z) => z.token # conn[c].spot'.token

\* Nobody remembers a spot yet.
LEMMA PromisesInit == Init => Promises
  BY DEF Init, Closed, Promises, Memory, At

\* Forgetting spots, or reservations that back no live spot, breaks no promise.
LEMMA PromisesKept ==
    ASSUME Promises, UNCHANGED <<phase, start, home>>,
           \A c \in Conns : \A s \in Spot : Memory(c, s)' => Memory(c, s),
           \A c \in Conns : \A s \in Spot :
             (Memory(c, s)' /\ Live(s) /\ Backed(s)) => Backed(s)'
    PROVE  Promises'
<1>1. ASSUME NEW c \in Conns, NEW s \in Spot, Memory(c, s)' PROVE Promise(c, s)'
  <2>1. Memory(c, s) /\ Promise(c, s)
    BY <1>1 DEF Promises
  <2>2. Live(s)' <=> Live(s)
    BY DEF Live
  <2>3. Live(s) => Backed(s)'
    BY <1>1, <2>1 DEF Promise
  <2>4. QED
    BY <2>1, <2>2, <2>3 DEF Promise
<1>2. QED
  BY <1>1 DEF Promises

\* Every step keeps the promises, as long as tokens are drawn afresh.
LEMMA PromisesStep ==
    ASSUME Typing, Typing', Entries, Reservations, Promises, [Next]_vars, FreshDraw \/ UNCHANGED vars
    PROVE  Promises'
<1>1. conn \in [Conns -> Conn] /\ \A c \in Conns : conn[c] \in Fields
  BY DEF Typing, Conn
<1>2. \A c \in Conns : (holds[c] # None => holds[c] \in Spot) /\ (At(c, "granted") => conn[c].spot \in Spot)
  BY DEF Typing, At, Conn
<1>3. CASE Calm
  BY <1>3, PromisesKept DEF Calm, Memory, At, Backed
<1>4. CASE UNCHANGED <<phase, start, home, theirs, reserved, left, conn, holds>>
  BY <1>4, PromisesKept DEF Memory, At, Backed
<1>5. ASSUME NEW c \in Conns, reserve(c) PROVE Promises'
  <2>1. conn'[c].pc # "granted" /\ \A d \in Conns \ {c} : conn'[d] = conn[d]
    <3>1. CASE Answer(c)
      BY <1>1, <3>1 DEF Answer, Idle, Closed
    <3>2. CASE conn' = [conn EXCEPT ![c] = [[conn[c] EXCEPT !.pc = "posted"]
                  EXCEPT !.spot = [home |-> conn[c].spot.home, listed |-> list.home,
                                   auth |-> list.start]]]
      BY <1>1, <3>2 DEF Fields
    <3>3. QED
      BY <1>5, <3>1, <3>2, LookedUp
  <2>2. UNCHANGED <<phase, start, home, theirs, reserved, left, holds>>
    BY <1>5 DEF reserve, agentVars, spotVars
  <2>3. QED
    BY <2>1, <2>2, PromisesKept DEF Memory, At, Backed
<1>6. ASSUME NEW c \in Conns, TellSpot(c) PROVE Promises'
  <2>1. conn'[c].pc # "granted" /\ \A d \in Conns \ {c} : conn'[d] = conn[d]
    BY <1>1, <1>6, Resting DEF TellSpot, Answer
  <2>2. /\ At(c, "granted") /\ holds'[c] \in {conn[c].spot, holds[c]}
        /\ \A d \in Conns \ {c} : holds'[d] = holds[d]
    BY <1>6 DEF TellSpot, Typing
  <2>3. UNCHANGED <<phase, start, home, theirs, reserved, left>>
    BY <1>6 DEF TellSpot, agentVars, spotVars
  <2>4. QED
    BY <2>1, <2>2, <2>3, PromisesKept DEF Memory, At, Backed
<1>7. ASSUME NEW c \in Conns, NEW t \in Tokens, handle_spot_request(c, t) PROVE Promises'
  <2>0. PICK new : new = Granted(c, t)
    OBVIOUS
  <2>1. /\ At(c, "posted") /\ phase = "up" /\ conn[c].spot.auth = start
        /\ conn'[c].pc = "granted" /\ conn'[c].spot = new
        /\ \A d \in Conns \ {c} : conn'[d] = conn[d]
    BY <1>1, <1>7, <2>0 DEF handle_spot_request, Admissible, Fields
  <2>2. /\ reserved' = reserved \cup {[user |-> conn[c].creds.name, token |-> t]}
        /\ left' = [left EXCEPT ![t] = ValidTime]
        /\ \A r \in reserved : r.token # t
        /\ UNCHANGED <<phase, start, home, theirs, holds>>
    BY <1>7 DEF handle_spot_request, Agent!Reserve, agentVars
  <2>3. /\ new.user = conn[c].creds.name /\ new.token = t /\ new.start = start
        /\ new.time = ValidTime /\ new.listed = conn[c].spot.listed
    BY <2>0 DEF Granted
  <2>4. ASSUME NEW d \in Conns, NEW z \in Spot, Memory(d, z)'
        PROVE  Memory(d, z) \/ (d = c /\ z = new)
    BY <2>1, <2>2, <2>4 DEF Memory, At
  <2>5. ASSUME NEW d \in Conns, NEW z \in Spot, Memory(d, z), Live(z)
        PROVE  Backed(z)' /\ z.token # t
    <3>1. Backed(z) /\ z.token \in Tokens
      BY <2>5 DEF Promises, Promise, Spot
    <3>2. z.token # t
      BY <2>2, <3>1 DEF Backed
    <3>3. left'[z.token] = left[z.token]
      BY <2>2, <3>1, <3>2 DEF Typing
    <3>4. QED
      BY <2>2, <3>1, <3>2, <3>3 DEF Backed
  <2>6. Promise(c, new)'
    <3>1. new.start <= start' /\ new.listed = home' /\ phase' # "registered"
      BY <2>1, <2>2, <2>3 DEF Entries, Typing
    <3>2. Backed(new)'
      <4>1. t \notin theirs
        BY <2>2 DEF Reservations
      <4>2. left'[t] >= ValidTime
        BY <2>2, GatewayAssumption DEF Typing
      <4>3. QED
        BY <2>2, <2>3, <4>1, <4>2 DEF Backed
    <3>3. FreshDraw
      <4>1. ~UNCHANGED vars
        BY <2>1 DEF vars, At
      <4>2. QED
        BY <4>1
    <3>4. ASSUME NEW d \in Conns \ {c}, NEW z \in Spot, Memory(d, z)' PROVE z.token # t
      <4>1. Memory(d, z)
        BY <2>4, <3>4
      <4>2. QED
        BY <2>1, <2>3, <3>3, <4>1 DEF FreshDraw
    <3>5. QED
      BY <2>3, <3>1, <3>2, <3>4 DEF Promise
  <2>7. ASSUME NEW d \in Conns, NEW z \in Spot, Memory(d, z) PROVE Promise(d, z)'
    <3>1. Promise(d, z)
      BY <2>7 DEF Promises
    <3>2. Live(z)' => Live(z)
      BY <2>2 DEF Live
    <3>3. ASSUME Live(z), NEW e \in Conns \ {d}, NEW y \in Spot, Memory(e, y)'
          PROVE  y.token # z.token
      <4>1. CASE Memory(e, y)
        BY <3>1, <3>3, <4>1 DEF Promise
      <4>2. CASE y = new
        BY <2>3, <2>5, <2>7, <3>3, <4>2
      <4>3. QED
        BY <2>4, <3>3, <4>1, <4>2
    <3>4. QED
      BY <2>2, <2>5, <2>7, <3>1, <3>2, <3>3 DEF Promise
  <2>8. QED
    BY <2>4, <2>6, <2>7 DEF Promises
<1>8. ASSUME NEW c \in Conns, Enter(c) PROVE Promises'
  <2>1. conn'[c].pc = "closed" /\ \A d \in Conns \ {c} : conn'[d] = conn[d]
    BY <1>1, <1>8, Resting DEF Enter
  <2>2. holds'[c] = None /\ \A d \in Conns \ {c} : holds'[d] = holds[d]
    BY <1>8 DEF Enter, Typing
  <2>3. /\ holds[c] # None /\ theirs' \subseteq theirs /\ UNCHANGED <<phase, start, home, left>>
        /\ \/ reserved' = reserved
           \/ \E r \in reserved : r.token = holds[c].token /\ reserved' = reserved \ {r}
    BY <1>8 DEF Enter, Agent!HandIn, spotVars
  <2>4. ASSUME NEW d \in Conns, NEW s \in Spot, Memory(d, s)' PROVE d # c /\ Memory(d, s)
    BY <2>1, <2>2, <2>4 DEF Memory, At
  <2>5. ASSUME NEW d \in Conns, NEW s \in Spot, Memory(d, s)', Live(s), Backed(s) PROVE Backed(s)'
    <3>1. holds[c] \in Spot /\ Memory(c, holds[c])
      BY <1>2, <2>3 DEF Memory
    <3>2. holds[c].token # s.token
      BY <2>4, <2>5, <3>1 DEF Promises, Promise
    <3>3. QED
      BY <2>3, <2>5, <3>2 DEF Backed
  <2>6. QED
    BY <2>3, <2>4, <2>5, PromisesKept
<1>9. ASSUME NEW h \in Homes, NEW region \in Regions, Start(h, region) PROVE Promises'
  <2>1. start' = start + 1 /\ UNCHANGED <<conn, holds>> /\ phase' = "registered"
    BY <1>9 DEF Start
  <2>2. ASSUME NEW c \in Conns, NEW s \in Spot, Memory(c, s)' PROVE Promise(c, s)'
    <3>1. s.start <= start /\ s.start \in Nat
      BY <2>1, <2>2 DEF Memory, At, Promises, Promise, Spot
    <3>2. s.start <= start' /\ s.start # start'
      BY <2>1, <3>1 DEF Typing
    <3>3. QED
      BY <3>2 DEF Promise, Live
  <2>3. QED
    BY <2>2 DEF Promises
<1>10. ASSUME WebUp PROVE Promises'
  <2>1. phase = "registered" /\ phase' = "up" /\ UNCHANGED <<start, home, conn, holds>>
    BY <1>10 DEF WebUp
  <2>2. ASSUME NEW c \in Conns, NEW s \in Spot, Memory(c, s)' PROVE Promise(c, s)'
    <3>1. Promise(c, s)
      BY <2>1, <2>2 DEF Memory, At, Promises
    <3>2. s.start <= start' /\ s.start # start'
      BY <2>1, <3>1 DEF Promise
    <3>3. QED
      BY <3>2 DEF Promise, Live
  <2>3. QED
    BY <2>2 DEF Promises
<1>11. ASSUME Crash PROVE Promises'
  <2>1. phase' = "down" /\ UNCHANGED <<start, home, holds>>
    BY <1>11 DEF Crash
  <2>2. \A c \in Conns : conn'[c] = conn[c] \/ conn'[c].pc = "failed"
    BY <1>1, <1>11 DEF Crash, Fields
  <2>3. ASSUME NEW c \in Conns, NEW s \in Spot, Memory(c, s)' PROVE Promise(c, s)'
    <3>1. Memory(c, s)
      BY <2>1, <2>2, <2>3 DEF Memory, At
    <3>2. Promise(c, s)
      BY <3>1 DEF Promises
    <3>3. QED
      BY <2>1, <3>2 DEF Promise, Live
  <2>4. QED
    BY <2>3 DEF Promises
<1>12. ASSUME Pass PROVE Promises'
  <2>1. /\ Agent!Pass
        /\ holds' = [c \in Conns |-> IF holds[c] = None THEN None
                                     ELSE [holds[c] EXCEPT !.time = Less(@)]]
        /\ conn' = [c \in Conns |-> IF At(c, "granted")
                                    THEN [conn[c] EXCEPT !.spot.time = Less(@)] ELSE conn[c]]
        /\ UNCHANGED <<phase, start, home, theirs>>
    BY <1>12, Zenon DEF Pass, agentVars
  <2>2. reserved' = reserved /\ \A t \in Tokens : left'[t] = Less(left[t])
    BY <2>1 DEF Agent!Pass, Less
  <2>3. ASSUME NEW c \in Conns, NEW s \in Spot, Memory(c, s)'
        PROVE  \E z \in Spot : Memory(c, z) /\ s = [z EXCEPT !.time = Less(@)]
    <3>1. CASE holds'[c] # None /\ s = holds'[c]
      <4>1. holds[c] # None /\ s = [holds[c] EXCEPT !.time = Less(@)]
        BY <2>1, <3>1, Zenon
      <4>2. QED
        BY <1>2, <4>1 DEF Memory
    <3>2. CASE conn'[c].pc = "granted" /\ s = conn'[c].spot
      <4>1. At(c, "granted")
        BY <2>1, <3>2 DEF At
      <4>2. conn'[c] = [conn[c] EXCEPT !.spot.time = Less(@)]
        BY <2>1, <4>1, Zenon
      <4>3. s = [conn[c].spot EXCEPT !.time = Less(@)]
        BY <1>1, <3>2, <4>2 DEF Fields
      <4>4. QED
        BY <1>2, <4>1, <4>3 DEF Memory
    <3>3. QED
      BY <2>3, <3>1, <3>2 DEF Memory, At
  <2>4. ASSUME NEW z \in Spot, NEW s, s = [z EXCEPT !.time = Less(@)]
        PROVE  /\ s.start = z.start /\ s.listed = z.listed /\ s.token = z.token /\ s.user = z.user
               /\ s.time = Less(z.time)
    BY <2>4 DEF Spot
  <2>5. ASSUME NEW c \in Conns, NEW s \in Spot, Memory(c, s)' PROVE Promise(c, s)'
    <3>1. PICK z \in Spot : Memory(c, z) /\ s = [z EXCEPT !.time = Less(@)]
      BY <2>3, <2>5
    <3>2. /\ s.start = z.start /\ s.listed = z.listed /\ s.token = z.token /\ s.user = z.user
          /\ s.time = Less(z.time)
      BY <2>4, <3>1
    <3>3. Promise(c, z)
      BY <3>1 DEF Promises
    <3>4. Live(s)' => Live(z)
      BY <2>1, <3>2 DEF Live, Less, Spot
    <3>5. Live(z) => Backed(s)'
      <4>1. z.time \in Nat /\ left[z.token] \in Nat /\ z.token \in Tokens
        BY DEF Spot, Typing
      <4>2. left[z.token] >= z.time => Less(left[z.token]) >= Less(z.time)
        BY <4>1 DEF Less
      <4>3. QED
        BY <2>1, <2>2, <3>2, <3>3, <4>1, <4>2 DEF Promise, Backed
    <3>6. ASSUME Live(z), NEW d \in Conns \ {c}, NEW y \in Spot, Memory(d, y)' PROVE y.token # s.token
      <4>1. PICK x \in Spot : Memory(d, x) /\ y = [x EXCEPT !.time = Less(@)]
        BY <2>3, <3>6
      <4>2. y.token = x.token
        BY <2>4, <4>1
      <4>3. QED
        BY <3>2, <3>3, <3>6, <4>1, <4>2 DEF Promise
    <3>7. QED
      BY <2>1, <3>2, <3>3, <3>4, <3>5, <3>6 DEF Promise
  <2>6. QED
    BY <2>5 DEF Promises
<1>13. ASSUME NEW r \in reserved, Expire(r) PROVE Promises'
  <2>1. /\ reserved' = reserved \ {r} /\ left[r.token] = 0 /\ theirs' \subseteq theirs
        /\ UNCHANGED <<phase, start, home, left, conn, holds>>
    BY <1>13 DEF Expire, Agent!Expire
  <2>2. ASSUME NEW s \in Spot, Live(s), Backed(s) PROVE Backed(s)'
    <3>1. s.token # r.token
      BY <2>1, <2>2 DEF Live, Backed, Spot
    <3>2. QED
      BY <2>1, <2>2, <3>1 DEF Backed
  <2>3. QED
    BY <2>1, <2>2, PromisesKept DEF Memory, At
<1>14. ASSUME NEW u \in Users, NEW t \in Tokens, OtherRequest(u, t) PROVE Promises'
  <2>1. /\ reserved' = reserved \cup {[user |-> u, token |-> t]}
        /\ left' = [left EXCEPT ![t] = ValidTime] /\ theirs' = theirs \cup {t}
        /\ \A r \in reserved : r.token # t
        /\ UNCHANGED <<phase, start, home, conn, holds>>
    BY <1>14 DEF OtherRequest, Agent!Reserve
  <2>2. ASSUME NEW s \in Spot, Backed(s) PROVE Backed(s)'
    <3>1. s.token # t /\ s.token \in Tokens
      BY <2>1, <2>2 DEF Backed, Spot
    <3>2. left'[s.token] = left[s.token]
      BY <2>1, <3>1 DEF Typing
    <3>3. QED
      BY <2>1, <2>2, <3>1, <3>2 DEF Backed
  <2>3. QED
    BY <2>1, <2>2, PromisesKept DEF Memory, At
<1>15. ASSUME NEW r \in reserved, NEW o \in Others, OtherEnters(r, o) PROVE Promises'
  <2>1. /\ reserved' = reserved \ {r} /\ r.token \in theirs /\ theirs' \subseteq theirs
        /\ UNCHANGED <<phase, start, home, left, conn, holds>>
    BY <1>15 DEF OtherEnters, Agent!HandIn
  <2>2. ASSUME NEW s \in Spot, Backed(s) PROVE Backed(s)'
    BY <2>1, <2>2 DEF Backed
  <2>3. QED
    BY <2>1, <2>2, PromisesKept DEF Memory, At
<1>16. QED
  BY <1>3, <1>4, <1>5, <1>6, <1>7, <1>8, <1>9, <1>10, <1>11, <1>12, <1>13, <1>14, <1>15, CalmSteps
  DEF Next, Clients, Task, Poll, register, OtherLeaves, fetch_servers, FetchFails,
      request_server_status, StatusUnreadable, ReplaceList, Agent!Leave, agentVars, spotVars, vars

\* What the property asks is part of the promise a client holds.
LEMMA PromisesWork == Typing /\ Promises => TokenWorks
<1>1. ASSUME Typing, Promises, NEW c \in Conns, holds[c] # None, phase = "up",
             holds[c].start = start, holds[c].time > 0
      PROVE  /\ [user |-> holds[c].user, token |-> holds[c].token] \in reserved
             /\ holds[c].listed = holds[c].home => home = holds[c].home
  <2>1. holds[c] \in Spot /\ Memory(c, holds[c])
    BY <1>1 DEF Typing, Memory
  <2>2. Promise(c, holds[c])
    BY <1>1, <2>1 DEF Promises
  <2>3. QED
    BY <1>1, <2>2 DEF Promise, Live, Backed
<1>2. QED
  BY <1>1 DEF TokenWorks

\* For every number of connections, a client that was told of a spot finds its
\* reservation at the agent, at the address it was told, provided the numbers
\* the agent draws are not ones another client still remembers.
THEOREM TokensWork == Spec /\ [][FreshDraw]_vars => []TokenWorks
<1> DEFINE Inv == Typing /\ Entries /\ Reservations /\ Promises
<1>1. Init => Inv
  BY TypingInit, EntriesInit, ReservationsInit, PromisesInit
<1>2. Inv /\ [Next]_vars /\ [FreshDraw]_vars => Inv'
  <2>1. SUFFICES ASSUME Inv, [Next]_vars, [FreshDraw]_vars PROVE Inv'
    OBVIOUS
  <2>2. Typing'
    BY <2>1, TypingStep
  <2>3. Entries' /\ Reservations'
    BY <2>1, EntriesStep, ReservationsStep
  <2>4. Promises'
    BY <2>1, <2>2, PromisesStep
  <2>5. QED
    BY <2>2, <2>3, <2>4
<1>3. Inv => TokenWorks
  BY PromisesWork
<1>4. QED
  BY <1>1, <1>2, <1>3, PTL DEF Spec

\* With one connection, whatever the other clients of the agent do, nothing
\* has to be assumed of the draws.
THEOREM TokensWorkForOne == ASSUME NEW c, Conns = {c} PROVE Spec => []TokenWorks
<1>1. FreshDraw
  BY DEF FreshDraw
<1>2. Spec => [][FreshDraw]_vars
  BY <1>1, PTL
<1>3. QED
  BY <1>2, TokensWork, PTL
====
