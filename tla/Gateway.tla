------------------------------ MODULE Gateway ------------------------------
(***************************************************************************)
(* The gateway (silkroad-gateway) in front of a game server: clients that  *)
(* log in, type a passcode and are given a spot (client.rs, login.rs), and *)
(* the task that polls the servers table and the agent (agentserver.rs).   *)
(* The agent is taken at what Admission promises, which LoginQueue         *)
(* implements; here it also starts, registers itself and crashes           *)
(* (main.rs, db/server.rs), and its token is checked (login/web.rs).       *)
(*                                                                         *)
(* Every database query, every read of the shared list and every half of   *)
(* an HTTP call is a step of its own.  Connections share nothing but the   *)
(* list and the agent, so OtherRequest, OtherEnters and OtherLeaves stand  *)
(* for any number of other clients.                                        *)
(***************************************************************************)
EXTENDS Integers, FiniteSets

CONSTANTS
    Conns,          \* connections to the gateway
    Registered,     \* accounts there are: rows of name, password, passcode
    Registrations,  \* accounts the register command may be asked for
    Credentials,    \* what clients type: name, password, shard
    Codes,          \* passcodes clients type
    Garbled,        \* the one that decode_passcode cannot read
    Versions,       \* client versions
    MinVersion, CurrentVersion,
    Homes,          \* addresses an agent can be configured to announce
    Regions,        \* regions an agent can be configured with
    Tokens,         \* session tokens
    Others,         \* game clients that belong to other connections
    Shard,          \* id of the agent's row
    Max, ValidTime,
    MaxStarts,      \* bound: starts of the agent
    MaxHappenings,  \* bound: crashes, faults, other clients
    None

ASSUME GatewayAssumption ==
    /\ None \notin Codes \cup Tokens \cup Homes /\ Garbled \in Codes
    /\ MinVersion <= CurrentVersion /\ ValidTime \in Nat \ {0}
    /\ Conns \cap Others = {}
    /\ \A r, s \in Registered : r.name = s.name => r = s

Users == {r.name : r \in Registered \cup Registrations}

VARIABLES
    users,       \* the rows of the users table
    row,         \* the agent's row in the servers table
    phase,       \* the agent: "down", "registered" or "up" (its web server runs)
    start,       \* its start; every start draws another web token
    home,        \* the address it is reached at
    reserved, left, seated,  \* its admission, see Admission
    list,        \* the shared list of servers: what it says of the agent
    poll,        \* the poll task: "sleep", "asking", "replace" or "dead"
    fetched,     \* the entry it is working on
    conn,        \* per connection: where its task is and what it remembers
    holds,       \* per connection: the spot its client was told of
    theirs,      \* tokens other clients were told
    happenings

agentVars == <<row, phase, start, home, theirs>>
spotVars == <<reserved, left, seated>>
pollVars == <<list, poll, fetched>>
vars == <<users, agentVars, spotVars, pollVars, conn, holds, happenings>>

Agent == INSTANCE Admission WITH Clients <- Conns \cup Others

Closed == [pc |-> "closed", creds |-> None, code |-> None, spot |-> None, open |-> FALSE]
\* What handle_socket keeps between packets: last_credentials.
Idle(creds) == [Closed EXCEPT !.pc = "idle", !.creds = creds, !.open = TRUE]

Happens == happenings < MaxHappenings /\ happenings' = happenings + 1

\* Patcher::get_patch_information; get_patches_for is a todo!().
get_patch_information(v) ==
    IF v = CurrentVersion THEN "UpToDate"
    ELSE IF v < CurrentVersion /\ v >= MinVersion THEN "RequiresUpdate"
    ELSE "Outdated"

-----------------------------------------------------------------------------
(* Accounts: the register command.  It looks for the name and inserts the  *)
(* row; of two that run at once the unique name refuses the later one.     *)

register(r) ==
    /\ \A u \in users : u.name # r.name
    /\ users' = users \cup {r}
    /\ UNCHANGED <<agentVars, spotVars, pollVars, conn, holds, happenings>>

\* try_login and try_login_passcode: what the queries find, then bcrypt.
PasswordFits(creds) ==
    \E u \in users : u.name = creds.name /\ u.password = creds.password
NeedsCode(creds) == \E u \in users : u.name = creds.name /\ u.passcode # None
\* A slip in the passcode query's result: the password is not verified again.
CodeAlone(creds, code) == \E u \in users : u.name = creds.name /\ u.passcode = code
CodeFits(creds, code) ==
    /\ \E u \in users : u.name = creds.name /\ u.passcode = code
    /\ PasswordFits(creds)

-----------------------------------------------------------------------------
(* A client of the gateway.  A task that ends, for whatever reason, closes *)
(* the connection.                                                         *)

At(c, label) == conn[c].pc = label
Move(c, label) == conn' = [conn EXCEPT ![c].pc = label]
\* The answer is sent and the next packet awaited; sending to a client that
\* has gone is the error that ends the task.
Answer(c) ==
    conn' = [conn EXCEPT ![c] = IF @.open THEN Idle(@.creds) ELSE Closed]

Connect(c) ==
    /\ At(c, "closed") /\ c \notin seated
    /\ conn' = [conn EXCEPT ![c] = Idle(None)]
    /\ UNCHANGED <<users, agentVars, spotVars, pollVars, holds, happenings>>

\* Ten seconds without a packet, or the client hangs up.  While the task
\* waits for something else it does not notice.
Hangup(c) ==
    /\ conn[c].open
    /\ conn' = [conn EXCEPT ![c] = IF At(c, "idle") THEN Closed
                                   ELSE [@ EXCEPT !.open = FALSE]]
    /\ UNCHANGED <<users, agentVars, spotVars, pollVars, holds, happenings>>

\* The patch of an old client is still to be written: the task panics.
PatchRequest(c, v) ==
    /\ At(c, "idle")
    /\ conn' = [conn EXCEPT ![c] =
                  IF get_patch_information(v) = "RequiresUpdate" THEN Closed ELSE @]
    /\ UNCHANGED <<users, agentVars, spotVars, pollVars, holds, happenings>>

LoginRequest(c, creds) ==
    /\ At(c, "idle")
    /\ conn' = [conn EXCEPT ![c] = [Idle(creds) EXCEPT !.pc = "login"]]
    /\ UNCHANGED <<users, agentVars, spotVars, pollVars, holds, happenings>>

\* MissingPasscode and InvalidCredentials are answers, Success goes on.
try_login(c) ==
    /\ At(c, "login")
    /\ IF PasswordFits(conn[c].creds) /\ ~NeedsCode(conn[c].creds)
         THEN Move(c, "details")
         ELSE Answer(c)
    /\ UNCHANGED <<users, agentVars, spotVars, pollVars, holds, happenings>>

\* Without an earlier login the packet is ignored; a code that cannot be
\* decoded is answered at once.
SecurityCodeInput(c, code) ==
    /\ At(c, "idle") /\ conn[c].creds # None /\ code # Garbled
    /\ conn' = [conn EXCEPT ![c].pc = "code", ![c].code = code]
    /\ UNCHANGED <<users, agentVars, spotVars, pollVars, holds, happenings>>

\* Success is answered too before it goes on: the task of a client that has gone
\* ends there, if the socket tells by then.
try_login_passcode(c) ==
    /\ At(c, "code")
    /\ IF CodeFits(conn[c].creds, conn[c].code)
         THEN Move(c, "details") \/ (~conn[c].open /\ Answer(c))
         ELSE Answer(c)
    /\ UNCHANGED <<users, agentVars, spotVars, pollVars, holds, happenings>>

\* An error of either query, or of loading the news, is unwrapped.
QueryPanics(c) ==
    /\ Happens
    /\ conn[c].pc \in {"idle", "login", "code"}
    /\ conn' = [conn EXCEPT ![c] = Closed]
    /\ UNCHANGED <<users, agentVars, spotVars, pollVars, holds>>

-----------------------------------------------------------------------------
(* try_reserve_spot: the address from the list, then reserve(), which      *)
(* looks the server up once more and posts with the token found there.     *)

Listed(c) == list # None /\ conn[c].creds.shard = Shard

server_details(c) ==
    /\ At(c, "details")
    /\ IF Listed(c)
         THEN conn' = [conn EXCEPT ![c].pc = "reserve",
                                   ![c].spot = [home |-> list.home]]
         ELSE Answer(c)
    /\ UNCHANGED <<users, agentVars, spotVars, pollVars, holds, happenings>>

reserve(c) ==
    /\ At(c, "reserve")
    /\ IF Listed(c)
         THEN conn' = [conn EXCEPT
                ![c].pc = "posted",
                ![c].spot = [home |-> @.home, listed |-> list.home, auth |-> list.start]]
         ELSE Answer(c)
    /\ UNCHANGED <<users, agentVars, spotVars, pollVars, holds, happenings>>

\* reserve_spot forgets what has expired before it looks for a spot.
Clean == \A r \in reserved : left[r.token] > 0
Granted(c, t) == [home |-> conn[c].spot.home, listed |-> conn[c].spot.listed,
                  user |-> conn[c].creds.name, token |-> t,
                  start |-> start, time |-> ValidTime]

\* handle_spot_request at the agent grants a spot ...
NoTokenCheck(c) == phase = "up" /\ At(c, "posted") /\ Clean
Admissible(c) == phase = "up" /\ At(c, "posted") /\ Clean /\ conn[c].spot.auth = start

handle_spot_request(c, t) ==
    /\ Admissible(c)
    /\ Agent!Reserve(conn[c].creds.name, t)
    /\ conn' = [conn EXCEPT ![c].pc = "granted", ![c].spot = Granted(c, t)]
    /\ UNCHANGED <<users, agentVars, pollVars, holds, happenings>>

\* ... or not: another start's token, an account with a reservation, no spot.
RefuseRequest(c) ==
    /\ phase = "up" /\ At(c, "posted")
    /\ \/ conn[c].spot.auth # start
       \/ Clean /\ \E r \in reserved : r.user = conn[c].creds.name
       \/ Clean /\ Cardinality(reserved) + Cardinality(seated) >= Max
    /\ Answer(c)
    /\ UNCHANGED <<users, agentVars, spotVars, pollVars, holds, happenings>>

\* The request cannot be sent, or its connection broke.
RequestFails(c) ==
    /\ At(c, "failed") \/ (At(c, "posted") /\ phase # "up")
    /\ Answer(c)
    /\ UNCHANGED <<users, agentVars, spotVars, pollVars, holds, happenings>>

\* ServerUser::fetch fails at the agent: NotFound.
AccountUnread(c) ==
    /\ At(c, "posted") /\ phase = "up" /\ Happens
    /\ Answer(c)
    /\ UNCHANGED <<users, agentVars, spotVars, pollVars, holds>>

\* The client learns of its spot, unless it has gone meanwhile.
TellSpot(c) ==
    /\ At(c, "granted")
    /\ holds' = [holds EXCEPT ![c] = IF conn[c].open THEN conn[c].spot ELSE @]
    /\ Answer(c)
    /\ UNCHANGED <<users, agentVars, spotVars, pollVars, happenings>>

\* The answer does not arrive; the spot stays taken.
AnswerLost(c) ==
    /\ At(c, "granted") /\ Happens
    /\ Answer(c)
    /\ UNCHANGED <<users, agentVars, spotVars, pollVars, holds>>

\* The client goes to the address it was told and hands the token in.
Enter(c) ==
    /\ holds[c] # None
    /\ IF /\ phase = "up" /\ home = holds[c].home
          /\ \E r \in reserved : r.token = holds[c].token
         THEN \E r \in reserved : r.token = holds[c].token /\ Agent!HandIn(r, c)
         ELSE UNCHANGED spotVars
    /\ holds' = [holds EXCEPT ![c] = None]
    /\ theirs' = theirs \ {holds[c].token}
    /\ conn' = [conn EXCEPT ![c] = Closed]
    /\ UNCHANGED <<users, row, phase, start, home, pollVars, happenings>>

Leave(c) ==
    /\ Agent!Leave(c)
    /\ UNCHANGED <<users, agentVars, pollVars, conn, holds, happenings>>

-----------------------------------------------------------------------------
(* The agent and the clients of other connections.                         *)

\* ServerRegistration::setup: the row is inserted or overwritten.
setup(h, region) == row' = [start |-> start + 1, home |-> h, region |-> region]

\* main draws a token and registers the agent before its web server runs.
Start(h, region) ==
    /\ phase = "down" /\ start < MaxStarts
    /\ phase' = "registered"
    /\ start' = start + 1 /\ home' = h
    /\ setup(h, region)
    /\ UNCHANGED <<users, theirs, spotVars, pollVars, conn, holds, happenings>>

WebUp ==
    /\ phase = "registered"
    /\ phase' = "up"
    /\ UNCHANGED <<users, row, start, home, theirs, spotVars, pollVars, conn, holds, happenings>>

\* Everything but the row is in memory; callers see a broken connection.
Crash ==
    /\ phase # "down" /\ Happens
    /\ phase' = "down"
    /\ reserved' = {} /\ seated' = {} /\ theirs' = {} /\ left' = [t \in Tokens |-> 0]
    /\ conn' = [c \in Conns |->
                  IF At(c, "granted") THEN [conn[c] EXCEPT !.pc = "failed", !.spot = None] ELSE conn[c]]
    /\ UNCHANGED <<users, row, start, home, pollVars, holds>>

Expire(r) ==
    /\ Agent!Expire(r)
    /\ theirs' = theirs \ {r.token}
    /\ UNCHANGED <<users, row, phase, start, home, pollVars, conn, holds, happenings>>

OtherRequest(u, t) ==
    /\ phase = "up" /\ Clean /\ Happens
    /\ \E a \in users : a.name = u
    /\ Agent!Reserve(u, t)
    /\ theirs' = theirs \cup {t}
    /\ UNCHANGED <<users, row, phase, start, home, pollVars, conn, holds>>

OtherEnters(r, o) ==
    /\ r.token \in theirs
    /\ Agent!HandIn(r, o)
    /\ theirs' = theirs \ {r.token}
    /\ UNCHANGED <<users, row, phase, start, home, pollVars, conn, holds, happenings>>

OtherLeaves(o) ==
    /\ Agent!Leave(o)
    /\ UNCHANGED <<users, agentVars, pollVars, conn, holds, happenings>>

Less(n) == IF n = 0 THEN 0 ELSE n - 1
Pass ==
    /\ Agent!Pass
    /\ holds' = [c \in Conns |-> IF holds[c] = None THEN None
                                 ELSE [holds[c] EXCEPT !.time = Less(@)]]
    /\ conn' = [c \in Conns |-> IF At(c, "granted")
                                THEN [conn[c] EXCEPT !.spot.time = Less(@)] ELSE conn[c]]
    /\ UNCHANGED <<users, agentVars, pollVars, happenings>>

-----------------------------------------------------------------------------
(* AgentServerManager::new: the poll loop.                                 *)

\* AgentServer::new starts every entry of a new list as offline.
NewServer == [start |-> row.start, home |-> row.home, online |-> FALSE]

\* ServerRegion::from panics on every region it does not know.
KnownRegion(region) == region \in {"EU", "US", "KR"}

\* A panic ends the poll task; nobody starts it again.
fetch_servers ==
    /\ poll = "sleep"
    /\ IF row = None
         THEN poll' = "replace" /\ fetched' = None
         ELSE IF KnownRegion(row.region)
           THEN poll' = "asking" /\ fetched' = NewServer
           ELSE poll' = "dead" /\ fetched' = None
    /\ UNCHANGED <<users, agentVars, spotVars, list, conn, holds, happenings>>

\* A database error is taken for an empty table.
FetchFails ==
    /\ poll = "sleep" /\ Happens
    /\ poll' = "replace" /\ fetched' = None
    /\ UNCHANGED <<users, agentVars, spotVars, list, conn, holds>>

\* AgentServer::update; the slip takes every server for online.
HealthIgnored(healthy) == [fetched EXCEPT !.online = TRUE]
update(healthy) == [fetched EXCEPT !.online = healthy]

\* The report of a running agent, or that it cannot be reached.
request_server_status ==
    /\ poll = "asking"
    /\ fetched' = update(phase = "up")
    /\ poll' = "replace"
    /\ UNCHANGED <<users, agentVars, spotVars, list, conn, holds, happenings>>

\* An answer that is no report: `continue`, the entry stays as it was made.
StatusUnreadable ==
    /\ poll = "asking" /\ phase = "up" /\ Happens
    /\ poll' = "replace"
    /\ UNCHANGED <<users, agentVars, spotVars, list, fetched, conn, holds>>

\* A slip: a server that is known already only has its status updated.
StatusOnly ==
    IF list # None /\ fetched # None
      THEN [list EXCEPT !.online = fetched.online] ELSE fetched
Replacement == fetched

ReplaceList ==
    /\ poll = "replace"
    /\ list' = Replacement
    /\ poll' = "sleep" /\ fetched' = None
    /\ UNCHANGED <<users, agentVars, spotVars, conn, holds, happenings>>

-----------------------------------------------------------------------------
Init ==
    /\ users = Registered /\ row = None /\ phase = "down" /\ start = 0 /\ home = None
    /\ Agent!Init
    /\ list = None /\ poll = "sleep" /\ fetched = None
    /\ theirs = {}
    /\ conn = [c \in Conns |-> Closed] /\ holds = [c \in Conns |-> None]
    /\ happenings = 0

Clients ==
    \E c \in Conns :
      \/ Connect(c) \/ Hangup(c)
      \/ \E v \in Versions : PatchRequest(c, v)
      \/ \E creds \in Credentials : LoginRequest(c, creds)
      \/ \E code \in Codes : SecurityCodeInput(c, code)
      \/ QueryPanics(c)
      \/ Enter(c) \/ Leave(c)

\* What a client's task does next once a packet has come.
Task(c) ==
    \/ try_login(c) \/ try_login_passcode(c)
    \/ server_details(c) \/ reserve(c)
    \/ \E t \in Tokens : handle_spot_request(c, t)
    \/ RefuseRequest(c) \/ RequestFails(c) \/ TellSpot(c)

Poll == fetch_servers \/ request_server_status \/ ReplaceList

Next ==
    \/ \E r \in Registrations : register(r)
    \/ Clients
    \/ \E c \in Conns : Task(c) \/ AccountUnread(c) \/ AnswerLost(c)
    \/ \E h \in Homes : \E region \in Regions : Start(h, region)
    \/ WebUp \/ Crash \/ Pass
    \/ \E r \in reserved : Expire(r)
    \/ \E u \in Users : \E t \in Tokens : OtherRequest(u, t)
    \/ \E r \in reserved : \E o \in Others : OtherEnters(r, o)
    \/ \E o \in Others : OtherLeaves(o)
    \/ Poll \/ FetchFails \/ StatusUnreadable

\* Tasks, the poll loop and the agent run on; the clock passes, and
\* cleaning up is part of the request that waits for it.  A player who wants
\* in keeps trying: connects and sends credentials that fit, whatever else
\* the client does between.
Right(creds) == creds.shard = Shard /\ PasswordFits(creds) /\ ~NeedsCode(creds)
Fairness ==
    /\ WF_vars(Poll) /\ WF_vars(WebUp) /\ WF_vars(Pass)
    /\ WF_vars(\E r \in reserved : Expire(r))
    /\ \A c \in Conns :
         /\ WF_vars(Task(c)) /\ WF_vars(Connect(c))
         /\ SF_vars(\E creds \in Credentials : Right(creds) /\ LoginRequest(c, creds))

Spec == Init /\ [][Next]_vars /\ Fairness

-----------------------------------------------------------------------------
(* What the gateway owes its clients.                                      *)

\* A connection's client has shown that it owns an account: it sent the
\* password and, where the account has a passcode, the passcode after it.
Proven(c, name) ==
    \E u \in users :
      /\ u.name = name /\ name = conn[c].creds.name
      /\ u.password = conn[c].creds.password
      /\ u.passcode \in {None, conn[c].code}

\* Whatever a client sent before (other accounts, wrong passwords, codes for
\* another login), a spot the agent gives to a request of a connection is for
\* an account whose password and passcode that connection has just shown.
SpotsAreProven ==
    [][\A c \in Conns :
         (At(c, "posted") /\ conn[c].pc' = "granted")
           => Proven(c, conn[c].spot'.user)]_vars

\* A client that was told of a spot finds it: until the time it was granted
\* for is over, or the agent crashes, the agent holds that reservation for its
\* account, and is reached at the address the client was told, unless the
\* list was replaced between the two look-ups of try_reserve_spot.  (Between
\* connections this rests on reserve_spot not drawing a number that another
\* client still remembers: FreshDraw in GatewayProofs.)
TokenWorks ==
    \A c \in Conns :
      (holds[c] # None /\ phase = "up" /\ holds[c].start = start /\ holds[c].time > 0)
        => /\ [user |-> holds[c].user, token |-> holds[c].token] \in reserved
           /\ holds[c].listed = holds[c].home => home = holds[c].home

\* "It will pick up the agent server": the list ends up showing an agent that
\* stays up as online, with the token of its last start, and one that stays
\* down as offline.  A region the gateway does not know ends the poll task.
ShownAsItIs ==
    /\ <>[](phase = "up") =>
         <>[](poll = "dead" \/ (list # None /\ list.online /\ list.start = start))
    /\ <>[](phase = "down") => <>[](poll = "dead" \/ list = None \/ ~list.online)

\* Restarts, stale tokens, lost answers and an empty list only delay: a
\* player with a right password who keeps trying, and waits for the answers,
\* is given a spot again and again, unless the agent or the poll task ends or
\* every seat is taken.
RetriesSucceed ==
    \A c \in Conns :
      <>[](/\ phase = "up" /\ poll # "dead"
           /\ \E creds \in Credentials : Right(creds)
           /\ conn[c].open \/ At(c, "closed"))
        => []<>(holds[c] # None \/ c \in seated \/ Cardinality(seated) = Max)
=============================================================================
