------------------------------- MODULE Stream -------------------------------
(***************************************************************************)
(* A connection of a client (silkroad-network, silkroad-security): the     *)
(* handshake that sets the encryption up (security_setup.rs, security.rs), *)
(* frames and massive packets (frame.rs, codec.rs), the reader and writer  *)
(* tasks with their queues (stream.rs), and the game loop that empties and *)
(* fills them and drops a stream that has ended (input/system.rs, net.rs). *)
(*                                                                         *)
(* Sizes are counted in bytes, modulo Word where the code has a u16; the   *)
(* program's Word is 2^16, so that Word^2 is the range of its u32 and      *)
(* Word^4 that of its i64.  Blowfish and transform_key are taken for       *)
(* functions of the key: two ends understand each other once they have     *)
(* computed the same secret.  TCP delivers frames in order until it breaks. *)
(***************************************************************************)
EXTENDS Integers, Sequences

CONSTANTS
    Word,        \* 2^16: the values of a u16; its upper half marks encryption
    Secrets,     \* exponents the server and the client draw
    Generators, Moduli,  \* value_g and value_p
    Sends,       \* packets a client sends: opcode, whether fine, whether encrypted
    Headers,     \* massive headers it sends: an opcode and a number
    Packets,     \* what the game sends: size, massive, encrypted
    Identity,    \* the one of them that answers IdentityInformation
    MaxTraffic,  \* bound: frames the client and packets the game sends
    None

ASSUME StreamAssumption ==
    /\ Word \in Nat /\ Word % 2 = 0 /\ Word > 12
    \* & 0x7FFFFFFF
    /\ Secrets \cup Generators \cup Moduli \subseteq 0..((Word * Word) \div 2 - 1)
    /\ Sends \subseteq [op : STRING, fine : BOOLEAN, encrypted : BOOLEAN]
    /\ \A h \in Headers : h.n \in 0..(Word - 1)
    /\ Packets \subseteq [size : Nat, massive : BOOLEAN, encrypted : BOOLEAN]
    /\ Identity \in Packets
    /\ None \notin Secrets /\ None \notin [op : {h.op : h \in Headers}, n : 0..(Word - 1)]

VARIABLES
    stage,       \* the accepting task: "accepted", "init", "final", "running", "failed"
    security,    \* SecurityState
    exchange,    \* the key exchange while it runs: x, g, p, a, and the client's y
    broken,      \* the socket is closed
    \* from the client to the game
    toServer,    \* frames on the wire
    massive,     \* the reader's massive_packet
    reader, inbox,  \* the reader task and the queue it fills
    clientSent, gameGot,
    announced,   \* the client's side: the opcode and rest of its last header
    frames,      \* number of frames it has sent
    \* from the game to the client
    outbox, writer,  \* the unbounded queue and the task that empties it
    toClient,    \* frames on the wire
    assembling,  \* the massive packet the client is putting together
    misread,     \* the client read a length that is none
    gameSent, clientGot,
    game         \* the game loop: "absent", "login", "playing", "closing", "dropped"
                 \* or "panicked"

handshakeVars == <<stage, security, exchange>>
readVars == <<massive, reader, inbox>>
inVars == <<toServer, readVars, clientSent, gameGot, announced, frames>>
outVars == <<outbox, writer, toClient, assembling, misread, gameSent, clientGot>>
vars == <<handshakeVars, broken, inVars, outVars, game>>

-----------------------------------------------------------------------------
(* The key exchange.                                                       *)

\* (a * b) % p in i64: the product wraps, the remainder has the dividend's sign.
I64(v) == LET half == (Word * Word * Word * Word) \div 2 IN ((v + half) % (2 * half)) - half
times(a, b, p) == LET v == I64(a * b) IN IF v >= 0 THEN v % p ELSE -((-v) % p)

\* g_pow_x_mod_p: the loop over the bits of x, and what it has after i rounds.
Round(s, p) ==
    IF s.x = 0 THEN s
    ELSE [x |-> s.x \div 2, mult |-> times(s.mult, s.mult, p),
          current |-> IF s.x % 2 = 1 THEN times(s.mult, s.current, p) ELSE s.current]
g_pow_x_mod_p(p, x, g) ==
    LET run[i \in 0..x] == IF i = 0 THEN [x |-> x, mult |-> g, current |-> 1]
                           ELSE Round(run[i - 1], p)
    IN  run[x].current % (Word * Word)

\* A remainder by zero panics, in the first round if there is one.
DividesByZero(p, x) == p = 0 /\ x # 0

Alive == ~broken /\ stage # "failed"
Room == frames + Len(gameSent) < MaxTraffic

\* SecurityHandshake::do_handshake begins, the client is sent the seeds; a
\* panic ends the task that accepts the connection.
initialize(x, g, p) ==
    /\ stage = "accepted" /\ Alive
    /\ IF DividesByZero(p, x)
         THEN /\ exchange' = [x |-> x, p |-> p, g |-> g, a |-> None, y |-> None]
              /\ stage' = "failed" /\ UNCHANGED security
         ELSE /\ exchange' = [x |-> x, p |-> p, g |-> g, a |-> g_pow_x_mod_p(p, x, g), y |-> None]
              /\ security' = "HandshakeStarted" /\ stage' = "init"
    /\ UNCHANGED <<broken, inVars, outVars, game>>

\* The client's challenge: its value b and a key made from the secret.
Challenge(y) ==
    /\ stage = "init" /\ exchange.y = None /\ Alive
    /\ ~DividesByZero(exchange.p, y)
    /\ exchange' = [exchange EXCEPT !.y = y]
    /\ toServer' = Append(toServer,
         [kind |-> "challenge", encrypted |-> FALSE,
          b |-> g_pow_x_mod_p(exchange.p, y, exchange.g),
          key |-> g_pow_x_mod_p(exchange.p, y, exchange.a)])
    /\ UNCHANGED <<stage, security, broken, readVars, clientSent, gameGot,
                   announced, frames, outVars, game>>

\* The server's secret from the client's value; a client that computed
\* another one ends the task.  The slip raises the server's own value.
Verdict(k, frame) == IF k = frame.key THEN security' = "Challenged" /\ stage' = "final"
                     ELSE stage' = "failed" /\ UNCHANGED security
OwnValueRaised(frame) == Verdict(g_pow_x_mod_p(exchange.p, exchange.x, exchange.a), frame)
start_challenge(frame) == Verdict(g_pow_x_mod_p(exchange.p, exchange.x, frame.b), frame)

Accepted ==
    /\ stage = "final" /\ Alive /\ exchange.y # None
    /\ exchange' = [exchange EXCEPT !.y = None]
    /\ toServer' = Append(toServer, [kind |-> "accepted", encrypted |-> FALSE])
    /\ UNCHANGED <<stage, security, broken, readVars, clientSent, gameGot,
                   announced, frames, outVars, game>>

\* accept_challenge; the exchanged values are forgotten.
accept_challenge ==
    /\ security' = "Established" /\ stage' = "running"
    /\ exchange' = None

-----------------------------------------------------------------------------
(* Frames.                                                                 *)

High == Word \div 2

\* find_encrypted_length: the next multiple of the block size.
find_encrypted_length(n) == IF n % 8 = 0 THEN n ELSE n + (8 - (n % 8))

Larger(a, b) == IF a > b THEN a ELSE b
Smaller(a, b) == IF a < b THEN a ELSE b

\* contained_count in the header; the slip counts the header too.
WithHeader(required) == required + 1
Announced(required) == required

\* SilkroadFrame::create_for: a frame, or a header and its containers.
create_for(packet) ==
    IF packet.massive
      THEN LET required == Larger(packet.size \div (Word - 1), 1)
               Rest(i) == Larger(packet.size - (i - 1) * (Word - 1), 0)
           IN  <<[kind |-> "header", size |-> Announced(required), encrypted |-> FALSE, id |-> packet.id]>>
               \o [i \in 1..required |->
                     [kind |-> "container", size |-> Smaller(Word - 1, Rest(i)),
                      encrypted |-> FALSE, id |-> packet.id]]
      ELSE <<[kind |-> "packet", size |-> packet.size,
              encrypted |-> packet.encrypted, id |-> packet.id]>>

content_size(frame) ==
    CASE frame.kind = "packet" -> frame.size
      [] frame.kind = "header" -> 6
      [] frame.kind = "container" -> 1 + frame.size

\* serialize: the length field, and the bytes that follow it.
length_field(frame) ==
    LET n == content_size(frame) % Word
    IN  IF frame.encrypted /\ n < High THEN n + High ELSE n
PaddedWithoutHeader(frame) ==
    IF frame.encrypted THEN 4 + find_encrypted_length(content_size(frame))
    ELSE 4 + content_size(frame)
serialized_size(frame) ==
    IF frame.encrypted THEN find_encrypted_length(4 + content_size(frame))
    ELSE 4 + content_size(frame)

\* parse: whether the length field leads to the end of the frame.
parses(frame) ==
    LET encrypted == length_field(frame) >= High
        content == length_field(frame) % High
    IN  /\ encrypted = frame.encrypted
        /\ serialized_size(frame) = IF encrypted THEN find_encrypted_length(content + 4)
                                    ELSE content + 4

-----------------------------------------------------------------------------
(* From the client to the game.                                            *)

\* A message is optional when its data cannot be read or no header of the
\* client announced it.
Message(op, fine, awaited) ==
    [id |-> Len(clientSent) + 1, op |-> op, optional |-> ~fine \/ ~awaited]

Emit(frame) ==
    /\ Room /\ frames' = frames + 1 /\ Alive /\ stage # "accepted"
    /\ toServer' = Append(toServer, frame)
    /\ UNCHANGED <<handshakeVars, broken, readVars, gameGot, outVars, game>>

ClientPacket(op, fine, encrypted) ==
    LET m == Message(op, fine, TRUE)
    IN  /\ Emit([kind |-> "packet", encrypted |-> encrypted, op |-> op, fine |-> fine, msg |-> m])
        /\ clientSent' = Append(clientSent, m)
        /\ UNCHANGED announced

ClientHeader(op, n) ==
    /\ Emit([kind |-> "header", encrypted |-> FALSE, op |-> op, n |-> n])
    /\ announced' = [op |-> op, n |-> n]
    /\ UNCHANGED clientSent

ClientContainer(fine) ==
    LET m == Message(announced.op, fine, announced.n > 0)
    IN  /\ Emit([kind |-> "container", encrypted |-> FALSE, fine |-> fine, msg |-> m])
        /\ clientSent' = Append(clientSent, m)
        /\ announced' = [announced EXCEPT !.n = Larger(@ - 1, 0)]

\* StreamReader::next takes a frame.  The cases are what it returns.
Read ==
    /\ reader = "run" /\ toServer # <<>> /\ ~broken
    /\ toServer' = Tail(toServer)
    /\ UNCHANGED <<broken, clientSent, gameGot, announced, frames, outVars, game>>

Decrypts(frame) == frame.encrypted => security = "Established"
\* A header while another one waits for containers is an error of its own.
HeaderRefused(frame) == frame.kind = "header" /\ massive # None
\* A slip: the refused header is one more protocol error to log.
RefusalLogged(frame) ==
    \/ HeaderRefused(frame)
    \/ frame.kind = "packet" /\ ~frame.fine
    \/ frame.kind = "container" /\ (massive = None \/ ~frame.fine)
\* A container without a header, or data that deserialize() cannot read.
ProtocolError(frame) ==
    \/ frame.kind = "packet" /\ ~frame.fine
    \/ frame.kind = "container" /\ (massive = None \/ ~frame.fine)

\* What is left of a massive packet after a container: u16 subtraction.
AfterContainer(n) ==
    LET rest == (n - 1) % Word
    IN  IF rest > 0 THEN [massive EXCEPT !.n = rest] ELSE None

\* During the handshake every packet but the expected one ends the task.
HandshakeReads ==
    /\ stage \in {"init", "final"}
    /\ Read
    /\ LET frame == Head(toServer)
       IN  \/ /\ frame.kind = "challenge" /\ stage = "init"
              /\ start_challenge(frame)
              /\ UNCHANGED <<exchange, massive>>
           \/ /\ frame.kind = "accepted" /\ stage = "final"
              /\ accept_challenge
              /\ UNCHANGED massive
           \/ /\ frame.kind = "header" /\ massive = None
              /\ massive' = [op |-> frame.op, n |-> frame.n]
              /\ UNCHANGED <<stage, security, exchange>>
           \/ /\ \/ frame.kind \in {"packet", "container"}
                 \/ HeaderRefused(frame)
                 \/ frame.kind = "challenge" /\ stage = "final"
                 \/ frame.kind = "accepted" /\ stage = "init"
              /\ stage' = "failed"
              /\ UNCHANGED <<security, exchange, massive>>
    /\ UNCHANGED <<reader, inbox>>

\* start_loop: packets go to the queue, protocol errors are logged, every
\* other error ends the task, as does a receiver that is gone.
ReaderReads ==
    /\ stage = "running"
    /\ Read
    /\ LET frame == Head(toServer)
       IN  \/ /\ ~Decrypts(frame) \/ HeaderRefused(frame)
              /\ reader' = "ended"
              /\ UNCHANGED <<massive, inbox>>
           \/ /\ frame.kind = "header" /\ massive = None
              /\ massive' = [op |-> frame.op, n |-> frame.n]
              /\ UNCHANGED <<reader, inbox>>
           \/ /\ Decrypts(frame) /\ ProtocolError(frame)
              /\ UNCHANGED <<reader, massive, inbox>>
           \/ /\ Decrypts(frame) /\ ~ProtocolError(frame)
              /\ frame.kind \in {"packet", "container"}
              /\ massive' = IF frame.kind = "packet" THEN massive ELSE AfterContainer(massive.n)
              /\ IF game = "dropped"
                   THEN reader' = "ended" /\ UNCHANGED inbox
                   ELSE /\ inbox' = Append(inbox, [frame.msg EXCEPT !.op =
                                       IF frame.kind = "packet" THEN @ ELSE massive.op])
                        /\ UNCHANGED reader
    /\ UNCHANGED handshakeVars

\* The socket is closed by the client or lost, with all that is on its way.
Break ==
    /\ ~broken
    /\ broken' = TRUE /\ toServer' = <<>> /\ toClient' = <<>>
    /\ UNCHANGED <<handshakeVars, readVars, clientSent, gameGot, announced, frames,
                   outbox, writer, assembling, misread, gameSent, clientGot, game>>

\* The reader or the handshake sees the end of the socket.
StreamClosed ==
    /\ broken
    /\ IF stage = "running"
         THEN reader = "run" /\ reader' = "ended" /\ UNCHANGED stage
         ELSE stage # "failed" /\ stage' = "failed" /\ UNCHANGED reader
    /\ UNCHANGED <<security, exchange, broken, toServer, massive, inbox, clientSent,
                   gameGot, announced, frames, outVars, game>>

-----------------------------------------------------------------------------
(* The game loop.                                                          *)

\* net.rs accept: the stream becomes an entity's Client, with a LoginInput.
accept ==
    /\ stage = "running" /\ game = "absent"
    /\ game' = "login"
    /\ UNCHANGED <<handshakeVars, broken, inVars, outVars>>

\* The character joins the game: a PlayerInput takes the LoginInput's place.
Join ==
    /\ game = "login"
    /\ game' = "playing"
    /\ UNCHANGED <<handshakeVars, broken, inVars, outVars>>

Held == game \in {"login", "playing"}

\* Stream::received takes a packet from the queue.
Take ==
    /\ inbox # <<>>
    /\ gameGot' = Append(gameGot, Head(inbox))
    /\ inbox' = Tail(inbox)
    /\ UNCHANGED <<handshakeVars, broken, toServer, massive, reader, clientSent,
                   announced, frames>>

\* Stream::send to a writer that is there.
Queue(packet) ==
    /\ LET p == [id |-> Len(gameSent) + 1, optional |-> FALSE, size |-> packet.size,
                 massive |-> packet.massive, encrypted |-> packet.encrypted]
       IN  outbox' = Append(outbox, p) /\ gameSent' = Append(gameSent, p)
    /\ UNCHANGED <<writer, toClient, assembling, misread, clientGot>>

\* The packets that the input systems put aside for others.
AsksIdentity == game = "login" /\ inbox # <<>> /\ Head(inbox).op = "identity"
received ==
    /\ Held /\ ~AsksIdentity
    /\ Take
    /\ UNCHANGED <<outVars, game>>

\* IdentityInformation is answered on the spot while logging in, and the
\* result of Stream::send unwrapped: without a writer the game loop panics.
send_identity_information ==
    /\ AsksIdentity
    /\ Take
    /\ IF writer = "run" THEN Queue(Identity) /\ UNCHANGED game
       ELSE game' = "panicked" /\ UNCHANGED outVars

\* The queue is empty and its sender gone: ClientDisconnectedEvent.
ReceiveFails ==
    /\ Held /\ inbox = <<>> /\ reader = "ended"
    /\ game' = "closing"
    /\ UNCHANGED <<handshakeVars, broken, inVars, outVars>>

\* The event also comes from a logout and from a client that was silent for
\* too long; disconnected() despawns the entity, and the Stream with both
\* ends of its queues is dropped.
Logout ==
    /\ Held
    /\ game' = "closing"
    /\ UNCHANGED <<handshakeVars, broken, inVars, outVars>>

disconnected ==
    /\ game = "closing"
    /\ game' = "dropped" /\ inbox' = <<>>
    /\ UNCHANGED <<handshakeVars, broken, toServer, massive, reader, clientSent,
                   gameGot, announced, frames, outVars>>

\* Client::send ignores the error of a writer that is gone.
send(packet) ==
    /\ Held \/ game = "closing"
    /\ writer = "run" /\ Room
    /\ Queue(packet)
    /\ UNCHANGED <<handshakeVars, broken, inVars, game>>

\* StreamWriter::start_loop: the frames of a packet, one after the other.
\* What was queued before the stream was dropped is still sent.
WriterSends ==
    /\ writer = "run" /\ stage = "running" /\ outbox # <<>>
    /\ outbox' = Tail(outbox)
    /\ IF broken
         THEN writer' = "ended" /\ UNCHANGED toClient
         ELSE toClient' = toClient \o create_for(Head(outbox)) /\ UNCHANGED writer
    /\ UNCHANGED <<handshakeVars, broken, inVars, assembling, misread, gameSent,
                   clientGot, game>>

WriterEndsAtOnce == writer = "run" /\ game = "dropped"
WriterDone == writer = "run" /\ game = "dropped" /\ outbox = <<>>
WriterEnds ==
    /\ WriterDone
    /\ writer' = "ended"
    /\ UNCHANGED <<handshakeVars, broken, inVars, outbox, toClient, assembling, misread,
                   gameSent, clientGot, game>>

\* The client reads a frame and puts massive packets together.
Whole(id) == clientGot' = Append(clientGot, gameSent[id])
ClientReads ==
    /\ toClient # <<>> /\ ~broken /\ ~misread
    /\ toClient' = Tail(toClient)
    /\ LET frame == Head(toClient)
       IN  IF ~parses(frame)
             THEN misread' = TRUE /\ UNCHANGED <<assembling, clientGot>>
             ELSE /\ UNCHANGED misread
                  /\ CASE frame.kind = "packet" ->
                            /\ Whole(frame.id) /\ UNCHANGED assembling
                       [] frame.kind = "header" ->
                            /\ assembling' = [n |-> frame.size, size |-> 0]
                            /\ UNCHANGED clientGot
                       [] frame.kind = "container" ->
                            LET size == assembling.size + frame.size
                            IN  IF assembling.n > 1
                                  THEN /\ assembling' = [n |-> assembling.n - 1, size |-> size]
                                       /\ UNCHANGED clientGot
                                  ELSE /\ assembling' = None
                                       /\ clientGot' = Append(clientGot,
                                            [gameSent[frame.id] EXCEPT !.size = size])
    /\ UNCHANGED <<handshakeVars, broken, inVars, outbox, writer, gameSent, game>>

-----------------------------------------------------------------------------
Init ==
    /\ stage = "accepted" /\ security = "Uninitialized" /\ exchange = None
    /\ broken = FALSE
    /\ toServer = <<>> /\ massive = None /\ reader = "run" /\ inbox = <<>>
    /\ clientSent = <<>> /\ gameGot = <<>> /\ announced = [op |-> None, n |-> 0] /\ frames = 0
    /\ outbox = <<>> /\ writer = "run" /\ toClient = <<>> /\ assembling = None
    /\ misread = FALSE /\ gameSent = <<>> /\ clientGot = <<>> /\ game = "absent"

Next ==
    \/ \E x \in Secrets : \E g \in Generators : \E p \in Moduli : initialize(x, g, p)
    \/ \E y \in Secrets : Challenge(y)
    \/ Accepted
    \/ \E p \in Sends : ClientPacket(p.op, p.fine, p.encrypted)
    \/ \E h \in Headers : ClientHeader(h.op, h.n)
    \/ \E fine \in BOOLEAN : ClientContainer(fine)
    \/ HandshakeReads \/ ReaderReads \/ Break \/ StreamClosed
    \/ accept \/ Join \/ received \/ send_identity_information \/ ReceiveFails
    \/ Logout \/ disconnected
    \/ \E packet \in Packets : send(packet)
    \/ WriterSends \/ WriterEnds \/ ClientReads

\* The tasks and the game loop run on.
Fairness ==
    /\ WF_vars(StreamClosed) /\ WF_vars(ReaderReads)
    /\ WF_vars(accept) /\ WF_vars(received \/ send_identity_information \/ ReceiveFails)
    /\ WF_vars(disconnected)
    /\ WF_vars(WriterSends) /\ WF_vars(WriterEnds) /\ WF_vars(ClientReads)

Spec == Init /\ [][Next]_vars /\ Fairness

-----------------------------------------------------------------------------
(* What a connection owes the game and the client.                         *)

In == INSTANCE Channel WITH sent <- clientSent, got <- gameGot
Out == INSTANCE Channel WITH sent <- gameSent, got <- clientGot

\* The game is handed what the client sent, in order, each packet once and
\* under its own opcode (a container under that of the client's last header),
\* leaving out only what cannot be read: however massive packets, protocol
\* errors and the end of the connection fall.
ToGame == In!Spec

\* The client reads what the game sent, whole and in order.
ToClient == Out!Spec

\* The draws that no exchange survives: a modulus of zero, and a modulus of
\* one, where exactly one of the ends has a secret of zero (its power is 1
\* and no rest of 1).
Degenerate ==
    \/ DividesByZero(exchange.p, exchange.x)
    \/ exchange.p = 1 /\ exchange.y # None /\ (exchange.x = 0 <=> exchange.y # 0)

\* Two ends that keep to the handshake agree on the secret: it fails only when
\* the connection breaks, the client sends something else in between, or the
\* values drawn are degenerate; and the game gets the stream with it done.
HandshakeCompletes ==
    /\ stage = "failed" => broken \/ frames > 0 \/ Degenerate
    /\ game # "absent" => security = "Established"

\* Frames read back: only a packet whose length does not fit the 15 bits of
\* the length field makes the client misread the stream.
FramesReadBack ==
    misread => \E i \in DOMAIN gameSent :
                 gameSent[i].size + (IF gameSent[i].massive THEN 1 ELSE 0) >= High

\* A stream whose reader has ended, through the socket or an error, is
\* dropped by the game, unless the answer to an IdentityInformation that was
\* still queued finds the writer gone with the socket and panics the game
\* loop; and what the game sent before it dropped a stream (the answer to a
\* logout, for one) reaches a client that still reads.
EndsCleanly ==
    /\ (reader = "ended" /\ Held) ~>
         game = "dropped" \/ (game = "panicked" /\ broken /\ writer = "ended")
    /\ (game = "dropped") ~> (broken \/ misread \/ Len(clientGot) = Len(gameSent))
=============================================================================
