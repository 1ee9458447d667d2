---------------------------- MODULE StreamProofs ----------------------------
(***************************************************************************)
(* Proofs about Stream for every word size, every traffic and every key:   *)
(* frames read back, and both directions of a connection deliver what was  *)
(* sent, in order and once, however massive packets, protocol errors and   *)
(* the end of the connection fall.                                         *)
(***************************************************************************)
EXTENDS Stream, SequenceTheorems, NaturalsInduction, WellFoundedInduction, TLAPS

(* Arithmetic of the length field.                                         *)

\* The word is twice its upper half, which is more than a massive header.
LEMMA Halves == High \in Nat /\ Word = 2 * High /\ High > 6
  BY StreamAssumption DEF High

\* What is below a divisor.
LEMMA Below == \A a, b \in Nat : a < b => a \div b = 0 /\ a % b = a
  OBVIOUS

\* A quotient of at least one.
LEMMA NotBelow == \A a, b \in Nat : a >= b /\ b > 0 => a \div b \in Nat /\ a \div b >= 1
  OBVIOUS

\* A number plus the modulus is the number again.
LEMMA BackIn == \A a, b \in Nat : a < b => (a + b) % b = a
  OBVIOUS

\* A frame whose content fits the 15 bits reads back, encrypted or not.
LEMMA FitsParses ==
    ASSUME NEW frame, content_size(frame) \in 0..(High - 1), frame.encrypted \in BOOLEAN
    PROVE  parses(frame)
<1>1. PICK n \in Nat : n = content_size(frame) /\ n < High
  BY Halves
<1>2. n % Word = n /\ n % High = n /\ (n + High) % High = n
  BY <1>1, Halves, Below, BackIn
<1>3. CASE frame.encrypted
  <2>1. length_field(frame) = n + High
    BY <1>1, <1>2, <1>3 DEF length_field
  <2>2. serialized_size(frame) = find_encrypted_length(4 + n)
    BY <1>1, <1>3 DEF serialized_size
  <2>3. n + High >= High /\ 4 + n = n + 4
    BY <1>1, Halves
  <2>4. QED
    BY <1>2, <1>3, <2>1, <2>2, <2>3 DEF parses
<1>4. CASE ~frame.encrypted
  <2>1. length_field(frame) = n
    BY <1>1, <1>2, <1>4 DEF length_field
  <2>2. serialized_size(frame) = 4 + n
    BY <1>1, <1>4 DEF serialized_size
  <2>3. ~(n >= High) /\ 4 + n = n + 4
    BY <1>1, Halves
  <2>4. QED
    BY <1>2, <1>4, <2>1, <2>2, <2>3 DEF parses
<1>5. QED
  BY <1>3, <1>4

\* A full container does not, and nor does one that sets the highest bit.
LEMMA LargeContainer ==
    ASSUME NEW frame, frame.kind = "container", ~frame.encrypted, frame.encrypted \in BOOLEAN,
           frame.size \in Nat, frame.size + 1 >= High, frame.size < Word
    PROVE  ~parses(frame)
<1>1. content_size(frame) = 1 + frame.size
  BY DEF content_size
<1>2. serialized_size(frame) = 4 + (1 + frame.size)
  BY <1>1 DEF serialized_size
<1>3. CASE frame.size = Word - 1
  <2>1. (1 + frame.size) % Word = 0
    BY <1>3, StreamAssumption
  <2>2. length_field(frame) = 0
    BY <1>1, <2>1 DEF length_field
  <2>3. ~(0 >= High) /\ 0 % High = 0
    BY Halves
  <2>4. 4 + (1 + frame.size) # 0 + 4
    BY <1>3, StreamAssumption
  <2>5. QED
    BY <1>2, <2>2, <2>3, <2>4 DEF parses
<1>4. CASE frame.size < Word - 1
  <2>1. (1 + frame.size) % Word = 1 + frame.size
    BY <1>4, StreamAssumption
  <2>2. length_field(frame) = 1 + frame.size
    BY <1>1, <2>1 DEF length_field
  <2>3. 1 + frame.size >= High
    OBVIOUS
  <2>4. QED
    BY <2>2, <2>3 DEF parses
<1>5. QED
  BY <1>3, <1>4, StreamAssumption

\* A function on the first n numbers is a sequence of length n.
LEMMA FunctionIsSeq ==
    ASSUME NEW S, NEW n \in Nat, NEW f \in [1..n -> S]
    PROVE  f \in Seq(S) /\ Len(f) = n
  OBVIOUS

\* Appending leaves what was there.
LEMMA AppendKeeps ==
    ASSUME NEW S, NEW s \in Seq(S), NEW e \in S
    PROVE  SubSeq(Append(s, e), 1, Len(s)) = s
<1>1. /\ Append(s, e) \in Seq(S) /\ Len(s) \in Nat
      /\ \A i \in 1..Len(s) : Append(s, e)[i] = s[i] /\ s[i] \in S
  BY AppendProperties, ElementOfSeq, LenProperties
<1>2. /\ SubSeq(Append(s, e), 1, Len(s)) \in Seq(S) /\ Len(SubSeq(Append(s, e), 1, Len(s))) = Len(s)
      /\ \A i \in 1..Len(s) : SubSeq(Append(s, e), 1, Len(s))[i] = s[i]
  <2>1. \A i \in 1..Len(s) : Append(s, e)[i] \in S
    BY <1>1
  <2>2. /\ SubSeq(Append(s, e), 1, Len(s)) \in Seq(S)
        /\ Len(SubSeq(Append(s, e), 1, Len(s))) = IF 1 <= Len(s) THEN Len(s) - 1 + 1 ELSE 0
        /\ \A i \in 1..(Len(s) - 1 + 1) : SubSeq(Append(s, e), 1, Len(s))[i] = Append(s, e)[1 + i - 1]
    BY <1>1, <2>1, SubSeqProperties
  <2>3. QED
    BY <1>1, <2>2
<1>3. QED
  BY <1>2, SeqEqual

-----------------------------------------------------------------------------
(* What SilkroadFrame::create_for makes of a packet.                       *)
Packet == [id : Nat, optional : {FALSE}, size : Nat, massive : BOOLEAN, encrypted : BOOLEAN]
Frame == [kind : {"packet", "header", "container"}, size : Nat, encrypted : BOOLEAN, id : Nat]

Oversize(p) == p.size + (IF p.massive THEN 1 ELSE 0) >= High

\* A packet of its own is one frame.
LEMMA SingleFrame ==
    ASSUME NEW p \in Packet, ~p.massive
    PROVE  /\ create_for(p) \in Seq(Frame) /\ Len(create_for(p)) = 1
           /\ create_for(p)[1] = [kind |-> "packet", size |-> p.size, encrypted |-> p.encrypted, id |-> p.id]
<1>1. create_for(p) = <<[kind |-> "packet", size |-> p.size, encrypted |-> p.encrypted, id |-> p.id]>>
  BY DEF create_for
<1>2. [kind |-> "packet", size |-> p.size, encrypted |-> p.encrypted, id |-> p.id] \in Frame
  BY DEF Packet, Frame
<1>3. QED
  BY <1>1, <1>2

\* A massive packet is a header and as many containers as it announces; it is
\* more than one only if the first is full.
LEMMA MassiveFrames ==
    ASSUME NEW p \in Packet, p.massive
    PROVE  LET fs == create_for(p)
           IN  /\ fs \in Seq(Frame) /\ Len(fs) >= 2 /\ Len(fs) = fs[1].size + 1
               /\ fs[1].kind = "header" /\ ~fs[1].encrypted
               /\ \A i \in 2..Len(fs) : fs[i].kind = "container" /\ ~fs[i].encrypted /\ fs[i].size < Word
               /\ \A i \in 1..Len(fs) : fs[i].id = p.id
               /\ p.size >= Word - 1 => fs[2].size = Word - 1
               /\ p.size < Word - 1 => fs[1].size = 1 /\ fs[2].size = p.size
<1> DEFINE required == Larger(p.size \div (Word - 1), 1)
           Rest(i) == Larger(p.size - (i - 1) * (Word - 1), 0)
           C(i) == [kind |-> "container", size |-> Smaller(Word - 1, Rest(i)), encrypted |-> FALSE, id |-> p.id]
           H == [kind |-> "header", size |-> required, encrypted |-> FALSE, id |-> p.id]
           cs == [i \in 1..required |-> C(i)]
<1>1. create_for(p) = <<H>> \o cs
  BY DEF create_for, Announced
<1>2. p.size \in Nat /\ p.id \in Nat /\ Word - 1 \in Nat /\ Word - 1 > 0
  BY StreamAssumption DEF Packet
<1>3. required \in Nat /\ required >= 1 /\ (p.size < Word - 1 => required = 1)
  <2>1. CASE p.size < Word - 1
    BY <1>2, <2>1, Below DEF Larger
  <2>2. CASE p.size >= Word - 1
    BY <1>2, <2>2, NotBelow DEF Larger
  <2>3. QED
    BY <1>2, <2>1, <2>2
<1>4. \A i \in Nat : i >= 1 => Rest(i) \in Nat
  <2>1. SUFFICES ASSUME NEW i \in Nat PROVE Rest(i) \in Nat
    OBVIOUS
  <2>2. (i - 1) * (Word - 1) \in Int
    BY <1>2
  <2>3. QED
    BY <1>2, <2>2 DEF Larger
<1>5. Rest(1) = p.size
  BY <1>2 DEF Larger
<1> HIDE DEF Rest
<1>6. \A i \in Nat : i >= 1 => /\ Smaller(Word - 1, Rest(i)) \in Nat /\ Smaller(Word - 1, Rest(i)) < Word
  BY <1>2, <1>4, StreamAssumption DEF Smaller
<1>7. \A i \in 1..required : C(i) \in Frame
  BY <1>2, <1>3, <1>6 DEF Frame
<1>8. H \in Frame
  BY <1>2, <1>3 DEF Frame
<1> HIDE DEF required
<1>9. cs \in Seq(Frame) /\ Len(cs) = required /\ \A i \in 1..required : cs[i] = C(i)
  <2>1. cs \in [1..required -> Frame] /\ \A i \in 1..required : cs[i] = C(i)
    BY <1>7
  <2> HIDE DEF cs, C
  <2>2. QED
    BY <1>3, <2>1, FunctionIsSeq
<1>10. <<H>> \in Seq(Frame) /\ Len(<<H>>) = 1 /\ <<H>>[1] = H
  BY <1>8
<1>11. H.kind = "header" /\ ~H.encrypted /\ H.size = required /\ H.id = p.id
  OBVIOUS
<1>12. \A i \in 1..required : /\ C(i).kind = "container" /\ ~C(i).encrypted /\ C(i).size < Word
                              /\ C(i).id = p.id /\ C(i).size = Smaller(Word - 1, Rest(i))
  BY <1>3, <1>6
<1> HIDE DEF H, C, cs
<1>13. /\ create_for(p) \in Seq(Frame) /\ Len(create_for(p)) = 1 + required
       /\ create_for(p)[1] = H
       /\ \A i \in 2..(1 + required) : create_for(p)[i] = C(i - 1)
  <2>1. \A i \in 1..(1 + required) : create_for(p)[i] = IF i <= 1 THEN <<H>>[i] ELSE cs[i - 1]
    BY <1>1, <1>9, <1>10, ConcatProperties
  <2>2. create_for(p) \in Seq(Frame) /\ Len(create_for(p)) = 1 + required
    BY <1>1, <1>9, <1>10, ConcatProperties
  <2>3. \A i \in 2..(1 + required) : i \in 1..(1 + required) /\ ~(i <= 1) /\ i - 1 \in 1..required
    BY <1>3
  <2>4. QED
    BY <1>3, <1>9, <1>10, <2>1, <2>2, <2>3
<1>14. C(1).size = IF p.size >= Word - 1 THEN Word - 1 ELSE p.size
  BY <1>2, <1>3, <1>5, <1>12 DEF Smaller
<1>15. \A i \in 2..(1 + required) : i - 1 \in 1..required
  BY <1>3
<1>16. create_for(p)[2] = C(1) /\ 1 + required >= 2
  BY <1>3, <1>13
<1>17. \A i \in 1..(1 + required) : i = 1 \/ i \in 2..(1 + required)
  BY <1>3
<1>18. \A i \in 2..Len(create_for(p)) : /\ create_for(p)[i].kind = "container" /\ ~create_for(p)[i].encrypted
                                        /\ create_for(p)[i].size < Word /\ create_for(p)[i].id = p.id
  BY <1>12, <1>13, <1>15
<1>19. \A i \in 1..Len(create_for(p)) : create_for(p)[i].id = p.id
  BY <1>11, <1>13, <1>17, <1>18
<1>20. /\ p.size >= Word - 1 => create_for(p)[2].size = Word - 1
       /\ p.size < Word - 1 => create_for(p)[1].size = 1 /\ create_for(p)[2].size = p.size
  BY <1>2, <1>3, <1>11, <1>13, <1>14, <1>16
<1>21. QED
  BY <1>3, <1>11, <1>13, <1>16, <1>18, <1>19, <1>20

\* The frames of a packet that is not oversize read back.
LEMMA FramesParse ==
    ASSUME NEW p \in Packet, ~Oversize(p)
    PROVE  \A i \in 1..Len(create_for(p)) : parses(create_for(p)[i])
<1>1. CASE ~p.massive
  <2>1. PICK f : f = create_for(p)[1] /\ f = [kind |-> "packet", size |-> p.size, encrypted |-> p.encrypted, id |-> p.id]
    BY <1>1, SingleFrame
  <2>2. content_size(f) = p.size /\ f.encrypted \in BOOLEAN /\ p.size \in 0..(High - 1)
    BY <1>1, <2>1, Halves DEF content_size, Oversize, Packet
  <2>3. QED
    BY <1>1, <2>1, <2>2, FitsParses, SingleFrame
<1>2. CASE p.massive
  <2>1. p.size \in Nat /\ p.size + 1 < High /\ p.size < Word - 1
    BY <1>2, Halves DEF Oversize, Packet
  <2>2. /\ create_for(p) \in Seq(Frame) /\ Len(create_for(p)) = 2
        /\ create_for(p)[1].kind = "header" /\ ~create_for(p)[1].encrypted
        /\ create_for(p)[2].kind = "container" /\ ~create_for(p)[2].encrypted /\ create_for(p)[2].size = p.size
    <3>1. /\ create_for(p) \in Seq(Frame) /\ Len(create_for(p)) = create_for(p)[1].size + 1
          /\ create_for(p)[1].kind = "header" /\ ~create_for(p)[1].encrypted
          /\ \A i \in 2..Len(create_for(p)) : create_for(p)[i].kind = "container" /\ ~create_for(p)[i].encrypted
          /\ create_for(p)[1].size = 1 /\ create_for(p)[2].size = p.size
      BY <1>2, <2>1, MassiveFrames
    <3>2. Len(create_for(p)) = 2
      BY <3>1
    <3>3. QED
      BY <3>1, <3>2
  <2>3. content_size(create_for(p)[1]) = 6 /\ content_size(create_for(p)[2]) = 1 + p.size
    BY <2>2 DEF content_size
  <2>4. 6 \in 0..(High - 1) /\ 1 + p.size \in 0..(High - 1)
    BY <2>1, Halves
  <2>5. \A i \in 1..2 : create_for(p)[i].encrypted \in BOOLEAN
    <3>1. \A f \in Frame : f.encrypted \in BOOLEAN
      BY DEF Frame
    <3>2. \A i \in 1..2 : create_for(p)[i] \in Frame
      BY <2>2, ElementOfSeq
    <3>3. QED
      BY <3>1, <3>2
  <2>6. parses(create_for(p)[1]) /\ parses(create_for(p)[2])
    BY <2>3, <2>4, <2>5, FitsParses
  <2>7. QED
    BY <2>2, <2>6
<1>3. QED
  BY <1>1, <1>2

-----------------------------------------------------------------------------
(* From the game to the client.  Packets are numbered as they are sent,    *)
(* the outbox is the end of what was sent, and the frames on the wire, up  *)
(* to the first that does not read back, are those of the packets between  *)
(* what the client has got and what the outbox still holds.                *)
Written == Len(gameSent) - Len(outbox)

Queued ==
    /\ gameSent \in Seq(Packet) /\ \A i \in 1..Len(gameSent) : gameSent[i].id = i
    /\ outbox \in Seq(Packet) /\ Len(outbox) <= Len(gameSent)
    /\ \A k \in 1..Len(outbox) : outbox[k] = gameSent[Written + k]
    /\ toClient \in Seq(Frame)
    /\ clientGot \in Seq(Packet) /\ \A i \in 1..Len(clientGot) : clientGot[i].id = i
    /\ broken \in BOOLEAN /\ misread \in BOOLEAN

SomeOversize == \E i \in 1..Len(gameSent) : Oversize(gameSent[i])

Legible ==
    /\ misread => SomeOversize
    /\ \A i \in 1..Len(toClient) : parses(toClient[i]) \/ SomeOversize

\* The frames before the i-th read back.
Parsed(i) == \A j \in 1..(i - 1) : parses(toClient[j])

\* A header is followed by its container, which, if it reads back, is the only one
\* and holds the whole packet; after the last frame of a packet comes the next packet.
Follows(i) ==
    /\ toClient[i].id \in 1..Written
    /\ toClient[i].kind = "header" =>
         /\ i < Len(toClient) /\ toClient[i + 1].kind = "container" /\ toClient[i + 1].id = toClient[i].id
         /\ parses(toClient[i + 1]) => /\ toClient[i].size = 1
                                       /\ toClient[i + 1].size = gameSent[toClient[i].id].size
    /\ toClient[i].kind # "header" /\ parses(toClient[i]) =>
         IF i = Len(toClient) THEN toClient[i].id = Written
         ELSE toClient[i + 1].kind # "container" /\ toClient[i + 1].id = toClient[i].id + 1

Flowing ==
    /\ toClient = <<>> => Len(clientGot) = Written
    /\ toClient # <<>> => toClient[1].id = Len(clientGot) + 1
    /\ toClient # <<>> /\ toClient[1].kind = "container" /\ parses(toClient[1]) =>
         assembling = [n |-> 1, size |-> 0] /\ toClient[1].size = gameSent[toClient[1].id].size
    /\ \A i \in 1..Len(toClient) : Parsed(i) => Follows(i)

OutInv == Queued /\ Legible /\ (~broken /\ ~misread => Flowing)

\* Nothing has been written yet.
LEMMA OutInit == Init => OutInv
<1> SUFFICES ASSUME Init PROVE OutInv
  OBVIOUS
<1>1. /\ gameSent = <<>> /\ outbox = <<>> /\ toClient = <<>> /\ clientGot = <<>>
      /\ broken = FALSE /\ misread = FALSE
  BY DEF Init
<1>2. Queued
  <2>1. Len(gameSent) = 0 /\ Len(outbox) = 0 /\ Len(clientGot) = 0 /\ 1..0 = {}
    BY <1>1
  <2>2. /\ gameSent \in Seq(Packet) /\ outbox \in Seq(Packet) /\ toClient \in Seq(Frame)
        /\ clientGot \in Seq(Packet)
    BY <1>1
  <2>3. broken \in BOOLEAN /\ misread \in BOOLEAN /\ Len(outbox) <= Len(gameSent)
    <3>1. broken \in BOOLEAN /\ misread \in BOOLEAN
      BY <1>1, Zenon
    <3>2. QED
      BY <2>1, <3>1
  <2>4. QED
    BY <2>1, <2>2, <2>3 DEF Queued
<1>3. Legible /\ Flowing
  BY <1>1 DEF Legible, Flowing, Written
<1>4. QED
  BY <1>2, <1>3 DEF OutInv

\* Stream::send puts the packet at the end of both.
LEMMA OutSend ==
    ASSUME OutInv, NEW packet \in Packets, Queue(packet), broken' = broken
    PROVE  OutInv' /\ Len(gameSent') = Len(gameSent) + 1 /\ SubSeq(gameSent', 1, Len(gameSent)) = gameSent
<1> DEFINE p == [id |-> Len(gameSent) + 1, optional |-> FALSE, size |-> packet.size,
                 massive |-> packet.massive, encrypted |-> packet.encrypted]
<1>1. /\ outbox' = Append(outbox, p) /\ gameSent' = Append(gameSent, p)
      /\ UNCHANGED <<broken, toClient, assembling, misread, clientGot>>
  BY DEF Queue
<1>2. gameSent \in Seq(Packet) /\ outbox \in Seq(Packet) /\ Len(outbox) <= Len(gameSent)
  BY DEF OutInv, Queued
<1>3. p \in Packet /\ p.id = Len(gameSent) + 1
  BY <1>2, StreamAssumption DEF Packet
<1> HIDE DEF p
<1>4. /\ gameSent' \in Seq(Packet) /\ Len(gameSent') = Len(gameSent) + 1
      /\ \A i \in 1..Len(gameSent) : gameSent'[i] = gameSent[i]
      /\ gameSent'[Len(gameSent) + 1] = p
  BY <1>1, <1>2, <1>3, AppendProperties
<1>5. /\ outbox' \in Seq(Packet) /\ Len(outbox') = Len(outbox) + 1
      /\ \A i \in 1..Len(outbox) : outbox'[i] = outbox[i]
      /\ outbox'[Len(outbox) + 1] = p
  BY <1>1, <1>2, <1>3, AppendProperties
<1>6. Written' = Written /\ Written \in Nat /\ Written + Len(outbox) = Len(gameSent)
  BY <1>2, <1>4, <1>5 DEF Written
<1>7. Queued'
  <2>1. \A i \in 1..Len(gameSent') : gameSent'[i].id = i
    <3>1. \A i \in 1..Len(gameSent) : gameSent'[i].id = i
      BY <1>4 DEF OutInv, Queued
    <3>2. \A i \in 1..Len(gameSent') : i \in 1..Len(gameSent) \/ i = Len(gameSent) + 1
      BY <1>2, <1>4
    <3>3. QED
      BY <1>3, <1>4, <3>1, <3>2
  <2>2. ASSUME NEW k \in 1..Len(outbox') PROVE outbox'[k] = gameSent'[Written' + k]
    <3>1. CASE k \in 1..Len(outbox)
      <4>1. Written + k \in 1..Len(gameSent)
        BY <1>2, <1>6, <3>1
      <4>2. QED
        BY <1>4, <1>5, <1>6, <3>1, <4>1 DEF OutInv, Queued
    <3>2. CASE k = Len(outbox) + 1
      <4>1. Written + k = Len(gameSent) + 1
        BY <1>2, <1>6, <3>2
      <4>2. QED
        BY <1>4, <1>5, <1>6, <3>2, <4>1
    <3>3. QED
      BY <1>2, <1>5, <3>1, <3>2
  <2>3. Len(outbox') <= Len(gameSent')
    BY <1>2, <1>4, <1>5
  <2>4. QED
    BY <1>1, <1>4, <1>5, <2>1, <2>2, <2>3 DEF OutInv, Queued
<1>8. Legible'
  <2>1. SomeOversize => SomeOversize'
    BY <1>2, <1>4 DEF SomeOversize
  <2>2. QED
    BY <1>1, <2>1 DEF OutInv, Legible
<1>9. ASSUME Flowing PROVE Flowing'
  <2>1. ASSUME NEW i \in 1..Len(toClient), Parsed(i), toClient[i].kind = "header"
        PROVE  gameSent'[toClient[i].id] = gameSent[toClient[i].id]
    <3>1. toClient[i].id \in 1..Written
      BY <1>9, <2>1 DEF Flowing, Follows
    <3>2. toClient[i].id \in 1..Len(gameSent)
      BY <1>2, <1>6, <3>1
    <3>3. QED
      BY <1>4, <3>2
  <2>2. \A i \in 1..Len(toClient) : Parsed(i)' => Follows(i)'
    <3>1. SUFFICES ASSUME NEW i \in 1..Len(toClient), Parsed(i)' PROVE Follows(i)'
      OBVIOUS
    <3>2. Parsed(i)
      BY <1>1, <3>1 DEF Parsed
    <3>3. Follows(i)
      BY <1>9, <3>2 DEF Flowing
    <3>4. QED
      BY <1>1, <1>6, <2>1, <3>2, <3>3 DEF Follows
  <2>3. toClient # <<>> => gameSent'[toClient[1].id] = gameSent[toClient[1].id]
    <3>1. SUFFICES ASSUME toClient # <<>> PROVE gameSent'[toClient[1].id] = gameSent[toClient[1].id]
      OBVIOUS
    <3>2. 1 \in 1..Len(toClient) /\ Parsed(1)
      BY <3>1 DEF OutInv, Queued, Parsed
    <3>3. toClient[1].id \in 1..Written
      BY <1>9, <3>2 DEF Flowing, Follows
    <3>4. toClient[1].id \in 1..Len(gameSent)
      BY <1>2, <1>6, <3>3
    <3>5. QED
      BY <1>4, <3>4
  <2>4. QED
    BY <1>1, <1>6, <1>9, <2>2, <2>3 DEF Flowing
<1>10. SubSeq(gameSent', 1, Len(gameSent)) = gameSent
  BY <1>1, <1>2, <1>3, AppendKeeps
<1>11. QED
  BY <1>1, <1>4, <1>7, <1>8, <1>9, <1>10 DEF OutInv

\* The writer puts the frames of the next packet on the wire.
LEMMA OutWrite ==
    ASSUME OutInv, WriterSends
    PROVE  OutInv' /\ UNCHANGED <<gameSent, clientGot>>
<1>p. PICK p : p = Head(outbox)
  OBVIOUS
<1>1. /\ outbox # <<>> /\ outbox' = Tail(outbox)
      /\ UNCHANGED <<broken, assembling, misread, gameSent, clientGot>>
      /\ IF broken THEN toClient' = toClient ELSE toClient' = toClient \o create_for(p)
  BY <1>p DEF WriterSends
<1>2. /\ gameSent \in Seq(Packet) /\ outbox \in Seq(Packet) /\ Len(outbox) <= Len(gameSent)
      /\ toClient \in Seq(Frame) /\ broken \in BOOLEAN
  BY DEF OutInv, Queued
<1>3. /\ outbox' \in Seq(Packet) /\ Len(outbox') = Len(outbox) - 1 /\ Len(outbox) >= 1
      /\ \A i \in 1..Len(outbox') : outbox'[i] = outbox[i + 1]
      /\ p \in Packet /\ p = outbox[1]
  BY <1>p, <1>1, <1>2, HeadTailProperties, EmptySeq
<1>4. Written \in Nat /\ Written' = Written + 1 /\ Written + 1 \in 1..Len(gameSent)
  BY <1>1, <1>2, <1>3 DEF Written
<1>5. p = gameSent[Written + 1] /\ p.id = Written + 1
  BY <1>2, <1>3, <1>4 DEF OutInv, Queued
<1>6. create_for(p) \in Seq(Frame) /\ Len(create_for(p)) >= 1
  <2>1. CASE p.massive
    BY <1>3, <2>1, MassiveFrames
  <2>2. CASE ~p.massive
    <3>1. create_for(p) \in Seq(Frame) /\ Len(create_for(p)) = 1
      BY <1>3, <2>2, SingleFrame
    <3>2. QED
      BY <3>1
  <2>3. QED
    BY <2>1, <2>2
<1>7. Queued'
  <2>1. toClient' \in Seq(Frame)
    BY <1>1, <1>2, <1>6, ConcatProperties, ZenonT(30)
  <2>2. \A k \in 1..Len(outbox') : outbox'[k] = gameSent[Written' + k]
    <3>1. SUFFICES ASSUME NEW k \in 1..Len(outbox') PROVE outbox'[k] = gameSent[Written' + k]
      OBVIOUS
    <3>2. k + 1 \in 1..Len(outbox) /\ Written' + k = Written + (k + 1)
      BY <1>2, <1>3, <1>4
    <3>3. QED
      BY <1>3, <3>2 DEF OutInv, Queued
  <2>3. Len(outbox') <= Len(gameSent)
    BY <1>2, <1>3
  <2>4. QED
    BY <1>1, <1>3, <2>1, <2>2, <2>3 DEF OutInv, Queued
<1>8. CASE broken
  BY <1>1, <1>7, <1>8 DEF OutInv, Legible, SomeOversize
<1>9. CASE ~broken
  <2>fs. PICK fs : fs = create_for(p)
    OBVIOUS
  <2>l. PICK l \in Nat : l = Len(toClient)
    BY <1>2
  <2>1. /\ Len(toClient') = l + Len(fs) /\ l \in Nat /\ Len(fs) \in Nat
        /\ \A i \in 1..l : toClient'[i] = toClient[i]
        /\ \A k \in 1..Len(fs) : toClient'[l + k] = fs[k]
    <3>1. /\ toClient' = toClient \o fs /\ l \in Nat /\ Len(fs) \in Nat
      BY <2>fs, <2>l, <1>1, <1>2, <1>6, <1>9
    <3>2. /\ Len(toClient') = l + Len(fs)
          /\ \A i \in 1..(l + Len(fs)) : toClient'[i] = IF i <= l THEN toClient[i] ELSE fs[i - l]
      BY <2>fs, <2>l, <1>2, <1>6, <3>1, ConcatProperties
    <3>3. \A k \in 1..Len(fs) : l + k \in 1..(l + Len(fs)) /\ ~(l + k <= l) /\ (l + k) - l = k
      BY <3>1
    <3>4. \A i \in 1..l : i \in 1..(l + Len(fs)) /\ i <= l
      BY <3>1
    <3>5. QED
      BY <3>1, <3>2, <3>3, <3>4
  <2>2. \A i \in 1..Len(toClient') : i \in 1..l \/ \E k \in 1..Len(fs) : i = l + k
    <3>1. SUFFICES ASSUME NEW i \in 1..(l + Len(fs)), ~(i \in 1..l) PROVE \E k \in 1..Len(fs) : i = l + k
      BY <2>1
    <3>2. i - l \in 1..Len(fs) /\ i = l + (i - l)
      BY <2>1, <3>1
    <3>3. QED
      BY <3>2
  <2>3. Legible'
    <3>1. SomeOversize' <=> SomeOversize
      BY <1>1 DEF SomeOversize
    <3>2. \A k \in 1..Len(fs) : parses(fs[k]) \/ SomeOversize
      <4>1. Oversize(p) => SomeOversize
        BY <1>4, <1>5 DEF SomeOversize
      <4>2. QED
        BY <2>fs, <1>3, <4>1, FramesParse
    <3>3. \A i \in 1..l : parses(toClient[i]) \/ SomeOversize
      BY <2>l DEF OutInv, Legible
    <3>4. \A i \in 1..Len(toClient') : parses(toClient'[i]) \/ SomeOversize
      BY <2>1, <2>2, <3>2, <3>3
    <3>5. QED
      BY <1>1, <3>1, <3>4 DEF OutInv, Legible
  <2>4. ASSUME Flowing PROVE Flowing'
    <3>1. /\ fs[1].id = Written + 1 /\ fs[1].kind # "container"
      <4>1. CASE p.massive
        BY <2>fs, <1>3, <1>5, <4>1, MassiveFrames
      <4>2. CASE ~p.massive
        <5>1. fs[1] = [kind |-> "packet", size |-> p.size, encrypted |-> p.encrypted, id |-> p.id]
          BY <2>fs, <1>3, <4>2, SingleFrame
        <5>2. QED
          BY <1>5, <5>1
      <4>3. QED
        BY <4>1, <4>2
    <3>2. \A i \in 1..l : Parsed(i)' => Parsed(i)
      BY <2>1 DEF Parsed
    <3>3. ASSUME NEW i \in 1..l, Parsed(i)' PROVE Follows(i)'
      <4>1. Follows(i) /\ l = Len(toClient)
        BY <2>l, <2>4, <3>2, <3>3 DEF Flowing
      <4>2. toClient'[i] = toClient[i] /\ (i < l => toClient'[i + 1] = toClient[i + 1])
        BY <2>1
      <4>3. toClient'[i].id \in 1..Written'
        BY <1>4, <4>1, <4>2 DEF Follows
      <4>4. CASE i < l
        <5>1. i < Len(toClient') /\ i # Len(toClient') /\ i # Len(toClient)
          BY <1>6, <2>1, <4>1, <4>4
        <5>2. QED
          BY <1>1, <4>1, <4>2, <4>3, <4>4, <5>1 DEF Follows
      <4>5. CASE i = l
        <5>1. toClient[i].kind # "header" /\ (parses(toClient[i]) => toClient[i].id = Written)
          BY <4>1, <4>5 DEF Follows
        <5>2. i # Len(toClient') /\ toClient'[i + 1] = fs[1]
          BY <2>fs, <1>6, <2>1, <4>5
        <5>3. QED
          BY <3>1, <4>2, <4>3, <5>1, <5>2 DEF Follows
      <4>6. QED
        BY <2>1, <4>4, <4>5
    <3>4. ASSUME NEW k \in 1..Len(fs), Parsed(l + k)' PROVE Follows(l + k)'
      <4>1. CASE ~p.massive
        <5>1. Len(fs) = 1 /\ fs[1] = [kind |-> "packet", size |-> p.size, encrypted |-> p.encrypted, id |-> p.id]
          BY <2>fs, <1>3, <4>1, SingleFrame
        <5>2. k = 1 /\ l + k = Len(toClient') /\ toClient'[l + k] = fs[1]
          BY <2>1, <5>1
        <5>3. fs[1].kind # "header" /\ fs[1].id = Written' /\ Written' \in 1..Written'
          BY <1>4, <1>5, <5>1
        <5>4. QED
          BY <5>2, <5>3 DEF Follows
      <4>2. CASE p.massive
        <5>1. /\ fs \in Seq(Frame) /\ Len(fs) >= 2 /\ Len(fs) = fs[1].size + 1
              /\ fs[1].kind = "header"
              /\ \A i \in 2..Len(fs) : fs[i].kind = "container" /\ ~fs[i].encrypted /\ fs[i].size < Word
              /\ \A i \in 1..Len(fs) : fs[i].id = p.id
              /\ p.size >= Word - 1 => fs[2].size = Word - 1
              /\ p.size < Word - 1 => fs[1].size = 1 /\ fs[2].size = p.size
          BY <2>fs, <1>3, <4>2, MassiveFrames
        <5>2. parses(fs[2]) => fs[1].size = 1 /\ fs[2].size = p.size /\ Len(fs) = 2
          <6>1. SUFFICES ASSUME parses(fs[2]) PROVE fs[1].size = 1 /\ fs[2].size = p.size /\ Len(fs) = 2
            OBVIOUS
          <6>2. fs[2] \in Frame /\ fs[2].kind = "container" /\ ~fs[2].encrypted /\ fs[2].size < Word
            BY <5>1, ElementOfSeq
          <6>3. fs[2].encrypted \in BOOLEAN /\ fs[2].size \in Nat
            BY <6>2 DEF Frame
          <6>4. fs[2].size + 1 < High
            BY <6>1, <6>2, <6>3, Halves, LargeContainer
          <6>5. p.size < Word - 1
            <7>1. p.size \in Nat
              BY <1>3 DEF Packet
            <7>2. fs[2].size # Word - 1
              BY <6>3, <6>4, Halves
            <7>3. QED
              BY <5>1, <7>1, <7>2, StreamAssumption
          <6>6. QED
            BY <5>1, <6>5
        <5>3. toClient'[l + k] = fs[k] /\ fs[k].id = Written' /\ Written' \in 1..Written'
          BY <1>4, <1>5, <2>1, <5>1
        <5>4. CASE k = 1
          <6>1. l + k < Len(toClient') /\ toClient'[(l + k) + 1] = fs[2]
            <7>1. 2 \in 1..Len(fs) /\ (l + k) + 1 = l + 2
              BY <2>1, <5>1, <5>4
            <7>2. QED
              BY <2>1, <5>1, <5>4, <7>1
          <6>2. gameSent'[fs[1].id] = p /\ fs[2].id = fs[1].id
            BY <1>1, <1>5, <5>1
          <6>3. QED
            BY <5>1, <5>2, <5>3, <5>4, <6>1, <6>2 DEF Follows
        <5>5. CASE k = 2
          <6>1. fs[k].kind # "header"
            BY <5>1, <5>5
          <6>2. parses(fs[k]) => l + k = Len(toClient')
            BY <2>1, <5>2, <5>5
          <6>3. QED
            BY <5>3, <6>1, <6>2 DEF Follows
        <5>6. CASE k > 2
          <6>1. l + 2 \in 1..((l + k) - 1) /\ 2 \in 1..Len(fs)
            BY <2>1, <5>1, <5>6
          <6>2. parses(fs[2])
            BY <2>1, <3>4, <6>1 DEF Parsed
          <6>3. Len(fs) = 2
            BY <5>2, <6>2
          <6>4. QED
            BY <5>6, <6>3
        <5>7. QED
          BY <2>1, <5>4, <5>5, <5>6
      <4>3. QED
        BY <4>1, <4>2
    <3>5. \A i \in 1..Len(toClient') : Parsed(i)' => Follows(i)'
      BY <2>2, <3>3, <3>4
    <3>6. /\ toClient' # <<>> /\ toClient'[1].id = Len(clientGot') + 1
          /\ toClient'[1].kind = "container" /\ parses(toClient'[1]) =>
               assembling' = [n |-> 1, size |-> 0] /\ toClient'[1].size = gameSent'[toClient'[1].id].size
      <4>1. Len(toClient') >= 1
        BY <2>fs, <1>6, <2>1
      <4>2. toClient' # <<>>
        BY <4>1
      <4>3. CASE toClient = <<>>
        <5>1. l = 0 /\ toClient'[1] = fs[1]
          <6>1. l = 0 /\ 1 \in 1..Len(fs)
            BY <2>l, <2>fs, <1>6, <2>1, <4>3
          <6>2. toClient'[0 + 1] = fs[1]
            BY <2>1, <6>1
          <6>3. QED
            BY <6>1, <6>2
        <5>2. Len(clientGot) = Written
          BY <2>4, <4>3 DEF Flowing
        <5>3. QED
          BY <1>1, <3>1, <4>2, <5>1, <5>2
      <4>4. CASE toClient # <<>>
        <5>1. toClient'[1] = toClient[1]
          BY <2>l, <1>2, <2>1, <4>4
        <5>2. QED
          BY <1>1, <2>4, <4>2, <4>4, <5>1 DEF Flowing
      <4>5. QED
        BY <4>3, <4>4
    <3>7. QED
      BY <3>5, <3>6 DEF Flowing
  <2>5. QED
    BY <1>1, <1>7, <2>3, <2>4 DEF OutInv
<1>10. QED
  BY <1>1, <1>2, <1>8, <1>9

\* What the client makes of the next frame: nothing it can read, a header, or the
\* end of the packet that is next to come, whole.
LEMMA OutReads ==
    ASSUME OutInv, ClientReads
    PROVE  /\ toClient # <<>> /\ ~broken /\ ~misread /\ Flowing
           /\ toClient' = Tail(toClient)
           /\ UNCHANGED <<broken, outbox, gameSent>>
           /\ \/ misread' = TRUE /\ ~parses(toClient[1]) /\ clientGot' = clientGot
              \/ /\ misread' = misread /\ parses(toClient[1]) /\ toClient[1].kind = "header"
                 /\ clientGot' = clientGot /\ assembling' = [n |-> toClient[1].size, size |-> 0]
              \/ /\ misread' = misread /\ parses(toClient[1]) /\ toClient[1].kind # "header"
                 /\ Len(clientGot) + 1 \in 1..Len(gameSent)
                 /\ clientGot' = Append(clientGot, gameSent[Len(clientGot) + 1])
<1>1. /\ toClient # <<>> /\ ~broken /\ ~misread /\ toClient' = Tail(toClient)
      /\ UNCHANGED <<broken, outbox, gameSent>>
  BY DEF ClientReads
<1>2. /\ Flowing /\ toClient \in Seq(Frame) /\ Len(toClient) >= 1
      /\ gameSent \in Seq(Packet) /\ outbox \in Seq(Packet) /\ clientGot \in Seq(Packet)
  BY <1>1, EmptySeq DEF OutInv, Queued
<1>3. PICK f \in Frame : f = Head(toClient) /\ f = toClient[1]
  BY <1>1, <1>2, HeadTailProperties
<1>4. CASE ~parses(f)
  BY <1>1, <1>2, <1>3, <1>4 DEF ClientReads
<1>5. CASE parses(f)
  <2>1. Parsed(1) /\ 1 \in 1..Len(toClient)
    BY <1>2 DEF Parsed
  <2>2. f.id \in 1..Written /\ f.id = Len(clientGot) + 1
    BY <1>1, <1>2, <1>3, <2>1 DEF Flowing, Follows
  <2>3. f.id \in 1..Len(gameSent) /\ Len(clientGot) \in Nat
    BY <1>2, <2>2 DEF Written
  <2>4. misread' = misread
    BY <1>3, <1>5 DEF ClientReads
  <2>5. CASE f.kind = "packet"
    <3>1. clientGot' = Append(clientGot, gameSent[f.id])
      BY <1>3, <1>5, <2>5 DEF ClientReads, Whole
    <3>2. QED
      BY <1>1, <1>2, <1>3, <1>5, <2>2, <2>3, <2>4, <2>5, <3>1
  <2>6. CASE f.kind = "header"
    <3>1. clientGot' = clientGot /\ assembling' = [n |-> f.size, size |-> 0]
      BY <1>3, <1>5, <2>6 DEF ClientReads
    <3>2. QED
      BY <1>1, <1>2, <1>3, <1>5, <2>4, <2>6, <3>1
  <2>7. CASE f.kind = "container"
    <3>1. assembling = [n |-> 1, size |-> 0] /\ f.size = gameSent[f.id].size
      BY <1>1, <1>2, <1>3, <1>5, <2>7 DEF Flowing
    <3>2. assembling.size + f.size = f.size /\ ~(assembling.n > 1)
      BY <3>1 DEF Frame
    <3>3. clientGot' = Append(clientGot, [gameSent[f.id] EXCEPT !.size = assembling.size + f.size])
      BY <1>3, <1>5, <2>7, <3>2 DEF ClientReads
    <3>4. \A p \in Packet : [p EXCEPT !.size = p.size] = p
      BY DEF Packet
    <3>5. gameSent[f.id] \in Packet
      BY <1>2, <2>3, ElementOfSeq
    <3>6. clientGot' = Append(clientGot, gameSent[f.id])
      BY <3>1, <3>2, <3>3, <3>4, <3>5
    <3>7. QED
      BY <1>1, <1>2, <1>3, <1>5, <2>2, <2>3, <2>4, <2>7, <3>6
  <2>8. QED
    BY <2>5, <2>6, <2>7 DEF Frame
<1>6. QED
  BY <1>4, <1>5

\* Reading keeps the frames in their order.
LEMMA OutRead == OutInv /\ ClientReads => OutInv'
<1> SUFFICES ASSUME OutInv, ClientReads PROVE OutInv'
  OBVIOUS
<1>1. /\ toClient # <<>> /\ ~broken /\ ~misread /\ Flowing /\ toClient' = Tail(toClient)
      /\ UNCHANGED <<broken, outbox, gameSent>>
  BY OutReads
<1>2. /\ toClient \in Seq(Frame) /\ gameSent \in Seq(Packet) /\ outbox \in Seq(Packet) /\ clientGot \in Seq(Packet)
  BY DEF OutInv, Queued
<1>3. PICK l \in Nat : l = Len(toClient) /\ l >= 1
  BY <1>1, <1>2, EmptySeq
<1>4. /\ toClient' \in Seq(Frame) /\ Len(toClient') = l - 1
      /\ \A i \in 1..(l - 1) : toClient'[i] = toClient[i + 1] /\ i + 1 \in 1..l
  BY <1>1, <1>2, <1>3, HeadTailProperties
<1>5. Written' = Written /\ Parsed(1) /\ Follows(1) /\ toClient[1].id = Len(clientGot) + 1
  <2>1. Parsed(1) /\ 1 \in 1..Len(toClient)
    BY <1>3 DEF Parsed
  <2>2. QED
    BY <1>1, <2>1 DEF Written, Flowing
<1>6. Queued'
  <2>1. misread' \in BOOLEAN
    BY <1>1, OutReads DEF OutInv, Queued
  <2>2. clientGot' \in Seq(Packet) /\ \A i \in 1..Len(clientGot') : clientGot'[i].id = i
    <3>1. CASE clientGot' = clientGot
      BY <3>1 DEF OutInv, Queued
    <3>2. CASE /\ Len(clientGot) + 1 \in 1..Len(gameSent)
               /\ clientGot' = Append(clientGot, gameSent[Len(clientGot) + 1])
      <4>1. gameSent[Len(clientGot) + 1] \in Packet /\ gameSent[Len(clientGot) + 1].id = Len(clientGot) + 1
        BY <1>2, <3>2, ElementOfSeq DEF OutInv, Queued
      <4>2. /\ clientGot' \in Seq(Packet) /\ Len(clientGot') = Len(clientGot) + 1
            /\ \A i \in 1..Len(clientGot) : clientGot'[i] = clientGot[i]
            /\ clientGot'[Len(clientGot) + 1] = gameSent[Len(clientGot) + 1]
        BY <1>2, <3>2, <4>1, AppendProperties
      <4>3. \A i \in 1..Len(clientGot') : i \in 1..Len(clientGot) \/ i = Len(clientGot) + 1
        BY <1>2, <4>2
      <4>4. QED
        BY <4>1, <4>2, <4>3 DEF OutInv, Queued
    <3>3. QED
      BY <3>1, <3>2, OutReads
  <2>3. QED
    BY <1>1, <1>4, <1>5, <2>1, <2>2 DEF OutInv, Queued
<1>7. Legible'
  <2>1. SomeOversize' <=> SomeOversize
    BY <1>1 DEF SomeOversize
  <2>2. misread' => SomeOversize
    <3>1. \/ ~parses(toClient[1])
          \/ misread' = misread
      BY OutReads
    <3>2. parses(toClient[1]) \/ SomeOversize
      BY <1>3 DEF OutInv, Legible
    <3>3. QED
      BY <1>1, <3>1, <3>2
  <2>3. \A i \in 1..(l - 1) : parses(toClient'[i]) \/ SomeOversize
    BY <1>3, <1>4 DEF OutInv, Legible
  <2>4. QED
    BY <1>4, <2>1, <2>2, <2>3 DEF Legible
<1>8. ASSUME ~misread', ~broken' PROVE Flowing'
  <2>1. parses(toClient[1])
    BY <1>8, OutReads
  <2>2. ASSUME NEW i \in 1..Len(toClient'), Parsed(i)' PROVE Follows(i)'
    <3>1. i \in 1..(l - 1) /\ i + 1 \in 1..Len(toClient) /\ (i + 1) - 1 = i
      BY <1>3, <1>4, <2>2
    <3>2. Parsed(i + 1)
      <4>1. SUFFICES ASSUME NEW j \in 1..i PROVE parses(toClient[j])
        BY <3>1 DEF Parsed
      <4>2. CASE j = 1
        BY <2>1, <4>2
      <4>3. CASE j # 1
        <5>1. j - 1 \in 1..(i - 1) /\ j - 1 \in 1..(l - 1) /\ (j - 1) + 1 = j
          BY <3>1, <4>3
        <5>2. parses(toClient'[j - 1]) /\ toClient'[j - 1] = toClient[(j - 1) + 1]
          BY <1>4, <2>2, <5>1 DEF Parsed
        <5>3. QED
          BY <5>1, <5>2
      <4>4. QED
        BY <4>2, <4>3
    <3>3. Follows(i + 1)
      BY <1>1, <3>1, <3>2 DEF Flowing
    <3>4. toClient'[i] = toClient[i + 1] /\ (i < l - 1 => toClient'[i + 1] = toClient[(i + 1) + 1])
      <4>1. i < l - 1 => i + 1 \in 1..(l - 1)
        BY <3>1
      <4>2. QED
        BY <1>4, <3>1, <4>1
    <3>5. /\ (i < Len(toClient') <=> i + 1 < Len(toClient)) /\ (i = Len(toClient') <=> i + 1 = Len(toClient))
          /\ (i < l - 1 \/ i = Len(toClient'))
          /\ (i < Len(toClient') <=> i < l - 1)
      BY <1>3, <1>4, <3>1
    <3>6. QED
      BY <1>1, <1>5, <3>3, <3>4, <3>5 DEF Follows
  <2>3. CASE toClient[1].kind = "header"
    <3>1. clientGot' = clientGot /\ assembling' = [n |-> toClient[1].size, size |-> 0]
      BY <2>3, <1>8, OutReads
    <3>2. /\ 1 < l /\ toClient[2].kind = "container" /\ toClient[2].id = toClient[1].id
          /\ parses(toClient[2]) => /\ toClient[1].size = 1
                                    /\ toClient[2].size = gameSent[toClient[1].id].size
      BY <1>3, <1>5, <2>3 DEF Follows
    <3>3. toClient'[1] = toClient[2] /\ toClient' # <<>>
      <4>1. 1 \in 1..(l - 1) /\ Len(toClient') > 0
        BY <1>4, <3>2
      <4>2. QED
        BY <1>4, <4>1
    <3>4. QED
      BY <1>1, <1>5, <2>2, <3>1, <3>2, <3>3 DEF Flowing
  <2>4. CASE toClient[1].kind # "header"
    <3>1. Len(clientGot') = Len(clientGot) + 1
      <4>1. /\ Len(clientGot) + 1 \in 1..Len(gameSent)
            /\ clientGot' = Append(clientGot, gameSent[Len(clientGot) + 1])
        BY <1>8, <2>1, <2>4, OutReads
      <4>2. QED
        BY <1>2, <4>1, ElementOfSeq, AppendProperties
    <3>2. CASE l = 1
      <4>1. toClient[1].id = Written
        BY <1>3, <1>5, <2>1, <2>4, <3>2 DEF Follows
      <4>2. toClient' = <<>>
        BY <1>4, <3>2
      <4>3. QED
        BY <1>5, <2>2, <3>1, <4>1, <4>2 DEF Flowing
    <3>3. CASE l # 1
      <4>1. toClient[2].kind # "container" /\ toClient[2].id = toClient[1].id + 1
        BY <1>3, <1>5, <2>1, <2>4, <3>3 DEF Follows
      <4>2. toClient'[1] = toClient[2] /\ toClient' # <<>>
        <5>1. 1 \in 1..(l - 1) /\ Len(toClient') > 0
          BY <1>3, <1>4, <3>3
        <5>2. QED
          BY <1>4, <5>1
      <4>3. QED
        BY <1>5, <2>2, <3>1, <4>1, <4>2 DEF Flowing
    <3>4. QED
      BY <3>2, <3>3
  <2>5. QED
    BY <2>3, <2>4
<1>9. QED
  BY <1>6, <1>7, <1>8 DEF OutInv

\* The answer to IdentityInformation is queued, or the game loop panics.
Answers ==
    /\ Take
    /\ \/ Queue(Identity) /\ UNCHANGED game
       \/ UNCHANGED <<outbox, writer, toClient, assembling, misread, gameSent, clientGot>> /\ game' = "panicked"
    /\ UNCHANGED broken /\ Identity \in Packets /\ game = "login"

\* send_identity_information does one of the two.
LEMMA IdentityStep == send_identity_information => Answers
<1> SUFFICES ASSUME send_identity_information PROVE Answers
  OBVIOUS
<1>1. Take /\ game = "login"
  BY DEF send_identity_information, AsksIdentity
<1>2. UNCHANGED broken
  BY <1>1 DEF Take
<1>3. \/ Queue(Identity) /\ UNCHANGED game
      \/ UNCHANGED outVars /\ game' = "panicked"
  BY DEF send_identity_information
<1>4. QED
  BY <1>1, <1>2, <1>3, StreamAssumption DEF Answers, outVars

\* Every step keeps the frames on the wire in order.
LEMMA OutStep == OutInv /\ [Next]_vars => OutInv'
<1> SUFFICES ASSUME OutInv, [Next]_vars PROVE OutInv'
  OBVIOUS
<1>1. CASE UNCHANGED <<broken, outbox, toClient, assembling, misread, gameSent, clientGot>>
  BY <1>1 DEF OutInv, Queued, Legible, Flowing, Follows, Parsed, SomeOversize, Written
<1>2. CASE \/ UNCHANGED vars
           \/ \E x \in Secrets : \E g \in Generators : \E p \in Moduli : initialize(x, g, p)
           \/ \E y \in Secrets : Challenge(y)
           \/ Accepted
           \/ \E p \in Sends : ClientPacket(p.op, p.fine, p.encrypted)
           \/ \E h \in Headers : ClientHeader(h.op, h.n)
           \/ \E fine \in BOOLEAN : ClientContainer(fine)
           \/ HandshakeReads \/ ReaderReads \/ StreamClosed
           \/ accept \/ Join \/ received \/ ReceiveFails \/ Logout \/ disconnected \/ WriterEnds
  BY <1>1, <1>2 DEF vars, outVars, initialize, Challenge, Accepted, ClientPacket, ClientHeader, ClientContainer,
                    Emit, HandshakeReads, ReaderReads, Read, StreamClosed, accept, Join, received, Take,
                    ReceiveFails, Logout, disconnected, WriterEnds
<1>3. CASE Break
  <2>1. broken' = TRUE /\ toClient' = <<>> /\ UNCHANGED <<outbox, misread, gameSent, clientGot>>
    BY <1>3 DEF Break
  <2>2. Queued'
    BY <2>1 DEF OutInv, Queued, Written
  <2>3. Legible'
    BY <2>1 DEF OutInv, Legible, SomeOversize
  <2>4. QED
    BY <2>1, <2>2, <2>3 DEF OutInv
<1>4. CASE \E packet \in Packets : send(packet)
  BY <1>4, OutSend DEF send
<1>8. CASE send_identity_information
  BY <1>1, <1>8, IdentityStep, OutSend DEF Answers
<1>5. CASE WriterSends
  BY <1>5, OutWrite
<1>6. CASE ClientReads
  BY <1>6, OutRead
<1>7. QED
  BY <1>2, <1>3, <1>4, <1>5, <1>6, <1>8 DEF Next

\* Whatever the game sends, the client misreads the stream only after a packet
\* whose length does not fit the 15 bits of the length field.  (frame.rs)
THEOREM EveryFrameReadsBack == Spec => []FramesReadBack
<1>1. Spec => []OutInv
  BY OutInit, OutStep, PTL DEF Spec
<1>2. ASSUME OutInv PROVE FramesReadBack
  <2>1. DOMAIN gameSent = 1..Len(gameSent)
    BY <1>2, LenProperties DEF OutInv, Queued
  <2>2. QED
    BY <1>2, <2>1 DEF OutInv, Legible, SomeOversize, Oversize, FramesReadBack
<1>3. QED
  BY <1>1, <1>2, PTL

\* The writer task, the wire and the client's reading implement a channel: the
\* client gets what the game sent, in order, once and whole, for every sequence of
\* packets, massive ones included, whenever the connection breaks.
THEOREM ClientGetsWhatIsSent == Spec => ToClient
<1>1. Spec => []OutInv
  BY OutInit, OutStep, PTL DEF Spec
<1>2. Init => Out!Init
  BY DEF Init, Out!Init
<1>3. ASSUME OutInv, [Next]_vars PROVE [Out!Next]_<<gameSent, clientGot>>
  <2>1. CASE UNCHANGED <<gameSent, clientGot>>
    BY <2>1
  <2>2. CASE \/ UNCHANGED vars
             \/ \E x \in Secrets : \E g \in Generators : \E p \in Moduli : initialize(x, g, p)
             \/ \E y \in Secrets : Challenge(y)
             \/ Accepted
             \/ \E p \in Sends : ClientPacket(p.op, p.fine, p.encrypted)
             \/ \E h \in Headers : ClientHeader(h.op, h.n)
             \/ \E fine \in BOOLEAN : ClientContainer(fine)
             \/ HandshakeReads \/ ReaderReads \/ StreamClosed \/ Break
             \/ accept \/ Join \/ received \/ ReceiveFails \/ Logout \/ disconnected \/ WriterEnds
    BY <2>1, <2>2 DEF vars, outVars, initialize, Challenge, Accepted, ClientPacket, ClientHeader,
                      ClientContainer, Emit, HandshakeReads, ReaderReads, Read, StreamClosed, Break, accept,
                      Join, received, Take, ReceiveFails, Logout, disconnected, WriterEnds
  <2>3. CASE WriterSends
    BY <1>3, <2>1, <2>3, OutWrite
  <2>4. CASE \E packet \in Packets : send(packet)
    <3>1. Len(gameSent') = Len(gameSent) + 1 /\ SubSeq(gameSent', 1, Len(gameSent)) = gameSent
      BY <1>3, <2>4, OutSend DEF send
    <3>2. clientGot' = clientGot
      BY <2>4 DEF send, Queue
    <3>3. QED
      BY <3>1, <3>2 DEF Out!Next, Out!Send
  <2>7. CASE send_identity_information
    <3>1. CASE Queue(Identity)
      <4>1. Len(gameSent') = Len(gameSent) + 1 /\ SubSeq(gameSent', 1, Len(gameSent)) = gameSent
        BY <1>3, <2>7, <3>1, IdentityStep, OutSend DEF Answers
      <4>2. clientGot' = clientGot
        BY <3>1 DEF Queue
      <4>3. QED
        BY <4>1, <4>2 DEF Out!Next, Out!Send
    <3>2. CASE UNCHANGED <<gameSent, clientGot>>
      BY <3>2
    <3>3. QED
      BY <2>7, <3>1, <3>2, IdentityStep DEF Answers
  <2>5. CASE ClientReads
    <3>1. gameSent' = gameSent
      BY <1>3, <2>5, OutReads
    <3>2. CASE clientGot' = clientGot
      BY <2>1, <3>1, <3>2
    <3>3. CASE /\ Len(clientGot) + 1 \in 1..Len(gameSent)
               /\ clientGot' = Append(clientGot, gameSent[Len(clientGot) + 1])
      <4>1. clientGot \in Seq(Packet) /\ gameSent \in Seq(Packet)
        BY <1>3 DEF OutInv, Queued
      <4>2. Out!Seen = Len(clientGot)
        <5>1. CASE clientGot = <<>>
          BY <5>1 DEF Out!Seen
        <5>2. CASE clientGot # <<>>
          <6>1. Len(clientGot) \in 1..Len(clientGot)
            BY <4>1, <5>2, EmptySeq
          <6>2. QED
            BY <1>3, <5>2, <6>1 DEF Out!Seen, OutInv, Queued
        <5>3. QED
          BY <5>1, <5>2
      <4>3. Out!Deliver(Len(clientGot) + 1)
        BY <3>1, <3>3, <4>1, <4>2 DEF Out!Deliver
      <4>4. Len(clientGot) + 1 \in DOMAIN gameSent
        BY <3>3, <4>1
      <4>5. QED
        BY <4>3, <4>4 DEF Out!Next
    <3>4. QED
      BY <1>3, <2>5, <3>2, <3>3, OutReads
  <2>6. QED
    BY <1>3, <2>2, <2>3, <2>4, <2>5, <2>7 DEF Next
<1>4. QED
  BY <1>1, <1>2, <1>3, PTL DEF Spec, ToClient, Out!Spec

-----------------------------------------------------------------------------
(* From the client to the game.                                            *)

IsSeq(s) == \E S : s \in Seq(S)

\* Sequences whose elements are of different kinds.
LEMMA AppendAny ==
    ASSUME NEW s, IsSeq(s), NEW e
    PROVE  /\ IsSeq(Append(s, e)) /\ Len(s) \in Nat /\ Len(Append(s, e)) = Len(s) + 1
           /\ \A i \in 1..Len(s) : Append(s, e)[i] = s[i]
           /\ Append(s, e)[Len(s) + 1] = e
           /\ SubSeq(Append(s, e), 1, Len(s)) = s
<1>1. PICK S : s \in Seq(S)
  BY DEF IsSeq
<1>2. s \in Seq(S \cup {e}) /\ e \in S \cup {e}
  BY <1>1, SeqMonotonic
<1>3. Append(s, e) \in Seq(S \cup {e})
  BY <1>2, AppendProperties
<1>4. IsSeq(Append(s, e))
  BY <1>3 DEF IsSeq
<1>5. QED
  BY <1>2, <1>4, AppendProperties, AppendKeeps, LenProperties

\* What is left when the first element is taken.
LEMMA TailAny ==
    ASSUME NEW s, IsSeq(s), s # <<>>
    PROVE  /\ IsSeq(Tail(s)) /\ Len(s) \in Nat \ {0} /\ Len(Tail(s)) = Len(s) - 1 /\ Head(s) = s[1]
           /\ \A i \in 1..(Len(s) - 1) : Tail(s)[i] = s[i + 1]
<1>1. PICK S : s \in Seq(S)
  BY DEF IsSeq
<1>2. Tail(s) \in Seq(S)
  BY <1>1, HeadTailProperties
<1>3. IsSeq(Tail(s))
  BY <1>2 DEF IsSeq
<1>4. QED
  BY <1>1, <1>3, HeadTailProperties, EmptySeq

\* What the game has been handed and what still waits for it, as one sequence.
LEMMA ConcatAny ==
    ASSUME NEW s, NEW t, IsSeq(s), IsSeq(t)
    PROVE  /\ IsSeq(s \o t) /\ Len(s) \in Nat /\ Len(t) \in Nat /\ Len(s \o t) = Len(s) + Len(t)
           /\ \A i \in 1..Len(s) : (s \o t)[i] = s[i]
           /\ \A i \in 1..Len(t) : (s \o t)[Len(s) + i] = t[i]
<1>1. PICK S, T : s \in Seq(S) /\ t \in Seq(T)
  BY DEF IsSeq
<1>2. s \in Seq(S \cup T) /\ t \in Seq(S \cup T)
  BY <1>1, SeqMonotonic
<1>3. /\ s \o t \in Seq(S \cup T) /\ Len(s \o t) = Len(s) + Len(t)
      /\ \A i \in 1..(Len(s) + Len(t)) : (s \o t)[i] = IF i <= Len(s) THEN s[i] ELSE t[i - Len(s)]
      /\ Len(s) \in Nat /\ Len(t) \in Nat
  BY <1>2, ConcatProperties, LenProperties
<1>4. \A i \in 1..Len(t) : Len(s) + i \in 1..(Len(s) + Len(t)) /\ ~(Len(s) + i <= Len(s)) /\ (Len(s) + i) - Len(s) = i
  BY <1>3
<1>5. \A i \in 1..Len(s) : i \in 1..(Len(s) + Len(t)) /\ i <= Len(s)
  BY <1>3
<1>6. IsSeq(s \o t)
  BY <1>3 DEF IsSeq
<1>7. QED
  BY <1>3, <1>4, <1>5, <1>6

\* Two sequences with the same elements are the same.
LEMMA SameSeq ==
    ASSUME NEW s, NEW t, IsSeq(s), IsSeq(t), Len(s) = Len(t), \A i \in 1..Len(s) : s[i] = t[i]
    PROVE  s = t
<1>1. PICK S, T : s \in Seq(S) /\ t \in Seq(T)
  BY DEF IsSeq
<1>2. s \in Seq(S \cup T) /\ t \in Seq(S \cup T)
  BY <1>1, SeqMonotonic
<1>3. QED
  BY <1>2, SeqEqual

\* Handing over the first of what waits changes nothing of the whole.
LEMMA HandOver ==
    ASSUME NEW s, NEW t, IsSeq(s), IsSeq(t), t # <<>>
    PROVE  Append(s, Head(t)) \o Tail(t) = s \o t
<1>u. PICK u : u = Append(s, Head(t))
  OBVIOUS
<1>v. PICK v : v = Tail(t)
  OBVIOUS
<1>1. /\ IsSeq(u) /\ Len(s) \in Nat /\ Len(u) = Len(s) + 1 /\ u[Len(s) + 1] = t[1]
      /\ \A i \in 1..Len(s) : u[i] = s[i]
  BY <1>u, AppendAny, TailAny
<1>2. /\ IsSeq(v) /\ Len(t) \in Nat \ {0} /\ Len(v) = Len(t) - 1
      /\ \A i \in 1..(Len(t) - 1) : v[i] = t[i + 1]
  BY <1>v, TailAny
<1>3. /\ IsSeq(u \o v) /\ Len(u \o v) = Len(u) + Len(v)
      /\ \A i \in 1..Len(u) : (u \o v)[i] = u[i]
      /\ \A i \in 1..Len(v) : (u \o v)[Len(u) + i] = v[i]
  <2>1. IsSeq(u) /\ IsSeq(v)
    BY <1>1, <1>2
  <2>2. QED
    BY <2>1, ConcatAny
<1>4. /\ IsSeq(s \o t) /\ Len(s \o t) = Len(s) + Len(t)
      /\ \A i \in 1..Len(s) : (s \o t)[i] = s[i]
      /\ \A i \in 1..Len(t) : (s \o t)[Len(s) + i] = t[i]
  BY ConcatAny
<1>5. Len(u \o v) = Len(s \o t)
  BY <1>1, <1>2, <1>3, <1>4
<1>6. ASSUME NEW i \in 1..Len(u \o v) PROVE (u \o v)[i] = (s \o t)[i]
  <2>1. CASE i \in 1..Len(s)
    <3>1. i \in 1..Len(u)
      BY <1>1, <2>1
    <3>2. QED
      BY <1>1, <1>3, <1>4, <2>1, <3>1
  <2>2. CASE i = Len(s) + 1
    <3>1. i \in 1..Len(u) /\ 1 \in 1..Len(t)
      BY <1>1, <1>2, <2>2
    <3>2. (s \o t)[i] = t[1]
      BY <1>4, <2>2, <3>1
    <3>3. QED
      BY <1>1, <1>3, <2>2, <3>1, <3>2
  <2>3. CASE i > Len(s) + 1
    <3>1. PICK k \in 1..(Len(t) - 1) : i = Len(s) + 1 + k
      <4>1. i - (Len(s) + 1) \in 1..(Len(t) - 1) /\ i = Len(s) + 1 + (i - (Len(s) + 1))
        BY <1>1, <1>2, <1>3, <2>3
      <4>2. QED
        BY <4>1
    <3>2. k \in 1..Len(v) /\ i = Len(u) + k /\ k + 1 \in 1..Len(t) /\ i = Len(s) + (k + 1)
      BY <1>1, <1>2, <3>1
    <3>3. (u \o v)[i] = v[k] /\ (s \o t)[i] = t[k + 1]
      BY <1>3, <1>4, <3>2
    <3>4. QED
      BY <1>2, <3>1, <3>3
  <2>4. QED
    BY <1>1, <1>2, <1>3, <2>1, <2>2, <2>3
<1>7. QED
  BY <1>3, <1>4, <1>5, <1>6, <1>u, <1>v, SameSeq

(* The client knows how many messages it has sent and which containers its *)
(* last header still announces.  The frames on the wire tell how it got    *)
(* from one such standing to the next; the first of them is where the      *)
(* reader stands.                                                          *)
Ops == {h.op : h \in Headers}
Standing == [op : Ops \cup {None}, n : 0..(Word - 1), sent : Nat]
Waiting == [op : Ops, n : 0..(Word - 1)]

Told(f, b, a) ==
    \/ f.kind \in {"challenge", "accepted"} /\ a = b
    \/ f.kind = "header" /\ [op |-> f.op, n |-> f.n] \in Waiting /\ a = [op |-> f.op, n |-> f.n, sent |-> b.sent]
    \/ /\ f.kind = "packet" /\ f.fine \in BOOLEAN
       /\ f.msg = [id |-> b.sent + 1, op |-> f.op, optional |-> ~f.fine \/ ~TRUE]
       /\ a = [op |-> b.op, n |-> b.n, sent |-> b.sent + 1]
    \/ /\ f.kind = "container" /\ f.fine \in BOOLEAN
       /\ f.msg = [id |-> b.sent + 1, op |-> b.op, optional |-> ~f.fine \/ ~(b.n > 0)]
       /\ a = [op |-> b.op, n |-> Larger(b.n - 1, 0), sent |-> b.sent + 1]

IsMessage(f) == f.kind \in {"packet", "container"}

Handed == gameGot \o inbox
IdBefore(k) == IF k = 1 THEN 0 ELSE Handed[k - 1].id
LastId == IF Len(Handed) = 0 THEN 0 ELSE Handed[Len(Handed)].id

\* What is handed over is what was sent, in order; what was left out is optional.
Ordered ==
    \A k \in 1..Len(Handed) :
        /\ Handed[k].id \in 1..Len(clientSent) /\ Handed[k] = clientSent[Handed[k].id]
        /\ Handed[k].id > IdBefore(k)
        /\ \A j \in (IdBefore(k) + 1)..(Handed[k].id - 1) : clientSent[j].optional

\* The reader expects no fewer containers than the client has announced, and has
\* handed over all of what the client sent before that is not optional.
Matches(e) ==
    /\ massive # None => massive.op = e.op
    /\ e.n > 0 => massive # None /\ massive.n >= e.n
    /\ e.sent <= Len(clientSent)
    /\ game # "dropped" => LastId <= e.sent /\ \A j \in (LastId + 1)..e.sent : clientSent[j].optional

Story(a) ==
    /\ a \in [0..Len(toServer) -> Standing]
    /\ a[Len(toServer)] = [op |-> announced.op, n |-> announced.n, sent |-> Len(clientSent)]
    /\ \A i \in 1..Len(toServer) :
         /\ Told(toServer[i], a[i - 1], a[i])
         /\ IsMessage(toServer[i]) => /\ toServer[i].msg.id \in 1..Len(clientSent)
                                      /\ toServer[i].msg = clientSent[toServer[i].msg.id]
    /\ Matches(a[0])

Reading == reader = "run" /\ stage # "failed" /\ ~broken

InInv ==
    /\ IsSeq(toServer) /\ IsSeq(clientSent) /\ IsSeq(gameGot) /\ IsSeq(inbox)
    /\ announced \in [op : Ops \cup {None}, n : 0..(Word - 1)]
    /\ massive \in Waiting \cup {None}
    /\ Ordered
    /\ Reading => \E a : Story(a)

\* No header is mistaken for none.
LEMMA NoneWaits == \A w \in Waiting : w # None
  BY StreamAssumption DEF Waiting, Ops

\* What the game has been handed: what it got, and then what waits for it.
LEMMA HandedIs ==
    ASSUME InInv
    PROVE  /\ IsSeq(Handed) /\ Len(Handed) \in Nat /\ Len(gameGot) \in Nat /\ Len(inbox) \in Nat
           /\ Len(clientSent) \in Nat /\ Len(toServer) \in Nat
           /\ Len(Handed) = Len(gameGot) + Len(inbox)
           /\ \A i \in 1..Len(gameGot) : Handed[i] = gameGot[i]
           /\ \A i \in 1..Len(inbox) : Handed[Len(gameGot) + i] = inbox[i]
<1>1. \A s : IsSeq(s) => Len(s) \in Nat
  BY DEF IsSeq
<1>2. QED
  BY <1>1, ConcatAny DEF InInv, Handed

\* Nothing has been read yet.
LEMMA InInit == Init => InInv
<1> SUFFICES ASSUME Init PROVE InInv
  OBVIOUS
<1>1. /\ toServer = <<>> /\ clientSent = <<>> /\ gameGot = <<>> /\ inbox = <<>> /\ massive = None
      /\ announced = [op |-> None, n |-> 0]
  BY DEF Init
<1>2. IsSeq(<<>>) /\ Len(<<>>) = 0
  <2>1. <<>> \in Seq({})
    OBVIOUS
  <2>2. QED
    BY <2>1 DEF IsSeq
<1>3. Handed = <<>> /\ Len(Handed) = 0
  BY <1>1 DEF Handed
<1>4. Ordered /\ LastId = 0
  BY <1>3 DEF Ordered, LastId
<1>5. announced \in [op : Ops \cup {None}, n : 0..(Word - 1)] /\ massive \in Waiting \cup {None}
  BY <1>1, StreamAssumption
<1>6. \E a : Story(a)
  <2> DEFINE e == [op |-> None, n |-> 0, sent |-> 0]
             a == [i \in 0..0 |-> e]
  <2>1. e \in Standing /\ e.n = 0 /\ e.sent = 0
    BY StreamAssumption DEF Standing
  <2>2. a \in [0..0 -> Standing] /\ a[0] = e
    BY <2>1
  <2>3. Matches(e)
    <3>1. ~(e.n > 0) /\ e.sent <= 0 /\ (LastId + 1)..e.sent = {} /\ LastId <= e.sent
      BY <1>4, <2>1
    <3>2. QED
      BY <1>1, <1>2, <3>1 DEF Matches
  <2>4. e = [op |-> announced.op, n |-> announced.n, sent |-> Len(clientSent)]
    BY <1>1, <1>2
  <2>5. 1..Len(toServer) = {} /\ Len(toServer) = 0
    BY <1>1, <1>2
  <2> HIDE DEF a, e
  <2>6. Story(a)
    BY <2>2, <2>3, <2>4, <2>5 DEF Story
  <2>7. QED
    BY <2>6
<1>7. QED
  BY <1>1, <1>2, <1>4, <1>5, <1>6 DEF InInv

\* The reader takes a frame: it stands where the client stood after that frame.
LEMMA StoryTail ==
    ASSUME InInv, NEW a, Story(a), toServer # <<>>, toServer' = Tail(toServer),
           UNCHANGED <<clientSent, announced>>, Matches(a[1])'
    PROVE  \E b : Story(b)'
<1>1. PICK l \in Nat : l = Len(toServer) /\ l >= 1
  BY TailAny DEF InInv
<1>2. Len(toServer') = l - 1 /\ \A i \in 1..(l - 1) : toServer'[i] = toServer[i + 1]
  BY <1>1, TailAny DEF InInv
<1>3. PICK b : b = [i \in 0..(l - 1) |-> a[i + 1]]
  OBVIOUS
<1>4. b \in [0..(l - 1) -> Standing] /\ b[l - 1] = a[l] /\ b[0] = a[1]
  <2>1. \A i \in 0..(l - 1) : i + 1 \in 0..l
    BY <1>1
  <2>2. b \in [0..(l - 1) -> Standing]
    BY <1>1, <1>3, <2>1 DEF Story
  <2>3. l - 1 \in 0..(l - 1) /\ 0 \in 0..(l - 1) /\ (l - 1) + 1 = l /\ 0 + 1 = 1
    BY <1>1
  <2>4. QED
    BY <1>3, <2>2, <2>3
<1>5. ASSUME NEW i \in 1..(l - 1)
      PROVE  /\ Told(toServer'[i], b[i - 1], b[i])
             /\ IsMessage(toServer'[i]) => /\ toServer'[i].msg.id \in 1..Len(clientSent')
                                           /\ toServer'[i].msg = clientSent'[toServer'[i].msg.id]
  <2>1. i + 1 \in 1..l /\ (i + 1) - 1 = i /\ i \in 0..(l - 1) /\ i - 1 \in 0..(l - 1) /\ (i - 1) + 1 = i
    BY <1>1
  <2>2. b[i] = a[i + 1] /\ b[i - 1] = a[i]
    BY <1>3, <2>1
  <2>3. /\ Told(toServer[i + 1], a[(i + 1) - 1], a[i + 1])
        /\ IsMessage(toServer[i + 1]) => /\ toServer[i + 1].msg.id \in 1..Len(clientSent)
                                         /\ toServer[i + 1].msg = clientSent[toServer[i + 1].msg.id]
    BY <1>1, <2>1 DEF Story
  <2>4. QED
    BY <1>2, <2>1, <2>2, <2>3
<1>6. Story(b)'
  BY <1>1, <1>2, <1>4, <1>5 DEF Story
<1>7. QED
  BY <1>6

\* The last message handed over, or none.
LEMMA LastIdType == InInv => LastId \in Nat
<1> SUFFICES ASSUME InInv PROVE LastId \in Nat
  OBVIOUS
<1>1. CASE Len(Handed) = 0
  BY <1>1 DEF LastId
<1>2. CASE Len(Handed) # 0
  <2>1. Len(Handed) \in 1..Len(Handed)
    BY <1>2, HandedIs
  <2>2. QED
    BY <1>2, <2>1, HandedIs DEF LastId, InInv, Ordered
<1>3. QED
  BY <1>1, <1>2

\* The client sends a frame: its standing moves on with it.
LEMMA StoryAppend ==
    ASSUME InInv, NEW a, Story(a), NEW f, NEW c \in Standing, toServer' = Append(toServer, f),
           Told(f, a[Len(toServer)], c),
           c = [op |-> announced'.op, n |-> announced'.n, sent |-> Len(clientSent')],
           Len(clientSent') \in Nat, Len(clientSent) <= Len(clientSent'),
           \A j \in 1..Len(clientSent) : clientSent'[j] = clientSent[j],
           IsMessage(f) => f.msg.id \in 1..Len(clientSent') /\ f.msg = clientSent'[f.msg.id],
           UNCHANGED <<massive, game, gameGot, inbox>>
    PROVE  \E b : Story(b)'
<1>1. PICK l \in Nat : l = Len(toServer)
  BY HandedIs
<1>2. /\ Len(toServer') = l + 1 /\ toServer'[l + 1] = f /\ \A i \in 1..l : toServer'[i] = toServer[i]
  BY <1>1, AppendAny DEF InInv
<1>3. PICK b : b = [i \in 0..(l + 1) |-> IF i <= l THEN a[i] ELSE c]
  OBVIOUS
<1>4. a \in [0..l -> Standing]
  BY <1>1 DEF Story
<1>5. b \in [0..(l + 1) -> Standing] /\ b[l + 1] = c /\ \A i \in 0..l : b[i] = a[i]
  <2>1. \A i \in 0..(l + 1) : i <= l => i \in 0..l
    OBVIOUS
  <2>2. b \in [0..(l + 1) -> Standing]
    BY <1>3, <1>4, <2>1
  <2>3. l + 1 \in 0..(l + 1) /\ ~(l + 1 <= l) /\ \A i \in 0..l : i \in 0..(l + 1) /\ i <= l
    OBVIOUS
  <2>4. QED
    BY <1>3, <2>2, <2>3
<1>6. ASSUME NEW i \in 1..(l + 1)
      PROVE  /\ Told(toServer'[i], b[i - 1], b[i])
             /\ IsMessage(toServer'[i]) => /\ toServer'[i].msg.id \in 1..Len(clientSent')
                                           /\ toServer'[i].msg = clientSent'[toServer'[i].msg.id]
  <2>1. CASE i = l + 1
    <3>1. i - 1 = l /\ l \in 0..l
      BY <2>1
    <3>2. QED
      BY <1>1, <1>2, <1>5, <2>1, <3>1
  <2>2. CASE i \in 1..l
    <3>1. i \in 0..l /\ i - 1 \in 0..l
      BY <2>2
    <3>2. /\ Told(toServer[i], a[i - 1], a[i])
          /\ IsMessage(toServer[i]) => /\ toServer[i].msg.id \in 1..Len(clientSent)
                                       /\ toServer[i].msg = clientSent[toServer[i].msg.id]
      BY <1>1, <2>2 DEF Story
    <3>3. \A j \in 1..Len(clientSent) : j \in 1..Len(clientSent') /\ clientSent'[j] = clientSent[j]
      BY HandedIs
    <3>4. QED
      BY <1>2, <1>5, <2>2, <3>1, <3>2, <3>3
  <2>3. i = l + 1 \/ i \in 1..l
    BY <1>6
  <2>4. QED
    BY <2>1, <2>2, <2>3
<1>7. Matches(a[0])'
  <2>1. Matches(a[0]) /\ a[0] \in Standing
    BY <1>4 DEF Story
  <2>2. PICK e \in Standing : e = a[0]
    BY <2>1
  <2>3. LastId' = LastId /\ e.sent \in Nat /\ e.sent <= Len(clientSent)
    BY <2>1, <2>2 DEF LastId, Handed, Matches, Standing
  <2>4. LastId \in Nat
    BY LastIdType
  <2>5. \A j \in (LastId + 1)..e.sent : j \in 1..Len(clientSent)
    BY <2>3, <2>4, HandedIs
  <2>6. e.sent <= Len(clientSent')
    BY <2>3, HandedIs
  <2>7. Matches(e)'
    BY <2>1, <2>2, <2>3, <2>5, <2>6 DEF Matches
  <2>8. QED
    BY <2>2, <2>7
<1>8. b[0] = a[0]
  BY <1>5
<1>9. Story(b)'
  BY <1>2, <1>5, <1>6, <1>7, <1>8 DEF Story
<1>10. QED
  BY <1>9

\* What has been handed over stays in order when the client sends more.
LEMMA OrderedMore ==
    ASSUME InInv, Len(clientSent') \in Nat, Len(clientSent) <= Len(clientSent'),
           \A j \in 1..Len(clientSent) : clientSent'[j] = clientSent[j],
           UNCHANGED <<gameGot, inbox>>
    PROVE  Ordered'
<1>1. Handed' = Handed
  BY DEF Handed
<1>2. ASSUME NEW k \in 1..Len(Handed) PROVE IdBefore(k) \in Nat
  <2>1. CASE k = 1
    BY <2>1 DEF IdBefore
  <2>2. CASE k # 1
    <3>1. k - 1 \in 1..Len(Handed)
      BY <2>2, HandedIs
    <3>2. QED
      BY <2>2, <3>1, HandedIs, SMTT(20) DEF IdBefore, InInv, Ordered
  <2>3. QED
    BY <2>1, <2>2
<1>3. ASSUME NEW k \in 1..Len(Handed)
      PROVE  /\ Handed[k].id \in 1..Len(clientSent') /\ Handed[k] = clientSent'[Handed[k].id]
             /\ Handed[k].id > IdBefore(k)
             /\ \A j \in (IdBefore(k) + 1)..(Handed[k].id - 1) : clientSent'[j].optional
  <2>1. /\ Handed[k].id \in 1..Len(clientSent) /\ Handed[k] = clientSent[Handed[k].id]
        /\ Handed[k].id > IdBefore(k)
        /\ \A j \in (IdBefore(k) + 1)..(Handed[k].id - 1) : clientSent[j].optional
    BY DEF InInv, Ordered
  <2>2. \A j \in (IdBefore(k) + 1)..(Handed[k].id - 1) : j \in 1..Len(clientSent)
    BY <1>2, <2>1, HandedIs
  <2>3. Handed[k].id \in 1..Len(clientSent')
    BY <2>1, HandedIs
  <2>4. QED
    BY <2>1, <2>2, <2>3
<1>4. \A k \in 1..Len(Handed) : IdBefore(k)' = IdBefore(k)
  BY <1>1 DEF IdBefore
<1>5. QED
  BY <1>1, <1>3, <1>4 DEF Ordered

\* Everything the client does on the wire.
LEMMA InEmit ==
    ASSUME InInv,
           \/ \E y \in Secrets : Challenge(y)
           \/ Accepted
           \/ \E p \in Sends : ClientPacket(p.op, p.fine, p.encrypted)
           \/ \E h \in Headers : ClientHeader(h.op, h.n)
           \/ \E fine \in BOOLEAN : ClientContainer(fine)
    PROVE  /\ InInv' /\ gameGot' = gameGot
           /\ \/ clientSent' = clientSent
              \/ Len(clientSent') = Len(clientSent) + 1 /\ SubSeq(clientSent', 1, Len(clientSent)) = clientSent
<1>1. /\ UNCHANGED <<broken, massive, reader, inbox, gameGot, stage, game>>
  BY DEF Challenge, Accepted, ClientPacket, ClientHeader, ClientContainer, Emit, readVars, handshakeVars
<1>2. Len(clientSent) \in Nat /\ Len(toServer) \in Nat
  BY HandedIs
<1> DEFINE Standing0 == [op |-> announced.op, n |-> announced.n, sent |-> Len(clientSent)]
<1>3. PICK o, m : announced = [op |-> o, n |-> m] /\ o \in Ops \cup {None} /\ m \in 0..(Word - 1)
  BY DEF InInv
<1>4. ASSUME NEW f, NEW c \in Standing, toServer' = Append(toServer, f),
             Told(f, Standing0, c),
             c = [op |-> announced'.op, n |-> announced'.n, sent |-> Len(clientSent')],
             announced' \in [op : Ops \cup {None}, n : 0..(Word - 1)],
             \/ clientSent' = clientSent /\ ~IsMessage(f)
             \/ clientSent' = Append(clientSent, f.msg) /\ f.msg.id = Len(clientSent) + 1
      PROVE  /\ InInv'
             /\ \/ clientSent' = clientSent
                \/ Len(clientSent') = Len(clientSent) + 1 /\ SubSeq(clientSent', 1, Len(clientSent)) = clientSent
  <2>1. /\ IsSeq(clientSent') /\ Len(clientSent') \in Nat /\ Len(clientSent) <= Len(clientSent')
        /\ \A j \in 1..Len(clientSent) : clientSent'[j] = clientSent[j]
        /\ IsMessage(f) => f.msg.id \in 1..Len(clientSent') /\ f.msg = clientSent'[f.msg.id]
        /\ \/ clientSent' = clientSent
           \/ Len(clientSent') = Len(clientSent) + 1 /\ SubSeq(clientSent', 1, Len(clientSent)) = clientSent
    <3>1. CASE clientSent' = clientSent /\ ~IsMessage(f)
      BY <1>2, <3>1 DEF InInv
    <3>2. CASE clientSent' = Append(clientSent, f.msg) /\ f.msg.id = Len(clientSent) + 1
      <4>1. /\ IsSeq(clientSent') /\ Len(clientSent') = Len(clientSent) + 1
            /\ \A j \in 1..Len(clientSent) : clientSent'[j] = clientSent[j]
            /\ clientSent'[Len(clientSent) + 1] = f.msg
            /\ SubSeq(clientSent', 1, Len(clientSent)) = clientSent
        BY <3>2, AppendAny DEF InInv
      <4>2. /\ f.msg.id \in 1..Len(clientSent') /\ Len(clientSent') \in Nat
            /\ Len(clientSent) <= Len(clientSent')
        BY <1>2, <3>2, <4>1
      <4>3. f.msg = clientSent'[f.msg.id]
        BY <3>2, <4>1
      <4>4. QED
        BY <4>1, <4>2, <4>3
    <3>3. QED
      BY <1>4, <3>1, <3>2
  <2>2. IsSeq(toServer')
    BY <1>4, AppendAny DEF InInv
  <2>3. Ordered'
    BY <1>1, <2>1, OrderedMore
  <2>4. ASSUME Reading' PROVE \E b : Story(b)'
    <3>1. Reading
      BY <1>1, <2>4 DEF Reading
    <3>2. PICK a : Story(a)
      BY <3>1 DEF InInv
    <3>3. a[Len(toServer)] = Standing0
      BY <3>2 DEF Story
    <3>4. Told(f, a[Len(toServer)], c)
      BY <1>4, <3>3
    <3> HIDE DEF Standing0
    <3>5. QED
      BY <1>1, <1>4, <2>1, <3>2, <3>4, StoryAppend
  <2>5. QED
    BY <1>1, <1>4, <2>1, <2>2, <2>3, <2>4 DEF InInv
<1>5. Standing0 \in Standing /\ Standing0.sent = Len(clientSent) /\ Standing0.op = o /\ Standing0.n = m
  BY <1>2, <1>3 DEF Standing
<1>6. CASE (\E y \in Secrets : Challenge(y)) \/ Accepted
  <2>1. /\ UNCHANGED <<clientSent, announced>>
        /\ \E f : toServer' = Append(toServer, f) /\ f.kind \in {"challenge", "accepted"}
    <3>1. CASE Accepted
      <4>1. PICK f : f = [kind |-> "accepted", encrypted |-> FALSE]
        OBVIOUS
      <4>2. UNCHANGED <<clientSent, announced>> /\ toServer' = Append(toServer, f) /\ f.kind = "accepted"
        BY <3>1, <4>1 DEF Accepted
      <4>3. QED
        BY <4>2
    <3>2. CASE \E y \in Secrets : Challenge(y)
      <4>1. PICK y \in Secrets : Challenge(y)
        BY <3>2
      <4>2. PICK f : f = [kind |-> "challenge", encrypted |-> FALSE,
                          b |-> g_pow_x_mod_p(exchange.p, y, exchange.g),
                          key |-> g_pow_x_mod_p(exchange.p, y, exchange.a)]
        OBVIOUS
      <4>3. UNCHANGED <<clientSent, announced>> /\ toServer' = Append(toServer, f) /\ f.kind = "challenge"
        BY <4>1, <4>2 DEF Challenge
      <4>4. QED
        BY <4>3
    <3>3. QED
      BY <1>6, <3>1, <3>2
  <2>2. PICK f : toServer' = Append(toServer, f) /\ f.kind \in {"challenge", "accepted"}
    BY <2>1
  <2>3. PICK c \in Standing : c = Standing0
    BY <1>5
  <2>4. Told(f, Standing0, c) /\ ~IsMessage(f)
    BY <2>2, <2>3 DEF Told, IsMessage
  <2>5. c = [op |-> announced'.op, n |-> announced'.n, sent |-> Len(clientSent')]
    BY <2>1, <2>3
  <2>6. announced' \in [op : Ops \cup {None}, n : 0..(Word - 1)]
    BY <2>1 DEF InInv
  <2> HIDE DEF Standing0
  <2>7. QED
    BY <1>1, <1>4, <2>1, <2>2, <2>4, <2>5, <2>6
<1>7. CASE \E h \in Headers : ClientHeader(h.op, h.n)
  <2>1. PICK h \in Headers : ClientHeader(h.op, h.n)
    BY <1>7
  <2>2. PICK f : f = [kind |-> "header", encrypted |-> FALSE, op |-> h.op, n |-> h.n]
    OBVIOUS
  <2>3. /\ toServer' = Append(toServer, f) /\ clientSent' = clientSent /\ announced' = [op |-> h.op, n |-> h.n]
    BY <2>1, <2>2 DEF ClientHeader, Emit
  <2>4. h.op \in Ops /\ h.n \in 0..(Word - 1)
    BY StreamAssumption DEF Ops
  <2>5. PICK c \in Standing : c = [op |-> h.op, n |-> h.n, sent |-> Len(clientSent)]
    BY <1>2, <2>4 DEF Standing
  <2>6. Told(f, Standing0, c) /\ ~IsMessage(f)
    BY <1>5, <2>2, <2>4, <2>5 DEF Told, IsMessage, Waiting
  <2>7. c = [op |-> announced'.op, n |-> announced'.n, sent |-> Len(clientSent')]
    BY <2>3, <2>5
  <2>8. announced' \in [op : Ops \cup {None}, n : 0..(Word - 1)]
    BY <2>3, <2>4
  <2> HIDE DEF Standing0
  <2>9. QED
    BY <1>1, <1>4, <2>3, <2>6, <2>7, <2>8
<1>8. CASE \E p \in Sends : ClientPacket(p.op, p.fine, p.encrypted)
  <2>1. PICK p \in Sends : ClientPacket(p.op, p.fine, p.encrypted)
    BY <1>8
  <2>2. p.fine \in BOOLEAN
    BY StreamAssumption
  <2>3. PICK msg : msg = [id |-> Len(clientSent) + 1, op |-> p.op, optional |-> ~p.fine \/ ~TRUE]
    OBVIOUS
  <2>4. PICK f : f = [kind |-> "packet", encrypted |-> p.encrypted, op |-> p.op, fine |-> p.fine, msg |-> msg]
    OBVIOUS
  <2>5. toServer' = Append(toServer, f) /\ clientSent' = Append(clientSent, msg) /\ announced' = announced
    BY <2>1, <2>3, <2>4 DEF ClientPacket, Emit, Message
  <2>6. f.kind = "packet" /\ f.op = p.op /\ f.fine = p.fine /\ f.msg = msg /\ f.msg.id = Len(clientSent) + 1
    BY <2>3, <2>4
  <2>7. PICK c \in Standing : c = [op |-> o, n |-> m, sent |-> Len(clientSent) + 1]
    <3>1. [op |-> o, n |-> m, sent |-> Len(clientSent) + 1] \in Standing
      BY <1>2, <1>3 DEF Standing
    <3>2. QED
      BY <3>1
  <2>8. Told(f, Standing0, c)
    BY <1>5, <2>2, <2>3, <2>6, <2>7 DEF Told
  <2>9. c = [op |-> announced'.op, n |-> announced'.n, sent |-> Len(clientSent')]
    <3>1. Len(clientSent') = Len(clientSent) + 1
      BY <2>5, AppendAny DEF InInv
    <3>2. QED
      BY <1>3, <2>5, <2>7, <3>1
  <2>10. announced' \in [op : Ops \cup {None}, n : 0..(Word - 1)]
    BY <2>5 DEF InInv
  <2> HIDE DEF Standing0
  <2>11. QED
    BY <1>1, <1>4, <2>5, <2>6, <2>8, <2>9, <2>10
<1>9. CASE \E fine \in BOOLEAN : ClientContainer(fine)
  <2>1. PICK fine \in BOOLEAN : ClientContainer(fine)
    BY <1>9
  <2>2. PICK msg : msg = [id |-> Len(clientSent) + 1, op |-> o, optional |-> ~fine \/ ~(m > 0)]
    OBVIOUS
  <2>3. PICK f : f = [kind |-> "container", encrypted |-> FALSE, fine |-> fine, msg |-> msg]
    OBVIOUS
  <2>4. /\ toServer' = Append(toServer, f) /\ clientSent' = Append(clientSent, msg)
        /\ announced' = [announced EXCEPT !.n = Larger(@ - 1, 0)]
    <3>1. announced.op = o /\ announced.n = m
      BY <1>3
    <3>2. msg = Message(announced.op, fine, announced.n > 0)
      BY <2>2, <3>1 DEF Message
    <3>3. QED
      BY <2>1, <2>3, <3>2 DEF ClientContainer, Emit
  <2>5. announced' = [op |-> o, n |-> Larger(m - 1, 0)] /\ Larger(m - 1, 0) \in 0..(Word - 1)
    BY <1>3, <2>4, StreamAssumption DEF Larger
  <2>6. f.kind = "container" /\ f.fine = fine /\ f.msg = msg /\ f.msg.id = Len(clientSent) + 1
    BY <2>2, <2>3
  <2>7. PICK c \in Standing : c = [op |-> o, n |-> Larger(m - 1, 0), sent |-> Len(clientSent) + 1]
    <3>1. [op |-> o, n |-> Larger(m - 1, 0), sent |-> Len(clientSent) + 1] \in Standing
      BY <1>2, <1>3, <2>5 DEF Standing
    <3>2. QED
      BY <3>1
  <2>8. Told(f, Standing0, c)
    BY <1>5, <2>1, <2>2, <2>6, <2>7 DEF Told
  <2>9. c = [op |-> announced'.op, n |-> announced'.n, sent |-> Len(clientSent')]
    <3>1. Len(clientSent') = Len(clientSent) + 1
      BY <2>4, AppendAny DEF InInv
    <3>2. QED
      BY <2>5, <2>7, <3>1
  <2>10. announced' \in [op : Ops \cup {None}, n : 0..(Word - 1)]
    BY <1>3, <2>5
  <2> HIDE DEF Standing0
  <2>11. QED
    BY <1>1, <1>4, <2>4, <2>6, <2>8, <2>9, <2>10
<1>10. QED
  BY <1>6, <1>7, <1>8, <1>9

\* Where the client stood before and after the frame that the reader takes.
LEMMA HeadTold ==
    ASSUME InInv, NEW a, Story(a), toServer # <<>>
    PROVE  /\ Told(Head(toServer), a[0], a[1]) /\ a[0] \in Standing /\ a[1] \in Standing /\ Matches(a[0])
           /\ IsMessage(Head(toServer)) => /\ Head(toServer).msg.id \in 1..Len(clientSent)
                                           /\ Head(toServer).msg = clientSent[Head(toServer).msg.id]
<1>1. Len(toServer) \in Nat \ {0} /\ Head(toServer) = toServer[1]
  BY TailAny DEF InInv
<1>2. 1 \in 1..Len(toServer) /\ 1 - 1 = 0 /\ 0 \in 0..Len(toServer) /\ 1 \in 0..Len(toServer)
  BY <1>1
<1>3. a[0] \in Standing /\ a[1] \in Standing
  BY <1>2 DEF Story
<1>4. QED
  BY <1>1, <1>2, <1>3 DEF Story

\* The reader's header is the client's.
LEMMA ReadHeader ==
    ASSUME InInv, NEW a, Story(a), toServer # <<>>, Head(toServer).kind = "header",
           massive' = [op |-> Head(toServer).op, n |-> Head(toServer).n],
           UNCHANGED <<clientSent, gameGot, inbox, game>>
    PROVE  Matches(a[1])' /\ massive' \in Waiting
<1>1. PICK f : f = Head(toServer)
  OBVIOUS
<1>2. PICK c \in Standing, d \in Standing : c = a[0] /\ d = a[1] /\ Told(f, c, d) /\ Matches(c)
  BY <1>1, HeadTold
<1>3. massive' \in Waiting /\ massive' = [op |-> f.op, n |-> f.n] /\ d = [op |-> f.op, n |-> f.n, sent |-> c.sent]
  BY <1>1, <1>2 DEF Told
<1>4. massive' # None
  BY <1>3, NoneWaits
<1>5. massive'.op = d.op /\ massive'.n = d.n /\ d.sent = c.sent /\ d.n \in Nat
  BY <1>2, <1>3 DEF Standing
<1>6. LastId' = LastId
  BY DEF LastId, Handed
<1>7. Matches(d)'
  <2>1. /\ c.sent <= Len(clientSent)
        /\ game # "dropped" => LastId <= c.sent /\ \A j \in (LastId + 1)..c.sent : clientSent[j].optional
    BY <1>2 DEF Matches
  <2>2. massive'.n >= d.n
    BY <1>5
  <2>3. QED
    BY <1>4, <1>5, <1>6, <2>1, <2>2 DEF Matches
<1>8. QED
  BY <1>2, <1>3, <1>7

\* A frame of the handshake moves neither.
LEMMA ReadHandshake ==
    ASSUME InInv, NEW a, Story(a), toServer # <<>>, Head(toServer).kind \in {"challenge", "accepted"},
           UNCHANGED <<clientSent, gameGot, inbox, game, massive>>
    PROVE  Matches(a[1])'
<1>1. PICK f : f = Head(toServer)
  OBVIOUS
<1>2. PICK c \in Standing, d \in Standing : c = a[0] /\ d = a[1] /\ Told(f, c, d) /\ Matches(c)
  BY <1>1, HeadTold
<1>3. d = c
  BY <1>1, <1>2 DEF Told
<1>4. LastId' = LastId
  BY DEF LastId, Handed
<1>5. Matches(c)'
  BY <1>2, <1>4 DEF Matches
<1>6. QED
  BY <1>2, <1>3, <1>5

\* What is not handed over could not be read or was not announced.
LEMMA ReadSkipped ==
    ASSUME InInv, NEW a, Story(a), toServer # <<>>, ProtocolError(Head(toServer)),
           UNCHANGED <<clientSent, gameGot, inbox, game, massive>>
    PROVE  Matches(a[1])'
<1>1. PICK f : f = Head(toServer)
  OBVIOUS
<1>2. PICK c \in Standing, d \in Standing :
        /\ c = a[0] /\ d = a[1] /\ Told(f, c, d) /\ Matches(c)
        /\ IsMessage(f) => f.msg.id \in 1..Len(clientSent) /\ f.msg = clientSent[f.msg.id]
  BY <1>1, HeadTold
<1>3. c.sent \in Nat /\ c.n \in Nat /\ Len(clientSent) \in Nat
  BY HandedIs DEF Standing
<1>4. IsMessage(f)
  BY <1>1 DEF ProtocolError, IsMessage
<1>5. f.msg.id = c.sent + 1 /\ f.msg.optional /\ d.sent = c.sent + 1 /\ d.op = c.op
  <2>1. CASE f.kind = "packet"
    <3>1. PICK q : q = (~f.fine \/ ~TRUE)
      OBVIOUS
    <3>2. f.msg = [id |-> c.sent + 1, op |-> f.op, optional |-> q]
      BY <1>2, <2>1, <3>1 DEF Told
    <3>3. d = [op |-> c.op, n |-> c.n, sent |-> c.sent + 1]
      BY <1>2, <2>1 DEF Told
    <3>4. ~f.fine
      BY <1>1, <2>1 DEF ProtocolError
    <3>5. q
      BY <3>1, <3>4
    <3>6. f.msg.id = c.sent + 1 /\ f.msg.optional = q
      BY <3>2
    <3>7. f.msg.optional
      BY <3>5, <3>6
    <3>8. QED
      BY <3>3, <3>6, <3>7
  <2>2. CASE f.kind = "container"
    <3>1. PICK q : q = (~f.fine \/ ~(c.n > 0))
      OBVIOUS
    <3>2. f.msg = [id |-> c.sent + 1, op |-> c.op, optional |-> q]
      BY <1>2, <2>2, <3>1 DEF Told
    <3>3. d = [op |-> c.op, n |-> Larger(c.n - 1, 0), sent |-> c.sent + 1]
      BY <1>2, <2>2 DEF Told
    <3>4. ~f.fine \/ ~(c.n > 0)
      BY <1>1, <1>2, <2>2 DEF Matches, ProtocolError
    <3>5. q
      BY <3>1, <3>4
    <3>6. f.msg.id = c.sent + 1 /\ f.msg.optional = q
      BY <3>2
    <3>7. f.msg.optional
      BY <3>5, <3>6
    <3>8. QED
      BY <3>3, <3>6, <3>7
  <2>3. QED
    BY <1>4, <2>1, <2>2 DEF IsMessage
<1>6. d.n <= c.n /\ d.n \in Nat
  <2>1. CASE f.kind = "packet"
    <3>1. d = [op |-> c.op, n |-> c.n, sent |-> c.sent + 1]
      BY <1>2, <2>1 DEF Told
    <3>2. QED
      BY <1>3, <3>1
  <2>2. CASE f.kind = "container"
    <3>1. d = [op |-> c.op, n |-> Larger(c.n - 1, 0), sent |-> c.sent + 1]
      BY <1>2, <2>2 DEF Told
    <3>2. QED
      BY <1>3, <3>1 DEF Larger
  <2>3. QED
    BY <1>4, <2>1, <2>2 DEF IsMessage
<1>7. LastId' = LastId
  BY DEF LastId, Handed
<1>8. clientSent[c.sent + 1].optional /\ d.sent <= Len(clientSent)
  BY <1>2, <1>3, <1>4, <1>5
<1>9. game # "dropped" => LastId <= c.sent /\ \A j \in (LastId + 1)..c.sent : clientSent[j].optional
  BY <1>2 DEF Matches
<1>10. LastId \in Int
  BY LastIdType
<1>11. game # "dropped" => LastId <= d.sent /\ \A j \in (LastId + 1)..d.sent : clientSent[j].optional
  <2>1. \A j \in (LastId + 1)..d.sent : j \in (LastId + 1)..c.sent \/ j = c.sent + 1
    BY <1>3, <1>5, <1>10
  <2>2. LastId <= c.sent => LastId <= d.sent
    BY <1>3, <1>5, <1>10
  <2>3. QED
    BY <1>8, <1>9, <2>1, <2>2
<1>12. d.n > 0 => massive # None /\ massive.n >= d.n
  <2>1. SUFFICES ASSUME d.n > 0 PROVE massive # None /\ massive.n >= d.n
    OBVIOUS
  <2>2. c.n > 0
    BY <1>3, <1>6, <2>1
  <2>3. massive # None /\ massive.n >= c.n
    BY <1>2, <2>2 DEF Matches
  <2>4. massive.n \in Nat
    BY <2>3 DEF InInv, Waiting
  <2>5. QED
    BY <1>3, <1>6, <2>3, <2>4
<1>13. massive # None => massive.op = d.op
  BY <1>2, <1>5 DEF Matches
<1>14. Matches(d)'
  BY <1>7, <1>8, <1>11, <1>12, <1>13 DEF Matches
<1>15. QED
  BY <1>2, <1>14

\* What is left of a massive packet after one of its containers; the header's
\* number is a u16, and one that announces none counts down from the largest.
LEMMA AfterOne ==
    ASSUME NEW o \in Ops, NEW n \in 0..(Word - 1), massive = [op |-> o, n |-> n]
    PROVE  /\ AfterContainer(n) \in Waiting \cup {None}
           /\ AfterContainer(n) # None => AfterContainer(n).op = o
           /\ n > 1 => AfterContainer(n) # None /\ AfterContainer(n).n = n - 1
<1>1. PICK rest \in 0..(Word - 1) : rest = (n - 1) % Word
  BY StreamAssumption
<1>2. n > 1 => rest = n - 1
  BY <1>1, StreamAssumption
<1>3. [massive EXCEPT !.n = rest] = [op |-> o, n |-> rest]
  OBVIOUS
<1>4. [op |-> o, n |-> rest] \in Waiting
  BY DEF Waiting
<1>5. [op |-> o, n |-> rest] # None
  BY <1>4, NoneWaits
<1>6. AfterContainer(n) = IF rest > 0 THEN [op |-> o, n |-> rest] ELSE None
  BY <1>1, <1>3 DEF AfterContainer
<1>7. QED
  BY <1>2, <1>4, <1>5, <1>6

\* A message put at the end of the queue is the last of what is handed over.
LEMMA QueueOne ==
    ASSUME NEW s, NEW t, NEW e, IsSeq(s), IsSeq(t)
    PROVE  s \o Append(t, e) = Append(s \o t, e)
<1>u. PICK u : u = s \o t
  OBVIOUS
<1>v. PICK v : v = Append(t, e)
  OBVIOUS
<1>1. /\ IsSeq(u) /\ Len(s) \in Nat /\ Len(t) \in Nat /\ Len(u) = Len(s) + Len(t)
      /\ \A i \in 1..Len(s) : u[i] = s[i]
      /\ \A i \in 1..Len(t) : u[Len(s) + i] = t[i]
  BY <1>u, ConcatAny
<1>2. /\ IsSeq(v) /\ Len(v) = Len(t) + 1 /\ v[Len(t) + 1] = e
      /\ \A i \in 1..Len(t) : v[i] = t[i]
  BY <1>v, AppendAny
<1>3. /\ IsSeq(Append(u, e)) /\ Len(Append(u, e)) = Len(u) + 1 /\ Append(u, e)[Len(u) + 1] = e
      /\ \A i \in 1..Len(u) : Append(u, e)[i] = u[i]
  <2>1. IsSeq(u)
    BY <1>1
  <2>2. PICK w : w = Append(u, e)
    OBVIOUS
  <2>3. IsSeq(w) /\ Len(w) = Len(u) + 1 /\ w[Len(u) + 1] = e /\ \A i \in 1..Len(u) : w[i] = u[i]
    BY <2>1, <2>2, AppendAny
  <2>4. QED
    BY <2>2, <2>3, Zenon
<1>4. /\ IsSeq(s \o v) /\ Len(s \o v) = Len(s) + Len(v)
      /\ \A i \in 1..Len(s) : (s \o v)[i] = s[i]
      /\ \A i \in 1..Len(v) : (s \o v)[Len(s) + i] = v[i]
  BY <1>2, ConcatAny
<1>5. ASSUME NEW i \in 1..Len(s \o v) PROVE (s \o v)[i] = Append(u, e)[i]
  <2>1. CASE i \in 1..Len(s)
    <3>1. i \in 1..Len(u)
      BY <1>1, <2>1
    <3>2. QED
      BY <1>1, <1>3, <1>4, <2>1, <3>1
  <2>2. CASE i = Len(u) + 1
    <3>1. Len(t) + 1 \in 1..Len(v) /\ i = Len(s) + (Len(t) + 1)
      BY <1>1, <1>2, <2>2
    <3>2. QED
      BY <1>2, <1>3, <1>4, <2>2, <3>1
  <2>3. CASE i > Len(s) /\ i # Len(u) + 1
    <3>1. PICK k \in 1..Len(t) : i = Len(s) + k
      <4>1. i - Len(s) \in 1..Len(t) /\ i = Len(s) + (i - Len(s))
        <5>1. i \in 1..(Len(u) + 1)
          BY <1>1, <1>2, <1>4
        <5>2. PICK m \in Nat, n \in Nat : m = Len(s) /\ n = Len(t) /\ Len(u) = m + n
          BY <1>1
        <5>3. PICK j \in Nat : j = i /\ j \in 1..(m + n + 1) /\ j > m /\ j # m + n + 1
          BY <2>3, <5>1, <5>2
        <5>4. j - m \in 1..n /\ j = m + (j - m)
          BY <5>3
        <5>5. QED
          BY <5>2, <5>3, <5>4
      <4>2. QED
        BY <4>1
    <3>2. k \in 1..Len(v) /\ i \in 1..Len(u)
      BY <1>1, <1>2, <3>1
    <3>3. (s \o v)[i] = v[k] /\ u[i] = t[k]
      BY <1>1, <1>4, <3>1, <3>2
    <3>4. QED
      BY <1>2, <1>3, <3>1, <3>2, <3>3
  <2>4. i \in 1..Len(s) \/ i > Len(s)
    BY <1>1, <1>2, <1>4
  <2>5. QED
    BY <2>1, <2>2, <2>3, <2>4
<1>6. Len(s \o v) = Len(Append(u, e))
  BY <1>1, <1>2, <1>3, <1>4
<1>7. QED
  BY <1>3, <1>4, <1>5, <1>6, <1>u, <1>v, SameSeq

\* A message that is read and handed over is the next one the client sent that
\* is not optional, under the opcode the client's header gave it.
LEMMA ReadHanded ==
    ASSUME InInv, NEW a, Story(a), toServer # <<>>, IsMessage(Head(toServer)),
           ~ProtocolError(Head(toServer)),
           massive' = IF Head(toServer).kind = "packet" THEN massive ELSE AfterContainer(massive.n),
           game # "dropped",
           inbox' = Append(inbox, [Head(toServer).msg EXCEPT !.op =
                                     IF Head(toServer).kind = "packet" THEN @ ELSE massive.op]),
           UNCHANGED <<clientSent, gameGot, game>>
    PROVE  Matches(a[1])' /\ Ordered' /\ massive' \in Waiting \cup {None} /\ IsSeq(inbox')
<1>1. PICK f : f = Head(toServer)
  OBVIOUS
<1>2. PICK c \in Standing, d \in Standing :
        /\ c = a[0] /\ d = a[1] /\ Told(f, c, d) /\ Matches(c)
        /\ IsMessage(f) => f.msg.id \in 1..Len(clientSent) /\ f.msg = clientSent[f.msg.id]
  BY <1>1, HeadTold
<1>3. c.sent \in Nat /\ c.n \in 0..(Word - 1) /\ Len(clientSent) \in Nat
  BY HandedIs DEF Standing
<1>4. IsMessage(f)
  BY <1>1
<1>5. /\ f.msg.id = c.sent + 1 /\ d.sent = c.sent + 1 /\ d.op = c.op
      /\ inbox' = Append(inbox, f.msg)
      /\ massive' \in Waiting \cup {None}
      /\ massive' # None => massive'.op = d.op
      /\ d.n > 0 => massive' # None /\ massive'.n >= d.n
  <2>1. CASE f.kind = "packet"
    <3>1. PICK q : f.msg = [id |-> c.sent + 1, op |-> f.op, optional |-> q]
      BY <1>2, <2>1 DEF Told
    <3>2. [f.msg EXCEPT !.op = IF f.kind = "packet" THEN @ ELSE massive.op] = f.msg
      BY <2>1, <3>1
    <3>3. d = [op |-> c.op, n |-> c.n, sent |-> c.sent + 1]
      BY <1>2, <2>1 DEF Told
    <3>4. f.msg.id = c.sent + 1 /\ d.sent = c.sent + 1 /\ d.op = c.op /\ d.n = c.n
      BY <3>1, <3>3
    <3>5. massive' = massive /\ inbox' = Append(inbox, f.msg)
      BY <1>1, <2>1, <3>2
    <3>6. QED
      BY <1>2, <3>4, <3>5 DEF Matches, InInv
  <2>2. CASE f.kind = "container"
    <3>1. massive # None
      BY <1>1, <2>2 DEF ProtocolError
    <3>2. PICK o \in Ops, n \in 0..(Word - 1) : massive = [op |-> o, n |-> n]
      BY <3>1 DEF InInv, Waiting
    <3>3. massive.op = o /\ massive.n = n /\ c.op = o
      BY <1>2, <3>1, <3>2 DEF Matches
    <3>4. PICK q : f.msg = [id |-> c.sent + 1, op |-> o, optional |-> q]
      BY <1>2, <2>2, <3>3 DEF Told
    <3>5. [f.msg EXCEPT !.op = IF f.kind = "packet" THEN @ ELSE massive.op] = f.msg
      BY <2>2, <3>3, <3>4
    <3>6. d = [op |-> c.op, n |-> Larger(c.n - 1, 0), sent |-> c.sent + 1]
      BY <1>2, <2>2 DEF Told
    <3>7. f.msg.id = c.sent + 1 /\ d.sent = c.sent + 1 /\ d.op = c.op /\ d.n = Larger(c.n - 1, 0)
      BY <3>4, <3>6
    <3>8. massive' = AfterContainer(n) /\ inbox' = Append(inbox, f.msg)
      BY <1>1, <2>2, <3>3, <3>5
    <3>9. /\ massive' \in Waiting \cup {None}
          /\ massive' # None => massive'.op = d.op
      BY <3>2, <3>3, <3>7, <3>8, AfterOne
    <3>10. d.n > 0 => massive' # None /\ massive'.n >= d.n
      <4>1. SUFFICES ASSUME d.n > 0 PROVE massive' # None /\ massive'.n >= d.n
        OBVIOUS
      <4>2. c.n > 1 /\ d.n = c.n - 1
        BY <1>3, <3>7, <4>1 DEF Larger
      <4>3. n >= c.n
        BY <1>2, <1>3, <3>3, <4>2 DEF Matches
      <4>4. n > 1
        BY <1>3, <4>2, <4>3
      <4>5. massive' # None /\ massive'.n = n - 1
        BY <3>2, <3>8, <4>4, AfterOne
      <4>6. QED
        BY <1>3, <4>2, <4>3, <4>5
    <3>11. QED
      BY <3>7, <3>8, <3>9, <3>10
  <2>3. QED
    BY <1>4, <2>1, <2>2 DEF IsMessage
<1>6. PICK g : g = Handed
  OBVIOUS
<1>7. PICK l \in Nat : l = Len(g) /\ IsSeq(g)
  BY <1>6, HandedIs
<1>8. Handed' = Append(g, f.msg) /\ IsSeq(inbox')
  BY <1>5, <1>6, QueueOne, AppendAny DEF Handed, InInv
<1>9. /\ Len(Handed') = l + 1 /\ Handed'[l + 1] = f.msg
      /\ \A i \in 1..l : Handed'[i] = g[i]
  BY <1>7, <1>8, AppendAny
<1>10. LastId' = c.sent + 1
  <2>1. l + 1 # 0
    BY <1>7
  <2>2. QED
    BY <1>5, <1>9, <2>1 DEF LastId
<1>11. LastId \in Nat /\ LastId <= c.sent /\ \A j \in (LastId + 1)..c.sent : clientSent[j].optional
  BY <1>2, LastIdType DEF Matches
<1>12. c.sent + 1 \in 1..Len(clientSent) /\ f.msg = clientSent[c.sent + 1] /\ f.msg.id = c.sent + 1
  BY <1>2, <1>4, <1>5
<1>13. Matches(d)'
  <2>1. d.sent <= Len(clientSent)
    BY <1>5, <1>12, HandedIs
  <2>2. LastId' <= d.sent /\ (LastId' + 1)..d.sent = {}
    BY <1>3, <1>5, <1>10
  <2>3. QED
    BY <1>5, <2>1, <2>2 DEF Matches
<1>14. ASSUME NEW k \in 1..l PROVE IdBefore(k)' = IdBefore(k) /\ Handed'[k] = Handed[k]
  <2>1. k # 1 => k - 1 \in 1..l
    BY <1>7
  <2>2. QED
    BY <1>6, <1>9, <2>1 DEF IdBefore
<1>15. IdBefore(l + 1)' = LastId
  <2>1. CASE l = 0
    BY <1>6, <1>7, <2>1 DEF IdBefore, LastId
  <2>2. CASE l # 0
    <3>1. l \in 1..l /\ (l + 1) - 1 = l /\ l + 1 # 1
      BY <2>2
    <3>2. QED
      BY <1>6, <1>7, <1>9, <2>2, <3>1 DEF IdBefore, LastId
  <2>3. QED
    BY <2>1, <2>2
<1>16. ASSUME NEW k \in 1..(l + 1)
       PROVE  /\ Handed'[k].id \in 1..Len(clientSent) /\ Handed'[k] = clientSent[Handed'[k].id]
              /\ Handed'[k].id > IdBefore(k)'
              /\ \A j \in (IdBefore(k)' + 1)..(Handed'[k].id - 1) : clientSent[j].optional
  <2>1. CASE k \in 1..l
    BY <1>6, <1>7, <1>14, <2>1 DEF InInv, Ordered
  <2>2. CASE k = l + 1
    <3>1. c.sent + 1 > LastId /\ (c.sent + 1) - 1 = c.sent
      BY <1>3, <1>11
    <3>2. QED
      BY <1>9, <1>11, <1>12, <1>15, <2>2, <3>1
  <2>3. QED
    BY <2>1, <2>2
<1>17. Ordered'
  BY <1>9, <1>16 DEF Ordered
<1>18. QED
  BY <1>2, <1>5, <1>8, <1>13, <1>17

\* Whatever leaves what was sent, what is on the wire and what was handed over alone.
LEMMA InSame ==
    ASSUME InInv, UNCHANGED <<clientSent, announced, massive>>, Handed' = Handed,
           IsSeq(toServer'), IsSeq(gameGot'), IsSeq(inbox'),
           Reading' => Reading /\ toServer' = toServer,
           game' # "dropped" => game # "dropped"
    PROVE  InInv'
<1>1. \A k : IdBefore(k)' = IdBefore(k)
  BY DEF IdBefore
<1>2. LastId' = LastId
  BY DEF LastId
<1>3. Ordered'
  BY <1>1 DEF InInv, Ordered
<1>4. ASSUME NEW e, Matches(e) PROVE Matches(e)'
  BY <1>2, <1>4 DEF Matches
<1>5. ASSUME Reading' PROVE \E b : Story(b)'
  <2>1. PICK a : Story(a)
    BY <1>5 DEF InInv
  <2>2. Story(a)'
    BY <1>4, <1>5, <2>1 DEF Story
  <2>3. QED
    BY <2>2
<1>6. QED
  BY <1>3, <1>5 DEF InInv

\* The reader of the handshake and that of the loop.
LEMMA InRead ==
    ASSUME InInv, HandshakeReads \/ ReaderReads
    PROVE  InInv' /\ UNCHANGED <<clientSent, gameGot>>
<1>1. /\ reader = "run" /\ toServer # <<>> /\ ~broken /\ toServer' = Tail(toServer)
      /\ UNCHANGED <<broken, clientSent, gameGot, announced, game>> /\ stage # "failed"
  BY DEF HandshakeReads, ReaderReads, Read
<1>2. PICK a : Story(a)
  BY <1>1 DEF InInv, Reading
<1>3. IsSeq(toServer')
  BY <1>1, TailAny DEF InInv
<1>4. PICK f : f = Head(toServer)
  OBVIOUS
<1>5. ASSUME Matches(a[1])' PROVE \E b : Story(b)'
  BY <1>1, <1>2, <1>5, StoryTail
<1>6. ASSUME inbox' = inbox PROVE Ordered' /\ IsSeq(inbox')
  <2>1. Handed' = Handed
    BY <1>1, <1>6 DEF Handed
  <2>2. \A k : IdBefore(k)' = IdBefore(k)
    BY <2>1 DEF IdBefore
  <2>3. QED
    BY <1>1, <1>6, <2>1, <2>2 DEF InInv, Ordered
<1>7. CASE HandshakeReads
  <2>1. inbox' = inbox
    BY <1>7 DEF HandshakeReads
  <2>2. \/ massive' = massive /\ ~Reading'
        \/ massive' = massive /\ f.kind \in {"challenge", "accepted"}
        \/ f.kind = "header" /\ massive' = [op |-> f.op, n |-> f.n]
    BY <1>4, <1>7 DEF HandshakeReads, start_challenge, Verdict, Reading
  <2>3. CASE massive' = massive /\ ~Reading'
    BY <1>1, <1>3, <1>6, <2>1, <2>3 DEF InInv
  <2>4. CASE massive' = massive /\ f.kind \in {"challenge", "accepted"}
    <3>1. Matches(a[1])'
      BY <1>1, <1>2, <1>4, <2>1, <2>4, ReadHandshake
    <3>2. QED
      BY <1>1, <1>3, <1>5, <1>6, <2>1, <2>4, <3>1 DEF InInv
  <2>5. CASE f.kind = "header" /\ massive' = [op |-> f.op, n |-> f.n]
    <3>1. Matches(a[1])' /\ massive' \in Waiting
      BY <1>1, <1>2, <1>4, <2>1, <2>5, ReadHeader
    <3>2. QED
      BY <1>1, <1>3, <1>5, <1>6, <2>1, <3>1 DEF InInv
  <2>6. QED
    BY <2>2, <2>3, <2>4, <2>5
<1>8. CASE ReaderReads
  <2>1. CASE reader' = "ended" /\ UNCHANGED <<massive, inbox>>
    BY <1>1, <1>3, <1>6, <2>1 DEF InInv, Reading
  <2>2. CASE f.kind = "header" /\ massive' = [op |-> f.op, n |-> f.n] /\ inbox' = inbox
    <3>1. Matches(a[1])' /\ massive' \in Waiting
      BY <1>1, <1>2, <1>4, <2>2, ReadHeader
    <3>2. QED
      BY <1>1, <1>3, <1>5, <1>6, <2>2, <3>1 DEF InInv
  <2>3. CASE ProtocolError(f) /\ UNCHANGED <<massive, inbox>>
    <3>1. Matches(a[1])'
      BY <1>1, <1>2, <1>4, <2>3, ReadSkipped
    <3>2. QED
      BY <1>1, <1>3, <1>5, <1>6, <2>3, <3>1 DEF InInv
  <2>4. CASE /\ ~ProtocolError(f) /\ IsMessage(f)
             /\ massive' = IF f.kind = "packet" THEN massive ELSE AfterContainer(massive.n)
             /\ game = "dropped" /\ reader' = "ended" /\ inbox' = inbox
    <3>1. massive' \in Waiting \cup {None}
      <4>1. CASE f.kind = "packet"
        BY <2>4, <4>1 DEF InInv
      <4>2. CASE f.kind = "container"
        <5>1. massive # None
          BY <2>4, <4>2 DEF ProtocolError
        <5>2. PICK o \in Ops, n \in 0..(Word - 1) : massive = [op |-> o, n |-> n]
          BY <5>1 DEF InInv, Waiting
        <5>3. massive' = AfterContainer(n)
          BY <2>4, <4>2, <5>2
        <5>4. QED
          BY <5>2, <5>3, AfterOne
      <4>3. QED
        BY <2>4, <4>1, <4>2 DEF IsMessage
    <3>2. ~Reading'
      BY <2>4 DEF Reading
    <3>3. QED
      BY <1>1, <1>3, <1>6, <2>4, <3>1, <3>2 DEF InInv
  <2>5. CASE /\ ~ProtocolError(f) /\ IsMessage(f)
             /\ massive' = IF f.kind = "packet" THEN massive ELSE AfterContainer(massive.n)
             /\ game # "dropped"
             /\ inbox' = Append(inbox, [f.msg EXCEPT !.op = IF f.kind = "packet" THEN @ ELSE massive.op])
    <3>1. Matches(a[1])' /\ Ordered' /\ massive' \in Waiting \cup {None} /\ IsSeq(inbox')
      BY <1>1, <1>2, <1>4, <2>5, ReadHanded
    <3>2. QED
      BY <1>1, <1>3, <1>5, <3>1 DEF InInv
  <2>6. QED
    BY <1>4, <1>8, <2>1, <2>2, <2>3, <2>4, <2>5 DEF ReaderReads, IsMessage
<1>9. QED
  BY <1>1, <1>7, <1>8

\* The game takes the first of its queue: the next message that is not optional.
LEMMA InTake ==
    ASSUME InInv, Take, game' # "dropped" => game # "dropped"
    PROVE  /\ InInv' /\ clientSent' = clientSent
           /\ \E i \in DOMAIN clientSent : In!Deliver(i)
<1>1. /\ inbox # <<>> /\ gameGot' = Append(gameGot, Head(inbox)) /\ inbox' = Tail(inbox)
      /\ UNCHANGED <<clientSent, announced, massive, toServer, reader, stage, broken>>
  BY DEF Take, handshakeVars
<1>2. IsSeq(gameGot) /\ IsSeq(inbox) /\ IsSeq(gameGot') /\ IsSeq(inbox')
  BY <1>1, AppendAny, TailAny DEF InInv
<1>3. Handed' = Handed
  BY <1>1, <1>2, HandOver DEF Handed
<1>4. InInv'
  BY <1>1, <1>2, <1>3, InSame DEF InInv, Reading
<1>5. PICK k \in Nat : k = Len(gameGot) + 1
  BY HandedIs
<1>6. k \in 1..Len(Handed) /\ Handed[k] = Head(inbox)
  <2>1. Head(inbox) = inbox[1] /\ Len(inbox) \in Nat \ {0}
    BY <1>1, <1>2, TailAny
  <2>2. 1 \in 1..Len(inbox)
    BY <2>1
  <2>3. QED
    BY <1>5, <2>1, <2>2, HandedIs
<1>7. IdBefore(k) = In!Seen
  <2>1. CASE gameGot = <<>>
    BY <1>5, <2>1 DEF IdBefore, In!Seen
  <2>2. CASE gameGot # <<>>
    <3>1. Len(gameGot) \in 1..Len(gameGot) /\ k # 1 /\ k - 1 = Len(gameGot)
      BY <1>2, <1>5, <2>2, TailAny
    <3>2. QED
      BY <2>2, <3>1, HandedIs DEF IdBefore, In!Seen
  <2>3. QED
    BY <2>1, <2>2
<1>8. PICK i : i = Handed[k].id
  OBVIOUS
<1>9. /\ i \in 1..Len(clientSent) /\ Handed[k] = clientSent[i] /\ i > In!Seen
      /\ \A j \in (In!Seen + 1)..(i - 1) : clientSent[j].optional
  BY <1>6, <1>7, <1>8 DEF InInv, Ordered
<1>10. In!Deliver(i)
  BY <1>1, <1>6, <1>9 DEF In!Deliver
<1>11. i \in DOMAIN clientSent
  <2>1. PICK S : clientSent \in Seq(S)
    BY DEF InInv, IsSeq
  <2>2. QED
    BY <1>9, <2>1
<1>12. QED
  BY <1>1, <1>4, <1>10, <1>11

\* The stream is dropped with what still waits in its queue.
LEMMA InDrop ==
    ASSUME InInv, disconnected
    PROVE  InInv' /\ UNCHANGED <<clientSent, gameGot>>
<1>1. /\ game' = "dropped" /\ inbox' = <<>>
      /\ UNCHANGED <<clientSent, gameGot, announced, massive, toServer, reader, stage, broken>>
  BY DEF disconnected, handshakeVars
<1>2. IsSeq(<<>>) /\ Len(<<>>) = 0 /\ Len(inbox') = 0 /\ IsSeq(inbox')
  <2>1. <<>> \in Seq({})
    OBVIOUS
  <2>2. QED
    BY <1>1, <2>1 DEF IsSeq
<1>3. PICK l \in Nat : l = Len(gameGot)
  BY HandedIs
<1>4. Len(Handed') = l /\ \A i \in 1..l : Handed'[i] = Handed[i]
  <2>1. Len(gameGot \o inbox') = l /\ \A i \in 1..l : (gameGot \o inbox')[i] = gameGot[i]
    BY <1>2, <1>3, ConcatAny DEF InInv
  <2>2. QED
    BY <1>1, <1>3, <2>1, HandedIs DEF Handed
<1>5. ASSUME NEW k \in 1..l PROVE IdBefore(k)' = IdBefore(k) /\ k \in 1..Len(Handed)
  <2>1. k # 1 => k - 1 \in 1..l
    OBVIOUS
  <2>2. QED
    BY <1>3, <1>4, <2>1, HandedIs DEF IdBefore
<1>6. Ordered'
  BY <1>1, <1>4, <1>5 DEF InInv, Ordered
<1>7. ASSUME Reading' PROVE \E b : Story(b)'
  <2>1. Reading
    BY <1>1, <1>7 DEF Reading
  <2>2. PICK a : Story(a)
    BY <2>1 DEF InInv
  <2>3. Matches(a[0])'
    BY <1>1, <2>2 DEF Story, Matches
  <2>4. Story(a)'
    BY <1>1, <2>2, <2>3 DEF Story
  <2>5. QED
    BY <2>4
<1>8. QED
  BY <1>1, <1>2, <1>6, <1>7 DEF InInv

\* Every step keeps the order, and is a step of the channel or none.
LEMMA InStep ==
    ASSUME InInv, [Next]_vars
    PROVE  InInv' /\ [In!Next]_<<clientSent, gameGot>>
<1>1. CASE \/ UNCHANGED vars
           \/ \E x \in Secrets : \E g \in Generators : \E p \in Moduli : initialize(x, g, p)
           \/ StreamClosed \/ accept \/ Join \/ ReceiveFails \/ Logout
           \/ \E packet \in Packets : send(packet)
           \/ WriterSends \/ WriterEnds \/ ClientReads
  <2>1. /\ UNCHANGED <<clientSent, announced, massive, toServer, gameGot, inbox>>
        /\ Reading' => Reading
        /\ game' # "dropped" => game # "dropped"
    <3>1. CASE \/ UNCHANGED vars \/ accept \/ Join \/ ReceiveFails \/ Logout
               \/ \E packet \in Packets : send(packet)
               \/ WriterSends \/ WriterEnds \/ ClientReads
      <4>1. /\ UNCHANGED <<clientSent, announced, massive, toServer, gameGot, inbox, reader, stage, broken>>
            /\ game' # "dropped" => game # "dropped"
        BY <3>1 DEF vars, handshakeVars, inVars, readVars, accept, Join, Held, ReceiveFails, Logout, send,
                    WriterSends, WriterEnds, ClientReads
      <4>2. QED
        BY <4>1 DEF Reading
    <3>2. CASE StreamClosed
      BY <3>2 DEF StreamClosed, Reading
    <3>3. CASE \E x \in Secrets : \E g \in Generators : \E p \in Moduli : initialize(x, g, p)
      <4>1. /\ UNCHANGED <<broken, inVars, outVars, game>> /\ stage = "accepted"
        BY <3>3 DEF initialize
      <4>2. QED
        BY <4>1 DEF inVars, readVars, Reading
    <3>4. QED
      BY <1>1, <3>1, <3>2, <3>3
  <2>2. Handed' = Handed
    BY <2>1 DEF Handed
  <2>3. IsSeq(toServer') /\ IsSeq(gameGot') /\ IsSeq(inbox')
    BY <2>1 DEF InInv
  <2>4. InInv'
    BY <2>1, <2>2, <2>3, InSame
  <2>5. QED
    BY <2>1, <2>4
<1>2. CASE Break
  <2>1. /\ UNCHANGED <<clientSent, announced, massive, gameGot, inbox, game>>
        /\ toServer' = <<>> /\ ~Reading'
    BY <1>2 DEF Break, readVars, Reading
  <2>2. Handed' = Handed
    BY <2>1 DEF Handed
  <2>3. IsSeq(toServer') /\ IsSeq(gameGot') /\ IsSeq(inbox')
    <3>1. <<>> \in Seq({})
      OBVIOUS
    <3>2. IsSeq(<<>>)
      BY <3>1 DEF IsSeq
    <3>3. QED
      BY <2>1, <3>2 DEF InInv
  <2>4. InInv'
    BY <2>1, <2>2, <2>3, InSame
  <2>5. QED
    BY <2>1, <2>4
<1>3. CASE \/ \E y \in Secrets : Challenge(y)
           \/ Accepted
           \/ \E p \in Sends : ClientPacket(p.op, p.fine, p.encrypted)
           \/ \E h \in Headers : ClientHeader(h.op, h.n)
           \/ \E fine \in BOOLEAN : ClientContainer(fine)
  <2>1. /\ InInv' /\ gameGot' = gameGot
        /\ \/ clientSent' = clientSent
           \/ Len(clientSent') = Len(clientSent) + 1 /\ SubSeq(clientSent', 1, Len(clientSent)) = clientSent
    BY <1>3, InEmit
  <2>2. QED
    BY <2>1 DEF In!Next, In!Send
<1>4. CASE HandshakeReads \/ ReaderReads
  BY <1>4, InRead
<1>5. CASE received
  BY <1>5, InTake DEF In!Next, received
<1>8. CASE send_identity_information
  <2>1. Take /\ game # "dropped"
    BY <1>8, IdentityStep DEF Answers
  <2>2. QED
    BY <2>1, InTake DEF In!Next
<1>6. CASE disconnected
  BY <1>6, InDrop
<1>7. QED
  BY <1>1, <1>2, <1>3, <1>4, <1>5, <1>6, <1>8 DEF Next

\* The reader of the handshake, the reader task and its queue implement a channel:
\* the game is handed what the client sent, in order, each message once and under
\* its own opcode, leaving out only what could not be read or was not announced,
\* for every traffic and wherever the connection ends.
THEOREM GameGetsWhatIsSent == Spec => ToGame
<1>1. Spec => []InInv
  <2>1. InInv /\ [Next]_vars => InInv'
    BY InStep
  <2>2. QED
    BY <2>1, InInit, PTL DEF Spec
<1>2. Init => In!Init
  BY DEF Init, In!Init
<1>3. InInv /\ [Next]_vars => [In!Next]_<<clientSent, gameGot>>
  BY InStep
<1>4. QED
  BY <1>1, <1>2, <1>3, PTL DEF Spec, ToGame, In!Spec

-----------------------------------------------------------------------------
(* The key exchange.                                                       *)

\* What is not below a number in the relation of the library is not below it.
LEMMA NotLess ==
    ASSUME NEW x, NEW y, x \in Nat, y \in Nat, ~(<<y, x>> \in OpToRel(<, Nat))
    PROVE  ~(y < x)
  BY Zenon DEF OpToRel

\* A set of natural numbers that is not empty has a least element.
LEMMA Least ==
    ASSUME NEW T, T \subseteq Nat, T # {}
    PROVE  \E x \in T : \A y \in T : x <= y
<1>1. PICK x \in T : \A y \in T : ~(<<y, x>> \in OpToRel(<, Nat))
  BY NatLessThanWellFounded, WFMin
<1>2. \A y \in T : ~(y < x)
  BY <1>1, NotLess, Zenon
<1>3. QED
  BY <1>2


\* A number is made of its quotient and its rest.
LEMMA DivMod ==
    ASSUME NEW a \in Nat, NEW p \in Nat \ {0}
    PROVE  /\ a \div p \in Nat /\ a % p \in 0..(p - 1)
           /\ a = p * (a \div p) + (a % p)
  OBVIOUS

\* Quotient and rest are the only ones.
LEMMA Unique ==
    ASSUME NEW p \in Nat \ {0}, NEW q \in Nat, NEW r \in 0..(p - 1), NEW u \in Nat, NEW v \in 0..(p - 1),
           p * q + r = p * u + v
    PROVE  r = v
<1>1. CASE q = u
  BY <1>1
<1>2. CASE q > u
  <2>1. PICK d \in Nat \ {0} : q = u + d
    <3>1. q - u \in Nat \ {0} /\ q = u + (q - u)
      BY <1>2
    <3>2. QED BY <3>1
  <2>2. p * q = p * u + p * d
    BY <2>1
  <2>3. p * d >= p
    OBVIOUS
  <2>4. p * u \in Nat /\ p * d \in Nat
    OBVIOUS
  <2>5. QED
    BY <2>2, <2>3, <2>4
<1>3. CASE q < u
  <2>1. PICK d \in Nat \ {0} : u = q + d
    <3>1. u - q \in Nat \ {0} /\ u = q + (u - q)
      BY <1>3
    <3>2. QED BY <3>1
  <2>2. p * u = p * q + p * d
    BY <2>1
  <2>3. p * d >= p
    OBVIOUS
  <2>4. p * q \in Nat /\ p * d \in Nat
    OBVIOUS
  <2>5. QED
    BY <2>2, <2>3, <2>4
<1>4. QED BY <1>1, <1>2, <1>3

\* A factor may be taken to its rest before multiplying.
LEMMA ModMul ==
    ASSUME NEW a \in Nat, NEW b \in Nat, NEW p \in Nat \ {0}
    PROVE  ((a % p) * b) % p = (a * b) % p
<1>1. PICK q \in Nat, r \in 0..(p - 1) : a = p * q + r /\ a % p = r
  BY DivMod
<1>2. r * b \in Nat /\ a * b \in Nat /\ q * b \in Nat
  OBVIOUS
<1>3. PICK u \in Nat, v \in 0..(p - 1) : r * b = p * u + v /\ (r * b) % p = v
  BY <1>2, DivMod
<1>4. PICK w \in Nat, z \in 0..(p - 1) : a * b = p * w + z /\ (a * b) % p = z
  BY <1>2, DivMod
<1>5. a * b = p * (q * b) + r * b
  BY <1>1
<1>6. p * (q * b) + p * u = p * (q * b + u)
  BY <1>2
<1>7. p * (q * b + u) + v = p * w + z
  <2>1. p * (q * b) \in Nat /\ p * u \in Nat /\ p * (q * b + u) \in Nat /\ p * w \in Nat
    BY <1>2
  <2>2. QED
    BY <1>3, <1>4, <1>5, <1>6, <2>1
<1>8. q * b + u \in Nat
  BY <1>2
<1>9. v = z
  BY <1>7, <1>8, Unique
<1>10. QED
  BY <1>1, <1>3, <1>4, <1>9


\* The powers of g up to the n-th.
Powers(f, g, n) == f = [i \in 0..n |-> IF i = 0 THEN 1 ELSE g * f[i - 1]]

\* Every number has powers.
LEMMA PowersExist ==
    ASSUME NEW g, NEW n \in Nat
    PROVE  \E f : Powers(f, g, n)
<1> DEFINE Bad == {m \in Nat : ~\E f : Powers(f, g, m)}
<1>1. SUFFICES ASSUME Bad # {} PROVE FALSE
  OBVIOUS
<1>2. PICK m \in Bad : \A k \in Bad : m <= k
  BY <1>1, Least
<1>3. CASE m = 0
  <2>1. PICK f : f = [i \in 0..0 |-> 1]
    OBVIOUS
  <2>2. Powers(f, g, 0)
    BY <2>1 DEF Powers
  <2>3. QED
    BY <1>2, <1>3, <2>2
<1>4. CASE m # 0
  <2>1. m - 1 \in Nat /\ m \in Nat /\ ~(m <= m - 1)
    BY <1>2, <1>4
  <2>2. m - 1 \notin Bad
    BY <1>2, <2>1, Zenon
  <2>3. PICK h : Powers(h, g, m - 1)
    BY <2>1, <2>2
  <2>4. PICK f : f = [i \in 0..m |-> IF i = 0 THEN 1 ELSE g * h[i - 1]]
    OBVIOUS
  <2>5. h = [i \in 0..(m - 1) |-> IF i = 0 THEN 1 ELSE g * h[i - 1]]
    BY <2>3 DEF Powers
  <2>6. \A i \in 0..(m - 1) : f[i] = h[i]
    BY <2>1, <2>4, <2>5
  <2>7. \A i \in 0..m : i # 0 => i - 1 \in 0..(m - 1)
    BY <2>1
  <2>8. \A i \in 0..m : i # 0 => f[i - 1] = h[i - 1]
    BY <2>6, <2>7
  <2>9. f = [i \in 0..m |-> IF i = 0 THEN 1 ELSE g * f[i - 1]]
    BY <2>4, <2>8
  <2>10. Powers(f, g, m)
    BY <2>9 DEF Powers
  <2>11. QED
    BY <1>2, <2>10
<1>5. QED
  BY <1>3, <1>4

\* They are natural numbers, each g times the one before.
LEMMA PowersAre ==
    ASSUME NEW f, NEW g \in Nat, NEW n \in Nat, Powers(f, g, n)
    PROVE  /\ f[0] = 1
           /\ \A i \in 0..n : f[i] \in Nat /\ (i # 0 => f[i] = g * f[i - 1])
<1>1. f[0] = 1 /\ \A i \in 0..n : i # 0 => f[i] = g * f[i - 1]
  BY DEF Powers
<1> DEFINE Bad == {i \in 0..n : f[i] \notin Nat}
<1>2. ASSUME Bad # {} PROVE FALSE
  <2>0. Bad \subseteq Nat
    OBVIOUS
  <2>1. PICK m \in Bad : \A k \in Bad : m <= k
    BY <1>2, <2>0, Least
  <2>2. m # 0
    BY <1>1, <2>1
  <2>3. m - 1 \in 0..n /\ m \in 0..n /\ ~(m <= m - 1)
    BY <2>1, <2>2
  <2>4. f[m - 1] \in Nat
    BY <2>1, <2>3, Zenon
  <2>5. f[m] = g * f[m - 1]
    BY <1>1, <2>2, <2>3
  <2>6. QED
    BY <2>1, <2>4, <2>5
<1>3. QED
  BY <1>1, <1>2

\* A power of a sum is a product of powers.
LEMMA PowersAdd ==
    ASSUME NEW f, NEW g \in Nat, NEW n \in Nat, Powers(f, g, n),
           NEW k \in Nat, NEW m \in Nat, k + m <= n
    PROVE  f[k + m] = f[k] * f[m]
<1>1. /\ f[0] = 1
      /\ \A i \in 0..n : f[i] \in Nat /\ (i # 0 => f[i] = g * f[i - 1])
  BY PowersAre
<1> DEFINE Bad == {j \in 0..m : f[k + j] # f[k] * f[j]}
<1>2. ASSUME Bad # {} PROVE FALSE
  <2>0. Bad \subseteq Nat
    OBVIOUS
  <2>1. PICK j \in Bad : \A i \in Bad : j <= i
    BY <1>2, <2>0, Least
  <2>2. j # 0
    BY <1>1, <2>1
  <2>3. j - 1 \in 0..m /\ j \in 0..m /\ ~(j <= j - 1)
    BY <2>1, <2>2
  <2>4. f[k + (j - 1)] = f[k] * f[j - 1]
    BY <2>1, <2>3, Zenon
  <2>5. PICK a \in Nat, b \in Nat : a = f[k] /\ b = f[j - 1]
    BY <1>1, <2>3
  <2>6. f[j] = g * b
    BY <1>1, <2>2, <2>3, <2>5
  <2>7. k + j \in 0..n /\ k + j # 0 /\ (k + j) - 1 = k + (j - 1)
    BY <2>2, <2>3
  <2>8. f[k + j] = g * (a * b)
    BY <1>1, <2>4, <2>5, <2>7
  <2>9. g * (a * b) = a * (g * b)
    OBVIOUS
  <2>10. QED
    BY <2>1, <2>5, <2>6, <2>8, <2>9
<1>3. m \in 0..m
  OBVIOUS
<1>4. QED
  BY <1>2, <1>3, Zenon

\* A power of a power.
LEMMA PowersMultiply ==
    ASSUME NEW f, NEW g \in Nat, NEW n \in Nat, Powers(f, g, n),
           NEW x \in Nat, NEW y \in Nat, x <= n, x * y <= n,
           NEW h, Powers(h, f[x], y)
    PROVE  h[y] = f[x * y]
<1>0. x \in 0..n
  OBVIOUS
<1>1. /\ f[0] = 1
      /\ \A i \in 0..n : f[i] \in Nat /\ (i # 0 => f[i] = g * f[i - 1])
  BY PowersAre
<1>2. /\ h[0] = 1
      /\ \A i \in 0..y : h[i] \in Nat /\ (i # 0 => h[i] = f[x] * h[i - 1])
  BY <1>0, <1>1, PowersAre
<1> DEFINE Bad == {j \in 0..y : h[j] # f[x * j]}
<1>3. ASSUME Bad # {} PROVE FALSE
  <2>0. Bad \subseteq Nat
    OBVIOUS
  <2>1. PICK j \in Bad : \A i \in Bad : j <= i
    BY <1>3, <2>0, Least
  <2>2. j # 0
    <3>1. x * 0 = 0
      OBVIOUS
    <3>2. QED
      BY <1>1, <1>2, <2>1, <3>1
  <2>3. j - 1 \in 0..y /\ j \in 0..y /\ ~(j <= j - 1)
    BY <2>1, <2>2
  <2>4. h[j - 1] = f[x * (j - 1)]
    BY <2>1, <2>3, Zenon
  <2>5. h[j] = f[x] * f[x * (j - 1)]
    BY <1>2, <2>2, <2>3, <2>4
  <2>6. x * (j - 1) \in Nat /\ x + x * (j - 1) = x * j
    BY <2>3
  <2>7. x * j <= x * y
    BY <2>3
  <2>8. x + x * (j - 1) <= n
    <3>1. x * j \in Nat /\ x * y \in Nat
      BY <2>3
    <3>2. QED
      BY <2>6, <2>7, <3>1
  <2>9. f[x + x * (j - 1)] = f[x] * f[x * (j - 1)]
    BY <2>6, <2>8, PowersAdd
  <2>10. QED
    BY <2>1, <2>5, <2>6, <2>9
<1>4. y \in 0..y
  OBVIOUS
<1>5. QED
  BY <1>3, <1>4, Zenon

\* The powers of a number and of its rest are the same, taken to the rest.
LEMMA PowersOfRest ==
    ASSUME NEW p \in Nat \ {0}, NEW a \in Nat, NEW n \in Nat,
           NEW f, Powers(f, a, n), NEW h, Powers(h, a % p, n)
    PROVE  h[n] % p = f[n] % p
<1>0. a % p \in Nat
  BY DivMod
<1>1. /\ f[0] = 1 /\ h[0] = 1
      /\ \A i \in 0..n : f[i] \in Nat /\ (i # 0 => f[i] = a * f[i - 1])
      /\ \A i \in 0..n : h[i] \in Nat /\ (i # 0 => h[i] = (a % p) * h[i - 1])
  BY <1>0, PowersAre
<1> DEFINE Bad == {i \in 0..n : h[i] % p # f[i] % p}
<1>2. ASSUME Bad # {} PROVE FALSE
  <2>0. Bad \subseteq Nat
    OBVIOUS
  <2>1. PICK j \in Bad : \A i \in Bad : j <= i
    BY <1>2, <2>0, Least
  <2>2. j # 0
    BY <1>1, <2>1
  <2>3. j - 1 \in 0..n /\ j \in 0..n /\ ~(j <= j - 1)
    BY <2>1, <2>2
  <2>4. h[j - 1] % p = f[j - 1] % p
    BY <2>1, <2>3, Zenon
  <2>5. PICK b \in Nat, c \in Nat : b = h[j - 1] /\ c = f[j - 1]
    BY <1>1, <2>3
  <2>6. b % p = c % p
    BY <2>4, <2>5
  <2>7. f[j] = a * c /\ h[j] = (a % p) * b
    BY <1>1, <2>2, <2>3, <2>5
  <2>8. ((a % p) * b) % p = (a * b) % p
    BY ModMul
  <2>9. ((b % p) * a) % p = (b * a) % p /\ ((c % p) * a) % p = (c * a) % p
    BY ModMul
  <2>10. b * a = a * b /\ c * a = a * c
    OBVIOUS
  <2>11. (a * b) % p = (a * c) % p
    BY <2>6, <2>9, <2>10
  <2>12. QED
    BY <2>1, <2>7, <2>8, <2>11
<1>3. n \in 0..n
  OBVIOUS
<1>4. QED
  BY <1>2, <1>3, Zenon

\* Two factors that are the same but for multiples of p.
LEMMA ModCong ==
    \A p \in Nat \ {0} : \A a, b, c \in Nat : a % p = b % p => (c * a) % p = (c * b) % p
<1> SUFFICES ASSUME NEW p \in Nat \ {0}, NEW a \in Nat, NEW b \in Nat, NEW c \in Nat, a % p = b % p
             PROVE  (c * a) % p = (c * b) % p
  OBVIOUS
<1>1. ((a % p) * c) % p = (a * c) % p /\ ((b % p) * c) % p = (b * c) % p
  BY ModMul
<1>2. a * c = c * a /\ b * c = c * b
  OBVIOUS
<1>3. QED
  BY <1>1, <1>2

\* The first powers are powers.
LEMMA PowersRestrict ==
    ASSUME NEW f, NEW g, NEW n \in Nat, Powers(f, g, n), NEW x \in Nat, x <= n
    PROVE  \E e : Powers(e, g, x) /\ \A i \in 0..x : e[i] = f[i]
<1>0. PICK e : e = [i \in 0..x |-> f[i]]
  OBVIOUS
<1>1. f = [i \in 0..n |-> IF i = 0 THEN 1 ELSE g * f[i - 1]]
  BY DEF Powers
<1>2. \A i \in 0..x : i \in 0..n /\ (i # 0 => i - 1 \in 0..x)
  OBVIOUS
<1>3. \A i \in 0..x : e[i] = IF i = 0 THEN 1 ELSE g * e[i - 1]
  BY <1>0, <1>1, <1>2
<1>4. e = [i \in 0..x |-> IF i = 0 THEN 1 ELSE g * e[i - 1]]
  BY <1>0, <1>3
<1>5. QED
  BY <1>0, <1>4 DEF Powers

\* A number is twice its half, and one more if it is odd.
LEMMA Halved ==
    ASSUME NEW n \in Nat, n # 0
    PROVE  /\ n \div 2 \in Nat /\ n \div 2 < n
           /\ \/ n % 2 = 0 /\ n = (n \div 2) + (n \div 2)
              \/ n % 2 = 1 /\ n = ((n \div 2) + (n \div 2)) + 1
  OBVIOUS

\* Half the range of a u32, and that of an i64 in terms of it.
Half32 == (Word * Word) \div 2

LEMMA Widths ==
    /\ Half32 \in Nat /\ Half32 > 1 /\ Word * Word = 2 * Half32
    /\ (Word * Word * Word * Word) \div 2 = 2 * (Half32 * Half32)
<1>1. PICK h \in Nat : Word = 2 * h /\ h > 6
  BY Halves
<1>2. PICK m \in Nat : m = 2 * (h * h)
  BY <1>1
<1>3. Word * Word = 2 * m
  BY <1>1, <1>2
<1>4. Half32 = m
  BY <1>3 DEF Half32
<1>5. m > 1
  <2>1. h * h > 6
    BY <1>1
  <2>2. QED
    BY <1>2, <2>1
<1>6. PICK q \in Nat : q = m * m
  OBVIOUS
<1>7. Word * Word * Word * Word = (Word * Word) * (Word * Word)
  BY <1>1
<1>8. (2 * m) * (2 * m) = 4 * q
  BY <1>6
<1>9. (4 * q) \div 2 = 2 * q
  OBVIOUS
<1>10. QED
  BY <1>3, <1>4, <1>5, <1>6, <1>7, <1>8, <1>9

\* Products of values that have lost their sign bit fit an i64.
LEMMA TimesFits ==
    ASSUME NEW a \in 0..(Half32 - 1), NEW b \in 0..(Half32 - 1), NEW p \in Nat \ {0}
    PROVE  times(a, b, p) = (a * b) % p
<1>1. PICK m \in Nat : m = Half32 /\ m > 1
  BY Widths
<1>2. PICK q \in Nat : q = m * m
  OBVIOUS
<1>3. PICK v \in Nat : v = a * b
  BY <1>1
<1>4. q > 0 /\ v <= q
  <2>1. a <= m /\ b <= m /\ a \in Nat /\ b \in Nat
    BY <1>1
  <2>2. a * b <= m * m
    BY <2>1
  <2>3. m * m > 0
    BY <1>1
  <2>4. QED
    BY <1>2, <1>3, <2>2, <2>3
<1>5. (v + 2 * q) % (2 * (2 * q)) = v + 2 * q
  BY <1>4
<1>6. I64(v) = v
  <2>1. (Word * Word * Word * Word) \div 2 = 2 * q
    BY <1>1, <1>2, Widths
  <2>2. I64(v) = ((v + 2 * q) % (2 * (2 * q))) - 2 * q
    BY <2>1 DEF I64
  <2>3. QED
    BY <1>5, <2>2
<1>7. QED
  BY <1>3, <1>6 DEF times

\* The rounds of g_pow_x_mod_p up to the n-th.
Rounds(w, p, x, g, n) ==
    w = [i \in 0..n |-> IF i = 0 THEN [x |-> x, mult |-> g, current |-> 1] ELSE Round(w[i - 1], p)]

\* There are always rounds.
LEMMA RoundsExist ==
    ASSUME NEW p, NEW x, NEW g, NEW n \in Nat
    PROVE  \E w : Rounds(w, p, x, g, n)
<1> DEFINE First == [x |-> x, mult |-> g, current |-> 1]
           Bad == {m \in Nat : ~\E w : Rounds(w, p, x, g, m)}
<1>1. SUFFICES ASSUME Bad # {} PROVE FALSE
  OBVIOUS
<1>2. PICK m \in Bad : \A k \in Bad : m <= k
  BY <1>1, Least
<1>3. CASE m = 0
  <2>1. PICK w : w = [i \in 0..0 |-> First]
    OBVIOUS
  <2>2. Rounds(w, p, x, g, 0)
    BY <2>1 DEF Rounds
  <2>3. QED
    BY <1>2, <1>3, <2>2
<1>4. CASE m # 0
  <2>1. m - 1 \in Nat /\ m \in Nat /\ ~(m <= m - 1)
    BY <1>2, <1>4
  <2>2. m - 1 \notin Bad
    BY <1>2, <2>1, Zenon
  <2>3. PICK h : Rounds(h, p, x, g, m - 1)
    BY <2>1, <2>2
  <2> HIDE DEF First
  <2>4. PICK w : w = [i \in 0..m |-> IF i = 0 THEN First ELSE Round(h[i - 1], p)]
    OBVIOUS
  <2>5. h = [i \in 0..(m - 1) |-> IF i = 0 THEN First ELSE Round(h[i - 1], p)]
    BY <2>3 DEF Rounds, First
  <2>6. \A i \in 0..(m - 1) : w[i] = h[i]
    BY <2>1, <2>4, <2>5
  <2>7. \A i \in 0..m : i # 0 => i - 1 \in 0..(m - 1)
    BY <2>1
  <2>8. \A i \in 0..m : i # 0 => w[i - 1] = h[i - 1]
    BY <2>6, <2>7
  <2>9. w = [i \in 0..m |-> IF i = 0 THEN First ELSE Round(w[i - 1], p)]
    BY <2>4, <2>8
  <2>10. Rounds(w, p, x, g, m)
    BY <2>9 DEF Rounds, First
  <2>11. QED
    BY <1>2, <2>10
<1>5. QED
  BY <1>3, <1>4

\* What the loop keeps: its values have no sign bit, and what it has times what is
\* left of the power is the whole power, but for multiples of p; once nothing is
\* left, it has a rest.
Sound(s, p, x, whole, i) ==
    /\ s = [x |-> s.x, mult |-> s.mult, current |-> s.current]
    /\ s.x \in Nat /\ (s.x = 0 \/ s.x + i <= x)
    /\ s.mult \in 0..(Half32 - 1) /\ s.current \in 0..(Half32 - 1)
    /\ \A h : Powers(h, s.mult, s.x) => (s.current * h[s.x]) % p = whole
    /\ s.x = 0 => s.current \in 0..(p - 1)

\* A round keeps it.
LEMMA RoundStep ==
    ASSUME NEW p \in 1..(Half32 - 1), NEW x \in Nat, NEW whole, NEW i \in Nat, NEW s,
           Sound(s, p, x, whole, i)
    PROVE  Sound(Round(s, p), p, x, whole, i + 1)
<1>0. Half32 \in Nat /\ p \in Nat \ {0}
  BY Widths
<1>1. CASE s.x = 0
  BY <1>1 DEF Sound, Round
<1>2. CASE s.x # 0
  <2>1. PICK n \in Nat, m \in 0..(Half32 - 1), c \in 0..(Half32 - 1) :
          s.x = n /\ s.mult = m /\ s.current = c /\ n # 0 /\ n + i <= x
    BY <1>2 DEF Sound
  <2>2. m \in Nat /\ c \in Nat
    BY <1>0
  <2>3. PICK k \in Nat : /\ k = n \div 2 /\ k < n
                         /\ (n % 2 = 0 /\ n = k + k) \/ (n % 2 = 1 /\ n = (k + k) + 1)
    BY <2>1, Halved
  <2>4. PICK m2 \in Nat : m2 = m * m
    BY <2>2
  <2>5. PICK c2 \in Nat : c2 = IF n % 2 = 1 THEN (m * c) % p ELSE c
    <3>1. m * c \in Nat
      BY <2>2
    <3>2. (m * c) % p \in Nat
      BY <1>0, <3>1, DivMod
    <3>3. QED
      BY <2>2, <3>2
  <2>6. Round(s, p) = [x |-> k, mult |-> m2 % p, current |-> c2]
    <3>1. times(m, m, p) = m2 % p /\ times(m, c, p) = (m * c) % p
      BY <1>0, <2>4, TimesFits
    <3>2. QED
      BY <1>2, <2>1, <2>3, <2>5, <3>1 DEF Round
  <2>7. m2 % p \in 0..(p - 1) /\ (n % 2 = 1 => c2 \in 0..(p - 1))
    <3>1. m * c \in Nat
      BY <2>2
    <3>2. (m * c) % p \in 0..(p - 1) /\ m2 % p \in 0..(p - 1)
      BY <1>0, <3>1, DivMod
    <3>3. QED
      BY <2>5, <3>2
  <2>8. c2 \in 0..(Half32 - 1) /\ m2 % p \in 0..(Half32 - 1)
    BY <1>0, <2>5, <2>7
  <2>9. k = 0 \/ k + (i + 1) <= x
    BY <2>1, <2>3
  <2>10. k = 0 => c2 \in 0..(p - 1)
    BY <2>1, <2>3, <2>7
  <2>13. \A a, b, d \in Nat : a % p = b % p => (d * a) % p = (d * b) % p
    BY <1>0, ModCong, Zenon
  <2>11. ASSUME NEW h, Powers(h, m2 % p, k) PROVE (c2 * h[k]) % p = whole
    <3>1. PICK e : Powers(e, m, n + 2)
      BY PowersExist
    <3>2. /\ e[0] = 1
          /\ \A j \in 0..(n + 2) : e[j] \in Nat /\ (j # 0 => e[j] = m * e[j - 1])
      BY <2>2, <3>1, PowersAre
    <3>3. e[2] = m2
      <4>1. e[1] = m * e[0] /\ e[2] = m * e[1]
        BY <3>2
      <4>2. m * 1 = m
        BY <2>2
      <4>3. QED
        BY <2>4, <3>2, <4>1, <4>2
    <3>4. PICK q : Powers(q, m2, k)
      BY PowersExist
    <3>5. q[k] = e[2 * k]
      <4>1. 2 <= n + 2 /\ 2 * k <= n + 2 /\ n + 2 \in Nat
        BY <2>3
      <4>2. QED
        BY <2>2, <3>1, <3>3, <3>4, <4>1, PowersMultiply
    <3>6. PICK t \in Nat : t = e[2 * k]
      <4>1. 2 * k \in 0..(n + 2)
        BY <2>3
      <4>2. QED
        BY <3>2, <4>1
    <3>7. PICK u \in Nat : u = h[k]
      <4>1. m2 % p \in Nat /\ k \in 0..k
        BY <1>0, <2>7
      <4>2. QED
        BY <2>11, <4>1, PowersAre
    <3>8. u % p = t % p
      BY <1>0, <2>11, <3>4, <3>5, <3>6, <3>7, PowersOfRest
    <3>9. (c * e[n]) % p = whole
      <4>1. PICK d : Powers(d, m, n) /\ \A j \in 0..n : d[j] = e[j]
        BY <3>1, PowersRestrict
      <4>2. n \in 0..n
        OBVIOUS
      <4>3. QED
        BY <2>1, <4>1, <4>2 DEF Sound
    <3>10. CASE n % 2 = 0
      <4>1. c2 = c /\ n = 2 * k
        BY <2>3, <2>5, <3>10
      <4>2. (c * u) % p = (c * t) % p
        BY <2>2, <3>8, <2>13, Zenon
      <4>3. QED
        BY <3>6, <3>7, <3>9, <4>1, <4>2
    <3>11. CASE n % 2 = 1
      <4>1. c2 = (m * c) % p /\ n = 2 * k + 1
        BY <2>3, <2>5, <3>11
      <4>2. e[n] = m * t
        <5>1. n \in 0..(n + 2) /\ n # 0 /\ n - 1 = 2 * k
          BY <4>1
        <5>2. QED
          BY <3>2, <3>6, <5>1
      <4>3. PICK r \in Nat : r = m * c
        BY <2>2
      <4>4. ((r % p) * u) % p = (r * u) % p
        BY <1>0, ModMul
      <4>5. (r * u) % p = (r * t) % p
        BY <3>8, <2>13, Zenon
      <4>6. r * t = c * (m * t)
        BY <2>2, <4>3
      <4>7. QED
        BY <3>7, <3>9, <4>1, <4>2, <4>3, <4>4, <4>5, <4>6
    <3>12. QED
      BY <2>3, <3>10, <3>11
  <2>12. QED
    BY <2>3, <2>6, <2>8, <2>9, <2>10, <2>11 DEF Sound
<1>3. QED
  BY <1>1, <1>2

\* The power of zero is one, whatever the modulus.
LEMMA PowZero ==
    ASSUME NEW p, NEW g
    PROVE  g_pow_x_mod_p(p, 0, g) = 1
<1>1. PICK v : Rounds(v, p, 0, g, 0) /\ g_pow_x_mod_p(p, 0, g) = v[0].current % (Word * Word)
  <2>1. g_pow_x_mod_p(p, 0, g) = (CHOOSE v : Rounds(v, p, 0, g, 0))[0].current % (Word * Word)
    BY DEF g_pow_x_mod_p, Rounds
  <2>2. QED
    BY <2>1, RoundsExist
<1>2. v[0].current = 1
  BY <1>1 DEF Rounds
<1>3. 1 % (Word * Word) = 1
  BY Widths
<1>4. QED
  BY <1>1, <1>2, <1>3

\* g_pow_x_mod_p is the power, taken to the rest, if there is a round at all.
LEMMA PowIs ==
    ASSUME NEW p \in 1..(Half32 - 1), NEW g \in 0..(Half32 - 1), NEW x \in Nat \ {0},
           NEW n \in Nat, x <= n, NEW f, Powers(f, g, n)
    PROVE  g_pow_x_mod_p(p, x, g) = f[x] % p
<1>0. Half32 \in Nat /\ Half32 > 1 /\ g \in Nat /\ p \in Nat \ {0}
  BY Widths
<1>1. PICK v : Rounds(v, p, x, g, x) /\ g_pow_x_mod_p(p, x, g) = v[x].current % (Word * Word)
  <2>1. g_pow_x_mod_p(p, x, g) = (CHOOSE v : Rounds(v, p, x, g, x))[x].current % (Word * Word)
    BY DEF g_pow_x_mod_p, Rounds
  <2>2. QED
    BY <2>1, RoundsExist
<1>2. /\ v[0] = [x |-> x, mult |-> g, current |-> 1]
      /\ \A i \in 0..x : i # 0 => v[i] = Round(v[i - 1], p)
  BY <1>1 DEF Rounds
<1>3. PICK whole \in Nat : whole = f[x] % p
  <2>1. x \in 0..n
    OBVIOUS
  <2>2. PICK a \in Nat : a = f[x]
    BY <1>0, <2>1, PowersAre
  <2>3. a % p \in 0..(p - 1)
    BY <1>0, DivMod
  <2>4. QED
    BY <1>0, <2>2, <2>3
<1>4. ASSUME NEW h, Powers(h, g, x) PROVE h[x] = f[x]
  <2>1. x * 1 = x /\ 1 <= n /\ 1 * x <= n /\ 1 * x = x
    OBVIOUS
  <2>2. f[1] = g
    <3>1. 1 \in 0..n /\ f[0] = 1 /\ f[1] = g * f[0] /\ g * 1 = g
      BY <1>0, <2>1, PowersAre
    <3>2. QED
      BY <3>1
  <2>3. QED
    BY <1>0, <1>4, <2>1, <2>2, PowersMultiply
<1>5. Sound(v[0], p, x, whole, 0)
  <2>1. \A h : Powers(h, g, x) => (1 * h[x]) % p = whole
    <3>1. f[x] \in Nat
      BY <1>0, PowersAre
    <3>2. 1 * f[x] = f[x]
      BY <3>1
    <3>3. QED
      BY <1>3, <1>4, <3>2
  <2>2. QED
    BY <1>0, <1>2, <2>1 DEF Sound
<1> DEFINE Bad == {i \in 0..x : ~Sound(v[i], p, x, whole, i)}
<1>6. ASSUME Bad # {} PROVE FALSE
  <2>0. Bad \subseteq Nat
    OBVIOUS
  <2>1. PICK j \in Bad : \A i \in Bad : j <= i
    BY <1>6, <2>0, Least
  <2>2. j # 0
    BY <1>5, <2>1
  <2>3. j - 1 \in 0..x /\ j \in 0..x /\ ~(j <= j - 1) /\ (j - 1) + 1 = j /\ j - 1 \in Nat
    BY <2>1, <2>2
  <2>4. Sound(v[j - 1], p, x, whole, j - 1)
    BY <2>1, <2>3, Zenon
  <2>5. v[j] = Round(v[j - 1], p)
    BY <1>2, <2>2, <2>3
  <2>6. Sound(Round(v[j - 1], p), p, x, whole, (j - 1) + 1)
    BY <2>3, <2>4, RoundStep
  <2>7. Sound(v[j], p, x, whole, j)
    BY <2>3, <2>5, <2>6
  <2>8. QED
    BY <2>1, <2>7
<1>7. x \in 0..x
  OBVIOUS
<1>8. Sound(v[x], p, x, whole, x)
  BY <1>6, <1>7, Zenon
<1>9. PICK c \in 0..(p - 1) : c = v[x].current /\ v[x].x = 0 /\ v[x].mult \in Nat
  BY <1>0, <1>8 DEF Sound
<1>10. c = whole
  <2>1. PICK h : Powers(h, v[x].mult, 0)
    BY PowersExist
  <2>2. (c * h[0]) % p = whole
    BY <1>8, <1>9, <2>1 DEF Sound
  <2>3. h[0] = 1
    BY <1>9, <2>1, PowersAre
  <2>4. c * 1 = c /\ c % p = c
    BY <1>0
  <2>5. QED
    BY <2>2, <2>3, <2>4
<1>11. c % (Word * Word) = c
  BY <1>0, Widths
<1>12. QED
  BY <1>1, <1>3, <1>9, <1>10, <1>11

\* The exchange agrees: each end raises the other's value to its own secret, where
\* the modulus is more than one or the secrets are both zero or both not.
LEMMA KeysAgree ==
    ASSUME NEW p \in 0..(Half32 - 1), NEW g \in 0..(Half32 - 1), NEW x \in Nat, NEW y \in Nat,
           \/ p > 1
           \/ p = 1 /\ (x = 0 <=> y = 0)
           \/ p = 0 /\ x = 0 /\ y = 0
    PROVE  g_pow_x_mod_p(p, y, g_pow_x_mod_p(p, x, g)) = g_pow_x_mod_p(p, x, g_pow_x_mod_p(p, y, g))
<1>a. Half32 \in Nat /\ Half32 > 1 /\ g \in Nat
  BY Widths
<1>b. CASE x = 0 /\ y = 0
  BY <1>b, PowZero
<1>c. CASE x # 0 /\ y # 0
  <2>0. PICK n \in Nat : n = x * y + x + y
    OBVIOUS
  <2>1. x <= n /\ y <= n /\ x * y <= n /\ y * x <= n /\ p \in 1..(Half32 - 1)
    <3>1. x * y \in Nat /\ x * y = y * x
      OBVIOUS
    <3>2. QED
      BY <1>a, <1>c, <2>0, <3>1
  <2>2. PICK f : Powers(f, g, n)
    BY PowersExist
  <2>3. \A i \in 0..n : f[i] \in Nat
    BY <1>a, <2>2, PowersAre
  <2>4. ASSUME NEW s \in Nat \ {0}, NEW t \in Nat \ {0}, s <= n, s * t <= n
        PROVE  g_pow_x_mod_p(p, t, g_pow_x_mod_p(p, s, g)) = f[s * t] % p
    <3>1. PICK a \in Nat : a = f[s]
      BY <2>3, <2>4
    <3>2. g_pow_x_mod_p(p, s, g) = a % p
      BY <2>1, <2>2, <2>4, <3>1, PowIs
    <3>3. a % p \in 0..(Half32 - 1) /\ a % p \in Nat
      <4>1. a % p \in 0..(p - 1)
        <5>1. p \in Nat \ {0}
          BY <1>a, <2>1
        <5>2. QED
          BY <5>1, DivMod
      <4>2. QED
        BY <1>a, <2>1, <4>1
    <3>4. PICK h : Powers(h, a % p, t)
      BY PowersExist
    <3>5. PICK k : Powers(k, a, t)
      BY PowersExist
    <3>6. g_pow_x_mod_p(p, t, a % p) = h[t] % p
      <4>1. t <= t
        OBVIOUS
      <4>2. QED
        BY <2>1, <3>3, <3>4, <4>1, PowIs
    <3>7. h[t] % p = k[t] % p
      BY <2>1, <3>4, <3>5, PowersOfRest
    <3>8. k[t] = f[s * t]
      BY <1>a, <2>2, <2>4, <3>1, <3>5, PowersMultiply
    <3>9. QED
      BY <3>2, <3>6, <3>7, <3>8
  <2>5. x * y = y * x
    OBVIOUS
  <2>6. QED
    BY <1>c, <2>1, <2>4, <2>5
<1>d. CASE p > 1 /\ (x = 0 \/ y = 0)
  <2>1. ASSUME NEW s \in Nat \ {0} PROVE g_pow_x_mod_p(p, s, 1) = 1
    <3>1. PICK f : Powers(f, 1, s)
      BY PowersExist
    <3>2. p \in 1..(Half32 - 1) /\ 1 \in 0..(Half32 - 1) /\ s <= s /\ 1 \in Nat /\ s \in 0..s
      BY <1>a, <1>d
    <3>3. g_pow_x_mod_p(p, s, 1) = f[s] % p
      BY <3>1, <3>2, PowIs
    <3>4. f[0] = 1 /\ \A i \in 0..s : f[i] \in Nat /\ (i # 0 => f[i] = 1 * f[i - 1])
      BY <3>1, <3>2, PowersAre
    <3> DEFINE Bad == {i \in 0..s : f[i] # 1}
    <3>5. ASSUME Bad # {} PROVE FALSE
      <4>0. Bad \subseteq Nat
        OBVIOUS
      <4>1. PICK j \in Bad : \A i \in Bad : j <= i
        BY <3>5, <4>0, Least
      <4>2. j # 0
        BY <3>4, <4>1
      <4>3. j - 1 \in 0..s /\ j \in 0..s /\ ~(j <= j - 1)
        BY <4>1, <4>2
      <4>4. f[j - 1] = 1
        BY <4>1, <4>3, Zenon
      <4>5. f[j] = 1 * 1
        BY <3>4, <4>2, <4>3, <4>4
      <4>6. QED
        BY <4>1, <4>5
    <3>6. f[s] = 1
      BY <3>2, <3>5, Zenon
    <3>7. 1 % p = 1
      BY <1>d
    <3>8. QED
      BY <3>3, <3>6, <3>7
  <2>2. \A s \in Nat : g_pow_x_mod_p(p, s, 1) = 1
    BY <2>1, PowZero
  <2>3. \A z : g_pow_x_mod_p(p, 0, z) = 1
    BY PowZero
  <2>4. QED
    BY <1>d, <2>2, <2>3
<1>e. QED
  BY <1>b, <1>c, <1>d

-----------------------------------------------------------------------------
(* The handshake.                                                          *)

\* What the server keeps of the exchange, with the client's secret or None.
Exchanging(x, g, p, y) ==
    exchange = [x |-> x, p |-> p, g |-> g, a |-> g_pow_x_mod_p(p, x, g), y |-> y]

\* The challenge that answers it.
Answer(x, g, p, y) ==
    [kind |-> "challenge", encrypted |-> FALSE, b |-> g_pow_x_mod_p(p, y, g),
     key |-> g_pow_x_mod_p(p, y, g_pow_x_mod_p(p, x, g))]

\* Where a handshake is that nothing disturbed: what is on the wire is what the
\* server waits for, and the challenge was made from the values it sent.
Offered ==
    /\ stage = "init" /\ toServer = <<>>
    /\ \E x \in Secrets, g \in Generators, p \in Moduli :
         Exchanging(x, g, p, None) /\ ~DividesByZero(p, x)
Answered ==
    /\ stage = "init"
    /\ \E x \in Secrets, g \in Generators, p \in Moduli, y \in Secrets :
         /\ Exchanging(x, g, p, y) /\ toServer = <<Answer(x, g, p, y)>>
         /\ ~DividesByZero(p, x) /\ ~DividesByZero(p, y)
Agreed ==
    /\ stage = "final" /\ toServer = <<>>
    /\ \E x \in Secrets, g \in Generators, p \in Moduli, y \in Secrets : Exchanging(x, g, p, y)
Confirmed ==
    /\ stage = "final" /\ exchange.y = None
    /\ toServer = <<[kind |-> "accepted", encrypted |-> FALSE]>>

Undisturbed ==
    \/ stage = "accepted" /\ toServer = <<>>
    \/ Offered \/ Answered \/ Agreed \/ Confirmed
    \/ stage = "running"
    \/ stage = "failed" /\ Degenerate

Shaken ==
    /\ frames \in Nat
    /\ ~broken /\ frames = 0 => Undisturbed
    /\ stage = "running" => security = "Established"
    /\ game # "absent" => stage = "running"

\* Nothing has been sent yet.
LEMMA ShakenInit == Init => Shaken
  BY DEF Init, Shaken, Undisturbed

\* The server finds the key it expects in the answer to what it sent.
LEMMA AnswerRight ==
    ASSUME NEW x \in Secrets, NEW g \in Generators, NEW p \in Moduli, NEW y \in Secrets,
           Exchanging(x, g, p, y), start_challenge(Answer(x, g, p, y)), ~Degenerate,
           ~DividesByZero(p, x), ~DividesByZero(p, y)
    PROVE  stage' = "final" /\ security' = "Challenged"
<1>2. exchange.p = p /\ exchange.x = x /\ exchange.y = y
  BY DEF Exchanging
<1>1. /\ p \in 0..(Half32 - 1) /\ g \in 0..(Half32 - 1) /\ x \in Nat /\ y \in Nat
      /\ p > 1 \/ (p = 1 /\ (x = 0 <=> y = 0)) \/ (p = 0 /\ x = 0 /\ y = 0)
  <2>1. p \in 0..(Half32 - 1) /\ g \in 0..(Half32 - 1) /\ x \in 0..(Half32 - 1) /\ y \in 0..(Half32 - 1)
    BY StreamAssumption DEF Half32
  <2>2. y # None
    BY StreamAssumption
  <2>3. QED
    BY <1>2, <2>1, <2>2, Widths DEF Degenerate, DividesByZero
<1>3. /\ Answer(x, g, p, y).b = g_pow_x_mod_p(p, y, g)
      /\ Answer(x, g, p, y).key = g_pow_x_mod_p(p, y, g_pow_x_mod_p(p, x, g))
  BY Zenon DEF Answer
<1>4. g_pow_x_mod_p(exchange.p, exchange.x, Answer(x, g, p, y).b) = Answer(x, g, p, y).key
  <2>1. g_pow_x_mod_p(p, y, g_pow_x_mod_p(p, x, g)) = g_pow_x_mod_p(p, x, g_pow_x_mod_p(p, y, g))
    BY <1>1, KeysAgree
  <2>2. QED
    BY <1>2, <1>3, <2>1, Zenon
<1>5. QED
  BY <1>4 DEF start_challenge, Verdict

\* The steps of the handshake.
LEMMA ShakenHandshake ==
    ASSUME Shaken, HandshakeReads
    PROVE  Shaken'
<1>1. /\ ~broken /\ UNCHANGED <<broken, frames, game>> /\ stage \in {"init", "final"}
      /\ toServer' = Tail(toServer) /\ toServer # <<>>
  BY DEF HandshakeReads, Read
<1>2. game = "absent"
  BY <1>1 DEF Shaken
<1>3. stage' = "running" => security' = "Established"
  <2>1. CASE start_challenge(Head(toServer))
    BY <1>1, <2>1 DEF start_challenge, Verdict
  <2>2. CASE ~start_challenge(Head(toServer))
    BY <1>1, <2>2 DEF HandshakeReads, accept_challenge
  <2>3. QED
    BY <2>1, <2>2
<1>4. ASSUME frames = 0 PROVE Undisturbed'
  <2>1. Answered \/ Confirmed
    BY <1>1, <1>4 DEF Shaken, Undisturbed, Offered, Agreed
  <2>2. CASE Answered
    <3>1. PICK x \in Secrets, g \in Generators, p \in Moduli, y \in Secrets :
            /\ Exchanging(x, g, p, y) /\ toServer = <<Answer(x, g, p, y)>>
            /\ ~DividesByZero(p, x) /\ ~DividesByZero(p, y)
      BY <2>2 DEF Answered
    <3>2. Head(toServer) = Answer(x, g, p, y) /\ Tail(toServer) = <<>>
      BY <3>1
    <3>3. Head(toServer).kind = "challenge" /\ stage = "init"
      BY <2>2, <3>2 DEF Answer, Answered
    <3>4. start_challenge(Answer(x, g, p, y)) /\ exchange' = exchange
      BY <3>2, <3>3 DEF HandshakeReads, HeaderRefused
    <3>5. stage' = "final" \/ (stage' = "failed" /\ Degenerate)
      <4>1. stage' \in {"final", "failed"}
        BY <3>4 DEF start_challenge, Verdict
      <4>2. QED
        BY <3>1, <3>4, <4>1, AnswerRight
    <3>6. Exchanging(x, g, p, y)' /\ Degenerate' = Degenerate
      BY <3>1, <3>4 DEF Exchanging, Degenerate
    <3>7. stage' = "final" => Agreed'
      BY <1>1, <3>2, <3>6 DEF Agreed
    <3>8. QED
      BY <3>5, <3>6, <3>7 DEF Undisturbed
  <2>3. CASE Confirmed
    <3>1. Head(toServer).kind = "accepted" /\ stage = "final"
      BY <2>3 DEF Confirmed
    <3>2. accept_challenge
      BY <3>1 DEF HandshakeReads, HeaderRefused
    <3>3. QED
      BY <3>2 DEF accept_challenge, Undisturbed
  <2>4. QED
    BY <2>1, <2>2, <2>3
<1>5. QED
  BY <1>1, <1>2, <1>3, <1>4 DEF Shaken

\* The steps of the client that belong to the handshake.
LEMMA ShakenAnswers ==
    ASSUME Shaken,
           \/ \E x \in Secrets, g \in Generators, p \in Moduli : initialize(x, g, p)
           \/ \E y \in Secrets : Challenge(y)
           \/ Accepted
    PROVE  Shaken'
<1>1. CASE \E x \in Secrets, g \in Generators, p \in Moduli : initialize(x, g, p)
  <2>1. PICK x \in Secrets, g \in Generators, p \in Moduli : initialize(x, g, p)
    BY <1>1
  <2>2. stage = "accepted" /\ stage' \in {"init", "failed"} /\ UNCHANGED <<frames, broken, game, toServer>>
    BY <2>1 DEF initialize, inVars
  <2>3. CASE DividesByZero(p, x)
    <3>1. exchange'.p = p /\ exchange'.x = x /\ stage' = "failed"
      BY <2>1, <2>3 DEF initialize
    <3>2. Degenerate'
      BY <2>3, <3>1 DEF Degenerate, DividesByZero
    <3>3. QED
      BY <2>2, <3>1, <3>2 DEF Shaken, Undisturbed
  <2>4. CASE ~DividesByZero(p, x)
    <3>1. Exchanging(x, g, p, None)' /\ stage' = "init"
      BY <2>1, <2>4 DEF initialize, Exchanging
    <3>2. ASSUME ~broken, frames = 0 PROVE Offered'
      BY <2>2, <2>4, <3>1, <3>2 DEF Shaken, Undisturbed, Offered, Answered, Agreed, Confirmed
    <3>3. QED
      BY <2>2, <3>1, <3>2 DEF Shaken, Undisturbed
  <2>5. QED
    BY <2>3, <2>4
<1>2. CASE \E y \in Secrets : Challenge(y)
  <2>1. PICK y \in Secrets : Challenge(y)
    BY <1>2
  <2>2. stage = "init" /\ exchange.y = None /\ UNCHANGED <<stage, frames, broken, game>>
    BY <2>1 DEF Challenge
  <2>3. ASSUME ~broken, frames = 0 PROVE Answered'
    <3>1. Offered
      <4>1. ~Answered
        BY <2>2, StreamAssumption DEF Answered, Exchanging
      <4>2. QED
        BY <2>2, <2>3, <4>1 DEF Shaken, Undisturbed, Agreed, Confirmed
    <3>2. PICK x \in Secrets, g \in Generators, p \in Moduli :
            Exchanging(x, g, p, None) /\ ~DividesByZero(p, x)
      BY <3>1 DEF Offered
    <3>3. exchange.p = p /\ exchange.g = g /\ exchange.a = g_pow_x_mod_p(p, x, g)
      BY <3>2 DEF Exchanging
    <3>4. toServer' = <<Answer(x, g, p, y)>>
      <4>1. toServer = <<>>
        BY <3>1 DEF Offered
      <4>2. toServer' = Append(<<>>, Answer(x, g, p, y))
        BY <2>1, <3>3, <4>1, Zenon DEF Challenge, Answer
      <4>3. QED
        BY <4>2
    <3>5. Exchanging(x, g, p, y)'
      BY <2>1, <3>2 DEF Challenge, Exchanging
    <3>6. ~DividesByZero(p, y)
      BY <2>1, <3>3 DEF Challenge
    <3>7. QED
      BY <2>2, <3>2, <3>4, <3>5, <3>6 DEF Answered
  <2>4. QED
    BY <2>2, <2>3 DEF Shaken, Undisturbed
<1>3. CASE Accepted
  <2>1. stage = "final" /\ exchange.y # None /\ UNCHANGED <<stage, frames, broken, game>>
    BY <1>3 DEF Accepted
  <2>2. ASSUME ~broken, frames = 0 PROVE Confirmed'
    <3>1. Agreed
      BY <2>1, <2>2 DEF Shaken, Undisturbed, Offered, Answered, Confirmed
    <3>2. PICK x \in Secrets, g \in Generators, p \in Moduli, y \in Secrets : Exchanging(x, g, p, y)
      BY <3>1 DEF Agreed
    <3>3. exchange'.y = None
      BY <1>3, <3>2 DEF Accepted, Exchanging
    <3>4. toServer' = <<[kind |-> "accepted", encrypted |-> FALSE]>>
      BY <1>3, <3>1 DEF Accepted, Agreed
    <3>5. QED
      BY <2>1, <3>3, <3>4 DEF Confirmed
  <2>3. QED
    BY <2>1, <2>2 DEF Shaken, Undisturbed
<1>4. QED
  BY <1>1, <1>2, <1>3

\* Every step keeps the handshake on its way, or disturbs it for good.
LEMMA ShakenStep == Shaken /\ [Next]_vars => Shaken'
<1> SUFFICES ASSUME Shaken, [Next]_vars PROVE Shaken'
  OBVIOUS
<1>1. CASE HandshakeReads
  BY <1>1, ShakenHandshake
<1>2. CASE \/ \E x \in Secrets : \E g \in Generators : \E p \in Moduli : initialize(x, g, p)
           \/ \E y \in Secrets : Challenge(y)
           \/ Accepted
  BY <1>2, ShakenAnswers
<1>3. CASE \/ \E p \in Sends : ClientPacket(p.op, p.fine, p.encrypted)
           \/ \E h \in Headers : ClientHeader(h.op, h.n)
           \/ \E fine \in BOOLEAN : ClientContainer(fine)
  <2>1. frames' = frames + 1 /\ UNCHANGED <<stage, security, game>>
    BY <1>3 DEF ClientPacket, ClientHeader, ClientContainer, Emit, handshakeVars
  <2>2. QED
    BY <2>1 DEF Shaken
<1>4. CASE ReaderReads \/ accept
  <2>1. stage = "running" /\ UNCHANGED <<stage, security, frames>>
    BY <1>4 DEF ReaderReads, Read, accept, handshakeVars, inVars
  <2>2. QED
    BY <2>1 DEF Shaken, Undisturbed
<1>5. CASE Break \/ StreamClosed
  <2>1. /\ broken' /\ UNCHANGED <<frames, security, game>>
        /\ stage' = stage \/ (stage # "running" /\ stage' = "failed")
    BY <1>5 DEF Break, StreamClosed, handshakeVars
  <2>2. QED
    BY <2>1 DEF Shaken
<1>6. CASE \/ Join \/ received \/ send_identity_information \/ ReceiveFails \/ Logout \/ disconnected
           \/ \E packet \in Packets : send(packet)
           \/ WriterSends \/ WriterEnds \/ ClientReads
           \/ UNCHANGED vars
  <2>1. /\ UNCHANGED <<stage, security, exchange, frames, broken, toServer>>
        /\ game' # "absent" => game # "absent"
    <3>1. CASE send_identity_information
      BY <3>1, IdentityStep DEF Answers, Take, handshakeVars
    <3>2. CASE ~send_identity_information
      BY <1>6, <3>2 DEF Join, received, Take, Held, ReceiveFails, Logout, disconnected, send, WriterSends,
                        WriterEnds, ClientReads, handshakeVars, inVars, vars
    <3>3. QED
      BY <3>1, <3>2
  <2>2. Undisturbed' = Undisturbed
    BY <2>1 DEF Undisturbed, Offered, Answered, Agreed, Confirmed, Exchanging, Degenerate
  <2>3. QED
    BY <2>1, <2>2 DEF Shaken
<1>7. QED
  BY <1>1, <1>2, <1>3, <1>4, <1>5, <1>6 DEF Next

\* Whatever 31-bit values the two ends draw, the products of g_pow_x_mod_p fit an
\* i64 and raising to powers commutes, so they agree on the secret but for the
\* degenerate draws (a modulus of 0, or of 1 with one secret of 0): the handshake
\* fails only then, when the connection breaks or when the client sends something
\* else in between, and the game gets the stream with the keys in place.
\* (security.rs: initialize, start_challenge, accept_challenge, g_pow_x_mod_p)
THEOREM SecretsAgree == Spec => []HandshakeCompletes
<1>1. Spec => []Shaken
  BY ShakenInit, ShakenStep, PTL DEF Spec
<1>2. ASSUME Shaken PROVE HandshakeCompletes
  <2>1. ASSUME stage = "failed", ~broken, ~Degenerate PROVE frames > 0
    <3>1. frames # 0
      BY <1>2, <2>1 DEF Shaken, Undisturbed, Offered, Answered, Agreed, Confirmed
    <3>2. QED
      BY <1>2, <3>1 DEF Shaken
  <2>2. QED
    BY <1>2, <2>1 DEF Shaken, HandshakeCompletes
<1>3. QED
  BY <1>1, <1>2, PTL
=============================================================================
