------------------------------ MODULE Channel ------------------------------
(***************************************************************************)
(* What a connection promises in one direction: messages are delivered as  *)
(* they were sent, in order, none twice and none left out, except for the  *)
(* optional ones (those the receiver cannot read).  Whatever is still on   *)
(* its way may be lost.  Stream implements it in both directions.          *)
(***************************************************************************)
EXTENDS Integers, Sequences

VARIABLES sent, got  \* sequences of messages; a message's id is its place

Seen == IF got = <<>> THEN 0 ELSE got[Len(got)].id

Send ==
    /\ Len(sent') = Len(sent) + 1
    /\ SubSeq(sent', 1, Len(sent)) = sent
    /\ got' = got

Deliver(i) ==
    /\ i > Seen
    /\ \A j \in (Seen + 1)..(i - 1) : sent[j].optional
    /\ got' = Append(got, sent[i])
    /\ sent' = sent

Init == sent = <<>> /\ got = <<>>
Next == Send \/ \E i \in DOMAIN sent : Deliver(i)
Spec == Init /\ [][Next]_<<sent, got>>
=============================================================================
