------------------------- MODULE MCCharacterSelect -------------------------
(* Instances of CharacterSelect for TLC. *)
EXTENDS CharacterSelect

CONSTANTS c1, c2, n1

\* Two accounts.
TwoUsers == [c \in Connections |-> c]

\* Every account has a character of the same name.
OneEach == LET Made(u) == [user |-> u, name |-> n1, deletion |-> 0, equipped |-> TRUE]
           IN  IF c2 \in Connections THEN <<Made(UserOf[c1]), Made(UserOf[c2])>> ELSE <<Made(c1)>>
=============================================================================
