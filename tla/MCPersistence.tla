--------------------------- MODULE MCPersistence ---------------------------
(* Instances of Persistence for TLC. *)
EXTENDS Persistence

CONSTANTS Bow, Arrow, StackSize

MCMaxStack == [r \in Refs |-> IF r = Arrow THEN StackSize ELSE 1]

\* It gives away what is in the slot 13.
MCOtherChanges == {RemoveItem(13)}
=============================================================================
