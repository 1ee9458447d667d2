---------------------------- MODULE MCInventory ----------------------------
(* Instances of Inventory for TLC: a bow in slot 6, its arrows in slot 7. *)
EXTENDS Inventory

CONSTANTS Bow, Arrow, StackSize

MCMaxStack == [r \in Refs |-> IF r = Arrow THEN StackSize ELSE 1]
MCFitting == {<<Bow, 6>>, <<Arrow, 7>>} \cap (Refs \X EquipSlots)
=============================================================================
