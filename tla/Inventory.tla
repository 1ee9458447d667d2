----------------------------- MODULE Inventory -----------------------------
(***************************************************************************)
(* A player's inventory (silkroad-game-base inventory.rs) as the game uses *)
(* it: moves and equipping (silkroad-agent game/inventory.rs), pickups     *)
(* (agent/states/action.rs) and the removal the library offers.  Every     *)
(* operation changes the items and records what it did as changes.         *)
(***************************************************************************)
EXTENDS InventoryChanges, FiniteSetsExt

CONSTANTS
    EquipSlots,  \* the slots is_equipment_slot holds for
    Size,        \* the inventory's size: new items are put in slots below it
    MaxStack,    \* per ref: max_stack_size
    Fitting,     \* <<ref, slot>>: the item may be worn in that slot
    Amounts,     \* amounts a client can name in a move and a drop can have
    MaxChanges   \* bound: changes recorded before they are taken

ASSUME InventoryAssumption ==
    /\ Slots \subseteq 0..255 /\ EquipSlots \subseteq Slots
    /\ MaxStack \in [Refs -> Nat \ {0}]
    /\ Fitting \subseteq Refs \X EquipSlots
    /\ Amounts \subseteq Nat
    /\ Size \in Nat /\ MaxChanges \in Nat
    /\ Empty \notin Refs

VARIABLES
    items,      \* the HashMap of items, as a store
    changes,    \* the Vec<InventoryChange>
    \* history
    base,       \* the items when the changes were last taken
    unrecorded  \* an operation changed items without recording it

inventoryVars == <<items, changes, base, unrecorded>>

Bag == Slots \ EquipSlots
Free == {s \in Bag : s < Size /\ items[s] = NoItem}
Room == Len(changes) + 2 <= MaxChanges
Record(cs) == changes' = changes \o cs

\* item_fits_into_equipment_slot goes by the slots and races of object types and
\* by the level an item requires: Fitting has the pairs that pass all three for
\* the player.
object_type_matches(ref, slot) == <<ref, slot>> \in Fitting
Fits(item, slot) == object_type_matches(item.ref, slot)

Stackable(item) == MaxStack[item.ref] > 1
Left(slot) == MaxStack[items[slot].ref] - items[slot].amount
Put(slot, amount) == [items[slot] EXCEPT !.amount = amount]

-----------------------------------------------------------------------------
(* Inventory::move_item.                                                   *)

MoveToEmptySlot(source, target) ==
    /\ items[target] = NoItem \/ source = target
    /\ items' = IF source = target THEN items
                ELSE [items EXCEPT ![target] = items[source], ![source] = NoItem]
    /\ Record(<<MoveItem(source, target)>>)
    /\ UNCHANGED unrecorded

Stacks(source, target) ==
    /\ source # target /\ items[target] # NoItem
    /\ items[source].ref = items[target].ref /\ Stackable(items[source])

\* The whole source stack goes, whatever amount was asked for.
StackAll(source, target, amount) ==
    /\ Stacks(source, target) /\ Left(target) > 0 /\ Left(target) >= amount
    /\ items' = [items EXCEPT ![target] = Put(target, @.amount + amount),
                              ![source] = NoItem]
    /\ Record(<<RemoveItem(source),
                ChangeTypeData(target, items[target].amount,
                               items[target].amount + amount)>>)
    /\ UNCHANGED unrecorded

\* A slip: the source keeps what was moved.
StackSomeKept(source, target, amount) ==
    /\ Stacks(source, target) /\ Left(target) > 0 /\ Left(target) < amount
    /\ Left(target) <= items[source].amount
    /\ items' = [items EXCEPT ![target] = Put(target, MaxStack[@.ref])]
    /\ Record(<<ChangeTypeData(target, items[target].amount, MaxStack[items[target].ref])>>)
    /\ UNCHANGED unrecorded

StackSome(source, target, amount) ==
    /\ Stacks(source, target) /\ Left(target) > 0 /\ Left(target) < amount
    /\ Left(target) <= items[source].amount
    /\ LET rest == items[source].amount - Left(target)
           full == MaxStack[items[target].ref]
       IN  /\ items' = [items EXCEPT ![target] = Put(target, full),
                                     ![source] = Put(source, rest)]
           /\ Record(<<ChangeTypeData(target, items[target].amount, full),
                       ChangeTypeData(source, items[source].amount, rest)>>)
    /\ UNCHANGED unrecorded

\* Taking more from the source than it has is Impossible: the early return
\* leaves both items out of the map they were removed from.
StackFails(source, target, amount) ==
    /\ Stacks(source, target) /\ Left(target) < amount
    /\ Left(target) > items[source].amount
    /\ items' = [items EXCEPT ![target] = NoItem, ![source] = NoItem]
    /\ Record(<<ChangeTypeData(target, items[target].amount,
                               MaxStack[items[target].ref])>>)
    /\ unrecorded' = TRUE

\* A slip: a swap is recorded like a move.
SwapRecordedAsMove(source, target) ==
    /\ source # target /\ items[target] # NoItem /\ ~Stacks(source, target)
    /\ items' = [items EXCEPT ![target] = items[source], ![source] = items[target]]
    /\ Record(<<MoveItem(source, target)>>)
    /\ UNCHANGED unrecorded

SwapItems(source, target) ==
    /\ source # target /\ items[target] # NoItem /\ ~Stacks(source, target)
    /\ items' = [items EXCEPT ![target] = items[source], ![source] = items[target]]
    /\ Record(<<Swap(source, target)>>)
    /\ UNCHANGED unrecorded

\* A full target stack is left alone: Ok(0).
move_item(source, target, amount) ==
    /\ items[source] # NoItem /\ Room
    /\ \/ MoveToEmptySlot(source, target)
       \/ StackAll(source, target, amount)
       \/ StackSome(source, target, amount)
       \/ StackFails(source, target, amount)
       \/ SwapItems(source, target)
    /\ UNCHANGED base

AtLeastOne(amount) == IF amount = 0 THEN 1 ELSE amount

\* handle_inventory_movement, by where source and target are.
Equip(source, target) ==
    /\ source \in Bag /\ target \in EquipSlots
    /\ Fits(items[source], target)
    /\ move_item(source, target, 1)

Unequip(source, target, amount) ==
    /\ source \in EquipSlots /\ target \in Bag
    /\ items[target] # NoItem => Fits(items[target], source)
    /\ move_item(source, target, AtLeastOne(amount))

MoveInBag(source, target, amount) ==
    /\ source \in Bag /\ target \in Bag
    /\ move_item(source, target, AtLeastOne(amount))

-----------------------------------------------------------------------------
(* Inventory::add_item, for a drop that is picked up.                      *)

\* The slots find_slots_matching yields that have room, in the arbitrary order
\* of the HashMap.
Matching(ref) == {s \in Slots : items[s].ref = ref}
OpenStacks(ref) == {s \in Matching(ref) : Left(s) > 0}

AddToStack(item, slot) ==
    /\ Stackable(item) /\ slot \in OpenStacks(item.ref)
    /\ item.amount <= Left(slot)
    /\ items' = [items EXCEPT ![slot] = Put(slot, @.amount + item.amount)]
    /\ Record(<<ChangeTypeData(slot, items[slot].amount, items[slot].amount + item.amount)>>)

\* A slip: the rest is the whole drop.
OverflowWhole(item, slot) ==
    /\ Stackable(item) /\ slot \in OpenStacks(item.ref) /\ Free # {}
    /\ item.amount > Left(slot)
    /\ items' = [items EXCEPT ![slot] = Put(slot, MaxStack[item.ref]), ![Min(Free)] = item]
    /\ Record(<<AddItem(Min(Free), item)>>)

\* The rest goes to the first free slot; if there is none it is gone.
OverflowStack(item, slot) ==
    /\ Stackable(item) /\ slot \in OpenStacks(item.ref)
    /\ item.amount > Left(slot)
    /\ LET full == Put(slot, MaxStack[item.ref])
           rest == [item EXCEPT !.amount = @ - Left(slot)]
           grown == ChangeTypeData(slot, items[slot].amount, full.amount)
       IN  IF Free = {}
             THEN /\ items' = [items EXCEPT ![slot] = full]
                  /\ Record(<<grown>>)
             ELSE /\ items' = [items EXCEPT ![slot] = full, ![Min(Free)] = rest]
                  /\ Record(<<grown, AddItem(Min(Free), rest)>>)

\* A slip: open stacks are not looked for.
AddAlwaysToFreeSlot(item) ==
    /\ Free # {}
    /\ items' = [items EXCEPT ![Min(Free)] = item]
    /\ Record(<<AddItem(Min(Free), item)>>)

AddToFreeSlot(item) ==
    /\ ~(Stackable(item) /\ OpenStacks(item.ref) # {})
    /\ Free # {}
    /\ items' = [items EXCEPT ![Min(Free)] = item]
    /\ Record(<<AddItem(Min(Free), item)>>)

\* With no open stack and no free slot nothing happens.
add_item(item) ==
    /\ Room
    /\ \/ \E slot \in Slots : AddToStack(item, slot) \/ OverflowStack(item, slot)
       \/ AddToFreeSlot(item)
    /\ UNCHANGED <<base, unrecorded>>

-----------------------------------------------------------------------------
\* ChangeTracked::changes takes what is recorded.
TakeChanges ==
    /\ changes # <<>>
    /\ changes' = <<>> /\ base' = items
    /\ UNCHANGED <<items, unrecorded>>

-----------------------------------------------------------------------------
NoItems == [s \in Rows |-> NoItem]

\* from_db: whatever the player owned when it joined; here nothing.
Init == items = NoItems /\ changes = <<>> /\ base = NoItems /\ unrecorded = FALSE

Drops == {i \in [ref : Refs, amount : Amounts \ {0}] : i.amount <= MaxStack[i.ref]}

Moves ==
    \E source, target \in Slots :
       \/ Equip(source, target)
       \/ \E amount \in Amounts : Unequip(source, target, amount)
       \/ \E amount \in Amounts : MoveInBag(source, target, amount)

Pickups == \E item \in Drops : add_item(item)

Next == Moves \/ Pickups \/ TakeChanges

Spec == Init /\ [][Next]_inventoryVars

-----------------------------------------------------------------------------
\* Items and changes are well formed; in particular no subtraction of amounts
\* goes below zero (they are unsigned in the code).
TypeOK ==
    /\ items \in [Rows -> Item \cup {NoItem}] /\ items[Temp] = NoItem
    /\ base \in [Rows -> Item \cup {NoItem}]
    /\ Len(changes) <= MaxChanges
    /\ \A i \in 1..Len(changes) : Touched(changes[i]) \subseteq Slots
    /\ unrecorded \in BOOLEAN

\* At most one stack of an item is not full, so that move_item never finds too
\* little in the source stack and loses both (inventory.rs:376).
OneOpenStack == \A ref \in Refs : \A s, t \in OpenStacks(ref) : s = t

\* Played back on the items they started from, the recorded changes give the
\* items there are now ("Returns any changes that have occurred", changes.rs:6).
ChangesComplete == Replay(base, changes) = items

Before(i) == Replay(base, SubSeq(changes, 1, i - 1))

\* Two consecutive changes have the same effect optimized or not: merging and
\* cancelling lose nothing, and what is not merged keeps its order.
PairsFaithful ==
    ~unrecorded =>
      \A i \in 1..Len(changes) - 1 :
         LET pair == SubSeq(changes, i, i + 1)
         IN  Replay(Before(i), optimize(pair)) = Replay(Before(i), pair)

\* "if both the unoptimized list of changes and the optimized list were to be
\* applied to an object, the end result would be identical" (changes.rs:54-56).
\* Three changes refute it: a move away from a slot, an item added there and a
\* second move of the first item; merge_recursive carries the second past the
\* addition.  Checked by no configuration.
OptimizeFaithful ==
    ~unrecorded => Replay(base, optimize(changes)) = Replay(base, changes)

\* How much of an item a store has, in whichever slots.
Owned(store, ref) ==
    LET held(s) == IF store[s].ref = ref THEN store[s].amount ELSE 0
        sum[S \in SUBSET Slots] ==
            IF S = {} THEN 0 ELSE LET s == CHOOSE s \in S : TRUE IN held(s) + sum[S \ {s}]
    IN  sum[Slots]

\* How much of an item there is more after the amount was moved: where stacks of
\* the same item meet and there is room, the number that was named counts for the
\* whole source stack.
Gained(source, target, amount, ref) ==
    IF Stacks(source, target) /\ Left(target) > 0 /\ Left(target) >= amount /\ items[source].ref = ref
      THEN amount - items[source].amount ELSE 0

\* No move creates or destroys anything, to and from the bag and in it, moved,
\* swapped or stacked completely or in part, whatever amount the client names;
\* but for one case, in which exactly the number that it names is lost or made:
\* a stack put onto another of the same item that has room for that number
\* (move_item).
MovesAccounted ==
    [][\A source, target \in Slots, amount \in Amounts \cup {1} :
          \/ Equip(source, target) /\ amount = 1
          \/ Unequip(source, target, amount)
          \/ MoveInBag(source, target, amount)
          => \A ref \in Refs :
               Owned(items', ref) =
                 Owned(items, ref) + Gained(source, target, AtLeastOne(amount), ref)]_inventoryVars

\* Equipping neither creates nor destroys anything: move_item is told to move 1
\* because "equippable items are always amount 1" (game/inventory.rs:66).
EquipConserves ==
    [][\A source, target \in Slots :
          Equip(source, target) =>
            \A ref \in Refs : Owned(items', ref) = Owned(items, ref)]_inventoryVars

\* A pickup gives exactly what the drop had, also when it fills one stack and
\* opens another; only a full bag may cost the rest (add_item).
PickupsConserve ==
    [][\A item \in Drops :
          add_item(item) =>
            \/ Owned(items', item.ref) = Owned(items, item.ref) + item.amount
            \/ Free = {} /\ Owned(items', item.ref) <= Owned(items, item.ref) + item.amount]_inventoryVars
=============================================================================
