-------------------------- MODULE InventoryChanges --------------------------
(***************************************************************************)
(* The change log of an inventory: the changes (silkroad-game-base         *)
(* inventory.rs), how two of them merge and a list of them is optimized    *)
(* (changes.rs), and the SQL statements each one becomes (silkroad-agent   *)
(* comp/inventory.rs).  A store maps every slot to the item in it; items   *)
(* are told apart by what they are an instance of (ref) and their amount.  *)
(***************************************************************************)
EXTENDS Integers, Sequences, SequencesExt

CONSTANTS
    Slots,  \* inventory slots (u8)
    Refs,   \* what an item can be an instance of: RefItemData and variance
    Empty   \* no item

Temp == -1  \* the slot a swap parks a row in
Rows == Slots \cup {Temp}
Item == [ref : Refs, amount : Nat]
NoItem == [ref |-> Empty, amount |-> 0]

\* A change of one slot has it as both at and to.
Change(op, at, to, ref, was, now) ==
    [op |-> op, at |-> at, to |-> to, ref |-> ref, was |-> was, now |-> now]
AddItem(slot, item) == Change("add", slot, slot, item.ref, 0, item.amount)
ChangeTypeData(slot, old, new) == Change("change", slot, slot, Empty, old, new)
MoveItem(source, target) == Change("move", source, target, Empty, 0, 0)
RemoveItem(slot) == Change("remove", slot, slot, Empty, 0, 0)
Swap(first, second) == Change("swap", first, second, Empty, 0, 0)

ChangeSet == {c \in [op : {"add", "remove", "change", "move", "swap"}, at : Slots, to : Slots,
                     ref : Refs \cup {Empty}, was : Nat, now : Nat] : c.op = "add" => c.ref \in Refs}

Touched(c) == {c.at, c.to}
Share(c, d) == Touched(c) \cap Touched(d) # {}

-----------------------------------------------------------------------------
(* Change::merge.  For each kind of left and right change the code has at  *)
(* most one arm that is not Unchanged.                                     *)

\* A slip: every swap of a slot with another is taken to be undone by the next.
CancelsAnySwap(l, r) ==
    \/ l.op = "add" /\ r.op = "remove" /\ l.at = r.at
    \/ l.op = "swap" /\ r.op = "swap" /\ Share(l, r)

\* The first comparison of two swaps asks for both slots to be other_first_slot.
Cancels(l, r) ==
    \/ l.op = "add" /\ r.op = "remove" /\ l.at = r.at
    \/ l.op = "swap" /\ r.op = "swap"
         /\ ((l.at = r.at /\ l.to = r.at) \/ (l.at = r.to /\ l.to = r.at))

\* The one change that replaces both, or none.
Merged(l, r) ==
    LET Pair(a, b) == l.op = a /\ r.op = b /\ l.to = r.at IN
    CASE Pair("add", "add") -> <<r>>
      [] Pair("add", "move") -> <<[l EXCEPT !.at = r.to, !.to = r.to]>>
      [] Pair("add", "change") /\ l.now = r.was -> <<[l EXCEPT !.now = r.now]>>
      [] Pair("move", "move") -> <<MoveItem(l.at, r.to)>>
      [] Pair("move", "remove") -> <<RemoveItem(l.at)>>
      [] Pair("change", "change") /\ l.now = r.was ->
             <<ChangeTypeData(l.at, l.was, r.now)>>
      [] Pair("change", "remove") -> <<r>>
      [] OTHER -> <<>>

Incompatible(l, r) ==
    \/ "swap" \in {l.op, r.op} /\ Share(l, r)
    \/ l.op = "remove" /\ r.op # "swap" /\ l.at = r.at
    \/ l.op = "move" /\ r.op = "add" /\ l.to = r.at
    \/ l.op = "change" /\ r.op \in {"change", "move"} /\ l.at = r.at

\* One round of merge_recursive: todo is what is left of the list (from its
\* end), queue the unchanged_stack.
MergeRound(s, item) ==
    IF s.stop THEN [s EXCEPT !.todo = <<item>> \o @]
    ELSE IF s.queue = <<>> THEN [s EXCEPT !.queue = <<item>>, !.stop = TRUE]
    ELSE LET new == Head(s.queue)
             rest == Tail(s.queue)
         IN  IF Cancels(item, new) THEN [s EXCEPT !.queue = rest]
             ELSE IF Merged(item, new) # <<>>
                    THEN [s EXCEPT !.queue = Merged(item, new) \o rest]
             ELSE [s EXCEPT !.queue = <<new>> \o rest \o <<item>>,
                            !.stop = Incompatible(item, new)]

merge_recursive(items, new) ==
    LET after[n \in 0..Len(items)] ==
            IF n = 0 THEN [todo |-> <<>>, queue |-> <<new>>, stop |-> FALSE]
            ELSE MergeRound(after[n - 1], items[Len(items) - n + 1])
        end == after[Len(items)]
    IN  end.todo \o Reverse(end.queue)

optimize(changes) ==
    LET merged[n \in 0..Len(changes)] ==
            IF n = 0 THEN <<>> ELSE merge_recursive(merged[n - 1], changes[n])
    IN  IF Len(changes) <= 1 THEN changes ELSE merged[Len(changes)]

-----------------------------------------------------------------------------
(* ApplyToDatabase for InventoryChange: each change is one statement, a    *)
(* swap three.  Every statement is its own transaction.                    *)

Statement(q, from, to, ref, amount) ==
    [q |-> q, from |-> from, to |-> to, ref |-> ref, amount |-> amount]
Relocate(from, to) == Statement("move", from, to, Empty, 0)

Statements(c) ==
    IF c.op = "swap"
      THEN <<Relocate(c.at, Temp), Relocate(c.to, c.at), Relocate(Temp, c.to)>>
      ELSE <<Statement(c.op, c.at, c.to, c.ref, c.now)>>

\* The unique constraint on (character_id, slot).  AddItem is an upsert.
Fails(store, s) ==
    s.q = "move" /\ s.from # s.to
    /\ store[s.from] # NoItem /\ store[s.to] # NoItem

\* An update of no rows is no error.
Execute(store, s) ==
    CASE s.q = "add" -> [store EXCEPT ![s.to] = [ref |-> s.ref, amount |-> s.amount]]
      [] s.q = "remove" -> [store EXCEPT ![s.to] = NoItem]
      [] s.q = "change" /\ store[s.to] # NoItem ->
             [store EXCEPT ![s.to].amount = s.amount]
      [] s.q = "move" /\ store[s.from] # NoItem /\ s.from # s.to ->
             [store EXCEPT ![s.to] = store[s.from], ![s.from] = NoItem]
      [] OTHER -> store

\* A failed statement ends its change, which has three at most.
RunChange(store, ss) ==
    LET one == Execute(store, ss[1])
        two == Execute(one, ss[2])
    IN  IF Fails(store, ss[1]) THEN store
        ELSE IF Len(ss) = 1 \/ Fails(one, ss[2]) THEN one
        ELSE IF Len(ss) = 2 \/ Fails(two, ss[3]) THEN two
        ELSE Execute(two, ss[3])

\* Changes one after the other, each as its statements; and a log of changes.
Run(store, task) ==
    LET after[n \in 0..Len(task)] ==
            IF n = 0 THEN store ELSE RunChange(after[n - 1], task[n])
    IN  after[Len(task)]

Work(changes) == [i \in DOMAIN changes |-> Statements(changes[i])]
Replay(store, changes) == Run(store, Work(changes))
=============================================================================
