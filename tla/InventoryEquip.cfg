SPECIFICATION Spec
CONSTANTS
    Bow = Bow
    Arrow = Arrow
    Empty = Empty
    Refs = {Bow, Arrow}
    Slots = {6, 7, 13, 14, 15}
    EquipSlots = {6, 7}
    Size = 15
    StackSize = 3
    MaxStack <- MCMaxStack
    Fitting <- MCFitting
    Amounts = {0, 1, 2, 3, 4}
    MaxChanges = 3
PROPERTY EquipConserves
