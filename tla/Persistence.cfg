SPECIFICATION PersistenceSpec
CONSTANTS
    Bow = Bow
    Arrow = Arrow
    Empty = Empty
    Refs = {Bow, Arrow}
    Slots = {13, 255}
    EquipSlots = {}
    Fitting = {}
    Size = 15
    StackSize = 2
    MaxStack <- MCMaxStack
    Amounts = {1, 2}
    MaxChanges = 2
    MaxPending = 2
    MaxTasks = 2
    OtherChanges <- MCOtherChanges
INVARIANTS SavedInTheEnd NothingForgotten
PROPERTY LogoutSaves
