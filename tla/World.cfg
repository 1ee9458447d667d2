SPECIFICATION Spec
CONSTANTS
    None = None
    Names = {"n"}
    Spawners = {"s"}
    TargetAmount = 2
    MaxEntities = 12
    MaxHappenings = 5
INVARIANTS IdsAccounted SpawnersCount
PROPERTY TargetsLetGo
