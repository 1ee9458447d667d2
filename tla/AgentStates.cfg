SPECIFICATION Spec
CONSTANTS
  Players = {"a"}
  Monsters = {"m"}
  Spawned = {"m"}
  Drops = {"gold","d"}
  InitialDrops = {"d"}
  Gold <- OneGold
  Invincible = {"a"}
  Targets = {"m","d"}
  Skills = {}
  AttackSkills = {}
  MaxHealth = 2
  Amounts = {1}
  MaxRequests = 1
  MaxStrolls = 0
INVARIANTS DeathNotLost OneDeath DamageAccounted NoDoubleGift
CHECK_DEADLOCK FALSE
