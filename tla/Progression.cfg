SPECIFICATION Spec
CONSTANTS
    ExpFor <- MCExpFor
    ExpPerSp = 2
    Gains <- MCGains
    MasteryPrice <- MCMasteryPrice
    PerLevelCap = 1
    Amounts = {0, 1, 2}
    SpNamed = {1, 7}
    Hits = {1, 300}
    Byte = 4
    Skills <- MCSkills
    Start <- MCStart
    HalfWord = 4
    GoldAmounts = {2}
    MaxEvents = 3
INVARIANTS ExperienceConserved PaidFor BarsFollow ClientInformed RowAsSaved
CHECK_DEADLOCK FALSE
