SPECIFICATION Spec
CONSTANTS
    Players = {p1, p2}
    Things = {m1, m2}
    Home = 1
    Places <- MCPlaces
    Close <- MCClose
    RegionOf <- MCRegionOf
    Beside <- MCBeside
    MaxHappenings = 4
    None = None
INVARIANTS KnowsWhatItSees NoGhosts NoStrangers StandsWhereTold
