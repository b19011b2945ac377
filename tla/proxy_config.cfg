SPECIFICATION FairSpec
CONSTANTS
    Temps = {"guard", "legacy"}
    GuardTemp = "guard"
    LegacyTemp = "legacy"
    Files = {1, 2, 3, 4}
    None = None
    MaxFaults = 2
    MaxSwaps = 2
INVARIANTS TypeOK ConfigWhole
PROPERTIES OnlyValidatedRemoved StartSucceeds
