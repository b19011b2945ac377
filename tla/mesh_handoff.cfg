SPECIFICATION FairSpec
CONSTANTS
    Entries = {"registration"}
    MaxChanges = 2
    MaxFaults = 1
INVARIANT OwnState
