SPECIFICATION FairSpec
CONSTANTS
    Entries = {"registration", "settings"}
    MaxChanges = 4
    MaxFaults = 3
INVARIANTS TypeOK NotInherited
PROPERTIES StopsOnlyOutdated FollowsFile
