SPECIFICATION FairSpec
CONSTANTS
    Runs = {r1, r2}
    Owners = {"root", "app"}
    Modes = {"private", "open"}
    RootUser = "root"
    Private = "private"
    Inodes = {1, 2, 3}
    Torn = Torn
    None = None
    MaxCrashes = 2
INVARIANTS TypeOK OriginalKept RecordsWhole BodyProtected
PROPERTY GivenBack
