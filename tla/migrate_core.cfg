SPECIFICATION FairSpec
CONSTANTS
    DB = db
    KEY = key
    dir = dir
    wal = wal
    None = None
    Link = Link
    Names = {db, key}
    Dirs = {}
    Transient = {}
    Connectors = {}
    Gens <- MCGens
    EmptyGens = {3}
    Sealed = {2}
    KeyOf <- MCKeyOf
    Inside <- MCInside
    Layouts = {"bundles", "legacy", "commit_loop"}
    MaxSlot = 6
    MaxCrashes = 2
    MaxWrites = 1
    MaxLosses = 0
    MidwayRollback = FALSE
INVARIANTS TypeOK CompleteIsBound NoMixedGenerations
PROPERTIES NeverDestroysLastCopy CommitsOnlyPrepared AtomicSpec PreparedCompletes
