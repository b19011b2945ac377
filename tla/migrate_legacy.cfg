SPECIFICATION Spec
CONSTANTS
    DB = db
    KEY = key
    dir = dir
    wal = wal
    None = None
    Link = Link
    Names = {db, key, dir}
    Dirs = {dir}
    Transient = {}
    Connectors = {dir}
    Gens <- MCGens
    EmptyGens = {3}
    Sealed = {2}
    KeyOf <- MCKeyOf
    Inside <- MCInside
    Layouts = {"interim", "legacy", "commit_loop", "torn_cleanup"}
    MaxSlot = 6
    MaxCrashes = 1
    MaxWrites = 1
    MaxLosses = 0
    MidwayRollback = TRUE
INVARIANTS NoMixedGenerations
PROPERTIES NeverDestroysLastCopy
