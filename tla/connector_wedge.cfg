SPECIFICATION FairSpec
CONSTANTS
    DB = db
    KEY = key
    dir = dir
    wal = wal
    None = None
    Link = Link
    Names = {db, key, dir}
    Dirs = {dir}
    Transient = {}
    Connectors = {dir}
    Gens <- MCGens
    EmptyGens = {3}
    Sealed = {2}
    KeyOf <- MCKeyOf
    Inside <- MCInside
    Layouts = {"interim"}
    MaxSlot = 5
    MaxCrashes = 0
    MaxWrites = 1
    MaxLosses = 0
    MidwayRollback = FALSE
PROPERTIES PreparedCompletes
