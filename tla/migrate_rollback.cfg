SPECIFICATION Spec
CONSTANTS
    DB = db
    KEY = key
    dir = dir
    wal = wal
    None = None
    Link = Link
    Names = {db, key, wal}
    Dirs = {}
    Transient = {wal}
    Connectors = {}
    Gens <- MCGens
    EmptyGens = {3}
    Sealed = {2}
    KeyOf <- MCKeyOf
    Inside <- MCInside
    Layouts = {"interim"}
    MaxSlot = 7
    MaxCrashes = 1
    MaxWrites = 2
    MaxLosses = 1
    MidwayRollback = FALSE
INVARIANTS RollbackSeesCanonical MarkerCurrent
PROPERTIES RerunChangesNothing RefusesOnlyWedged
