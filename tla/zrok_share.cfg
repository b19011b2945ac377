SPECIFICATION FairSpec
CONSTANTS
    Names = {"n1", "n2"}
    None = None
    MaxCommands = 3
    MaxFaults = 2
\* The loop waits for commands, and their number is bounded.
CHECK_DEADLOCK FALSE
INVARIANTS TypeOK OneShare StatusHonest
PROPERTIES DisconnectedIsDone Answered Serves
