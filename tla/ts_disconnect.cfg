SPECIFICATION Spec
CONSTANTS
    o1 = o1
    o2 = o2
    A = A
    B = B
    None = None
    Ops <- FewOps
    Identities <- TwoIdentities
    Kinds <- LoginAndTeardown
    MaxCompleted = 2
    Expires = FALSE
    ProviderRaces = FALSE
    MaxCrashes = 1
    MaxEvents = 0
INVARIANT TypeOK
PROPERTY QueueSpec
PROPERTY NoRepeat
PROPERTY TeardownNamed
PROPERTY AnswersTrue
SYMMETRY OpsAndIdentities
