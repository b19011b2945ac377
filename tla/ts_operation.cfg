SPECIFICATION FairSpec
CONSTANTS
    o1 = o1
    o2 = o2
    A = A
    B = B
    None = None
    Ops <- OneOp
    Identities <- OneIdentity
    Kinds <- AllKinds
    MaxCompleted = 0
    Expires = TRUE
    ProviderRaces = TRUE
    MaxCrashes = 1
    MaxEvents = 1
PROPERTY EveryOperationAnswered
PROPERTY Consumed
PROPERTY LoginSecretExpires
