SPECIFICATION DeploymentSpec
CONSTANTS
    Backend = "ast2600_ipmi"
    t1 = t1
    t2 = t2
    Tokens <- MCTokens
    Holds <- MCHolds
    None = None
    Retries = 3
    MaxEdits = 1
    MaxCrashes = 1
INVARIANTS
    DeploymentTypeOK
    FailsClosed
    WritesAreAuthorised
PROPERTIES
    RefusalMeansReplaced
    GoodSecretsServe
    CoreStarts
