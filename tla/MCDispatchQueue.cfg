\* One recipe, two clients.
CONSTANTS
    Recipes = {r}
    NoRecipe = NoRecipe
    Clients = {c1, c2}
    Digests = {d1, d2}
    Ids = {i1, i2}
    NoDigest = NoDigest
    NoId = NoId
    Bundles = {b1, b2}
    NoBundle = NoBundle
    MaxQueued = 1
    MaxBundles = 1
    Lease = 0
    MaxResponse = 0
    MaxRetries = 0
    MaxFailures = 1
SPECIFICATION Troubled
SYMMETRY Pools
INVARIANTS TypeOK QueueCounted OneCallPerJob ResultAnswersRequest CompletionsHeard
PROPERTIES RowOutlivesResult
CHECK_DEADLOCK FALSE
