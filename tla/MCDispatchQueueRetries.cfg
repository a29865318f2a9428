\* One recipe, one client: a failed job is asked for again.
CONSTANTS
    Recipes = {r}
    NoRecipe = NoRecipe
    Clients = {c}
    Digests = {d}
    Ids = {i1, i2}
    NoDigest = NoDigest
    NoId = NoId
    Bundles = {b}
    NoBundle = NoBundle
    MaxQueued = 1
    MaxBundles = 1
    Lease = 0
    MaxResponse = 0
    MaxRetries = 0
    MaxFailures = 2
SPECIFICATION Troubled
PROPERTIES FailuresAreCalls
CHECK_DEADLOCK FALSE
