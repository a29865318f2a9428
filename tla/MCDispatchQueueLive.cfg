\* One recipe; from some time on no more faults.
CONSTANTS
    Recipes = {r}
    NoRecipe = NoRecipe
    Clients = {c}
    Digests = {d}
    Ids = {i1, i2, i3}
    NoDigest = NoDigest
    NoId = NoId
    Bundles = {b}
    NoBundle = NoBundle
    MaxQueued = 1
    MaxBundles = 1
    Lease = 1
    MaxResponse = 1
    MaxRetries = 1
    MaxFailures = 2
SPECIFICATION FairSpec
PROPERTIES Settles
CHECK_DEADLOCK FALSE
