SPECIFICATION Spec
CONSTANTS
    w1 = w1
    w2 = w2
    r1 = r1
    r2 = r2
    i1 = i1
    i2 = i2
    NoItem = NoItem
    NoOwner = NoOwner
    NoRecipe = NoRecipe
    Reaper = Reaper
    Operator = Operator
    Items = {i1}
    Workers = {w1, w2}
    Recipes = {NoRecipe, r1, r2}
    McRecipe2 = r2
    McOffset2 = 1
    RecipeOf <- McRecipeOf
    Offset <- McOffset
    BucketOf <- McBucketOf
    TTL = 2
    Skew = 1
    BucketCount = 1
    UseIndex = FALSE
    MaxClock = 2
    MaxAttempts = 2
INVARIANTS
    TypeOK
    ClaimExclusive
    BeliefTrue
    DoneHasArtifact
PROPERTIES
    TerminalStaysSettled
    LiveLeaseProtected
    AtomicOperations
CHECK_DEADLOCK FALSE
