SPECIFICATION FairSpec
CONSTANTS
    w1 = w1
    w2 = w2
    r1 = r1
    r2 = r2
    i1 = i1
    i2 = i2
    NoItem = NoItem
    NoOwner = NoOwner
    NoRecipe = NoRecipe
    Reaper = Reaper
    Operator = Operator
    Items = {i1}
    Workers = {w1}
    Recipes = {NoRecipe, r1, r2}
    McRecipe2 = r2
    McOffset2 = 0
    RecipeOf <- McRecipeOf
    Offset <- McOffset
    BucketOf <- McBucketOf
    TTL = 1
    Skew = 0
    BucketCount = 2
    UseIndex = TRUE
    MaxClock = 2
    MaxAttempts = 2
PROPERTIES
    IndexedRecovered
    ExpiredRecovered
CHECK_DEADLOCK FALSE
