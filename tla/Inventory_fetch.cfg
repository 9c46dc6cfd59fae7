\* One fetch of two pages, with up to two changes to the listing.
CONSTANTS
    copy1 = copy1
    copy2 = copy2
    stack = stack
    researched = researched
    single = single
    elsewhere = elsewhere
    Blueprints <- Stock
    Quality <- QualityOf
    Type <- TypeOf
    Quantity <- QuantityOf
    InHangar = {copy1, copy2, stack, researched, single}
    Location <- LocationOf
    Listings <- AnyListing
    Before <- LastTrees
    AssetLists <- SomeAssets
    None = None
    PageSize = 2
    ChunkSize = 1
    MaxChanges = 2
SPECIFICATION FairSpec
INVARIANTS TypeOK NothingMissed NothingTwice FailsOnlyPersistently TotalsAgree NamesAreComplete ContainersAreNamed TreeIsComplete
PROPERTIES FetchEnds QuietFetchIsExact
CHECK_DEADLOCK FALSE   \* the fetch ends
