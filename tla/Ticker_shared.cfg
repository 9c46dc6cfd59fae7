\* One refresh request at a time and two readers beside the goroutine; main ends.
CONSTANTS
    Admins = {a1}
    Readers = {g1, g2}
    Ticker = Ticker
    Characters = {x1, x2}
    None = None
SPECIFICATION FairSpec
INVARIANTS TypeOK OneTimerRuns ReaderSeesOneInventory OwnSendIsFree
PROPERTIES InventoryIsRefreshed StopsWhenTold ReadersAreServed RefreshTakesEffect DrainsUnlessSendIsLost
