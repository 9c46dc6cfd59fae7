\* A refresh request fills the channel before the goroutine sends on it.
CONSTANTS
    Admins = {a1}
    Readers = {}
    Ticker = Ticker
    Characters = {x1}
    None = None
SPECIFICATION FairSpec
PROPERTIES SignalIsHeeded
