\* One request at a time: nothing overtakes a handler but the clock and a restart.
CONSTANTS
    Ids = {i1, i2}
    Characters = {owner, w1, w2}
    Workers = {w1, w2}
    Requests = {r1}
    NoRow = NoRow
    NoLock = NoLock
    NoCall = NoCall
SPECIFICATION Spec
PROPERTIES OnlyOpenIsClosed LockReplyMeansHeld OnlyHolderUnlocks
