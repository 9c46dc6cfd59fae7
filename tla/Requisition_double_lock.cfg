\* A worker locks a requisition while its owner cancels it.
CONSTANTS
    Ids = {i1}
    Characters = {owner, w1}
    Workers = {w1}
    Requests = {r1, r2}
    NoRow = NoRow
    NoLock = NoLock
    NoCall = NoCall
SPECIFICATION Spec
PROPERTIES LockReplyMeansHeld
