\* Two handlers close one requisition.
CONSTANTS
    Ids = {i1}
    Characters = {owner, w1, w2}
    Workers = {w1, w2}
    Requests = {r1, r2}
    NoRow = NoRow
    NoLock = NoLock
    NoCall = NoCall
SPECIFICATION Spec
PROPERTIES OnlyOpenIsClosed
