\* One requisition, its owner and two workers, two requests in flight.
CONSTANTS
    Ids = {i1}
    Characters = {owner, w1, w2}
    Workers = {w1, w2}
    Requests = {r1, r2}
    NoRow = NoRow
    NoLock = NoLock
    NoCall = NoCall
SPECIFICATION Spec
INVARIANTS TypeOK ClosedByTheRightParty UndisturbedWrite ReplyIsTruthful
PROPERTIES HolderKeepsLock SettledIsFinal LedgerSpec
