\* Two callbacks in flight; statements fail, the process restarts.
CONSTANTS
    seller = seller
    buyer = buyer
    other = other
    Identities = {seller, buyer}
    Character <- CharacterOf
    None = None
    Browsers = {b1, b2}
    Requests = {r1, r2}
    MaxLogins = 3
    MaxGrants = 1
    Faulty = TRUE
SPECIFICATION Spec
SYMMETRY Symmetry
INVARIANTS TypeOK SessionInOwnAccount ScopeHasItsToken
PROPERTY StateUsedOnce
CHECK_DEADLOCK FALSE   \* the logins of this instance are used up
