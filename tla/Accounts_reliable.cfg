\* Two callbacks in flight, and nothing fails.
CONSTANTS
    seller = seller
    buyer = buyer
    other = other
    Identities = {seller, buyer, other}
    Character <- CharacterOf
    None = None
    Browsers = {b1, b2}
    Requests = {r1, r2}
    MaxLogins = 3
    MaxGrants = 2
    Faulty = FALSE
SPECIFICATION Spec
SYMMETRY Symmetry
INVARIANTS TokensAreNamed UserIsReachable SessionHasToon
CHECK_DEADLOCK FALSE   \* the logins of this instance are used up
