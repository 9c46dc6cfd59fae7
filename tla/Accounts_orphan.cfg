\* One callback at a time, but statements fail.
CONSTANTS
    seller = seller
    buyer = buyer
    other = other
    Identities = {seller, buyer, other}
    Character <- CharacterOf
    None = None
    Browsers = {b1}
    Requests = {r1}
    MaxLogins = 2
    MaxGrants = 0
    Faulty = TRUE
SPECIFICATION Spec
INVARIANT UserIsReachable
CHECK_DEADLOCK FALSE   \* the logins of this instance are used up
