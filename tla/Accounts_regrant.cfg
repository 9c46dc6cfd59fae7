\* One callback at a time; EVE revokes a token.
CONSTANTS
    seller = seller
    buyer = buyer
    other = other
    Identities = {seller, buyer, other}
    Character <- CharacterOf
    None = None
    Browsers = {b1}
    Requests = {r1}
    MaxLogins = 4
    MaxGrants = 2
    Faulty = FALSE
SPECIFICATION Spec
PROPERTY GrantIsUsable
CHECK_DEADLOCK FALSE   \* the logins of this instance are used up
