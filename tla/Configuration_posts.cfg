\* Two requests in flight, logins and posts; members move; errors and restarts.
CONSTANTS
    brave = brave
    outside = outside
    Characters = {x}
    Corporations = {brave, outside}
    Alliance <- AllianceOf
    Configs <- SomeConfigs
    Browsers = {b1, b2}
    Requests = {r1, r2}
    None = None
SPECIFICATION Spec
SYMMETRY Symmetry
INVARIANTS TypeOK WhitelistHolds ConfigIsStored AdminsWereNamed
