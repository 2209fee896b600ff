SPECIFICATION Spec
CONSTANTS
    Window = 1
    RedisTimeout = 1
    Limits = {0, 1}
    MaxLimit = 1
    Second = 2
    MaxAge = 2
    MaxReloads = 2
    Static = Static
    Invalid = Invalid
    None = None
    r1 = r1
    r2 = r2
    m1 = m1
    m2 = m2
    m3 = m3
    p1 = p1
    p2 = p2
    a1 = a1
    a2 = a2
    Requests <- MCRequests
    Members <- MCMembers
    Places <- MCPlaces
    Admins <- MCAdmins
    Configs <- MCConfigs
SYMMETRY Symmetry
INVARIANTS RedisBounded LocalBounded RevokedStayOut OutdatedAreTold
PROPERTIES NewTokensEnter JudgedByCurrent
