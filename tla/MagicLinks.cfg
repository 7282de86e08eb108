SPECIFICATION Spec
CONSTANTS
    Links <- MCLinks
    Exchanges = {e1, e2}
    Workers = {w1}
    Nobody = Nobody
    MaximumAttempts = 2
    Clock <- MCClock
    MaxClaims = 1
SYMMETRY ExchangeSymmetry
INVARIANTS
    TypeOK
    OneSessionPerLink
    FirstPresentedWins
    ReplacementIsOnItsWay
    GrantFollowsLink
    ConsumedIsUsedOrReleased
CHECK_DEADLOCK FALSE
