SPECIFICATION Spec
CONSTANTS
    Unset = Unset
    h1 = h1  h2 = h2
    IntMin <- MCIntMin
    IntMax = 2
    Hosts = {h1, h2}
    Asks <- MCAsks
    Schema <- MCSchema
    State <- MCState
    Ledgers <- MCLedgers
    RetentionDays = 1
    MaxDay = 2
    MaxAsks = 3
    MaxFaults = 2
INVARIANTS LedgerIsHonest EverySettingIsFound
PROPERTY LedgerIsKept
\* The caller may stop asking.
CHECK_DEADLOCK FALSE
