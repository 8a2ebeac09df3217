SPECIFICATION Spec
CONSTANTS
    Unset = Unset
    shield = shield  fortress = fortress  reset = reset  extra = extra
    k1 = k1  k2 = k2  f11 = f11  s1 = s1  s2 = s2  i1 = 1
    Identities = {1, 2}
    MaxTier1 = 1
    Reserved = {f11}
    Roster <- MCRoster
    Initial <- MCInitial
    Requests <- MCRequests
    MaxRequests = 3
    MaxFaults = 2
INVARIANTS LockoutHasACause PromisedStaysBound DialTakesEffect PaletteRanksWell
PROPERTY DialsStayApart
\* The caller may stop asking.
CHECK_DEADLOCK FALSE
