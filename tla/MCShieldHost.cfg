SPECIFICATION Spec
CONSTANTS
    Unset = Unset
    i1 = i1  i2 = i2  s1 = s1  s2 = s2  A = A  B = B
    d1 = d1  d2 = d2  r1 = r1  page = page
    IntMax = 2
    RingCapacity = 2
    ChunkBudget = 2
    Identities = {i1, i2}
    Sites = {s1, s2}
    Bundles <- MCBundles
    Strays <- MCStrays
    Offers <- MCOffers
    Hits <- MCHits
    Contexts <- MCContexts
    Postures <- MCPostures
    EventSizes = {1, 2}
    MaxTime = 3
    MaxCalls = 3
INVARIANTS EmittedIsAccepted SlotsFollowHistory RefusedToggleIsInForce ViewsAgree ChipTellsProtection GreedyMissesNothing
\* The caller may stop asking.
CHECK_DEADLOCK FALSE
