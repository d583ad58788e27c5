\* Two listings of two entities beside a state change, without a duplicated
\* completion and with the fault at each of its three triggers.
SPECIFICATION Spec
CONSTANTS
    l1 = l1
    l2 = l2
    e1 = e1
    e2 = e2
    v1 = v1
    v2 = v2
    Zero = Zero
    None = None
    Listers = {l1, l2}
    EntityList <- TwoEntities
    Values = {v1}
    Scenarios <- OneFaultOrNone
    MaxPushes = 1
SYMMETRY ListerSymmetry
INVARIANTS
    CleanListingComplete
    ListingIsSuffix
    RegistryComplete
    RegistryTracksDevice
