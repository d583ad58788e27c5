\* A listing on a client whose earlier listing timed out.
SPECIFICATION Spec
CONSTANTS
    l1 = l1
    l2 = l2
    e1 = e1
    e2 = e2
    v1 = v1
    v2 = v2
    Zero = Zero
    None = None
    Listers = {l1, l2}
    EntityList <- TwoEntities
    Values = {v1}
    Scenarios <- FaultFree
    MaxPushes = 0
SYMMETRY ListerSymmetry
INVARIANT ListingComplete
