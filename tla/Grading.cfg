SPECIFICATION Spec
CONSTANTS
    None = None
    Kinds <- MCKinds
    Stamps = {0, 1000, 1040, 2041}
    MaxEvents = 3
INVARIANTS
    TypeOK
    FreshListsGraded
    GrantsAreTopBids
    QuarantinesHaveMajority
PROPERTIES
    FailuresStick
\* A scenario has finitely many rounds; its log ends.
CHECK_DEADLOCK FALSE
