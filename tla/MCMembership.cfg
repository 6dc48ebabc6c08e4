CONSTANTS
    ann = ann
    bob = bob
    cyd = cyd
    r1 = r1
    r2 = r2
    None = None
    Persons <- MCPersons
    Requests <- MCRequests
    Founder = ann
    AskedRoles <- MCAsked
    MaxStarts = 3
SPECIFICATION Spec
SYMMETRY MCSymmetry
INVARIANTS
    TypeOK
    AlwaysAnOwner
PROPERTIES
    JoinsAreInvited
    PrivilegeMovesByOwners
CHECK_DEADLOCK FALSE
