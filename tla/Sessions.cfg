SPECIFICATION Spec

CONSTANTS
    l1 = l1
    r1 = r1
    r2 = r2
    r3 = r3
    o1 = o1
    o2 = o2
    NoToken = NoToken
    Logins = {l1}
    Rotations = {r1, r2, r3}
    Others = {o1, o2}
    MaxFaults = 1

SYMMETRY AnyOrder

\* Requests are not repeated: the system may come to rest.
CHECK_DEADLOCK FALSE

INVARIANTS TypeOK SessionInv TokenUsedOnce
PROPERTY SessionsAreFamilies
