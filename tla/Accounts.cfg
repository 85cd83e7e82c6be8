SPECIFICATION Spec

CONSTANTS
    r1 = r1
    r2 = r2
    o1 = o1
    o2 = o2
    None = None
    Registrations = {r1, r2}
    Others = {o1, o2}
    Forms <- SomeForms
    MaxAttempts = 2
    MaxFaults = 2

SYMMETRY AnyOrder
CONSTRAINT FewFailuresWithAdmins

\* Requests are not repeated: the system may come to rest.
CHECK_DEADLOCK FALSE

INVARIANTS TypeOK UsersAreDistinct RefusedLeavesNoUser ActiveHasToken MailIsUnderWay
