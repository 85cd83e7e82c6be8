SPECIFICATION Spec

CONSTANTS
    l1 = l1
    r1 = r1
    o1 = o1
    NoToken = NoToken
    Logins = {l1}
    Rotations = {r1}
    Others = {o1}
    MaxFaults = 0

\* Requests are not repeated: the system may come to rest.
CHECK_DEADLOCK FALSE

INVARIANT PasswordChangeEndsSessions
