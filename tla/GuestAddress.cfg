SPECIFICATION Spec
CONSTANTS
    Leases = {a1, a2}
    Private = private
    LinkLocal = linklocal
    NoIp = noip
    MaxTries = 1
    MaxCalls = 2
    MaxChanges = 4
INVARIANT
    TypeOK
PROPERTY
    CallEnds
\* The last call has ended.
CHECK_DEADLOCK FALSE
