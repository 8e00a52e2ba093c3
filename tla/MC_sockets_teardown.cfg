\* Two connections: closing one socket resets the other.
CONSTANTS
    Threads = {c1, c2}
    Sockets = {s1, s2}
    MaxCalls = 4
    NoSocket = NoSocket
SPECIFICATION Spec
INVARIANT HeldSocketsAlive
\* A non-blocking connect that is refused leaves dx_connect in select for
\* good, so the system can stop with a thread blocked.
CHECK_DEADLOCK FALSE
