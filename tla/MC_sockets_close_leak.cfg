\* One connection closing a socket that is not connected.
CONSTANTS
    Threads = {c1}
    Sockets = {s1, s2}
    MaxCalls = 3
    NoSocket = NoSocket
SPECIFICATION Spec
INVARIANT NoLeakedSockets
\* A non-blocking connect that is refused leaves dx_connect in select for
\* good, so the system can stop with a thread blocked.
CHECK_DEADLOCK FALSE
