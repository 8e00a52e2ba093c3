\* One connection whose non-blocking connect is refused.
CONSTANTS
    Threads = {c1}
    Sockets = {s1, s2}
    MaxCalls = 2
    NoSocket = NoSocket
SPECIFICATION Spec
PROPERTY ConnectReturns
\* A non-blocking connect that is refused leaves dx_connect in select for
\* good, so the system can stop with a thread blocked.
CHECK_DEADLOCK FALSE
