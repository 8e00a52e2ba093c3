\* Two connection threads resolving, opening, connecting and closing sockets.
CONSTANTS
    Threads = {c1, c2}
    Sockets = {s1, s2}
    MaxCalls = 6
    NoSocket = NoSocket
SPECIFICATION Spec
INVARIANT TypeOK FlagImpliesStarted ConnectReportsConnection
\* A non-blocking connect that is refused leaves dx_connect in select for
\* good, so the system can stop with a thread blocked.
CHECK_DEADLOCK FALSE
