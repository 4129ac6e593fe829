CONSTANTS
    Null = Null
    NProc = 2
    Tasks = {k1, k2, k3, k4}
    Proxies = {p1}
    Restricted = {k2, k3}
    Untied = {k1}
    InitialSize = 2
    PassLimit = 4
SPECIFICATION SafeSpec
INVARIANTS TasksQueuedOnce
PROPERTIES ImplementsPool ProxyIsQueued
CHECK_DEADLOCK FALSE
