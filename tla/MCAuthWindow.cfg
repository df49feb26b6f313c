CONSTANTS
    Ips = {ip1}
    MaxFailures = 3
    WindowLen = 1
    BanLen = 2
    MaxTracked = 1
    MaxTime = 4
SPECIFICATION HSpec
INVARIANT SlidingWindow
CHECK_DEADLOCK FALSE
