CONSTANTS
    ta = ta
    tb = tb
    Tabs = {ta, tb}
    MaxCalls = 2
    Sends = {1, 2}
    MaxVersion = 2
    MaxFailures = 1
SPECIFICATION SpecApart
INVARIANTS Transparent NothingStale
PROPERTIES CallsEnd Recovers
CHECK_DEADLOCK FALSE
