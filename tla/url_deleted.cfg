SPECIFICATION MCSpec
CONSTANTS
    Scanner = {a1}
    MaxFiles = 2
    MaxLosses = 1
    MaxDisturbances = 2
    Job = {j1, j2}
    Udev = udev
    View = view
    MaxInserts = 2
    MaxStops = 1
    Item = {f1, f2}
    NameOf <- MCNameOf
    Transfer = {t1, t2}
    MaxReruns = 1
    Patch = {p1, p2}
    VideoRequest = {r1, r2, r3}
    Video = {v1, v2}
CHECK_DEADLOCK FALSE
INVARIANTS
    SourceIsThere
