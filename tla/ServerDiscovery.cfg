\* One server more than the bounded cache holds.
CONSTANTS
    c1 = c1
    c2 = c2
    s1 = s1
    s2 = s2
    s3 = s3
    Callers = {c1, c2}
    Servers = {s1, s2, s3}
    MaxEntries = 2
    Ttl = 2
    Timeout = 2
    MaxTime = 5
SPECIFICATION Spec
SYMMETRY Symmetric
INVARIANTS
    CacheStaysBounded
    RecordsAreFresh
PROPERTY LiveEntriesKept
