SPECIFICATION Spec
SYMMETRY Symmetry
CONSTANTS
    Clients = {c1, c2}
    p1 = p1
    p2 = p2
    q1 = q1
    q2 = q2
    q3 = q3
    Procs = {p1, p2}
    Signatures = {s1, s2, s3}
    Good = {s1, s2}
    Absent = Absent
    Statements = {q1, q2, q3}
    Calls <- MCCalls
    NoAnalysis = NoAnalysis
    MaxCached = 2
INVARIANT TypeOK
INVARIANT FreshUnlessOverlapped
