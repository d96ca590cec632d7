SPECIFICATION Spec
CONSTANTS
    b1 = b1
    b2 = b2
    u1 = u1
    u2 = u2
    r1 = r1
    r2 = r2
    p1 = p1
    p2 = p2
    None = None
    Blob = {b1, b2}
    User = {u1}
    Req = {r1, r2}
    Proc = {p1, p2}
    Host <- MCHost
    Uploads <- Singles
    Archives <- Nothing
    Legacy <- Nothing
    IOErrors = FALSE
INVARIANTS SavedContentStays
