SPECIFICATION Spec
CONSTANTS
    b1 = b1
    b2 = b2
    b3 = b3
    Junk = Junk
    Other = Other
    User = {u}
    Blob = {b1, b2, b3}
    Size <- MCSize
    Limits <- MCLimits
    Uploads <- Nothing
    Archives <- All
    Legacy <- All
    MaxEdits = 2
INVARIANTS VerdictIsRight CompleteBackupRestores
