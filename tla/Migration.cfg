SPECIFICATION Spec
CONSTANTS
    s1 = s1
    s2 = s2
    s3 = s3
    f1 = f1
    f2 = f2
    Source = {s1, s2, s3}
    File = {f1, f2}
    Target <- MCTarget
    Migrator = {m1, m2, m3}
    None = None
    IOErrors = TRUE
SYMMETRY Symmetry
INVARIANTS OneMigrator NoHalfFiles AllOrNothing
