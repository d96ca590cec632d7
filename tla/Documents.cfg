SPECIFICATION Spec
CONSTANTS
    Node = {n1, n2, n3}
    Root = Root
    Doc = {d1, d2, d3, d4}
    None = None
SYMMETRY Symmetry
INVARIANTS TypeOK EffectIsNewest VersionCountsFamily ReplacementsEnd SupersededIsInHistory
PROPERTIES UploadSparesOthers
