SPECIFICATION Spec
CONSTANTS
    Node = {n1, n2}
    Root = Root
    Forum = {f1, f2}
    None = None
    Patience = 1
    Overlap = 1
    MaxTime = 3
SYMMETRY Symmetry
INVARIANTS ChangesReachClient MentionsReachClient
