SPECIFICATION Spec
CONSTANTS
    Node = {n1, n2}
    Root = Root
    Doc = {d1, d2, d3}
    None = None
SYMMETRY Symmetry
INVARIANTS BelowDescends
