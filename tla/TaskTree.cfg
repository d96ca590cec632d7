SPECIFICATION Spec
CONSTANTS
    Node = {n1, n2, n3}
    Forum = {f1, f2}
    General = f1
    Root = Root
SYMMETRY NodeSymmetry
CONSTRAINT Bounds
INVARIANTS TypeOK Rooted RepliesShareForum ForumsExist CheckedIsTracked ExportIsExact
INVARIANTS OnItsForumsPage WalksAgree HiddenIsRestorable
PROPERTIES HiddenUntilRestored TitlesStay OnlyDeletionHides
