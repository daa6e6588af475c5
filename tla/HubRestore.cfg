SPECIFICATION Spec
CONSTANTS
    Keys = {k1, k2}
    Sessions = {s1}
    MaxRestores = 1
    None = None
SYMMETRY Symmetry
INVARIANTS TypeOK FilesFollowRows SessionsAreOfThisEra PeersFollowRows
