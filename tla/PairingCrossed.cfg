SPECIFICATION Spec
CONSTANTS
    a = a
    b = b
    Nodes = {a, b}
    Sessions = {s1, s2}
    None = None
    Rank <- MCRank
    Discovers <- MCDiscovers
    Answers <- MCAnswers
    Faults = {"restart", "late_save"}
    Slots = 1
CHECK_DEADLOCK FALSE
INVARIANTS
    TrustNeedsBothUsers
    CodesAgree
    FailuresAreReal
    NoVainWait
SYMMETRY
    MCSymmetry
