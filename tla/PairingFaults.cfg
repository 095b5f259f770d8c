SPECIFICATION FairSpec
CONSTANTS
    a = a
    b = b
    Nodes = {a, b}
    Sessions = {s1}
    None = None
    Rank <- MCRank
    Discovers <- MCDiscovers
    Answers <- MCAnswers
    Faults = {"restart", "timeout", "late_save", "save", "io", "listener"}
    Slots = 1
CHECK_DEADLOCK FALSE
PROPERTIES
    SessionsEnd
