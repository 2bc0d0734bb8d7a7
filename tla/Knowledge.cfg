CONSTANTS
    A1 = A1
    A2 = A2
    P1 = P1
    P2 = P2
    P3 = P3
    F1 = F1
    Admins <- MCAdmins
    Patterns <- MCPatterns
    Facts <- MCFacts
    Order <- MCOrder
    Wordings <- MCWordings
    Rewordings <- MCRewordings
    Starts <- MCStarts
    Limits = {0, 1}
    BroadQueries = {"price"}
    Queries = {"open?"}
    M1 = M1
    M2 = M2
    Models <- MCModels
    Absent = Absent
    MaxScanned = 2
    MaxCandidates = 2
    MaxContexts = 2
    MaxCharacters = 3
    RankConstant = 60
    LexicalFloor = 1
    VectorFloor = 1
    RagSimilarity = 2
    MaxEvents = 3
SPECIFICATION KnowledgeSpec
INVARIANTS
  DirectIsUnambiguous
  EvidenceIsLive
  NoHiddenContradiction
PROPERTIES
  BackfillHeals
SYMMETRY Interchangeable
CHECK_DEADLOCK FALSE
