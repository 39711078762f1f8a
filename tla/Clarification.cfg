SPECIFICATION Spec
CONSTANTS
    Absent = Absent
    Anything = Anything
    MaxPantryTerms = 5
    PantryWeight = 4
    Overfetch = 3
    RrfK = 60
    LegacyDataset = "food"
    Rank <- MCRank
    Clients = {c1, c2}
    MaxEntries = 1
    MaxReplans = 1
    MaxQuestions = 6
    MaxRequests = 2
    MaxGroups = 3
    MaxRevision = 4
    Given <- MCGiven
    Batches <- MCBatches
    Replies <- MCReplies
INVARIANTS
    TypeOK
    RevisionIdentifiesState
    StoreConsistent
PROPERTIES
    AnswersKept
    PublishedIsCurrent
SYMMETRY MCSymmetry
CHECK_DEADLOCK FALSE
