SPECIFICATION FairSpec
CONSTANTS
    None = None
    Polls = {1, 2}
    Symbols = {" ", "a", "A", "b", "-", "x", "id:"}
    Linked = {2}
    Drafts <- SomeDrafts
    MaxCalls = 2
INVARIANTS
    TypeOK
    ListIsStored
    ShownClosedIsClosed
    OnePollPerForm
PROPERTIES
    CrashesOverDeletedPolls
    PagesSettle
