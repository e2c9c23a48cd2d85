SPECIFICATION Spec
CONSTANTS
    None = None
    Polls = {1, 2}
    Symbols = {" ", "a", "A", "b", "-", "x", "id:"}
    Linked = {2}
    Drafts <- EdgeDrafts
    MaxCalls = 2
INVARIANT OptionIdsUnique
