SPECIFICATION FairSpec
CONSTANTS
    left = left  right = right  ann = ann
    None = None
    Tabs = {left, right}
    Emails = {ann}
    MaxUsers = 2
    MaxCalls = 2
INVARIANTS
    TypeOK
    ShowsWhoItActsAs
    OneAccountPerEmail
PROPERTIES
    NewTokensSurvive
    SpinnerEnds
    SubmitEnds
