SPECIFICATION FairSpec
CONSTANTS
    a1 = a1
    a2 = a2
    u1 = u1
    Accounts = {a1, a2}
    Urls = {u1}
    DraftLimit = 1
    SectionLimit = 2
    MaxRequests = 2
    MaxCommands = 0
    MaxRecords = 3
    MaxChanges = 1
    Asked = {"link", "section", "delete-link", "delete-section", "delete-empty"}
PROPERTIES
    DialogBusyEnds
    DeletesWhatWasShown
    OnlyOwnRecords
CHECK_DEADLOCK FALSE
