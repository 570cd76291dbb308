SPECIFICATION Spec
CONSTANTS
    a1 = a1
    a2 = a2
    u1 = u1
    Accounts = {a1, a2}
    Urls = {u1}
    DraftLimit = 1
    SectionLimit = 2
    MaxRequests = 2
    MaxCommands = 2
    MaxRecords = 3
    MaxChanges = 0
    Asked = {"link", "delete-link", "delete-section", "delete-empty"}
SYMMETRY Symmetry
INVARIANTS
    NoSecondBookmark
PROPERTIES
    CommandsStayGranted
    LinksKeepConfirmation
CHECK_DEADLOCK FALSE
