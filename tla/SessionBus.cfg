SPECIFICATION BusFairSpec
CONSTANTS
    Calls = {c1, c2}
    Sessions = {mine, theirs}
    Mine = {mine}
    Own = mine
    Nowhere = nowhere
    Asked = {"lock", "send message"}
    Allowed = {"lock"}
    RequireReauth = TRUE
    LogActions = TRUE
    NotifyUser = TRUE
INVARIANTS
    BusTypeOK
    LoggedMessagesArrived
PROPERTY
    UiComesBack
