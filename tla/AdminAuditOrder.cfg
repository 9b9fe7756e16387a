SPECIFICATION Spec
CONSTANTS
    Calls = {c1}
    Sessions = {mine, theirs}
    Mine = {mine}
    Own = mine
    Nowhere = nowhere
    Asked = {"lock", "logout", "restart", "power off", "send message"}
    Allowed = {"lock", "logout", "restart"}
    RequireReauth = TRUE
    LogActions = TRUE
    NotifyUser = TRUE
PROPERTY
    LoggedBeforeControl
