SPECIFICATION Spec
CONSTANTS
    Interactive = {"selector"}
    Protocol = {"RDP"}
    MaxTargets = 2
    Request = {}
    MaxRequests = 0
    MaxMsgs = 2
    Option = {"close_box"}
    Congestible = {}
    ModError = {"other"}
    Creation = {"ok"}
    Guests = FALSE
    TimersRace = TRUE
    LateFailure = TRUE
    MaxRetries = 0
INVARIANTS AlternateLogOpen
