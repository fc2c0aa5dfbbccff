SPECIFICATION Spec
CONSTANTS
    Interactive = {"selector"}
    Protocol = {"RDP"}
    MaxTargets = 1
    Request = {"sharing"}
    MaxRequests = 1
    MaxMsgs = 2
    Option = {"close_box"}
    Congestible = {"guest"}
    ModError = {"other"}
    Creation = {"ok"}
    Guests = TRUE
    TimersRace = TRUE
    LateFailure = TRUE
    MaxRetries = 0
INVARIANTS WaitingOutputSent
