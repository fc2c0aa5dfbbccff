SPECIFICATION Spec
CONSTANTS
    Interactive = {"selector"}
    Protocol = {"RDP"}
    MaxTargets = 3
    Request = {"sharing"}
    MaxRequests = 2
    MaxMsgs = 3
    Option = {"close_box"}
    Congestible = {"front"}
    ModError = {"mod_link"}
    Creation = {"ok", "error", "unknown"}
    Guests = TRUE
    TimersRace = TRUE
    LateFailure = FALSE
    MaxRetries = 0
INVARIANTS AssertionsHold NothingOutlivesTarget
