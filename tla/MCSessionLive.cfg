SPECIFICATION FairSpec
CONSTANTS
    Interactive = {"selector"}
    Protocol = {"RDP"}
    MaxTargets = 1
    Request = {"disconnect"}
    MaxRequests = 1
    MaxMsgs = 2
    Option = {"close_box"}
    Congestible = {"front"}
    ModError = {"retry"}
    Creation = {"ok"}
    Guests = FALSE
    TimersRace = TRUE
    LateFailure = TRUE
    MaxRetries = 1
PROPERTIES AclLossEnds SilenceEnds
