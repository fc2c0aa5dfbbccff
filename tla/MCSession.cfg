SPECIFICATION Spec
CONSTANTS
    Interactive = {"login", "selector"}
    Protocol = {"RDP", "VNC"}
    MaxTargets = 1
    Request = {"disconnect", "end_date", "inactivity", "rejected", "other"}
    MaxRequests = 1
    MaxMsgs = 2
    Option = {"close_box", "auto_reconnect", "shortcut", "retry_without_probe", "redirection"}
    Congestible = {"front", "mod"}
    ModError = {"probe_launch", "rail", "reconnect", "redir", "mod_link", "other"}
    Creation = {"ok", "error", "unknown"}
    Guests = FALSE
    TimersRace = TRUE
    LateFailure = TRUE
    MaxRetries = 1
INVARIANTS AssertionsHold NothingOutlivesTarget TargetSupervised DisconnectObeyed SessionWatched
