SPECIFICATION FairSpec
CONSTANTS
    MaxSend = 3
    MaxBytes = 8
PROPERTIES IsByteStream WaitingIsSent
CHECK_DEADLOCK FALSE
