SPECIFICATION Spec
CONSTANTS
    end_session_timers <- MCFineTimers
    Second = 2
    Date = {4, 8, 14}
    Step = {0, 1, 5}
    Work = {1, 3}
    Jump <- MCJump
    MaxTime = 16
    MaxDates = 2
    MaxJumps = 1
INVARIANTS NeverPastEnd EndDateReached EndIsDate WarningsCountDown
