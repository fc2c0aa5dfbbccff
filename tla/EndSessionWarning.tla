-------------------------- MODULE EndSessionWarning --------------------------
(***************************************************************************)
(* The end of the time frame of a session: the class EndSessionWarning of  *)
(* src/core/session_events.cpp and its use in the main loop.  The manager  *)
(* gives a date of the wall clock; the process turns it into an instant of *)
(* the monotonic clock, warns the user when a few delays are left, and     *)
(* ends the session at the date.  After each select the loop compares how  *)
(* far both clocks went and moves the end when they differ.                *)
(*                                                                         *)
(* clock and wall are the clocks; the loop works with a copy of them, the  *)
(* time base now and real.  It is taken when select returns, when a date   *)
(* comes, when a target is started and after the pause before a retry.     *)
(* NextDelay, just before the wait, refreshes the monotonic half only, so  *)
(* a long iteration, or a wait that a signal interrupted, leaves the other *)
(* half behind: the next comparison takes it for a set clock.              *)
(***************************************************************************)
EXTENDS Integers, Sequences, FiniteSets

CONSTANTS
    end_session_timers, \* the delays left at which the user is warned, ascending
    Second,             \* the resolution of the code, in units of the model
    Date,               \* dates the manager may send (wall clock)
    Step,               \* durations of one wait in select
    Work,               \* durations of the work between two readings of the clocks
    Jump,               \* changes of the wall clock
    MaxTime,            \* bound: last instant of the monotonic clock
    MaxDates,           \* bound: dates sent
    MaxJumps            \* bound: changes of the wall clock

ASSUME WarningAssumption ==
    /\ end_session_timers \in Seq(Nat \ {0})
    /\ Len(end_session_timers) > 0
    /\ \A i, j \in 1..Len(end_session_timers) :
           i < j => end_session_timers[i] < end_session_timers[j]
    /\ Second \in Nat \ {0}
    /\ Date \subseteq Int /\ Step \subseteq Nat /\ Work \subseteq Nat /\ Jump \subseteq Int
    /\ MaxTime \in Nat /\ MaxDates \in Nat /\ MaxJumps \in Nat

VARIABLES
    pc,           \* "select", "acl", "events" or "closed"
    clock,        \* the monotonic clock
    wall,         \* the wall clock
    now,          \* time base: the monotonic clock
    real,         \* time base: the wall clock
    end_date,     \* the last date received
    timer_event,  \* the event exists
    trigger_time, \* of the event
    timer_close,  \* the end on the monotonic clock
    last_delay,   \* the delay left to announce, 0 if none
    announced,    \* history: the last delay announced for this date, 0 if none
    steady,       \* history: since the date came, nobody set the wall clock and
                  \* no NextDelay came a second after the last full reading
    set_back,     \* history: the wall clock was set back since the date came
    dates,        \* how many dates were received
    jumps         \* how often the wall clock was changed

base == <<now, real>>
timer == <<timer_event, trigger_time, timer_close, last_delay>>
vars == <<pc, clock, wall, base, end_date, timer, announced, steady, set_back, dates,
          jumps>>

Timers == {end_session_timers[i] : i \in 1..Len(end_session_timers)}
first == end_session_timers[1]
back == end_session_timers[Len(end_session_timers)]

(* Type invariant: the monotonic half of the time base follows the time that
   passes, whatever is done to the wall clock. *)
TypeOK ==
    /\ pc \in {"select", "acl", "events", "closed"}
    /\ clock \in 0..MaxTime /\ now \in 0..MaxTime
    /\ wall \in Int /\ real \in Int /\ end_date \in Int
    /\ timer_event \in BOOLEAN
    /\ trigger_time \in Int /\ timer_close \in Int
    /\ last_delay \in Int /\ announced \in Int
    /\ steady \in BOOLEAN /\ set_back \in BOOLEAN
    /\ dates \in 0..MaxDates /\ jumps \in 0..MaxJumps

Init ==
    /\ pc = "select"
    /\ clock = 0 /\ wall = 0 /\ now = 0 /\ real = 0 /\ end_date = 0
    /\ timer_event = FALSE /\ trigger_time = 0 /\ timer_close = 0
    /\ last_delay = 0 /\ announced = 0
    /\ steady = TRUE /\ set_back = FALSE
    /\ dates = 0 /\ jumps = 0

----------------------------------------------------------------------------
\* The largest delay below e; the caller makes sure there is one.
TimerBelow(e) == CHOOSE t \in Timers : t < e /\ \A u \in Timers : u < e => u <= t
TimerFrom(e) == IF \E t \in Timers : t >= e
                THEN CHOOSE t \in Timers : t >= e /\ \A u \in Timers : u >= e => t <= u
                ELSE back

\* next_timeout(n) for an end at close: when to wake up next.
next_timeout_same(close, n) ==  \* *timepos instead of *(timepos-1)
    IF close - n <= first THEN close ELSE close - TimerFrom(close - n)
next_timeout(close, n) ==
    IF close - n <= first THEN close ELSE close - TimerBelow(close - n)

\* set_time(close) at the instant n: the new trigger and the delay to announce.
set_time_after(close, n) ==  \* the last delay is added instead of subtracted
    IF close <= n THEN [trigger |-> n, delay |-> 0]
    ELSE IF close - n <= back
         THEN [trigger |-> next_timeout(close, n), delay |-> close - n]
         ELSE [trigger |-> close + back, delay |-> 0]
set_time(close, n) ==
    IF close <= n THEN [trigger |-> n, delay |-> 0]
    ELSE IF close - n <= back
         THEN [trigger |-> next_timeout(close, n), delay |-> close - n]
         ELSE [trigger |-> close - back, delay |-> 0]

Arm(close, n) ==
    /\ timer_close' = close
    /\ timer_event' = TRUE
    /\ trigger_time' = set_time(close, n).trigger
    /\ last_delay' = set_time(close, n).delay

Abs(x) == IF x < 0 THEN -x ELSE x

\* The loop takes the wall clock for set when it went a second further.
JumpDetectedAlways(real_elapsed, monotonic_elapsed) ==  \* no tolerance
    Abs(real_elapsed) >= monotonic_elapsed
JumpDetected(real_elapsed, monotonic_elapsed) ==
    Abs(real_elapsed) >= monotonic_elapsed + Second

\* d passes, and somebody sets the wall clock by j meanwhile.
Pass(d, j) ==
    /\ clock + d <= MaxTime
    /\ j # 0 => jumps < MaxJumps
    /\ clock' = clock + d
    /\ wall' = wall + d + j
    /\ jumps' = IF j = 0 THEN jumps ELSE jumps + 1
    /\ set_back' = (set_back \/ j < 0)

\* The time the code takes, a blocking connection included.
Elapse ==
    /\ pc # "closed"
    /\ \E w \in Work, j \in Jump :
           Pass(w, j) /\ steady' = (steady /\ j = 0)
    /\ UNCHANGED <<pc, base, end_date, timer, announced, dates>>

\* The monotonic half of the time base in select.  nodelay: data is pending in
\* a TLS buffer, select does not wait and NextDelay leaves the time base alone.
NextDelay(nodelay) == IF nodelay THEN now ELSE clock

Waits(d, j, nodelay) ==
    /\ nodelay => d = 0
    /\ Pass(d, j)
    /\ steady' = (steady /\ j = 0 /\ (nodelay \/ wall - real < Second))

\* select returns: the time base is read and compared with the last one.
Select ==
    /\ pc = "select"
    /\ \E d \in Step, j \in Jump, nodelay \in BOOLEAN :
       LET monotonic_elapsed == (clock + d) - NextDelay(nodelay)
           real_elapsed == (wall + d + j) - real
       IN  /\ Waits(d, j, nodelay)
           /\ now' = clock + d
           /\ real' = wall + d + j
           /\ IF timer_event /\ JumpDetected(real_elapsed, monotonic_elapsed)
              THEN Arm(timer_close + real_elapsed, clock + d)      \* add_delay
              ELSE UNCHANGED timer
    /\ pc' = "acl"
    /\ UNCHANGED <<end_date, announced, dates>>

\* A signal interrupts select (EINTR): the loop starts again at once, with only
\* what NextDelay refreshed.
SelectInterrupted ==
    /\ pc = "select"
    /\ \E d \in Step, j \in Jump, nodelay \in BOOLEAN :
           Waits(d, j, nodelay) /\ now' = NextDelay(nodelay)
    /\ UNCHANGED <<pc, real, end_date, timer, announced, dates>>

\* The whole time base is read and compared with nothing: a target is started,
\* or the pause before a retry is over.
SetTimeBase ==
    /\ pc = "select"
    /\ now' = clock
    /\ real' = wall
    /\ UNCHANGED <<pc, clock, wall, end_date, timer, announced, steady, set_back,
                   dates, jumps>>

\* The manager sends a date, or takes it back.
AclEndDate ==
    /\ pc = "acl"
    /\ dates < MaxDates
    /\ dates' = dates + 1
    /\ announced' = 0
    /\ \/ /\ \E e \in Date : end_date' = e /\ Arm(clock + (e - wall), clock)
          /\ now' = clock
          /\ real' = wall
          /\ steady' = TRUE
          /\ set_back' = FALSE
       \/ /\ timer_event' = FALSE /\ last_delay' = 0       \* reset
          /\ UNCHANGED <<end_date, timer_close, trigger_time, base, steady, set_back>>
    /\ pc' = "events"
    /\ UNCHANGED <<clock, wall, jumps>>

AclQuiet ==
    /\ pc = "acl"
    /\ pc' = "events"
    /\ UNCHANGED <<clock, wall, base, end_date, timer, announced, steady, set_back,
                   dates, jumps>>

Due == timer_event /\ trigger_time <= now

\* execute_events: the callback throws at the end, else waits for the next
\* delay.  It goes by the instant it was due, not by the clock.
EndReachedAtWarning ==  \* the end is not looked at
    /\ pc = "events"
    /\ Due
    /\ timer_event' = FALSE
    /\ pc' = "closed"
    /\ UNCHANGED <<clock, wall, base, end_date, trigger_time, timer_close,
                   last_delay, announced, steady, set_back, dates, jumps>>
EndReached ==
    /\ pc = "events"
    /\ Due /\ trigger_time >= timer_close
    /\ timer_event' = FALSE
    /\ pc' = "closed"
    /\ UNCHANGED <<clock, wall, base, end_date, trigger_time, timer_close,
                   last_delay, announced, steady, set_back, dates, jumps>>

\* update_warning, at the end of the iteration, if the front is up.
Announce(delay) ==
    \/ /\ announced' = IF delay = 0 THEN announced ELSE delay
       /\ last_delay' = 0
    \/ /\ last_delay' = delay
       /\ UNCHANGED announced

Warn ==
    /\ pc = "events"
    /\ Due /\ trigger_time < timer_close
    /\ trigger_time' = next_timeout(timer_close, trigger_time + Second)
    /\ Announce(timer_close - (trigger_time + Second))
    /\ pc' = "select"
    /\ UNCHANGED <<clock, wall, base, end_date, timer_event, timer_close, steady,
                   set_back, dates, jumps>>

NotDue ==
    /\ pc = "events"
    /\ ~Due
    /\ Announce(last_delay)
    /\ pc' = "select"
    /\ UNCHANGED <<clock, wall, base, end_date, timer_event, trigger_time, timer_close,
                   steady, set_back, dates, jumps>>

Closed == pc = "closed" /\ UNCHANGED vars

Next == \/ Elapse \/ Select \/ SelectInterrupted \/ SetTimeBase
        \/ AclEndDate \/ AclQuiet \/ EndReached \/ Warn \/ NotDue \/ Closed

Spec == Init /\ [][Next]_vars

----------------------------------------------------------------------------
(* The event never sleeps past the end of the session: it is due now or set
   for the end at the latest, whatever dates came, however late a pass was and
   however the clocks moved (set_time, next_timeout, add_delay). *)
NeverPastEnd == timer_event => trigger_time <= timer_close \/ trigger_time <= now

(* The warnings count down: once a delay was announced, the event is set for
   less time than that before the end, until the manager sends another date, as
   long as the clocks were steady: nobody set the wall clock, and less than a
   second lay between a full reading of the clocks and the next NextDelay.  So no
   warning comes twice, however late the user or the pass was (next_timeout looks
   past the delay just announced). *)
WarningsCountDown ==
    timer_event /\ announced # 0 /\ steady
        => timer_close - trigger_time < announced

(* ERR_SESSION_CLOSE_ENDDATE_REACHED is raised when the wall clock has reached
   the date the manager gave, not before, unless the wall clock was set back
   since the date came: slow iterations, interrupted waits and a clock set
   forward only move the end away (EndSessionWarning, add_delay).  A clock set
   back is excepted because the loop adds how far the wall clock went where the
   end ought to move the other way. *)
EndDateReached == pc = "closed" /\ ~set_back => wall >= end_date

(* The end on the monotonic clock is the date the manager gave, which is what
   the user was told: "Your session will close at %s" (sesmanconf.py), as long as
   the clocks were steady since that date came: nobody set the wall clock, and
   less than a second lay between a full reading of the clocks and the next
   NextDelay.  After a longer iteration, or a longer wait that a signal
   interrupted, the loop takes the time that passed for a set clock and moves the
   end by it; that case is excepted. *)
EndIsDate == timer_event /\ steady => timer_close - clock = end_date - wall
=============================================================================
