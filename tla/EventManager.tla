---------------------------- MODULE EventManager ----------------------------
(***************************************************************************)
(* The event engine of a session process: EventManager, EventContainer,    *)
(* EventsGuard and EventRef of src/core/events.hpp.                        *)
(*                                                                         *)
(* Every timer and every watched descriptor of a session is an Event in    *)
(* one queue.  The main loop waits in select, then makes one pass over the *)
(* queue (execute_events).  The callbacks of the events run inside the     *)
(* pass, and they may create events, re-arm or release events, destroy     *)
(* the owner of events - their own included - or throw.  Released events   *)
(* are only marked; the collector deletes them at the end of a pass, by    *)
(* swapping the last event into the hole.                                  *)
(*                                                                         *)
(* The client code (modules, front, ACL, OSD) is any sequence of calls of  *)
(* the interface, made outside of a pass or inside of a callback.          *)
(***************************************************************************)
EXTENDS Integers, Sequences, FiniteSets, FiniteSetsExt, Functions

CONSTANTS
    Event,      \* addresses of events; the address of a deleted one is reused
    Ref,        \* EventRef objects
    Owner,      \* lifespan handles (EventsGuard objects)
    Fd,         \* socket descriptors
    MaxTime,    \* bound: last instant of the monotonic clock
    Grace,      \* grace delays given to create_event_fd_timeout
    MaxThrows,  \* bound: exceptions that leave a pass
    NoEvent,    \* nullptr of type Event*
    NoRef,      \* nullptr of type EventRef*
    NoFd,       \* INVALID_SOCKET
    NoOwner     \* the owner of an event that does not exist

\* The clock starts at 1: 0 is next_timeout's "no alarm is set".
Time == 1..MaxTime

ASSUME NullAssumption == /\ NoEvent \notin Event
                         /\ NoRef \notin Ref
                         /\ NoFd \notin Fd
                         /\ NoOwner \notin Owner
ASSUME TimeAssumption == /\ MaxTime \in Nat \ {0}
                         /\ Grace \subseteq Nat
                         /\ MaxThrows \in Nat

VARIABLES
    queue,        \* Creator::queue, the events in the order of a pass
    garbage,      \* Event::garbage
    active_timer, \* Event::active_timer
    trigger_time, \* Event::trigger_time
    grace_delay,  \* Event::grace_delay
    fd,           \* Event::fd
    lifespan,     \* Event::lifespan_handle
    event_ref,    \* Event::event_ref, the way back to the EventRef
    event,        \* EventRef::event_, one per EventRef
    now,          \* the time base of the container
    ready,        \* descriptors select reported readable
    pc,           \* where the process is, see Phase
    i, iend,      \* index and bound of the loop (1-based)
    has_garbage,  \* local of execute_events
    running,      \* event whose callback runs, or NoEvent
    gone,         \* owners that were destroyed
    touched,      \* history: events created or called in this pass
    throws        \* history: exceptions so far

attrs == <<garbage, active_timer, trigger_time, grace_delay, fd, lifespan>>
links == <<event_ref, event>>
pass  == <<pc, i, iend, has_garbage, running, ready>>
vars  == <<queue, attrs, links, now, pass, gone, touched, throws>>

\* idle: before select; selected: between select and the pass (front and
\* ACL handlers); scan: between two events of the pass; callback: inside
\* exec_action or exec_timeout; collect: in garbage_collector.
Phase == {"idle", "selected", "scan", "callback", "collect"}

Live == Range(queue)

HasEvent(r) == event[r] # NoEvent /\ ~garbage[event[r]]

\* An address without an event has the attributes of a new Event; the code
\* never reads them.
Init ==
    /\ queue = <<>>
    /\ garbage = [e \in Event |-> FALSE]
    /\ active_timer = [e \in Event |-> FALSE]
    /\ trigger_time = [e \in Event |-> 1]
    /\ grace_delay = [e \in Event |-> 0]
    /\ fd = [e \in Event |-> NoFd]
    /\ lifespan = [e \in Event |-> NoOwner]
    /\ event_ref = [e \in Event |-> NoRef]
    /\ event = [r \in Ref |-> NoEvent]
    /\ now = 1
    /\ ready = {}
    /\ pc = "idle"
    /\ i = 1 /\ iend = 0
    /\ has_garbage = FALSE
    /\ running = NoEvent
    /\ gone = {}
    /\ touched = {}
    /\ throws = 0

-----------------------------------------------------------------------------
(* The interface, called by the handlers of the loop and by callbacks.     *)

ClientRuns == pc \in {"idle", "selected", "callback"}

\* operator=(Event&) of EventRef r, or no EventRef at all (r = NoRef): the
\* event r held before is released, then r and the new event e point at
\* each other.
RefAssign(r, e) ==
    LET old == IF r = NoRef THEN NoEvent ELSE event[r] IN
    /\ garbage' = [x \in Event |-> IF x = e THEN FALSE
                                   ELSE garbage[x] \/ x = old]
    /\ event_ref' = [x \in Event |-> IF x = e THEN r
                                     ELSE IF x = old THEN NoRef
                                     ELSE event_ref[x]]
    /\ event' = [s \in Ref |-> IF s = r THEN e ELSE event[s]]

\* make_event and push_back, with the EventRef the result is assigned to.
NewEvent(e, o, r) ==
    /\ ClientRuns
    /\ e \in Event \ Live
    /\ o \notin gone
    /\ queue' = Append(queue, e)
    /\ RefAssign(r, e)
    /\ lifespan' = [lifespan EXCEPT ![e] = o]
    /\ touched' = IF pc = "callback" THEN touched \cup {e} ELSE touched
    /\ UNCHANGED <<now, pass, gone, throws>>

CreateEventTimeout(e, o, r, t) ==
    /\ NewEvent(e, o, r)
    /\ fd' = [fd EXCEPT ![e] = NoFd]
    /\ grace_delay' = [grace_delay EXCEPT ![e] = 0]
    /\ active_timer' = [active_timer EXCEPT ![e] = TRUE]
    /\ trigger_time' = [trigger_time EXCEPT ![e] = t]

CreateEventFdWithoutTimeout(e, o, r, f) ==
    /\ NewEvent(e, o, r)
    /\ fd' = [fd EXCEPT ![e] = f]
    /\ grace_delay' = [grace_delay EXCEPT ![e] = 0]
    /\ active_timer' = [active_timer EXCEPT ![e] = FALSE]
    /\ trigger_time' = [trigger_time EXCEPT ![e] = 1]

CreateEventFdTimeout(e, o, r, f, g, t) ==
    /\ NewEvent(e, o, r)
    /\ fd' = [fd EXCEPT ![e] = f]
    /\ grace_delay' = [grace_delay EXCEPT ![e] = g]
    /\ active_timer' = [active_timer EXCEPT ![e] = TRUE]
    /\ trigger_time' = [trigger_time EXCEPT ![e] = t]

\* Mutant: arming an event also revives it.
SetTimeoutRevives(e, t) ==
    /\ ClientRuns
    /\ e = running \/ \E r \in Ref : HasEvent(r) /\ event[r] = e
    /\ garbage' = [garbage EXCEPT ![e] = FALSE]
    /\ active_timer' = [active_timer EXCEPT ![e] = TRUE]
    /\ trigger_time' = [trigger_time EXCEPT ![e] = t]
    /\ UNCHANGED <<queue, grace_delay, fd, lifespan, links, now, pass,
                   gone, touched, throws>>

\* Event::set_timeout, on the event of an EventRef that has one or on the
\* event a callback received.  add_timeout_delay is a set_timeout too.
SetTimeout(e, t) ==
    /\ ClientRuns
    /\ e = running \/ \E r \in Ref : HasEvent(r) /\ event[r] = e
    /\ active_timer' = [active_timer EXCEPT ![e] = TRUE]
    /\ trigger_time' = [trigger_time EXCEPT ![e] = t]
    /\ UNCHANGED <<queue, garbage, grace_delay, fd, lifespan, links, now, pass,
                   gone, touched, throws>>

\* A callback writes event.garbage = true; the EventRef is not told.
MarkGarbage ==
    /\ pc = "callback"
    /\ garbage' = [garbage EXCEPT ![running] = TRUE]
    /\ UNCHANGED <<queue, active_timer, trigger_time, grace_delay, fd, lifespan,
                   links, now, pass, gone, touched, throws>>

\* EventRef::garbage, and the destructor of EventRef.
RefGarbage(r) ==
    /\ ClientRuns
    /\ event[r] # NoEvent
    /\ garbage' = [garbage EXCEPT ![event[r]] = TRUE]
    /\ event_ref' = [event_ref EXCEPT ![event[r]] = NoRef]
    /\ event' = [event EXCEPT ![r] = NoEvent]
    /\ UNCHANGED <<queue, active_timer, trigger_time, grace_delay, fd, lifespan,
                   now, pass, gone, touched, throws>>

\* operator=(EventRef&&): r releases its event and takes the one of s.
RefMove(r, s) ==
    /\ ClientRuns
    /\ event[r] # event[s]
    /\ garbage' = [x \in Event |-> garbage[x] \/ x = event[r]]
    /\ event_ref' = [x \in Event |-> IF x = event[s] THEN r
                                     ELSE IF x = event[r] THEN NoRef
                                     ELSE event_ref[x]]
    /\ event' = [event EXCEPT ![r] = event[s], ![s] = NoEvent]
    /\ UNCHANGED <<queue, active_timer, trigger_time, grace_delay, fd, lifespan,
                   now, pass, gone, touched, throws>>

\* end_of_lifespan from the destructor of EventsGuard o.
EndOfLifespan(o) ==
    /\ ClientRuns
    /\ o \notin gone
    /\ garbage' = [x \in Event |-> garbage[x] \/ (x \in Live /\ lifespan[x] = o)]
    /\ gone' = gone \cup {o}
    /\ UNCHANGED <<queue, active_timer, trigger_time, grace_delay, fd, lifespan,
                   links, now, pass, touched, throws>>

-----------------------------------------------------------------------------
(* The loop.                                                               *)

\* Mutant: the latest alarm.
next_timeout_latest ==
    LET alarms == {trigger_time[e] : e \in {x \in Live : active_timer[x] /\ ~garbage[x]}}
    IN IF alarms = {} THEN 0 ELSE Max(alarms)

\* The earliest alarm, or 0 if no alarm is set.
next_timeout ==
    LET alarms == {trigger_time[e] : e \in {x \in Live : active_timer[x] /\ ~garbage[x]}}
    IN IF alarms = {} THEN 0 ELSE Min(alarms)

\* for_each_fd: the descriptors handed to select.
WatchedFds == {fd[e] : e \in {x \in Live : ~garbage[x]}} \ {NoFd}

\* select returns with readable descriptors, or because the delay computed
\* from next_timeout is over; then the time base is set.  The handlers take
\* time too: the clock may be an instant later even if the delay was null.
Select(t, R) ==
    /\ pc = "idle"
    /\ t >= now
    /\ next_timeout # 0 => t <= now + 1 \/ t <= next_timeout
    /\ R \subseteq WatchedFds
    /\ now' = t
    /\ ready' = R
    /\ pc' = "selected"
    /\ UNCHANGED <<queue, attrs, links, i, iend, has_garbage, running, gone,
                   touched, throws>>

\* Mutant: the bound of the pass is one too far.
BeginPassTooFar(R) ==
    /\ pc = "selected"
    /\ R \in {ready, {}}
    /\ ready' = R
    /\ i' = 1
    /\ iend' = Len(queue) + 1
    /\ pc' = "scan"
    /\ UNCHANGED <<queue, attrs, links, now, has_garbage, running, gone, touched,
                   throws>>

\* execute_events starts; R is {} when the loop only runs the timers.
BeginPass(R) ==
    /\ pc = "selected"
    /\ R \in {ready, {}}
    /\ ready' = R
    /\ i' = 1
    /\ iend' = Len(queue)
    /\ pc' = "scan"
    /\ UNCHANGED <<queue, attrs, links, now, has_garbage, running, gone, touched,
                   throws>>

\* Mutants: the pass also visits the events created meanwhile; the pass
\* stops before the last event.
MoreEventsLive == i <= Len(queue)
MoreEventsShort == i < iend

\* The condition of the loop of execute_events.
MoreEvents == i <= iend

\* Mutant: the timer of a released event still fires.
RunsTimeoutReleased(e) == /\ fd[e] \notin ready
                          /\ active_timer[e] /\ now >= trigger_time[e]

\* What the pass does with event e: nothing for garbage; exec_action if
\* its descriptor is readable; otherwise exec_timeout if its timer is due.
RunsAction(e)  == ~garbage[e] /\ fd[e] \in ready
RunsTimeout(e) == /\ ~garbage[e] /\ fd[e] \notin ready
                  /\ active_timer[e] /\ now >= trigger_time[e]

ExecAction ==
    /\ pc = "scan" /\ MoreEvents
    /\ RunsAction(queue[i])
    /\ trigger_time' = [trigger_time EXCEPT ![queue[i]] = now + grace_delay[queue[i]]]
    /\ running' = queue[i]
    /\ touched' = touched \cup {queue[i]}
    /\ pc' = "callback"
    /\ UNCHANGED <<queue, garbage, active_timer, grace_delay, fd, lifespan, links,
                   now, i, iend, has_garbage, ready, gone, throws>>

ExecTimeout ==
    /\ pc = "scan" /\ MoreEvents
    /\ RunsTimeout(queue[i])
    /\ trigger_time' = [trigger_time EXCEPT ![queue[i]] = now]
    /\ active_timer' = [active_timer EXCEPT ![queue[i]] = FALSE]
    /\ running' = queue[i]
    /\ touched' = touched \cup {queue[i]}
    /\ pc' = "callback"
    /\ UNCHANGED <<queue, garbage, grace_delay, fd, lifespan, links,
                   now, i, iend, has_garbage, ready, gone, throws>>

\* Mutant: has_garbage only remembers the last event.
NextEventForgets ==
    /\ \/ pc = "callback"
       \/ pc = "scan" /\ MoreEvents
          /\ ~RunsAction(queue[i]) /\ ~RunsTimeout(queue[i])
    /\ has_garbage' = garbage[queue[i]]
    /\ i' = i + 1
    /\ running' = NoEvent
    /\ pc' = "scan"
    /\ UNCHANGED <<queue, attrs, links, now, iend, ready, gone, touched, throws>>

\* Nothing to do for the event, or its callback has returned.
NextEvent ==
    /\ \/ pc = "callback"
       \/ pc = "scan" /\ MoreEvents
          /\ ~RunsAction(queue[i]) /\ ~RunsTimeout(queue[i])
    /\ has_garbage' = (has_garbage \/ garbage[queue[i]])
    /\ i' = i + 1
    /\ running' = NoEvent
    /\ pc' = "scan"
    /\ UNCHANGED <<queue, attrs, links, now, iend, ready, gone, touched, throws>>

\* Mutant: the collector's index starts before the queue.
LeavePassBeforeFirst ==
    /\ i' = 0 /\ iend' = 0
    /\ has_garbage' = FALSE
    /\ ready' = {}
    /\ touched' = {}

\* The locals of the pass go out of scope.
LeavePass ==
    /\ i' = 1 /\ iend' = 0
    /\ has_garbage' = FALSE
    /\ ready' = {}
    /\ touched' = {}

\* A callback throws: the rest of the pass and the collection are skipped.
Throw ==
    /\ pc = "callback"
    /\ throws < MaxThrows
    /\ throws' = throws + 1
    /\ LeavePass
    /\ running' = NoEvent
    /\ pc' = "idle"
    /\ UNCHANGED <<queue, attrs, links, now, gone>>

EndScan ==
    /\ pc = "scan" /\ ~MoreEvents
    /\ LeavePass
    /\ pc' = IF has_garbage THEN "collect" ELSE "idle"
    /\ UNCHANGED <<queue, attrs, links, now, running, gone, throws>>

\* Mutant: ~Event does not empty the EventRef.
EventDtorKeepsRef(e) ==
    /\ event_ref' = [event_ref EXCEPT ![e] = NoRef]
    /\ UNCHANGED event

\* ~Event: the EventRef of the event, if any, is emptied.
EventDtor(e) ==
    /\ event' = [r \in Ref |-> IF r = event_ref[e] THEN NoEvent ELSE event[r]]
    /\ event_ref' = [event_ref EXCEPT ![e] = NoRef]

DeleteEvent(e) ==
    /\ EventDtor(e)
    /\ garbage' = [garbage EXCEPT ![e] = FALSE]
    /\ active_timer' = [active_timer EXCEPT ![e] = FALSE]
    /\ trigger_time' = [trigger_time EXCEPT ![e] = 1]
    /\ grace_delay' = [grace_delay EXCEPT ![e] = 0]
    /\ fd' = [fd EXCEPT ![e] = NoFd]
    /\ lifespan' = [lifespan EXCEPT ![e] = NoOwner]

\* events[i] = events.back(); events.pop_back();
SwapRemove ==
    queue' = [k \in 1..(Len(queue) - 1) |-> IF k = i THEN queue[Len(queue)] ELSE queue[k]]

\* Mutant: the inner loop of garbage_collector is an if.
DeleteOnce == DeleteEvent(queue[i]) /\ SwapRemove /\ i' = i + 1

\* One turn of the inner loop of garbage_collector: the event swapped in is
\* looked at next.
Delete == DeleteEvent(queue[i]) /\ SwapRemove /\ UNCHANGED i

Collect ==
    /\ pc = "collect" /\ i <= Len(queue)
    /\ \/ garbage[queue[i]] /\ Delete
       \/ ~garbage[queue[i]] /\ i' = i + 1 /\ UNCHANGED <<queue, attrs, links>>
    /\ UNCHANGED <<now, pc, iend, has_garbage, running, ready, gone, touched, throws>>

EndCollect ==
    /\ pc = "collect" /\ i > Len(queue)
    /\ i' = 1
    /\ pc' = "idle"
    /\ UNCHANGED <<queue, attrs, links, now, iend, has_garbage, running, ready,
                   gone, touched, throws>>

-----------------------------------------------------------------------------

Client ==
    \/ \E e \in Event, o \in Owner, r \in Ref \cup {NoRef} :
          \/ \E t \in Time : CreateEventTimeout(e, o, r, t)
          \/ \E f \in Fd : CreateEventFdWithoutTimeout(e, o, r, f)
          \/ \E f \in Fd, g \in Grace, t \in Time : CreateEventFdTimeout(e, o, r, f, g, t)
    \/ \E e \in Event, t \in Time : SetTimeout(e, t)
    \/ MarkGarbage
    \/ \E r \in Ref : RefGarbage(r)
    \/ \E r, s \in Ref : RefMove(r, s)
    \/ \E o \in Owner : EndOfLifespan(o)

Loop ==
    \/ \E t \in Time, R \in SUBSET Fd : Select(t, R)
    \/ \E R \in SUBSET Fd : BeginPass(R)
    \/ ExecAction
    \/ ExecTimeout
    \/ NextEvent
    \/ Throw
    \/ EndScan
    \/ Collect
    \/ EndCollect

Next == Client \/ Loop

Spec == Init /\ [][Next]_vars

\* The process runs: callbacks return, the pass goes on, select returns and
\* the monotonic clock advances.  Nothing is assumed of the client.
Fairness ==
    /\ WF_vars(\E t \in Time, R \in SUBSET Fd : Select(t, R))
    /\ SF_vars(\E t \in Time, R \in SUBSET Fd : t > now /\ Select(t, R))
    /\ WF_vars(\E R \in SUBSET Fd : BeginPass(R))
    /\ WF_vars(ExecAction \/ ExecTimeout \/ NextEvent \/ EndScan)
    /\ WF_vars(Collect \/ EndCollect)

FairSpec == Spec /\ Fairness

-----------------------------------------------------------------------------

\* Type invariant.  The index of execute_events never goes below the first
\* event, which leaving a pass by an exception could do to the next one.
TypeOK ==
    /\ queue \in Seq(Event)
    /\ garbage \in [Event -> BOOLEAN]
    /\ active_timer \in [Event -> BOOLEAN]
    /\ trigger_time \in [Event -> Nat]
    /\ grace_delay \in [Event -> Nat]
    /\ fd \in [Event -> Fd \cup {NoFd}]
    /\ lifespan \in [Event -> Owner \cup {NoOwner}]
    /\ event_ref \in [Event -> Ref \cup {NoRef}]
    /\ event \in [Ref -> Event \cup {NoEvent}]
    /\ now \in Nat
    /\ ready \subseteq Fd
    /\ pc \in Phase
    /\ i \in Nat \ {0}
    /\ iend \in Nat
    /\ has_garbage \in BOOLEAN
    /\ running \in Event \cup {NoEvent}
    /\ gone \subseteq Owner
    /\ touched \subseteq Event
    /\ throws \in 0..MaxThrows

\* No EventRef dangles: the event an EventRef points at exists and points
\* back at it, and an event never points back at an EventRef that left it.
\* Five operations and the destructor of Event edit this pair of pointers.
RefsMutual ==
    /\ \A r \in Ref : event[r] # NoEvent =>
          event[r] \in Live /\ event_ref[event[r]] = r
    /\ \A e \in Event : event_ref[e] # NoRef =>
          e \in Live /\ event[event_ref[e]] = e

\* The assert of execute_events, and why events[i] is in bounds whatever
\* the callbacks do: during a pass the queue only grows.  The event whose
\* callback runs is still the one at index i.
PassInBounds ==
    /\ pc \in {"scan", "callback"} => iend <= Len(queue)
    /\ pc = "callback" => i <= iend /\ running = queue[i]

CallStarts == pc = "scan" /\ pc' = "callback"

\* "ignore events created in the loop": a pass calls an event at most once,
\* and never one that was created during the pass, not even at the address
\* of an older event.
OncePerPass == [][CallStarts => running' \notin touched]_vars

\* The callbacks capture their owner.  Once an owner is destroyed or an
\* EventRef has released its event, no callback of it starts, although the
\* event stays in the queue until the next collection.
NoCallAfterRelease ==
    [][CallStarts => /\ lifespan[running'] \notin gone
                     /\ garbage[running'] = FALSE
                     /\ running' \in Live]_vars

\* Garbage stays garbage: no call of the interface revives an event.
GarbageIsFinal ==
    [][\A e \in Live : garbage[e] => e \notin Live' \/ garbage'[e]]_vars

\* The swap-with-last collection deletes every garbage event, and neither
\* it nor anything else ever drops an event that is still wanted.
CollectsExactlyGarbage ==
    [][/\ \A e \in Live : ~garbage[e] => e \in Live'
       /\ pc = "collect" /\ pc' = "idle" => \A e \in Live' : ~garbage'[e]]_vars

\* The delay computed from next_timeout never lets select sleep past an
\* alarm.
NoOversleep ==
    [][now' # now =>
         \A e \in Live : active_timer[e] /\ ~garbage[e] =>
            trigger_time[e] <= now \/ trigger_time[e] >= now']_vars

\* An alarm is always served, moved or dropped: no position in the queue,
\* no activity of the other events and no pass cut short by an exception
\* starves it.
AlarmServed ==
    \A e \in Event : \A t \in Time :
        (e \in Live /\ active_timer[e] /\ ~garbage[e] /\ trigger_time[e] = t)
            ~> (\/ running = e
                \/ ~(e \in Live /\ active_timer[e] /\ ~garbage[e] /\ trigger_time[e] = t))

\* Every released event is deleted in the end, also one released behind the
\* index of the pass, which the pass's has_garbage misses.
GarbageCollected ==
    \A e \in Event : (e \in Live /\ garbage[e]) ~> (e \notin Live)
=============================================================================
