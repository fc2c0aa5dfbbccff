------------------------------ MODULE Session -------------------------------
(***************************************************************************)
(* The session process: the constructor and the main loop of Session       *)
(* (src/core/session.cpp) with the state it drives in ModFactory, in       *)
(* SecondarySession, in the timers of session_events.cpp, in GuestCtx and  *)
(* in the front's capture.                                                 *)
(*                                                                         *)
(* One iteration of the loop is the phases send, select (and Front), acl,  *)
(* events, back, in this order; an exception leaves the iteration for      *)
(* catch, which may start the next one or end the loop.  The manager runs  *)
(* beside it (Sesman), so does the user, the target and a guest.           *)
(*                                                                         *)
(* The assertions of the code are recorded, not enforced: a release build  *)
(* goes on, and `broken' keeps the ones that failed.                       *)
(***************************************************************************)
EXTENDS Sesman, FiniteSets

CONSTANTS
    Option,      \* the boolean options of the configuration that are on
    Congestible, \* transports that may have to keep output for later
    ModError,    \* errors a target may raise in its callback
    Creation,    \* outcomes of create_rdp_mod and create_vnc_mod
    Guests,      \* can someone connect to an invitation
    TimersRace,  \* may a timer end a session in the iteration that changes the module
    LateFailure, \* may a target be left between its connection and its success
    MaxRetries   \* bound: retries of the RDP target

ASSUME SessionAssumption ==
    /\ Option \subseteq {"close_box", "auto_reconnect", "shortcut",
                         "retry_without_probe", "redirection"}
    /\ Congestible \subseteq {"front", "guest", "mod"}
    /\ ModError \subseteq {"probe_launch", "retry", "rail", "reconnect",
                           "redir", "mod_link", "other"}
    /\ Creation \subseteq {"ok", "error", "unknown"}
    /\ {Guests, TimersRace, LateFailure} \subseteq BOOLEAN
    /\ MaxRetries \in Nat

VARIABLES
    pc,           \* phase of the process
    exc,          \* the exception being handled, [where, id]
    next_module,  \* local of main_loop
    back_event,   \* local of an iteration
    watch,        \* transports select watches for writing in this iteration
    fired,        \* callbacks already made in this pass over the events
    front,        \* "up", "down" (being reactivated) or "lost"
    auth_open,    \* auth_trans holds a descriptor
    mod,          \* ModFactory: name, sck (psocket_transport), signal, up
    log,          \* SecondarySession::session_type, "" when closed
    capture,      \* Front::capture
    keepalive,    \* KeepAlive: "off", "armed" or "asked" (wait_answer)
    inactivity,   \* Inactivity: the timer exists
    end_date,     \* EndSessionWarning: the timer exists
    guest,        \* GuestCtx: "none", "listen", "handshake" or "sharing"
    wait,         \* transports with waiting output (async_buffers)
    ini,          \* context::module, try_alternate_target, has_more_target
    acl_out,      \* facts set for the manager and not sent yet
    disabled,     \* capabilities given up by earlier retries
    retries,      \* how many retries were made
    ended,        \* history: what told this session to end
    broken        \* history: assertions that failed

loop == <<next_module, back_event, watch, fired>>
supervision == <<keepalive, inactivity, end_date>>
record == <<log, capture>>
history == <<retries, ended, broken>>
vars == <<pc, exc, loop, front, auth_open, mod, record, supervision, guest,
          wait, ini, acl_out, disabled, history, sesman>>

Targets == {"RDP", "VNC"}
Unknown == "UNKNOWN"
ModuleName == Interactive \cup Targets \cup Close \cup {"transitory", Unknown}
Signal == {"none", "next", "stop"}

\* no_mod: its signal is BACK_EVENT_NEXT for ever.
NoMod == [name |-> Unknown, sck |-> FALSE, signal |-> "next", up |-> FALSE]
\* set_mod with a module that has no socket, and with a target.
InternalKeepsSocket(m) ==  \* psocket_transport is not reset
    [name |-> m, sck |-> mod.sck, signal |-> "none", up |-> TRUE]
Internal(m) == [name |-> m, sck |-> FALSE, signal |-> "none", up |-> TRUE]
Remote(m) == [name |-> m, sck |-> TRUE, signal |-> "none", up |-> FALSE]

NoExc == [where |-> "", id |-> ""]

(* Type invariant: the state of the process and of the manager; the manager
   never tries a physical target past the last one (connect_to_target). *)
TypeOK ==
    /\ SesmanTypeOK
    /\ pc \in {"wait_front", "connect", "send", "select", "acl", "events", "back",
               "catch", "end", "close_box", "done"}
    /\ exc \in [where : STRING, id : STRING]
    /\ next_module \in ModuleName
    /\ back_event \in Signal
    /\ watch \subseteq Congestible /\ wait \subseteq Congestible
    /\ fired \subseteq {"send", "mod", "keepalive", "inactivity", "end_date", "guest",
                        "close_box"}
    /\ front \in {"down", "up", "lost"}
    /\ auth_open \in BOOLEAN
    /\ mod \in [name : ModuleName, sck : BOOLEAN, signal : Signal, up : BOOLEAN]
    /\ log \in Targets \cup {""}
    /\ capture \in BOOLEAN
    /\ keepalive \in {"off", "armed", "asked"}
    /\ inactivity \in BOOLEAN /\ end_date \in BOOLEAN
    /\ guest \in {"none", "listen", "handshake", "sharing"}
    /\ ini \in [module : ModuleName \cup {""}, alt : BOOLEAN, more : BOOLEAN]
    /\ acl_out \subseteq Fact
    /\ disabled \subseteq {"probe", "rail"}
    /\ retries \in 0..MaxRetries
    /\ ended \subseteq {"inactivity", "end_date", "disconnect"}
    /\ broken \subseteq {"open", "get", "close", "log", "send_waiting"}

Init ==
    /\ SesmanInit
    /\ pc = "wait_front"
    /\ exc = NoExc
    /\ next_module = Unknown
    /\ back_event = "none"
    /\ watch = {} /\ fired = {} /\ wait = {}
    /\ front = "down"
    /\ auth_open = FALSE
    /\ mod = NoMod
    /\ log = "" /\ capture = FALSE
    /\ keepalive = "off" /\ inactivity = FALSE /\ end_date = FALSE
    /\ guest = "none"
    /\ ini = [module |-> "", alt |-> FALSE, more |-> FALSE]
    /\ acl_out = {}
    /\ disabled = {}
    /\ retries = 0 /\ ended = {} /\ broken = {}

Goto(p) == pc' = p /\ exc' = NoExc
Raise(w, id) == pc' = "catch" /\ exc' = [where |-> w, id |-> id]

\* assert(ok)
Failed(label, ok) == IF ok THEN {} ELSE {label}

----------------------------------------------------------------------------
(* Before the loop: the front's handshake and the connection to the manager. *)

\* internal_front_loop until the front is up; acl_auth_info asks for a service.
FrontIsUp ==
    /\ pc = "wait_front"
    /\ front' = "up"
    /\ Goto("connect")
    /\ UNCHANGED <<loop, auth_open, mod, record, supervision, guest, wait, ini,
                   acl_out, disabled, history, sesman>>

\* The handshake fails: the constructor returns.
FrontFails ==
    /\ pc = "wait_front"
    /\ front' = "lost"
    /\ Goto("done")
    /\ UNCHANGED <<loop, auth_open, mod, record, supervision, guest, wait, ini,
                   acl_out, disabled, history, sesman>>

\* addr_connect_blocking: without a manager only the close box is left.
ConnectAuth ==
    /\ pc = "connect"
    /\ \/ auth_open' = TRUE /\ acl_out' = {"answer"} /\ Goto("send")
          /\ UNCHANGED mod
       \/ UNCHANGED <<auth_open, acl_out>>
          /\ IF "close_box" \in Option
             THEN mod' = Internal("close") /\ Goto("close_box")
             ELSE UNCHANGED mod /\ Goto("done")
    /\ UNCHANGED <<loop, front, record, supervision, guest, wait, ini, disabled,
                   history, sesman>>

----------------------------------------------------------------------------
(* Parts shared by several steps.                                           *)

\* GuestCtx::stop: remove_guest writes to the session log, SessionLogFile::log
\* asserts that the log is open.
GuestStopFails(openlog) == Failed("log", guest = "sharing" => openlog # "")

\* is_target_module(ini.module) decides whether a target is timed.
SetInactivityForgets == inactivity
SetInactivityTimeout == IF ini.module \in Targets THEN TRUE ELSE inactivity

InactivityStarted == {"confirm", "link_confirm", "valid", "challenge",
                      "selector", "interactive_target"}
InactivityStopped == {"close", "close_back", "login", "waitinfo", "autotest"}

\* set_acl<context::module>(close)
TellClose ==
    /\ ini' = [ini EXCEPT !.module = "close"]
    /\ acl_out' = acl_out \cup {"close"}

\* secondary_session_creation_failed: the log is kept for another target.
CreationFailedKeeps(openlog, more) == log' = openlog /\ TellClose
CreationFailed(openlog, more) ==
    /\ log' = IF more THEN openlog ELSE ""
    /\ TellClose

\* The log given to the new target: get_secondary_session_log for an alternate
\* RDP target, open_secondary_session otherwise.
LogFor(p, openlog) == IF p = "RDP" /\ ini.alt THEN openlog ELSE p

LogForFails(p, openlog) ==
    IF p = "RDP" /\ ini.alt THEN Failed("get", openlog # "")
                            ELSE Failed("open", openlog = "")

\* open_secondary_session of next_backend_module, with the outcome of the
\* creation of the module.  An exception that is not an Error ends the loop.
OpenTarget(p, openlog, failed) ==
    LET newlog == LogFor(p, openlog)
        wrong  == failed \cup LogForFails(p, openlog)
    IN  \/ /\ "ok" \in Creation
           /\ mod' = Remote(p)
           /\ log' = newlog
           /\ inactivity' = SetInactivityTimeout
           /\ broken' = broken \cup wrong
           /\ Goto("send")
           /\ UNCHANGED <<ini, acl_out>>
        \/ /\ "error" \in Creation
           /\ CreationFailed(newlog, ini.more)
           /\ mod' = Internal("transitory")
           /\ broken' = broken \cup wrong \cup Failed("get", newlog # "")
           /\ Goto("send")
           /\ UNCHANGED inactivity
        \/ /\ "unknown" \in Creation
           /\ CreationFailed(newlog, ini.more)
           /\ mod' = NoMod
           /\ broken' = broken \cup wrong \cup Failed("get", newlog # "")
           /\ Goto("end")
           /\ UNCHANGED inactivity

\* tell: set_acl<context::module>(close) came before.
ShowInternal(m, openlog, failed, tell) ==
    /\ mod' = Internal(m)
    /\ log' = openlog
    /\ inactivity' = IF m \in InactivityStarted THEN TRUE
                     ELSE IF m \in InactivityStopped THEN FALSE ELSE inactivity
    /\ broken' = broken \cup failed
    /\ IF tell THEN TellClose ELSE UNCHANGED <<ini, acl_out>>
    /\ Goto("send")

\* Whether next_backend_module keeps the capture and the log.  The name is
\* compared after disconnect(), which has already forgotten it.
KeepsRecordAlways(m) == TRUE
KeepsRecord(m) == ~mod.sck \/ (m = NoMod.name /\ ini.more)

\* The assertions on the way out of a target: the guest is stopped before the
\* log is closed.
LeaveFailsSwapped(m) ==
    IF mod.sck THEN GuestStopFails("") \cup Failed("close", KeepsRecord(m) \/ log # "")
               ELSE {}
LeaveFails(m) ==
    IF mod.sck THEN GuestStopFails(log) \cup Failed("close", KeepsRecord(m) \/ log # "")
               ELSE {}

LeaveGuestForgotten ==
    UNCHANGED guest /\ wait' = IF mod.sck THEN wait \ {"mod"} ELSE wait
LeaveGuest ==
    IF mod.sck THEN guest' = "none" /\ wait' = wait \ {"guest", "mod"}
               ELSE UNCHANGED <<guest, wait>>

\* next_backend_module(m): leave the target, then create the module.
NextBackendModule(m, tell) ==
    IF ~mod.sck /\ m \in Close /\ mod.name \in Close
    THEN \* update_close_mod
         /\ mod' = [mod EXCEPT !.name = m]
         /\ Goto("send")
         /\ UNCHANGED <<log, capture, keepalive, inactivity, guest, wait, ini,
                        acl_out, ended, broken>>
    ELSE LET openlog == IF KeepsRecord(m) THEN log ELSE ""
         IN  /\ LeaveGuest
             /\ capture' = (capture /\ KeepsRecord(m))
             /\ ended' = IF mod.sck THEN ended \ {"disconnect"} ELSE ended
             /\ keepalive' = IF m \in Targets THEN "armed" ELSE "off"
             /\ IF m \in Targets THEN OpenTarget(m, openlog, LeaveFails(m))
                                 ELSE ShowInternal(m, openlog, LeaveFails(m), tell)

\* retry_rdp: the target is left and connected again with the same log; when
\* that fails the loop ends.
RetryRdp ==
    /\ retries < MaxRetries
    /\ retries' = retries + 1
    /\ wait' = wait \ {"mod"}
    /\ broken' = broken \cup Failed("get", log # "")
    /\ \/ /\ "ok" \in Creation
          /\ mod' = Remote("RDP")
          /\ Goto("send")
          /\ UNCHANGED <<log, capture, ini, acl_out>>
       \/ /\ Creation \cap {"error", "unknown"} # {}
          /\ capture' = FALSE
          /\ CreationFailed(log, FALSE)
          /\ \/ "error" \in Creation /\ mod' = Internal("transitory")
             \/ "unknown" \in Creation /\ mod' = NoMod
          /\ Goto("end")

----------------------------------------------------------------------------
(* AclSend, Select and Front.                                               *)

\* front.sync and send_acl_data; a socket closed by the manager is only
\* noticed on reading.
SendAclData ==
    /\ pc = "send"
    /\ to_sesman' = IF phase = "closed" THEN to_sesman ELSE to_sesman \cup acl_out
    /\ acl_out' = {}
    /\ back_event' = "none"
    /\ fired' = {}
    /\ Goto("select")
    /\ UNCHANGED <<next_module, watch, front, auth_open, mod, record, supervision,
                   guest, wait, ini, disabled, history, phase, proto, left,
                   try_next, requests, to_proxy>>

\* send_acl_data fails: the manager is gone.
SendAclFails ==
    /\ pc = "send"
    /\ phase = "closed"
    /\ Raise("AclSend", "acl")
    /\ UNCHANGED <<loop, front, auth_open, mod, record, supervision, guest, wait,
                   ini, acl_out, disabled, history, sesman>>

Selected == pc = "select" /\ watch' = wait

\* The front is read when neither client has waiting output.  That of the target
\* stops the reading as well, except for data TLS has already decrypted.
CanReadFront == wait \cap {"front", "guest"} = {}

\* What a step of the front leaves alone.
FrontOnly == UNCHANGED <<next_module, back_event, fired, auth_open, record,
                         supervision, guest, ini, disabled, sesman>>

\* select fails and the loop ends; a signal only makes it start again.
SelectFails ==
    /\ pc = "select"
    /\ Goto("end")
    /\ FrontOnly /\ UNCHANGED <<watch, front, mod, wait, acl_out, history>>

\* select returns for something else than the front.
FrontQuiet ==
    /\ Selected
    /\ Goto("acl")
    /\ FrontOnly /\ UNCHANGED <<front, mod, wait, acl_out, history>>

\* Waiting output of the front, then of the guest.  The second call is made on
\* the transport of the front as well.
FrontSendWaiting ==
    /\ Selected
    /\ \E ready \in SUBSET (wait \cap {"front", "guest"}) \ {{}} :
       \E done1, done2 \in BOOLEAN :
        LET after1 == IF "front" \in ready /\ done1 THEN wait \ {"front"} ELSE wait
            after2 == IF "guest" \in ready /\ done2 THEN after1 \ {"front"} ELSE after1
        IN  /\ wait' = after2
            /\ broken' = broken \cup Failed("send_waiting",
                                  "guest" \in ready => "front" \in after1)
    /\ Goto("acl")
    /\ UNCHANGED <<next_module, back_event, fired, front, auth_open, mod, record,
                   supervision, guest, ini, acl_out, disabled, retries, ended, sesman>>

\* The user answers an internal module, or leaves it.
UserAnswers ==
    /\ Selected /\ CanReadFront
    /\ front = "up" /\ ~mod.sck /\ mod.name # Unknown
    /\ \/ /\ mod.name \notin {"transitory", "close"}
          /\ mod' = [mod EXCEPT !.signal = "next"]
          /\ acl_out' = acl_out \cup {"answer"}
          /\ ended' = {}
       \/ mod' = [mod EXCEPT !.signal = "stop"] /\ UNCHANGED <<acl_out, ended>>
    /\ Goto("acl")
    /\ FrontOnly /\ UNCHANGED <<front, wait, retries, broken>>

\* Errors a module of this protocol can still raise: a capability that was
\* given up is not asked for again.  The bound on retries is kept here.
Raisable ==
    {id \in ModError :
        /\ mod.name = "VNC" => id \in {"mod_link", "other"}
        /\ id = "probe_launch" => "probe" \notin disabled
        /\ id = "rail" => "rail" \notin disabled
        /\ retries = MaxRetries => id \in {"mod_link", "other"}}

\* A target is left between its connection and its success only if LateFailure.
Settled == LateFailure \/ ~mod.sck \/ mod.up

\* Input for the target, which may not be able to take it.
UserInput ==
    /\ Selected /\ CanReadFront
    /\ front = "up" /\ mod.sck
    /\ \/ wait' \in {wait, wait \cup ({"mod"} \cap Congestible)} /\ Goto("acl")
       \/ Settled /\ UNCHANGED wait /\ \E id \in {"mod_link", "reconnect"} \cap Raisable :
                                Raise("Front", id)
    /\ FrontOnly /\ UNCHANGED <<front, mod, acl_out, history>>

\* Deactivation and reactivation of the front: is_up_and_running changes.
FrontResizes ==
    /\ Selected /\ CanReadFront
    /\ front' = IF front = "up" THEN "down" ELSE "up"
    /\ Goto("acl")
    /\ FrontOnly /\ UNCHANGED <<mod, wait, acl_out, history>>

\* The client goes away: its transport fails, or it says so.
FrontLeaves ==
    /\ Selected /\ (CanReadFront \/ "front" \in wait)
    /\ front' = "lost"
    /\ Raise("Front", "front_link")
    /\ FrontOnly /\ UNCHANGED <<mod, wait, acl_out, history>>

----------------------------------------------------------------------------
(* AclReceive and AclUpdate: one message of the manager.                    *)

\* The manager's descriptor is watched whatever the transports do.
AuthWatchedWhenIdle == watch = {}
AuthWatched == TRUE

AclQuiet ==
    /\ pc = "acl"
    /\ ~AuthWatched \/ (to_proxy = <<>> /\ phase # "closed")
    /\ Goto("events")
    /\ UNCHANGED <<loop, front, auth_open, mod, record, supervision, guest, wait,
                   ini, acl_out, disabled, history, sesman>>

\* acl_serial.incoming throws at the end of the stream.
AclLost ==
    /\ pc = "acl" /\ AuthWatched
    /\ to_proxy = <<>> /\ phase = "closed"
    /\ Raise("AclReceive", "acl")
    /\ UNCHANGED <<loop, front, auth_open, mod, record, supervision, guest, wait,
                   ini, acl_out, disabled, history, sesman>>

Incoming(k) ==
    /\ pc = "acl" /\ AuthWatched
    /\ to_proxy # <<>> /\ Head(to_proxy).kind = k
    /\ to_proxy' = Tail(to_proxy)
    /\ UNCHANGED <<phase, proto, left, try_next, requests, to_sesman,
                   watch, fired, front, auth_open, record, disabled, retries>>

\* The module is taken unless it is the one on the screen.
AclModule ==
    /\ Incoming("module")
    /\ LET m == Head(to_proxy)
           new == [module |-> m.module,
                   alt  |-> IF m.module \in Targets THEN m.alt ELSE ini.alt,
                   more |-> IF m.module \in Targets THEN m.more ELSE ini.more]
       IN  /\ ini' = new
           /\ IF m.module # mod.name \/ mod.name = "waitinfo" \/ new.alt
              THEN next_module' = m.module /\ back_event' = "next"
              ELSE UNCHANGED <<next_module, back_event>>
    /\ Goto("events")
    /\ UNCHANGED <<mod, supervision, guest, wait, acl_out, ended, broken>>

AclKeepalive ==
    /\ Incoming("keepalive")
    /\ keepalive' = IF keepalive = "off" THEN "off" ELSE "armed"
    /\ Goto("events")
    /\ UNCHANGED <<next_module, back_event, mod, inactivity, end_date, guest, wait,
                   ini, acl_out, ended, broken>>

\* end_date_cnx: 0 resets the timer, a date arms it.
AclEndDate ==
    /\ Incoming("end_date")
    /\ end_date' \in BOOLEAN
    /\ Goto("events")
    /\ UNCHANGED <<next_module, back_event, mod, keepalive, inactivity, guest, wait,
                   ini, acl_out, ended, broken>>

AclInactivity ==
    /\ Incoming("inactivity")
    /\ inactivity' = SetInactivityTimeout
    /\ Goto("events")
    /\ UNCHANGED <<next_module, back_event, mod, keepalive, end_date, guest, wait,
                   ini, acl_out, ended, broken>>

\* session_sharing_enable_control: an invitation replaces the sharing in course.
AclSharing ==
    /\ Incoming("sharing")
    /\ IF front = "up" /\ mod.sck /\ mod.up
       THEN /\ guest' \in {"listen", "none"}
            /\ wait' = wait \ {"guest"}
            /\ broken' = broken \cup GuestStopFails(log) \cup Failed("get", log # "")
       ELSE UNCHANGED <<guest, wait, broken>>
    /\ Goto("events")
    /\ UNCHANGED <<next_module, back_event, mod, supervision, ini, acl_out, ended>>

AclRejected ==
    /\ Incoming("rejected")
    /\ next_module' = "close" /\ back_event' = "next"
    /\ Goto("events")
    /\ UNCHANGED <<mod, supervision, guest, wait, ini, acl_out, ended, broken>>

\* disconnect_reason: acknowledged, then the module is left.
AclDisconnectOnlyAcks ==
    /\ Incoming("disconnect")
    /\ acl_out' = acl_out \cup {"ack"}
    /\ ended' = IF mod.sck THEN ended \cup {"disconnect"} ELSE ended
    /\ Goto("events")
    /\ UNCHANGED <<next_module, back_event, mod, supervision, guest, wait, ini, broken>>
AclDisconnect ==
    /\ Incoming("disconnect")
    /\ acl_out' = acl_out \cup {"ack"}
    /\ back_event' = IF mod.signal = "stop" THEN "stop" ELSE "next"
    /\ ended' = IF mod.sck THEN ended \cup {"disconnect"} ELSE ended
    /\ Goto("events")
    /\ UNCHANGED <<next_module, mod, supervision, guest, wait, ini, broken>>

\* Any other field is for the module, unless it is about to be replaced.
AclOther ==
    /\ Incoming("other")
    /\ IF next_module \in {Unknown, mod.name}
       THEN \/ back_event' = mod.signal /\ Goto("events")
            \/ mod.sck /\ "mod_link" \in ModError
               /\ UNCHANGED back_event /\ Raise("AclUpdate", "mod_link")
       ELSE UNCHANGED back_event /\ Goto("events")
    /\ UNCHANGED <<next_module, mod, supervision, guest, wait, ini, acl_out, ended,
                   broken>>

----------------------------------------------------------------------------
(* EventLoop: one pass over the events.  Each callback runs at most once in *)
(* a pass (OncePerPass of EventManager), in any order.  Descriptors are     *)
(* served only when the manager has not decided; timers always.  Waiting    *)
(* output stops the reading, except for data TLS has already decrypted.     *)

Callback(e) ==
    /\ pc = "events"
    /\ e \notin fired
    /\ fired' = fired \cup {e}
    /\ UNCHANGED <<next_module, back_event, watch, auth_open, sesman>>

CanReadEvents == back_event = "none"

\* Waiting output of the target, before the pass.
ModSendWaiting ==
    /\ Callback("send")
    /\ fired = {}
    /\ back_event = "none" /\ "mod" \in watch /\ mod.sck
    /\ \/ wait' = wait \ {"mod"} /\ UNCHANGED <<pc, exc>>
       \/ "mod_link" \in ModError /\ UNCHANGED wait /\ Raise("EventLoop", "mod_link")
    /\ broken' = broken \cup Failed("send_waiting", "mod" \in wait)
    /\ UNCHANGED <<front, mod, record, supervision, guest, ini, acl_out, disabled,
                   retries, ended>>

Readable == Callback("mod") /\ CanReadEvents /\ mod.sck

\* The target is connected: success is reported and the capture is started.
ModConnected ==
    /\ Readable /\ ~mod.up
    /\ mod' = [mod EXCEPT !.up = TRUE]
    /\ acl_out' = acl_out \cup {"success"}
    /\ capture' = TRUE
    /\ UNCHANGED <<pc, exc, front, log, supervision, guest, wait, ini, disabled,
                   history>>

\* Output of the target, drawn on the front and on the guest.
ModOutput ==
    /\ Readable /\ mod.up
    /\ \E full \in SUBSET (Congestible \ (IF guest = "sharing" THEN {} ELSE {"guest"})) :
        full # {} /\ wait' = wait \cup full
    /\ UNCHANGED <<pc, exc, front, mod, record, supervision, guest, ini, acl_out,
                   disabled, history>>

\* The target ends the session.  The VNC module stops the capture itself.
ModEnds ==
    /\ Readable /\ mod.up
    /\ mod' = [mod EXCEPT !.signal = "next"]
    /\ capture' = (capture /\ mod.name # "VNC")
    /\ UNCHANGED <<pc, exc, front, log, supervision, guest, wait, ini, acl_out,
                   disabled, history>>

ModThrows ==
    /\ Readable /\ Settled
    /\ \E id \in Raisable : Raise("EventLoop", id)
    /\ UNCHANGED <<front, mod, record, supervision, guest, wait, ini, acl_out,
                   disabled, history>>

\* A timer that ends the session throws past the change of module.
MayEnd == Settled /\ (TimersRace \/ next_module = Unknown)

\* KeepAlive: ask, then give up.
KeepaliveAsksAgain ==
    /\ Callback("keepalive")
    /\ keepalive # "off" /\ keepalive' = "asked"
    /\ acl_out' = acl_out \cup {"keepalive"}
    /\ UNCHANGED <<pc, exc, front, mod, record, inactivity, end_date, guest, wait,
                   ini, disabled, history>>
KeepaliveTimer ==
    /\ Callback("keepalive")
    /\ \/ /\ keepalive = "armed" /\ keepalive' = "asked"
          /\ acl_out' = acl_out \cup {"keepalive"}
          /\ UNCHANGED <<pc, exc>>
       \/ /\ MayEnd
          /\ keepalive = "asked" /\ keepalive' = "off"
          /\ UNCHANGED acl_out
          /\ Raise("EventLoop", "keepalive")
    /\ UNCHANGED <<front, mod, record, inactivity, end_date, guest, wait, ini,
                   disabled, history>>

InactivityTimer ==
    /\ Callback("inactivity") /\ MayEnd
    /\ inactivity /\ inactivity' = FALSE
    /\ ended' = ended \cup {"inactivity"}
    /\ Raise("EventLoop", "inactivity")
    /\ UNCHANGED <<front, mod, record, keepalive, end_date, guest, wait, ini,
                   acl_out, disabled, retries, broken>>

EndDateTimer ==
    /\ Callback("end_date") /\ MayEnd
    /\ end_date /\ end_date' = FALSE
    /\ ended' = ended \cup {"end_date"}
    /\ Raise("EventLoop", "end_date")
    /\ UNCHANGED <<front, mod, record, keepalive, inactivity, guest, wait, ini,
                   acl_out, disabled, retries, broken>>

\* The countdown of the close box.
CloseBoxTimer ==
    /\ Callback("close_box")
    /\ mod.name \in Close
    /\ mod' = [mod EXCEPT !.signal = "stop"]
    /\ UNCHANGED <<pc, exc, front, record, supervision, guest, wait, ini, acl_out,
                   disabled, history>>

\* A guest: the invitation is taken or expires; the handshake succeeds, fails or
\* gives a wrong password; the guest leaves.
GuestEvent ==
    /\ Callback("guest")
    /\ \/ guest = "listen" /\ guest' = "none"
       \/ Guests /\ CanReadEvents /\ guest = "listen" /\ guest' = "handshake"
       \/ CanReadEvents /\ guest = "handshake" /\ guest' \in {"sharing", "none"}
       \/ CanReadEvents /\ guest = "sharing" /\ guest' = "none"
    /\ wait' = IF guest' = "none" THEN wait \ {"guest"} ELSE wait
    /\ broken' = broken \cup Failed("log", "sharing" \in {guest, guest'} => log # "")
    /\ UNCHANGED <<pc, exc, front, mod, record, supervision, ini, acl_out, disabled,
                   retries, ended>>

\* The end of the pass: the signal of the module is only read when the manager
\* has not decided.
EndOfEvents ==
    /\ pc = "events"
    /\ back_event' = IF back_event = "none" THEN mod.signal ELSE back_event
    /\ Goto("back")
    /\ UNCHANGED <<next_module, watch, fired, front, auth_open, mod, record,
                   supervision, guest, wait, ini, acl_out, disabled, history, sesman>>

----------------------------------------------------------------------------
(* BackEvent and NextMod.                                                   *)

\* The module to open: the one the manager named, or the default.
Wanted == IF back_event = "next" /\ next_module = Unknown
          THEN (IF mod.sck THEN "close" ELSE "transitory")
          ELSE next_module

\* The manager is told when the target is left for the default module.
TellsClose == back_event = "next" /\ next_module = Unknown /\ mod.sck

BackEvent ==
    /\ pc = "back"
    /\ IF back_event = "stop" \/ Wanted = Unknown
       THEN /\ Goto(IF back_event = "stop" THEN "end" ELSE "send")
            /\ UNCHANGED <<next_module, mod, record, keepalive, inactivity, guest,
                           wait, ini, acl_out, ended, broken>>
       ELSE IF Wanted \in Close /\ "close_box" \notin Option
       THEN /\ Goto("end")
            /\ next_module' = Wanted
            /\ IF TellsClose THEN TellClose ELSE UNCHANGED <<ini, acl_out>>
            /\ UNCHANGED <<mod, record, keepalive, inactivity, guest, wait, ended,
                           broken>>
       ELSE /\ next_module' = Unknown
            /\ NextBackendModule(Wanted, TellsClose)
    /\ UNCHANGED <<back_event, watch, fired, front, auth_open, end_date, disabled,
                   retries, sesman>>

----------------------------------------------------------------------------
(* The handlers of the loop.  next_module survives an exception.            *)

\* AclSend and AclReceive.
CatchAcl ==
    /\ pc = "catch" /\ exc.where \in {"AclSend", "AclReceive"}
    /\ auth_open' = FALSE
    /\ Goto("end")
    /\ UNCHANGED <<loop, front, mod, record, supervision, guest, wait, ini, acl_out,
                   disabled, history, sesman>>

\* is_auto_reconnectable is up to the target; only RDP ever is.
Reconnectable == mod.sck /\ mod.name = "RDP" /\ mod.up /\ retries < MaxRetries

LeaveLoop ==
    /\ Goto("end")
    /\ UNCHANGED <<mod, record, wait, ini, acl_out, retries, broken>>

CatchFront ==
    /\ pc = "catch" /\ exc.where = "Front"
    /\ \/ /\ Reconnectable
          /\ \/ exc.id = "mod_link" /\ "auto_reconnect" \in Option
             \/ exc.id = "reconnect" /\ "shortcut" \in Option
          /\ RetryRdp
       \/ LeaveLoop
    /\ UNCHANGED <<loop, front, auth_open, supervision, guest, disabled, ended, sesman>>

\* end_session_exception: the results an error may have.
EndSessionException(id) ==
    CASE id = "probe_launch" ->
            {IF "retry_without_probe" \in Option THEN "retry" ELSE "close_box"}
      [] id \in {"retry", "rail", "reconnect"} -> {"retry"}
      [] id = "redir" -> {IF "redirection" \in Option THEN "retry" ELSE "close_box"}
      [] id = "mod_link" ->
            {"close_box"} \cup (IF "auto_reconnect" \in Option /\ Reconnectable
                                THEN {"retry"} ELSE {})
      [] OTHER -> {"close_box"}

\* AclUpdate and EventLoop: show the close box, connect again or end.
CatchSession ==
    /\ pc = "catch" /\ exc.where \in {"AclUpdate", "EventLoop"}
    /\ \/ /\ front # "up"
          /\ LeaveLoop
          /\ UNCHANGED <<keepalive, inactivity, guest, disabled, ended>>
       \/ /\ front = "up" /\ "close_box" \in EndSessionException(exc.id)
          /\ UNCHANGED disabled
          /\ IF "close_box" \in Option /\ mod.name \notin Close
             THEN NextBackendModule("close", mod.sck) /\ UNCHANGED retries
             ELSE LeaveLoop /\ UNCHANGED <<keepalive, inactivity, guest, ended>>
       \/ /\ front = "up" /\ "retry" \in EndSessionException(exc.id)
          /\ disabled' = disabled \cup
                (CASE exc.id = "probe_launch" -> {"probe"}
                   [] exc.id = "rail" -> {"rail"} [] OTHER -> {})
          /\ RetryRdp
          /\ UNCHANGED <<keepalive, inactivity, guest, ended>>
    /\ UNCHANGED <<loop, front, auth_open, end_date, sesman>>

----------------------------------------------------------------------------
(* After the loop.                                                          *)

\* The last facts are sent, the guest, the target and the capture are stopped,
\* and the objects of main_loop are destroyed.
PostLoop ==
    /\ pc = "end"
    /\ to_sesman' = IF auth_open /\ phase # "closed" THEN to_sesman \cup acl_out
                    ELSE to_sesman
    /\ acl_out' = {}
    /\ guest' = "none"
    /\ wait' = wait \cap {"front"}
    /\ broken' = broken \cup GuestStopFails(log)
    /\ mod' = IF auth_open \/ mod.name # "close" THEN NoMod ELSE mod
    /\ capture' = FALSE
    /\ log' = ""
    /\ keepalive' = "off" /\ inactivity' = FALSE /\ end_date' = FALSE
    /\ auth_open' = FALSE
    /\ Goto(IF ~auth_open /\ mod'.signal = "none" /\ front = "up"
               /\ "close_box" \in Option
            THEN "close_box" ELSE "done")
    /\ UNCHANGED <<loop, front, ini, disabled, retries, ended, phase, proto, left,
                   try_next, requests, to_proxy>>

\* internal_front_loop on the close box: closed by the user, by its countdown
\* or by the loss of the front.
CloseBoxEnds ==
    /\ pc = "close_box"
    /\ \/ mod' = [mod EXCEPT !.signal = "stop"] /\ UNCHANGED front
       \/ front' = "lost" /\ UNCHANGED mod
    /\ Goto("done")
    /\ UNCHANGED <<loop, auth_open, record, supervision, guest, wait, ini, acl_out,
                   disabled, history, sesman>>

----------------------------------------------------------------------------
process == <<pc, exc, loop, front, auth_open, mod, record, supervision, guest,
             wait, ini, acl_out, disabled, history>>

\* The manager moves on its own.  The process asks for a keepalive more often
\* than the manager's delay, so nothing is missed while the timer exists.
SesmanStep ==
    /\ \/ ShowModule \/ Reject \/ ConnectToTarget \/ ReceiveData \/ SendRequest
       \/ BackToSelector \/ CloseConnection \/ Kill
       \/ (keepalive = "off" /\ acl_out = {} /\ to_proxy = <<>> /\ pc = "select"
           /\ next_module = Unknown /\ MissingKeepalive)
    /\ UNCHANGED process

UserStep == UserAnswers \/ UserInput \/ FrontResizes \/ FrontLeaves

TargetStep == ModConnected \/ ModOutput \/ ModEnds \/ ModThrows

TimerStep == KeepaliveTimer \/ InactivityTimer \/ EndDateTimer \/ CloseBoxTimer

AclStep == \/ AclModule \/ AclKeepalive \/ AclEndDate \/ AclInactivity \/ AclSharing
           \/ AclRejected \/ AclDisconnect \/ AclOther

\* The steps the process takes by itself.
LoopStep ==
    \/ FrontIsUp \/ ConnectAuth
    \/ SendAclData \/ FrontQuiet \/ FrontSendWaiting
    \/ AclQuiet \/ AclLost \/ AclStep
    \/ EndOfEvents \/ BackEvent
    \/ CatchAcl \/ CatchFront \/ CatchSession
    \/ PostLoop

Done == pc = "done" /\ UNCHANGED vars

Next ==
    \/ LoopStep \/ FrontFails \/ SendAclFails \/ SelectFails
    \/ UserStep \/ TargetStep \/ TimerStep \/ ModSendWaiting \/ GuestEvent
    \/ SesmanStep \/ CloseBoxEnds \/ Done

Spec == Init /\ [][Next]_vars

\* The loop goes on: select returns for the manager's socket or a timer and the
\* calls of an iteration return.  A pass serves every alarm that is due
\* (AlarmServed of EventManager), so the keepalive timer is not starved.
FairSpec == /\ Spec
            /\ WF_vars(LoopStep)
            /\ SF_vars(KeepaliveTimer)

----------------------------------------------------------------------------
(* Properties.                                                              *)

(* Every assertion of the modelled code holds: a session log is opened only
   when it is closed, used and closed only when it is open, and
   send_waiting_data is called only on a transport that has waiting output
   (session.cpp, session_logfile.cpp, socket_transport.cpp). *)
AssertionsHold == broken = {}

(* The assertion of get_secondary_session_log: the session log is open when an
   alternate RDP target takes it over and when a retry does. *)
AlternateLogOpen == "get" \notin broken

(* The assertion of SocketTransport::send_waiting_data: it is called on a
   transport that has waiting output. *)
WaitingOutputSent == "send_waiting" \notin broken

(* What belongs to a target goes with it: no guest watches, no capture runs
   and no output waits once the target is left (next_backend_module,
   retry_rdp), except on the way out of the loop, which stops them. *)
NothingOutlivesTarget ==
    guest # "none" \/ capture \/ "mod" \in wait => mod.sck \/ pc = "end"

(* When the loop waits with a connected target, that target is recorded in
   an open log, the keepalive of the manager is running and so is the
   inactivity timer of the user: no path of next_backend_module, of the
   retries or of the handlers leaves a target unsupervised. *)
TargetSupervised ==
    pc = "select" /\ mod.sck => log # "" /\ keepalive # "off" /\ inactivity

(* The manager's order to disconnect is obeyed within the iteration that
   receives it: when the loop waits again, the target it was given for is
   gone, whatever timers fired or errors were handled in between. *)
DisconnectObeyed == pc = "select" => "disconnect" \notin ended

(* When every message is delivered, a manager that lives is in its session
   loop whenever the process has a target: none is connected behind the
   back of the manager. *)
SessionWatched ==
    /\ pc = "select" /\ mod.sck
    /\ to_proxy = <<>> /\ to_sesman = {} /\ next_module = Unknown
    => phase \in {"target", "closed"}

(* The loss of the manager ends the session, even while output waits for a
   client or a target that no longer reads: the descriptor of the manager is
   always watched (main_loop: "writing pending, do not read anymore (excepted
   acl)"). *)
AclLossEnds == phase = "closed" ~> pc \in {"close_box", "done"}

(* A manager that stays connected but no longer answers does not keep the
   session: a keepalive request is answered or ends it (KeepAlive::start). *)
SilenceEnds == keepalive = "asked" ~> keepalive # "asked"
=============================================================================
