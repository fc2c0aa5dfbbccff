---------------------------- MODULE SessionProofs ----------------------------
(* Theorems about Session, for every configuration, every set of errors and  *)
(* every number of messages, requests and retries.                           *)
EXTENDS Session, SequenceTheorems, TLAPS

(* ModFactory always holds a module, which is connected or not; before the
   manager is connected it is no_mod. *)
IsModule(r) == r \in [name : {r.name}, sck : BOOLEAN, signal : {r.signal}, up : {r.up}]

ModuleHeld == /\ IsModule(mod)
              /\ pc \in {"wait_front", "connect"} => mod = NoMod

LEMMA Modules ==
  ASSUME NEW m
  PROVE  /\ IsModule(Internal(m)) /\ Internal(m).sck = FALSE /\ Internal(m).name = m
         /\ IsModule(Remote(m)) /\ Remote(m).sck = TRUE /\ Remote(m).name = m
         /\ IsModule(NoMod) /\ NoMod.sck = FALSE
BY DEF IsModule, Internal, Remote, NoMod

(* The inductive invariant of NothingOutlivesTarget. *)
TargetOwns == ModuleHeld /\ NothingOutlivesTarget

(* A step that touches none of the variables. *)
LEMMA TargetOwnsKept ==
  ASSUME TargetOwns, UNCHANGED <<pc, mod, guest, capture, wait>>
  PROVE  TargetOwns'
BY DEF TargetOwns, ModuleHeld, NothingOutlivesTarget, IsModule

(* next_backend_module leaves the target with all it owns. *)
LEMMA NextModuleOwns ==
  ASSUME TargetOwns, NEW m, m # Unknown, NEW tell, NextBackendModule(m, tell),
         pc \notin {"wait_front", "connect", "end"}
  PROVE  TargetOwns'
<1> USE DEF TargetOwns, ModuleHeld
<1>1. CASE ~mod.sck /\ m \in Close /\ mod.name \in Close
  BY <1>1 DEF NextBackendModule, NothingOutlivesTarget, Goto, IsModule
<1>2. CASE ~(~mod.sck /\ m \in Close /\ mod.name \in Close)
  <2>1. /\ LeaveGuest
        /\ capture' = (capture /\ KeepsRecord(m))
    BY <1>2 DEF NextBackendModule
  <2>2. ~capture' /\ guest' = "none" /\ "mod" \notin wait'
    BY <2>1 DEF LeaveGuest, KeepsRecord, NothingOutlivesTarget, NoMod, Unknown
  <2>3. mod' \in {Remote(m), Internal("transitory"), NoMod, Internal(m)}
        /\ pc' \in {"send", "end"}
    BY <1>2 DEF NextBackendModule, OpenTarget, ShowInternal, Goto
  <2>4. IsModule(mod')
    BY <2>3, Modules
  <2> QED BY <2>2, <2>3, <2>4 DEF NothingOutlivesTarget
<1> QED BY <1>1, <1>2

(* A retry keeps the target or ends the loop. *)
LEMMA RetryOwns ==
  ASSUME TargetOwns, RetryRdp
  PROVE  TargetOwns'
<1>1. mod' \in {Remote("RDP"), Internal("transitory"), NoMod}
      /\ \/ mod' = Remote("RDP") /\ pc' = "send" 
         \/ pc' = "end"
  BY DEF RetryRdp, Goto
<1> QED BY <1>1, Modules DEF TargetOwns, ModuleHeld, NothingOutlivesTarget

(* Leaving the loop and what it shows of the state. *)
LEMMA LeaveOwns ==
  ASSUME TargetOwns, LeaveLoop, UNCHANGED guest
  PROVE  TargetOwns'
BY DEF TargetOwns, ModuleHeld, NothingOutlivesTarget, LeaveLoop, Goto, record, IsModule

(* Every step of the session keeps the invariant. *)
LEMMA StepOwns ==
  ASSUME TargetOwns, [Next]_vars
  PROVE  TargetOwns'
<1> DEFINE owned == <<mod, guest, capture, wait>>
<1>q. ASSUME UNCHANGED owned, pc # "end", pc' \notin {"wait_front", "connect"}
      PROVE  TargetOwns'
  BY <1>q DEF TargetOwns, ModuleHeld, NothingOutlivesTarget, IsModule
<1> USE DEF Goto, Raise, record, loop, history, Selected, FrontOnly, Incoming,
            Callback, Readable
<1>1. CASE FrontIsUp \/ FrontFails
  BY <1>1 DEF FrontIsUp, FrontFails, TargetOwns, ModuleHeld, NothingOutlivesTarget, IsModule
<1>2. CASE ConnectAuth
  <2>1. mod' \in {NoMod, Internal("close")} /\ pc' \in {"send", "close_box", "done"}
        /\ UNCHANGED <<guest, capture, wait>> /\ mod = NoMod /\ pc = "connect"
    BY <1>2 DEF ConnectAuth, TargetOwns, ModuleHeld
  <2> QED BY <2>1, Modules DEF TargetOwns, ModuleHeld, NothingOutlivesTarget
<1>3. CASE SendAclData
  BY <1>3, <1>q DEF SendAclData
<1>4. CASE SendAclFails
  BY <1>4, <1>q DEF SendAclFails
<1>5. CASE SelectFails
  BY <1>5, <1>q DEF SelectFails
<1>6. CASE FrontQuiet
  BY <1>6, <1>q DEF FrontQuiet
<1>7. CASE FrontResizes
  BY <1>7, <1>q DEF FrontResizes
<1>8. CASE FrontLeaves
  BY <1>8, <1>q DEF FrontLeaves
<1>9. CASE AclQuiet
  BY <1>9, <1>q DEF AclQuiet
<1>10. CASE AclLost
  BY <1>10, <1>q DEF AclLost
<1>11. CASE AclModule
  BY <1>11, <1>q DEF AclModule
<1>12. CASE AclKeepalive
  BY <1>12, <1>q DEF AclKeepalive
<1>13. CASE AclEndDate
  BY <1>13, <1>q DEF AclEndDate
<1>14. CASE AclInactivity
  BY <1>14, <1>q DEF AclInactivity
<1>15. CASE AclRejected
  BY <1>15, <1>q DEF AclRejected
<1>16. CASE AclDisconnect
  BY <1>16, <1>q DEF AclDisconnect
<1>17. CASE AclOther
  BY <1>17, <1>q DEF AclOther
<1>18. CASE ModThrows
  BY <1>18, <1>q DEF ModThrows, Settled
<1>19. CASE KeepaliveTimer
  BY <1>19, <1>q DEF KeepaliveTimer
<1>20. CASE InactivityTimer
  BY <1>20, <1>q DEF InactivityTimer
<1>21. CASE EndDateTimer
  BY <1>21, <1>q DEF EndDateTimer
<1>22. CASE EndOfEvents
  BY <1>22, <1>q DEF EndOfEvents
<1>23. CASE CatchAcl
  BY <1>23, <1>q DEF CatchAcl
<1>24. CASE FrontSendWaiting
  <2>1. /\ UNCHANGED <<mod, guest, capture>> /\ wait' \subseteq wait /\ pc = "select"
        /\ pc' = "acl"
    BY <1>24 DEF FrontSendWaiting
  <2> QED BY <2>1 DEF TargetOwns, ModuleHeld, NothingOutlivesTarget, IsModule
<1>25. CASE UserAnswers
  BY <1>25 DEF UserAnswers, TargetOwns, ModuleHeld, NothingOutlivesTarget, IsModule
<1>26. CASE UserInput
  BY <1>26 DEF UserInput, TargetOwns, ModuleHeld, NothingOutlivesTarget, IsModule
<1>27. CASE AclSharing
  BY <1>27 DEF AclSharing, TargetOwns, ModuleHeld, NothingOutlivesTarget, IsModule
<1>28. CASE ModSendWaiting
  BY <1>28 DEF ModSendWaiting, TargetOwns, ModuleHeld, NothingOutlivesTarget, IsModule
<1>29. CASE ModConnected
  BY <1>29 DEF ModConnected, TargetOwns, ModuleHeld, NothingOutlivesTarget, IsModule
<1>30. CASE ModOutput
  BY <1>30 DEF ModOutput, TargetOwns, ModuleHeld, NothingOutlivesTarget, IsModule
<1>31. CASE ModEnds
  BY <1>31 DEF ModEnds, TargetOwns, ModuleHeld, NothingOutlivesTarget, IsModule
<1>32. CASE CloseBoxTimer
  BY <1>32 DEF CloseBoxTimer, TargetOwns, ModuleHeld, NothingOutlivesTarget, IsModule
<1>33. CASE GuestEvent
  BY <1>33 DEF GuestEvent, TargetOwns, ModuleHeld, NothingOutlivesTarget, IsModule
<1>34. CASE BackEvent
  <2>1. CASE back_event = "stop" \/ Wanted = Unknown \/ (Wanted \in Close /\ "close_box" \notin Option)
    BY <1>34, <2>1, <1>q DEF BackEvent
  <2>2. CASE ~(back_event = "stop" \/ Wanted = Unknown \/ (Wanted \in Close /\ "close_box" \notin Option))
    BY <1>34, <2>2, NextModuleOwns DEF BackEvent
  <2> QED BY <2>1, <2>2
<1>35. CASE CatchFront
  BY <1>35, RetryOwns, LeaveOwns DEF CatchFront
<1>36. CASE CatchSession
  <2>1. "close" # Unknown /\ pc = "catch"
    BY <1>36 DEF Unknown, CatchSession
  <2> QED BY <1>36, <2>1, RetryOwns, LeaveOwns, NextModuleOwns DEF CatchSession
<1>37. CASE PostLoop
  <2>1. guest' = "none" /\ ~capture' /\ "mod" \notin wait' /\ mod' \in {NoMod, mod}
        /\ pc' \in {"close_box", "done"}
    BY <1>37 DEF PostLoop
  <2> QED BY <2>1, Modules DEF TargetOwns, ModuleHeld, NothingOutlivesTarget
<1>38. CASE CloseBoxEnds
  BY <1>38 DEF CloseBoxEnds, TargetOwns, ModuleHeld, NothingOutlivesTarget, IsModule
<1>39. CASE SesmanStep
  BY <1>39, TargetOwnsKept DEF SesmanStep, process
<1>40. CASE Done \/ UNCHANGED vars
  BY <1>40, TargetOwnsKept DEF Done, vars
<1> QED
  BY <1>1, <1>2, <1>3, <1>4, <1>5, <1>6, <1>7, <1>8, <1>9, <1>10, <1>11, <1>12, <1>13,
      <1>14, <1>15, <1>16, <1>17, <1>18, <1>19, <1>20, <1>21, <1>22, <1>23, <1>24, <1>25,
      <1>26, <1>27, <1>28, <1>29, <1>30, <1>31, <1>32, <1>33, <1>34, <1>35, <1>36, <1>37,
      <1>38, <1>39, <1>40
  DEF Next, LoopStep, UserStep, TargetStep, TimerStep, AclStep

(* What belongs to a target goes with it, on every path out of a target
   (NothingOutlivesTarget). *)
THEOREM OwnedByTarget == Spec => []NothingOutlivesTarget
<1>1. Init => TargetOwns
  BY Modules DEF Init, TargetOwns, ModuleHeld, NothingOutlivesTarget
<1>2. TargetOwns /\ [Next]_vars => TargetOwns'
  BY StepOwns
<1>3. TargetOwns => NothingOutlivesTarget
  BY DEF TargetOwns
<1> QED BY <1>1, <1>2, <1>3, PTL DEF Spec

----------------------------------------------------------------------------
(* The errors of the timers: end_session_exception shows the close box for them. *)
TimerError == {"keepalive", "inactivity", "end_date"}

(* Between the order to disconnect and the loss of the target the loop only
   goes forward: no descriptor is served, and a timer that throws closes. *)
Leaving ==
    \/ mod.sck /\ pc \in {"events", "back"} /\ back_event \in {"next", "stop"}
    \/ mod.sck /\ pc = "catch" /\ exc.where = "EventLoop" /\ exc.id \in TimerError
    \/ pc \in {"end", "close_box", "done"}

Obeys == IsModule(mod) /\ ("disconnect" \in ended => Leaving)

(* An error of a timer is never answered by a retry. *)
LEMMA TimerErrorsClose ==
  ASSUME NEW id \in TimerError
  PROVE  EndSessionException(id) = {"close_box"}
BY DEF TimerError, EndSessionException

(* next_backend_module forgets the order with the target it was given for. *)
LEMMA NextModuleObeys ==
  ASSUME Obeys, NEW m, NEW tell, NextBackendModule(m, tell), "disconnect" \in ended => mod.sck
  PROVE  Obeys'
<1>1. CASE ~mod.sck /\ m \in Close /\ mod.name \in Close
  BY <1>1 DEF NextBackendModule, Obeys, IsModule
<1>2. CASE ~(~mod.sck /\ m \in Close /\ mod.name \in Close)
  <2>1. mod' \in {Remote(m), Internal("transitory"), NoMod, Internal(m)}
        /\ "disconnect" \notin ended'
    BY <1>2 DEF NextBackendModule, OpenTarget, ShowInternal
  <2> QED BY <2>1, Modules DEF Obeys
<1> QED BY <1>1, <1>2

(* Every step keeps it. *)
LEMMA StepObeys ==
  ASSUME Obeys, [Next]_vars
  PROVE  Obeys'
<1> USE DEF Goto, Raise, loop, history, Selected, FrontOnly, Incoming, Callback,
            Readable, CanReadEvents
<1>1. CASE FrontIsUp
  BY <1>1 DEF FrontIsUp, Obeys, Leaving, TimerError, IsModule
<1>2. CASE FrontFails
  BY <1>2 DEF FrontFails, Obeys, Leaving, TimerError, IsModule
<1>3. CASE SendAclData
  BY <1>3 DEF SendAclData, Obeys, Leaving, TimerError, IsModule
<1>4. CASE SendAclFails
  BY <1>4 DEF SendAclFails, Obeys, Leaving, TimerError, IsModule
<1>5. CASE SelectFails
  BY <1>5 DEF SelectFails, Obeys, Leaving, TimerError, IsModule
<1>6. CASE FrontQuiet
  BY <1>6 DEF FrontQuiet, Obeys, Leaving, TimerError, IsModule
<1>7. CASE FrontSendWaiting
  BY <1>7 DEF FrontSendWaiting, Obeys, Leaving, TimerError, IsModule
<1>8. CASE FrontResizes
  BY <1>8 DEF FrontResizes, Obeys, Leaving, TimerError, IsModule
<1>9. CASE FrontLeaves
  BY <1>9 DEF FrontLeaves, Obeys, Leaving, TimerError, IsModule
<1>10. CASE UserInput
  BY <1>10 DEF UserInput, Obeys, Leaving, TimerError, IsModule
<1>11. CASE AclQuiet
  BY <1>11 DEF AclQuiet, Obeys, Leaving, TimerError, IsModule
<1>12. CASE AclLost
  BY <1>12 DEF AclLost, Obeys, Leaving, TimerError, IsModule
<1>13. CASE AclModule
  BY <1>13 DEF AclModule, Obeys, Leaving, TimerError, IsModule
<1>14. CASE AclKeepalive
  BY <1>14 DEF AclKeepalive, Obeys, Leaving, TimerError, IsModule
<1>15. CASE AclEndDate
  BY <1>15 DEF AclEndDate, Obeys, Leaving, TimerError, IsModule
<1>16. CASE AclInactivity
  BY <1>16 DEF AclInactivity, Obeys, Leaving, TimerError, IsModule
<1>17. CASE AclSharing
  BY <1>17 DEF AclSharing, Obeys, Leaving, TimerError, IsModule
<1>18. CASE AclRejected
  BY <1>18 DEF AclRejected, Obeys, Leaving, TimerError, IsModule
<1>19. CASE AclDisconnect
  BY <1>19 DEF AclDisconnect, Obeys, Leaving, TimerError, IsModule
<1>20. CASE AclOther
  BY <1>20 DEF AclOther, Obeys, Leaving, TimerError, IsModule
<1>21. CASE ModSendWaiting
  BY <1>21 DEF ModSendWaiting, Obeys, Leaving, TimerError, IsModule
<1>22. CASE ModOutput
  BY <1>22 DEF ModOutput, Obeys, Leaving, TimerError, IsModule
<1>23. CASE ModThrows
  BY <1>23 DEF ModThrows, Obeys, Leaving, TimerError, IsModule
<1>24. CASE KeepaliveTimer
  BY <1>24 DEF KeepaliveTimer, Obeys, Leaving, TimerError, IsModule
<1>25. CASE InactivityTimer
  BY <1>25 DEF InactivityTimer, Obeys, Leaving, TimerError, IsModule
<1>26. CASE EndDateTimer
  BY <1>26 DEF EndDateTimer, Obeys, Leaving, TimerError, IsModule
<1>27. CASE GuestEvent
  BY <1>27 DEF GuestEvent, Obeys, Leaving, TimerError, IsModule
<1>28. CASE EndOfEvents
  BY <1>28 DEF EndOfEvents, Obeys, Leaving, TimerError, IsModule
<1>29. CASE CatchAcl
  BY <1>29 DEF CatchAcl, Obeys, Leaving, TimerError, IsModule
<1>30. CASE UserAnswers
  BY <1>30 DEF UserAnswers, Obeys, Leaving, TimerError, IsModule
<1>31. CASE ModConnected
  BY <1>31 DEF ModConnected, Obeys, Leaving, TimerError, IsModule
<1>32. CASE ModEnds
  BY <1>32 DEF ModEnds, Obeys, Leaving, TimerError, IsModule
<1>33. CASE CloseBoxTimer
  BY <1>33 DEF CloseBoxTimer, Obeys, Leaving, TimerError, IsModule
<1>34. CASE CloseBoxEnds
  BY <1>34 DEF CloseBoxEnds, Obeys, Leaving, TimerError, IsModule
<1>35. CASE ConnectAuth
  <2>1. mod' \in {mod, Internal("close")} /\ pc' \in {"send", "close_box", "done"}
        /\ UNCHANGED ended /\ pc = "connect"
    BY <1>35 DEF ConnectAuth
  <2> QED BY <2>1, Modules DEF Obeys, Leaving
<1>36. CASE BackEvent
  <2>1. CASE back_event = "stop" \/ (Wanted \in Close /\ "close_box" \notin Option)
    BY <1>36, <2>1 DEF BackEvent, Obeys, Leaving, IsModule, Unknown, Close
  <2>2. CASE back_event # "stop" /\ Wanted = Unknown
    <3>1. back_event # "next"
      BY <2>2 DEF Wanted, Unknown
    <3> QED BY <1>36, <2>2, <3>1 DEF BackEvent, Obeys, Leaving, IsModule
  <2>3. CASE /\ back_event # "stop" /\ Wanted # Unknown
             /\ ~(Wanted \in Close /\ "close_box" \notin Option)
    BY <1>36, <2>3, NextModuleObeys DEF BackEvent, Obeys, Leaving
  <2> QED BY <2>1, <2>2, <2>3
<1>37. CASE CatchFront
  <2>1. "disconnect" \notin ended /\ UNCHANGED ended
    BY <1>37 DEF CatchFront, Obeys, Leaving
  <2>2. mod' \in {mod, Remote("RDP"), Internal("transitory"), NoMod}
    BY <1>37 DEF CatchFront, RetryRdp, LeaveLoop
  <2> QED BY <2>1, <2>2, Modules DEF Obeys
<1>38. CASE CatchSession
  <2>1. CASE LeaveLoop /\ UNCHANGED ended
    BY <2>1 DEF LeaveLoop, Obeys, Leaving, IsModule
  <2>2. CASE NextBackendModule("close", mod.sck)
    BY <1>38, <2>2, NextModuleObeys DEF CatchSession, Obeys, Leaving
  <2>3. CASE RetryRdp /\ "retry" \in EndSessionException(exc.id) /\ UNCHANGED ended
    <3>1. "disconnect" \notin ended
      BY <1>38, <2>3, TimerErrorsClose DEF CatchSession, Obeys, Leaving
    <3>2. mod' \in {Remote("RDP"), Internal("transitory"), NoMod}
      BY <2>3 DEF RetryRdp
    <3> QED BY <2>3, <3>1, <3>2, Modules DEF Obeys
  <2> QED BY <1>38, <2>1, <2>2, <2>3 DEF CatchSession
<1>39. CASE PostLoop
  <2>1. mod' \in {NoMod, mod} /\ pc' \in {"close_box", "done"}
    BY <1>39 DEF PostLoop
  <2> QED BY <2>1, Modules DEF Obeys, Leaving
<1>40. CASE SesmanStep
  BY <1>40 DEF SesmanStep, process, Obeys, Leaving, TimerError, IsModule
<1>41. CASE Done \/ UNCHANGED vars
  BY <1>41 DEF Done, vars, Obeys, Leaving, TimerError, IsModule
<1> QED
  BY <1>1, <1>2, <1>3, <1>4, <1>5, <1>6, <1>7, <1>8, <1>9, <1>10, <1>11,
     <1>12, <1>13, <1>14, <1>15, <1>16, <1>17, <1>18, <1>19, <1>20, <1>21,
     <1>22, <1>23, <1>24, <1>25, <1>26, <1>27, <1>28, <1>29, <1>30, <1>31,
     <1>32, <1>33, <1>34, <1>35, <1>36, <1>37, <1>38, <1>39, <1>40, <1>41
  DEF Next, LoopStep, UserStep, TargetStep, TimerStep, AclStep

(* The manager's order to disconnect is obeyed before the loop waits again, in
   every configuration (DisconnectObeyed). *)
THEOREM DisconnectIsObeyed == Spec => []DisconnectObeyed
<1>1. Init => Obeys
  BY Modules DEF Init, Obeys
<1>2. Obeys /\ [Next]_vars => Obeys'
  BY StepObeys
<1>3. Obeys => DisconnectObeyed
  BY DEF Obeys, Leaving, DisconnectObeyed
<1> QED BY <1>1, <1>2, <1>3, PTL DEF Spec

----------------------------------------------------------------------------
(* The inductive invariant of TargetSupervised.  A connected target has a timer
   that runs, unless the error of that very timer is being handled, which leaves
   the target, or the loop is over. *)
Handles(id) == pc = "catch" /\ exc.where = "EventLoop" /\ exc.id = id

KeepaliveRuns == mod.sck => keepalive # "off" \/ pc = "end" \/ Handles("keepalive")

InactivityRuns == mod.sck => inactivity = TRUE \/ pc = "end" \/ Handles("inactivity")

(* Only a connected target throws an error that may be answered by a retry. *)
ErrorHasTarget ==
    pc = "catch" /\ exc.where \in {"AclUpdate", "EventLoop"} /\ exc.id \notin TimerError
        => mod.sck

(* A module named by the manager is opened in the iteration that reads it, and
   then context::module is still the one it was named by. *)
NextModuleFresh ==
    /\ pc \in {"wait_front", "connect", "send", "select", "acl", "catch"}
          => next_module = Unknown
    /\ pc \in {"events", "back"} =>
          /\ next_module # Unknown => back_event = "next"
          /\ next_module \in Targets => ini.module \in Targets

Supervises ==
    /\ IsModule(mod) /\ (mod.sck => mod.name \in Targets)
    /\ ErrorHasTarget /\ KeepaliveRuns /\ InactivityRuns /\ NextModuleFresh

(* next_backend_module starts both timers for a target. *)
LEMMA NextModuleSupervises ==
  ASSUME Supervises, NEW m, NEW tell, NextBackendModule(m, tell),
         m \in Targets => ini.module \in Targets, next_module' = Unknown
  PROVE  Supervises'
<1>1. CASE ~mod.sck /\ m \in Close /\ mod.name \in Close
  BY <1>1 DEF NextBackendModule, Goto, Supervises, IsModule, ErrorHasTarget, KeepaliveRuns,
      InactivityRuns, NextModuleFresh
<1>2. CASE ~(~mod.sck /\ m \in Close /\ mod.name \in Close)
  <2>1. pc' \in {"send", "end"}
    BY <1>2 DEF NextBackendModule, OpenTarget, ShowInternal, Goto
  <2>2. \/ mod' = Remote(m) /\ m \in Targets /\ inactivity' = SetInactivityTimeout
           /\ keepalive' = "armed"
        \/ mod' \in {Internal("transitory"), NoMod, Internal(m)}
    BY <1>2 DEF NextBackendModule, OpenTarget, ShowInternal
  <2>3. CASE mod' = Remote(m) /\ m \in Targets /\ inactivity' = SetInactivityTimeout
             /\ keepalive' = "armed"
    BY <2>1, <2>3, Modules DEF Supervises, SetInactivityTimeout, ErrorHasTarget,
        KeepaliveRuns, InactivityRuns, NextModuleFresh
  <2>4. CASE mod' \in {Internal("transitory"), NoMod, Internal(m)}
    BY <2>1, <2>4, Modules DEF Supervises, ErrorHasTarget, KeepaliveRuns, InactivityRuns,
        NextModuleFresh
  <2> QED BY <2>2, <2>3, <2>4
<1> QED BY <1>1, <1>2

(* A retry finds them running and leaves them alone. *)
LEMMA RetrySupervises ==
  ASSUME Supervises, RetryRdp, UNCHANGED <<keepalive, inactivity, next_module>>,
         mod.sck, pc = "catch", ~Handles("keepalive"), ~Handles("inactivity")
  PROVE  Supervises'
<1>1. \/ mod' = Remote("RDP") /\ pc' = "send"
      \/ mod' \in {Internal("transitory"), NoMod} /\ pc' = "end"
  BY DEF RetryRdp, Goto
<1>2. keepalive # "off" /\ inactivity = TRUE /\ next_module = Unknown
  BY DEF Supervises, KeepaliveRuns, InactivityRuns, NextModuleFresh
<1>3. CASE mod' = Remote("RDP") /\ pc' = "send"
  BY <1>2, <1>3, Modules DEF Supervises, ErrorHasTarget, KeepaliveRuns, InactivityRuns,
      NextModuleFresh, Targets
<1>4. CASE mod' \in {Internal("transitory"), NoMod} /\ pc' = "end"
  BY <1>4, Modules DEF Supervises, ErrorHasTarget, KeepaliveRuns, InactivityRuns,
      NextModuleFresh
<1> QED BY <1>1, <1>3, <1>4

(* Every step keeps it when a timer does not throw past a change of module. *)
LEMMA StepSupervises ==
  ASSUME Supervises, [Next]_vars, ~TimersRace
  PROVE  Supervises'
<1> USE DEF Goto, Raise, loop, history, supervision, Selected, FrontOnly, Incoming,
            Callback, Readable, CanReadEvents
<1>1. CASE FrontIsUp
  BY <1>1 DEF FrontIsUp, Supervises, IsModule,
      ErrorHasTarget, KeepaliveRuns, InactivityRuns, Handles, NextModuleFresh, TimerError
<1>2. CASE FrontFails
  BY <1>2 DEF FrontFails, Supervises, IsModule,
      ErrorHasTarget, KeepaliveRuns, InactivityRuns, Handles, NextModuleFresh, TimerError
<1>3. CASE SendAclData
  BY <1>3 DEF SendAclData, Supervises, IsModule,
      ErrorHasTarget, KeepaliveRuns, InactivityRuns, Handles, NextModuleFresh, TimerError
<1>4. CASE SendAclFails
  BY <1>4 DEF SendAclFails, Supervises, IsModule,
      ErrorHasTarget, KeepaliveRuns, InactivityRuns, Handles, NextModuleFresh, TimerError
<1>5. CASE SelectFails
  BY <1>5 DEF SelectFails, Supervises, IsModule,
      ErrorHasTarget, KeepaliveRuns, InactivityRuns, Handles, NextModuleFresh, TimerError
<1>6. CASE FrontQuiet
  BY <1>6 DEF FrontQuiet, Supervises, IsModule,
      ErrorHasTarget, KeepaliveRuns, InactivityRuns, Handles, NextModuleFresh, TimerError
<1>7. CASE FrontSendWaiting
  BY <1>7 DEF FrontSendWaiting, Supervises, IsModule,
      ErrorHasTarget, KeepaliveRuns, InactivityRuns, Handles, NextModuleFresh, TimerError
<1>8. CASE UserAnswers
  BY <1>8 DEF UserAnswers, Supervises, IsModule,
      ErrorHasTarget, KeepaliveRuns, InactivityRuns, Handles, NextModuleFresh, TimerError
<1>9. CASE UserInput
  BY <1>9 DEF UserInput, Supervises, IsModule,
      ErrorHasTarget, KeepaliveRuns, InactivityRuns, Handles, NextModuleFresh, TimerError
<1>10. CASE FrontResizes
  BY <1>10 DEF FrontResizes, Supervises, IsModule,
      ErrorHasTarget, KeepaliveRuns, InactivityRuns, Handles, NextModuleFresh, TimerError
<1>11. CASE FrontLeaves
  BY <1>11 DEF FrontLeaves, Supervises, IsModule,
      ErrorHasTarget, KeepaliveRuns, InactivityRuns, Handles, NextModuleFresh, TimerError
<1>12. CASE AclQuiet
  BY <1>12 DEF AclQuiet, Unknown, Targets, Supervises, IsModule,
      ErrorHasTarget, KeepaliveRuns, InactivityRuns, Handles, NextModuleFresh, TimerError
<1>13. CASE AclLost
  BY <1>13 DEF AclLost, Unknown, Targets, Supervises, IsModule,
      ErrorHasTarget, KeepaliveRuns, InactivityRuns, Handles, NextModuleFresh, TimerError
<1>14. CASE AclModule
  BY <1>14 DEF AclModule, Unknown, Targets, Supervises, IsModule,
      ErrorHasTarget, KeepaliveRuns, InactivityRuns, Handles, NextModuleFresh, TimerError
<1>15. CASE AclKeepalive
  BY <1>15 DEF AclKeepalive, Unknown, Targets, Supervises, IsModule,
      ErrorHasTarget, KeepaliveRuns, InactivityRuns, Handles, NextModuleFresh, TimerError
<1>16. CASE AclEndDate
  BY <1>16 DEF AclEndDate, Unknown, Targets, Supervises, IsModule,
      ErrorHasTarget, KeepaliveRuns, InactivityRuns, Handles, NextModuleFresh, TimerError
<1>17. CASE AclInactivity
  BY <1>17 DEF AclInactivity, Unknown, Targets, SetInactivityTimeout, Supervises, IsModule,
      ErrorHasTarget, KeepaliveRuns, InactivityRuns, Handles, NextModuleFresh, TimerError
<1>18. CASE AclSharing
  BY <1>18 DEF AclSharing, Unknown, Targets, Supervises, IsModule,
      ErrorHasTarget, KeepaliveRuns, InactivityRuns, Handles, NextModuleFresh, TimerError
<1>19. CASE AclRejected
  BY <1>19 DEF AclRejected, Unknown, Targets, Supervises, IsModule,
      ErrorHasTarget, KeepaliveRuns, InactivityRuns, Handles, NextModuleFresh, TimerError
<1>20. CASE AclDisconnect
  BY <1>20 DEF AclDisconnect, Unknown, Targets, Supervises, IsModule,
      ErrorHasTarget, KeepaliveRuns, InactivityRuns, Handles, NextModuleFresh, TimerError
<1>21. CASE AclOther
  BY <1>21 DEF AclOther, Unknown, Targets, Supervises, IsModule,
      ErrorHasTarget, KeepaliveRuns, InactivityRuns, Handles, NextModuleFresh, TimerError
<1>22. CASE ModSendWaiting
  BY <1>22 DEF ModSendWaiting, Supervises, IsModule,
      ErrorHasTarget, KeepaliveRuns, InactivityRuns, Handles, NextModuleFresh, TimerError
<1>23. CASE ModConnected
  BY <1>23 DEF ModConnected, Supervises, IsModule,
      ErrorHasTarget, KeepaliveRuns, InactivityRuns, Handles, NextModuleFresh, TimerError
<1>24. CASE ModOutput
  BY <1>24 DEF ModOutput, Supervises, IsModule,
      ErrorHasTarget, KeepaliveRuns, InactivityRuns, Handles, NextModuleFresh, TimerError
<1>25. CASE ModEnds
  BY <1>25 DEF ModEnds, Supervises, IsModule,
      ErrorHasTarget, KeepaliveRuns, InactivityRuns, Handles, NextModuleFresh, TimerError
<1>26. CASE ModThrows
  <2>1. PICK id \in ModError : Raise("EventLoop", id)
    BY <1>26 DEF ModThrows, Raisable
  <2>2. id \notin TimerError
    BY SessionAssumption DEF TimerError
  <2> QED BY <1>26, <2>1, <2>2 DEF ModThrows, Supervises, IsModule,
      ErrorHasTarget, KeepaliveRuns, InactivityRuns, Handles, NextModuleFresh, TimerError
<1>27. CASE KeepaliveTimer
  BY <1>27 DEF KeepaliveTimer, MayEnd, Supervises, IsModule,
      ErrorHasTarget, KeepaliveRuns, InactivityRuns, Handles, NextModuleFresh, TimerError
<1>28. CASE InactivityTimer
  BY <1>28 DEF InactivityTimer, MayEnd, Supervises, IsModule,
      ErrorHasTarget, KeepaliveRuns, InactivityRuns, Handles, NextModuleFresh, TimerError
<1>29. CASE EndDateTimer
  BY <1>29 DEF EndDateTimer, MayEnd, Supervises, IsModule,
      ErrorHasTarget, KeepaliveRuns, InactivityRuns, Handles, NextModuleFresh, TimerError
<1>30. CASE CloseBoxTimer
  BY <1>30 DEF CloseBoxTimer, Supervises, IsModule,
      ErrorHasTarget, KeepaliveRuns, InactivityRuns, Handles, NextModuleFresh, TimerError
<1>31. CASE GuestEvent
  BY <1>31 DEF GuestEvent, Supervises, IsModule,
      ErrorHasTarget, KeepaliveRuns, InactivityRuns, Handles, NextModuleFresh, TimerError
<1>32. CASE EndOfEvents
  BY <1>32 DEF EndOfEvents, Supervises, IsModule,
      ErrorHasTarget, KeepaliveRuns, InactivityRuns, Handles, NextModuleFresh, TimerError
<1>33. CASE CatchAcl
  BY <1>33 DEF CatchAcl, Supervises, IsModule,
      ErrorHasTarget, KeepaliveRuns, InactivityRuns, Handles, NextModuleFresh, TimerError
<1>34. CASE ConnectAuth
  <2>1. mod' \in {mod, Internal("close")} /\ pc' \in {"send", "close_box", "done"}
        /\ UNCHANGED <<next_module, keepalive, inactivity>> /\ pc = "connect"
    BY <1>34 DEF ConnectAuth, supervision
  <2> QED BY <2>1, Modules DEF Supervises, ErrorHasTarget, KeepaliveRuns, InactivityRuns,
        NextModuleFresh, Handles
<1>35. CASE BackEvent
  <2>1. CASE back_event = "stop" \/ Wanted = Unknown
             \/ (Wanted \in Close /\ "close_box" \notin Option)
    BY <1>35, <2>1 DEF BackEvent, Wanted, Unknown, Supervises, IsModule,
      ErrorHasTarget, KeepaliveRuns, InactivityRuns, Handles, NextModuleFresh, TimerError
  <2>2. CASE /\ back_event # "stop" /\ Wanted # Unknown
             /\ ~(Wanted \in Close /\ "close_box" \notin Option)
    <3>1. Wanted \in Targets => ini.module \in Targets
      BY <1>35 DEF BackEvent, Wanted, Supervises, NextModuleFresh, Targets
    <3> QED BY <1>35, <2>2, <3>1, NextModuleSupervises DEF BackEvent
  <2> QED BY <2>1, <2>2
<1>36. CASE CatchFront
  <2>1. CASE LeaveLoop
    BY <1>36, <2>1 DEF CatchFront, LeaveLoop, Supervises, IsModule,
      ErrorHasTarget, KeepaliveRuns, InactivityRuns, Handles, NextModuleFresh, TimerError
  <2>2. CASE Reconnectable /\ RetryRdp
    BY <1>36, <2>2, RetrySupervises DEF CatchFront, Reconnectable, Handles, supervision
  <2> QED BY <1>36, <2>1, <2>2 DEF CatchFront
<1>37. CASE CatchSession
  <2>1. CASE LeaveLoop /\ UNCHANGED <<keepalive, inactivity>>
    BY <1>37, <2>1 DEF CatchSession, LeaveLoop, Supervises, IsModule,
      ErrorHasTarget, KeepaliveRuns, InactivityRuns, Handles, NextModuleFresh, TimerError
  <2>2. CASE NextBackendModule("close", mod.sck)
    <3>1. next_module' = Unknown /\ "close" \notin Targets
      BY <1>37 DEF CatchSession, Supervises, NextModuleFresh, Targets
    <3> QED BY <2>2, <3>1, NextModuleSupervises
  <2>3. CASE RetryRdp /\ "retry" \in EndSessionException(exc.id)
             /\ UNCHANGED <<keepalive, inactivity>>
    <3>1. exc.id \notin TimerError
      BY <2>3, TimerErrorsClose
    <3>2. mod.sck /\ pc = "catch" /\ ~Handles("keepalive") /\ ~Handles("inactivity")
      BY <1>37, <3>1 DEF CatchSession, Supervises, ErrorHasTarget, Handles, TimerError
    <3> QED BY <1>37, <2>3, <3>2, RetrySupervises DEF CatchSession
  <2> QED BY <1>37, <2>1, <2>2, <2>3 DEF CatchSession
<1>38. CASE PostLoop
  <2>1. pc' \in {"close_box", "done"} /\ mod' \in {NoMod, mod}
        /\ (mod' = mod \/ mod' = NoMod) /\ (mod' # NoMod => mod.name = "close")
    BY <1>38 DEF PostLoop
  <2>2. mod'.sck = FALSE /\ IsModule(mod')
    BY <2>1, Modules DEF Supervises, IsModule, Targets
  <2> QED BY <2>1, <2>2 DEF Supervises, ErrorHasTarget, KeepaliveRuns, InactivityRuns,
        NextModuleFresh
<1>39. CASE CloseBoxEnds
  BY <1>39 DEF CloseBoxEnds, Supervises, IsModule,
      ErrorHasTarget, KeepaliveRuns, InactivityRuns, Handles, NextModuleFresh, TimerError
<1>40. CASE SesmanStep
  BY <1>40 DEF SesmanStep, process, Supervises, IsModule,
      ErrorHasTarget, KeepaliveRuns, InactivityRuns, Handles, NextModuleFresh, TimerError
<1>41. CASE Done \/ UNCHANGED vars
  BY <1>41 DEF Done, vars, Supervises, IsModule,
      ErrorHasTarget, KeepaliveRuns, InactivityRuns, Handles, NextModuleFresh, TimerError
<1> QED
  BY <1>1, <1>2, <1>3, <1>4, <1>5, <1>6, <1>7, <1>8, <1>9, <1>10, <1>11,
     <1>12, <1>13, <1>14, <1>15, <1>16, <1>17, <1>18, <1>19, <1>20, <1>21,
     <1>22, <1>23, <1>24, <1>25, <1>26, <1>27, <1>28, <1>29, <1>30, <1>31,
     <1>32, <1>33, <1>34, <1>35, <1>36, <1>37, <1>38, <1>39, <1>40, <1>41
  DEF Next, LoopStep, UserStep, TargetStep, TimerStep, AclStep

----------------------------------------------------------------------------
(* Behind a service with one physical target no message asks for an alternate
   one. *)
FirstMessage == {m \in Message : m.alt = FALSE /\ m.more = FALSE}

OneTarget ==
    /\ to_proxy \in Seq(FirstMessage) /\ left = 0
    /\ ini \in [module : {ini.module}, alt : {FALSE}, more : {FALSE}]

LEMMA FirstMessages ==
  /\ \A k \in Kinds : Plain(k) \in FirstMessage
  /\ \A m \in Interactive \cup Close \cup {"transitory"} : Module(m) \in FirstMessage
  /\ \A p \in Protocol : Target(p, FALSE, FALSE) \in FirstMessage
<1>1. ASSUME NEW k \in Kinds PROVE Plain(k) \in FirstMessage
  BY DEF Plain, FirstMessage, Message
<1>2. ASSUME NEW m \in Interactive \cup Close \cup {"transitory"}
      PROVE  Module(m) \in FirstMessage
  <2>1. Module(m) \in Message
    BY DEF Module, Plain, Message, Kinds
  <2>2. Module(m).alt = FALSE /\ Module(m).more = FALSE
    BY DEF Module, Plain
  <2> QED BY <2>1, <2>2 DEF FirstMessage
<1>3. ASSUME NEW p \in Protocol PROVE Target(p, FALSE, FALSE) \in FirstMessage
  BY DEF Target, FirstMessage, Message, Kinds
<1> QED BY <1>1, <1>2, <1>3

(* The manager keeps it that way. *)
LEMMA SesmanOneTarget ==
  ASSUME OneTarget, MaxTargets = 1, SesmanStep
  PROVE  OneTarget'
<1> USE DEF OneTarget
<1>i. ini' = ini
  BY DEF SesmanStep, process
<1>a. ASSUME NEW ms \in Seq(FirstMessage), SendAll(ms) PROVE to_proxy' \in Seq(FirstMessage)
  BY <1>a DEF SendAll
<1>s. ASSUME NEW m \in FirstMessage, Send(m) PROVE to_proxy' \in Seq(FirstMessage)
  <2>1. <<m>> \in Seq(FirstMessage)
    OBVIOUS
  <2> QED BY <1>s, <2>1, <1>a DEF Send
<1>c. Module("close") \in FirstMessage /\ Module("close_back") \in FirstMessage
      /\ Module("transitory") \in FirstMessage
  BY FirstMessages DEF Close
<1>l. ASSUME NEW tn, NEW closed, LeaveTarget(tn, closed)
      PROVE  to_proxy' \in Seq(FirstMessage) /\ left' = 0
  <2>1. left' = 0
    BY <1>l DEF LeaveTarget
  <2>2. \/ Send(Module("close_back")) \/ Send(Module("close"))
        \/ SendAll(<<Module("close"), Module("close")>>) \/ to_proxy' = to_proxy
    BY <1>l DEF LeaveTarget
  <2>3. <<Module("close"), Module("close")>> \in Seq(FirstMessage)
    BY <1>c
  <2> QED BY <2>1, <2>2, <2>3, <1>a, <1>s, <1>c
<1>1. CASE ShowModule
  BY <1>1, <1>i, <1>s, FirstMessages DEF ShowModule
<1>2. CASE Reject
  BY <1>2, <1>i, <1>s, FirstMessages DEF Reject, Kinds
<1>3. CASE ConnectToTarget
  <2>1. PICK p \in Protocol, n \in 1..MaxTargets, patterns \in 0..2 :
          /\ SendAll(Append([k \in 1..patterns |-> Module("transitory")],
                            Target(p, FALSE, n > 1)))
          /\ left' = n - 1
    BY <1>3 DEF ConnectToTarget
  <2> DEFINE shown == [k \in 1..patterns |-> Module("transitory")]
             first == Target(p, FALSE, n > 1)
  <2>2. n = 1 /\ (n > 1) = FALSE
    OBVIOUS
  <2>3. shown \in Seq(FirstMessage)
    BY <1>c
  <2>4. first \in FirstMessage
    BY <2>2, FirstMessages
  <2>5. SendAll(Append(shown, first))
    BY <2>1
  <2> HIDE DEF shown, first
  <2>6. Append(shown, first) \in Seq(FirstMessage)
    BY <2>3, <2>4
  <2>7. to_proxy' \in Seq(FirstMessage)
    BY <2>5, <2>6, <1>a
  <2>8. left' = 0
    <3>1. left' = n - 1
      BY <2>1
    <3> QED BY <2>2, <3>1
  <2> QED BY <2>7, <2>8, <1>i
<1>4. CASE ReceiveData
  <2>1. CASE to_sesman \cap {"ack", "close"} # {}
    BY <1>4, <2>1, <1>l, <1>i DEF ReceiveData
  <2>2. CASE to_sesman \cap {"ack", "close"} = {}
    BY <1>4, <2>2, <1>s, <1>i, FirstMessages DEF ReceiveData, Kinds
  <2> QED BY <2>1, <2>2
<1>5. CASE SendRequest
  <2>1. PICK k \in Request : Send(Plain(k))
    BY <1>5 DEF SendRequest
  <2>2. k \in Kinds
    BY SesmanAssumption DEF Kinds
  <2> QED BY <1>5, <2>1, <2>2, <1>s, <1>i, FirstMessages DEF SendRequest
<1>6. CASE BackToSelector
  BY <1>6, <1>s, <1>c, <1>i DEF BackToSelector
<1>7. CASE CloseConnection \/ Kill
  BY <1>7, <1>i DEF CloseConnection, Kill
<1>8. CASE MissingKeepalive
  BY <1>8, <1>l, <1>i DEF MissingKeepalive
<1> QED
  BY <1>1, <1>2, <1>3, <1>4, <1>5, <1>6, <1>7, <1>8 DEF SesmanStep

----------------------------------------------------------------------------
(* The session log is open exactly while a target is connected. *)
LogFollowsTarget ==
    /\ IsModule(mod) /\ (mod.sck => mod.name \in Targets)
    /\ OneTarget /\ ErrorHasTarget
    /\ mod.sck <=> log # ""

(* set_acl<context::module>(close) leaves the fields of the target alone. *)
LEMMA TellCloseOneTarget ==
  ASSUME OneTarget, TellClose \/ ini' = ini, UNCHANGED <<to_proxy, left>>
  PROVE  OneTarget'
<1>1. CASE ini' = ini
  BY <1>1 DEF OneTarget
<1>2. CASE TellClose
  <2>1. ini' = [module |-> "close", alt |-> FALSE, more |-> FALSE]
    BY <1>2 DEF OneTarget, TellClose
  <2> QED BY <2>1 DEF OneTarget
<1> QED BY <1>1, <1>2

(* The two ways out of next_backend_module. *)
LEMMA NextModuleLog ==
  ASSUME LogFollowsTarget, NEW m, m # Unknown, NEW tell, NextBackendModule(m, tell),
         UNCHANGED <<to_proxy, left>>
  PROVE  LogFollowsTarget' /\ (broken = {} /\ (guest = "sharing" => mod.sck) => broken' = {})
<1> USE DEF LogFollowsTarget, OneTarget
<1>1. CASE ~mod.sck /\ m \in Close /\ mod.name \in Close
  BY <1>1 DEF NextBackendModule, Goto, IsModule, ErrorHasTarget
<1>2. CASE ~(~mod.sck /\ m \in Close /\ mod.name \in Close)
  <2> DEFINE openlog == IF KeepsRecord(m) THEN log ELSE ""
  <2>1. openlog = ""
    BY DEF KeepsRecord, NoMod, Unknown
  <2>2. broken = {} /\ (guest = "sharing" => mod.sck) => LeaveFails(m) = {}
    BY DEF LeaveFails, GuestStopFails, Failed, KeepsRecord
  <2>3. pc' \in {"send", "end"}
    BY <1>2 DEF NextBackendModule, OpenTarget, ShowInternal, Goto
  <2>4. CASE m \in Targets
    <3>1. OpenTarget(m, openlog, LeaveFails(m))
      BY <1>2, <2>4 DEF NextBackendModule
    <3>2. LogFor(m, openlog) = m /\ m # "" /\ LogForFails(m, openlog) = {}
      BY <2>1, <2>4 DEF LogFor, LogForFails, Failed, Targets
    <3>i. ini.more = FALSE
      OBVIOUS
    <3> HIDE DEF LogFollowsTarget, OneTarget, openlog
    <3>3. \/ mod' = Remote(m) /\ log' = m /\ ini' = ini
          \/ mod' \in {Internal("transitory"), NoMod} /\ log' = "" /\ TellClose
      BY <3>1, <3>2, <3>i DEF OpenTarget, CreationFailed
    <3>4. broken' = broken \cup LeaveFails(m)
      BY <3>1, <3>2 DEF OpenTarget, Failed
    <3>5. OneTarget'
      BY <3>3, TellCloseOneTarget DEF LogFollowsTarget
    <3>6. IsModule(mod') /\ (mod'.sck => mod'.name \in Targets) /\ (mod'.sck <=> log' # "")
      BY <3>2, <3>3, <2>4, Modules
    <3> QED BY <2>2, <2>3, <3>4, <3>5, <3>6 DEF ErrorHasTarget, LogFollowsTarget
  <2>5. CASE m \notin Targets
    <3>1. ShowInternal(m, openlog, LeaveFails(m), tell)
      BY <1>2, <2>5 DEF NextBackendModule
    <3>2. mod' = Internal(m) /\ log' = "" /\ broken' = broken \cup LeaveFails(m)
      BY <2>1, <3>1 DEF ShowInternal
    <3>3. OneTarget'
      BY <3>1 DEF ShowInternal, TellClose
    <3> QED BY <2>2, <2>3, <3>2, <3>3, Modules DEF ErrorHasTarget
  <2> QED BY <2>4, <2>5
<1> QED BY <1>1, <1>2

(* A retry finds the log open. *)
LEMMA RetryLog ==
  ASSUME LogFollowsTarget, RetryRdp, mod.sck, UNCHANGED <<to_proxy, left>>
  PROVE  LogFollowsTarget' /\ broken' = broken
<1> USE DEF LogFollowsTarget, OneTarget
<1>1. broken' = broken
  BY DEF RetryRdp, Failed
<1>2. \/ mod' = Remote("RDP") /\ log' = log /\ ini' = ini /\ pc' = "send"
      \/ mod' \in {Internal("transitory"), NoMod} /\ log' = "" /\ TellClose /\ pc' = "end"
  BY DEF RetryRdp, CreationFailed, Goto
<1>3. OneTarget'
  BY <1>2, TellCloseOneTarget
<1>4. mod'.sck <=> log' # ""
  BY <1>2, Modules
<1>5. IsModule(mod') /\ (mod'.sck => mod'.name \in Targets)
  <2>1. CASE mod' = Remote("RDP")
    BY <2>1, Modules DEF Targets
  <2>2. CASE mod' \in {Internal("transitory"), NoMod}
    BY <2>2, Modules
  <2> QED BY <1>2, <2>1, <2>2
<1>6. ErrorHasTarget'
  BY <1>2 DEF ErrorHasTarget
<1> QED BY <1>1, <1>3, <1>4, <1>5, <1>6

(* A message of the manager is taken from the queue. *)
LEMMA IncomingOneTarget ==
  ASSUME OneTarget, NEW k, Incoming(k)
  PROVE  /\ to_proxy' \in Seq(FirstMessage) /\ left' = 0
         /\ Head(to_proxy) \in FirstMessage
BY DEF OneTarget, Incoming

(* Every step keeps it. *)
LEMMA StepLog ==
  ASSUME TargetOwns, LogFollowsTarget, [Next]_vars, MaxTargets = 1
  PROVE  LogFollowsTarget'
<1> USE SessionAssumption
<1> USE DEF Goto, Raise, loop, record, history, sesman, Selected, FrontOnly, Incoming,
            Callback, Readable
<1>1. CASE FrontIsUp
  BY <1>1 DEF FrontIsUp, LogFollowsTarget, IsModule, OneTarget, ErrorHasTarget, TimerError
<1>2. CASE FrontFails
  BY <1>2 DEF FrontFails, LogFollowsTarget, IsModule, OneTarget, ErrorHasTarget, TimerError
<1>3. CASE SendAclData
  BY <1>3 DEF SendAclData, LogFollowsTarget, IsModule, OneTarget, ErrorHasTarget, TimerError
<1>4. CASE SendAclFails
  BY <1>4 DEF SendAclFails, LogFollowsTarget, IsModule, OneTarget, ErrorHasTarget, TimerError
<1>5. CASE SelectFails
  BY <1>5 DEF SelectFails, LogFollowsTarget, IsModule, OneTarget, ErrorHasTarget, TimerError
<1>6. CASE FrontQuiet
  BY <1>6 DEF FrontQuiet, LogFollowsTarget, IsModule, OneTarget, ErrorHasTarget, TimerError
<1>7. CASE FrontSendWaiting
  BY <1>7 DEF FrontSendWaiting, LogFollowsTarget, IsModule, OneTarget, ErrorHasTarget,
      TimerError
<1>8. CASE UserAnswers
  BY <1>8 DEF UserAnswers, LogFollowsTarget, IsModule, OneTarget, ErrorHasTarget, TimerError
<1>9. CASE UserInput
  BY <1>9 DEF UserInput, LogFollowsTarget, IsModule, OneTarget, ErrorHasTarget, TimerError
<1>10. CASE FrontResizes
  BY <1>10 DEF FrontResizes, LogFollowsTarget, IsModule, OneTarget, ErrorHasTarget, TimerError
<1>11. CASE FrontLeaves
  BY <1>11 DEF FrontLeaves, LogFollowsTarget, IsModule, OneTarget, ErrorHasTarget, TimerError
<1>12. CASE AclQuiet
  BY <1>12 DEF AclQuiet, LogFollowsTarget, IsModule, OneTarget, ErrorHasTarget, TimerError
<1>13. CASE AclLost
  BY <1>13 DEF AclLost, LogFollowsTarget, IsModule, OneTarget, ErrorHasTarget, TimerError
<1>14. CASE AclModule
  <2>1. ini'.alt = FALSE /\ ini'.more = FALSE /\ ini' \in [module : {ini'.module}, alt : {FALSE}, more : {FALSE}]
    BY <1>14, IncomingOneTarget DEF AclModule, LogFollowsTarget, OneTarget, FirstMessage
  <2> QED BY <1>14, <2>1, IncomingOneTarget DEF AclModule, LogFollowsTarget, IsModule,
      OneTarget, ErrorHasTarget, TimerError
<1>15. CASE AclKeepalive
  BY <1>15, IncomingOneTarget DEF AclKeepalive, LogFollowsTarget, IsModule, OneTarget,
      ErrorHasTarget, TimerError
<1>16. CASE AclEndDate
  BY <1>16, IncomingOneTarget DEF AclEndDate, LogFollowsTarget, IsModule, OneTarget,
      ErrorHasTarget, TimerError
<1>17. CASE AclInactivity
  BY <1>17, IncomingOneTarget DEF AclInactivity, LogFollowsTarget, IsModule, OneTarget,
      ErrorHasTarget, TimerError
<1>18. CASE AclSharing
  BY <1>18, IncomingOneTarget DEF AclSharing, LogFollowsTarget, IsModule, OneTarget,
      ErrorHasTarget, TimerError
<1>19. CASE AclRejected
  BY <1>19, IncomingOneTarget DEF AclRejected, LogFollowsTarget, IsModule, OneTarget,
      ErrorHasTarget, TimerError
<1>20. CASE AclDisconnect
  BY <1>20, IncomingOneTarget DEF AclDisconnect, LogFollowsTarget, IsModule, OneTarget,
      ErrorHasTarget, TimerError
<1>21. CASE AclOther
  BY <1>21, IncomingOneTarget DEF AclOther, LogFollowsTarget, IsModule, OneTarget,
      ErrorHasTarget, TimerError
<1>22. CASE ModSendWaiting
  BY <1>22 DEF ModSendWaiting, LogFollowsTarget, IsModule, OneTarget, ErrorHasTarget,
      TimerError
<1>23. CASE ModConnected
  BY <1>23 DEF ModConnected, LogFollowsTarget, IsModule, OneTarget, ErrorHasTarget, TimerError
<1>24. CASE ModOutput
  BY <1>24 DEF ModOutput, LogFollowsTarget, IsModule, OneTarget, ErrorHasTarget, TimerError
<1>25. CASE ModEnds
  BY <1>25 DEF ModEnds, LogFollowsTarget, IsModule, OneTarget, ErrorHasTarget, TimerError
<1>26. CASE ModThrows
  BY <1>26 DEF ModThrows, Raisable, LogFollowsTarget, IsModule, OneTarget, ErrorHasTarget,
      TimerError
<1>27. CASE KeepaliveTimer
  <2>1. /\ UNCHANGED <<mod, log, ini, to_proxy, left>>
        /\ pc' = "events" \/ (pc' = "catch" /\ exc'.id = "keepalive")
    BY <1>27 DEF KeepaliveTimer
  <2>2. ErrorHasTarget'
    BY <2>1 DEF ErrorHasTarget, TimerError
  <2> QED BY <2>1, <2>2 DEF LogFollowsTarget, IsModule, OneTarget
<1>28. CASE InactivityTimer
  BY <1>28 DEF InactivityTimer, MayEnd, LogFollowsTarget, IsModule, OneTarget,
      ErrorHasTarget, TimerError
<1>29. CASE EndDateTimer
  BY <1>29 DEF EndDateTimer, MayEnd, LogFollowsTarget, IsModule, OneTarget, ErrorHasTarget,
      TimerError
<1>30. CASE CloseBoxTimer
  BY <1>30 DEF CloseBoxTimer, LogFollowsTarget, IsModule, OneTarget, ErrorHasTarget, TimerError
<1>31. CASE GuestEvent
  BY <1>31 DEF GuestEvent, LogFollowsTarget, IsModule, OneTarget, ErrorHasTarget, TimerError
<1>32. CASE EndOfEvents
  BY <1>32 DEF EndOfEvents, LogFollowsTarget, IsModule, OneTarget, ErrorHasTarget, TimerError
<1>33. CASE CatchAcl
  BY <1>33 DEF CatchAcl, LogFollowsTarget, IsModule, OneTarget, ErrorHasTarget, TimerError
<1>34. CASE ConnectAuth
  <2>1. mod' \in {mod, Internal("close")} /\ pc' \in {"send", "close_box", "done"}
        /\ UNCHANGED <<log, ini, left, to_proxy>> /\ mod = NoMod
    BY <1>34 DEF ConnectAuth, TargetOwns, ModuleHeld
  <2> QED BY <2>1, Modules DEF LogFollowsTarget, OneTarget, ErrorHasTarget
<1>35. CASE BackEvent
  <2>1. CASE back_event = "stop" \/ Wanted = Unknown
             \/ (Wanted \in Close /\ "close_box" \notin Option)
    <3>1. pc' \in {"send", "end"} /\ UNCHANGED <<mod, log, to_proxy, left>>
          /\ (TellClose \/ ini' = ini)
      BY <1>35, <2>1 DEF BackEvent
    <3> QED BY <3>1, TellCloseOneTarget DEF LogFollowsTarget, IsModule, ErrorHasTarget
  <2>2. CASE /\ back_event # "stop" /\ Wanted # Unknown
             /\ ~(Wanted \in Close /\ "close_box" \notin Option)
    BY <1>35, <2>2, NextModuleLog DEF BackEvent
  <2> QED BY <2>1, <2>2
<1>36. CASE CatchFront
  BY <1>36, RetryLog DEF CatchFront, Reconnectable, LeaveLoop, LogFollowsTarget, IsModule,
      OneTarget, ErrorHasTarget, TimerError
<1>37. CASE CatchSession
  <2>1. CASE LeaveLoop
    BY <1>37, <2>1 DEF CatchSession, LeaveLoop, LogFollowsTarget, IsModule, OneTarget,
        ErrorHasTarget, TimerError
  <2>2. CASE NextBackendModule("close", mod.sck)
    BY <1>37, <2>2, NextModuleLog DEF CatchSession, Unknown
  <2>3. CASE RetryRdp /\ "retry" \in EndSessionException(exc.id)
    <3>1. exc.id \notin TimerError
      BY <2>3, TimerErrorsClose
    <3> QED BY <1>37, <2>3, <3>1, RetryLog DEF CatchSession, LogFollowsTarget, ErrorHasTarget
  <2> QED BY <1>37, <2>1, <2>2, <2>3 DEF CatchSession
<1>38. CASE PostLoop
  <2>1. pc' \in {"close_box", "done"} /\ (mod' = mod \/ mod' = NoMod)
        /\ (mod' # NoMod => mod.name = "close")
        /\ log' = "" /\ UNCHANGED <<to_proxy, left, ini>>
    BY <1>38 DEF PostLoop
  <2>2. CASE mod' = NoMod
    BY <2>1, <2>2, Modules DEF LogFollowsTarget, OneTarget, ErrorHasTarget
  <2>3. CASE mod' = mod /\ mod.name = "close"
    <3>1. mod.sck = FALSE
      BY <2>3 DEF LogFollowsTarget, IsModule, Targets
    <3> QED BY <2>1, <2>3, <3>1 DEF LogFollowsTarget, IsModule, OneTarget, ErrorHasTarget
  <2> QED BY <2>1, <2>2, <2>3
<1>39. CASE CloseBoxEnds
  BY <1>39 DEF CloseBoxEnds, LogFollowsTarget, IsModule, OneTarget, ErrorHasTarget, TimerError
<1>40. CASE SesmanStep
  BY <1>40, SesmanOneTarget DEF SesmanStep, process, LogFollowsTarget, IsModule, ErrorHasTarget
<1>41. CASE Done \/ UNCHANGED vars
  BY <1>41 DEF Done, vars, LogFollowsTarget, IsModule, OneTarget, ErrorHasTarget, TimerError
<1> QED
  BY <1>1, <1>2, <1>3, <1>4, <1>5, <1>6, <1>7, <1>8, <1>9, <1>10, <1>11,
     <1>12, <1>13, <1>14, <1>15, <1>16, <1>17, <1>18, <1>19, <1>20, <1>21,
     <1>22, <1>23, <1>24, <1>25, <1>26, <1>27, <1>28, <1>29, <1>30, <1>31,
     <1>32, <1>33, <1>34, <1>35, <1>36, <1>37, <1>38, <1>39, <1>40, <1>41
  DEF Next, LoopStep, UserStep, TargetStep, TimerStep, AclStep

(* It holds when the process starts. *)
LEMMA InitLog == Init => LogFollowsTarget
<1> SUFFICES ASSUME Init PROVE LogFollowsTarget
  OBVIOUS
<1>1. OneTarget
  <2>1. to_proxy = <<>> /\ left = 0 /\ ini = [module |-> "", alt |-> FALSE, more |-> FALSE]
    BY DEF Init, SesmanInit
  <2>2. ini \in [module : {ini.module}, alt : {FALSE}, more : {FALSE}]
    BY <2>1
  <2>3. <<>> \in Seq(FirstMessage)
    BY EmptySeq
  <2> QED BY <2>1, <2>2, <2>3 DEF OneTarget
<1>2. IsModule(mod) /\ mod.sck = FALSE /\ log = "" /\ ErrorHasTarget
  BY Modules DEF Init, ErrorHasTarget
<1> QED BY <1>1, <1>2 DEF LogFollowsTarget

(* Behind a service with one physical target, and as long as no timer throws in
   the iteration that changes the module, a connected target is logged and
   supervised whenever the loop waits (TargetSupervised). *)
THEOREM TargetIsSupervised ==
  ASSUME MaxTargets = 1, ~TimersRace
  PROVE  Spec => []TargetSupervised
<1> DEFINE Inv == TargetOwns /\ Supervises /\ LogFollowsTarget
<1>1. Init => Inv
  <2>1. Init => TargetOwns
    BY Modules DEF Init, TargetOwns, ModuleHeld, NothingOutlivesTarget
  <2>2. Init => Supervises
    BY Modules DEF Init, Supervises, ErrorHasTarget, KeepaliveRuns, InactivityRuns,
        NextModuleFresh
  <2>3. Init => LogFollowsTarget
    BY InitLog
  <2> QED BY <2>1, <2>2, <2>3
<1>2. Inv /\ [Next]_vars => Inv'
  BY StepOwns, StepSupervises, StepLog
<1>3. Inv => TargetSupervised
  BY DEF Supervises, KeepaliveRuns, InactivityRuns, Handles, LogFollowsTarget,
      TargetSupervised
<1> QED BY <1>1, <1>2, <1>3, PTL DEF Spec

----------------------------------------------------------------------------
(* The inductive invariant of AssertionsHold. *)

(* A guest that talks to the process was let in, while a target is connected. *)
GuestHasTarget == guest \in {"handshake", "sharing"} => Guests = TRUE /\ mod.sck

(* What select watched for the target still waits when the pass starts. *)
WatchIsFresh ==
    pc = "acl" \/ (pc = "events" /\ fired = {}) => ("mod" \in watch => "mod" \in wait)

Asserts == /\ GuestHasTarget /\ WatchIsFresh
           /\ wait \subseteq Congestible /\ retries \in Nat
           /\ AssertionsHold

(* The hypothesis on retries: a retry that fails closes the log of a guest. *)
RetryWithoutGuest == ~Guests \/ MaxRetries = 0

(* A retry, when no guest can be there. *)
LEMMA RetryAsserts ==
  ASSUME Asserts, RetryWithoutGuest, RetryRdp, UNCHANGED guest, broken' = {}
  PROVE  Asserts'
<1>r. retries \in Nat /\ retries < MaxRetries /\ retries' = retries + 1
  BY DEF Asserts, RetryRdp
<1>w. wait \subseteq Congestible /\ wait' = wait \ {"mod"}
  BY DEF Asserts, RetryRdp
<1>2. retries' \in Nat /\ wait' \subseteq Congestible
  BY <1>r, <1>w
<1>3. MaxRetries # 0
  BY <1>r
<1>4. guest \notin {"handshake", "sharing"}
  BY <1>3 DEF RetryWithoutGuest, Asserts, GuestHasTarget
<1>5. pc' \in {"send", "end"}
  BY DEF RetryRdp, Goto
<1> QED BY <1>2, <1>4, <1>5 DEF Asserts, GuestHasTarget, WatchIsFresh, AssertionsHold

(* next_backend_module: the guest is stopped with the target. *)
LEMMA NextModuleAsserts ==
  ASSUME Asserts, NEW m, NEW tell, NextBackendModule(m, tell), UNCHANGED retries,
         broken' = {}
  PROVE  Asserts'
<1>2. wait' \subseteq Congestible /\ (guest' \in {"handshake", "sharing"} => ~mod.sck)
  BY DEF NextBackendModule, LeaveGuest, Asserts, GuestHasTarget
<1>3. guest' \notin {"handshake", "sharing"}
  BY <1>2 DEF NextBackendModule, LeaveGuest, Asserts, GuestHasTarget
<1>4. pc' \in {"send", "end"}
  BY DEF NextBackendModule, OpenTarget, ShowInternal, Goto
<1> QED BY <1>2, <1>3, <1>4 DEF Asserts, GuestHasTarget, WatchIsFresh, AssertionsHold

(* A connected target has an open log. *)
LogOpen == ErrorHasTarget /\ (mod.sck => log # "")

(* Every step keeps it, when the steps that change the module do. *)
LEMMA StepAsserts ==
  ASSUME Asserts, TargetOwns, LogOpen, [Next]_vars, RetryWithoutGuest,
         "guest" \notin Congestible,
         BackEvent \/ CatchFront \/ CatchSession => broken' = {}
  PROVE  Asserts'
<1> USE DEF Goto, Raise, loop, record, history, sesman, supervision, Selected, FrontOnly,
            Incoming, Callback, Readable
<1>1. CASE FrontIsUp
  BY <1>1 DEF FrontIsUp, Asserts, GuestHasTarget, WatchIsFresh, AssertionsHold
<1>2. CASE FrontFails
  BY <1>2 DEF FrontFails, Asserts, GuestHasTarget, WatchIsFresh, AssertionsHold
<1>3. CASE ConnectAuth
  <2>1. guest = "none"
    BY <1>3, Modules DEF ConnectAuth, TargetOwns, ModuleHeld, NothingOutlivesTarget
  <2> QED BY <1>3, <2>1 DEF ConnectAuth, Asserts, GuestHasTarget, WatchIsFresh, AssertionsHold
<1>4. CASE SendAclData
  BY <1>4 DEF SendAclData, Asserts, GuestHasTarget, WatchIsFresh, AssertionsHold
<1>5. CASE SendAclFails
  BY <1>5 DEF SendAclFails, Asserts, GuestHasTarget, WatchIsFresh, AssertionsHold
<1>6. CASE SelectFails
  BY <1>6 DEF SelectFails, Asserts, GuestHasTarget, WatchIsFresh, AssertionsHold
<1>7. CASE FrontQuiet
  BY <1>7 DEF FrontQuiet, Asserts, GuestHasTarget, WatchIsFresh, AssertionsHold
<1>8. CASE UserAnswers
  BY <1>8 DEF UserAnswers, Asserts, GuestHasTarget, WatchIsFresh, AssertionsHold
<1>9. CASE UserInput
  BY <1>9 DEF UserInput, Asserts, GuestHasTarget, WatchIsFresh, AssertionsHold
<1>10. CASE FrontResizes
  BY <1>10 DEF FrontResizes, Asserts, GuestHasTarget, WatchIsFresh, AssertionsHold
<1>11. CASE FrontLeaves
  BY <1>11 DEF FrontLeaves, Asserts, GuestHasTarget, WatchIsFresh, AssertionsHold
<1>12. CASE AclQuiet
  BY <1>12 DEF AclQuiet, Asserts, GuestHasTarget, WatchIsFresh, AssertionsHold
<1>13. CASE AclLost
  BY <1>13 DEF AclLost, Asserts, GuestHasTarget, WatchIsFresh, AssertionsHold
<1>14. CASE AclModule
  BY <1>14 DEF AclModule, Asserts, GuestHasTarget, WatchIsFresh, AssertionsHold
<1>15. CASE AclKeepalive
  BY <1>15 DEF AclKeepalive, Asserts, GuestHasTarget, WatchIsFresh, AssertionsHold
<1>16. CASE AclEndDate
  BY <1>16 DEF AclEndDate, Asserts, GuestHasTarget, WatchIsFresh, AssertionsHold
<1>17. CASE AclInactivity
  BY <1>17 DEF AclInactivity, Asserts, GuestHasTarget, WatchIsFresh, AssertionsHold
<1>18. CASE AclRejected
  BY <1>18 DEF AclRejected, Asserts, GuestHasTarget, WatchIsFresh, AssertionsHold
<1>19. CASE AclDisconnect
  BY <1>19 DEF AclDisconnect, Asserts, GuestHasTarget, WatchIsFresh, AssertionsHold
<1>20. CASE AclOther
  BY <1>20 DEF AclOther, Asserts, GuestHasTarget, WatchIsFresh, AssertionsHold
<1>21. CASE ModConnected
  BY <1>21 DEF ModConnected, Asserts, GuestHasTarget, WatchIsFresh, AssertionsHold
<1>22. CASE ModOutput
  BY <1>22 DEF ModOutput, Asserts, GuestHasTarget, WatchIsFresh, AssertionsHold
<1>23. CASE ModEnds
  BY <1>23 DEF ModEnds, Asserts, GuestHasTarget, WatchIsFresh, AssertionsHold
<1>24. CASE ModThrows
  BY <1>24 DEF ModThrows, Asserts, GuestHasTarget, WatchIsFresh, AssertionsHold
<1>25. CASE KeepaliveTimer
  BY <1>25 DEF KeepaliveTimer, Asserts, GuestHasTarget, WatchIsFresh, AssertionsHold
<1>26. CASE InactivityTimer
  BY <1>26 DEF InactivityTimer, Asserts, GuestHasTarget, WatchIsFresh, AssertionsHold
<1>27. CASE EndDateTimer
  BY <1>27 DEF EndDateTimer, Asserts, GuestHasTarget, WatchIsFresh, AssertionsHold
<1>28. CASE CloseBoxTimer
  BY <1>28 DEF CloseBoxTimer, Asserts, GuestHasTarget, WatchIsFresh, AssertionsHold
<1>29. CASE EndOfEvents
  BY <1>29 DEF EndOfEvents, Asserts, GuestHasTarget, WatchIsFresh, AssertionsHold
<1>30. CASE CatchAcl
  BY <1>30 DEF CatchAcl, Asserts, GuestHasTarget, WatchIsFresh, AssertionsHold
<1>31. CASE CloseBoxEnds
  BY <1>31 DEF CloseBoxEnds, TargetOwns, ModuleHeld, IsModule, Asserts, GuestHasTarget,
      WatchIsFresh, AssertionsHold
<1>32. CASE FrontSendWaiting
  <2>1. PICK ready \in SUBSET (wait \cap {"front", "guest"}) \ {{}} :
          broken' = broken \/ "guest" \in ready
    BY <1>32 DEF FrontSendWaiting, Failed
  <2>2. "guest" \notin ready
    BY DEF Asserts
  <2>3. /\ UNCHANGED <<guest, mod, retries>> /\ wait' \subseteq wait
        /\ ("mod" \in wait => "mod" \in wait') /\ watch' = wait
    BY <1>32 DEF FrontSendWaiting
  <2> QED BY <2>1, <2>2, <2>3 DEF Asserts, GuestHasTarget, WatchIsFresh, AssertionsHold
<1>33. CASE AclSharing
  <2>1. broken' = {}
    BY <1>33 DEF AclSharing, GuestStopFails, Failed, Asserts, AssertionsHold, LogOpen
  <2> QED BY <1>33, <2>1 DEF AclSharing, Asserts, GuestHasTarget, WatchIsFresh, AssertionsHold
<1>34. CASE ModSendWaiting
  <2>1. broken' = {}
    BY <1>34 DEF ModSendWaiting, Failed, Asserts, GuestHasTarget, WatchIsFresh, AssertionsHold
  <2>2. UNCHANGED <<guest, mod, retries>> /\ wait' \subseteq wait /\ fired' # {}
    BY <1>34 DEF ModSendWaiting
  <2> QED BY <1>34, <2>1, <2>2 DEF ModSendWaiting, Asserts, GuestHasTarget, WatchIsFresh,
      AssertionsHold
<1>35. CASE GuestEvent
  <2>1. mod.sck /\ log # ""
    BY <1>35 DEF GuestEvent, TargetOwns, NothingOutlivesTarget, LogOpen
  <2>2. broken' = {}
    BY <1>35, <2>1 DEF GuestEvent, Failed, Asserts, AssertionsHold
  <2>3. UNCHANGED <<mod, retries>> /\ wait' \subseteq wait /\ fired' # {} /\ pc' = "events"
    BY <1>35 DEF GuestEvent
  <2>4. GuestHasTarget'
    BY <1>35, <2>1, <2>3, SessionAssumption DEF GuestEvent, Asserts, GuestHasTarget
  <2> QED BY <2>2, <2>3, <2>4 DEF Asserts, WatchIsFresh, AssertionsHold
<1>36. CASE BackEvent
  <2>1. CASE back_event = "stop" \/ Wanted = Unknown
             \/ (Wanted \in Close /\ "close_box" \notin Option)
    BY <1>36, <2>1 DEF BackEvent, Asserts, GuestHasTarget, WatchIsFresh, AssertionsHold
  <2>2. CASE /\ back_event # "stop" /\ Wanted # Unknown
             /\ ~(Wanted \in Close /\ "close_box" \notin Option)
    BY <1>36, <2>2, NextModuleAsserts DEF BackEvent
  <2> QED BY <2>1, <2>2
<1>37. CASE CatchFront
  <2>1. CASE LeaveLoop
    BY <1>37, <2>1 DEF CatchFront, LeaveLoop, Asserts, GuestHasTarget, WatchIsFresh,
        AssertionsHold
  <2>2. CASE Reconnectable /\ RetryRdp
    BY <1>37, <2>2, RetryAsserts DEF CatchFront, Reconnectable
  <2> QED BY <1>37, <2>1, <2>2 DEF CatchFront
<1>38. CASE CatchSession
  <2>1. CASE LeaveLoop /\ UNCHANGED guest
    BY <1>38, <2>1 DEF CatchSession, LeaveLoop, Asserts, GuestHasTarget, WatchIsFresh,
        AssertionsHold
  <2>2. CASE NextBackendModule("close", mod.sck) /\ UNCHANGED retries
    BY <1>38, <2>2, NextModuleAsserts DEF CatchSession, Unknown
  <2>3. CASE RetryRdp /\ "retry" \in EndSessionException(exc.id) /\ UNCHANGED guest
    BY <1>38, <2>3, RetryAsserts DEF CatchSession
  <2> QED BY <1>38, <2>1, <2>2, <2>3 DEF CatchSession
<1>39. CASE PostLoop
  <2>1. broken' = {}
    BY <1>39 DEF PostLoop, GuestStopFails, Failed, LogOpen, Asserts, AssertionsHold,
        GuestHasTarget
  <2>2. pc' \in {"close_box", "done"} /\ guest' = "none" /\ wait' \subseteq wait
        /\ retries' = retries
    BY <1>39 DEF PostLoop
  <2> QED BY <2>1, <2>2 DEF Asserts, GuestHasTarget, WatchIsFresh, AssertionsHold
<1>40. CASE SesmanStep
  BY <1>40 DEF SesmanStep, process, Asserts, GuestHasTarget, WatchIsFresh, AssertionsHold
<1>41. CASE Done \/ UNCHANGED vars
  BY <1>41 DEF Done, vars, Asserts, GuestHasTarget, WatchIsFresh, AssertionsHold
<1> QED
  BY <1>1, <1>2, <1>3, <1>4, <1>5, <1>6, <1>7, <1>8, <1>9, <1>10, <1>11, <1>12,
     <1>13, <1>14, <1>15, <1>16, <1>17, <1>18, <1>19, <1>20, <1>21, <1>22, <1>23,
     <1>24, <1>25, <1>26, <1>27, <1>28, <1>29, <1>30, <1>31, <1>32, <1>33, <1>34,
     <1>35, <1>36, <1>37, <1>38, <1>39, <1>40, <1>41
  DEF Next, LoopStep, UserStep, TargetStep, TimerStep, AclStep

(* The steps that change the module, behind a service with one physical target. *)
LEMMA ChangesAsserted ==
  ASSUME Asserts, LogFollowsTarget, BackEvent \/ CatchFront \/ CatchSession
  PROVE  broken' = {}
<1>1. broken = {} /\ (guest = "sharing" => mod.sck)
  BY DEF Asserts, AssertionsHold, GuestHasTarget
<1>2. UNCHANGED <<to_proxy, left>>
  BY DEF BackEvent, CatchFront, CatchSession, sesman
<1>3. CASE BackEvent
  <2>1. CASE back_event = "stop" \/ Wanted = Unknown
             \/ (Wanted \in Close /\ "close_box" \notin Option)
    BY <1>1, <1>3, <2>1 DEF BackEvent
  <2>2. CASE /\ back_event # "stop" /\ Wanted # Unknown
             /\ ~(Wanted \in Close /\ "close_box" \notin Option)
    <3>1. NextBackendModule(Wanted, TellsClose)
      BY <1>3, <2>2 DEF BackEvent
    <3> QED BY <1>1, <1>2, <2>2, <3>1, NextModuleLog
  <2> QED BY <2>1, <2>2
<1>4. CASE CatchFront
  <2>1. CASE LeaveLoop
    BY <1>1, <2>1 DEF LeaveLoop
  <2>2. CASE Reconnectable /\ RetryRdp
    BY <1>1, <1>2, <2>2, RetryLog DEF Reconnectable
  <2> QED BY <1>4, <2>1, <2>2 DEF CatchFront
<1>5. CASE CatchSession
  <2>1. CASE LeaveLoop
    BY <1>1, <2>1 DEF LeaveLoop
  <2>2. CASE NextBackendModule("close", mod.sck)
    BY <1>1, <1>2, <2>2, NextModuleLog DEF Unknown
  <2>3. CASE RetryRdp /\ "retry" \in EndSessionException(exc.id)
    <3>1. exc.id \notin TimerError
      BY <2>3, TimerErrorsClose
    <3>2. mod.sck
      BY <1>5, <3>1 DEF CatchSession, LogFollowsTarget, ErrorHasTarget
    <3> QED BY <1>1, <1>2, <2>3, <3>2, RetryLog
  <2> QED BY <1>5, <2>1, <2>2, <2>3 DEF CatchSession
<1> QED BY <1>3, <1>4, <1>5

(* The assertions on the session log and on send_waiting_data hold behind a
   service with one physical target, when the output of a guest never has to
   wait and no target with guests is retried (AssertionsHold). *)
THEOREM AssertionsAreKept ==
  ASSUME MaxTargets = 1, "guest" \notin Congestible, RetryWithoutGuest
  PROVE  Spec => []AssertionsHold
<1> DEFINE Inv == TargetOwns /\ LogFollowsTarget /\ Asserts
<1>1. Init => Inv
  <2>1. Init => TargetOwns
    BY Modules DEF Init, TargetOwns, ModuleHeld, NothingOutlivesTarget
  <2>2. ASSUME Init PROVE Asserts
    <3>1. retries = 0 /\ wait = {} /\ broken = {} /\ guest = "none" /\ pc = "wait_front"
      BY <2>2 DEF Init
    <3> QED BY <3>1 DEF Asserts, GuestHasTarget, WatchIsFresh, AssertionsHold
  <2> QED BY <2>1, <2>2, InitLog
<1>2. Inv /\ [Next]_vars => Inv'
  <2> SUFFICES ASSUME Inv, [Next]_vars PROVE Inv'
    OBVIOUS
  <2>1. LogOpen
    BY DEF LogOpen, LogFollowsTarget
  <2>2. BackEvent \/ CatchFront \/ CatchSession => broken' = {}
    BY ChangesAsserted
  <2> QED BY <2>1, <2>2, StepOwns, StepLog, StepAsserts
<1>3. Inv => AssertionsHold
  BY DEF Asserts
<1> QED BY <1>1, <1>2, <1>3, PTL DEF Spec
----------------------------------------------------------------------------
(* The inductive invariant of SessionWatched.  The manager that is outside of its
   session loop has sent the process away from the target: the messages on the way
   end with a module that is no target, or they name none and the process is not
   connected or is about to leave. *)
Names(m) == m.kind = "module" /\ m.module \in Targets

NoTarget(q) == \A i \in 1 .. Len(q) : ~Names(q[i])

LeadsAway(q) ==
    \E i \in 1 .. Len(q) : q[i].kind = "module" /\ \A j \in i .. Len(q) : ~Names(q[j])

SentAway ==
    \/ LeadsAway(to_proxy)
    \/ /\ NoTarget(to_proxy) /\ next_module \notin Targets
       /\ mod.sck => next_module # Unknown \/ pc = "end"

Watched ==
    /\ phase \in Phase /\ proto \in Protocol \cup {""} /\ to_proxy \in Seq(Message)
    /\ phase \in {"auth", "back", "closing"} => SentAway

(* The messages of the manager are messages, and name a target only when it
   sends one. *)
LEMMA ManagerMessages ==
  /\ \A k \in Kinds : Plain(k) \in Message /\ ~Names(Plain(k))
  /\ \A m \in Interactive \cup Close \cup {"transitory"} :
        Module(m) \in Message /\ Module(m).kind = "module" /\ ~Names(Module(m))
<1>1. ASSUME NEW k \in Kinds PROVE Plain(k) \in Message /\ ~Names(Plain(k))
  BY DEF Plain, Message, Names, Targets
<1>2. ASSUME NEW m \in Interactive \cup Close \cup {"transitory"}
      PROVE  Module(m) \in Message /\ Module(m).kind = "module" /\ ~Names(Module(m))
  <2>1. Module(m) \in Message
    BY DEF Module, Plain, Message, Kinds
  <2>2. Module(m).kind = "module" /\ Module(m).module = m
    BY DEF Module, Plain
  <2>3. m \notin Targets
    BY SesmanAssumption DEF Targets, Close
  <2> QED BY <2>1, <2>2, <2>3 DEF Names
<1> QED BY <1>1, <1>2

LEMMA TargetMessage ==
  ASSUME NEW p \in Protocol \cup {""}, NEW alt \in BOOLEAN, NEW more \in BOOLEAN
  PROVE  Target(p, alt, more) \in Message
BY DEF Target, Message, Kinds

(* A module that is no target, sent last, leads away whatever came before. *)
LEMMA LastLeadsAway ==
  ASSUME NEW q \in Seq(Message), NEW ms \in Seq(Message), NEW m, ms # <<>>,
         ms[Len(ms)] = m, m.kind = "module", ~Names(m)
  PROVE  LeadsAway(q \o ms)
<1> DEFINE r == q \o ms
           n == Len(r)
<1>1. /\ r \in Seq(Message) /\ Len(r) = Len(q) + Len(ms)
      /\ r[Len(q) + Len(ms)] = m
  <2>1. Len(q) \in Nat /\ Len(ms) \in Nat \ {0}
    BY EmptySeq, LenProperties
  <2>2. Len(q) + Len(ms) \in 1 .. Len(q) + Len(ms) /\ ~(Len(q) + Len(ms) <= Len(q))
        /\ Len(q) + Len(ms) - Len(q) = Len(ms)
    BY <2>1
  <2> QED BY <2>2, ConcatProperties
<1> HIDE DEF r
<1>2. n \in 1 .. n /\ r[n] = m /\ \A j \in n .. n : j = n
  <2>1. Len(q) \in Nat /\ Len(ms) \in Nat \ {0}
    BY EmptySeq, LenProperties
  <2> QED BY <1>1, <2>1
<1>3. LeadsAway(r)
  BY <1>2 DEF LeadsAway
<1> QED BY <1>3 DEF r

(* A message that has been read: what is left still leads away, or it was the
   module that did and no target is named after it. *)
LEMMA ReadLeadsAway ==
  ASSUME NEW q \in Seq(Message), q # <<>>
  PROVE  /\ NoTarget(q) => NoTarget(Tail(q)) /\ ~Names(Head(q))
         /\ LeadsAway(q) => \/ LeadsAway(Tail(q))
                            \/ /\ Head(q).kind = "module" /\ ~Names(Head(q))
                               /\ NoTarget(Tail(q))
<1> DEFINE t == Tail(q)
<1>1. /\ t \in Seq(Message) /\ Len(q) \in Nat \ {0} /\ Len(t) = Len(q) - 1
      /\ Head(q) = q[1] /\ \A i \in 1 .. Len(t) : t[i] = q[i + 1]
  OBVIOUS
<1> HIDE DEF t
<1>2. NoTarget(q) => NoTarget(t) /\ ~Names(Head(q))
  <2> SUFFICES ASSUME NoTarget(q) PROVE NoTarget(t) /\ ~Names(Head(q))
    OBVIOUS
  <2>1. ~Names(Head(q))
    BY <1>1 DEF NoTarget
  <2>2. ASSUME NEW i \in 1 .. Len(t) PROVE ~Names(t[i])
    <3>1. i + 1 \in 1 .. Len(q) /\ t[i] = q[i + 1]
      BY <1>1
    <3> QED BY <3>1 DEF NoTarget
  <2> QED BY <2>1, <2>2 DEF NoTarget
<1>3. ASSUME LeadsAway(q)
      PROVE  \/ LeadsAway(t)
             \/ Head(q).kind = "module" /\ ~Names(Head(q)) /\ NoTarget(t)
  <2>1. PICK i \in 1 .. Len(q) :
          q[i].kind = "module" /\ \A j \in i .. Len(q) : ~Names(q[j])
    BY <1>3 DEF LeadsAway
  <2>2. ASSUME NEW j \in 1 .. Len(t), j >= i - 1 PROVE ~Names(t[j])
    <3>1. j + 1 \in i .. Len(q) /\ t[j] = q[j + 1]
      BY <1>1, <2>2
    <3> QED BY <2>1, <3>1
  <2>3. CASE i = 1
    <3>1. Head(q).kind = "module" /\ ~Names(Head(q))
      <4>1. 1 \in i .. Len(q)
        BY <1>1, <2>3
      <4> QED BY <1>1, <2>1, <2>3, <4>1
    <3>2. ASSUME NEW j \in 1 .. Len(t) PROVE ~Names(t[j])
      <4>1. j >= i - 1
        BY <2>3
      <4> QED BY <2>2, <4>1
    <3> QED BY <3>1, <3>2 DEF NoTarget
  <2>4. CASE i # 1
    <3> DEFINE h == i - 1
    <3>1. h \in 1 .. Len(t) /\ t[h] = q[i]
      BY <1>1, <2>4
    <3>2. ASSUME NEW j \in h .. Len(t) PROVE ~Names(t[j])
      <4>1. j \in 1 .. Len(t) /\ j >= i - 1
        BY <1>1, <3>1
      <4> QED BY <2>2, <4>1
    <3> HIDE DEF h
    <3>3. t[h].kind = "module"
      BY <2>1, <3>1
    <3> QED BY <3>1, <3>2, <3>3 DEF LeadsAway
  <2> QED BY <2>3, <2>4
<1> QED BY <1>2, <1>3 DEF t

(* The manager leaves its session loop only with such a module, the last one it
   sends. *)
LEMMA ManagerSendsAway ==
  ASSUME Watched, SesmanStep
  PROVE  Watched'
<1>p. UNCHANGED <<pc, mod, next_module>>
  BY DEF SesmanStep, process, loop
<1>t. phase \in Phase /\ proto \in Protocol \cup {""} /\ to_proxy \in Seq(Message)
  BY DEF Watched
<1>s. ASSUME NEW m \in Message, Send(m)
      PROVE  to_proxy' = to_proxy \o <<m>> /\ to_proxy' \in Seq(Message)
  <2>1. to_proxy' = to_proxy \o <<m>>
    BY <1>s DEF Send, SendAll
  <2>2. <<m>> \in Seq(Message)
    OBVIOUS
  <2> QED BY <1>t, <2>1, <2>2, ConcatProperties
<1>a. ASSUME NEW m \in Interactive \cup Close \cup {"transitory"}, Send(Module(m)),
             phase' \in Phase, proto' = proto
      PROVE  Watched'
  <2> DEFINE w == Module(m)
  <2>1. w \in Message /\ w.kind = "module" /\ ~Names(w)
    BY ManagerMessages
  <2>2. Send(w)
    BY <1>a
  <2> HIDE DEF w
  <2>3. to_proxy' = to_proxy \o <<w>> /\ to_proxy' \in Seq(Message)
    BY <1>s, <2>1, <2>2
  <2>4. LeadsAway(to_proxy')
    <3>1. <<w>> \in Seq(Message) /\ <<w>> # <<>> /\ <<w>>[Len(<<w>>)] = w
      BY <2>1
    <3> QED BY <1>t, <2>1, <2>3, <3>1, LastLeadsAway
  <2> QED BY <1>a, <1>t, <2>3, <2>4 DEF Watched, SentAway
<1>b. ASSUME to_proxy' \in Seq(Message), phase' \in {"target", "closed"},
             proto' \in Protocol \cup {""}
      PROVE  Watched'
  BY <1>b DEF Watched, Phase
<1>k. ASSUME NEW k \in Kinds, Send(Plain(k)) PROVE to_proxy' \in Seq(Message)
  BY <1>k, <1>s, ManagerMessages
<1>c. "close" \in Close /\ "close_back" \in Close
  BY DEF Close
<1>l. ASSUME NEW tn, NEW closed, LeaveTarget(tn, closed), phase = "target", proto' = proto
      PROVE  Watched'
  <2>1. CASE Send(Target(proto, TRUE, left > 1)) /\ UNCHANGED phase
    <3> DEFINE more == left > 1
    <3>b. more \in BOOLEAN
      OBVIOUS
    <3>m. Send(Target(proto, TRUE, more))
      BY <2>1
    <3> HIDE DEF more
    <3>1. Target(proto, TRUE, more) \in Message
      BY <1>t, <3>b, TargetMessage
    <3>2. to_proxy' \in Seq(Message)
      BY <1>s, <3>m, <3>1
    <3> QED BY <1>b, <1>l, <1>t, <2>1, <3>2
  <2>2. CASE Send(Module("close_back")) /\ phase' = "back"
    BY <1>a, <1>c, <1>l, <2>2 DEF Phase
  <2>3. CASE Send(Module("close")) /\ phase' \in {"closing", "closed"}
    BY <1>a, <1>c, <1>l, <2>3 DEF Phase
  <2>4. CASE SendAll(<<Module("close"), Module("close")>>) /\ phase' = "closing"
    <3> DEFINE w == Module("close")
    <3>1. w \in Message /\ w.kind = "module" /\ ~Names(w)
      BY <1>c, ManagerMessages
    <3>2. to_proxy' = to_proxy \o <<w, w>>
      BY <2>4 DEF SendAll
    <3> HIDE DEF w
    <3>3. <<w, w>> \in Seq(Message) /\ <<w, w>> # <<>> /\ <<w, w>>[Len(<<w, w>>)] = w
      BY <3>1
    <3>4. LeadsAway(to_proxy') /\ to_proxy' \in Seq(Message)
      BY <1>t, <3>1, <3>2, <3>3, LastLeadsAway, ConcatProperties
    <3> QED BY <1>l, <1>t, <2>4, <3>4 DEF Watched, SentAway, Phase
  <2>5. CASE phase' = "closed" /\ UNCHANGED to_proxy
    BY <1>b, <1>l, <1>t, <2>5
  <2> QED BY <1>l, <2>1, <2>2, <2>3, <2>4, <2>5 DEF LeaveTarget
<1>1. CASE ShowModule
  <2>1. PICK m \in Interactive : Send(Module(m))
    BY <1>1 DEF ShowModule
  <2> QED BY <1>1, <1>a, <1>t, <2>1 DEF ShowModule
<1>2. CASE Reject
  BY <1>2, <1>b, <1>k, <1>t DEF Reject, Kinds
<1>3. CASE ConnectToTarget
  <2>1. PICK p \in Protocol, n \in 1..MaxTargets, patterns \in 0..2 :
          /\ SendAll(Append([k \in 1..patterns |-> Module("transitory")],
                            Target(p, FALSE, n > 1)))
          /\ proto' = p
    BY <1>3 DEF ConnectToTarget
  <2> DEFINE shown == [k \in 1..patterns |-> Module("transitory")]
             first == Target(p, FALSE, n > 1)
  <2>m. Module("transitory") \in Message
    BY ManagerMessages
  <2>2. shown \in Seq(Message)
    BY <2>m
  <2>3. first \in Message
    <3> DEFINE more == n > 1
    <3>1. more \in BOOLEAN
      OBVIOUS
    <3> HIDE DEF more
    <3>2. Target(p, FALSE, more) \in Message
      BY <3>1, TargetMessage
    <3> QED BY <3>2 DEF more
  <2>4. to_proxy' = to_proxy \o Append(shown, first)
    BY <2>1 DEF SendAll
  <2> HIDE DEF shown, first
  <2>5. Append(shown, first) \in Seq(Message)
    BY <2>2, <2>3
  <2>6. to_proxy' \in Seq(Message)
    BY <1>t, <2>4, <2>5, ConcatProperties
  <2> QED BY <1>3, <1>b, <2>1, <2>6 DEF ConnectToTarget
<1>4. CASE ReceiveData
  <2>1. CASE to_sesman \cap {"ack", "close"} # {}
    BY <1>4, <2>1, <1>l DEF ReceiveData
  <2>2. CASE to_sesman \cap {"ack", "close"} = {}
    BY <1>4, <1>b, <1>k, <1>t, <2>2 DEF ReceiveData, Kinds
  <2> QED BY <2>1, <2>2
<1>5. CASE SendRequest
  <2>1. PICK k \in Request : Send(Plain(k))
    BY <1>5 DEF SendRequest
  <2>2. k \in Kinds
    BY SesmanAssumption DEF Kinds
  <2> QED BY <1>5, <1>b, <1>k, <1>t, <2>1, <2>2 DEF SendRequest
<1>6. CASE BackToSelector
  BY <1>6, <1>a DEF BackToSelector, Phase
<1>7. CASE CloseConnection \/ Kill
  BY <1>7, <1>b, <1>t DEF CloseConnection, Kill
<1>8. CASE MissingKeepalive
  BY <1>8, <1>l DEF MissingKeepalive
<1> QED
  BY <1>1, <1>2, <1>3, <1>4, <1>5, <1>6, <1>7, <1>8 DEF SesmanStep

(* A step of the process that reads no message and connects to no target. *)
LEMMA StaysAway ==
  ASSUME Watched, UNCHANGED <<phase, proto, to_proxy, next_module>>,
         mod'.sck => mod.sck, mod'.sck /\ pc = "end" => pc' = "end"
  PROVE  Watched'
BY DEF Watched, SentAway

(* A message that is read: the process takes the module it names, unless it is
   the one on the screen. *)
LEMMA MessageRead ==
  ASSUME Watched, Supervises, NEW k, Incoming(k), mod' = mod,
         \/ next_module' = next_module /\ k # "module"
         \/ next_module' = "close"
         \/ next_module' = Head(to_proxy).module /\ k = "module"
         \/ next_module' = next_module /\ Head(to_proxy).module = mod.name
  PROVE  Watched'
<1> DEFINE h == Head(to_proxy)
<1>1. /\ to_proxy \in Seq(Message) /\ to_proxy # <<>> /\ h.kind = k /\ pc = "acl"
      /\ to_proxy' = Tail(to_proxy) /\ phase \in Phase /\ UNCHANGED <<phase, proto>>
  BY DEF Watched, Incoming
<1>2. h \in Message /\ to_proxy' \in Seq(Message)
  BY <1>1
<1>3. next_module = Unknown /\ (mod.sck => mod.name \in Targets)
  BY <1>1 DEF Supervises, NextModuleFresh
<1>4. h.module # Unknown /\ "close" # Unknown /\ "close" \notin Targets
      /\ Unknown \notin Targets
  BY <1>2, SesmanAssumption DEF Message, Close, Unknown, Targets
<1> HIDE DEF h
<1>5. ASSUME phase \in {"auth", "back", "closing"} PROVE SentAway'
  <2>1. CASE LeadsAway(to_proxy) /\ LeadsAway(to_proxy')
    BY <2>1 DEF SentAway
  <2>2. CASE LeadsAway(to_proxy) /\ ~LeadsAway(to_proxy')
    <3>1. k = "module" /\ h.module \notin Targets /\ NoTarget(to_proxy')
      BY <1>1, <2>2, ReadLeadsAway DEF Names, h
    <3> QED BY <1>3, <1>4, <3>1 DEF SentAway, h
  <2>3. CASE NoTarget(to_proxy) /\ (mod.sck => next_module # Unknown \/ pc = "end")
    <3>1. NoTarget(to_proxy') /\ ~Names(h)
      BY <1>1, <2>3, ReadLeadsAway DEF h
    <3>2. ~mod.sck
      BY <1>1, <1>3, <2>3
    <3>3. k = "module" => h.module \notin Targets
      BY <1>1, <3>1 DEF Names
    <3>4. next_module' \notin Targets
      BY <1>3, <1>4, <3>3 DEF h
    <3> QED BY <3>1, <3>2, <3>4 DEF SentAway
  <2> QED BY <1>5, <2>1, <2>2, <2>3 DEF Watched, SentAway
<1> QED BY <1>1, <1>2, <1>5 DEF Watched

(* next_backend_module connects to nothing when it is given no target. *)
LEMMA NextModuleInternal ==
  ASSUME Supervises, NEW m, m \notin Targets, NEW tell, NextBackendModule(m, tell)
  PROVE  mod'.sck = FALSE
<1>1. CASE ~mod.sck /\ m \in Close /\ mod.name \in Close
  BY <1>1 DEF NextBackendModule, Supervises, IsModule
<1>2. CASE ~(~mod.sck /\ m \in Close /\ mod.name \in Close)
  <2>1. mod' = Internal(m)
    BY <1>2 DEF NextBackendModule, ShowInternal
  <2> QED BY <2>1, Modules
<1> QED BY <1>1, <1>2

(* Every step keeps it when a timer does not throw past a change of module. *)
LEMMA StepWatched ==
  ASSUME Watched, Supervises, [Next]_vars
  PROVE  Watched'
<1> USE DEF Goto, Raise, loop, history, sesman, supervision, Selected, FrontOnly,
            Callback, Readable
<1>m. ASSUME UNCHANGED <<phase, proto, to_proxy, next_module>>, pc # "end",
             \/ mod' = mod
             \/ \E g : mod' = [mod EXCEPT !.signal = g]
             \/ mod' = [mod EXCEPT !.up = TRUE]
             \/ mod'.sck = FALSE
      PROVE  Watched'
  <2>1. mod'.sck => mod.sck
    BY <1>m DEF Supervises, IsModule
  <2> QED BY <1>m, <2>1, StaysAway
<1>1. CASE FrontIsUp
  BY <1>1, <1>m DEF FrontIsUp
<1>2. CASE FrontFails
  BY <1>2, <1>m DEF FrontFails
<1>3. CASE SendAclData
  BY <1>3, <1>m DEF SendAclData
<1>4. CASE SendAclFails
  BY <1>4, <1>m DEF SendAclFails
<1>5. CASE SelectFails
  BY <1>5, <1>m DEF SelectFails
<1>6. CASE FrontQuiet
  BY <1>6, <1>m DEF FrontQuiet
<1>7. CASE FrontSendWaiting
  BY <1>7, <1>m DEF FrontSendWaiting
<1>8. CASE UserAnswers
  BY <1>8, <1>m DEF UserAnswers
<1>9. CASE UserInput
  BY <1>9, <1>m DEF UserInput
<1>10. CASE FrontResizes
  BY <1>10, <1>m DEF FrontResizes
<1>11. CASE FrontLeaves
  BY <1>11, <1>m DEF FrontLeaves
<1>12. CASE AclQuiet
  BY <1>12, <1>m DEF AclQuiet
<1>13. CASE AclLost
  BY <1>13, <1>m DEF AclLost
<1>14. CASE ModSendWaiting
  BY <1>14, <1>m DEF ModSendWaiting
<1>15. CASE ModConnected
  BY <1>15, <1>m DEF ModConnected
<1>16. CASE ModOutput
  BY <1>16, <1>m DEF ModOutput
<1>17. CASE ModEnds
  BY <1>17, <1>m DEF ModEnds
<1>18. CASE ModThrows
  BY <1>18, <1>m DEF ModThrows
<1>19. CASE KeepaliveTimer
  BY <1>19, <1>m DEF KeepaliveTimer
<1>20. CASE InactivityTimer
  BY <1>20, <1>m DEF InactivityTimer
<1>21. CASE EndDateTimer
  BY <1>21, <1>m DEF EndDateTimer
<1>22. CASE CloseBoxTimer
  BY <1>22, <1>m DEF CloseBoxTimer
<1>23. CASE GuestEvent
  BY <1>23, <1>m DEF GuestEvent
<1>24. CASE EndOfEvents
  BY <1>24, <1>m DEF EndOfEvents
<1>25. CASE CatchAcl
  BY <1>25, <1>m DEF CatchAcl
<1>26. CASE CloseBoxEnds
  BY <1>26, <1>m DEF CloseBoxEnds
<1>27. CASE AclKeepalive
  BY <1>27, MessageRead DEF AclKeepalive, Incoming
<1>28. CASE AclEndDate
  BY <1>28, MessageRead DEF AclEndDate, Incoming
<1>29. CASE AclInactivity
  BY <1>29, MessageRead DEF AclInactivity, Incoming
<1>30. CASE AclSharing
  BY <1>30, MessageRead DEF AclSharing, Incoming
<1>31. CASE AclRejected
  BY <1>31, MessageRead DEF AclRejected, Incoming
<1>32. CASE AclDisconnect
  BY <1>32, MessageRead DEF AclDisconnect, Incoming
<1>33. CASE AclOther
  BY <1>33, MessageRead DEF AclOther, Incoming
<1>34. CASE AclModule
  <2> DEFINE m == Head(to_proxy)
  <2>1. Incoming("module") /\ mod' = mod
    BY <1>34 DEF AclModule
  <2>2. \/ next_module' = m.module
        \/ next_module' = next_module /\ m.module = mod.name
    BY <1>34 DEF AclModule
  <2> QED BY <2>1, <2>2, MessageRead
<1>35. CASE ConnectAuth
  <2>1. mod' = mod \/ mod'.sck = FALSE
    BY <1>35, Modules DEF ConnectAuth
  <2> QED BY <1>35, <2>1, <1>m DEF ConnectAuth
<1>36. CASE BackEvent
  <2>1. UNCHANGED <<phase, proto, to_proxy>> /\ pc = "back"
    BY <1>36 DEF BackEvent
  <2>2. CASE back_event = "stop" \/ Wanted = Unknown
    <3>1. mod' = mod /\ next_module' = next_module
          /\ pc' = IF back_event = "stop" THEN "end" ELSE "send"
      BY <1>36, <2>2 DEF BackEvent
    <3> QED BY <2>1, <3>1, StaysAway
  <2>3. CASE /\ back_event # "stop" /\ Wanted # Unknown
             /\ Wanted \in Close /\ "close_box" \notin Option
    <3>1. mod' = mod /\ next_module' = Wanted /\ pc' = "end" /\ Wanted \notin Targets
      BY <1>36, <2>3 DEF BackEvent, Close, Targets
    <3> QED BY <2>1, <3>1 DEF Watched, SentAway
  <2>4. CASE /\ back_event # "stop" /\ Wanted # Unknown
             /\ ~(Wanted \in Close /\ "close_box" \notin Option)
    <3>1. next_module' = Unknown /\ NextBackendModule(Wanted, TellsClose)
          /\ Unknown \notin Targets
      BY <1>36, <2>4 DEF BackEvent, Unknown, Targets
    <3>2. Wanted \notin Targets => mod'.sck = FALSE
      BY <3>1, NextModuleInternal
    <3>3. next_module \notin Targets => Wanted \notin Targets
      BY DEF Wanted, Targets
    <3> QED BY <2>1, <3>1, <3>2, <3>3 DEF Watched, SentAway
  <2> QED BY <2>2, <2>3, <2>4
<1>37. CASE CatchFront
  <2>1. UNCHANGED <<phase, proto, to_proxy, next_module>> /\ pc = "catch"
        /\ (mod' = mod \/ mod.sck)
    BY <1>37 DEF CatchFront, LeaveLoop, Reconnectable
  <2> QED BY <2>1, StaysAway
<1>38. CASE CatchSession
  <2>1. UNCHANGED <<phase, proto, to_proxy, next_module>> /\ pc = "catch"
    BY <1>38 DEF CatchSession
  <2>2. CASE LeaveLoop
    BY <2>1, <2>2, StaysAway DEF LeaveLoop
  <2>3. CASE NextBackendModule("close", mod.sck)
    <3>1. mod'.sck = FALSE
      BY <2>3, NextModuleInternal DEF Targets
    <3> QED BY <2>1, <3>1, StaysAway
  <2>4. CASE RetryRdp /\ "retry" \in EndSessionException(exc.id)
    <3>1. mod.sck
      BY <1>38, <2>4, TimerErrorsClose DEF CatchSession, Supervises, ErrorHasTarget
    <3> QED BY <2>1, <3>1, StaysAway
  <2> QED BY <1>38, <2>2, <2>3, <2>4 DEF CatchSession
<1>39. CASE PostLoop
  <2>1. UNCHANGED <<phase, proto, to_proxy, next_module>>
        /\ (mod' = NoMod \/ (mod' = mod /\ mod.name = "close"))
    BY <1>39 DEF PostLoop
  <2>2. mod'.sck = FALSE
    BY <2>1, Modules DEF Supervises, IsModule, Targets
  <2> QED BY <2>1, <2>2, StaysAway
<1>40. CASE SesmanStep
  BY <1>40, ManagerSendsAway
<1>41. CASE Done \/ UNCHANGED vars
  <2>1. UNCHANGED <<phase, proto, to_proxy, next_module, mod, pc>>
    BY <1>41 DEF Done, vars
  <2> QED BY <2>1, StaysAway
<1> QED
  BY <1>1, <1>2, <1>3, <1>4, <1>5, <1>6, <1>7, <1>8, <1>9, <1>10, <1>11, <1>12, <1>13, <1>14,
     <1>15, <1>16, <1>17, <1>18, <1>19, <1>20, <1>21, <1>22, <1>23, <1>24, <1>25, <1>26,
     <1>27, <1>28, <1>29, <1>30, <1>31, <1>32, <1>33, <1>34, <1>35, <1>36, <1>37, <1>38,
     <1>39, <1>40, <1>41
  DEF Next, LoopStep, UserStep, TargetStep, TimerStep, AclStep

(* As long as no timer throws in the iteration that changes the module, and
   whatever the number of physical targets, a manager that lives is in its
   session loop whenever the process waits with a target and every message is
   delivered (SessionWatched). *)
THEOREM SessionIsWatched ==
  ASSUME ~TimersRace
  PROVE  Spec => []SessionWatched
<1> DEFINE Inv == Supervises /\ Watched
<1>1. Init => Inv
  <2>1. Init => Supervises
    BY Modules DEF Init, Supervises, ErrorHasTarget, KeepaliveRuns, InactivityRuns,
        NextModuleFresh
  <2>2. ASSUME Init PROVE Watched
    <3>1. /\ to_proxy = <<>> /\ proto = "" /\ phase = "auth" /\ next_module = Unknown
          /\ mod.sck = FALSE
      BY <2>2, Modules DEF Init, SesmanInit
    <3>2. <<>> \in Seq(Message) /\ NoTarget(<<>>) /\ Unknown \notin Targets
      BY EmptySeq DEF NoTarget, Unknown, Targets
    <3> QED BY <3>1, <3>2 DEF Watched, SentAway, Phase
  <2> QED BY <2>1, <2>2
<1>2. Inv /\ [Next]_vars => Inv'
  BY StepSupervises, StepWatched
<1>3. Inv => SessionWatched
  <2>1. ~LeadsAway(<<>>)
    BY DEF LeadsAway
  <2> QED BY <2>1 DEF Watched, SentAway, Phase, SessionWatched
<1> QED BY <1>1, <1>2, <1>3, PTL DEF Spec

----------------------------------------------------------------------------
(* The inductive invariant of AssertionsHold over a chain of physical targets.
   The log is kept from a target that could not be created to the next one, so
   what the manager sends has to agree with what the process has left open. *)

(* The service: RDP targets, a manager that sends neither an order to disconnect
   nor a field for the module, and targets that are not left between their
   connection and their success. *)
Failover ==
    /\ Protocol \subseteq {"RDP"} /\ Request \cap {"disconnect", "other"} = {}
    /\ ~LateFailure /\ ~TimersRace /\ MaxRetries = 0
    /\ Congestible \cap {"guest", "mod"} = {}

ChainMessage == {m \in Message : m.kind \notin {"disconnect", "other"}}

(* A message that changes the module. *)
Turns(m) == m.kind \in {"module", "rejected"}

NoTurn(q) == \A i \in 1 .. Len(q) : ~Turns(q[i])

(* The fields of a target: it is an alternate one when it finds the log l open,
   and there are more of them when n are left. *)
Agree(alt, more, l, n) == (alt = TRUE <=> l # "") /\ (more = TRUE <=> n > 0)

(* A target is on the way, and nothing that changes the module after it. *)
Carries(q, l, n) ==
    \E i \in 1 .. Len(q) :
        /\ Names(q[i]) /\ Agree(q[i].alt, q[i].more, l, n)
        /\ \A j \in 1 .. Len(q) : (j < i => ~Names(q[j])) /\ (i < j => ~Turns(q[j]))

NoneComing == NoTarget(to_proxy) /\ next_module \notin Targets

Quiet == NoTurn(to_proxy) /\ next_module = Unknown

Told(f) == f \in acl_out \/ f \in to_sesman

Untold == ~Told("close") /\ ~Told("success")

(* The manager hears of the success of a target before it hears of its end. *)
ToldInTurn == /\ \A f \in {"close", "success"} : ~(f \in acl_out /\ f \in to_sesman)
              /\ "close" \in to_sesman => "success" \notin acl_out

(* The trial of a target, step by step. *)
TrialSent == /\ Carries(to_proxy, log, left) /\ next_module \notin Targets
             /\ ~mod.sck /\ Untold

TrialTaken == /\ NoTurn(to_proxy) /\ next_module = "RDP"
              /\ Agree(ini.alt, ini.more, log, left)
              /\ ~mod.sck /\ Untold

Undisturbed ==
    /\ mod.signal = "none"
    /\ pc \in {"select", "acl", "events", "back"} => back_event = "none"
    /\ pc = "catch" => exc.where \notin {"AclUpdate", "EventLoop"}

TrialConnects == Quiet /\ Untold /\ mod.sck /\ ~mod.up /\ Undisturbed

TrialFailed == /\ Quiet /\ ~mod.sck /\ Told("close") /\ ~Told("success")
               /\ log # "" <=> left > 0

(* A target that succeeded, and then was left. *)
Ran == IF mod.sck THEN mod.up /\ ~Told("close") ELSE log = ""

TrialSucceeded == Quiet /\ Told("success") /\ Ran

Position ==
    /\ phase = "target" => ToldInTurn /\ proto = "RDP"
    /\ phase = "target" /\ try_next =>
         TrialSent \/ TrialTaken \/ TrialConnects \/ TrialFailed \/ TrialSucceeded
    /\ phase = "target" /\ ~try_next => NoneComing /\ Ran /\ ~Told("success")
    /\ phase \in {"auth", "back", "closing"} =>
         NoneComing /\ Untold /\ ~mod.sck /\ log = ""
    /\ phase = "closed" => NoneComing \/ TrialSent \/ TrialTaken

Over == pc \in {"end", "close_box", "done"}

Chain ==
    /\ phase \in Phase /\ proto \in Protocol \cup {""} /\ left \in Nat
    /\ try_next \in BOOLEAN
    /\ to_proxy \in Seq(ChainMessage)
    /\ retries = 0 /\ ~Told("ack")
    /\ pc \in {"wait_front", "connect"} => acl_out = {}
    /\ mod.sck => log # ""
    /\ mod.name \in Targets => mod.sck
    /\ Over \/ Position

(* A message that is read from the queue. *)
LEMMA TrialRead ==
  ASSUME NEW q \in Seq(ChainMessage), q # <<>>, NEW l, NEW n
  PROVE  /\ Tail(q) \in Seq(ChainMessage) /\ Head(q) \in ChainMessage
         /\ NoTurn(q) => NoTurn(Tail(q)) /\ ~Turns(Head(q))
         /\ NoTarget(q) => NoTarget(Tail(q)) /\ ~Names(Head(q))
         /\ Carries(q, l, n) /\ ~Names(Head(q)) => Carries(Tail(q), l, n)
         /\ Carries(q, l, n) /\ Names(Head(q)) =>
              NoTurn(Tail(q)) /\ Agree(Head(q).alt, Head(q).more, l, n)
<1> DEFINE t == Tail(q)
<1>1. /\ t \in Seq(ChainMessage) /\ Len(q) \in Nat \ {0} /\ Len(t) = Len(q) - 1
      /\ Head(q) = q[1] /\ Head(q) \in ChainMessage
      /\ \A i \in 1 .. Len(t) : t[i] = q[i + 1]
  OBVIOUS
<1> HIDE DEF t
<1>2. \A i \in 1 .. Len(t) : i + 1 \in 1 .. Len(q) /\ t[i] = q[i + 1]
  BY <1>1
<1>3. 1 \in 1 .. Len(q)
  BY <1>1
<1>4. NoTurn(q) => NoTurn(t) /\ ~Turns(Head(q))
  BY <1>1, <1>2, <1>3 DEF NoTurn
<1>5. NoTarget(q) => NoTarget(t) /\ ~Names(Head(q))
  BY <1>1, <1>2, <1>3 DEF NoTarget
<1>6. ASSUME Carries(q, l, n)
      PROVE  /\ ~Names(Head(q)) => Carries(t, l, n)
             /\ Names(Head(q)) => NoTurn(t) /\ Agree(Head(q).alt, Head(q).more, l, n)
  <2>1. PICK i \in 1 .. Len(q) :
          /\ Names(q[i]) /\ Agree(q[i].alt, q[i].more, l, n)
          /\ \A j \in 1 .. Len(q) : (j < i => ~Names(q[j])) /\ (i < j => ~Turns(q[j]))
    BY <1>6 DEF Carries
  <2>2. CASE i = 1
    <3>1. ASSUME NEW j \in 1 .. Len(t) PROVE ~Turns(t[j])
      <4>1. j + 1 \in 1 .. Len(q) /\ t[j] = q[j + 1] /\ i < j + 1
        BY <1>2, <2>2
      <4> QED BY <2>1, <4>1
    <3>2. NoTurn(t)
      BY <3>1 DEF NoTurn
    <3>3. Names(Head(q)) /\ Agree(Head(q).alt, Head(q).more, l, n)
      BY <1>1, <2>1, <2>2
    <3> QED BY <3>2, <3>3
  <2>3. CASE i # 1
    <3> DEFINE h == i - 1
    <3>1. h \in 1 .. Len(t) /\ t[h] = q[i] /\ 1 < i
      BY <1>1, <2>3
    <3>2. ~Names(Head(q))
      BY <1>1, <1>3, <2>1, <3>1
    <3>3. ASSUME NEW j \in 1 .. Len(t)
          PROVE  (j < h => ~Names(t[j])) /\ (h < j => ~Turns(t[j]))
      <4>1. j + 1 \in 1 .. Len(q) /\ t[j] = q[j + 1]
            /\ (j < h => j + 1 < i) /\ (h < j => i < j + 1)
        BY <1>2
      <4> QED BY <2>1, <4>1
    <3>4. Names(t[h]) /\ Agree(t[h].alt, t[h].more, l, n)
      BY <2>1, <3>1
    <3> HIDE DEF h
    <3>5. Carries(t, l, n)
      BY <3>1, <3>3, <3>4 DEF Carries
    <3> QED BY <3>2, <3>5
  <2> QED BY <2>2, <2>3
<1> QED BY <1>1, <1>4, <1>5, <1>6 DEF t

(* Messages that are added to the queue. *)
LEMMA TrialSends ==
  ASSUME NEW q \in Seq(ChainMessage), NEW ms \in Seq(ChainMessage), NEW l, NEW n
  PROVE  /\ q \o ms \in Seq(ChainMessage)
         /\ NoTurn(q) /\ NoTurn(ms) => NoTurn(q \o ms)
         /\ NoTarget(q) /\ NoTarget(ms) => NoTarget(q \o ms)
         /\ Carries(q, l, n) /\ NoTurn(ms) => Carries(q \o ms, l, n)
         /\ NoTarget(q) /\ Carries(ms, l, n) => Carries(q \o ms, l, n)
<1> DEFINE r == q \o ms
<1>l. Len(q) \in Nat /\ Len(ms) \in Nat
  BY LenProperties
<1>1. /\ r \in Seq(ChainMessage) /\ Len(r) = Len(q) + Len(ms)
      /\ \A i \in 1 .. Len(q) + Len(ms) :
            r[i] = IF i <= Len(q) THEN q[i] ELSE ms[i - Len(q)]
  BY ConcatProperties
<1> HIDE DEF r
<1>2. ASSUME NEW i \in 1 .. Len(r)
      PROVE  \/ i \in 1 .. Len(q) /\ r[i] = q[i]
             \/ i > Len(q) /\ i - Len(q) \in 1 .. Len(ms) /\ r[i] = ms[i - Len(q)]
  BY <1>l, <1>1
<1>3. NoTurn(q) /\ NoTurn(ms) => NoTurn(r)
  BY <1>2 DEF NoTurn
<1>4. NoTarget(q) /\ NoTarget(ms) => NoTarget(r)
  BY <1>2 DEF NoTarget
<1>5. ASSUME Carries(q, l, n), NoTurn(ms) PROVE Carries(r, l, n)
  <2>1. PICK i \in 1 .. Len(q) :
          /\ Names(q[i]) /\ Agree(q[i].alt, q[i].more, l, n)
          /\ \A j \in 1 .. Len(q) : (j < i => ~Names(q[j])) /\ (i < j => ~Turns(q[j]))
    BY <1>5 DEF Carries
  <2>2. i \in 1 .. Len(r) /\ r[i] = q[i]
    BY <1>l, <1>1
  <2>3. ASSUME NEW j \in 1 .. Len(r)
        PROVE  (j < i => ~Names(r[j])) /\ (i < j => ~Turns(r[j]))
    <3>1. CASE j \in 1 .. Len(q) /\ r[j] = q[j]
      BY <2>1, <3>1
    <3>2. CASE j > Len(q) /\ j - Len(q) \in 1 .. Len(ms) /\ r[j] = ms[j - Len(q)]
      <4>1. ~(j < i)
        BY <1>l, <3>2
      <4>2. ~Turns(r[j])
        BY <1>5, <3>2 DEF NoTurn
      <4> QED BY <4>1, <4>2
    <3> QED BY <1>2, <3>1, <3>2
  <2>4. Names(r[i]) /\ Agree(r[i].alt, r[i].more, l, n)
    BY <2>1, <2>2
  <2> QED BY <2>2, <2>3, <2>4 DEF Carries
<1>6. ASSUME NoTarget(q), Carries(ms, l, n) PROVE Carries(r, l, n)
  <2>1. PICK i \in 1 .. Len(ms) :
          /\ Names(ms[i]) /\ Agree(ms[i].alt, ms[i].more, l, n)
          /\ \A j \in 1 .. Len(ms) : (j < i => ~Names(ms[j])) /\ (i < j => ~Turns(ms[j]))
    BY <1>6 DEF Carries
  <2> DEFINE h == Len(q) + i
  <2>2. h \in 1 .. Len(r) /\ r[h] = ms[i]
    <3>1. h \in 1 .. Len(q) + Len(ms) /\ ~(h <= Len(q)) /\ h - Len(q) = i
      BY <1>l
    <3> HIDE DEF h
    <3> QED BY <1>1, <3>1
  <2>3. ASSUME NEW j \in 1 .. Len(r)
        PROVE  (j < h => ~Names(r[j])) /\ (h < j => ~Turns(r[j]))
    <3>1. CASE j \in 1 .. Len(q) /\ r[j] = q[j]
      <4>1. ~(h < j)
        BY <1>l, <3>1
      <4>2. ~Names(r[j])
        BY <1>6, <3>1 DEF NoTarget
      <4> QED BY <4>1, <4>2
    <3>2. CASE j > Len(q) /\ j - Len(q) \in 1 .. Len(ms) /\ r[j] = ms[j - Len(q)]
      <4>1. (j < h => j - Len(q) < i) /\ (h < j => i < j - Len(q))
        BY <1>l, <3>2
      <4> QED BY <2>1, <3>2, <4>1
    <3> QED BY <1>2, <3>1, <3>2
  <2>4. Names(r[h]) /\ Agree(r[h].alt, r[h].more, l, n)
    BY <2>1, <2>2
  <2> HIDE DEF h
  <2> QED BY <2>2, <2>3, <2>4 DEF Carries
<1> QED BY <1>1, <1>3, <1>4, <1>5, <1>6 DEF r

(* One message. *)
LEMMA TrialSendsOne ==
  ASSUME NEW m \in ChainMessage, NEW l, NEW n
  PROVE  /\ <<m>> \in Seq(ChainMessage)
         /\ ~Turns(m) => NoTurn(<<m>>)
         /\ ~Names(m) => NoTarget(<<m>>)
         /\ Names(m) /\ Agree(m.alt, m.more, l, n) => Carries(<<m>>, l, n)
<1> DEFINE q == <<m>>
<1>1. q \in Seq(ChainMessage) /\ Len(q) = 1 /\ q[1] = m
  OBVIOUS
<1>2. \A i \in 1 .. Len(q) : i = 1
  BY <1>1
<1> HIDE DEF q
<1>3. 1 \in 1 .. Len(q) /\ \A j \in 1 .. Len(q) : ~(j < 1) /\ ~(1 < j)
  BY <1>1
<1>4. Names(m) /\ Agree(m.alt, m.more, l, n) => Carries(q, l, n)
  BY <1>1, <1>3 DEF Carries
<1>5. (~Turns(m) => NoTurn(q)) /\ (~Names(m) => NoTarget(q))
  BY <1>1, <1>2 DEF NoTurn, NoTarget
<1> QED BY <1>1, <1>4, <1>5 DEF q

(* What names a target changes the module. *)
LEMMA QuietNamesNone ==
  ASSUME NEW q, NoTurn(q)
  PROVE  NoTarget(q)
BY DEF NoTurn, NoTarget, Turns, Names

(* A step that tells the manager nothing about the target, reads at most a
   message that changes no module, and does not disturb a connection. *)
LEMMA ChainKept ==
  ASSUME Chain,
         UNCHANGED <<next_module, log, ini, retries, phase, proto, left, try_next, to_sesman>>,
         \/ to_proxy' = to_proxy
         \/ to_proxy # <<>> /\ to_proxy' = Tail(to_proxy) /\ ~Turns(Head(to_proxy)),
         \A f \in {"close", "success", "ack"} : f \in acl_out' <=> f \in acl_out,
         pc' \in {"wait_front", "connect"} => acl_out' = {},
         mod'.sck = mod.sck, mod.sck => mod'.up = mod.up,
         mod'.name \in Targets => mod.name \in Targets,
         TrialConnects => Undisturbed', Over => Over'
  PROVE  Chain'
<1>1. to_proxy \in Seq(ChainMessage)
  BY DEF Chain
<1>2. /\ to_proxy' \in Seq(ChainMessage)
      /\ NoTurn(to_proxy) => NoTurn(to_proxy')
      /\ NoTarget(to_proxy) => NoTarget(to_proxy')
      /\ Carries(to_proxy, log, left) => Carries(to_proxy', log', left')
  <2>1. CASE to_proxy' = to_proxy
    BY <1>1, <2>1
  <2>2. CASE to_proxy # <<>> /\ to_proxy' = Tail(to_proxy) /\ ~Turns(Head(to_proxy))
    <3>1. ~Names(Head(to_proxy))
      BY <2>2 DEF Turns, Names
    <3> QED BY <1>1, <2>2, <3>1, TrialRead
  <2> QED BY <2>1, <2>2
<1>3. \A f \in {"close", "success", "ack"} : Told(f)' <=> Told(f)
  BY DEF Told
<1>4. (Untold' <=> Untold) /\ (ToldInTurn => ToldInTurn')
  BY <1>3 DEF Untold, ToldInTurn
<1>5. /\ (TrialSent => TrialSent') /\ (TrialTaken => TrialTaken')
      /\ (TrialFailed => TrialFailed') /\ (NoneComing => NoneComing')
      /\ TrialConnects => TrialConnects'
  BY <1>2, <1>3, <1>4 DEF TrialSent, TrialTaken, TrialFailed, NoneComing, TrialConnects,
      Quiet
<1>6. Ran => Ran'
  BY <1>3 DEF Ran
<1>7. TrialSucceeded => TrialSucceeded'
  BY <1>2, <1>3, <1>6 DEF TrialSucceeded, Quiet
<1>8. Position => Position'
  BY <1>3, <1>4, <1>5, <1>6, <1>7 DEF Position
<1> QED BY <1>2, <1>3, <1>8 DEF Chain

(* Once the loop is over no module is created any more. *)
LEMMA ChainOver ==
  ASSUME Chain, UNCHANGED <<retries, to_proxy, phase, proto, left, try_next>>, Over',
         Told("ack")' => Told("ack"), mod'.sck => mod.sck /\ log' = log,
         mod'.name \in Targets => mod'.sck
  PROVE  Chain'
BY DEF Chain, Over

(* A module of the manager is taken: a target that is on the way is the last
   one. *)
LEMMA ChainTurns ==
  ASSUME Failover, Chain, Supervises, NEW k, Incoming(k), k \in {"module", "rejected"},
         UNCHANGED <<mod, acl_out>>, pc' = "events",
         k = "rejected" => next_module' = "close" /\ ini' = ini,
         k = "module" =>
            /\ Head(to_proxy).module \in Targets =>
                  ini'.alt = Head(to_proxy).alt /\ ini'.more = Head(to_proxy).more
            /\ \/ next_module' = Head(to_proxy).module
               \/ next_module' = next_module /\ Head(to_proxy).module = mod.name
  PROVE  Chain'
<1> DEFINE h == Head(to_proxy)
<1>1. /\ to_proxy \in Seq(ChainMessage) /\ to_proxy # <<>> /\ to_proxy' = Tail(to_proxy)
      /\ h.kind = k /\ pc = "acl"
      /\ UNCHANGED <<phase, proto, left, try_next, to_sesman, log, retries>>
  BY DEF Chain, Incoming, record
<1>2. h \in ChainMessage /\ Tail(to_proxy) \in Seq(ChainMessage)
  BY <1>1, TrialRead
<1>3. Turns(h) /\ ~NoTurn(to_proxy)
  BY <1>1, TrialRead DEF Turns
<1>4. next_module = Unknown /\ Unknown \notin Targets /\ "close" \notin Targets
  BY <1>1 DEF Supervises, NextModuleFresh, Targets, Unknown
<1>5. Names(h) => h.module = "RDP" /\ k = "module"
  BY <1>1, <1>2, SesmanAssumption
  DEF Failover, ChainMessage, Message, Names, Targets, Close
<1>6. ~Names(h) => next_module' \notin Targets
  BY <1>1, <1>4 DEF Names
<1>7. \A f \in {"close", "success", "ack"} : Told(f)' <=> Told(f)
  BY <1>1 DEF Told
<1>8. (Untold' <=> Untold) /\ (ToldInTurn => ToldInTurn')
  BY <1>1, <1>7 DEF Untold, ToldInTurn
<1> HIDE DEF h
<1>9. NoneComing => NoneComing'
  BY <1>1, <1>6, TrialRead DEF NoneComing, h
<1>10. TrialSent => TrialSent' \/ TrialTaken'
  <2>1. CASE TrialSent /\ ~Names(h)
    BY <1>1, <1>6, <1>8, <2>1, TrialRead DEF TrialSent, h
  <2>2. CASE TrialSent /\ Names(h)
    <3>1. NoTurn(to_proxy') /\ Agree(h.alt, h.more, log, left)
      BY <1>1, <2>2, TrialRead DEF TrialSent, h
    <3>2. mod.name # h.module
      BY <1>5, <2>2 DEF TrialSent, Chain, Targets
    <3>3. next_module' = "RDP" /\ ini'.alt = h.alt /\ ini'.more = h.more
      BY <1>5, <2>2, <3>2 DEF h, Targets
    <3> QED BY <1>1, <1>8, <2>2, <3>1, <3>3 DEF TrialTaken, TrialSent
  <2> QED BY <2>1, <2>2
<1>11. ~TrialTaken /\ ~Quiet
  BY <1>3 DEF TrialTaken, Quiet
<1>12. Ran => Ran'
  BY <1>1, <1>7 DEF Ran
<1>13. Position => Position'
  BY <1>1, <1>7, <1>8, <1>9, <1>10, <1>11, <1>12
  DEF Position, TrialConnects, TrialFailed, TrialSucceeded
<1> QED BY <1>1, <1>2, <1>7, <1>13 DEF Chain, Over

(* send_acl_data: what the process had to tell is told. *)
LEMMA ChainTells ==
  ASSUME Chain, SendAclData
  PROVE  Chain'
<1>1. /\ pc = "send" /\ pc' = "select" /\ acl_out' = {} /\ back_event' = "none"
      /\ to_sesman' = IF phase = "closed" THEN to_sesman ELSE to_sesman \cup acl_out
      /\ UNCHANGED <<next_module, mod, log, ini, retries, phase, proto, left, try_next,
                     to_proxy>>
  BY DEF SendAclData, Goto, record, history
<1>2. \A f \in {"close", "success", "ack"} :
        (Told(f)' => Told(f)) /\ (phase # "closed" => (Told(f)' <=> Told(f)))
  BY <1>1 DEF Told
<1>3. ToldInTurn' /\ (Untold => Untold')
  BY <1>1, <1>2 DEF ToldInTurn, Untold
<1>4. TrialConnects => Undisturbed'
  BY <1>1 DEF TrialConnects, Undisturbed
<1>5. /\ (TrialSent => TrialSent') /\ (TrialTaken => TrialTaken')
      /\ NoneComing => NoneComing'
      /\ TrialConnects => TrialConnects'
  BY <1>1, <1>3, <1>4 DEF TrialSent, TrialTaken, NoneComing, TrialConnects, Quiet
<1>6. ASSUME phase # "closed"
      PROVE  /\ (TrialFailed => TrialFailed') /\ (Ran => Ran')
             /\ TrialSucceeded => TrialSucceeded'
  BY <1>1, <1>2, <1>6 DEF TrialFailed, Ran, TrialSucceeded, Quiet
<1>7. Position => Position'
  BY <1>1, <1>2, <1>3, <1>5, <1>6 DEF Position
<1> QED BY <1>1, <1>2, <1>7 DEF Chain, Over

(* The success of a target ends its trial. *)
LEMMA ChainSucceeds ==
  ASSUME Chain, Supervises, ModConnected
  PROVE  Chain'
<1>1. /\ pc = "events" /\ pc' = pc /\ mod.sck /\ ~mod.up
      /\ acl_out' = acl_out \cup {"success"} /\ mod' = [mod EXCEPT !.up = TRUE]
      /\ UNCHANGED <<next_module, log, ini, retries, phase, proto, left, try_next,
                     to_proxy, to_sesman>>
  BY DEF ModConnected, Readable, Callback, history, sesman
<1>2. mod'.sck = mod.sck /\ mod'.up = TRUE /\ mod'.name = mod.name
  BY <1>1 DEF Supervises, IsModule
<1>3. Position
  BY <1>1 DEF Chain, Over
<1>4. ~TrialSent /\ ~TrialTaken /\ ~TrialFailed /\ ~Ran
  BY <1>1 DEF TrialSent, TrialTaken, TrialFailed, Ran
<1>5. \/ phase = "target" /\ try_next /\ TrialConnects
      \/ phase = "closed" /\ NoneComing
  BY <1>1, <1>3, <1>4 DEF Position, TrialSucceeded, Chain, Phase
<1>6. CASE phase = "target" /\ try_next /\ TrialConnects
  <2>1. TrialSucceeded' /\ ToldInTurn'
    BY <1>1, <1>2, <1>6
    DEF TrialSucceeded, Ran, TrialConnects, Quiet, Told, Untold, ToldInTurn
  <2>2. Position'
    BY <1>1, <1>3, <1>6, <2>1 DEF Position
  <2> QED BY <1>1, <1>2, <2>2 DEF Chain, Told
<1>7. CASE phase = "closed" /\ NoneComing
  <2>1. Position'
    BY <1>1, <1>7 DEF Position, NoneComing
  <2> QED BY <1>1, <1>2, <2>1 DEF Chain, Told
<1> QED BY <1>5, <1>6, <1>7

(* next_backend_module with a module that is no target: the log is closed with
   the target it belongs to, and only then. *)
LEMMA NextModuleLeaves ==
  ASSUME Supervises, NEW m, m \notin Targets, m # Unknown, NEW tell,
         NextBackendModule(m, tell)
  PROVE  /\ mod'.sck = FALSE /\ mod'.name \notin Targets /\ pc' = "send"
         /\ log' = IF mod.sck THEN "" ELSE log
         /\ acl_out' = acl_out \/ (tell /\ acl_out' = acl_out \cup {"close"})
<1>1. CASE ~mod.sck /\ m \in Close /\ mod.name \in Close
  BY <1>1 DEF NextBackendModule, Goto, Supervises, IsModule
<1>2. CASE ~(~mod.sck /\ m \in Close /\ mod.name \in Close)
  <2> DEFINE openlog == IF KeepsRecord(m) THEN log ELSE ""
  <2>1. ShowInternal(m, openlog, LeaveFails(m), tell)
    BY <1>2 DEF NextBackendModule
  <2>2. openlog = IF mod.sck THEN "" ELSE log
    BY DEF KeepsRecord, NoMod, Unknown
  <2> HIDE DEF openlog
  <2>3. mod' = Internal(m) /\ log' = openlog /\ pc' = "send"
        /\ IF tell THEN TellClose ELSE UNCHANGED <<ini, acl_out>>
    BY <2>1 DEF ShowInternal, Goto
  <2> QED BY <2>2, <2>3, Modules DEF TellClose
<1> QED BY <1>1, <1>2

(* A target is left, after it succeeded; any other module is left whatever the
   manager waits for. *)
LEMMA ChainLeaves ==
  ASSUME Chain, Supervises, NEW m, m \notin Targets, m # Unknown, NEW tell,
         NextBackendModule(m, tell), tell => mod.sck,
         ~Over, ~TrialConnects, next_module \notin Targets, next_module' = Unknown,
         UNCHANGED <<retries, phase, proto, left, try_next, to_proxy, to_sesman>>
  PROVE  Chain'
<1>1. /\ mod'.sck = FALSE /\ mod'.name \notin Targets /\ pc' = "send"
      /\ log' = IF mod.sck THEN "" ELSE log
      /\ acl_out' = acl_out \/ (mod.sck /\ acl_out' = acl_out \cup {"close"})
  <2>1. /\ mod'.sck = FALSE /\ mod'.name \notin Targets /\ pc' = "send"
        /\ log' = IF mod.sck THEN "" ELSE log
        /\ acl_out' = acl_out \/ (tell /\ acl_out' = acl_out \cup {"close"})
    BY NextModuleLeaves, Zenon
  <2> QED BY <2>1
<1>2. Position /\ ~TrialTaken
  BY DEF Chain, TrialTaken, Targets
<1>3. Unknown \notin Targets
  BY DEF Unknown, Targets
<1>4. ~mod.sck => \A f \in {"close", "success"} : Told(f)' <=> Told(f)
  BY <1>1 DEF Told
<1>5. (Told("success")' <=> Told("success")) /\ (Told("ack")' => Told("ack"))
  BY <1>1 DEF Told
<1>6. NoneComing => NoneComing'
  BY <1>3 DEF NoneComing
<1>7. TrialSent => TrialSent'
  BY <1>1, <1>3, <1>4 DEF TrialSent, Untold
<1>8. TrialFailed => TrialFailed'
  BY <1>1, <1>4 DEF TrialFailed, Quiet
<1>9. Ran => Ran'
  BY <1>1 DEF Ran
<1>10. TrialSucceeded => TrialSucceeded'
  BY <1>5, <1>9 DEF TrialSucceeded, Quiet
<1>11. ToldInTurn /\ (mod.sck => Ran) => ToldInTurn'
  BY <1>1 DEF ToldInTurn, Ran, Told
<1>12. phase = "target" => ToldInTurn'
  BY <1>2, <1>11 DEF Position, TrialSent, TrialFailed, TrialSucceeded, Chain
<1>13. ~mod.sck /\ Untold => Untold'
  BY <1>4 DEF Untold
<1>14. Position'
  <2>1. CASE phase = "target" /\ try_next
    BY <1>2, <1>7, <1>8, <1>10, <1>12, <2>1 DEF Position
  <2>2. CASE phase = "target" /\ ~try_next
    BY <1>2, <1>5, <1>6, <1>9, <1>12, <2>2 DEF Position
  <2>3. CASE phase \in {"auth", "back", "closing"}
    BY <1>1, <1>2, <1>6, <1>13, <2>3 DEF Position
  <2>4. CASE phase = "closed"
    BY <1>2, <1>6, <1>7, <2>4 DEF Position
  <2> QED BY <2>1, <2>2, <2>3, <2>4 DEF Chain, Phase
<1> QED BY <1>1, <1>5, <1>14 DEF Chain

(* The target that is taken is the one that was sent. *)
LEMMA ChainOpening ==
  ASSUME Chain, ~Over, next_module \in Targets
  PROVE  TrialTaken /\ phase \in {"target", "closed"} /\ (phase = "target" => try_next)
<1>1. Unknown \notin Targets
  BY DEF Unknown, Targets
<1> QED BY <1>1 DEF Chain, Phase, Position, NoneComing, TrialSent, TrialConnects, TrialFailed,
      TrialSucceeded, Quiet

(* It is logged where the last one was, and the log of a target that cannot be
   created is kept for the next one only. *)
LEMMA ChainOpens ==
  ASSUME Chain, ~Over, next_module \in Targets, NEW tell,
         NextBackendModule(next_module, tell), next_module' = Unknown,
         UNCHANGED <<retries, phase, proto, left, try_next, to_proxy, to_sesman>>
  PROVE  Chain' /\ (broken = {} => broken' = {})
<1>1. TrialTaken /\ phase \in {"target", "closed"} /\ (phase = "target" => try_next)
  BY ChainOpening
<1>2. next_module = "RDP" /\ ~mod.sck /\ Agree(ini.alt, ini.more, log, left) /\ Untold
      /\ NoTurn(to_proxy)
  BY <1>1 DEF TrialTaken
<1>3. OpenTarget("RDP", log, {})
  BY <1>2 DEF NextBackendModule, KeepsRecord, LeaveFails, Close, Targets
<1> DEFINE newlog == LogFor("RDP", log)
<1>4. newlog # "" /\ LogForFails("RDP", log) = {}
  BY <1>2 DEF LogFor, LogForFails, Failed, Agree
<1> HIDE DEF newlog
<1>5. broken' = broken
  BY <1>3, <1>4 DEF OpenTarget, Failed, newlog
<1>6. \/ mod' = Remote("RDP") /\ log' = newlog /\ acl_out' = acl_out /\ pc' = "send"
      \/ /\ mod' = Internal("transitory") /\ log' = (IF ini.more THEN newlog ELSE "")
         /\ acl_out' = acl_out \cup {"close"} /\ pc' = "send"
      \/ mod' = NoMod /\ acl_out' = acl_out \cup {"close"} /\ pc' = "end"
  BY <1>3 DEF OpenTarget, CreationFailed, TellClose, Goto, newlog
<1>7. NoTarget(to_proxy) /\ Unknown \notin Targets
  BY <1>2, QuietNamesNone DEF Unknown, Targets
<1>n. NoneComing' /\ Quiet'
  BY <1>2, <1>7 DEF NoneComing, Quiet
<1>a. Told("ack")' => Told("ack")
  <2>1. acl_out' \in {acl_out, acl_out \cup {"close"}}
    BY <1>6
  <2> QED BY <2>1 DEF Told
<1>8. CASE mod' = Remote("RDP") /\ log' = newlog /\ acl_out' = acl_out /\ pc' = "send"
  <2>1. mod'.sck = TRUE /\ mod'.up = FALSE /\ mod'.signal = "none"
    BY <1>8 DEF Remote
  <2>2. Untold' /\ (ToldInTurn => ToldInTurn')
    BY <1>2, <1>8 DEF Untold, Told, ToldInTurn
  <2>3. TrialConnects'
    BY <1>8, <1>n, <2>1, <2>2 DEF TrialConnects, Undisturbed
  <2>4. Position'
    BY <1>1, <1>n, <2>2, <2>3 DEF Position, Chain
  <2> QED BY <1>4, <1>5, <1>8, <1>a, <2>1, <2>4 DEF Chain
<1>9. CASE /\ mod' = Internal("transitory") /\ log' = (IF ini.more THEN newlog ELSE "")
           /\ acl_out' = acl_out \cup {"close"} /\ pc' = "send"
  <2>1. mod'.sck = FALSE /\ mod'.name = "transitory"
    BY <1>9, Modules
  <2>2. log' # "" <=> left > 0
    BY <1>2, <1>4, <1>9 DEF Agree
  <2>3. Told("close")' /\ ~Told("success")' /\ (ToldInTurn => ToldInTurn')
    BY <1>2, <1>9 DEF Untold, Told, ToldInTurn
  <2>4. TrialFailed'
    BY <1>n, <2>1, <2>2, <2>3 DEF TrialFailed
  <2>5. Position'
    BY <1>1, <1>n, <2>3, <2>4 DEF Position, Chain
  <2> QED BY <1>5, <1>9, <1>a, <2>1, <2>5 DEF Chain, Targets
<1>10. CASE mod' = NoMod /\ acl_out' = acl_out \cup {"close"} /\ pc' = "end"
  <2>1. mod'.sck = FALSE /\ mod'.name \notin Targets
    BY <1>10 DEF NoMod, Unknown, Targets
  <2> QED BY <1>5, <1>10, <1>a, <2>1, ChainOver DEF Over
<1> QED BY <1>6, <1>8, <1>9, <1>10

(* The assertions on the way out of a module that is no target's. *)
LEMMA LeavesAsserted ==
  ASSUME Chain, NEW m, m \notin Targets, NEW tell, NextBackendModule(m, tell), broken = {}
  PROVE  broken' = {}
<1>1. LeaveFails(m) = {}
  BY DEF Chain, LeaveFails, GuestStopFails, Failed
<1>2. broken' \in {broken, broken \cup LeaveFails(m)}
  BY DEF NextBackendModule, ShowInternal
<1> QED BY <1>1, <1>2

(* The messages of the manager. *)
LEMMA ChainMessages ==
  /\ \A k \in Kinds \ {"disconnect", "other"} :
        Plain(k) \in ChainMessage /\ ~Names(Plain(k)) /\ Plain(k).kind = k
  /\ \A m \in Interactive \cup Close \cup {"transitory"} :
        Module(m) \in ChainMessage /\ ~Names(Module(m))
<1>1. ASSUME NEW k \in Kinds \ {"disconnect", "other"}
      PROVE  Plain(k) \in ChainMessage /\ ~Names(Plain(k)) /\ Plain(k).kind = k
  <2>1. Plain(k).kind = k
    BY DEF Plain
  <2> QED BY <2>1, ManagerMessages DEF ChainMessage
<1>2. ASSUME NEW m \in Interactive \cup Close \cup {"transitory"}
      PROVE  Module(m) \in ChainMessage /\ ~Names(Module(m))
  BY ManagerMessages DEF ChainMessage
<1> QED BY <1>1, <1>2

LEMMA ChainTarget ==
  ASSUME NEW p \in Protocol \cup {""}, NEW alt \in BOOLEAN, NEW more \in BOOLEAN
  PROVE  /\ Target(p, alt, more) \in ChainMessage
         /\ p = "RDP" => Names(Target(p, alt, more))
         /\ Target(p, alt, more).alt = alt /\ Target(p, alt, more).more = more
<1>1. Target(p, alt, more) \in Message
  BY TargetMessage
<1>2. /\ Target(p, alt, more).kind = "module" /\ Target(p, alt, more).module = p
      /\ Target(p, alt, more).alt = alt /\ Target(p, alt, more).more = more
  BY DEF Target
<1> QED BY <1>1, <1>2 DEF ChainMessage, Names, Targets

(* After the last target the manager sends the close box, or nothing. *)
LEMMA ChainClosed ==
  ASSUME Chain, phase = "target", NEW tn \in BOOLEAN, NEW closed, LeaveTarget(tn, closed),
         ~(tn /\ left > 0)
  PROVE  /\ phase' \in {"back", "closing", "closed"} /\ left' \in Nat /\ try_next' \in BOOLEAN
         /\ to_proxy' \in Seq(ChainMessage)
         /\ NoTarget(to_proxy) => NoTarget(to_proxy')
<1>t. to_proxy \in Seq(ChainMessage) /\ left \in Nat
  BY DEF Chain
<1>1. left' = left /\ try_next' = tn
  BY DEF LeaveTarget
<1>c. "close" \in Close /\ "close_back" \in Close
  BY DEF Close
<1>s. ASSUME NEW m \in Close, Send(Module(m))
      PROVE  /\ to_proxy' \in Seq(ChainMessage)
             /\ NoTarget(to_proxy) => NoTarget(to_proxy')
  <2> DEFINE w == Module(m)
  <2>1. w \in ChainMessage /\ ~Names(w)
    BY ChainMessages
  <2>2. to_proxy' = to_proxy \o <<w>>
    BY <1>s DEF Send, SendAll
  <2> HIDE DEF w
  <2>3. <<w>> \in Seq(ChainMessage) /\ NoTarget(<<w>>)
    BY <2>1, TrialSendsOne
  <2> QED BY <1>t, <2>2, <2>3, TrialSends
<1>2. CASE Send(Module("close_back")) /\ phase' = "back"
  BY <1>1, <1>c, <1>s, <1>t, <1>2
<1>3. CASE Send(Module("close")) /\ phase' \in {"closing", "closed"}
  BY <1>1, <1>c, <1>s, <1>t, <1>3
<1>4. CASE SendAll(<<Module("close"), Module("close")>>) /\ phase' = "closing"
  <2> DEFINE w == Module("close")
  <2>1. w \in ChainMessage /\ ~Names(w)
    BY <1>c, ChainMessages
  <2>2. to_proxy' = to_proxy \o <<w, w>>
    BY <1>4 DEF SendAll
  <2> HIDE DEF w
  <2>3. /\ <<w, w>> \in Seq(ChainMessage) /\ Len(<<w, w>>) = 2
        /\ <<w, w>>[1] = w /\ <<w, w>>[2] = w
    BY <2>1
  <2>4. NoTarget(<<w, w>>)
    BY <2>1, <2>3 DEF NoTarget
  <2> QED BY <1>1, <1>t, <1>4, <2>2, <2>3, <2>4, TrialSends
<1>5. CASE phase' = "closed" /\ UNCHANGED to_proxy
  BY <1>1, <1>t, <1>5
<1> QED BY <1>2, <1>3, <1>4, <1>5 DEF LeaveTarget

(* A trial that failed is followed by the next target, which finds the log as the
   failure left it. *)
LEMMA ChainNext ==
  ASSUME Chain, phase = "target", NEW tn \in BOOLEAN, NEW closed, LeaveTarget(tn, closed),
         tn = TRUE, left > 0
  PROVE  /\ phase' = "target" /\ left' \in Nat /\ try_next' = TRUE
         /\ to_proxy' \in Seq(ChainMessage)
         /\ log # "" /\ proto = "RDP" /\ NoTarget(to_proxy) =>
              Carries(to_proxy', log, left')
<1>t. to_proxy \in Seq(ChainMessage) /\ left \in Nat /\ proto \in Protocol \cup {""}
  BY DEF Chain
<1>1. /\ Send(Target(proto, TRUE, left > 1)) /\ left' = left - 1 /\ try_next' = TRUE
      /\ phase' = phase
  BY DEF LeaveTarget
<1> DEFINE more == left > 1
           w == Target(proto, TRUE, more)
<1>2. more \in BOOLEAN /\ (more = TRUE <=> left' > 0) /\ left' \in Nat
  <2>0. left \in Nat /\ left' = left - 1 /\ left > 0
    BY <1>t, <1>1, Zenon
  <2>1. left' \in Nat /\ (left > 1 <=> left' > 0)
    BY <2>0
  <2>2. more \in BOOLEAN /\ (more = TRUE <=> left > 1)
    OBVIOUS
  <2> QED BY <2>1, <2>2
<1>3. to_proxy' = to_proxy \o <<w>>
  BY <1>1 DEF Send, SendAll
<1> HIDE DEF more
<1>4. w \in ChainMessage /\ w.alt = TRUE /\ w.more = more /\ (proto = "RDP" => Names(w))
  BY <1>t, <1>2, ChainTarget
<1> HIDE DEF w
<1>5. log # "" => Agree(w.alt, w.more, log, left')
  BY <1>2, <1>4 DEF Agree
<1>6. /\ <<w>> \in Seq(ChainMessage)
      /\ log # "" /\ proto = "RDP" => Carries(<<w>>, log, left')
  BY <1>4, <1>5, TrialSendsOne
<1>7. /\ to_proxy \o <<w>> \in Seq(ChainMessage)
      /\ NoTarget(to_proxy) /\ Carries(<<w>>, log, left') =>
           Carries(to_proxy \o <<w>>, log, left')
  BY <1>t, <1>6, TrialSends
<1> QED BY <1>1, <1>2, <1>3, <1>6, <1>7

(* The manager reads what the process told it. *)
LEMMA ChainReceives ==
  ASSUME Chain, ReceiveData, UNCHANGED process
  PROVE  Chain'
<1>p. UNCHANGED <<pc, mod, next_module, log, acl_out, back_event, exc, ini, retries>>
  BY DEF process, loop, record, history
<1>t. /\ phase = "target" /\ proto' = proto /\ to_sesman' = {}
      /\ proto \in Protocol \cup {""} /\ left \in Nat /\ try_next \in BOOLEAN
      /\ to_proxy \in Seq(ChainMessage) /\ ~Told("ack")
  BY DEF Chain, ReceiveData
<1> DEFINE tn == try_next /\ "success" \notin to_sesman
<1>tn. tn \in BOOLEAN /\ (tn = TRUE <=> try_next = TRUE /\ "success" \notin to_sesman)
  BY <1>t
<1>o. Over' <=> Over
  BY <1>p DEF Over
<1>f. \A f \in {"close", "success", "ack"} : Told(f)' <=> f \in acl_out
  BY <1>p, <1>t DEF Told
<1>b. ASSUME phase' \in Phase, left' \in Nat, try_next' \in BOOLEAN,
             to_proxy' \in Seq(ChainMessage), Over \/ Position'
      PROVE  Chain'
  BY <1>b, <1>f, <1>o, <1>p, <1>t DEF Chain, Told
<1>1. CASE to_sesman \cap {"ack", "close"} # {}
  <2>1. LeaveTarget(tn, "close" \in to_sesman) /\ "close" \in to_sesman
    BY <1>1, <1>t DEF ReceiveData, Told
  <2> HIDE DEF tn
  <2>2. ASSUME ~Over
        PROVE  /\ ~mod.sck /\ NoneComing /\ "close" \notin acl_out /\ "success" \notin acl_out
               /\ proto = "RDP"
               /\ IF tn = TRUE THEN log # "" <=> left > 0 ELSE log = ""
    <3>1. Position /\ ToldInTurn /\ Told("close")
      BY <1>t, <2>1, <2>2 DEF Chain, Position, Told
    <3>2. "close" \notin acl_out /\ "success" \notin acl_out /\ proto = "RDP"
      BY <1>t, <2>1, <3>1 DEF ToldInTurn, Position
    <3>3. ~TrialSent /\ ~TrialTaken /\ ~TrialConnects
      BY <3>1 DEF TrialSent, TrialTaken, TrialConnects, Untold
    <3>4. Ran => ~mod.sck /\ log = ""
      BY <3>1 DEF Ran
    <3>5. Quiet => NoneComing
      BY QuietNamesNone DEF Quiet, NoneComing, Unknown, Targets
    <3>6. CASE try_next = TRUE /\ TrialFailed
      BY <1>tn, <3>2, <3>5, <3>6 DEF TrialFailed, Told
    <3>7. CASE TrialSucceeded
      BY <1>tn, <3>2, <3>4, <3>5, <3>7 DEF TrialSucceeded, Told
    <3>8. CASE try_next = FALSE
      BY <1>t, <1>tn, <3>1, <3>2, <3>4, <3>8 DEF Position
    <3> QED BY <1>t, <3>1, <3>3, <3>6, <3>7, <3>8 DEF Position
  <2>3. CASE tn /\ left > 0
    <3>1. /\ phase' = "target" /\ left' \in Nat /\ try_next' = TRUE
          /\ to_proxy' \in Seq(ChainMessage)
          /\ log # "" /\ proto = "RDP" /\ NoTarget(to_proxy) =>
               Carries(to_proxy', log, left')
      BY <1>t, <1>tn, <2>1, <2>3, ChainNext
    <3>2. ASSUME ~Over PROVE Position'
      <4>1. TrialSent' /\ ToldInTurn'
        BY <1>f, <1>p, <1>t, <1>tn, <2>2, <2>3, <3>1, <3>2
        DEF TrialSent, Untold, ToldInTurn, NoneComing
      <4> QED BY <1>t, <2>2, <3>1, <3>2, <4>1 DEF Position
    <3> QED BY <1>b, <3>1, <3>2 DEF Phase
  <2>4. CASE ~(tn /\ left > 0)
    <3>1. /\ phase' \in {"back", "closing", "closed"} /\ left' \in Nat
          /\ try_next' \in BOOLEAN /\ to_proxy' \in Seq(ChainMessage)
          /\ NoTarget(to_proxy) => NoTarget(to_proxy')
      BY <1>t, <1>tn, <2>1, <2>4, ChainClosed
    <3>2. ASSUME ~Over PROVE Position'
      <4>1. NoneComing' /\ Untold' /\ ~mod'.sck /\ log' = ""
        BY <1>f, <1>p, <1>tn, <2>2, <2>4, <3>1, <3>2 DEF NoneComing, Untold
      <4> QED BY <3>1, <4>1 DEF Position
    <3> QED BY <1>b, <3>1, <3>2 DEF Phase
  <2> QED BY <2>3, <2>4
<1>2. CASE to_sesman \cap {"ack", "close"} = {}
  <2>1. /\ phase' = phase /\ left' = left /\ try_next' = tn
        /\ Send(Plain("keepalive")) \/ to_proxy' = to_proxy
    BY <1>2 DEF ReceiveData
  <2>2. /\ to_proxy' \in Seq(ChainMessage)
        /\ NoTurn(to_proxy) => NoTurn(to_proxy')
        /\ NoTarget(to_proxy) => NoTarget(to_proxy')
        /\ Carries(to_proxy, log, left) => Carries(to_proxy', log, left)
    <3>1. CASE Send(Plain("keepalive"))
      <4> DEFINE w == Plain("keepalive")
      <4>1. w \in ChainMessage /\ ~Names(w) /\ ~Turns(w)
        BY ChainMessages DEF Kinds, Turns
      <4>2. to_proxy' = to_proxy \o <<w>>
        BY <3>1 DEF Send, SendAll
      <4> HIDE DEF w
      <4>3. <<w>> \in Seq(ChainMessage) /\ NoTurn(<<w>>) /\ NoTarget(<<w>>)
        BY <4>1, TrialSendsOne
      <4> QED BY <1>t, <4>2, <4>3, TrialSends
    <3>2. CASE to_proxy' = to_proxy
      BY <1>t, <3>2
    <3> QED BY <2>1, <3>1, <3>2
  <2>3. Told("close")' <=> Told("close")
    BY <1>2, <1>f DEF Told
  <2>4. "success" \notin to_sesman => (Told("success")' <=> Told("success"))
    BY <1>f DEF Told
  <2>5. (Ran => Ran') /\ (NoneComing => NoneComing') /\ (Quiet => Quiet' /\ NoneComing')
        /\ ToldInTurn'
    BY <1>p, <1>t, <2>2, <2>3, QuietNamesNone
    DEF Ran, NoneComing, Quiet, ToldInTurn, Unknown, Targets
  <2> HIDE DEF tn
  <2>6. ASSUME ~Over PROVE Position'
    <3>1. Position
      BY <2>6 DEF Chain
    <3>2. CASE tn = TRUE
      <4>1. try_next = TRUE /\ "success" \notin to_sesman
        BY <1>tn, <3>2
      <4>2. Untold => Untold'
        BY <2>3, <2>4, <4>1 DEF Untold
      <4>3. /\ (TrialSent => TrialSent') /\ (TrialTaken => TrialTaken')
            /\ (TrialConnects => TrialConnects') /\ (TrialFailed => TrialFailed')
            /\ (TrialSucceeded => TrialSucceeded')
        BY <1>p, <2>1, <2>2, <2>3, <2>4, <2>5, <4>1, <4>2
        DEF TrialSent, TrialTaken, TrialConnects, TrialFailed, TrialSucceeded, Undisturbed
      <4> QED BY <1>t, <2>1, <2>5, <3>1, <3>2, <4>1, <4>3 DEF Position
    <3>3. CASE tn = FALSE
      <4>1. CASE try_next = TRUE
        <5>1. Told("success")
          BY <1>tn, <3>3, <4>1 DEF Told
        <5>2. TrialSucceeded /\ ToldInTurn
          BY <1>t, <3>1, <4>1, <5>1
          DEF Position, TrialSent, TrialTaken, TrialConnects, TrialFailed, Untold
        <5>3. ~Told("success")'
          BY <1>f, <1>tn, <3>3, <4>1, <5>2 DEF ToldInTurn
        <5> QED BY <1>t, <2>1, <2>5, <3>1, <3>3, <5>2, <5>3 DEF Position, TrialSucceeded
      <4>2. CASE try_next = FALSE
        <5>1. NoneComing /\ Ran /\ ~Told("success")
          BY <1>t, <3>1, <4>2 DEF Position
        <5>2. ~Told("success")'
          BY <1>f, <5>1 DEF Told
        <5> QED BY <1>t, <2>1, <2>5, <3>1, <3>3, <5>1, <5>2 DEF Position
      <4> QED BY <1>t, <4>1, <4>2
    <3> QED BY <1>tn, <3>2, <3>3
  <2> QED BY <1>b, <1>t, <1>tn, <2>1, <2>2, <2>6 DEF Phase
<1> QED BY <1>1, <1>2

(* Every step of the manager keeps the invariant. *)
LEMMA ManagerKeepsChain ==
  ASSUME Failover, Chain, Supervises, SesmanStep
  PROVE  Chain'
<1>u. UNCHANGED process
  BY DEF SesmanStep
<1>p. UNCHANGED <<pc, mod, next_module, log, acl_out, back_event, exc, ini, retries>>
  BY <1>u DEF process, loop, record, history
<1>t. /\ phase \in Phase /\ proto \in Protocol \cup {""} /\ left \in Nat
      /\ try_next \in BOOLEAN /\ to_proxy \in Seq(ChainMessage) /\ ~Told("ack")
  BY DEF Chain
<1>o. Over' <=> Over
  BY <1>p DEF Over
<1>b. ASSUME phase' \in Phase, proto' \in Protocol \cup {""}, left' \in Nat,
             try_next' \in BOOLEAN, to_proxy' \in Seq(ChainMessage),
             Told("ack")' => Told("ack"), Over \/ Position'
      PROVE  Chain'
  BY <1>b, <1>o, <1>p DEF Chain
<1>s. ASSUME NEW m \in ChainMessage, Send(m)
      PROVE  /\ to_proxy' \in Seq(ChainMessage)
             /\ ~Turns(m) /\ NoTurn(to_proxy) => NoTurn(to_proxy')
             /\ ~Names(m) /\ NoTarget(to_proxy) => NoTarget(to_proxy')
             /\ ~Turns(m) /\ Carries(to_proxy, log, left) => Carries(to_proxy', log, left)
  <2>1. to_proxy' = to_proxy \o <<m>>
    BY <1>s DEF Send, SendAll
  <2>2. <<m>> \in Seq(ChainMessage) /\ (~Turns(m) => NoTurn(<<m>>))
        /\ (~Names(m) => NoTarget(<<m>>))
    BY TrialSendsOne
  <2> QED BY <1>t, <2>1, <2>2, TrialSends
<1>a. ASSUME phase \in {"auth", "back", "closing"}, ~Over
      PROVE  NoneComing /\ Untold /\ ~mod.sck /\ log = ""
  BY <1>a DEF Chain, Position
<1>e. ASSUME to_sesman' \in {to_sesman, {}}
      PROVE  (Untold => Untold') /\ (Told("ack")' => Told("ack"))
  BY <1>e, <1>p DEF Untold, Told
<1>1. CASE ShowModule
  <2>1. PICK m \in Interactive : Send(Module(m))
    BY <1>1 DEF ShowModule
  <2>2. phase = "auth" /\ to_sesman' = {} /\ UNCHANGED <<phase, proto, left, try_next>>
    BY <1>1 DEF ShowModule, Answered
  <2>3. to_proxy' \in Seq(ChainMessage) /\ (NoTarget(to_proxy) => NoTarget(to_proxy'))
    <3>1. Module(m) \in ChainMessage /\ ~Names(Module(m))
      BY ChainMessages
    <3> QED BY <1>s, <2>1, <3>1
  <2>4. ASSUME ~Over PROVE Position'
    BY <1>a, <1>e, <1>p, <2>2, <2>3, <2>4 DEF Position, NoneComing
  <2> QED BY <1>b, <1>e, <1>t, <2>2, <2>3, <2>4
<1>2. CASE Reject
  <2>1. /\ phase = "auth" /\ phase' = "closed" /\ to_sesman' = {}
        /\ Send(Plain("rejected")) /\ UNCHANGED <<proto, left, try_next>>
    BY <1>2 DEF Reject, Answered
  <2>2. to_proxy' \in Seq(ChainMessage) /\ (NoTarget(to_proxy) => NoTarget(to_proxy'))
    <3>1. Plain("rejected") \in ChainMessage /\ ~Names(Plain("rejected"))
      BY ChainMessages DEF Kinds
    <3> QED BY <1>s, <2>1, <3>1
  <2>3. ASSUME ~Over PROVE Position'
    BY <1>a, <1>p, <2>1, <2>2, <2>3 DEF Position, NoneComing
  <2> QED BY <1>b, <1>e, <1>t, <2>1, <2>2, <2>3 DEF Phase
<1>3. CASE ConnectToTarget
  <2>1. PICK p \in Protocol, n \in 1..MaxTargets, patterns \in 0..2 :
          /\ SendAll(Append([k \in 1..patterns |-> Module("transitory")],
                            Target(p, FALSE, n > 1)))
          /\ proto' = p /\ left' = n - 1
    BY <1>3 DEF ConnectToTarget
  <2> DEFINE shown == [k \in 1..patterns |-> Module("transitory")]
             more == n > 1
             first == Target(p, FALSE, more)
  <2>2. /\ phase = "auth" /\ phase' = "target" /\ try_next' = TRUE /\ to_sesman' = {}
    BY <1>3 DEF ConnectToTarget, Answered
  <2>3. left' \in Nat /\ more \in BOOLEAN /\ (more = TRUE <=> left' > 0)
    <3>1. n \in Nat /\ n >= 1 /\ left' = n - 1
      BY <2>1, SesmanAssumption
    <3>2. left' \in Nat /\ (n > 1 <=> left' > 0)
      BY <3>1
    <3>3. more \in BOOLEAN /\ (more = TRUE <=> n > 1)
      OBVIOUS
    <3> QED BY <3>2, <3>3
  <2>4. to_proxy' = to_proxy \o Append(shown, first)
    BY <2>1 DEF SendAll
  <2>5. shown \in Seq(ChainMessage) /\ NoTarget(shown)
    <3>1. Module("transitory") \in ChainMessage /\ ~Names(Module("transitory"))
      BY ChainMessages
    <3>2. shown \in Seq(ChainMessage) /\ Len(shown) = patterns
          /\ \A i \in 1 .. patterns : shown[i] = Module("transitory")
      BY <3>1
    <3> HIDE DEF shown
    <3> QED BY <3>1, <3>2 DEF NoTarget
  <2> HIDE DEF shown, more
  <2>6. first \in ChainMessage /\ Names(first) /\ first.alt = FALSE /\ first.more = more
    <3>1. p = "RDP"
      BY DEF Failover
    <3> QED BY <2>3, <3>1, ChainTarget
  <2> HIDE DEF first
  <2>7. log = "" => Agree(first.alt, first.more, log, left')
    BY <2>3, <2>6 DEF Agree
  <2>8. <<first>> \in Seq(ChainMessage) /\ (log = "" => Carries(<<first>>, log, left'))
    BY <2>6, <2>7, TrialSendsOne
  <2>9. Append(shown, first) = shown \o <<first>>
    BY <2>5, <2>6, AppendIsConcat
  <2>10. shown \o <<first>> \in Seq(ChainMessage)
         /\ (log = "" => Carries(shown \o <<first>>, log, left'))
    BY <2>5, <2>8, TrialSends
  <2>11. to_proxy' \in Seq(ChainMessage)
         /\ (log = "" /\ NoTarget(to_proxy) => Carries(to_proxy', log, left'))
    BY <1>t, <2>4, <2>9, <2>10, TrialSends
  <2>12. ASSUME ~Over PROVE Position'
    <3>1. NoneComing /\ Untold /\ ~mod.sck /\ log = ""
      BY <1>a, <2>2, <2>12
    <3>2. TrialSent'
      BY <1>e, <1>p, <2>2, <2>11, <3>1 DEF TrialSent, NoneComing
    <3>3. ToldInTurn' /\ proto' = "RDP"
      BY <2>1, <2>2 DEF ToldInTurn, Failover
    <3> QED BY <2>2, <3>2, <3>3 DEF Position
  <2> QED BY <1>b, <1>e, <2>1, <2>2, <2>3, <2>11, <2>12 DEF Phase
<1>4. CASE ReceiveData
  BY <1>4, <1>u, ChainReceives
<1>5. CASE SendRequest
  <2>1. PICK k \in Request : (k = "rejected" => ~try_next) /\ Send(Plain(k))
    BY <1>5 DEF SendRequest
  <2>2. phase = "target" /\ UNCHANGED <<phase, proto, left, try_next, to_sesman>>
    BY <1>5 DEF SendRequest
  <2>3. k \in Kinds \ {"disconnect", "other"} /\ k # "module"
    BY SesmanAssumption DEF Kinds, Failover
  <2>4. Plain(k) \in ChainMessage /\ ~Names(Plain(k)) /\ (try_next => ~Turns(Plain(k)))
    BY <2>1, <2>3, ChainMessages DEF Turns
  <2>5. /\ to_proxy' \in Seq(ChainMessage)
        /\ NoTarget(to_proxy) => NoTarget(to_proxy')
        /\ try_next => (NoTurn(to_proxy) => NoTurn(to_proxy'))
        /\ try_next => (Carries(to_proxy, log, left) => Carries(to_proxy', log, left))
    BY <1>s, <2>1, <2>4
  <2>6. \A f \in {"close", "success", "ack"} : Told(f)' <=> Told(f)
    BY <1>p, <2>2 DEF Told
  <2>7. (Untold => Untold') /\ (ToldInTurn => ToldInTurn') /\ (Ran => Ran')
        /\ (NoneComing => NoneComing') /\ (try_next => (Quiet => Quiet'))
    BY <1>p, <2>2, <2>5, <2>6 DEF Untold, ToldInTurn, Ran, NoneComing, Quiet
  <2>8. ASSUME try_next
        PROVE  /\ (TrialSent => TrialSent') /\ (TrialTaken => TrialTaken')
               /\ (TrialConnects => TrialConnects') /\ (TrialFailed => TrialFailed')
               /\ (TrialSucceeded => TrialSucceeded')
    BY <1>p, <2>2, <2>5, <2>6, <2>7, <2>8
    DEF TrialSent, TrialTaken, TrialConnects, TrialFailed, TrialSucceeded, Undisturbed
  <2>9. ASSUME ~Over PROVE Position'
    BY <2>2, <2>6, <2>7, <2>8, <2>9 DEF Position, Chain
  <2> QED BY <1>b, <1>t, <2>2, <2>5, <2>6, <2>9
<1>6. CASE BackToSelector
  <2>1. /\ phase = "back" /\ phase' = "auth" /\ Send(Module("transitory"))
        /\ UNCHANGED <<proto, left, try_next, to_sesman>>
    BY <1>6 DEF BackToSelector
  <2>2. to_proxy' \in Seq(ChainMessage) /\ (NoTarget(to_proxy) => NoTarget(to_proxy'))
    <3>1. Module("transitory") \in ChainMessage /\ ~Names(Module("transitory"))
      BY ChainMessages
    <3> QED BY <1>s, <2>1, <3>1
  <2>3. ASSUME ~Over PROVE Position'
    BY <1>a, <1>e, <1>p, <2>1, <2>2, <2>3 DEF Position, NoneComing
  <2> QED BY <1>b, <1>e, <1>t, <2>1, <2>2, <2>3 DEF Phase
<1>7. CASE CloseConnection \/ Kill
  <2>1. phase' = "closed" /\ UNCHANGED <<proto, left, try_next, to_proxy, to_sesman>>
    BY <1>7 DEF CloseConnection, Kill
  <2>2. ASSUME ~Over PROVE Position'
    <3>1. NoneComing \/ TrialSent \/ TrialTaken
      <4>1. Quiet => NoneComing
        BY QuietNamesNone DEF Quiet, NoneComing, Unknown, Targets
      <4> QED BY <1>t, <2>2, <4>1
          DEF Chain, Phase, Position, TrialConnects, TrialFailed, TrialSucceeded
    <3>2. /\ (NoneComing => NoneComing') /\ (TrialSent => TrialSent')
          /\ (TrialTaken => TrialTaken')
      BY <1>p, <2>1 DEF NoneComing, TrialSent, TrialTaken, Untold, Told
    <3> QED BY <2>1, <3>1, <3>2 DEF Position
  <2> QED BY <1>b, <1>e, <1>t, <2>1, <2>2 DEF Phase
<1>8. CASE /\ keepalive = "off" /\ acl_out = {} /\ to_proxy = <<>> /\ pc = "select"
           /\ next_module = Unknown /\ MissingKeepalive
  <2>1. /\ phase = "target" /\ to_sesman = {} /\ LeaveTarget(try_next, FALSE)
        /\ UNCHANGED <<proto, to_sesman>>
    BY <1>8 DEF MissingKeepalive
  <2>2. ~mod.sck
    BY <1>8 DEF Supervises, KeepaliveRuns, Handles
  <2>3. Position
    BY <1>8 DEF Chain, Over
  <2>4. try_next = FALSE
    <3>1. ~TrialSent /\ ~TrialTaken
      BY <1>8 DEF TrialSent, TrialTaken, Carries, Unknown
    <3>2. ~TrialConnects /\ ~TrialFailed /\ ~TrialSucceeded
      BY <1>8, <2>1, <2>2 DEF TrialConnects, TrialFailed, TrialSucceeded, Told
    <3> QED BY <1>t, <2>1, <2>3, <3>1, <3>2 DEF Position
  <2>5. /\ phase' \in {"back", "closing", "closed"} /\ left' \in Nat
        /\ try_next' \in BOOLEAN /\ to_proxy' \in Seq(ChainMessage)
        /\ NoTarget(to_proxy) => NoTarget(to_proxy')
    BY <1>t, <2>1, <2>4, ChainClosed
  <2>6. Position'
    <3>1. NoneComing /\ Ran
      BY <2>1, <2>3, <2>4 DEF Position
    <3>2. NoneComing' /\ Untold' /\ ~mod'.sck /\ log' = ""
      BY <1>8, <1>p, <2>1, <2>2, <2>5, <3>1 DEF NoneComing, Untold, Told, Ran
    <3> QED BY <2>5, <3>2 DEF Position
  <2> QED BY <1>b, <1>e, <1>t, <2>1, <2>5, <2>6 DEF Phase
<1> QED
  BY <1>1, <1>2, <1>3, <1>4, <1>5, <1>6, <1>7, <1>8 DEF SesmanStep

(* Every step keeps the invariant. *)
LEMMA StepChain ==
  ASSUME Failover, Chain, TargetOwns, Supervises, Asserts, [Next]_vars
  PROVE  Chain'
<1> USE DEF Goto, Raise, loop, record, history, sesman, supervision, Selected, FrontOnly,
            Callback, Readable
<1>k. ASSUME UNCHANGED <<next_module, log, ini, retries, sesman>>, acl_out' = acl_out,
             pc \notin {"connect", "end", "close_box", "done"}, pc' # "wait_front",
             pc' = "connect" => pc = "wait_front", mod' = mod, TrialConnects => Undisturbed'
      PROVE  Chain'
  <2>1. Over => Over'
    BY <1>k DEF Over
  <2>2. pc' \in {"wait_front", "connect"} => acl_out' = {}
    BY <1>k DEF Chain
  <2> QED BY <1>k, <2>1, <2>2, ChainKept
<1>c. ~TrialConnects \/ ~Settled
  BY DEF Settled, TrialConnects, Failover
<1>1. CASE FrontIsUp
  BY <1>k, <1>1 DEF FrontIsUp, TrialConnects, Undisturbed
<1>2. CASE FrontFails
  BY <1>k, <1>2 DEF FrontFails, TrialConnects, Undisturbed
<1>3. CASE SendAclFails
  BY <1>k, <1>3 DEF SendAclFails, TrialConnects, Undisturbed
<1>4. CASE FrontQuiet
  BY <1>k, <1>4 DEF FrontQuiet, TrialConnects, Undisturbed
<1>5. CASE FrontSendWaiting
  BY <1>k, <1>5 DEF FrontSendWaiting, TrialConnects, Undisturbed
<1>6. CASE FrontResizes
  BY <1>k, <1>6 DEF FrontResizes, TrialConnects, Undisturbed
<1>7. CASE FrontLeaves
  BY <1>k, <1>7 DEF FrontLeaves, TrialConnects, Undisturbed
<1>8. CASE AclQuiet
  BY <1>k, <1>8 DEF AclQuiet, TrialConnects, Undisturbed
<1>9. CASE AclLost
  BY <1>k, <1>9 DEF AclLost, TrialConnects, Undisturbed
<1>10. CASE ModOutput
  BY <1>k, <1>10 DEF ModOutput, TrialConnects, Undisturbed
<1>11. CASE GuestEvent
  BY <1>k, <1>11 DEF GuestEvent, TrialConnects, Undisturbed
<1>12. CASE EndOfEvents
  BY <1>k, <1>12 DEF EndOfEvents, TrialConnects, Undisturbed
<1>13. CASE CatchAcl
  BY <1>k, <1>13 DEF CatchAcl, TrialConnects, Undisturbed
<1>14. CASE SelectFails
  BY <1>14, ChainOver DEF SelectFails, Over, Chain, Told
<1>15. CASE SendAclData
  BY <1>15, ChainTells
<1>16. CASE ModConnected
  BY <1>16, ChainSucceeds
<1>17. CASE UserInput
  BY <1>17, <1>c, <1>k DEF UserInput, TrialConnects, Undisturbed
<1>18. CASE ModThrows
  BY <1>18, <1>c, <1>k DEF ModThrows, TrialConnects, Undisturbed
<1>19. CASE InactivityTimer
  BY <1>19, <1>c, <1>k DEF InactivityTimer, MayEnd, TrialConnects, Undisturbed
<1>20. CASE EndDateTimer
  BY <1>20, <1>c, <1>k DEF EndDateTimer, MayEnd, TrialConnects, Undisturbed
<1>21. CASE KeepaliveTimer
  <2>1. /\ pc = "events" /\ pc' \in {"events", "catch"} /\ mod' = mod
        /\ acl_out' \in {acl_out, acl_out \cup {"keepalive"}}
        /\ UNCHANGED <<next_module, log, ini, retries, sesman>>
    BY <1>21 DEF KeepaliveTimer
  <2>2. TrialConnects => Undisturbed'
    BY <1>21, <1>c DEF KeepaliveTimer, MayEnd, TrialConnects, Undisturbed
  <2> QED BY <2>1, <2>2, ChainKept DEF Over
<1>22. CASE ModEnds
  <2>1. /\ pc = "events" /\ pc' = pc /\ mod' = [mod EXCEPT !.signal = "next"] /\ mod.up
        /\ UNCHANGED <<next_module, log, ini, retries, sesman, acl_out>>
    BY <1>22 DEF ModEnds
  <2>2. mod'.sck = mod.sck /\ mod'.up = mod.up /\ mod'.name = mod.name
    BY <2>1 DEF Supervises, IsModule
  <2>3. ~TrialConnects
    BY <2>1 DEF TrialConnects
  <2> QED BY <2>1, <2>2, <2>3, ChainKept DEF Over
<1>23. CASE CloseBoxTimer
  <2>1. /\ pc = "events" /\ pc' = pc /\ mod' = [mod EXCEPT !.signal = "stop"]
        /\ mod.name \in Close
        /\ UNCHANGED <<next_module, log, ini, retries, sesman, acl_out>>
    BY <1>23 DEF CloseBoxTimer
  <2>2. mod'.sck = mod.sck /\ mod'.up = mod.up /\ mod'.name = mod.name
    BY <2>1 DEF Supervises, IsModule
  <2>3. ~mod.sck /\ ~TrialConnects
    BY <2>1 DEF TrialConnects, Supervises, Close, Targets
  <2> QED BY <2>1, <2>2, <2>3, ChainKept DEF Over
<1>24. CASE UserAnswers
  <2>1. /\ pc = "select" /\ pc' = "acl" /\ ~mod.sck
        /\ \E g : mod' = [mod EXCEPT !.signal = g]
        /\ acl_out' \in {acl_out, acl_out \cup {"answer"}}
        /\ UNCHANGED <<next_module, log, ini, retries, sesman>>
    BY <1>24 DEF UserAnswers
  <2>2. mod'.sck = mod.sck /\ mod'.name = mod.name
    BY <2>1 DEF Supervises, IsModule
  <2>3. ~TrialConnects
    BY <2>1 DEF TrialConnects
  <2> QED BY <2>1, <2>2, <2>3, ChainKept DEF Over
<1>25. CASE ConnectAuth
  <2>1. /\ pc = "connect" /\ pc' \in {"send", "close_box", "done"}
        /\ acl_out' \in {acl_out, {"answer"}}
        /\ mod' \in {mod, Internal("close")}
        /\ UNCHANGED <<next_module, log, ini, retries, sesman>>
    BY <1>25 DEF ConnectAuth
  <2>2. acl_out = {} /\ mod = NoMod
    BY <2>1 DEF Chain, TargetOwns, ModuleHeld
  <2>3. mod'.sck = FALSE /\ mod.sck = FALSE /\ (mod'.name \in Targets => mod.name \in Targets)
    BY <2>1, <2>2, Modules DEF Targets
  <2>4. ~TrialConnects
    BY <2>3 DEF TrialConnects
  <2>5. \A f \in {"close", "success", "ack"} : f \in acl_out' <=> f \in acl_out
    BY <2>1, <2>2
  <2>6. ~Over /\ pc' \notin {"wait_front", "connect"}
    BY <2>1 DEF Over
  <2> QED BY <2>1, <2>3, <2>4, <2>5, <2>6, ChainKept
<1>26. CASE ModSendWaiting
  <2>1. "mod" \in wait
    BY <1>26 DEF ModSendWaiting, Asserts, WatchIsFresh
  <2> QED BY <2>1 DEF Asserts, Failover
<1>27. CASE AclModule
  <2> DEFINE h == Head(to_proxy)
             new == [module |-> h.module,
                     alt |-> IF h.module \in Targets THEN h.alt ELSE ini.alt,
                     more |-> IF h.module \in Targets THEN h.more ELSE ini.more]
  <2>1. /\ Incoming("module") /\ UNCHANGED <<mod, acl_out>> /\ pc' = "events" /\ ini' = new
        /\ \/ next_module' = h.module
           \/ next_module' = next_module /\ h.module = mod.name
    BY <1>27 DEF AclModule
  <2>2. h.module \in Targets => new.alt = h.alt /\ new.more = h.more
    OBVIOUS
  <2> HIDE DEF new
  <2>3. h.module \in Targets => ini'.alt = h.alt /\ ini'.more = h.more
    BY <2>1, <2>2
  <2> QED BY <2>1, <2>3, ChainTurns
<1>28. CASE AclRejected
  <2>1. /\ Incoming("rejected") /\ UNCHANGED <<mod, acl_out, ini>> /\ pc' = "events"
        /\ next_module' = "close"
    BY <1>28 DEF AclRejected
  <2> QED BY <2>1, ChainTurns
<1>29. CASE AclKeepalive \/ AclEndDate \/ AclInactivity \/ AclSharing
  <2>1. PICK j \in {"keepalive", "end_date", "inactivity", "sharing"} : Incoming(j)
    BY <1>29 DEF AclKeepalive, AclEndDate, AclInactivity, AclSharing
  <2>2. /\ pc = "acl" /\ pc' = "events" /\ mod' = mod /\ back_event' = back_event
        /\ UNCHANGED <<next_module, ini, acl_out>>
    BY <1>29 DEF AclKeepalive, AclEndDate, AclInactivity, AclSharing, Incoming
  <2>3. /\ to_proxy # <<>> /\ to_proxy' = Tail(to_proxy) /\ ~Turns(Head(to_proxy))
        /\ UNCHANGED <<log, retries, phase, proto, left, try_next, to_sesman>>
    BY <2>1 DEF Incoming, Turns
  <2>4. TrialConnects => Undisturbed'
    BY <2>2 DEF TrialConnects, Undisturbed
  <2> QED BY <2>2, <2>3, <2>4, ChainKept DEF Over
<1>30. CASE AclDisconnect \/ AclOther
  <2>1. PICK j \in {"disconnect", "other"} : Incoming(j)
    BY <1>30 DEF AclDisconnect, AclOther
  <2>2. Head(to_proxy) \in ChainMessage /\ Head(to_proxy).kind = j
    <3>1. to_proxy \in Seq(ChainMessage) /\ to_proxy # <<>> /\ Head(to_proxy).kind = j
      BY <2>1 DEF Incoming, Chain
    <3> QED BY <3>1, TrialRead
  <2> QED BY <2>2 DEF ChainMessage
<1>31. CASE BackEvent
  <2>1. /\ pc = "back" /\ ~Over /\ retries' = retries
        /\ UNCHANGED <<phase, proto, left, try_next, to_proxy, to_sesman, back_event>>
    BY <1>31 DEF BackEvent, Over
  <2>2. CASE back_event = "stop" \/ Wanted = Unknown
    <3>1. /\ pc' \in {"end", "send"}
          /\ UNCHANGED <<next_module, mod, log, ini, acl_out>>
      BY <1>31, <2>2 DEF BackEvent
    <3>2. TrialConnects => Undisturbed'
      BY <3>1 DEF TrialConnects, Undisturbed
    <3> QED BY <2>1, <3>1, <3>2, ChainKept
  <2>3. CASE ~(back_event = "stop" \/ Wanted = Unknown)
             /\ Wanted \in Close /\ "close_box" \notin Option
    <3>1. /\ pc' = "end" /\ UNCHANGED <<mod, log>>
          /\ acl_out' \in {acl_out, acl_out \cup {"close"}}
      BY <1>31, <2>3 DEF BackEvent, TellClose
    <3>2. (Told("ack")' => Told("ack")) /\ Over'
      BY <2>1, <3>1 DEF Told, Over
    <3>3. mod.name \in Targets => mod.sck
      BY DEF Chain
    <3> QED BY <2>1, <3>1, <3>2, <3>3, ChainOver
  <2>4. CASE ~(back_event = "stop" \/ Wanted = Unknown)
             /\ ~(Wanted \in Close /\ "close_box" \notin Option)
    <3>1. next_module' = Unknown /\ NextBackendModule(Wanted, TellsClose)
      BY <1>31, <2>4 DEF BackEvent
    <3>2. CASE next_module \in Targets
      <4>1. Wanted = next_module
        BY <3>2 DEF Wanted, Targets, Unknown
      <4> QED BY <2>1, <3>1, <3>2, <4>1, ChainOpens
    <3>3. CASE next_module \notin Targets
      <4>1. Wanted \notin Targets
        BY <3>3 DEF Wanted, Targets
      <4>2. ~TrialConnects
        BY <2>1, <2>4 DEF TrialConnects, Undisturbed, Quiet, Wanted
      <4>3. TellsClose => mod.sck
        BY DEF TellsClose
      <4> QED BY <2>1, <2>4, <3>1, <3>3, <4>1, <4>2, <4>3, ChainLeaves
    <3> QED BY <3>2, <3>3
  <2> QED BY <2>2, <2>3, <2>4
<1>r. ~RetryRdp /\ ~Reconnectable
  <2>1. retries = 0 /\ MaxRetries = 0
    BY Zenon DEF Chain, Failover
  <2> QED BY <2>1 DEF RetryRdp, Reconnectable
<1>l. ASSUME pc = "catch", LeaveLoop, UNCHANGED <<next_module, sesman>> PROVE Chain'
  BY <1>k, <1>l DEF LeaveLoop, TrialConnects, Undisturbed
<1>32. CASE CatchFront
  BY <1>32, <1>l, <1>r DEF CatchFront
<1>33. CASE CatchSession
  <2>1. /\ pc = "catch" /\ exc.where \in {"AclUpdate", "EventLoop"}
        /\ UNCHANGED <<next_module, phase, proto, left, try_next, to_proxy, to_sesman>>
        /\ UNCHANGED sesman
    BY <1>33 DEF CatchSession
  <2>2. CASE LeaveLoop
    BY <1>l, <2>1, <2>2
  <2>3. CASE NextBackendModule("close", mod.sck) /\ UNCHANGED retries
    <3>1. next_module = Unknown /\ Unknown \notin Targets /\ "close" \notin Targets
          /\ "close" # Unknown
      BY <2>1 DEF Supervises, NextModuleFresh, Targets, Unknown
    <3>2. ~TrialConnects /\ ~Over
      BY <2>1 DEF TrialConnects, Undisturbed, Over
    <3> QED BY <2>1, <2>3, <3>1, <3>2, ChainLeaves
  <2> QED BY <1>33, <1>r, <2>2, <2>3 DEF CatchSession
<1>34. CASE PostLoop
  <2>1. /\ pc' \in {"close_box", "done"} /\ acl_out' = {}
        /\ to_sesman' \in {to_sesman, to_sesman \cup acl_out}
        /\ mod' = NoMod \/ (mod' = mod /\ mod.name = "close")
        /\ UNCHANGED <<retries, to_proxy, phase, proto, left, try_next>>
    BY <1>34 DEF PostLoop
  <2>2. (Told("ack")' => Told("ack")) /\ Over'
    BY <2>1 DEF Told, Over
  <2>3. mod'.sck = FALSE /\ mod'.name \notin Targets
    <3>1. CASE mod' = NoMod
      BY <3>1 DEF NoMod, Unknown, Targets
    <3>2. CASE mod' = mod /\ mod.name = "close"
      BY <3>2 DEF Supervises, IsModule, Targets
    <3> QED BY <2>1, <3>1, <3>2
  <2> QED BY <2>1, <2>2, <2>3, ChainOver
<1>35. CASE CloseBoxEnds
  <2>1. /\ pc = "close_box" /\ pc' = "done" /\ UNCHANGED <<acl_out, log>>
        /\ mod' \in {mod, [mod EXCEPT !.signal = "stop"]} /\ to_sesman' = to_sesman
        /\ UNCHANGED <<retries, to_proxy, phase, proto, left, try_next>>
    BY <1>35 DEF CloseBoxEnds
  <2>2. mod'.sck = mod.sck /\ mod'.name = mod.name
    BY <2>1 DEF Supervises, IsModule
  <2>3. (Told("ack")' => Told("ack")) /\ Over'
    BY <2>1 DEF Told, Over
  <2>4. mod.name \in Targets => mod.sck
    BY DEF Chain
  <2> QED BY <2>1, <2>2, <2>3, <2>4, ChainOver
<1>36. CASE SesmanStep
  BY <1>36, ManagerKeepsChain
<1>37. CASE Done \/ UNCHANGED vars
  <2>1. /\ UNCHANGED <<next_module, log, ini, retries, phase, proto, left, try_next,
                     to_sesman, to_proxy, acl_out, pc, mod, back_event, exc>>
    BY <1>37 DEF Done, vars
  <2>2. TrialConnects => Undisturbed'
    BY <2>1 DEF TrialConnects, Undisturbed
  <2> QED BY <2>1, <2>2, ChainKept DEF Over, Chain
<1> QED
  BY <1>1, <1>2, <1>3, <1>4, <1>5, <1>6, <1>7, <1>8, <1>9, <1>10, <1>11, <1>12,
     <1>13, <1>14, <1>15, <1>16, <1>17, <1>18, <1>19, <1>20, <1>21, <1>22, <1>23,
     <1>24, <1>25, <1>26, <1>27, <1>28, <1>29, <1>30, <1>31, <1>32, <1>33, <1>34,
     <1>35, <1>36, <1>37
  DEF Next, LoopStep, UserStep, TargetStep, TimerStep, AclStep

(* The steps that change the module, over a chain of targets. *)
LEMMA ChainAsserted ==
  ASSUME Failover, Chain, Supervises, Asserts, BackEvent \/ CatchFront \/ CatchSession
  PROVE  broken' = {}
<1>1. broken = {}
  BY DEF Asserts, AssertionsHold
<1>r. ~RetryRdp /\ ~Reconnectable
  <2>1. retries = 0 /\ MaxRetries = 0
    BY Zenon DEF Chain, Failover
  <2> QED BY <2>1 DEF RetryRdp, Reconnectable
<1>2. CASE BackEvent
  <2>1. CASE back_event = "stop" \/ Wanted = Unknown
             \/ (Wanted \in Close /\ "close_box" \notin Option)
    BY <1>1, <1>2, <2>1 DEF BackEvent
  <2>2. CASE /\ back_event # "stop" /\ Wanted # Unknown
             /\ ~(Wanted \in Close /\ "close_box" \notin Option)
    <3>1. /\ next_module' = Unknown /\ NextBackendModule(Wanted, TellsClose) /\ ~Over
          /\ UNCHANGED <<retries, phase, proto, left, try_next, to_proxy, to_sesman>>
      BY <1>2, <2>2 DEF BackEvent, Over, sesman
    <3>2. CASE next_module \in Targets
      <4>1. Wanted = next_module
        BY <3>2 DEF Wanted, Targets, Unknown
      <4> QED BY <1>1, <3>1, <3>2, <4>1, ChainOpens
    <3>3. CASE next_module \notin Targets
      <4>1. Wanted \notin Targets
        BY <3>3 DEF Wanted, Targets
      <4> QED BY <1>1, <3>1, <4>1, LeavesAsserted
    <3> QED BY <3>2, <3>3
  <2> QED BY <2>1, <2>2
<1>3. CASE CatchFront
  BY <1>1, <1>3, <1>r DEF CatchFront, LeaveLoop
<1>4. CASE CatchSession
  <2>1. CASE LeaveLoop
    BY <1>1, <2>1 DEF LeaveLoop
  <2>2. CASE NextBackendModule("close", mod.sck)
    <3>1. "close" \notin Targets
      BY DEF Targets
    <3> QED BY <1>1, <2>2, <3>1, LeavesAsserted
  <2> QED BY <1>4, <1>r, <2>1, <2>2 DEF CatchSession
<1> QED BY <1>2, <1>3, <1>4

(* The first state. *)
LEMMA InitChain == Init => Chain
<1> SUFFICES ASSUME Init PROVE Chain
  OBVIOUS
<1>1. /\ phase = "auth" /\ proto = "" /\ left = 0 /\ try_next = FALSE /\ to_proxy = <<>>
      /\ to_sesman = {} /\ acl_out = {} /\ retries = 0 /\ next_module = Unknown
      /\ log = "" /\ mod = NoMod
  BY DEF Init, SesmanInit
<1>2. mod.sck = FALSE /\ mod.name \notin Targets /\ Unknown \notin Targets
  BY <1>1 DEF NoMod, Unknown, Targets
<1>3. to_proxy \in Seq(ChainMessage) /\ NoTarget(to_proxy)
  <2>1. <<>> \in Seq(ChainMessage) /\ Len(<<>>) = 0
    BY EmptySeq
  <2>2. to_proxy = <<>>
    BY <1>1, Zenon
  <2>3. \A i \in 1 .. Len(to_proxy) : FALSE
    BY <2>1, <2>2
  <2> QED BY <2>1, <2>2, <2>3 DEF NoTarget
<1>4. Position
  BY <1>1, <1>2, <1>3 DEF Position, NoneComing, Untold, Told
<1>5. phase \in Phase /\ proto \in Protocol \cup {""} /\ try_next \in BOOLEAN /\ left \in Nat
  BY <1>1, Zenon DEF Phase
<1> QED BY <1>1, <1>2, <1>3, <1>4, <1>5 DEF Chain, Told

(* Behind a service with any number of physical RDP targets, each of which either
   cannot be created or succeeds, the assertions on the session log and on
   send_waiting_data hold however the targets fail over: the log that
   secondary_session_creation_failed keeps is the one the next target takes
   (AssertionsHold), and every connected target is logged and supervised
   (TargetSupervised). *)
THEOREM FailoverKeepsTheLog ==
  ASSUME Failover
  PROVE  Spec => []AssertionsHold /\ []TargetSupervised
<1> DEFINE Inv == TargetOwns /\ Supervises /\ Chain /\ Asserts
<1>1. Init => Inv
  <2>1. Init => TargetOwns
    BY Modules DEF Init, TargetOwns, ModuleHeld, NothingOutlivesTarget
  <2>2. Init => Supervises
    BY Modules DEF Init, Supervises, ErrorHasTarget, KeepaliveRuns, InactivityRuns,
        NextModuleFresh
  <2>3. ASSUME Init PROVE Asserts
    <3>1. retries = 0 /\ wait = {} /\ broken = {} /\ guest = "none" /\ pc = "wait_front"
      BY <2>3 DEF Init
    <3> QED BY <3>1 DEF Asserts, GuestHasTarget, WatchIsFresh, AssertionsHold
  <2> QED BY <2>1, <2>2, <2>3, InitChain
<1>2. Inv /\ [Next]_vars => Inv'
  <2> SUFFICES ASSUME Inv, [Next]_vars PROVE Inv'
    OBVIOUS
  <2>1. ~TimersRace /\ RetryWithoutGuest /\ "guest" \notin Congestible
    BY DEF Failover, RetryWithoutGuest
  <2>2. LogOpen
    BY DEF LogOpen, Supervises, Chain
  <2>3. BackEvent \/ CatchFront \/ CatchSession => broken' = {}
    BY ChainAsserted
  <2> QED BY <2>1, <2>2, <2>3, StepOwns, StepSupervises, StepChain, StepAsserts
<1>3. Inv => AssertionsHold
  BY DEF Asserts
<1>4. Inv => TargetSupervised
  BY DEF Supervises, KeepaliveRuns, InactivityRuns, Handles, Chain, TargetSupervised
<1> QED BY <1>1, <1>2, <1>3, <1>4, PTL DEF Spec
=============================================================================
