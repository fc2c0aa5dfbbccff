----------------------- MODULE EndSessionWarningProofs -----------------------
(* Theorems about EndSessionWarning, for every list of delays, every sequence *)
(* of dates, every duration of the work and of a wait, every setting of the   *)
(* wall clock.                                                                *)
EXTENDS EndSessionWarning, WellFoundedInduction, TLAPS

(* The delays are positive integers. *)
LEMMA TimersNat == Timers \subseteq Nat \ {0} /\ first \in Timers /\ back \in Timers
<1>1. end_session_timers \in [1..Len(end_session_timers) -> Nat \ {0}]
      /\ Len(end_session_timers) \in Nat
  BY WarningAssumption
<1>2. 1 \in 1..Len(end_session_timers)
      /\ Len(end_session_timers) \in 1..Len(end_session_timers)
  BY <1>1, WarningAssumption
<1> QED BY <1>1, <1>2 DEF Timers, first, back

(* next_timeout picks a delay of the list: above the smallest delay there is a
   largest one below what is left. *)
LEMMA TimerBelowIsTimer ==
  ASSUME NEW e \in Int, e > first
  PROVE  TimerBelow(e) \in Timers /\ TimerBelow(e) < e
<1> DEFINE Gap == {e - t : t \in {u \in Timers : u < e}}
<1>1. Gap \subseteq Nat /\ Gap # {}
  BY TimersNat
<1>2. PICK g \in Gap : \A h \in Gap : ~(<<h, g>> \in OpToRel(<, Nat))
  <2> HIDE DEF Gap
  <2> QED BY <1>1, WFMin, NatLessThanWellFounded
<1>3. \A h \in Gap : g <= h
  <2> SUFFICES ASSUME NEW h \in Gap PROVE g <= h
    OBVIOUS
  <2>1. g \in Nat /\ h \in Nat
    BY <1>1, <1>2
  <2>2. ~(<<h, g>> \in OpToRel(<, Nat))
    BY <1>2
  <2>3. ~(h < g)
    BY <2>1, <2>2 DEF OpToRel
  <2> QED BY <2>1, <2>3
<1>4. PICK t \in Timers : t < e /\ g = e - t
  BY <1>2
<1>5. \A u \in Timers : u < e => u <= t
  <2> SUFFICES ASSUME NEW u \in Timers, u < e PROVE u <= t
    OBVIOUS
  <2>1. e - u \in Gap
    OBVIOUS
  <2>2. g <= e - u
    BY <2>1, <1>3
  <2> QED BY <2>2, <1>4, TimersNat
<1> QED BY <1>4, <1>5 DEF TimerBelow

(* next_timeout stays on this side of the end. *)
LEMMA NextTimeoutBounded ==
  ASSUME NEW close \in Int, NEW n \in Int
  PROVE  next_timeout(close, n) \in Int /\ next_timeout(close, n) <= close
<1>1. CASE close - n <= first
  BY <1>1 DEF next_timeout
<1>2. CASE ~(close - n <= first)
  <2>1. PICK e \in Int : e = close - n
    OBVIOUS
  <2>2. e > first
    BY <1>2, <2>1, TimersNat
  <2>3. TimerBelow(e) \in Nat
    BY <2>2, TimerBelowIsTimer, TimersNat
  <2>4. next_timeout(close, n) = close - TimerBelow(e)
    BY <1>2, <2>1 DEF next_timeout
  <2> QED BY <2>3, <2>4
<1> QED BY <1>1, <1>2

(* So does the trigger set_time computes, unless the end is already past. *)
LEMMA SetTimeBounded ==
  ASSUME NEW close \in Int, NEW n \in Int
  PROVE  /\ set_time(close, n).trigger \in Int /\ set_time(close, n).delay \in Int
         /\ set_time(close, n).trigger <= close \/ set_time(close, n).trigger <= n
<1>1. CASE close <= n
  BY <1>1 DEF set_time
<1>2. CASE ~(close <= n) /\ close - n <= back
  <2>1. set_time(close, n) = [trigger |-> next_timeout(close, n), delay |-> close - n]
    BY <1>2 DEF set_time
  <2> QED BY <2>1, NextTimeoutBounded
<1>3. CASE ~(close <= n) /\ ~(close - n <= back)
  <2>1. set_time(close, n) = [trigger |-> close - back, delay |-> 0]
    BY <1>3 DEF set_time
  <2> QED BY <2>1, TimersNat
<1> QED BY <1>1, <1>2, <1>3

(* Arming the event keeps both invariants. *)
LEMMA ArmInv ==
  ASSUME NEW close \in Int, NEW n \in Int, Arm(close, n)
  PROVE  /\ timer_event' \in BOOLEAN /\ timer_close' \in Int
         /\ trigger_time' \in Int /\ last_delay' \in Int
         /\ trigger_time' <= timer_close' \/ trigger_time' <= n
<1>1. /\ timer_close' = close /\ timer_event' = TRUE
      /\ trigger_time' = set_time(close, n).trigger
      /\ last_delay' = set_time(close, n).delay
  BY DEF Arm
<1> QED BY <1>1, SetTimeBounded

(* The loop never has a monotonic time the clock has not reached. *)
Behind == now <= clock

Inv == TypeOK /\ NeverPastEnd /\ Behind

(* The type invariant and NeverPastEnd are inductive together. *)
LEMMA StepInv == Inv /\ [Next]_vars => Inv'
<1> SUFFICES ASSUME Inv, [Next]_vars PROVE Inv'
  OBVIOUS
<1> USE WarningAssumption DEF Inv, TypeOK, NeverPastEnd, Behind
<1>1. CASE Elapse
  <2>1. PICK w \in Work, j \in Jump : Pass(w, j) /\ steady' = (steady /\ j = 0)
    BY <1>1 DEF Elapse
  <2>2. w \in Nat /\ j \in Int
    OBVIOUS
  <2>3. /\ clock' \in 0..MaxTime /\ clock <= clock' /\ wall' \in Int
        /\ jumps' \in 0..MaxJumps
    BY <2>1, <2>2 DEF Pass
  <2>4. set_back' \in BOOLEAN /\ steady' \in BOOLEAN
    BY <2>1 DEF Pass
  <2> QED BY <1>1, <2>3, <2>4 DEF Elapse, base, timer
<1>2. CASE Select
  <2>1. PICK d \in Step, j \in Jump, nodelay \in BOOLEAN :
          /\ Waits(d, j, nodelay)
          /\ now' = clock + d
          /\ real' = wall + d + j
          /\ \/ Arm(timer_close + ((wall + d + j) - real), clock + d)
             \/ UNCHANGED timer
    BY <1>2 DEF Select
  <2>2. d \in Nat /\ j \in Int
    OBVIOUS
  <2>3. /\ clock' \in 0..MaxTime /\ clock' = clock + d /\ wall' \in Int
        /\ jumps' \in 0..MaxJumps
    BY <2>1, <2>2 DEF Waits, Pass
  <2>4. set_back' \in BOOLEAN /\ steady' \in BOOLEAN
    BY <2>1 DEF Waits, Pass
  <2>5. now' = clock' /\ now' \in 0..MaxTime /\ real' \in Int
    BY <2>1, <2>2, <2>3
  <2>6. /\ timer_event' \in BOOLEAN /\ timer_close' \in Int
        /\ trigger_time' \in Int /\ last_delay' \in Int
        /\ NeverPastEnd'
    <3>1. CASE Arm(timer_close + ((wall + d + j) - real), clock + d)
      <4>1. timer_close + ((wall + d + j) - real) \in Int /\ clock + d \in Int
        BY <2>2
      <4> QED BY <2>1, <3>1, <4>1, ArmInv
    <3>2. CASE UNCHANGED timer
      BY <2>2, <2>5, <2>3, <3>2 DEF timer
    <3> QED BY <2>1, <3>1, <3>2
  <2> QED BY <1>2, <2>3, <2>4, <2>5, <2>6 DEF Select
<1>3. CASE SelectInterrupted
  <2>1. PICK d \in Step, j \in Jump, nodelay \in BOOLEAN :
          Waits(d, j, nodelay) /\ now' = NextDelay(nodelay)
    BY <1>3 DEF SelectInterrupted
  <2>2. d \in Nat /\ j \in Int
    OBVIOUS
  <2>3. /\ clock' \in 0..MaxTime /\ clock <= clock' /\ wall' \in Int
        /\ jumps' \in 0..MaxJumps
    BY <2>1, <2>2 DEF Waits, Pass
  <2>4. set_back' \in BOOLEAN /\ steady' \in BOOLEAN
    BY <2>1 DEF Waits, Pass
  <2>5. now' \in 0..MaxTime /\ now <= now' /\ now' <= clock'
    BY <2>1, <2>3 DEF NextDelay
  <2> QED BY <1>3, <2>3, <2>4, <2>5 DEF SelectInterrupted, timer
<1>4. CASE SetTimeBase
  BY <1>4 DEF SetTimeBase, timer
<1>5. CASE AclEndDate
  <2>1. CASE \E e \in Date : end_date' = e /\ Arm(clock + (e - wall), clock)
             /\ now' = clock /\ real' = wall /\ steady' = TRUE /\ set_back' = FALSE
    <3>1. PICK e \in Date : end_date' = e /\ Arm(clock + (e - wall), clock)
      BY <2>1
    <3>2. e \in Int
      OBVIOUS
    <3>3. clock + (e - wall) \in Int /\ clock \in Int
      BY <3>2
    <3>4. /\ timer_event' \in BOOLEAN /\ timer_close' \in Int
          /\ trigger_time' \in Int /\ last_delay' \in Int
          /\ trigger_time' <= timer_close' \/ trigger_time' <= clock
      BY <3>1, <3>3, ArmInv
    <3>5. steady' \in BOOLEAN /\ set_back' \in BOOLEAN
      BY <2>1
    <3> QED BY <1>5, <2>1, <3>1, <3>2, <3>4, <3>5 DEF AclEndDate
  <2>2. CASE timer_event' = FALSE /\ last_delay' = 0
             /\ UNCHANGED <<end_date, timer_close, trigger_time, base, steady, set_back>>
    <3>1. NeverPastEnd' /\ Behind'
      BY <1>5, <2>2 DEF AclEndDate, base
    <3>2. timer_event' \in BOOLEAN
      BY <2>2
    <3>3. TypeOK'
      BY <1>5, <2>2, <3>2 DEF AclEndDate, base
    <3> QED BY <3>1, <3>3
  <2> QED BY <1>5, <2>1, <2>2 DEF AclEndDate
<1>6. CASE AclQuiet
  BY <1>6 DEF AclQuiet, base, timer
<1>7. CASE EndReached
  BY <1>7 DEF EndReached, base
<1>8. CASE Warn
  <2>1. /\ trigger_time' = next_timeout(timer_close, trigger_time + Second)
        /\ timer_close' = timer_close
    BY <1>8 DEF Warn
  <2>2. trigger_time + Second \in Int
    OBVIOUS
  <2>3. trigger_time' \in Int /\ trigger_time' <= timer_close'
    BY <2>1, <2>2, NextTimeoutBounded
  <2> QED BY <1>8, <2>2, <2>3 DEF Warn, Announce, base
<1>9. CASE NotDue
  BY <1>9 DEF NotDue, Announce, base
<1>10. CASE Closed \/ UNCHANGED vars
  <2>1. /\ UNCHANGED <<pc, clock, wall, now, real, end_date, timer_event, trigger_time>>
        /\ UNCHANGED <<timer_close, last_delay, announced, steady, set_back, dates, jumps>>
    BY <1>10 DEF Closed, vars, base, timer
  <2>2. TypeOK'
    BY <2>1
  <2>3. NeverPastEnd' /\ Behind'
    BY <2>1
  <2> QED BY <2>2, <2>3
<1> QED BY <1>1, <1>2, <1>3, <1>4, <1>5, <1>6, <1>7, <1>8, <1>9, <1>10 DEF Next

(* They hold initially: there is no event yet. *)
LEMMA InitInv == Init => Inv
<1> SUFFICES ASSUME Init PROVE Inv
  OBVIOUS
<1>1. TypeOK
  <2>1. timer_event \in BOOLEAN /\ steady \in BOOLEAN /\ set_back \in BOOLEAN
    BY DEF Init
  <2>2. dates \in 0..MaxDates /\ jumps \in 0..MaxJumps
    BY WarningAssumption DEF Init
  <2>3. 0 \in 0..MaxTime
    BY WarningAssumption
  <2> QED BY <2>1, <2>2, <2>3 DEF Init, TypeOK
<1>2. NeverPastEnd /\ Behind
  BY DEF Init, NeverPastEnd, Behind
<1> QED BY <1>1, <1>2 DEF Inv

(* The event of EndSessionWarning never sleeps past the end of the session,
   whatever the clocks do (NeverPastEnd). *)
THEOREM EventNeverPastEnd == Spec => [](TypeOK /\ NeverPastEnd)
<1>1. Inv => TypeOK /\ NeverPastEnd
  BY DEF Inv
<1> QED BY InitInv, StepInv, <1>1, PTL DEF Spec

----------------------------------------------------------------------------
(* As long as the wall clock is not set back, the copy of it is never ahead and
   the end on the monotonic clock is never closer than the date: an iteration
   that takes more than a second, an interrupted wait and a clock set forward
   only move it away. *)
NotEarly == /\ ~set_back => real <= wall /\ clock - timer_close <= wall - end_date
            /\ EndDateReached

(* NotEarly is preserved by every step. *)
LEMMA StepNotEarly == Inv /\ NotEarly /\ [Next]_vars => NotEarly'
<1> SUFFICES ASSUME Inv, NotEarly, [Next]_vars PROVE NotEarly'
  OBVIOUS
<1> USE WarningAssumption DEF Inv, TypeOK, NotEarly, EndDateReached, Behind
<1>1. CASE Elapse
  <2>1. PICK w \in Work, j \in Jump : Pass(w, j)
    BY <1>1 DEF Elapse
  <2>2. w \in Nat /\ j \in Int
    OBVIOUS
  <2>3. ~set_back' => ~set_back /\ ~(j < 0)
    BY <2>1, Zenon DEF Pass
  <2>4. clock' = clock + w /\ wall' = wall + w + j
    BY <2>1 DEF Pass
  <2>5. UNCHANGED <<pc, real, end_date, timer_close>> /\ pc # "closed"
    BY <1>1 DEF Elapse, base, timer
  <2> QED BY <2>2, <2>3, <2>4, <2>5
<1>2. CASE Select
  <2>1. PICK d \in Step, j \in Jump, nodelay \in BOOLEAN :
          /\ Waits(d, j, nodelay)
          /\ now' = clock + d
          /\ real' = wall + d + j
          /\ \/ Arm(timer_close + ((wall + d + j) - real), clock + d)
             \/ UNCHANGED timer
    BY <1>2 DEF Select
  <2>2. d \in Nat /\ j \in Int
    OBVIOUS
  <2>3. timer_close' = timer_close + ((wall + d + j) - real) \/ timer_close' = timer_close
    BY <2>1 DEF Arm, timer
  <2>4. ~set_back' => ~set_back /\ ~(j < 0)
    BY <2>1, Zenon DEF Waits, Pass
  <2>5. clock' = clock + d /\ wall' = wall + d + j /\ real' = wall'
    BY <2>1 DEF Waits, Pass
  <2>6. ~set_back' => clock' - timer_close' <= wall' - end_date
    BY <2>2, <2>3, <2>4, <2>5
  <2> QED BY <1>2, <2>2, <2>5, <2>6 DEF Select
<1>3. CASE SelectInterrupted
  <2>1. PICK d \in Step, j \in Jump, nodelay \in BOOLEAN : Waits(d, j, nodelay)
    BY <1>3 DEF SelectInterrupted
  <2>2. d \in Nat /\ j \in Int
    OBVIOUS
  <2>3. ~set_back' => ~set_back /\ ~(j < 0)
    BY <2>1, Zenon DEF Waits, Pass
  <2>4. clock' = clock + d /\ wall' = wall + d + j
    BY <2>1 DEF Waits, Pass
  <2>5. UNCHANGED <<pc, real, end_date, timer_close>> /\ pc # "closed"
    BY <1>3 DEF SelectInterrupted, timer
  <2> QED BY <2>2, <2>3, <2>4, <2>5
<1>4. CASE SetTimeBase
  BY <1>4 DEF SetTimeBase, timer
<1>5. CASE AclEndDate
  <2>1. \/ /\ \E e \in Date : end_date' = e /\ timer_close' = clock + (e - wall)
           /\ real' = wall
        \/ UNCHANGED <<end_date, timer_close, real, set_back>>
    BY <1>5 DEF AclEndDate, Arm, base
  <2> QED BY <1>5, <2>1 DEF AclEndDate
<1>6. CASE AclQuiet
  BY <1>6 DEF AclQuiet, base, timer
<1>7. CASE EndReached
  BY <1>7 DEF EndReached, Due, base
<1>8. CASE Warn
  BY <1>8 DEF Warn, base
<1>9. CASE NotDue
  BY <1>9 DEF NotDue, base
<1>10. CASE Closed \/ UNCHANGED vars
  BY <1>10 DEF Closed, vars, base, timer
<1> QED BY <1>1, <1>2, <1>3, <1>4, <1>5, <1>6, <1>7, <1>8, <1>9, <1>10 DEF Next

(* The end date is never taken for reached before it is, however long the
   iterations take, whichever waits are interrupted and however far the wall
   clock is set forward (EndDateReached). *)
THEOREM NeverEndsEarly == Spec => []EndDateReached
<1>1. Init => NotEarly
  BY DEF Init, NotEarly, EndDateReached
<1>2. Inv /\ NotEarly /\ [Next]_vars => (Inv /\ NotEarly)'
  BY StepInv, StepNotEarly
<1>3. NotEarly => EndDateReached
  BY DEF NotEarly
<1> QED BY InitInv, <1>1, <1>2, <1>3, PTL DEF Spec
----------------------------------------------------------------------------
(* With steady clocks the wall half of the time base is behind the monotonic
   half by less than a second: what NextDelay refreshed alone. *)
Skew == steady => /\ (wall - real) - (clock - now) >= 0
                  /\ (wall - real) - (clock - now) < Second

(* So is it after every step. *)
LEMMA StepSkew == Inv /\ Skew /\ [Next]_vars => Skew'
<1> SUFFICES ASSUME Inv, Skew, [Next]_vars PROVE Skew'
  OBVIOUS
<1> USE WarningAssumption DEF Inv, TypeOK, Skew, Behind
<1>1. CASE Elapse
  <2>1. PICK w \in Work, j \in Jump : Pass(w, j) /\ steady' = (steady /\ j = 0)
    BY <1>1 DEF Elapse
  <2>2. w \in Nat /\ j \in Int
    OBVIOUS
  <2>3. steady' => steady /\ j = 0
    BY <2>1, Zenon
  <2>4. clock' = clock + w /\ wall' = wall + w + j /\ now' = now /\ real' = real
    BY <1>1, <2>1 DEF Elapse, Pass, base
  <2> QED BY <2>2, <2>3, <2>4
<1>2. CASE Select
  <2>1. PICK d \in Step, j \in Jump, nodelay \in BOOLEAN :
          Waits(d, j, nodelay) /\ now' = clock + d /\ real' = wall + d + j
    BY <1>2 DEF Select
  <2>2. d \in Nat /\ j \in Int
    OBVIOUS
  <2> QED BY <2>1, <2>2 DEF Waits, Pass
<1>3. CASE SelectInterrupted
  <2>1. PICK d \in Step, j \in Jump, nodelay \in BOOLEAN :
          Waits(d, j, nodelay) /\ now' = NextDelay(nodelay)
    BY <1>3 DEF SelectInterrupted
  <2>2. d \in Nat /\ j \in Int
    OBVIOUS
  <2>3. clock' = clock + d /\ wall' = wall + d + j /\ real' = real
    BY <1>3, <2>1 DEF SelectInterrupted, Waits, Pass
  <2>4. steady' => steady /\ j = 0 /\ (nodelay \/ wall - real < Second)
    BY <2>1, Zenon DEF Waits
  <2>5. CASE nodelay
    <3>1. now' = now
      BY <2>1, <2>5 DEF NextDelay
    <3> QED BY <2>2, <2>3, <2>4, <3>1
  <2>6. CASE ~nodelay
    <3>1. now' = clock
      BY <2>1, <2>6 DEF NextDelay
    <3> QED BY <2>2, <2>3, <2>4, <2>6, <3>1
  <2> QED BY <2>5, <2>6
<1>4. CASE SetTimeBase
  BY <1>4 DEF SetTimeBase
<1>5. CASE AclEndDate
  <2>1. \/ now' = clock /\ real' = wall /\ clock' = clock /\ wall' = wall
        \/ UNCHANGED <<clock, wall, now, real, steady>>
    BY <1>5 DEF AclEndDate, base
  <2>2. CASE now' = clock /\ real' = wall /\ clock' = clock /\ wall' = wall
    BY <2>2
  <2>3. CASE UNCHANGED <<clock, wall, now, real, steady>>
    BY <2>3
  <2> QED BY <2>1, <2>2, <2>3
<1>6. CASE AclQuiet
  BY <1>6 DEF AclQuiet, base
<1>7. CASE EndReached
  BY <1>7 DEF EndReached, base
<1>8. CASE Warn
  BY <1>8 DEF Warn, base
<1>9. CASE NotDue
  BY <1>9 DEF NotDue, base
<1>10. CASE Closed \/ UNCHANGED vars
  BY <1>10 DEF Closed, vars, base
<1> QED BY <1>1, <1>2, <1>3, <1>4, <1>5, <1>6, <1>7, <1>8, <1>9, <1>10 DEF Next

(* A select that leaves the clocks steady sees no change of the wall clock, so
   the event stays as it was. *)
LEMMA SteadySelect ==
  ASSUME Inv, Skew, Select, steady'
  PROVE  /\ steady
         /\ clock' - clock = wall' - wall
         /\ UNCHANGED timer
<1> USE WarningAssumption DEF Inv, TypeOK, Behind
<1>1. PICK d \in Step, j \in Jump, nodelay \in BOOLEAN :
        /\ Waits(d, j, nodelay)
        /\ IF timer_event
              /\ JumpDetected((wall + d + j) - real, (clock + d) - NextDelay(nodelay))
           THEN Arm(timer_close + ((wall + d + j) - real), clock + d)
           ELSE UNCHANGED timer
  BY DEF Select
<1>2. d \in Nat /\ j \in Int
  OBVIOUS
<1>3. steady /\ j = 0 /\ (nodelay \/ wall - real < Second)
  BY <1>1, Zenon DEF Waits
<1>4. /\ (wall - real) - (clock - now) >= 0
      /\ (wall - real) - (clock - now) < Second
  BY <1>3 DEF Skew
<1>5. ~JumpDetected((wall + d + j) - real, (clock + d) - NextDelay(nodelay))
  <2> DEFINE r == (wall + d + j) - real
             m == (clock + d) - NextDelay(nodelay)
  <2>1. r \in Int /\ m \in Int /\ r >= 0 /\ r < m + Second
    <3>1. CASE nodelay
      BY <1>2, <1>3, <1>4, <3>1 DEF NextDelay
    <3>2. CASE ~nodelay
      BY <1>2, <1>3, <1>4, <3>2 DEF NextDelay
    <3> QED BY <3>1, <3>2
  <2> HIDE DEF r, m
  <2>2. ~JumpDetected(r, m)
    BY <2>1 DEF JumpDetected, Abs
  <2> QED BY <2>2 DEF r, m
<1>6. clock' = clock + d /\ wall' = wall + d + j
  BY <1>1 DEF Waits, Pass
<1> QED BY <1>1, <1>2, <1>3, <1>5, <1>6

(* The end is the date the manager gave as long as the clocks are steady,
   whatever the work and the waits last otherwise (EndIsDate). *)
THEOREM EndStaysTheDate == Spec => []EndIsDate
<1>1. Init => EndIsDate /\ Skew
  BY WarningAssumption DEF Init, EndIsDate, Skew
<1>2. Inv /\ Skew /\ EndIsDate /\ [Next]_vars => EndIsDate'
  <2> SUFFICES ASSUME Inv, Skew, EndIsDate, [Next]_vars, timer_event', steady'
               PROVE  timer_close' - clock' = end_date' - wall'
    BY DEF EndIsDate
  <2>0. Inv'
    BY StepInv
  <2> USE WarningAssumption DEF Inv, TypeOK, EndIsDate
  <2>1. CASE Elapse
    <3>1. PICK w \in Work, j \in Jump : Pass(w, j) /\ steady' = (steady /\ j = 0)
      BY <2>1 DEF Elapse
    <3>2. w \in Nat /\ j \in Int
      OBVIOUS
    <3>3. steady /\ j = 0
      BY <3>1, Zenon
    <3>4. clock' = clock + w /\ wall' = wall + w + j
      BY <3>1 DEF Pass
    <3>5. UNCHANGED <<end_date, timer_close, timer_event>>
      BY <2>1 DEF Elapse, timer
    <3> QED BY <3>2, <3>3, <3>4, <3>5
  <2>2. CASE Select
    <3>1. steady /\ clock' - clock = wall' - wall /\ UNCHANGED timer
      BY <2>2, SteadySelect
    <3>2. timer_close - clock = end_date - wall
      BY <3>1 DEF timer
    <3>3. clock' \in Int /\ wall' \in Int /\ end_date' = end_date
      BY <2>0, <2>2 DEF Select
    <3>4. /\ clock' - clock = wall' - wall /\ timer_close' = timer_close
          /\ clock \in Int /\ wall \in Int /\ end_date \in Int /\ timer_close \in Int
      BY <3>1 DEF timer
    <3>5. \A a, b, c, d, x, y \in Int :
            x - b = y - c /\ a - b = d - c => a - x = d - y
      OBVIOUS
    <3>6. timer_close - clock' = end_date - wall'
      BY <3>2, <3>3, <3>4, <3>5
    <3> QED BY <3>3, <3>4, <3>6
  <2>3. CASE SelectInterrupted
    <3>1. PICK d \in Step, j \in Jump, nodelay \in BOOLEAN : Waits(d, j, nodelay)
      BY <2>3 DEF SelectInterrupted
    <3>2. d \in Nat /\ j \in Int
      OBVIOUS
    <3>3. steady /\ j = 0
      BY <3>1, Zenon DEF Waits
    <3>4. clock' = clock + d /\ wall' = wall + d + j
      BY <3>1 DEF Waits, Pass
    <3>5. UNCHANGED <<end_date, timer_close, timer_event>>
      BY <2>3 DEF SelectInterrupted, timer
    <3> QED BY <3>2, <3>3, <3>4, <3>5
  <2>4. CASE SetTimeBase
    BY <2>4 DEF SetTimeBase, timer
  <2>5. CASE AclEndDate
    <3>1. \E e \in Date : end_date' = e /\ timer_close' = clock + (e - wall)
      BY <2>5 DEF AclEndDate, Arm
    <3> QED BY <2>5, <3>1 DEF AclEndDate
  <2>6. CASE AclQuiet
    BY <2>6 DEF AclQuiet, timer
  <2>7. CASE EndReached
    BY <2>7 DEF EndReached
  <2>8. CASE Warn
    BY <2>8 DEF Warn
  <2>9. CASE NotDue
    BY <2>9 DEF NotDue
  <2>10. CASE Closed \/ UNCHANGED vars
    BY <2>10 DEF Closed, vars, timer
  <2> QED BY <2>1, <2>2, <2>3, <2>4, <2>5, <2>6, <2>7, <2>8, <2>9, <2>10 DEF Next
<1>3. Inv /\ Skew /\ EndIsDate /\ [Next]_vars => (Inv /\ Skew /\ EndIsDate)'
  BY <1>2, StepInv, StepSkew
<1> QED BY InitInv, <1>1, <1>3, PTL DEF Spec

----------------------------------------------------------------------------
(* The delays ascend: the first is the smallest. *)
LEMMA FirstSmallest == \A t \in Timers : first <= t
<1> SUFFICES ASSUME NEW i \in 1..Len(end_session_timers)
             PROVE  first <= end_session_timers[i]
  BY DEF Timers
<1>1. /\ Len(end_session_timers) \in Nat /\ 1 \in 1..Len(end_session_timers)
      /\ end_session_timers[1] \in Nat /\ end_session_timers[i] \in Nat
  BY WarningAssumption
<1>2. i = 1 \/ end_session_timers[1] < end_session_timers[i]
  BY <1>1, WarningAssumption
<1> QED BY <1>1, <1>2 DEF first

(* The inductive invariant of WarningsCountDown: an event set before the end is
   set one of the delays before it, and both the delay that waits to be
   announced and the one announced are more than what the event leaves. *)
OnTimer == trigger_time < timer_close => timer_close - trigger_time \in Timers

DelayAhead == /\ last_delay >= 0 /\ announced >= 0
              /\ last_delay # 0 => timer_close - trigger_time < last_delay

CountDown == OnTimer /\ DelayAhead /\ WarningsCountDown

(* next_timeout sets the event for the end or one of the delays before it, and
   for less than what is left. *)
LEMMA NextTimeoutOnTimer ==
  ASSUME NEW close \in Int, NEW n \in Int, n <= close
  PROVE  /\ next_timeout(close, n) \in Int
         /\ next_timeout(close, n) < close => close - next_timeout(close, n) \in Timers
         /\ n < close => close - next_timeout(close, n) < close - n
         /\ n <= next_timeout(close, n)
<1>1. CASE close - n <= first
  BY <1>1 DEF next_timeout
<1>2. CASE ~(close - n <= first)
  <2>1. PICK e \in Int : e = close - n
    OBVIOUS
  <2>2. e > first
    BY <1>2, <2>1, TimersNat
  <2>3. TimerBelow(e) \in Timers /\ TimerBelow(e) \in Nat /\ TimerBelow(e) < e
    BY <2>2, TimerBelowIsTimer, TimersNat
  <2>4. next_timeout(close, n) = close - TimerBelow(e)
    BY <1>2, <2>1 DEF next_timeout
  <2>5. close - next_timeout(close, n) = TimerBelow(e)
    BY <2>3, <2>4
  <2> QED BY <2>1, <2>3, <2>4, <2>5
<1> QED BY <1>1, <1>2

(* Arming the event keeps the first two parts. *)
LEMMA ArmCountDown ==
  ASSUME NEW close \in Int, NEW n \in Int, Arm(close, n), announced' \in Nat
  PROVE  (OnTimer /\ DelayAhead)'
<1> DEFINE s == set_time(close, n)
<1>1. /\ timer_close' = close
      /\ trigger_time' = s.trigger /\ last_delay' = s.delay
  BY DEF Arm
<1>2. CASE close <= n
  BY <1>1, <1>2 DEF set_time, OnTimer, DelayAhead
<1>3. CASE ~(close <= n) /\ close - n <= back
  <2>1. s = [trigger |-> next_timeout(close, n), delay |-> close - n]
    BY <1>3 DEF set_time
  <2>2. trigger_time' = next_timeout(close, n) /\ last_delay' = close - n
    BY <1>1, <2>1
  <2> QED BY <1>1, <1>3, <2>2, NextTimeoutOnTimer DEF OnTimer, DelayAhead
<1>4. CASE ~(close <= n) /\ ~(close - n <= back)
  <2>1. s = [trigger |-> close - back, delay |-> 0]
    BY <1>4 DEF set_time
  <2>2. trigger_time' = close - back /\ last_delay' = 0 /\ back \in Timers /\ back \in Nat
    BY <1>1, <2>1, TimersNat
  <2>3. timer_close' - trigger_time' = back
    BY <1>1, <2>2
  <2> QED BY <2>2, <2>3 DEF OnTimer, DelayAhead
<1> QED BY <1>2, <1>3, <1>4

(* The warnings count down as long as the clocks are steady, if the smallest
   delay is at least a second: none is announced twice or late
   (WarningsCountDown). *)
THEOREM WarningsDecrease ==
  ASSUME Second <= first
  PROVE  Spec => []WarningsCountDown
<1>1. Init => CountDown /\ Skew
  BY WarningAssumption DEF Init, CountDown, OnTimer, DelayAhead, WarningsCountDown, Skew
<1>2. Inv /\ Skew /\ CountDown /\ [Next]_vars => CountDown'
  <2> SUFFICES ASSUME Inv, Skew, CountDown, [Next]_vars PROVE CountDown'
    OBVIOUS
  <2> USE WarningAssumption DEF Inv, TypeOK
  <2> USE DEF CountDown
  <2>1. CASE Elapse
    <3>1. UNCHANGED <<timer, announced>> /\ (steady' => steady)
      BY <2>1 DEF Elapse
    <3> QED BY <3>1 DEF timer, OnTimer, DelayAhead, WarningsCountDown
  <2>2. CASE Select
    <3>1. PICK d \in Step, j \in Jump :
            \/ Arm(timer_close + ((wall + d + j) - real), clock + d)
            \/ UNCHANGED timer
      BY <2>2 DEF Select
    <3>2. timer_close + ((wall + d + j) - real) \in Int /\ clock + d \in Int
      OBVIOUS
    <3>3. announced' = announced /\ announced \in Nat
      BY <2>2 DEF Select, DelayAhead
    <3>4. (OnTimer /\ DelayAhead)'
      <4>1. CASE Arm(timer_close + ((wall + d + j) - real), clock + d)
        BY <4>1, <3>2, <3>3, ArmCountDown
      <4>2. CASE UNCHANGED timer
        BY <4>2, <3>3 DEF timer, OnTimer, DelayAhead
      <4> QED BY <3>1, <4>1, <4>2
    <3>5. WarningsCountDown'
      <4> SUFFICES ASSUME timer_event', announced' # 0, steady'
                   PROVE  timer_close' - trigger_time' < announced'
        BY DEF WarningsCountDown
      <4>1. steady /\ UNCHANGED timer
        BY <2>2, SteadySelect
      <4> QED BY <3>3, <4>1 DEF timer, WarningsCountDown
    <3> QED BY <3>4, <3>5
  <2>3. CASE SelectInterrupted
    <3>1. UNCHANGED <<timer, announced>> /\ (steady' => steady)
      BY <2>3 DEF SelectInterrupted, Waits
    <3> QED BY <3>1 DEF timer, OnTimer, DelayAhead, WarningsCountDown
  <2>4. CASE SetTimeBase
    BY <2>4 DEF SetTimeBase, timer, OnTimer, DelayAhead, WarningsCountDown
  <2>5. CASE AclEndDate
    <3>1. announced' = 0
      BY <2>5 DEF AclEndDate
    <3>2. CASE \E e \in Date : end_date' = e /\ Arm(clock + (e - wall), clock)
      <4>1. PICK e \in Date : Arm(clock + (e - wall), clock)
        BY <3>2
      <4>2. clock + (e - wall) \in Int /\ clock \in Int
        OBVIOUS
      <4> QED BY <3>1, <4>1, <4>2, ArmCountDown DEF WarningsCountDown
    <3>3. CASE last_delay' = 0 /\ UNCHANGED <<timer_close, trigger_time>>
      BY <3>1, <3>3 DEF OnTimer, DelayAhead, WarningsCountDown
    <3> QED BY <2>5, <3>2, <3>3 DEF AclEndDate
  <2>6. CASE AclQuiet
    BY <2>6 DEF AclQuiet, timer, OnTimer, DelayAhead, WarningsCountDown
  <2>7. CASE EndReached
    BY <2>7 DEF EndReached, OnTimer, DelayAhead, WarningsCountDown
  <2>8. CASE Warn
    <3> DEFINE n == trigger_time + Second
    <3>1. /\ trigger_time < timer_close /\ timer_close' = timer_close
          /\ trigger_time' = next_timeout(timer_close, n)
          /\ Announce(timer_close - n) /\ steady' = steady /\ timer_event' = timer_event
      BY <2>8 DEF Warn
    <3>2. timer_close - trigger_time \in Timers
      BY <3>1 DEF OnTimer
    <3>3. first <= timer_close - trigger_time
      BY <3>2, FirstSmallest
    <3>4. n \in Int /\ n <= timer_close /\ trigger_time < n
      BY <3>3, TimersNat
    <3>5. /\ trigger_time' \in Int
          /\ trigger_time' < timer_close => timer_close - trigger_time' \in Timers
          /\ n < timer_close => timer_close - trigger_time' < timer_close - n
          /\ n <= trigger_time'
      BY <3>1, <3>4, NextTimeoutOnTimer
    <3> HIDE DEF n
    <3>6. OnTimer'
      BY <3>1, <3>5 DEF OnTimer
    <3>7. DelayAhead'
      BY <3>1, <3>4, <3>5 DEF DelayAhead, Announce
    <3>8. WarningsCountDown'
      BY <3>1, <3>4, <3>5 DEF DelayAhead, WarningsCountDown, Announce
    <3> QED BY <3>6, <3>7, <3>8
  <2>9. CASE NotDue
    BY <2>9 DEF NotDue, Announce, OnTimer, DelayAhead, WarningsCountDown
  <2>10. CASE Closed \/ UNCHANGED vars
    BY <2>10 DEF Closed, vars, timer, OnTimer, DelayAhead, WarningsCountDown
  <2> QED BY <2>1, <2>2, <2>3, <2>4, <2>5, <2>6, <2>7, <2>8, <2>9, <2>10 DEF Next
<1>3. Inv /\ Skew /\ CountDown /\ [Next]_vars => (Inv /\ Skew /\ CountDown)'
  BY <1>2, StepInv, StepSkew
<1>4. CountDown => WarningsCountDown
  BY DEF CountDown
<1> QED BY InitInv, <1>1, <1>3, <1>4, PTL DEF Spec
=============================================================================
