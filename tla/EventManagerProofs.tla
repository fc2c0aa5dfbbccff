------------------------- MODULE EventManagerProofs -------------------------
(***************************************************************************)
(* TLAPS proofs about EventManager, for every number of events, EventRefs, *)
(* owners and descriptors and every bound on time and exceptions.          *)
(***************************************************************************)
EXTENDS EventManager, SequenceTheorems, WellFoundedInduction, TLAPS

USE NullAssumption, TimeAssumption

\* The queue never holds an event twice: without it a deletion would leave
\* a dangling pointer in the queue.
QueueInjective ==
    \A j, k \in 1..Len(queue) : queue[j] = queue[k] => j = k

\* The events the pass has still to visit were neither created nor called
\* in this pass.
VisitOrder ==
    /\ pc = "scan" => \A k \in i..iend : queue[k] \notin touched
    /\ pc = "callback" => \A k \in (i + 1)..iend : queue[k] \notin touched

\* touched is empty outside of a pass.
TouchedOutside == pc \notin {"scan", "callback"} => touched = {}

\* The events of a destroyed owner that are still queued are garbage.
GoneIsGarbage == \A e \in Live : lifespan[e] \in gone => garbage[e]

\* What the collector has passed is not garbage.
CollectedPrefix ==
    pc = "collect" => \A k \in 1..Len(queue) : k < i => ~garbage[queue[k]]

IInv ==
    /\ TypeOK
    /\ QueueInjective
    /\ RefsMutual
    /\ PassInBounds
    /\ VisitOrder
    /\ TouchedOutside
    /\ GoneIsGarbage
    /\ CollectedPrefix

-----------------------------------------------------------------------------
(* Facts about the queue.                                                  *)

\* An event is live exactly if it is at some index of the queue.
LEMMA LiveIndex ==
    ASSUME queue \in Seq(Event)
    PROVE  /\ Live \subseteq Event
           /\ \A e : e \in Live <=> \E k \in 1..Len(queue) : queue[k] = e
BY DEF Live, Range

\* push_back of an event that is not in the queue.
LEMMA PushBack ==
    ASSUME TypeOK, QueueInjective, NEW e \in Event \ Live, queue' = Append(queue, e)
    PROVE  /\ queue' \in Seq(Event)
           /\ Len(queue') = Len(queue) + 1
           /\ queue'[Len(queue) + 1] = e
           /\ \A k \in 1..Len(queue) : queue'[k] = queue[k] /\ queue[k] # e
           /\ Live' = Live \cup {e}
           /\ QueueInjective'
<1>1. queue \in Seq(Event)
  BY DEF TypeOK
<1>2. /\ queue' \in Seq(Event)
      /\ Len(queue') = Len(queue) + 1
      /\ queue'[Len(queue) + 1] = e
      /\ \A k \in 1..Len(queue) : queue'[k] = queue[k]
  BY <1>1
<1>3. \A k \in 1..Len(queue) : queue[k] # e
  BY <1>1, LiveIndex
<1>4. Live' = Live \cup {e}
  BY <1>1, <1>2 DEF Live, Range
<1>5. QueueInjective'
  BY <1>1, <1>2, <1>3 DEF QueueInjective
<1> QED
  BY <1>2, <1>3, <1>4, <1>5

\* The collector's removal: the event at index i leaves the queue, the
\* others stay.
LEMMA SwapRemoves ==
    ASSUME TypeOK, QueueInjective, i <= Len(queue), SwapRemove
    PROVE  /\ queue' \in Seq(Event)
           /\ Len(queue') = Len(queue) - 1
           /\ \A k \in 1..Len(queue') : k < i => queue'[k] = queue[k]
           /\ \A k \in 1..Len(queue') : queue'[k] \in Live /\ queue'[k] # queue[i]
           /\ Live' = Live \ {queue[i]}
           /\ QueueInjective'
<1> DEFINE n == Len(queue)
<1>1. /\ queue \in Seq(Event) /\ n \in Nat /\ i \in 1..n
      /\ \A k \in 1..n : queue[k] \in Event
  BY DEF TypeOK
<1>2. queue' = [k \in 1..(n - 1) |-> IF k = i THEN queue[n] ELSE queue[k]]
  BY DEF SwapRemove
<1> HIDE DEF n
<1>3. /\ queue' \in Seq(Event)
      /\ Len(queue') = n - 1
      /\ DOMAIN queue' = 1..(n - 1)
      /\ \A k \in 1..(n - 1) : queue'[k] = IF k = i THEN queue[n] ELSE queue[k]
  BY <1>1, <1>2
<1>4. \A j, k \in 1..n : queue[j] = queue[k] => j = k
  BY DEF QueueInjective, n
<1>5. QueueInjective'
  BY <1>1, <1>3, <1>4 DEF QueueInjective
<1>6. Live = {queue[k] : k \in 1..n}
  BY <1>1 DEF Live, Range, n
<1>7. Live' = {queue'[k] : k \in 1..(n - 1)}
  BY <1>3 DEF Live, Range
<1>8. \A k \in 1..(n - 1) : queue'[k] \in Live /\ queue'[k] # queue[i]
  BY <1>1, <1>3, <1>4, <1>6
<1>9. \A k \in 1..n : k # i => queue[k] \in Live'
  <2> SUFFICES ASSUME NEW k \in 1..n, k # i PROVE queue[k] \in Live'
    OBVIOUS
  <2>1. CASE k = n
    <3>1. i \in 1..(n - 1) /\ queue'[i] = queue[n]
      BY <1>1, <1>3, <2>1
    <3> QED
      BY <3>1, <1>7, <2>1
  <2>2. CASE k # n
    <3>1. k \in 1..(n - 1) /\ queue'[k] = queue[k]
      BY <1>1, <1>3, <2>2
    <3> QED
      BY <3>1, <1>7
  <2> QED
    BY <2>1, <2>2
<1>10. Live' = Live \ {queue[i]}
  BY <1>6, <1>7, <1>8, <1>9
<1> QED
  BY <1>1, <1>3, <1>5, <1>8, <1>10 DEF n

-----------------------------------------------------------------------------
(* The inductive invariant.                                                *)

\* It holds of an empty queue.
LEMMA InitIInv == Init => IInv
<1> SUFFICES ASSUME Init PROVE IInv
  OBVIOUS
<1>1. Live = {}
  BY DEF Init, Live, Range
<1>2. TypeOK
  <2>1. garbage \in [Event -> BOOLEAN] /\ active_timer \in [Event -> BOOLEAN]
    BY Zenon DEF Init
  <2>2. /\ queue \in Seq(Event) /\ trigger_time \in [Event -> Nat]
        /\ grace_delay \in [Event -> Nat] /\ now \in Nat /\ i \in Nat \ {0}
        /\ iend \in Nat /\ throws \in 0..MaxThrows
    BY DEF Init
  <2> QED
    BY <2>1, <2>2 DEF Init, TypeOK, Phase
<1> QED
  BY <1>1, <1>2 DEF Init, IInv, QueueInjective, RefsMutual, PassInBounds,
                    VisitOrder, TouchedOutside, GoneIsGarbage, CollectedPrefix

\* An event is created, assigned to an EventRef or not.
LEMMA NewEventKeepsIInv ==
    ASSUME IInv, NEW e \in Event, NEW o \in Owner, NEW r \in Ref \cup {NoRef},
           NewEvent(e, o, r),
           active_timer' \in [Event -> BOOLEAN], trigger_time' \in [Event -> Nat],
           grace_delay' \in [Event -> Nat], fd' \in [Event -> Fd \cup {NoFd}]
    PROVE  IInv'
<1> USE DEF IInv
<1>1. /\ e \in Event \ Live /\ o \notin gone /\ queue' = Append(queue, e)
      /\ ClientRuns
      /\ UNCHANGED <<now, pass, gone, throws>>
      /\ lifespan' = [lifespan EXCEPT ![e] = o]
      /\ touched' = IF pc = "callback" THEN touched \cup {e} ELSE touched
  BY DEF NewEvent
<1>2. /\ queue' \in Seq(Event)
      /\ Len(queue') = Len(queue) + 1
      /\ queue'[Len(queue) + 1] = e
      /\ \A k \in 1..Len(queue) : queue'[k] = queue[k] /\ queue[k] # e
      /\ Live' = Live \cup {e}
      /\ QueueInjective'
  BY <1>1, PushBack
<1>3. TypeOK'
  <2>1. garbage' \in [Event -> BOOLEAN]
    BY Zenon DEF NewEvent, RefAssign
  <2>2. /\ event_ref' \in [Event -> Ref \cup {NoRef}]
        /\ event' \in [Ref -> Event \cup {NoEvent}]
    BY DEF TypeOK, NewEvent, RefAssign
  <2>3. /\ lifespan' \in [Event -> Owner \cup {NoOwner}]
        /\ touched' \subseteq Event
    BY <1>1 DEF TypeOK
  <2> QED
    BY <1>1, <1>2, <2>1, <2>2, <2>3 DEF TypeOK, pass
<1>4. RefsMutual'
  BY <1>1, <1>2 DEF TypeOK, RefsMutual, NewEvent, RefAssign
<1>5. PassInBounds' /\ VisitOrder'
  <2>1. /\ UNCHANGED <<pc, i, iend, running>>
        /\ i \in Nat \ {0} /\ iend \in Nat /\ Len(queue) \in Nat
    BY <1>1 DEF pass, TypeOK
  <2>2. pc = "scan" => iend <= Len(queue)
    BY DEF PassInBounds
  <2>3. pc = "callback" =>
           iend <= Len(queue) /\ i <= iend /\ running = queue[i]
    BY DEF PassInBounds
  <2>4. PassInBounds'
    <3>1. pc = "callback" => i \in 1..Len(queue)
      BY <2>1, <2>3
    <3>2. pc = "callback" => running = queue'[i]
      BY <1>2, <2>3, <3>1
    <3>3. pc \in {"scan", "callback"} => iend <= Len(queue')
      BY <1>2, <2>1, <2>2, <2>3
    <3> QED
      BY <2>1, <2>3, <3>2, <3>3 DEF PassInBounds
  <2>5. CASE pc = "scan"
    <3>1. ASSUME NEW k \in i..iend PROVE queue'[k] = queue[k]
      <4>1. k \in 1..Len(queue)
        BY <2>1, <2>2, <2>5
      <4> QED
        BY <4>1, <1>2
    <3>2. touched' = touched
      BY <1>1, <2>5
    <3> QED
      BY <2>1, <2>4, <2>5, <3>1, <3>2 DEF VisitOrder
  <2>6. CASE pc = "callback"
    <3>1. ASSUME NEW k \in (i + 1)..iend PROVE queue'[k] = queue[k] /\ queue[k] # e
      <4>1. k \in 1..Len(queue)
        BY <2>1, <2>3, <2>6
      <4> QED
        BY <4>1, <1>2
    <3>2. touched' = touched \cup {e}
      BY <1>1, <2>6
    <3> QED
      BY <2>1, <2>4, <2>6, <3>1, <3>2 DEF VisitOrder
  <2> QED
    BY <2>1, <2>4, <2>5, <2>6 DEF VisitOrder
<1>7. GoneIsGarbage'
  <2> SUFFICES ASSUME NEW x \in Live', lifespan'[x] \in gone' PROVE garbage'[x]
    BY DEF GoneIsGarbage
  <2>1. x # e
    BY <1>1, <1>2 DEF TypeOK
  <2>2. x \in Live /\ x \in Event /\ garbage[x]
    BY <1>1, <1>2, <2>1, LiveIndex DEF TypeOK, GoneIsGarbage
  <2> QED
    BY <2>1, <2>2 DEF NewEvent, RefAssign
<1>8. CollectedPrefix' /\ TouchedOutside'
  BY <1>1 DEF CollectedPrefix, TouchedOutside, ClientRuns, pass
<1> QED
  BY <1>2, <1>3, <1>4, <1>5, <1>7, <1>8

\* The five calls that only edit attributes and links.
LEMMA EditKeepsIInv ==
    ASSUME IInv,
           \/ \E e \in Event, t \in Time : SetTimeout(e, t)
           \/ MarkGarbage
           \/ \E r \in Ref : RefGarbage(r)
           \/ \E r, s \in Ref : RefMove(r, s)
           \/ \E o \in Owner : EndOfLifespan(o)
    PROVE  IInv'
<1> USE DEF IInv
<1>1. /\ UNCHANGED <<queue, lifespan, now, pass, touched, throws>>
      /\ pc # "collect"
      /\ garbage' \in [Event -> BOOLEAN]
      /\ \A e \in Event : garbage[e] => garbage'[e]
  <2>1. ASSUME NEW e \in Event, NEW t \in Time, SetTimeout(e, t) PROVE <1>1
    BY <2>1 DEF SetTimeout, ClientRuns, TypeOK
  <2>2. CASE MarkGarbage
    BY <2>2 DEF MarkGarbage, TypeOK
  <2>3. ASSUME NEW r \in Ref, RefGarbage(r) PROVE <1>1
    BY <2>3 DEF RefGarbage, ClientRuns, TypeOK
  <2>4. ASSUME NEW r \in Ref, NEW s \in Ref, RefMove(r, s) PROVE <1>1
    BY <2>4 DEF RefMove, ClientRuns, TypeOK
  <2>5. ASSUME NEW o \in Owner, EndOfLifespan(o) PROVE <1>1
    BY <2>5 DEF EndOfLifespan, ClientRuns, TypeOK
  <2> QED
    BY <2>1, <2>2, <2>3, <2>4, <2>5
<1>2. Live' = Live
  BY <1>1 DEF Live
<1>3. TypeOK'
  <2>1. ASSUME NEW e \in Event, NEW t \in Time, SetTimeout(e, t) PROVE TypeOK'
    BY <2>1 DEF SetTimeout, TypeOK, Time, links, pass
  <2>2. CASE MarkGarbage
    BY <1>1, <2>2 DEF MarkGarbage, TypeOK, links, pass
  <2>3. ASSUME NEW r \in Ref, RefGarbage(r) PROVE TypeOK'
    BY <1>1, <2>3 DEF RefGarbage, TypeOK, pass
  <2>4. ASSUME NEW r \in Ref, NEW s \in Ref, RefMove(r, s) PROVE TypeOK'
    BY <1>1, <2>4 DEF RefMove, TypeOK, pass
  <2>5. ASSUME NEW o \in Owner, EndOfLifespan(o) PROVE TypeOK'
    BY <1>1, <2>5 DEF EndOfLifespan, TypeOK, links, pass
  <2> QED
    BY <2>1, <2>2, <2>3, <2>4, <2>5
<1>4. RefsMutual'
  <2>1. ASSUME NEW e \in Event, NEW t \in Time, SetTimeout(e, t) PROVE RefsMutual'
    BY <1>2, <2>1 DEF SetTimeout, RefsMutual, links
  <2>2. CASE MarkGarbage
    BY <1>2, <2>2 DEF MarkGarbage, RefsMutual, links
  <2>3. ASSUME NEW r \in Ref, RefGarbage(r) PROVE RefsMutual'
    BY <1>2, <2>3 DEF RefGarbage, RefsMutual, TypeOK
  <2>4. ASSUME NEW r \in Ref, NEW s \in Ref, RefMove(r, s) PROVE RefsMutual'
    BY <1>2, <2>4 DEF RefMove, RefsMutual, TypeOK
  <2>5. ASSUME NEW o \in Owner, EndOfLifespan(o) PROVE RefsMutual'
    BY <1>2, <2>5 DEF EndOfLifespan, RefsMutual, links
  <2> QED
    BY <2>1, <2>2, <2>3, <2>4, <2>5
<1>5. GoneIsGarbage'
  <2>1. Live \subseteq Event
    BY LiveIndex DEF TypeOK
  <2>2. CASE UNCHANGED gone
    BY <1>1, <1>2, <2>1, <2>2 DEF GoneIsGarbage
  <2>3. ASSUME NEW o \in Owner, EndOfLifespan(o) PROVE GoneIsGarbage'
    BY <1>1, <1>2, <2>1, <2>3 DEF EndOfLifespan, GoneIsGarbage
  <2> QED
    BY <2>2, <2>3 DEF SetTimeout, MarkGarbage, RefGarbage, RefMove
<1>6. /\ PassInBounds' /\ VisitOrder' /\ TouchedOutside'
      /\ QueueInjective' /\ CollectedPrefix'
  BY <1>1 DEF PassInBounds, VisitOrder, TouchedOutside, QueueInjective,
              CollectedPrefix, pass
<1> QED
  BY <1>3, <1>4, <1>5, <1>6

\* The steps of select and of the pass over the queue.
LEMMA PassKeepsIInv ==
    ASSUME IInv,
           \/ \E t \in Time, R \in SUBSET Fd : Select(t, R)
           \/ \E R \in SUBSET Fd : BeginPass(R)
           \/ ExecAction
           \/ ExecTimeout
           \/ NextEvent
           \/ Throw
           \/ EndScan
           \/ EndCollect
    PROVE  IInv'
<1> USE DEF IInv
<1>1. UNCHANGED <<queue, garbage, lifespan, links, gone>>
  BY DEF Select, BeginPass, ExecAction, ExecTimeout, NextEvent, Throw, EndScan,
         EndCollect, attrs
<1>2. Live' = Live
  BY <1>1 DEF Live
<1>3. QueueInjective' /\ RefsMutual' /\ GoneIsGarbage'
  BY <1>1, <1>2 DEF QueueInjective, RefsMutual, GoneIsGarbage, links
<1>4. /\ Len(queue) \in Nat /\ i \in Nat \ {0} /\ iend \in Nat
      /\ \A k \in 1..Len(queue) : queue[k] \in Event
  BY DEF TypeOK
<1>5. ASSUME NEW t \in Time, NEW R \in SUBSET Fd, Select(t, R) PROVE IInv'
  <2> USE <1>3, <1>5 DEF Select
  <2>1. TypeOK'
    BY DEF TypeOK, Time, attrs, links, Phase
  <2> QED
    BY <2>1 DEF PassInBounds, VisitOrder, TouchedOutside, CollectedPrefix
<1>6. ASSUME NEW R \in SUBSET Fd, BeginPass(R), pc = "selected" PROVE IInv'
  <2> USE <1>3, <1>6 DEF BeginPass
  <2>1. TypeOK'
    BY DEF TypeOK, attrs, links, Phase
  <2>2. VisitOrder'
    BY DEF VisitOrder, TouchedOutside
  <2> QED
    BY <2>1, <2>2 DEF PassInBounds, TouchedOutside, CollectedPrefix
<1>7. CASE ExecAction \/ ExecTimeout
  <2>1. /\ pc = "scan" /\ pc' = "callback" /\ i <= iend
        /\ running' = queue[i] /\ touched' = touched \cup {queue[i]}
        /\ UNCHANGED <<queue, garbage, i, iend>>
    BY <1>7 DEF ExecAction, ExecTimeout, MoreEvents
  <2>2. iend <= Len(queue) /\ i \in 1..Len(queue)
    BY <1>4, <2>1 DEF PassInBounds
  <2>3. trigger_time' \in [Event -> Nat]
    <3>1. now \in Nat /\ now + grace_delay[queue[i]] \in Nat
      BY <1>4, <2>2 DEF TypeOK
    <3>2. CASE ExecAction
      BY <3>1, <3>2 DEF ExecAction, TypeOK
    <3>3. CASE ExecTimeout
      BY <3>1, <3>3 DEF ExecTimeout, TypeOK
    <3> QED
      BY <1>7, <3>2, <3>3
  <2>4. active_timer' \in [Event -> BOOLEAN]
    BY <1>4, <1>7, <2>2 DEF ExecAction, ExecTimeout, TypeOK
  <2>5. UNCHANGED <<grace_delay, fd, lifespan, links, now, has_garbage, ready, gone, throws>>
    BY <1>7 DEF ExecAction, ExecTimeout
  <2>6. TypeOK'
    BY <1>4, <2>1, <2>2, <2>3, <2>4, <2>5 DEF TypeOK, links, Phase
  <2>7. PassInBounds'
    BY <2>1, <2>2 DEF PassInBounds
  <2>8. VisitOrder'
    BY <1>4, <2>1, <2>2 DEF VisitOrder, QueueInjective
  <2> QED
    BY <1>3, <2>1, <2>6, <2>7, <2>8 DEF CollectedPrefix, TouchedOutside
<1>8. CASE NextEvent
  <2>1. /\ i <= iend /\ iend <= Len(queue) /\ i \in 1..Len(queue)
        /\ pc \in {"scan", "callback"}
    BY <1>4, <1>8 DEF NextEvent, MoreEvents, PassInBounds
  <2>2. has_garbage' \in BOOLEAN
    BY <1>8 DEF NextEvent
  <2>3. TypeOK'
    <3>1. i' \in Nat \ {0} /\ pc' \in Phase
      BY <1>4, <1>8 DEF NextEvent, Phase
    <3>2. /\ running' = NoEvent
          /\ UNCHANGED <<queue, attrs, links, now, iend, ready, gone, touched, throws>>
      BY <1>8 DEF NextEvent
    <3> QED
      BY <2>2, <3>1, <3>2 DEF TypeOK, attrs, links
  <2>4. PassInBounds'
    BY <1>8, <2>1 DEF NextEvent, PassInBounds
  <2>5. VisitOrder'
    BY <1>4, <1>8, <2>1 DEF NextEvent, VisitOrder
  <2> QED
    BY <1>3, <1>8, <2>3, <2>4, <2>5 DEF NextEvent, CollectedPrefix, TouchedOutside
<1>9. CASE Throw
  <2>1. throws' \in 0..MaxThrows /\ i' \in Nat \ {0} /\ iend' \in Nat
    BY <1>9 DEF Throw, LeavePass, TypeOK
  <2>2. has_garbage' \in BOOLEAN /\ pc' \in Phase
    BY <1>9 DEF Throw, LeavePass, Phase
  <2>3. TypeOK'
    BY <1>9, <2>1, <2>2 DEF Throw, LeavePass, TypeOK, attrs, links
  <2> QED
    BY <1>3, <1>9, <2>3 DEF Throw, LeavePass, PassInBounds, VisitOrder, TouchedOutside,
                         CollectedPrefix
<1>10. CASE EndScan
  <2>1. TypeOK'
    <3>1. has_garbage' \in BOOLEAN /\ pc' \in Phase
      BY <1>10 DEF EndScan, LeavePass, Phase
    <3> QED
      BY <1>10, <3>1 DEF EndScan, LeavePass, TypeOK, attrs, links
  <2>2. CollectedPrefix'
    BY <1>4, <1>10 DEF EndScan, LeavePass, CollectedPrefix
  <2> QED
    BY <1>3, <1>10, <2>1, <2>2 DEF EndScan, LeavePass, PassInBounds, VisitOrder,
                              TouchedOutside
<1>11. CASE EndCollect
  <2>1. TypeOK'
    BY <1>11 DEF EndCollect, TypeOK, attrs, links, Phase
  <2> QED
    BY <1>3, <1>11, <2>1 DEF EndCollect, PassInBounds, VisitOrder, TouchedOutside,
                         CollectedPrefix
<1> QED
  BY <1>5, <1>6, <1>7, <1>8, <1>9, <1>10, <1>11 DEF BeginPass

\* A turn of the collector.
LEMMA CollectKeepsIInv ==
    ASSUME IInv, Collect
    PROVE  IInv'
<1> USE DEF IInv
<1>1. /\ pc = "collect" /\ i \in 1..Len(queue) /\ queue[i] \in Event
      /\ queue[i] \in Live
      /\ UNCHANGED <<now, pc, iend, has_garbage, running, ready, gone, touched, throws>>
  BY LiveIndex DEF Collect, TypeOK
<1>2. PassInBounds' /\ VisitOrder' /\ TouchedOutside'
  BY <1>1 DEF PassInBounds, VisitOrder, TouchedOutside
<1>3. CASE ~garbage[queue[i]]
  <2>1. i' = i + 1 /\ UNCHANGED <<queue, attrs, links>>
    BY <1>3 DEF Collect
  <2>2. TypeOK'
    BY <1>1, <2>1 DEF TypeOK, attrs, links
  <2>3. Live' = Live
    BY <2>1 DEF Live
  <2>4. QueueInjective' /\ RefsMutual' /\ GoneIsGarbage'
    BY <1>1, <2>1, <2>3 DEF QueueInjective, RefsMutual, GoneIsGarbage, attrs, links
  <2>5. CollectedPrefix'
    BY <1>1, <1>3, <2>1 DEF CollectedPrefix, TypeOK, attrs
  <2> QED
    BY <1>2, <2>2, <2>4, <2>5
<1>4. CASE garbage[queue[i]]
  <2> DEFINE d == queue[i]
  <2>1. DeleteEvent(d) /\ SwapRemove /\ UNCHANGED i
    BY <1>4 DEF Collect, Delete
  <2>2. d \in Event /\ d \in Live
    BY <1>1
  <2>3. /\ queue' \in Seq(Event)
        /\ Len(queue') = Len(queue) - 1
        /\ \A k \in 1..Len(queue') : k < i => queue'[k] = queue[k]
        /\ \A k \in 1..Len(queue') : queue'[k] \in Live /\ queue'[k] # d
        /\ Live' = Live \ {d}
        /\ QueueInjective'
    BY <1>1, <2>1, SwapRemoves
  <2>4. Live \subseteq Event
    BY LiveIndex DEF TypeOK
  <2> HIDE DEF d
  <2>5. TypeOK'
    <3>1. /\ garbage' \in [Event -> BOOLEAN] /\ active_timer' \in [Event -> BOOLEAN]
          /\ trigger_time' \in [Event -> Nat] /\ grace_delay' \in [Event -> Nat]
          /\ fd' \in [Event -> Fd \cup {NoFd}]
          /\ lifespan' \in [Event -> Owner \cup {NoOwner}]
      BY <2>1, <2>2 DEF DeleteEvent, TypeOK
    <3>2. /\ event' \in [Ref -> Event \cup {NoEvent}]
          /\ event_ref' \in [Event -> Ref \cup {NoRef}]
      BY <2>1, <2>2 DEF DeleteEvent, EventDtor, TypeOK
    <3> QED
      BY <1>1, <2>1, <2>3, <3>1, <3>2 DEF TypeOK
  <2>6. RefsMutual'
    BY <2>1, <2>2, <2>3 DEF RefsMutual, DeleteEvent, EventDtor, TypeOK
  <2>7. GoneIsGarbage'
    <3> SUFFICES ASSUME NEW x \in Live', lifespan'[x] \in gone' PROVE garbage'[x]
      BY DEF GoneIsGarbage
    <3>1. x \in Live /\ x \in Event /\ x # d
      BY <2>3, <2>4
    <3>2. lifespan'[x] = lifespan[x] /\ garbage'[x] = garbage[x]
      BY <2>1, <2>2, <3>1 DEF DeleteEvent, TypeOK
    <3> QED
      BY <1>1, <3>1, <3>2 DEF GoneIsGarbage
  <2>8. CollectedPrefix'
    <3> SUFFICES ASSUME NEW k \in 1..Len(queue'), k < i PROVE ~garbage'[queue'[k]]
      BY <1>1, <2>1 DEF CollectedPrefix
    <3>1. k \in 1..Len(queue) /\ queue'[k] = queue[k] /\ queue[k] # d
      BY <1>1, <2>3
    <3>2. queue[k] \in Event /\ ~garbage[queue[k]]
      BY <1>1, <3>1 DEF CollectedPrefix, TypeOK
    <3> QED
      BY <2>1, <2>2, <3>1, <3>2 DEF DeleteEvent, TypeOK
  <2> QED
    BY <1>2, <2>3, <2>5, <2>6, <2>7, <2>8
<1> QED
  BY <1>3, <1>4

\* IInv is inductive: one lemma per group of actions.
LEMMA NextIInv == IInv /\ [Next]_vars => IInv'
<1> SUFFICES ASSUME IInv, [Next]_vars PROVE IInv'
  OBVIOUS
<1>1. ASSUME NEW e \in Event, NEW o \in Owner, NEW r \in Ref \cup {NoRef},
             NEW t \in Time, CreateEventTimeout(e, o, r, t)
      PROVE  IInv'
  <2>1. /\ active_timer' \in [Event -> BOOLEAN] /\ trigger_time' \in [Event -> Nat]
        /\ grace_delay' \in [Event -> Nat] /\ fd' \in [Event -> Fd \cup {NoFd}]
    BY <1>1 DEF IInv, TypeOK, CreateEventTimeout, Time
  <2> QED
    BY <1>1, <2>1, NewEventKeepsIInv DEF CreateEventTimeout
<1>2. ASSUME NEW e \in Event, NEW o \in Owner, NEW r \in Ref \cup {NoRef},
             NEW f \in Fd, CreateEventFdWithoutTimeout(e, o, r, f)
      PROVE  IInv'
  <2>1. /\ active_timer' \in [Event -> BOOLEAN] /\ trigger_time' \in [Event -> Nat]
        /\ grace_delay' \in [Event -> Nat] /\ fd' \in [Event -> Fd \cup {NoFd}]
    BY <1>2 DEF IInv, TypeOK, CreateEventFdWithoutTimeout
  <2> QED
    BY <1>2, <2>1, NewEventKeepsIInv DEF CreateEventFdWithoutTimeout
<1>3. ASSUME NEW e \in Event, NEW o \in Owner, NEW r \in Ref \cup {NoRef},
             NEW f \in Fd, NEW g \in Grace, NEW t \in Time,
             CreateEventFdTimeout(e, o, r, f, g, t)
      PROVE  IInv'
  <2>1. /\ active_timer' \in [Event -> BOOLEAN] /\ trigger_time' \in [Event -> Nat]
        /\ grace_delay' \in [Event -> Nat] /\ fd' \in [Event -> Fd \cup {NoFd}]
    BY <1>3 DEF IInv, TypeOK, CreateEventFdTimeout, Time
  <2> QED
    BY <1>3, <2>1, NewEventKeepsIInv DEF CreateEventFdTimeout
<1>4. CASE UNCHANGED vars
  BY <1>4 DEF vars, attrs, links, pass, IInv, TypeOK, QueueInjective, RefsMutual,
              PassInBounds, VisitOrder, TouchedOutside, GoneIsGarbage,
              CollectedPrefix, Live
<1> QED
  BY <1>1, <1>2, <1>3, <1>4, EditKeepsIInv, PassKeepsIInv, CollectKeepsIInv
     DEF Next, Client, Loop

\* The invariant of every behaviour of the event engine.
LEMMA Inductive == Spec => []IInv
<1> QED
  BY InitIInv, NextIInv, PTL DEF Spec

-----------------------------------------------------------------------------
(* The results.                                                            *)

\* Every variable keeps its type.
THEOREM TypeCorrect == Spec => []TypeOK
<1>1. IInv => TypeOK
  BY DEF IInv
<1> QED
  BY <1>1, Inductive, PTL

\* No EventRef and no back pointer of an event ever dangles.
THEOREM NoDanglingRef == Spec => []RefsMutual
<1>1. IInv => RefsMutual
  BY DEF IInv
<1> QED
  BY <1>1, Inductive, PTL

\* The assertion of execute_events holds, and the running event stays where
\* the loop found it.
THEOREM PassStaysInBounds == Spec => []PassInBounds
<1>1. IInv => PassInBounds
  BY DEF IInv
<1> QED
  BY <1>1, Inductive, PTL

\* What the start of a callback means.
LEMMA CallStart ==
    ASSUME IInv, [Next]_vars, CallStarts
    PROVE  /\ i \in i..iend /\ i \in 1..Len(queue)
           /\ running' = queue[i]
           /\ ~garbage[queue[i]]
<1>1. ExecAction \/ ExecTimeout
  <2>1. ~(UNCHANGED vars)
    BY DEF CallStarts, vars, pass
  <2>2. ~Client
    BY DEF CallStarts, Client, CreateEventTimeout, CreateEventFdWithoutTimeout,
           CreateEventFdTimeout, NewEvent, SetTimeout, MarkGarbage, RefGarbage,
           RefMove, EndOfLifespan, ClientRuns, pass
  <2> QED
    BY <2>1, <2>2 DEF CallStarts, Next, Loop, Select, BeginPass, NextEvent, Throw,
                      EndScan, Collect, EndCollect
<1>2. i <= iend /\ running' = queue[i] /\ ~garbage[queue[i]]
  BY <1>1 DEF ExecAction, ExecTimeout, MoreEvents, RunsAction, RunsTimeout
<1>3. iend <= Len(queue) /\ i \in Nat \ {0} /\ iend \in Nat /\ Len(queue) \in Nat
  BY DEF IInv, PassInBounds, TypeOK, CallStarts
<1> QED
  BY <1>2, <1>3

\* A pass calls no event twice and none that was created during the pass.
THEOREM CalledOncePerPass == Spec => OncePerPass
<1>1. IInv /\ [Next]_vars => [CallStarts => running' \notin touched]_vars
  BY CallStart DEF IInv, VisitOrder, CallStarts
<1> QED
  BY <1>1, Inductive, PTL DEF Spec, OncePerPass

\* No callback of a released event or of a destroyed owner ever starts.
THEOREM ReleasedNeverCalled == Spec => NoCallAfterRelease
<1>1. ASSUME IInv, [Next]_vars, CallStarts
      PROVE  /\ lifespan[running'] \notin gone
             /\ garbage[running'] = FALSE
             /\ running' \in Live
  <2>1. queue[i] \in Live /\ queue[i] \in Event
    BY <1>1, CallStart, LiveIndex DEF IInv, TypeOK
  <2>2. garbage[queue[i]] = FALSE
    BY <1>1, <2>1, CallStart DEF IInv, TypeOK
  <2> QED
    BY <1>1, <2>1, <2>2, CallStart DEF IInv, GoneIsGarbage
<1> QED
  BY <1>1, Inductive, PTL DEF Spec, NoCallAfterRelease

\* What one step does to the queue and to the garbage marks.
LEMMA StepOnQueue ==
    ASSUME IInv, [Next]_vars
    PROVE  \/ /\ Live \subseteq Live'
              /\ \A e \in Live : garbage[e] => garbage'[e]
           \/ /\ pc = "collect" /\ pc' = "collect"
              /\ \E d \in Live : garbage[d] /\ Live' = Live \ {d}
              /\ \A e \in Live' : garbage'[e] = garbage[e]
<1>0. Live \subseteq Event
  BY LiveIndex DEF IInv, TypeOK
<1>1. ASSUME NEW e \in Event, NEW o \in Owner, NEW r \in Ref \cup {NoRef},
             NewEvent(e, o, r)
      PROVE  Live \subseteq Live' /\ \A x \in Live : garbage[x] => garbage'[x]
  <2>1. Live' = Live \cup {e}
    BY <1>1, PushBack DEF NewEvent, IInv
  <2>2. \A x \in Live : x # e
    BY <1>1 DEF NewEvent
  <2> QED
    BY <1>0, <1>1, <2>1, <2>2 DEF NewEvent, RefAssign
<1>2. CASE UNCHANGED <<queue, garbage>>
  BY <1>2 DEF Live
<1>3. CASE \/ MarkGarbage
           \/ \E r \in Ref : RefGarbage(r)
           \/ \E r, s \in Ref : RefMove(r, s)
           \/ \E o \in Owner : EndOfLifespan(o)
  <2>1. UNCHANGED queue
    BY <1>3 DEF MarkGarbage, RefGarbage, RefMove, EndOfLifespan
  <2>2. \A e \in Event : garbage[e] => garbage'[e]
    BY <1>3 DEF MarkGarbage, RefGarbage, RefMove, EndOfLifespan, IInv, TypeOK
  <2> QED
    BY <1>0, <2>1, <2>2 DEF Live
<1>4. CASE Collect /\ garbage[queue[i]]
  <2>1. /\ pc = "collect" /\ pc' = "collect" /\ i <= Len(queue)
        /\ DeleteEvent(queue[i]) /\ SwapRemove
    BY <1>4 DEF Collect, Delete
  <2>2. Live' = Live \ {queue[i]}
    BY <2>1, SwapRemoves DEF IInv
  <2>3. queue[i] \in Live
    BY <2>1, LiveIndex DEF IInv, TypeOK
  <2>4. \A e \in Live' : garbage'[e] = garbage[e]
    BY <1>0, <2>1, <2>2, <2>3 DEF DeleteEvent, IInv, TypeOK
  <2> QED
    BY <1>4, <2>1, <2>2, <2>3, <2>4
<1>5. CASE Collect /\ ~garbage[queue[i]]
  BY <1>2, <1>5 DEF Collect, attrs
<1>6. ASSUME Loop, ~Collect PROVE UNCHANGED <<queue, garbage>>
  BY <1>6 DEF Loop, Select, BeginPass, ExecAction, ExecTimeout, NextEvent, Throw,
              EndScan, EndCollect, attrs
<1>7. ASSUME NEW e \in Event, NEW t \in Time, SetTimeout(e, t)
      PROVE  UNCHANGED <<queue, garbage>>
  BY <1>7 DEF SetTimeout
<1>8. CASE Client
  BY <1>1, <1>2, <1>3, <1>7, <1>8 DEF Client, CreateEventTimeout,
     CreateEventFdWithoutTimeout, CreateEventFdTimeout
<1>9. CASE UNCHANGED vars
  BY <1>2, <1>9 DEF vars, attrs
<1> QED
  BY <1>2, <1>4, <1>5, <1>6, <1>8, <1>9 DEF Next

\* No operation revives a released event.
THEOREM GarbageStaysGarbage == Spec => GarbageIsFinal
<1>1. ASSUME IInv, [Next]_vars, NEW e \in Live, garbage[e]
      PROVE  e \notin Live' \/ garbage'[e]
  BY <1>1, StepOnQueue
<1>2. IInv /\ [Next]_vars =>
        [\A e \in Live : garbage[e] => e \notin Live' \/ garbage'[e]]_vars
  BY <1>1
<1> QED
  BY <1>2, Inductive, PTL DEF Spec, GarbageIsFinal

\* The collector deletes the garbage, all of it and nothing else.
THEOREM CollectorIsExact == Spec => CollectsExactlyGarbage
<1>1. ASSUME IInv, [Next]_vars, NEW e \in Live, ~garbage[e]
      PROVE  e \in Live'
  BY <1>1, StepOnQueue
<1>2. ASSUME IInv, [Next]_vars, pc = "collect", pc' = "idle"
      PROVE  \A e \in Live' : ~garbage'[e]
  <2>1. EndCollect
    <3>1. ~(UNCHANGED vars)
      BY <1>2 DEF vars, pass
    <3>2. ~Client
      BY <1>2 DEF Client, CreateEventTimeout, CreateEventFdWithoutTimeout,
         CreateEventFdTimeout, NewEvent, SetTimeout, MarkGarbage, RefGarbage,
         RefMove, EndOfLifespan, ClientRuns, pass
    <3> QED
      BY <1>2, <3>1, <3>2 DEF Next, Loop, Select, BeginPass, ExecAction,
         ExecTimeout, NextEvent, Throw, EndScan, Collect, EndCollect
  <2>2. UNCHANGED <<queue, garbage>> /\ i > Len(queue)
    BY <2>1 DEF EndCollect, attrs
  <2>3. \A k \in 1..Len(queue) : ~garbage[queue[k]]
    BY <1>2, <2>2 DEF IInv, CollectedPrefix, TypeOK
  <2>4. Live' = Live
    BY <2>2 DEF Live
  <2> QED
    BY <1>2, <2>2, <2>3, <2>4, LiveIndex DEF IInv, TypeOK
<1>3. IInv /\ [Next]_vars =>
        [/\ \A e \in Live : ~garbage[e] => e \in Live'
         /\ pc = "collect" /\ pc' = "idle" => \A e \in Live' : ~garbage'[e]]_vars
  BY <1>1, <1>2
<1> QED
  BY <1>3, Inductive, PTL DEF Spec, CollectsExactlyGarbage

-----------------------------------------------------------------------------
(* No alarm is set for the instant 0, which next_timeout keeps for "none". *)
AfterZero == now \in Nat /\ now >= 1 /\ \A e \in Event : trigger_time[e] >= 1

LEMMA InitAfterZero == Init => AfterZero
BY DEF Init, AfterZero

LEMMA NextAfterZero == IInv /\ AfterZero /\ [Next]_vars => AfterZero'
<1> SUFFICES ASSUME IInv, AfterZero, [Next]_vars PROVE AfterZero'
  OBVIOUS
<1>1. TypeOK
  BY DEF IInv
<1>2. ASSUME NEW d \in Event, NEW t \in Nat, t >= 1, now' = now,
             trigger_time' = [trigger_time EXCEPT ![d] = t]
      PROVE  AfterZero'
  BY <1>1, <1>2 DEF AfterZero, TypeOK
<1>3. CASE UNCHANGED <<now, trigger_time>>
  BY <1>3 DEF AfterZero
<1>4. \A t \in Time : t \in Nat /\ t >= 1
  BY DEF Time
<1>5. CASE Client
  <2>1. ASSUME NEW e \in Event, NEW o \in Owner, NEW r \in Ref \cup {NoRef},
               \/ \E t \in Time : CreateEventTimeout(e, o, r, t)
               \/ \E f \in Fd : CreateEventFdWithoutTimeout(e, o, r, f)
               \/ \E f \in Fd, g \in Grace, t \in Time :
                     CreateEventFdTimeout(e, o, r, f, g, t)
        PROVE  AfterZero'
    BY <1>2, <1>4, <2>1 DEF CreateEventTimeout, CreateEventFdWithoutTimeout,
       CreateEventFdTimeout, NewEvent
  <2>2. ASSUME NEW e \in Event, NEW t \in Time, SetTimeout(e, t)
        PROVE  AfterZero'
    BY <1>2, <1>4, <2>2 DEF SetTimeout
  <2>3. CASE \/ MarkGarbage
             \/ \E r \in Ref : RefGarbage(r)
             \/ \E r, s \in Ref : RefMove(r, s)
             \/ \E o \in Owner : EndOfLifespan(o)
    BY <1>3, <2>3 DEF MarkGarbage, RefGarbage, RefMove, EndOfLifespan
  <2> QED BY <1>5, <2>1, <2>2, <2>3 DEF Client
<1>6. ASSUME NEW t \in Time, NEW R \in SUBSET Fd, Select(t, R)
      PROVE  AfterZero'
  BY <1>4, <1>6 DEF Select, AfterZero, attrs
<1>7. CASE ExecAction \/ ExecTimeout
  <2>1. i <= iend /\ i \in Nat \ {0} /\ iend <= Len(queue)
        /\ iend \in Nat /\ Len(queue) \in Nat
    BY <1>7 DEF IInv, PassInBounds, TypeOK, ExecAction, ExecTimeout, MoreEvents
  <2>2. queue[i] \in Event
    BY <1>1, <2>1 DEF TypeOK
  <2>3. grace_delay[queue[i]] \in Nat /\ now \in Nat /\ now >= 1
    BY <1>1, <2>2 DEF TypeOK, AfterZero
  <2>4. now + grace_delay[queue[i]] \in Nat /\ now + grace_delay[queue[i]] >= 1
    BY <2>3
  <2>5. CASE ExecAction
    BY <1>2, <2>2, <2>4, <2>5 DEF ExecAction
  <2>6. CASE ExecTimeout
    BY <1>2, <2>2, <2>3, <2>6 DEF ExecTimeout
  <2> QED BY <1>7, <2>5, <2>6
<1>8. CASE Collect
  <2>1. CASE ~garbage[queue[i]]
    BY <1>3, <1>8, <2>1 DEF Collect, attrs
  <2>2. CASE garbage[queue[i]]
    <3>1. DeleteEvent(queue[i]) /\ now' = now /\ i <= Len(queue) /\ pc = "collect"
      BY <1>8, <2>2 DEF Collect, Delete
    <3>2. queue[i] \in Event
      BY <1>1, <3>1 DEF TypeOK
    <3>3. trigger_time' = [trigger_time EXCEPT ![queue[i]] = 1] /\ 1 \in Nat /\ 1 >= 1
      BY <3>1 DEF DeleteEvent
    <3> QED BY <1>2, <3>1, <3>2, <3>3
  <2> QED BY <2>1, <2>2
<1>9. CASE \/ \E R \in SUBSET Fd : BeginPass(R)
           \/ NextEvent \/ Throw \/ EndScan \/ EndCollect
  BY <1>3, <1>9 DEF BeginPass, NextEvent, Throw, EndScan, EndCollect, attrs
<1>10. CASE UNCHANGED vars
  BY <1>3, <1>10 DEF vars, attrs
<1> QED BY <1>5, <1>6, <1>7, <1>8, <1>9, <1>10 DEF Next, Loop

\* next_timeout is 0 without an alarm, and else no later than any of them.
LEMMA NextTimeoutFirst ==
  ASSUME IInv, AfterZero, NEW e \in Live, active_timer[e], ~garbage[e]
  PROVE  next_timeout # 0 /\ next_timeout \in Nat /\ next_timeout <= trigger_time[e]
<1> DEFINE alarms == {trigger_time[x] : x \in {y \in Live : active_timer[y] /\ ~garbage[y]}}
<1>1. Live \subseteq Event
  BY LiveIndex DEF IInv, TypeOK
<1>2. /\ alarms \subseteq Nat /\ trigger_time[e] \in alarms
      /\ \A a \in alarms : a >= 1
  BY <1>1 DEF IInv, TypeOK, AfterZero
<1>3. next_timeout = Min(alarms)
  BY <1>2 DEF next_timeout
<1> HIDE DEF alarms
<1>4. PICK m \in alarms : \A a \in alarms : ~(<<a, m>> \in OpToRel(<, Nat))
  BY <1>2, WFMin, NatLessThanWellFounded
<1>5. \A a \in alarms : m <= a
  <2> SUFFICES ASSUME NEW a \in alarms PROVE m <= a
    OBVIOUS
  <2>1. m \in Nat /\ a \in Nat
    BY <1>2
  <2>2. ~(a < m)
    BY <1>4, <2>1 DEF OpToRel
  <2> QED BY <2>1, <2>2
<1>6. Min(alarms) \in alarms /\ \A a \in alarms : Min(alarms) <= a
  BY <1>5 DEF Min
<1> HIDE DEF next_timeout
<1>7. next_timeout \in alarms /\ next_timeout <= trigger_time[e]
  BY <1>2, <1>3, <1>6
<1>8. next_timeout \in Nat /\ next_timeout >= 1
  BY <1>2, <1>7
<1> QED BY <1>7, <1>8

\* select never sleeps past an alarm: the delay computed from next_timeout is
\* over before the first alarm that is not garbage, or one unit after now.
THEOREM NeverOversleeps == Spec => NoOversleep
<1>1. ASSUME IInv, AfterZero, [Next]_vars, now' # now,
             NEW e \in Live, active_timer[e], ~garbage[e]
      PROVE  trigger_time[e] <= now \/ trigger_time[e] >= now'
  <2>1. PICK t \in Time, R \in SUBSET Fd : Select(t, R)
    <3>1. ~(UNCHANGED vars)
      BY <1>1 DEF vars
    <3>2. ~Client
      BY <1>1 DEF Client, CreateEventTimeout, CreateEventFdWithoutTimeout,
         CreateEventFdTimeout, NewEvent, SetTimeout, MarkGarbage, RefGarbage,
         RefMove, EndOfLifespan
    <3> QED
      BY <1>1, <3>1, <3>2 DEF Next, Loop, BeginPass, ExecAction, ExecTimeout,
         NextEvent, Throw, EndScan, Collect, EndCollect
  <2>2. next_timeout # 0 /\ next_timeout \in Nat /\ next_timeout <= trigger_time[e]
    BY <1>1, NextTimeoutFirst
  <2>3. now' = t /\ (t <= now + 1 \/ t <= next_timeout)
    BY <2>1, <2>2 DEF Select
  <2>4. e \in Event
    BY <1>1, LiveIndex DEF IInv, TypeOK
  <2>5. trigger_time[e] \in Nat /\ now \in Nat /\ t \in Nat
    BY <1>1, <2>4 DEF IInv, TypeOK, AfterZero, Time
  <2> QED BY <2>2, <2>3, <2>5
<1>2. IInv /\ AfterZero /\ [Next]_vars =>
        [now' # now =>
           \A e \in Live : active_timer[e] /\ ~garbage[e] =>
              trigger_time[e] <= now \/ trigger_time[e] >= now']_vars
  BY <1>1
<1>3. IInv /\ AfterZero /\ [Next]_vars => AfterZero'
  BY NextAfterZero
<1> QED
  BY <1>2, <1>3, Inductive, InitAfterZero, PTL DEF Spec, NoOversleep
=============================================================================
