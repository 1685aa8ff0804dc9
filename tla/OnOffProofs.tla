---------------------------- MODULE OnOffProofs ----------------------------
(***************************************************************************)
(* Theorems about the on/off device, for any number of clients, any bound  *)
(* on durations, queues and restarts, and any set of plans.                *)
(***************************************************************************)
EXTENDS OnOff, SequenceTheorems, TLAPS

-----------------------------------------------------------------------------
(* The inductive invariant. *)

ClientLabels     == {"idle", "switch", "manual", "timeout", "store", "auto", "auto2"}
ManagerLabels    == {"idle", "read", "offload", "check", "switch", "store",
                     "expire", "recheck", "auto2"}
PollerLabels     == {"idle", "reply", "apply", "store"}
DispatcherLabels == {"idle", "apply", "store"}

\* Each thread stays in its own part of the program; nothing polls a device
\* that has no HTTP relay.
ThreadsKeepToTheirCode ==
  /\ \A c \in Clients : pc[c] \in ClientLabels
  /\ pc["manager"] \in ManagerLabels
  /\ pc["poller"] \in PollerLabels
  /\ pc["dispatcher"] \in DispatcherLabels
  /\ Kind = "mqtt" => pc["poller"] = "idle"

\* Between the Switch call, or the start of sensor_changed, and the store.
Storing(t) == pc[t] \in {"manual", "timeout", "store"}

InLockedSection(t) == \/ Storing(t)
                      \/ t = "manager" /\ pc[t] = "auto2"
                      \/ t = "dispatcher" /\ pc[t] = "apply"

LockHeld == \A t \in Threads : InLockedSection(t) => lock = t

\* The value OnOff::state has, or gets when the thread that is about to store
\* one does so, is v.
Believes(v) ==
  /\ \A t \in Threads : Storing(t) => arg[t] = v
  /\ pc["dispatcher"] = "apply" => sw.on = v
  /\ (pc["dispatcher"] # "apply" /\ \A t \in Threads : ~Storing(t)) => state = v

\* The last change announced says where the relay is; when all have been
\* dispatched, the program is right, or the relay has yet to obey.
NewsIsFresh ==
  ~lost => /\ events # <<>> => events[Len(events)].on = relay
           /\ events = <<>> => \/ cmds # <<>> /\ cmds[Len(cmds)] # relay
                               \/ Believes(relay)

ControlInv == TypeOK /\ ThreadsKeepToTheirCode /\ LockHeld
MqttInv == ControlInv /\ NewsIsFresh

\* SpecificActions ends the manual mode before it resets the duration, under the lock.
EndingInv == pc["manager"] = "auto2" => ~manual

-----------------------------------------------------------------------------
(* Queues. *)

\* What is put at the end of a queue is its last element.
LEMMA AppendLast ==
  ASSUME NEW S, NEW q \in Seq(S), NEW x \in S
  PROVE  /\ Append(q, x) \in Seq(S)
         /\ Append(q, x) # <<>>
         /\ Append(q, x)[Len(Append(q, x))] = x
  BY AppendProperties

\* Taking the head of a queue leaves its last element where it is, unless the
\* head was the last.
LEMMA TailLast ==
  ASSUME NEW S, NEW q \in Seq(S), q # <<>>
  PROVE  /\ Head(q) \in S
         /\ Tail(q) \in Seq(S)
         /\ Tail(q) = <<>> => Head(q) = q[Len(q)]
         /\ Tail(q) # <<>> => Tail(q)[Len(Tail(q))] = q[Len(q)]
<1>1. /\ Head(q) \in S /\ Tail(q) \in Seq(S)
      /\ Len(Tail(q)) = Len(q) - 1
      /\ \A i \in 1 .. Len(Tail(q)) : Tail(q)[i] = q[i + 1]
  BY HeadTailProperties
<1>2. Len(q) \in Nat /\ Len(q) > 0 /\ Head(q) = q[1]
  BY EmptySeq, LenProperties, HeadTailProperties
<1>3. Tail(q) = <<>> <=> Len(Tail(q)) = 0
  BY <1>1, EmptySeq
<1> QED
  BY <1>1, <1>2, <1>3

-----------------------------------------------------------------------------
(* The steps of the next-state relation, one action each. *)

LEMMA StepCases ==
  ASSUME Next
  PROVE  \/ \E c \in Clients : \/ CommandManual(c) \/ CommandAuto(c)
                               \/ SetManualMode(c) \/ SetManualTimeout(c)
                               \/ SetAutoMode(c) \/ ClearTimeout(c)
         \/ \E t \in Clients \cup {"manager"} :
               SwitchSent(t) \/ SwitchDropped(t) \/ SwitchFailed(t)
         \/ \E t \in Threads : Store(t)
         \/ Decide \/ ReadState \/ Offload \/ Check
         \/ Expire \/ Recheck \/ EndManual
         \/ PollRead \/ PollFailed \/ PollReply \/ PollApply
         \/ Dispatch \/ DispatchApply
         \/ Button \/ RelayObeys \/ LoseEvent
         \/ Tick \/ Replan \/ Restart \/ Crash
  BY Zenon DEF Next, Command, Worker, Manager, Poller, Dispatcher, Switch, Threads, System

-----------------------------------------------------------------------------
(* Types. *)

LEMMA GotoTypes ==
  ASSUME TypeOK, NEW t \in Threads, NEW label \in Labels, Goto(t, label)
  PROVE  pc' \in [Threads -> Labels]
<1>1. pc \in [Threads -> Labels]
  BY DEF TypeOK
<1> QED
  BY <1>1 DEF Goto

LEMMA DropTypes ==
  ASSUME TypeOK, NEW t \in Threads, NEW label \in Labels, Drop(t, label)
  PROVE  pc' \in [Threads -> Labels] /\ arg' \in [Threads -> BOOLEAN]
<1>1. arg \in [Threads -> BOOLEAN]
  BY DEF TypeOK
<1> QED
  BY <1>1, GotoTypes DEF Drop

LEMMA RelayTypes ==
  ASSUME TypeOK, NEW on \in BOOLEAN, NEW button \in BOOLEAN, SetRelay(on, button)
  PROVE  relay' \in BOOLEAN /\ events' \in Seq(Events)
<1>1. [on |-> on, button |-> button] \in Events
  BY DEF Events
<1>2. Append(events, [on |-> on, button |-> button]) \in Seq(Events)
  BY <1>1, AppendLast DEF TypeOK
<1> QED
  BY <1>2 DEF TypeOK, SetRelay

LEMMA DeliverTypes ==
  ASSUME TypeOK, NEW on \in BOOLEAN, Deliver(on)
  PROVE  /\ relay' \in BOOLEAN /\ events' \in Seq(Events)
         /\ cmds' \in Seq(BOOLEAN)
<1>1. CASE Kind = "http"
  BY <1>1, RelayTypes DEF TypeOK, Deliver
<1>2. CASE Kind # "http"
  <2>1. Append(cmds, on) \in Seq(BOOLEAN)
    BY AppendLast DEF TypeOK
  <2> QED
    BY <1>2, <2>1 DEF TypeOK, Deliver
<1> QED
  BY <1>1, <1>2

LEMMA BootTypes ==
  ASSUME TypeOK, NEW b \in [state : BOOLEAN, manual : BOOLEAN], Boot(b)
  PROVE  TypeOK'
<1>1. pc' \in [Threads -> Labels] /\ arg' \in [Threads -> BOOLEAN]
  BY DEF Boot, Labels
<1>2. dur' \in [Clients -> 0 .. MaxTimeout] /\ timeout' \in 0 .. MaxTimeout
      /\ age' \in 0 .. MaxTimeout /\ restarts' \in 0 .. MaxRestarts
  BY BoundsAssumption DEF Boot, TypeOK
<1>3. sw' \in [on : BOOLEAN, manual : BOOLEAN] /\ event' \in Events
  BY DEF Boot, Events, NoEvent, NoCopy
<1>4. events' \in Seq(Events) /\ cmds' \in Seq(BOOLEAN)
  BY EmptySeq DEF Boot, TypeOK
<1>5. /\ saved' \in [state : BOOLEAN, manual : BOOLEAN]
      /\ state' \in BOOLEAN /\ manual' \in BOOLEAN
      /\ relay' \in BOOLEAN /\ offline' \in BOOLEAN /\ lost' \in BOOLEAN
      /\ lock' \in Threads \cup {NoThread} /\ plan' \in Plans
  BY DEF Boot, TypeOK
<1> QED
  BY <1>1, <1>2, <1>3, <1>4, <1>5 DEF TypeOK

LEMMA InitTypes == Init => TypeOK
<1> SUFFICES ASSUME Init PROVE TypeOK
  OBVIOUS
<1>1. cmds \in Seq(BOOLEAN) /\ events \in Seq(Events)
  BY EmptySeq DEF Init
<1>2. timeout \in 0 .. MaxTimeout /\ age \in 0 .. MaxTimeout /\ restarts \in 0 .. MaxRestarts
      /\ dur \in [Clients -> 0 .. MaxTimeout]
  BY BoundsAssumption DEF Init
<1>3. pc \in [Threads -> Labels] /\ arg \in [Threads -> BOOLEAN]
  BY DEF Init, Labels
<1>4. event \in Events
  BY DEF Init, Events, NoEvent
<1> QED
  BY <1>1, <1>2, <1>3, <1>4 DEF Init, TypeOK, NoCopy

LEMMA StepTypes == TypeOK /\ [Next]_vars => TypeOK'
<1> SUFFICES ASSUME TypeOK, [Next]_vars PROVE TypeOK'
  OBVIOUS
<1> "manager" \in Threads /\ "poller" \in Threads /\ "dispatcher" \in Threads
  BY DEF Threads, System
<1> \A c \in Clients : c \in Threads
  BY DEF Threads
<1> USE DEF TypeOK, Labels, relayVars, deviceVars, threadVars, bootVars
<1>1. ASSUME NEW c \in Clients, CommandManual(c) PROVE TypeOK'
  <2>1. PICK order \in Orders[c] : /\ arg' = [arg EXCEPT ![c] = order.on]
                                  /\ dur' = [dur EXCEPT ![c] = order.for]
    BY <1>1 DEF CommandManual
  <2>2. order.on \in BOOLEAN /\ order.for \in 0..MaxTimeout
    BY OrdersAssumption
  <2> QED
    BY <1>1, <2>1, <2>2, GotoTypes DEF CommandManual
<1>2. ASSUME NEW c \in Clients, CommandAuto(c) PROVE TypeOK'
  BY <1>2, GotoTypes DEF CommandAuto
<1>3. ASSUME NEW c \in Clients, SetManualMode(c) PROVE TypeOK'
  BY <1>3, GotoTypes DEF SetManualMode
<1>4. ASSUME NEW c \in Clients, SetManualTimeout(c) PROVE TypeOK'
  BY <1>4, GotoTypes, BoundsAssumption DEF SetManualTimeout
<1>5. ASSUME NEW c \in Clients, SetAutoMode(c) PROVE TypeOK'
  <2>1. pc' \in [Threads -> Labels]
    BY <1>5, GotoTypes DEF SetAutoMode
  <2> QED
    BY <1>5, <2>1 DEF SetAutoMode
<1>6. ASSUME NEW c \in Clients, ClearTimeout(c) PROVE TypeOK'
  BY <1>6, GotoTypes, BoundsAssumption DEF ClearTimeout
<1>7. ASSUME NEW t \in Clients \cup {"manager"}, SwitchSent(t) PROVE TypeOK'
  BY <1>7, GotoTypes, DeliverTypes DEF SwitchSent, AfterSwitch
<1>8. ASSUME NEW t \in Clients \cup {"manager"}, SwitchDropped(t) PROVE TypeOK'
  BY <1>8, GotoTypes DEF SwitchDropped, AfterSwitch
<1>9. ASSUME NEW t \in Clients \cup {"manager"}, SwitchFailed(t) PROVE TypeOK'
  BY <1>9, DropTypes, DeliverTypes, BoundsAssumption DEF SwitchFailed, AfterFailure
<1>10. ASSUME NEW t \in Threads, Store(t) PROVE TypeOK'
  BY <1>10, DropTypes DEF Store
<1>11. CASE Decide
  <2>1. pc' \in [Threads -> Labels]
    BY <1>11, GotoTypes DEF Decide
  <2>2. arg' \in [Threads -> BOOLEAN]
    BY <1>11 DEF Decide
  <2> QED
    BY <1>11, <2>1, <2>2 DEF Decide
<1>12. CASE ReadState
  BY <1>12, GotoTypes DEF ReadState
<1>13. CASE Offload
  <2>1. pc' \in [Threads -> Labels]
    BY <1>13, GotoTypes DEF Offload
  <2>2. arg' \in [Threads -> BOOLEAN]
    BY <1>13 DEF Offload
  <2> QED
    BY <1>13, <2>1, <2>2 DEF Offload
<1>14. CASE Check
  BY <1>14, GotoTypes, DropTypes DEF Check
<1>15. CASE Expire
  BY <1>15, GotoTypes DEF Expire
<1>16. CASE Recheck
  <2>1. pc' \in [Threads -> Labels]
    BY <1>16, GotoTypes DEF Recheck
  <2>2. manual' \in BOOLEAN /\ lock' \in Threads \cup {NoThread}
    BY <1>16 DEF Recheck
  <2>3. UNCHANGED <<relayVars, sw, state, timeout, age, arg, event, dur, bootVars, offline, plan>>
    BY <1>16 DEF Recheck
  <2> QED
    BY <2>1, <2>2, <2>3
<1>17. CASE EndManual
  BY <1>17, GotoTypes, BoundsAssumption DEF EndManual
<1>18. CASE PollRead
  BY <1>18, GotoTypes DEF PollRead
<1>19. CASE PollFailed
  BY <1>19, DropTypes DEF PollFailed
<1>20. CASE PollReply
  BY <1>20, DropTypes DEF PollReply
<1>21. CASE PollApply
  BY <1>21, GotoTypes DEF PollApply, Apply
<1>22. CASE Dispatch
  <2>1. Head(events) \in Events /\ Tail(events) \in Seq(Events)
    BY <1>22, TailLast DEF Dispatch
  <2>2. sw' \in [on : BOOLEAN, manual : BOOLEAN]
    BY <1>22, <2>1 DEF Dispatch, Events
  <2>3. pc' \in [Threads -> Labels]
    BY <1>22, GotoTypes DEF Dispatch
  <2> QED
    BY <1>22, <2>1, <2>2, <2>3 DEF Dispatch
<1>23. CASE DispatchApply
  BY <1>23, GotoTypes DEF DispatchApply, Apply, Events, NoEvent
<1>24. CASE Button
  <2>1. (~relay) \in BOOLEAN /\ TRUE \in BOOLEAN
    OBVIOUS
  <2>2. relay' \in BOOLEAN /\ events' \in Seq(Events)
    BY <1>24, <2>1, RelayTypes DEF Button
  <2> QED
    BY <1>24, <2>2 DEF Button
<1>25. CASE RelayObeys
  <2>1. Head(cmds) \in BOOLEAN /\ Tail(cmds) \in Seq(BOOLEAN)
    BY <1>25, TailLast DEF RelayObeys
  <2>2. relay' \in BOOLEAN /\ events' \in Seq(Events)
    BY <1>25, <2>1, RelayTypes DEF RelayObeys
  <2> QED
    BY <1>25, <2>1, <2>2 DEF RelayObeys
<1>26. CASE LoseEvent
  BY <1>26, TailLast DEF LoseEvent
<1>27. CASE Tick
  BY <1>27, BoundsAssumption DEF Tick
<1>28. CASE Replan
  BY <1>28 DEF Replan
<1>29. CASE Restart
  BY <1>29, BootTypes DEF Restart, Backup
<1>30. CASE Crash
  BY <1>30, BootTypes DEF Crash
<1>31. CASE UNCHANGED vars
  BY <1>31 DEF vars
<1> HIDE DEF TypeOK, Labels, relayVars, deviceVars, threadVars, bootVars
<1> QED
  BY <1>1, <1>2, <1>3, <1>4, <1>5, <1>6, <1>7, <1>8, <1>9, <1>10, <1>11, <1>12, <1>13, <1>14,
     <1>15, <1>16, <1>17, <1>18, <1>19, <1>20, <1>21, <1>22, <1>23, <1>24, <1>25, <1>26, <1>27,
     <1>28, <1>29, <1>30, <1>31, StepCases

\* Every variable keeps its type, whatever the clients, the relay, the network
\* and the restarts do.
THEOREM TypeInvariant == Spec => []TypeOK
  BY InitTypes, StepTypes, PTL DEF Spec

-----------------------------------------------------------------------------
(* Control. *)

LEMMA NamedThreads ==
  /\ "manager" \in Threads /\ "poller" \in Threads /\ "dispatcher" \in Threads
  /\ \A c \in Clients : /\ c \in Threads
                        /\ c # "manager" /\ c # "poller" /\ c # "dispatcher"
  /\ NoThread \notin Threads
  BY ClientsAssumption DEF Threads, System

\* A thread that moves inside its own code, and takes or releases the lock only
\* when it is free or its own, leaves every thread where it should be.
LEMMA OneThreadMoves ==
  ASSUME ControlInv, NEW t \in Threads, NEW label, pc' = [pc EXCEPT ![t] = label],
         t \in Clients => label \in ClientLabels,
         t = "manager" => label \in ManagerLabels,
         t = "poller" => label \in PollerLabels /\ (Kind = "mqtt" => label = "idle"),
         t = "dispatcher" => label \in DispatcherLabels,
         lock \in {t, NoThread} \/ lock' = lock,
         InLockedSection(t)' => lock' = t
  PROVE  ThreadsKeepToTheirCode' /\ LockHeld'
<1>1. pc'[t] = label /\ \A u \in Threads : u # t => pc'[u] = pc[u]
  BY DEF ControlInv, TypeOK
<1>2. ThreadsKeepToTheirCode'
  BY <1>1, NamedThreads DEF ControlInv, ThreadsKeepToTheirCode
<1>3. ASSUME NEW u \in Threads, InLockedSection(u)', u # t PROVE lock' = u
  <2>1. InLockedSection(u) /\ u # NoThread
    BY <1>1, <1>3, NamedThreads DEF InLockedSection, Storing
  <2> QED
    BY <2>1, <1>3 DEF ControlInv, LockHeld
<1> QED
  BY <1>2, <1>3 DEF LockHeld

LEMMA NoThreadMoves ==
  ASSUME ControlInv, UNCHANGED <<pc, lock>>
  PROVE  ThreadsKeepToTheirCode' /\ LockHeld'
  BY DEF ControlInv, ThreadsKeepToTheirCode, LockHeld, InLockedSection, Storing

\* The threads are idle in a new process, and nobody holds its lock.
LEMMA BootControl ==
  ASSUME NEW b, Boot(b)
  PROVE  ThreadsKeepToTheirCode' /\ LockHeld'
<1>1. \A t \in Threads : pc'[t] = "idle"
  BY DEF Boot
<1> QED
  BY <1>1, NamedThreads DEF ThreadsKeepToTheirCode, LockHeld, InLockedSection, Storing,
     ClientLabels, ManagerLabels, PollerLabels, DispatcherLabels

LEMMA InitControl == Init => ControlInv
  BY NamedThreads, InitTypes DEF Init, ControlInv, ThreadsKeepToTheirCode, LockHeld, InLockedSection,
     Storing, ClientLabels, ManagerLabels, PollerLabels, DispatcherLabels

LEMMA StepControl == ControlInv /\ [Next]_vars => ControlInv'
<1> SUFFICES ASSUME ControlInv, [Next]_vars
             PROVE  ThreadsKeepToTheirCode' /\ LockHeld'
  BY StepTypes DEF ControlInv
<1> USE NamedThreads DEF Goto, Drop, InLockedSection, Storing, Free, Holds
<1>0. /\ pc["manager"] \in ManagerLabels /\ \A c \in Clients : pc[c] \in ClientLabels
      /\ pc["poller"] \in PollerLabels /\ (Kind = "mqtt" => pc["poller"] = "idle")
      /\ pc["dispatcher"] \in DispatcherLabels
      /\ pc \in [Threads -> Labels]
  BY DEF ControlInv, ThreadsKeepToTheirCode, TypeOK
<1>1. ASSUME NEW c \in Clients, CommandManual(c)
     PROVE  ThreadsKeepToTheirCode' /\ LockHeld'
  BY <1>0, <1>1, OneThreadMoves DEF CommandManual, ClientLabels
<1>2. ASSUME NEW c \in Clients, CommandAuto(c)
     PROVE  ThreadsKeepToTheirCode' /\ LockHeld'
  BY <1>0, <1>2, OneThreadMoves DEF CommandAuto, ClientLabels
<1>3. ASSUME NEW c \in Clients, SetManualMode(c)
     PROVE  ThreadsKeepToTheirCode' /\ LockHeld'
  BY <1>0, <1>3, OneThreadMoves DEF SetManualMode, ClientLabels
<1>4. ASSUME NEW c \in Clients, SetManualTimeout(c)
     PROVE  ThreadsKeepToTheirCode' /\ LockHeld'
  BY <1>0, <1>4, OneThreadMoves DEF SetManualTimeout, ClientLabels
<1>5. ASSUME NEW c \in Clients, SetAutoMode(c)
     PROVE  ThreadsKeepToTheirCode' /\ LockHeld'
  BY <1>0, <1>5, OneThreadMoves DEF SetAutoMode, ClientLabels
<1>6. ASSUME NEW c \in Clients, ClearTimeout(c)
     PROVE  ThreadsKeepToTheirCode' /\ LockHeld'
  BY <1>0, <1>6, OneThreadMoves DEF ClearTimeout, ClientLabels
<1>7. ASSUME NEW t \in Clients \cup {"manager"}, SwitchSent(t)
     PROVE  ThreadsKeepToTheirCode' /\ LockHeld'
  BY <1>0, <1>7, OneThreadMoves DEF SwitchSent, AfterSwitch, ClientLabels, ManagerLabels
<1>8. ASSUME NEW t \in Clients \cup {"manager"}, SwitchDropped(t)
     PROVE  ThreadsKeepToTheirCode' /\ LockHeld'
  BY <1>0, <1>8, OneThreadMoves DEF SwitchDropped, AfterSwitch, ClientLabels, ManagerLabels
<1>9. ASSUME NEW t \in Clients \cup {"manager"}, SwitchFailed(t)
     PROVE  ThreadsKeepToTheirCode' /\ LockHeld'
  BY <1>0, <1>9, OneThreadMoves DEF SwitchFailed, AfterFailure, ClientLabels, ManagerLabels
<1>10. ASSUME NEW t \in Threads, Store(t)
     PROVE  ThreadsKeepToTheirCode' /\ LockHeld'
  BY <1>0, <1>10, OneThreadMoves DEF Store, ClientLabels, ManagerLabels, PollerLabels, DispatcherLabels
<1>11. CASE Decide
  BY <1>0, <1>11, OneThreadMoves DEF Decide, ManagerLabels
<1>12. CASE ReadState
  BY <1>0, <1>12, OneThreadMoves DEF ReadState, ManagerLabels
<1>13. CASE Offload
  BY <1>0, <1>13, OneThreadMoves DEF Offload, ManagerLabels
<1>14. CASE Check
  BY <1>0, <1>14, OneThreadMoves DEF Check, ManagerLabels
<1>15. CASE Expire
  BY <1>0, <1>15, OneThreadMoves DEF Expire, ManagerLabels
<1>16. CASE Recheck
  BY <1>0, <1>16, OneThreadMoves DEF Recheck, ManagerLabels
<1>17. CASE EndManual
  BY <1>0, <1>17, OneThreadMoves DEF EndManual, ManagerLabels
<1>18. CASE PollRead
  BY <1>0, <1>18, OneThreadMoves DEF PollRead, PollerLabels
<1>19. CASE PollFailed
  BY <1>0, <1>19, OneThreadMoves DEF PollFailed, PollerLabels
<1>20. CASE PollReply
  BY <1>0, <1>20, OneThreadMoves DEF PollReply, PollerLabels
<1>21. CASE PollApply
  BY <1>0, <1>21, OneThreadMoves DEF PollApply, Apply, PollerLabels
<1>22. CASE Dispatch
  BY <1>0, <1>22, OneThreadMoves DEF Dispatch, DispatcherLabels
<1>23. CASE DispatchApply
  BY <1>0, <1>23, OneThreadMoves DEF DispatchApply, Apply, DispatcherLabels
<1>24. CASE Button \/ RelayObeys \/ LoseEvent \/ Tick \/ Replan \/ UNCHANGED vars
  BY <1>24, NoThreadMoves DEF Button, RelayObeys, LoseEvent, Tick, Replan, vars, threadVars
<1>25. CASE Restart \/ Crash
  BY <1>25, BootControl DEF Restart, Crash
<1> QED
  BY <1>1, <1>2, <1>3, <1>4, <1>5, <1>6, <1>7, <1>8, <1>9, <1>10, <1>11, <1>12, <1>13, <1>14,
     <1>15, <1>16, <1>17, <1>18, <1>19, <1>20, <1>21, <1>22, <1>23, <1>24, <1>25, StepCases

LEMMA ControlInvariant == Spec => []ControlInv
  BY InitControl, StepControl, PTL DEF Spec

\* The recursive mutex: two threads are never both inside the sections that
\* SetState, SetManualState, SpecificActions, SensorsForceUpdate and
\* DispatchMQTTMessage lock.
THEOREM MutualExclusion ==
  Spec => [](\A t, u \in Threads : InLockedSection(t) /\ InLockedSection(u) => t = u)
<1>1. ControlInv => \A t, u \in Threads : InLockedSection(t) /\ InLockedSection(u) => t = u
  BY DEF ControlInv, LockHeld
<1> QED
  BY <1>1, ControlInvariant, PTL

-----------------------------------------------------------------------------
(* The manual mode and its duration. *)

LEMMA EndingKept ==
  ASSUME ControlInv, EndingInv, NEW t \in Threads, NEW label,
         pc' = [pc EXCEPT ![t] = label], t = "manager" => label # "auto2",
         manual' => manual
  PROVE  EndingInv'
<1>1. pc'[t] = label /\ \A u \in Threads : u # t => pc'[u] = pc[u]
  BY DEF ControlInv, TypeOK
<1> QED
  BY <1>1, NamedThreads DEF EndingInv

\* The lock is needed to raise manual: the manager is not inside its own section.
LEMMA EndingApart ==
  ASSUME ControlInv, NEW t \in Threads, t # "manager", NEW label,
         pc' = [pc EXCEPT ![t] = label], lock \in {t, NoThread}
  PROVE  EndingInv'
<1>1. pc["manager"] # "auto2"
  BY NamedThreads DEF ControlInv, LockHeld, InLockedSection
<1>2. pc'["manager"] = pc["manager"]
  BY NamedThreads DEF ControlInv, TypeOK
<1> QED
  BY <1>1, <1>2 DEF EndingInv

LEMMA StepEnding == ControlInv /\ EndingInv /\ [Next]_vars => EndingInv'
<1> SUFFICES ASSUME ControlInv, EndingInv, [Next]_vars PROVE EndingInv'
  OBVIOUS
<1> USE NamedThreads DEF Goto, Drop, Free, Holds, deviceVars
<1>1. ASSUME NEW c \in Clients, CommandManual(c) PROVE EndingInv'
  BY <1>1, EndingKept DEF CommandManual
<1>2. ASSUME NEW c \in Clients, CommandAuto(c) PROVE EndingInv'
  BY <1>2, EndingKept DEF CommandAuto
<1>3. ASSUME NEW c \in Clients, SetManualMode(c) PROVE EndingInv'
  BY <1>3, EndingApart DEF SetManualMode
<1>4. ASSUME NEW c \in Clients, SetManualTimeout(c) PROVE EndingInv'
  BY <1>4, EndingKept DEF SetManualTimeout
<1>5. ASSUME NEW c \in Clients, SetAutoMode(c) PROVE EndingInv'
  BY <1>5, EndingKept DEF SetAutoMode
<1>6. ASSUME NEW c \in Clients, ClearTimeout(c) PROVE EndingInv'
  BY <1>6, EndingKept DEF ClearTimeout
<1>7. ASSUME NEW t \in Clients \cup {"manager"}, SwitchSent(t) PROVE EndingInv'
  BY <1>7, EndingKept DEF SwitchSent, AfterSwitch
<1>8. ASSUME NEW t \in Clients \cup {"manager"}, SwitchDropped(t) PROVE EndingInv'
  BY <1>8, EndingKept DEF SwitchDropped, AfterSwitch
<1>9. ASSUME NEW t \in Clients \cup {"manager"}, SwitchFailed(t) PROVE EndingInv'
  BY <1>9, EndingKept DEF SwitchFailed, AfterFailure
<1>10. ASSUME NEW t \in Threads, Store(t) PROVE EndingInv'
  BY <1>10, EndingKept DEF Store
<1>11. CASE Decide
  BY <1>11, EndingKept DEF Decide
<1>12. CASE ReadState
  BY <1>12, EndingKept DEF ReadState
<1>13. CASE Offload
  BY <1>13, EndingKept DEF Offload
<1>14. CASE Check
  BY <1>14, EndingKept DEF Check
<1>15. CASE Expire
  BY <1>15, EndingKept DEF Expire
<1>16. CASE Recheck
  <2>1. CASE manual' = FALSE
    BY <2>1 DEF EndingInv
  <2>2. CASE manual' = manual /\ Goto("manager", "idle")
    BY <2>2, EndingKept
  <2> QED
    BY <1>16, <2>1, <2>2 DEF Recheck
<1>17. CASE EndManual
  BY <1>17, EndingKept DEF EndManual
<1>18. CASE PollRead
  BY <1>18, EndingKept DEF PollRead
<1>19. CASE PollFailed
  BY <1>19, EndingKept DEF PollFailed
<1>20. CASE PollReply
  BY <1>20, EndingKept DEF PollReply
<1>21. CASE PollApply
  BY <1>21, EndingApart DEF PollApply, Apply
<1>22. CASE Dispatch
  BY <1>22, EndingKept DEF Dispatch
<1>23. CASE DispatchApply
  BY <1>23, EndingApart DEF DispatchApply, Apply
<1>24. CASE Button \/ RelayObeys \/ LoseEvent \/ Tick \/ Replan \/ UNCHANGED vars
  BY <1>24 DEF Button, RelayObeys, LoseEvent, Tick, Replan, vars, threadVars, EndingInv
<1>25. CASE Restart \/ Crash
  BY <1>25 DEF Restart, Crash, Boot, EndingInv
<1> QED
  BY <1>1, <1>2, <1>3, <1>4, <1>5, <1>6, <1>7, <1>8, <1>9, <1>10, <1>11, <1>12, <1>13, <1>14,
     <1>15, <1>16, <1>17, <1>18, <1>19, <1>20, <1>21, <1>22, <1>23, <1>24, <1>25, StepCases

\* What DurationIsKept says of a step.
KeepsDuration ==
  (manual /\ timeout > 0 /\ manual' /\ timeout' = 0) =>
     \/ \E c \in Clients : pc[c] = "timeout" /\ dur[c] = 0
     \/ \E c \in Clients : pc[c] = "auto2"
     \/ restarts' = restarts + 1

LEMMA StepDuration == ControlInv /\ EndingInv /\ [Next]_vars => KeepsDuration
<1> SUFFICES ASSUME ControlInv, EndingInv, [Next]_vars, timeout' # timeout PROVE KeepsDuration
  BY DEF KeepsDuration
<1> USE DEF deviceVars
<1>1. ASSUME NEW c \in Clients, SetManualTimeout(c) PROVE KeepsDuration
  BY <1>1 DEF SetManualTimeout, KeepsDuration
<1>2. ASSUME NEW c \in Clients, ClearTimeout(c) PROVE KeepsDuration
  BY <1>2 DEF ClearTimeout, KeepsDuration
<1>3. CASE EndManual
  BY <1>3 DEF EndManual, EndingInv, KeepsDuration
<1>4. CASE Restart \/ Crash
  BY <1>4 DEF Restart, Crash, Boot, KeepsDuration
<1>5. ~\E c \in Clients : \/ CommandManual(c) \/ CommandAuto(c) \/ SetManualMode(c)
                          \/ SetAutoMode(c)
  BY DEF CommandManual, CommandAuto, SetManualMode, SetAutoMode
<1>6. ~\E t \in Threads : SwitchSent(t) \/ SwitchDropped(t) \/ SwitchFailed(t) \/ Store(t)
  BY DEF SwitchSent, SwitchDropped, SwitchFailed, Store
<1>7. ~(Decide \/ ReadState \/ Offload \/ Check \/ Expire \/ Recheck)
  BY DEF Decide, ReadState, Offload, Check, Expire, Recheck
<1>8. ~(PollRead \/ PollFailed \/ PollReply \/ PollApply \/ Dispatch \/ DispatchApply)
  BY DEF PollRead, PollFailed, PollReply, PollApply, Dispatch, DispatchApply, Apply
<1>9. ~(Button \/ RelayObeys \/ LoseEvent \/ Tick \/ Replan \/ UNCHANGED vars)
  BY DEF Button, RelayObeys, LoseEvent, Tick, Replan, vars
<1> QED
  BY <1>1, <1>2, <1>3, <1>4, <1>5, <1>6, <1>7, <1>8, <1>9, StepCases, NamedThreads

\* A timed manual mode keeps its duration until it ends, for any number of clients: only
\* a command for good, a return to automatic mode that overlaps the command, or a
\* restart leaves a manual device without its end.  Neither the manager, which ends the
\* mode before it resets the duration, nor the relay and the network ever do.
THEOREM TimedManualKeepsItsEnd == Spec => DurationIsKept
<1>1. Init => EndingInv
  BY NamedThreads DEF Init, EndingInv
<1>2. ControlInv /\ EndingInv /\ [Next]_vars => EndingInv' /\ KeepsDuration
  BY StepEnding, StepDuration
<1> QED
  BY <1>1, <1>2, ControlInvariant, PTL DEF Spec, DurationIsKept, KeepsDuration

-----------------------------------------------------------------------------
(* The end of the automatic mode. *)

\* While an event is being handled, the sensor's manual flag is that event's.
FlagInv == pc["dispatcher"] = "apply" => sw.manual = event.button

\* What AutoEndsOnPurpose says of a step.
EndsOnPurpose ==
  (~manual /\ manual') => \/ \E c \in Clients : pc[c] = "manual"
                          \/ pc["dispatcher"] = "apply" /\ event.button
                          \/ saved.manual /\ restarts' = restarts + 1

\* The threads other than the dispatcher.
LEMMA FlagKept ==
  ASSUME ControlInv, FlagInv, NEW t \in Threads, t # "dispatcher", NEW label,
         pc' = [pc EXCEPT ![t] = label], sw'.manual = sw.manual, event' = event
  PROVE  FlagInv'
<1>1. pc'["dispatcher"] = pc["dispatcher"]
  BY NamedThreads DEF ControlInv, TypeOK
<1> QED
  BY <1>1 DEF FlagInv

LEMMA StepFlag ==
  ASSUME ControlInv, FlagInv, [Next]_vars
  PROVE  FlagInv' /\ (Kind = "mqtt" => EndsOnPurpose)
<1> USE NamedThreads DEF Goto, Drop, Free, Holds, deviceVars, threadVars
<1>0. pc \in [Threads -> Labels] /\ manual \in BOOLEAN /\ sw \in [on : BOOLEAN, manual : BOOLEAN]
  BY DEF ControlInv, TypeOK
<1>same. ASSUME ~ manual' \/ manual PROVE EndsOnPurpose
  BY <1>same DEF EndsOnPurpose
<1>1. ASSUME NEW c \in Clients,
             \/ CommandManual(c) \/ CommandAuto(c) \/ SetManualTimeout(c)
             \/ SetAutoMode(c) \/ ClearTimeout(c)
      PROVE  FlagInv' /\ EndsOnPurpose
  BY <1>0, <1>1, <1>same, FlagKept
  DEF CommandManual, CommandAuto, SetManualTimeout, SetAutoMode, ClearTimeout
<1>2. ASSUME NEW c \in Clients, SetManualMode(c) PROVE FlagInv' /\ EndsOnPurpose
  BY <1>0, <1>2, FlagKept DEF SetManualMode, EndsOnPurpose
<1>3. ASSUME NEW t \in Clients \cup {"manager"},
             SwitchSent(t) \/ SwitchDropped(t) \/ SwitchFailed(t)
      PROVE  FlagInv' /\ EndsOnPurpose
  BY <1>0, <1>3, <1>same, FlagKept DEF SwitchSent, SwitchDropped, SwitchFailed
<1>4. ASSUME NEW t \in Threads, Store(t) PROVE FlagInv' /\ EndsOnPurpose
  <2>1. CASE t # "dispatcher"
    BY <1>0, <1>4, <1>same, <2>1, FlagKept DEF Store
  <2>2. CASE t = "dispatcher"
    <3>1. pc'["dispatcher"] = "idle"
      BY <1>0, <1>4, <2>2 DEF Store
    <3> QED  BY <1>4, <1>same, <3>1 DEF Store, FlagInv
  <2> QED  BY <2>1, <2>2
<1>5. CASE Decide \/ ReadState \/ Offload \/ Check \/ Expire \/ Recheck \/ EndManual
  <2>1. ~ manual' \/ manual
    BY <1>5 DEF Decide, ReadState, Offload, Check, Expire, Recheck, EndManual
  <2>2. sw' = sw /\ event' = event /\ \E label : pc' = [pc EXCEPT !["manager"] = label]
    BY <1>5 DEF Decide, ReadState, Offload, Check, Expire, Recheck, EndManual
  <2> QED  BY <1>same, <2>1, <2>2, FlagKept
<1>6. CASE PollRead \/ PollFailed \/ PollReply
  <2>1. ~ manual' \/ manual
    BY <1>6 DEF PollRead, PollFailed, PollReply
  <2>2. event' = event /\ \E label : pc' = [pc EXCEPT !["poller"] = label]
    BY <1>6 DEF PollRead, PollFailed, PollReply
  <2>3. sw'.manual = sw.manual
    BY <1>0, <1>6 DEF PollRead, PollFailed, PollReply
  <2> QED  BY <1>same, <2>1, <2>2, <2>3, FlagKept
<1>7. CASE PollApply
  <2>1. Kind # "mqtt"
    BY <1>7 DEF PollApply, ControlInv, ThreadsKeepToTheirCode
  <2>2. FlagInv'
    BY <1>7, FlagKept DEF PollApply, Apply
  <2> QED  BY <2>1, <2>2
<1>8. CASE Dispatch
  <2>1. sw'.manual = event'.button /\ manual' = manual
    BY <1>8 DEF Dispatch
  <2> QED  BY <1>same, <2>1 DEF FlagInv
<1>9. CASE DispatchApply
  <2>1. pc["dispatcher"] = "apply" /\ manual' = (manual \/ sw.manual)
    BY <1>9 DEF DispatchApply, Apply
  <2>2. pc'["dispatcher"] = "store"
    BY <1>0, <1>9 DEF DispatchApply, Apply
  <2>3. EndsOnPurpose
    BY <1>0, <2>1 DEF FlagInv, EndsOnPurpose
  <2> QED  BY <2>2, <2>3 DEF FlagInv
<1>10. CASE Button \/ RelayObeys \/ LoseEvent \/ Tick \/ Replan \/ UNCHANGED vars
  <2>1. UNCHANGED <<pc, sw, event, manual>>
    BY <1>10 DEF Button, RelayObeys, LoseEvent, Tick, Replan, vars
  <2> QED  BY <1>same, <2>1 DEF FlagInv
<1>11. CASE Restart \/ Crash
  <2>1. PICK b \in {Backup, saved} : Boot(b) /\ (b = Backup \/ b = saved)
    BY <1>11 DEF Restart, Crash
  <2>2. manual' = b.manual /\ restarts' = restarts + 1 /\ pc'["dispatcher"] = "idle"
    BY <2>1 DEF Boot
  <2>3. EndsOnPurpose
    <3>1. CASE b = Backup
      <4>1. manual' = manual
        BY <2>2, <3>1 DEF Backup
      <4> QED  BY <1>same, <4>1
    <3>2. CASE b = saved
      BY <2>2, <3>2 DEF EndsOnPurpose
    <3> QED  BY <2>1, <3>1, <3>2
  <2> QED  BY <2>2, <2>3 DEF FlagInv
<1> QED
  BY <1>1, <1>2, <1>3, <1>4, <1>5, <1>6, <1>7, <1>8, <1>9, <1>10, <1>11, StepCases

\* For a relay that announces itself and is not polled, whatever number of clients
\* there is: no earlier event, and no event of a switch the program asked for, ends
\* the automatic mode.
THEOREM AutoModeEndsOnPurpose == Kind = "mqtt" => (Spec => AutoEndsOnPurpose)
<1> SUFFICES ASSUME Kind = "mqtt" PROVE Spec => AutoEndsOnPurpose
  OBVIOUS
<1>1. Init => FlagInv
  BY NamedThreads DEF Init, FlagInv
<1>2. ControlInv /\ FlagInv /\ [Next]_vars => FlagInv' /\ EndsOnPurpose
  BY StepFlag
<1>3. AutoEndsOnPurpose <=> [][EndsOnPurpose]_vars
  BY DEF AutoEndsOnPurpose, EndsOnPurpose
<1> QED
  BY <1>1, <1>2, <1>3, ControlInvariant, PTL DEF Spec

-----------------------------------------------------------------------------
(* What the program believes of the relay. *)

LEMMA BeliefKept ==
  ASSUME NEW v, Believes(v), UNCHANGED <<sw, state>>,
         \A t \in Threads : Storing(t)' <=> Storing(t),
         \A t \in Threads : Storing(t) => arg'[t] = arg[t],
         pc'["dispatcher"] = "apply" <=> pc["dispatcher"] = "apply"
  PROVE  Believes(v)'
  BY DEF Believes

\* A thread that neither stores a state nor is about to leaves the news alone.
LEMMA QuietMove ==
  ASSUME MqttInv, UNCHANGED <<relay, cmds, events, lost, sw, state>>,
         NEW t \in Threads, t # "dispatcher", NEW label,
         pc' = [pc EXCEPT ![t] = label],
         label \in {"manual", "timeout", "store"} <=> Storing(t),
         \A u \in Threads : Storing(u) => arg'[u] = arg[u]
  PROVE  NewsIsFresh'
<1>1. pc'[t] = label /\ \A u \in Threads : u # t => pc'[u] = pc[u]
  BY DEF MqttInv, ControlInv, TypeOK
<1>2. ASSUME Believes(relay) PROVE Believes(relay)'
  BY <1>1, <1>2, BeliefKept, NamedThreads DEF Storing
<1> QED
  BY <1>2 DEF MqttInv, NewsIsFresh

LEMMA NoMove ==
  ASSUME NewsIsFresh, UNCHANGED <<relay, cmds, events, lost, sw, state, pc, arg>>
  PROVE  NewsIsFresh'
  BY DEF NewsIsFresh, Believes, Storing

\* The thread that finds the lock free is the only one about to store.
LEMMA FreeMeansNoneStoring ==
  ASSUME ControlInv, lock = NoThread
  PROVE  /\ \A t \in Threads : ~Storing(t)
         /\ pc["dispatcher"] # "apply"
  BY NamedThreads DEF ControlInv, LockHeld, InLockedSection

\* A change the relay announces is the last in the queue; a command that asks
\* for what the relay already does announces nothing.
LEMMA AnnouncedChange ==
  ASSUME MqttInv, NEW on \in BOOLEAN, NEW button \in BOOLEAN, SetRelay(on, button),
         on # relay
  PROVE  events' # <<>> /\ events'[Len(events')].on = relay'
<1>1. [on |-> on, button |-> button] \in Events
  BY DEF Events
<1> QED
  BY <1>1, AppendLast DEF MqttInv, ControlInv, TypeOK, SetRelay

LEMMA NewsSwitchSent ==
  ASSUME Kind = "mqtt", MqttInv, NEW t \in Clients \cup {"manager"}, SwitchSent(t)
  PROVE  NewsIsFresh'
<1> t \in Threads /\ t # "dispatcher" /\ arg[t] \in BOOLEAN /\ cmds \in Seq(BOOLEAN)
  BY NamedThreads DEF MqttInv, ControlInv, TypeOK
<1>1. /\ cmds' = Append(cmds, arg[t]) /\ UNCHANGED <<relay, events, lost, sw, state, arg>>
      /\ pc' = [pc EXCEPT ![t] = AfterSwitch(t)]
  BY DEF SwitchSent, Deliver, Goto, deviceVars
<1>2. cmds' # <<>> /\ cmds'[Len(cmds')] = arg[t]
  BY <1>1, AppendLast
<1>3. /\ \A u \in Threads : ~Storing(u)
      /\ pc["dispatcher"] # "apply"
  BY FreeMeansNoneStoring DEF SwitchSent, Free, MqttInv
<1>4. pc'[t] \in {"manual", "store"} /\ \A u \in Threads : u # t => pc'[u] = pc[u]
  BY <1>1 DEF MqttInv, ControlInv, TypeOK, AfterSwitch
<1>5. arg[t] = relay => Believes(relay)'
  BY <1>1, <1>3, <1>4, NamedThreads DEF Believes, Storing
<1> QED
  BY <1>1, <1>2, <1>5 DEF MqttInv, NewsIsFresh

LEMMA NewsStore ==
  ASSUME MqttInv, NEW t \in Threads, Store(t)
  PROVE  NewsIsFresh'
<1>1. /\ pc[t] = "store" /\ lock = t /\ state' = arg[t]
      /\ UNCHANGED <<relay, cmds, events, lost, sw>>
      /\ pc'[t] \in {"idle", "expire"} /\ \A u \in Threads : u # t => pc'[u] = pc[u]
      /\ \A u \in Threads : u # t => arg'[u] = arg[u]
  BY DEF Store, Holds, Drop, Goto, relayVars, MqttInv, ControlInv, TypeOK
<1>2. \A u \in Threads : u # t => ~Storing(u) /\ (u = "dispatcher" => pc[u] # "apply")
  BY <1>1 DEF MqttInv, ControlInv, LockHeld, InLockedSection
<1>3. ASSUME Believes(relay) PROVE Believes(relay)'
  BY <1>1, <1>2, <1>3, NamedThreads DEF Believes, Storing
<1> QED
  BY <1>1, <1>3 DEF MqttInv, NewsIsFresh

LEMMA NewsDispatch ==
  ASSUME MqttInv, Dispatch
  PROVE  NewsIsFresh'
<1>1. events \in Seq(Events) /\ events # <<>>
  BY DEF Dispatch, MqttInv, ControlInv, TypeOK
<1>2. /\ Tail(events) = <<>> => Head(events) = events[Len(events)]
      /\ Tail(events) # <<>> => Tail(events)[Len(Tail(events))] = events[Len(events)]
  BY <1>1, TailLast
<1>3. /\ \A u \in Threads : ~Storing(u)
      /\ pc["dispatcher"] # "apply"
  BY FreeMeansNoneStoring DEF Dispatch, Free, MqttInv
<1>4. pc'["dispatcher"] = "apply" /\ \A u \in Threads : u # "dispatcher" => pc'[u] = pc[u]
  BY NamedThreads DEF Dispatch, Goto, MqttInv, ControlInv, TypeOK
<1>5. /\ sw'.on = Head(events).on /\ events' = Tail(events)
      /\ UNCHANGED <<relay, cmds, lost>>
  BY DEF Dispatch
<1>6. CASE events' = <<>> /\ ~lost
  <2>1. sw'.on = relay'
    BY <1>1, <1>2, <1>5, <1>6 DEF MqttInv, NewsIsFresh
  <2>2. Believes(relay)'
    BY <2>1, <1>3, <1>4, NamedThreads DEF Believes, Storing
  <2> QED
    BY <1>6, <2>2 DEF NewsIsFresh
<1>7. CASE events' # <<>> \/ lost
  BY <1>1, <1>2, <1>5, <1>7 DEF MqttInv, NewsIsFresh
<1> QED
  BY <1>6, <1>7

LEMMA NewsDispatchApply ==
  ASSUME MqttInv, DispatchApply
  PROVE  NewsIsFresh'
<1>1. /\ pc["dispatcher"] = "apply" /\ lock = "dispatcher"
      /\ UNCHANGED <<relay, cmds, events, lost, sw, state>>
      /\ pc'["dispatcher"] = "store" /\ arg'["dispatcher"] = sw.on
      /\ \A u \in Threads : u # "dispatcher" => pc'[u] = pc[u] /\ arg'[u] = arg[u]
  BY NamedThreads DEF DispatchApply, Apply, Holds, Goto, relayVars, MqttInv, ControlInv, TypeOK
<1>2. \A u \in Threads : ~Storing(u)
  BY <1>1 DEF MqttInv, ControlInv, LockHeld, InLockedSection, Storing
<1>3. ASSUME Believes(relay) PROVE Believes(relay)'
  BY <1>1, <1>2, <1>3, NamedThreads DEF Believes, Storing
<1> QED
  BY <1>1, <1>3 DEF MqttInv, NewsIsFresh

LEMMA NewsRelayObeys ==
  ASSUME MqttInv, RelayObeys
  PROVE  NewsIsFresh'
<1> cmds \in Seq(BOOLEAN) /\ cmds # <<>>
  BY DEF RelayObeys, MqttInv, ControlInv, TypeOK
<1>1. /\ Head(cmds) \in BOOLEAN
      /\ Tail(cmds) = <<>> => Head(cmds) = cmds[Len(cmds)]
      /\ Tail(cmds) # <<>> => Tail(cmds)[Len(Tail(cmds))] = cmds[Len(cmds)]
  BY TailLast
<1>2. CASE Head(cmds) # relay
  BY <1>1, <1>2, AnnouncedChange DEF RelayObeys, NewsIsFresh
<1>3. CASE Head(cmds) = relay
  <2>1. UNCHANGED <<relay, events, lost, sw, state, pc, arg>> /\ cmds' = Tail(cmds)
    BY <1>3 DEF RelayObeys, SetRelay, deviceVars, threadVars
  <2>2. Believes(relay) => Believes(relay)'
    BY <2>1 DEF Believes, Storing
  <2> QED
    BY <1>1, <1>3, <2>1, <2>2 DEF MqttInv, NewsIsFresh
<1> QED
  BY <1>2, <1>3

LEMMA StepNews ==
  ASSUME Kind = "mqtt", MqttInv, [Next]_vars
  PROVE  NewsIsFresh'
<1> USE NamedThreads DEF Goto, Drop, Storing, relayVars, deviceVars
<1>0. /\ pc \in [Threads -> Labels] /\ arg \in [Threads -> BOOLEAN] /\ relay \in BOOLEAN
      /\ pc["poller"] = "idle"
  BY DEF MqttInv, ControlInv, TypeOK, ThreadsKeepToTheirCode
<1>1. ASSUME NEW c \in Clients, CommandManual(c) PROVE NewsIsFresh'
  BY <1>0, <1>1, QuietMove DEF CommandManual
<1>2. ASSUME NEW c \in Clients, CommandAuto(c) PROVE NewsIsFresh'
  BY <1>0, <1>2, QuietMove DEF CommandAuto
<1>3. ASSUME NEW c \in Clients, SetManualMode(c) PROVE NewsIsFresh'
  BY <1>0, <1>3, QuietMove DEF SetManualMode
<1>4. ASSUME NEW c \in Clients, SetManualTimeout(c) PROVE NewsIsFresh'
  BY <1>0, <1>4, QuietMove DEF SetManualTimeout
<1>5. ASSUME NEW c \in Clients, SetAutoMode(c) PROVE NewsIsFresh'
  BY <1>0, <1>5, QuietMove DEF SetAutoMode
<1>6. ASSUME NEW c \in Clients, ClearTimeout(c) PROVE NewsIsFresh'
  BY <1>0, <1>6, QuietMove DEF ClearTimeout
<1>7. ASSUME NEW t \in Clients \cup {"manager"}, SwitchSent(t) PROVE NewsIsFresh'
  BY <1>0, <1>7, NewsSwitchSent
<1>8. ASSUME NEW t \in Clients \cup {"manager"}, SwitchDropped(t) PROVE NewsIsFresh'
  BY <1>0, <1>8 DEF SwitchDropped, NewsIsFresh
<1>9. ASSUME NEW t \in Clients \cup {"manager"}, SwitchFailed(t) PROVE NewsIsFresh'
  BY <1>0, <1>9 DEF SwitchFailed
<1>10. ASSUME NEW t \in Threads, Store(t) PROVE NewsIsFresh'
  BY <1>0, <1>10, NewsStore
<1>11. CASE Decide
  BY <1>0, <1>11, QuietMove DEF Decide
<1>12. CASE ReadState
  BY <1>0, <1>12, QuietMove DEF ReadState
<1>13. CASE Offload
  BY <1>0, <1>13, QuietMove DEF Offload
<1>14. CASE Check
  BY <1>0, <1>14, QuietMove DEF Check
<1>15. CASE Expire
  BY <1>0, <1>15, QuietMove DEF Expire
<1>16. CASE Recheck
  BY <1>0, <1>16, QuietMove DEF Recheck
<1>17. CASE EndManual
  BY <1>0, <1>17, QuietMove DEF EndManual
<1>18. CASE PollRead
  BY <1>0, <1>18 DEF PollRead
<1>19. CASE PollFailed
  BY <1>0, <1>19 DEF PollFailed
<1>20. CASE PollReply
  BY <1>0, <1>20 DEF PollReply
<1>21. CASE PollApply
  BY <1>0, <1>21 DEF PollApply
<1>22. CASE Dispatch
  BY <1>0, <1>22, NewsDispatch
<1>23. CASE DispatchApply
  BY <1>0, <1>23, NewsDispatchApply
<1>24. CASE Button
  BY <1>0, <1>24, AnnouncedChange DEF Button, NewsIsFresh
<1>25. CASE RelayObeys
  BY <1>0, <1>25, NewsRelayObeys
<1>26. CASE LoseEvent
  BY <1>0, <1>26 DEF LoseEvent, NewsIsFresh
<1>27. CASE Tick \/ Replan \/ UNCHANGED vars
  BY <1>27, NoMove DEF MqttInv, Tick, Replan, vars, threadVars
<1>28. CASE Restart \/ Crash
  BY <1>28 DEF Restart, Crash, Boot, NewsIsFresh
<1> QED
  BY <1>1, <1>2, <1>3, <1>4, <1>5, <1>6, <1>7, <1>8, <1>9, <1>10, <1>11, <1>12, <1>13, <1>14,
     <1>15, <1>16, <1>17, <1>18, <1>19, <1>20, <1>21, <1>22, <1>23, <1>24, <1>25, <1>26, <1>27,
     <1>28, StepCases

\* The program never gets the relay wrong for good while no message is lost: for
\* a relay that is commanded over MQTT and announces its changes, OnOff::state is
\* the output of the relay whenever everything has been delivered and every
\* thread has finished, however commands, the schedule and the button were
\* interleaved before.
THEOREM StateMatchesMqttRelay ==
  ASSUME Kind = "mqtt"
  PROVE  Spec => []SettledStateMatchesRelay
<1>1. Init => NewsIsFresh
  BY NamedThreads DEF Init, NewsIsFresh, Believes, Storing
<1>2. ControlInv /\ NewsIsFresh /\ [Next]_vars => NewsIsFresh'
  BY StepNews DEF MqttInv
<1>3. NewsIsFresh => SettledStateMatchesRelay
  BY NamedThreads DEF NewsIsFresh, SettledStateMatchesRelay, Settled, AtRest, Believes, Storing
<1> QED
  BY <1>1, <1>2, <1>3, ControlInvariant, PTL DEF Spec

-----------------------------------------------------------------------------
(* What the device promises: every step is one of SwitchedDevice, or none. *)

\* Where the other threads, or the device's users, see a thread.
Seen == {"manual", "timeout", "store", "auto2", "reply", "apply"}

LEMMA OneMoves ==
  ASSUME ControlInv, NEW t \in Threads, NEW label, pc' = [pc EXCEPT ![t] = label]
  PROVE  pc'[t] = label /\ \A u \in Threads : u # t => pc'[u] = pc[u]
  BY DEF ControlInv, TypeOK

\* Who may be where.
LEMMA WhoHolds ==
  ASSUME ControlInv
  PROVE  /\ Holding({"manual", "timeout"}) => lock \in Clients
         /\ \A t \in Threads : pc[t] = "auto2" => t \in Clients \/ (t = "manager" /\ lock = t)
         /\ "poller" \in Threads /\ "dispatcher" \in Threads
         /\ lock = NoThread => \A L : ~ Holding(L)
<1>1. /\ \A c \in Clients : pc[c] \in ClientLabels
      /\ pc["manager"] \in ManagerLabels /\ pc["poller"] \in PollerLabels
      /\ pc["dispatcher"] \in DispatcherLabels
      /\ \A t \in Threads : t \in Clients \/ t = "manager" \/ t = "poller" \/ t = "dispatcher"
  BY DEF ControlInv, ThreadsKeepToTheirCode, Threads, System
<1>2. Holding({"manual", "timeout"}) => lock \in Clients
  BY <1>1 DEF Holding, ManagerLabels, PollerLabels, DispatcherLabels
<1>3. ASSUME NEW t \in Threads, pc[t] = "auto2" PROVE t \in Clients \/ (t = "manager" /\ lock = t)
  <2>1. t \in Clients \/ t = "manager"
    BY <1>1, <1>3 DEF PollerLabels, DispatcherLabels
  <2>2. t = "manager" => lock = t
    BY <1>3 DEF ControlInv, LockHeld, InLockedSection
  <2> QED  BY <2>1, <2>2
<1>4. lock = NoThread => \A L : ~ Holding(L)
  BY NamedThreads DEF Holding
<1> QED  BY <1>2, <1>3, <1>4, NamedThreads

\* The sensor and its news do not change.
LEMMA NewsKept ==
  ASSUME pc'["poller"] = pc["poller"], pc'["dispatcher"] = pc["dispatcher"],
         arg'["poller"] = arg["poller"]
  PROVE  answerOf' = answerOf /\ toldOf' = toldOf
  BY DEF answerOf, toldOf

LEMMA ReturningKept ==
  ASSUME ControlInv, NEW t \in Threads, NEW label, pc' = [pc EXCEPT ![t] = label],
         label = "auto2" <=> pc[t] = "auto2"
  PROVE  Returning' <=> Returning
<1>1. \A u \in Threads : pc'[u] = "auto2" <=> pc[u] = "auto2"
  BY OneMoves
<1> QED  BY <1>1 DEF Returning

\* A thread that moves where nobody sees it.
LEMMA Unseen ==
  ASSUME ControlInv, NEW t \in Threads, NEW label, pc' = [pc EXCEPT ![t] = label],
         label \notin Seen, pc[t] \notin Seen,
         UNCHANGED <<relay, cmds, events, state, manual, timeout, age, sw, saved, lock>>,
         \A u \in Threads \ {t} : arg'[u] = arg[u],
         \A c \in Clients \ {t} : dur'[c] = dur[c]
  PROVE  UNCHANGED Device!vars
<1>1. pc'[t] = label /\ \A u \in Threads : u # t => pc'[u] = pc[u]
  BY OneMoves
<1>2. answerOf' = answerOf /\ toldOf' = toldOf
  BY <1>1, WhoHolds DEF answerOf, toldOf, Seen
<1>3. Returning' <=> Returning
  BY ReturningKept DEF Seen
<1>4. \A L \in SUBSET Seen : Holding(L)' <=> Holding(L)
  BY <1>1 DEF Holding, Seen
<1>5. /\ {"manual", "timeout", "store"} \in SUBSET Seen /\ {"manual", "timeout"} \in SUBSET Seen
      /\ {"manual"} \in SUBSET Seen
  BY DEF Seen
<1>6. Holding({"manual", "timeout", "store"}) => lock \in Threads \ {t} /\ arg'[lock'] = arg[lock]
  BY DEF Holding, Seen
<1>7. Holding({"manual", "timeout"}) => dur'[lock'] = dur[lock]
  <2>1. Holding({"manual", "timeout"}) => lock # t
    BY DEF Holding, Seen
  <2> QED  BY <2>1, WhoHolds
<1>8. stateOf' = stateOf
  BY <1>4, <1>5, <1>6 DEF stateOf
<1>9. manualOf' = manualOf
  BY <1>4, <1>5 DEF manualOf
<1>10. timeoutOf' = timeoutOf /\ ageOf' = ageOf
  BY <1>3, <1>4, <1>5, <1>7 DEF timeoutOf, ageOf
<1> QED
  BY <1>2, <1>8, <1>9, <1>10 DEF Device!vars, Device!wire, Device!mode, Device!news

\* The thread that has sent an order, or let it be lost, will do the rest.
LEMMA SendsAtOnce ==
  ASSUME ControlInv, NEW t \in Clients \cup {"manager"}, pc[t] = "switch",
         pc' = [pc EXCEPT ![t] = AfterSwitch(t)], lock = NoThread, lock' = t,
         UNCHANGED <<sw, state, manual, timeout, age, arg, dur, saved>>, Device!Send(arg[t])
  PROVE  Device!Next
<1>1. t \in Threads /\ t # "poller" /\ t # "dispatcher" /\ arg[t] \in BOOLEAN
  BY NamedThreads DEF ControlInv, TypeOK
<1>2. pc'[t] = AfterSwitch(t) /\ \A u \in Threads : u # t => pc'[u] = pc[u]
  BY <1>1, OneMoves
<1>3. answerOf' = answerOf /\ toldOf' = toldOf
  BY <1>1, <1>2, NewsKept, WhoHolds
<1>4. Returning' <=> Returning
  BY <1>1, ReturningKept DEF AfterSwitch
<1>5. \A L : ~ Holding(L)
  BY WhoHolds
<1>6. stateOf' = arg[t]
  BY <1>1, <1>2 DEF stateOf, Holding, AfterSwitch
<1>7. CASE t = "manager"
  <2>1. ~ Holding({"manual", "timeout"})' /\ ~ Holding({"manual"})'
    BY <1>2, <1>7 DEF Holding, AfterSwitch
  <2>2. manualOf' = manualOf /\ timeoutOf' = timeoutOf /\ ageOf' = ageOf
    BY <1>4, <1>5, <2>1 DEF manualOf, timeoutOf, ageOf
  <2>3. Device!Order(arg[t])
    BY <1>3, <1>6, <2>2 DEF Device!Order, Device!mode, Device!news
  <2> QED  BY <1>1, <2>3 DEF Device!Next
<1>8. CASE t # "manager"
  <2>1. t \in Clients /\ dur[t] \in 0..MaxTimeout
    BY <1>8 DEF ControlInv, TypeOK
  <2>2. Holding({"manual", "timeout"})' /\ Holding({"manual"})'
    BY <1>1, <1>2, <1>8 DEF Holding, AfterSwitch
  <2>3. manualOf' = TRUE /\ timeoutOf' = dur[t] /\ ageOf' = 0
    BY <2>2 DEF manualOf, timeoutOf, ageOf
  <2>4. Device!Command(arg[t], dur[t])
    BY <1>3, <1>6, <2>3 DEF Device!Command, Device!news
  <2> QED  BY <1>1, <2>1, <2>4 DEF Device!Next
<1> QED  BY <1>7, <1>8

LEMMA DeliversSo ==
  ASSUME NEW on, Deliver(on) PROVE Device!Deliver(on)
  BY DEF Deliver, SetRelay, Device!Deliver, Device!Turn

LEMMA SwitchActs ==
  ASSUME ControlInv, NEW t \in Clients \cup {"manager"},
         SwitchSent(t) \/ SwitchDropped(t) \/ SwitchFailed(t)
  PROVE  Device!Next \/ UNCHANGED Device!vars
<1>1. t \in Threads /\ pc[t] = "switch" /\ lock = NoThread
  BY NamedThreads DEF SwitchSent, SwitchDropped, SwitchFailed, Free
<1>2. CASE SwitchSent(t)
  <2>1. Device!Send(arg[t])
    BY <1>2, DeliversSo DEF SwitchSent, Device!Send
  <2> QED  BY <1>1, <1>2, <2>1, SendsAtOnce DEF SwitchSent, Goto, deviceVars, bootVars
<1>3. CASE SwitchDropped(t)
  <2>1. Device!Send(arg[t])
    BY <1>3 DEF SwitchDropped, Device!Send, Device!wire
  <2> QED  BY <1>1, <1>3, <2>1, SendsAtOnce DEF SwitchDropped, Goto, deviceVars, bootVars
<1>4. CASE SwitchFailed(t)
  <2>1. /\ pc' = [pc EXCEPT ![t] = AfterFailure(t)] /\ arg' = [arg EXCEPT ![t] = FALSE]
        /\ dur' = [c \in Clients |-> IF c = t THEN 0 ELSE dur[c]]
        /\ UNCHANGED <<sw, state, manual, timeout, age, saved, lock>>
        /\ "request" \in Losses /\ Kind = "http" /\ (Deliver(arg[t]) \/ UNCHANGED <<relay, cmds, events>>)
    BY <1>4 DEF SwitchFailed, Drop, Goto, deviceVars, bootVars
  <2>2. \A L : ~ Holding(L) /\ ~ Holding(L)'
    BY <1>1, <2>1, NamedThreads DEF Holding
  <2>3. Returning' <=> Returning
    BY <1>1, <2>1, ReturningKept DEF AfterFailure
  <2>4. answerOf' = answerOf /\ toldOf' = toldOf
    <3>1. t # "poller" /\ t # "dispatcher"
      BY NamedThreads
    <3>2. pc'["poller"] = pc["poller"] /\ pc'["dispatcher"] = pc["dispatcher"]
      BY <1>1, <2>1, <3>1, OneMoves, WhoHolds
    <3>3. arg'["poller"] = arg["poller"]
      BY <2>1, <3>1, WhoHolds DEF ControlInv, TypeOK
    <3> QED  BY <3>2, <3>3, NewsKept
  <2>5. /\ stateOf' = stateOf /\ manualOf' = manualOf
        /\ timeoutOf' = timeoutOf /\ ageOf' = ageOf
    BY <2>1, <2>2, <2>3 DEF stateOf, manualOf, timeoutOf, ageOf
  <2>6. CASE Deliver(arg[t])
    <3>1. Device!Fail(arg[t])
      BY <2>1, <2>4, <2>5, <2>6, DeliversSo DEF Device!Fail, Device!mode, Device!news
    <3>2. arg[t] \in BOOLEAN
      BY <1>1 DEF ControlInv, TypeOK
    <3> QED  BY <3>1, <3>2 DEF Device!Next
  <2>7. CASE UNCHANGED <<relay, cmds, events>>
    BY <2>1, <2>4, <2>5, <2>7 DEF Device!vars, Device!wire, Device!mode, Device!news
  <2> QED  BY <2>1, <2>6, <2>7
<1> QED  BY <1>2, <1>3, <1>4

\* The rest of a locked section changes nothing for its users.
LEMMA StoreActs ==
  ASSUME ControlInv, NEW t \in Threads, Store(t)
  PROVE  UNCHANGED Device!vars
<1>1. /\ pc[t] = "store" /\ lock = t /\ state' = arg[t] /\ lock' = NoThread
      /\ UNCHANGED <<relay, cmds, events, sw, manual, timeout, age, saved>>
      /\ arg' = [arg EXCEPT ![t] = FALSE]
  BY DEF Store, Holds, Drop, relayVars, bootVars
<1>2. PICK label \in {"expire", "idle"} : pc' = [pc EXCEPT ![t] = label]
  BY DEF Store, Drop, Goto
<1>3. pc'[t] = label /\ \A u \in Threads : u # t => pc'[u] = pc[u]
  BY <1>2, OneMoves
<1>4. \A L : ~ Holding(L)'
  BY <1>1, NamedThreads DEF Holding
<1>5. Returning' <=> Returning
  BY <1>1, <1>2, ReturningKept
<1>6. answerOf' = answerOf /\ toldOf' = toldOf
  <2>1. arg \in [Threads -> BOOLEAN]
    BY DEF ControlInv, TypeOK
  <2> QED  BY <1>1, <1>3, <2>1, WhoHolds DEF answerOf, toldOf
<1>7. stateOf = arg[t] /\ ~ Holding({"manual", "timeout"}) /\ ~ Holding({"manual"})
  BY <1>1 DEF stateOf, Holding
<1>8. /\ stateOf' = stateOf /\ manualOf' = manualOf
      /\ timeoutOf' = timeoutOf /\ ageOf' = ageOf
  BY <1>1, <1>4, <1>5, <1>7 DEF stateOf, manualOf, timeoutOf, ageOf
<1> QED
  BY <1>1, <1>6, <1>8 DEF Device!vars, Device!wire, Device!mode, Device!news

\* The two writes of a manual command.
LEMMA ManualActs ==
  ASSUME ControlInv, NEW c \in Clients, SetManualMode(c) \/ SetManualTimeout(c)
  PROVE  Device!Next \/ UNCHANGED Device!vars
<1>1. /\ c \in Threads /\ c # "poller" /\ c # "dispatcher" /\ c # "manager"
      /\ lock = c /\ lock' = c
      /\ UNCHANGED <<relay, cmds, events, sw, state, arg, saved>>
  BY NamedThreads DEF SetManualMode, SetManualTimeout, Holds, relayVars, bootVars
<1>2. PICK label \in {"timeout", "store"} : pc' = [pc EXCEPT ![c] = label]
  BY DEF SetManualMode, SetManualTimeout, Goto
<1>3. pc'[c] = label /\ \A u \in Threads : u # c => pc'[u] = pc[u]
  BY <1>1, <1>2, OneMoves
<1>4. answerOf' = answerOf /\ toldOf' = toldOf
  BY <1>1, <1>3, NewsKept, WhoHolds
<1>5. Returning' <=> Returning
  BY <1>1, <1>2, ReturningKept DEF SetManualMode, SetManualTimeout
<1>6. stateOf' = arg[c] /\ stateOf = arg[c]
  BY <1>1, <1>2, <1>3 DEF stateOf, Holding, SetManualMode, SetManualTimeout
<1>7. CASE SetManualMode(c)
  <2>1. pc[c] = "manual" /\ pc'[c] = "timeout" /\ manual' /\ dur' = dur /\ manual' \in BOOLEAN
    BY <1>1, <1>7, OneMoves DEF SetManualMode, Goto
  <2>2. manualOf' = manualOf /\ timeoutOf' = timeoutOf /\ ageOf' = ageOf
    BY <1>1, <2>1 DEF manualOf, timeoutOf, ageOf, Holding
  <2> QED
    BY <1>1, <1>4, <1>6, <2>2 DEF Device!vars, Device!wire, Device!mode, Device!news
<1>8. CASE SetManualTimeout(c)
  <2>1. /\ pc[c] = "timeout" /\ pc'[c] = "store"
        /\ timeout' = dur[c] /\ age' = 0 /\ manual' = manual
    BY <1>1, <1>8, OneMoves DEF SetManualTimeout, Goto
  <2>2. /\ Holding({"manual", "timeout"}) /\ ~ Holding({"manual"})
        /\ ~ Holding({"manual", "timeout"})' /\ ~ Holding({"manual"})'
    BY <1>1, <2>1 DEF Holding
  <2>3. manualOf' = manualOf /\ timeoutOf = dur[c] /\ ageOf = 0
    BY <1>1, <2>1, <2>2 DEF manualOf, timeoutOf, ageOf
  <2>4. CASE ~ Returning
    <3>1. timeoutOf' = timeoutOf /\ ageOf' = ageOf
      BY <1>5, <2>1, <2>2, <2>3, <2>4 DEF timeoutOf, ageOf
    <3> QED
      BY <1>1, <1>4, <1>6, <2>3, <3>1 DEF Device!vars, Device!wire, Device!mode, Device!news
  <2>5. CASE Returning
    <3>1. timeoutOf' = 0 /\ ageOf' = 0
      BY <1>5, <2>2, <2>5 DEF timeoutOf, ageOf
    <3>2. PICK d \in Threads : pc[d] = "auto2"
      BY <2>5 DEF Returning
    <3>3. d \in Clients /\ d # c
      BY <1>1, <2>1, <3>2, WhoHolds
    <3>4. Device!HalfReturn
      BY <1>1, <1>4, <1>6, <2>3, <3>1 DEF Device!HalfReturn, Device!wire, Device!news
    <3> QED  BY <3>3, <3>4 DEF Device!Next
  <2> QED  BY <2>4, <2>5
<1> QED  BY <1>7, <1>8

\* The two writes of a return to automatic mode.
LEMMA AutoActs ==
  ASSUME ControlInv, NEW c \in Clients, SetAutoMode(c) \/ ClearTimeout(c)
  PROVE  Device!Next \/ UNCHANGED Device!vars
<1>1. /\ c \in Threads /\ c # "poller" /\ c # "dispatcher" /\ c # "manager"
      /\ UNCHANGED <<relay, cmds, events, sw, state, arg, dur, saved, lock>>
  BY NamedThreads DEF SetAutoMode, ClearTimeout, relayVars, bootVars
<1>2. PICK label \in {"auto2", "idle"} : pc' = [pc EXCEPT ![c] = label]
  BY DEF SetAutoMode, ClearTimeout, Goto
<1>3. pc'[c] = label /\ \A u \in Threads : u # c => pc'[u] = pc[u]
  BY <1>1, <1>2, OneMoves
<1>4. answerOf' = answerOf /\ toldOf' = toldOf
  BY <1>1, <1>3, NewsKept, WhoHolds
<1>5. pc[c] \in {"auto", "auto2"}
  BY DEF SetAutoMode, ClearTimeout
<1>6. /\ Holding({"manual", "timeout", "store"})' <=> Holding({"manual", "timeout", "store"})
      /\ Holding({"manual", "timeout"})' <=> Holding({"manual", "timeout"})
      /\ Holding({"manual"})' <=> Holding({"manual"})
  BY <1>1, <1>2, <1>3, <1>5 DEF Holding
<1>7. stateOf' = stateOf
  BY <1>1, <1>6 DEF stateOf
<1>8. CASE ClearTimeout(c)
  <2>1. timeout' = 0 /\ age' = 0 /\ manual' = manual /\ Returning
    BY <1>1, <1>8 DEF ClearTimeout, Returning
  <2>2. manualOf' = manualOf /\ timeoutOf' = timeoutOf /\ ageOf' = ageOf
    BY <1>1, <1>6, <2>1 DEF manualOf, timeoutOf, ageOf
  <2> QED
    BY <1>1, <1>4, <1>7, <2>2 DEF Device!vars, Device!wire, Device!mode, Device!news
<1>9. CASE SetAutoMode(c)
  <2>1. manual' = FALSE /\ UNCHANGED <<timeout, age>> /\ pc[c] = "auto" /\ Returning'
    BY <1>1, <1>9, OneMoves DEF SetAutoMode, Goto, Returning
  <2>2. CASE Holding({"manual"})
    <3>1. Holding({"manual", "timeout"})
      BY <2>2 DEF Holding
    <3>2. manualOf' = manualOf /\ timeoutOf' = timeoutOf /\ ageOf' = ageOf
      BY <1>1, <1>6, <2>2, <3>1 DEF manualOf, timeoutOf, ageOf
    <3> QED
      BY <1>1, <1>4, <1>7, <3>2 DEF Device!vars, Device!wire, Device!mode, Device!news
  <2>3. CASE ~ Holding({"manual"}) /\ Holding({"manual", "timeout"})
    <3>1. manualOf' = FALSE /\ timeoutOf' = timeoutOf /\ ageOf' = ageOf
      BY <1>1, <1>6, <2>1, <2>3 DEF manualOf, timeoutOf, ageOf
    <3>2. Device!HalfReturn
      BY <1>1, <1>4, <1>7, <3>1 DEF Device!HalfReturn, Device!wire, Device!news
    <3>3. lock \in Clients /\ lock # c
      BY <2>1, <2>3, WhoHolds DEF Holding
    <3> QED  BY <3>2, <3>3 DEF Device!Next
  <2>4. CASE ~ Holding({"manual", "timeout"})
    <3>1. ~ Holding({"manual"})
      BY <2>4 DEF Holding
    <3>2. manualOf' = FALSE /\ timeoutOf' = 0 /\ ageOf' = 0
      BY <1>6, <2>1, <2>4, <3>1 DEF manualOf, timeoutOf, ageOf
    <3>3. Device!Return
      BY <1>1, <1>4, <1>7, <3>2 DEF Device!Return, Device!Automatic, Device!wire, Device!news
    <3> QED  BY <3>3 DEF Device!Next
  <2> QED  BY <2>2, <2>3, <2>4
<1> QED  BY <1>8, <1>9

\* The manager ends a manual mode whose time has passed.
LEMMA ExpiryActs ==
  ASSUME ControlInv, Recheck \/ EndManual
  PROVE  Device!Next \/ UNCHANGED Device!vars
<1>1. /\ "manager" \in Threads
      /\ UNCHANGED <<relay, cmds, events, sw, state, arg, dur, saved>>
  BY NamedThreads DEF Recheck, EndManual, relayVars, bootVars
<1>2. PICK label \in {"auto2", "idle"} : pc' = [pc EXCEPT !["manager"] = label]
  BY DEF Recheck, EndManual, Goto
<1>3. pc'["manager"] = label /\ \A u \in Threads : u # "manager" => pc'[u] = pc[u]
  BY <1>1, <1>2, OneMoves
<1>4. answerOf' = answerOf /\ toldOf' = toldOf
  BY <1>1, <1>3, NewsKept, WhoHolds
<1>5. /\ ~ Holding({"manual", "timeout", "store"}) /\ ~ Holding({"manual", "timeout", "store"})'
      /\ ~ Holding({"manual", "timeout"}) /\ ~ Holding({"manual", "timeout"})'
      /\ ~ Holding({"manual"}) /\ ~ Holding({"manual"})'
  BY <1>1, <1>2, <1>3, NamedThreads DEF Recheck, EndManual, Free, Holds, Holding
<1>6. stateOf' = stateOf
  BY <1>1, <1>5 DEF stateOf
<1>7. CASE EndManual
  <2>1. timeout' = 0 /\ age' = 0 /\ manual' = manual /\ Returning
    BY <1>1, <1>7 DEF EndManual, Returning
  <2>2. manualOf' = manualOf /\ timeoutOf' = timeoutOf /\ ageOf' = ageOf
    BY <1>5, <2>1 DEF manualOf, timeoutOf, ageOf
  <2> QED
    BY <1>1, <1>4, <1>6, <2>2 DEF Device!vars, Device!wire, Device!mode, Device!news
<1>8. CASE Recheck /\ pc'["manager"] = "auto2"
  <2>1. age >= timeout /\ manual' = FALSE /\ UNCHANGED <<timeout, age>>
    BY <1>1, <1>8, OneMoves DEF Recheck, Goto
  <2>2. Returning'
    BY <1>1, <1>8 DEF Returning
  <2>3. manualOf' = FALSE /\ timeoutOf' = 0 /\ ageOf' = 0
    BY <1>5, <2>1, <2>2 DEF manualOf, timeoutOf, ageOf
  <2>4. ageOf >= timeoutOf
    <3>1. CASE Returning
      BY <1>5, <3>1 DEF timeoutOf, ageOf
    <3>2. CASE ~ Returning
      BY <1>5, <2>1, <3>2 DEF timeoutOf, ageOf
    <3> QED  BY <3>1, <3>2
  <2>5. Device!Return
    BY <1>1, <1>4, <1>6, <2>3 DEF Device!Return, Device!Automatic, Device!wire, Device!news
  <2> QED  BY <2>4, <2>5 DEF Device!Next
<1>9. CASE Recheck /\ pc'["manager"] # "auto2"
  <2>1. pc["manager"] = "recheck" /\ UNCHANGED <<manual, timeout, age>> /\ label = "idle"
    BY <1>1, <1>2, <1>3, <1>9, OneMoves DEF Recheck, Goto
  <2>2. Returning' <=> Returning
    BY <1>1, <1>2, <2>1, ReturningKept
  <2>3. manualOf' = manualOf /\ timeoutOf' = timeoutOf /\ ageOf' = ageOf
    BY <1>5, <2>1, <2>2 DEF manualOf, timeoutOf, ageOf
  <2> QED
    BY <1>1, <1>4, <1>6, <2>3 DEF Device!vars, Device!wire, Device!mode, Device!news
<1> QED  BY <1>7, <1>8, <1>9

\* Nobody moves.
LEMMA Still ==
  ASSUME UNCHANGED <<state, manual, pc, arg, dur, lock>>
  PROVE  /\ UNCHANGED <<stateOf, manualOf, answerOf, toldOf>>
         /\ UNCHANGED <<timeout, age>> => UNCHANGED <<timeoutOf, ageOf>>
<1>1. \A L : Holding(L)' <=> Holding(L)
  BY DEF Holding
<1>2. Returning' <=> Returning
  BY DEF Returning
<1> QED
  BY <1>1, <1>2 DEF stateOf, manualOf, answerOf, toldOf, timeoutOf, ageOf

\* A step of the poller or the dispatcher disturbs nobody else.
LEMMA SensorThreadMoves ==
  ASSUME ControlInv, NEW t \in {"poller", "dispatcher"}, NEW label,
         pc' = [pc EXCEPT ![t] = label], label # "auto2",
         UNCHANGED <<manual, timeout, age, dur>>, lock' = lock \/ (lock = NoThread /\ lock' = t),
         \A u \in Threads \ {t} : arg'[u] = arg[u], label \notin {"manual", "timeout"}
  PROVE  /\ UNCHANGED <<manualOf, timeoutOf, ageOf>>
         /\ state' = state /\ label # "store" /\ pc[t] # "store" => UNCHANGED stateOf
<1>1. t \in Threads /\ pc[t] \notin {"manual", "timeout", "auto2"}
  BY WhoHolds DEF ControlInv, ThreadsKeepToTheirCode, PollerLabels, DispatcherLabels
<1>2. pc'[t] = label /\ \A u \in Threads : u # t => pc'[u] = pc[u]
  BY <1>1, OneMoves
<1>3. Returning' <=> Returning
  BY <1>1, ReturningKept
<1>4. /\ Holding({"manual", "timeout"})' <=> Holding({"manual", "timeout"})
      /\ Holding({"manual"})' <=> Holding({"manual"})
  BY <1>1, <1>2, NamedThreads DEF Holding
<1>5. UNCHANGED <<manualOf, timeoutOf, ageOf>>
  <2>1. Holding({"manual", "timeout"}) => dur'[lock'] = dur[lock]
    BY NamedThreads, <1>1 DEF Holding
  <2> QED  BY <1>3, <1>4, <2>1 DEF manualOf, timeoutOf, ageOf
<1>6. ASSUME state' = state, label # "store", pc[t] # "store" PROVE UNCHANGED stateOf
  <2>1. Holding({"manual", "timeout", "store"})' <=> Holding({"manual", "timeout", "store"})
    BY <1>1, <1>2, <1>6, NamedThreads DEF Holding
  <2>2. Holding({"manual", "timeout", "store"}) => arg'[lock'] = arg[lock]
    BY <1>1, <1>6, NamedThreads DEF Holding
  <2> QED  BY <1>6, <2>1, <2>2 DEF stateOf
<1> QED  BY <1>5, <1>6

\* What the relay answers to a poll reaches the sensor, or is lost.
LEMMA PollActs ==
  ASSUME ControlInv, PollRead \/ PollFailed \/ PollReply
  PROVE  Device!Next \/ UNCHANGED Device!vars
<1>1. /\ "poller" \in Threads /\ "dispatcher" # "poller"
      /\ UNCHANGED <<relay, cmds, events, state, manual, timeout, age, dur, saved, lock>>
      /\ pc["poller"] \in {"idle", "reply"}
  BY WhoHolds DEF PollRead, PollFailed, PollReply, relayVars, deviceVars, bootVars
<1>2. PICK label \in {"idle", "reply", "apply"} : pc' = [pc EXCEPT !["poller"] = label]
  BY DEF PollRead, PollFailed, PollReply, Drop, Goto
<1>3. PICK v : arg' = [arg EXCEPT !["poller"] = v]
  BY DEF PollRead, PollFailed, PollReply, Drop
<1>4. pc'["poller"] = label /\ \A u \in Threads : u # "poller" => pc'[u] = pc[u]
  BY <1>1, <1>2, OneMoves
<1>5. arg'["poller"] = v /\ \A u \in Threads \ {"poller"} : arg'[u] = arg[u]
  BY <1>1, <1>3 DEF ControlInv, TypeOK
<1>6. UNCHANGED <<stateOf, manualOf, timeoutOf, ageOf>>
  BY <1>1, <1>2, <1>5, SensorThreadMoves
<1>7. UNCHANGED <<relay, cmds, events, stateOf, manualOf, timeoutOf, ageOf, saved>>
  BY <1>1, <1>6
<1>8. CASE PollRead
  <2>1. label = "reply" /\ v = relay /\ sw' = sw /\ pc["poller"] = "idle" /\ Kind = "http"
    BY <1>4, <1>5, <1>1, <1>8 DEF PollRead, Goto, ControlInv, TypeOK
  <2>2. answerOf = {} /\ "poller" \notin toldOf /\ answerOf' = {relay} /\ toldOf' = toldOf
    BY <1>1, <1>4, <1>5, <2>1, WhoHolds DEF answerOf, toldOf
  <2>3. Device!Ask
    BY <1>7, <2>1, <2>2 DEF Device!Ask, Device!wire, Device!mode
  <2> QED  BY <2>3 DEF Device!Next
<1>9. CASE PollFailed
  <2>1. label = "idle" /\ sw' = sw /\ Kind = "http" /\ "request" \in Losses
    BY <1>4, <1>1, <1>9, OneMoves DEF PollFailed, Drop, Goto
  <2>2. answerOf' = {} /\ toldOf' = toldOf
    BY <1>1, <1>4, <2>1, WhoHolds DEF answerOf, toldOf
  <2>3. Device!GiveUp
    BY <1>7, <2>1, <2>2 DEF Device!GiveUp, Device!wire, Device!mode
  <2> QED  BY <2>3 DEF Device!Next
<1>10. CASE PollReply
  <2>1. /\ label = "apply" /\ pc["poller"] = "reply"
        /\ sw' = [sw EXCEPT !.on = arg["poller"]]
    BY <1>4, <1>1, <1>10, OneMoves DEF PollReply, Drop, Goto
  <2>2. answerOf = {arg["poller"]} /\ answerOf' = {} /\ toldOf' = toldOf \cup {"poller"}
    BY <1>1, <1>4, <2>1, WhoHolds DEF answerOf, toldOf
  <2>3. Device!Reply
    BY <1>7, <2>1, <2>2 DEF Device!Reply, Device!wire, Device!mode
  <2> QED  BY <2>3 DEF Device!Next
<1> QED  BY <1>8, <1>9, <1>10

\* An event reaches the sensor.
LEMMA DispatchActs ==
  ASSUME ControlInv, Dispatch
  PROVE  Device!Next
<1>1. /\ "dispatcher" \in Threads /\ "dispatcher" # "poller" /\ "poller" \in Threads
      /\ pc["dispatcher"] = "idle" /\ lock = NoThread /\ lock' = "dispatcher"
      /\ pc' = [pc EXCEPT !["dispatcher"] = "apply"]
      /\ UNCHANGED <<relay, cmds, state, manual, timeout, age, arg, dur, saved>>
  BY WhoHolds DEF Dispatch, Free, Goto, deviceVars, bootVars
<1>2. pc'["dispatcher"] = "apply" /\ pc'["poller"] = pc["poller"]
  BY <1>1, OneMoves
<1>3. UNCHANGED <<stateOf, manualOf, timeoutOf, ageOf>>
  <2>1. PICK t \in {"poller", "dispatcher"}, label \in {"apply"} :
           /\ pc' = [pc EXCEPT ![t] = label] /\ pc[t] = "idle"
           /\ lock = NoThread /\ lock' = t
    BY <1>1
  <2> QED  BY <1>1, <2>1, SensorThreadMoves
<1>4. answerOf' = answerOf /\ toldOf' = toldOf \cup {"dispatcher"} /\ "dispatcher" \notin toldOf
  BY <1>1, <1>2 DEF answerOf, toldOf
<1>5. Device!Hear
  BY <1>1, <1>3, <1>4 DEF Dispatch, Device!Hear, Device!mode
<1> QED  BY <1>5 DEF Device!Next

\* The device follows its sensor as soon as the thread that tells it has started.
LEMMA LearnActs ==
  ASSUME ControlInv, PollApply \/ DispatchApply
  PROVE  Device!Next
<1>1. PICK t \in {"poller", "dispatcher"} :
         /\ pc[t] = "apply" /\ Apply(t) /\ lock' = t
         /\ lock = t \/ lock = NoThread
  BY DEF PollApply, DispatchApply, Free, Holds
<1>2. /\ t \in Threads /\ "poller" \in Threads /\ "dispatcher" \in Threads
      /\ pc' = [pc EXCEPT ![t] = "store"] /\ arg' = [arg EXCEPT ![t] = sw.on]
      /\ manual' = (manual \/ sw.manual)
      /\ UNCHANGED <<relay, cmds, events, sw, state, timeout, age, dur, saved>>
  BY <1>1, WhoHolds DEF Apply, Goto, relayVars, bootVars
<1>3. pc'[t] = "store" /\ \A u \in Threads : u # t => pc'[u] = pc[u]
  BY <1>2, OneMoves
<1>4. arg'[t] = sw.on /\ \A u \in Threads \ {t} : arg'[u] = arg[u]
  BY <1>2 DEF ControlInv, TypeOK
<1>5. Returning' <=> Returning
  BY <1>1, <1>2, ReturningKept
<1>6. /\ ~ Holding({"manual", "timeout"}) /\ ~ Holding({"manual"})
      /\ ~ Holding({"manual", "timeout"})' /\ ~ Holding({"manual"})'
      /\ Holding({"manual", "timeout", "store"})'
  BY <1>1, <1>2, <1>3, NamedThreads DEF Holding
<1>7. /\ stateOf' = sw.on /\ manualOf' = (manualOf \/ sw.manual)
      /\ timeoutOf' = timeoutOf /\ ageOf' = ageOf
  BY <1>1, <1>2, <1>4, <1>5, <1>6 DEF stateOf, manualOf, timeoutOf, ageOf
<1>8. answerOf' = answerOf
  BY <1>1, <1>2, <1>3, <1>4 DEF answerOf
<1>9. t \in toldOf /\ toldOf' = toldOf \ {t}
  BY <1>1, <1>2, <1>3 DEF toldOf
<1>10. Device!Learn(t)
  BY <1>2, <1>7, <1>8, <1>9 DEF Device!Learn, Device!wire
<1> QED  BY <1>9, <1>10 DEF Device!Next

\* The relay, and time.
LEMMA WorldActs ==
  ASSUME ControlInv, Button \/ RelayObeys \/ LoseEvent \/ Tick \/ Replan
  PROVE  Device!Next \/ UNCHANGED Device!vars
<1>1. /\ UNCHANGED <<sw, state, manual, pc, arg, dur, lock, saved>>
      /\ UNCHANGED <<stateOf, manualOf, answerOf, toldOf>>
      /\ UNCHANGED <<timeout, age>> => UNCHANGED <<timeoutOf, ageOf>>
  <2>1. UNCHANGED <<sw, state, manual, pc, arg, dur, lock, saved>>
    BY DEF Button, RelayObeys, LoseEvent, Tick, Replan, deviceVars, threadVars, bootVars
  <2> QED  BY <2>1, Still
<1>2. CASE Button \/ RelayObeys \/ LoseEvent
  <2>1. UNCHANGED <<sw, saved, stateOf, manualOf, timeoutOf, ageOf, answerOf, toldOf>>
    BY <1>1, <1>2 DEF Button, RelayObeys, LoseEvent, deviceVars
  <2>2. Button => Device!Press
    BY <2>1 DEF Button, SetRelay, Device!Press, Device!Turn, Device!mode, Device!news
  <2>3. RelayObeys => Device!Obey
    BY <2>1 DEF RelayObeys, SetRelay, Device!Obey, Device!Turn, Device!mode, Device!news
  <2>4. LoseEvent => Device!Forget
    BY <2>1 DEF LoseEvent, Device!Forget, Device!mode, Device!news
  <2> QED  BY <1>2, <2>2, <2>3, <2>4 DEF Device!Next
<1>3. CASE Tick
  <2>1. age < timeout /\ age' = age + 1 /\ UNCHANGED <<relay, cmds, events, timeout>>
    BY <1>3 DEF Tick, relayVars
  <2>2. /\ Holding({"manual", "timeout"})' <=> Holding({"manual", "timeout"})
        /\ Returning' <=> Returning
        /\ dur'[lock'] = dur[lock]
    BY <1>1 DEF Holding, Returning
  <2>3. timeoutOf' = timeoutOf
    <3>1. CASE Holding({"manual", "timeout"})
      BY <2>2, <3>1 DEF timeoutOf
    <3>2. CASE ~ Holding({"manual", "timeout"})
      BY <2>1, <2>2, <3>2 DEF timeoutOf
    <3> QED  BY <3>1, <3>2
  <2>4. CASE Holding({"manual", "timeout"}) \/ Returning
    <3>1. Holding({"manual", "timeout"})' \/ Returning'
      BY <2>2, <2>4
    <3>2. ageOf = 0 /\ ageOf' = 0
      BY <2>4, <3>1 DEF ageOf
    <3> QED
      BY <1>1, <2>1, <2>3, <3>2 DEF Device!vars, Device!wire, Device!mode, Device!news
  <2>5. CASE ~ (Holding({"manual", "timeout"}) \/ Returning)
    <3>1. ageOf = age /\ ageOf' = age' /\ timeoutOf = timeout
      BY <2>2, <2>5 DEF ageOf, timeoutOf
    <3>2. Device!Tick
      BY <1>1, <2>1, <2>3, <3>1 DEF Device!Tick, Device!wire, Device!news
    <3> QED  BY <3>2 DEF Device!Next
  <2> QED  BY <2>4, <2>5
<1>4. CASE Replan
  <2>1. UNCHANGED <<relay, cmds, events, timeout, age>>
    BY <1>4 DEF Replan, relayVars, deviceVars
  <2> QED
    BY <1>1, <2>1 DEF Device!vars, Device!wire, Device!mode, Device!news
<1> QED  BY <1>2, <1>3, <1>4

\* In a process that does nothing, or has just started, all is as it stands.
LEMMA AllIdle ==
  ASSUME \A t \in Threads : pc[t] = "idle", manual \in BOOLEAN
  PROVE  /\ stateOf = state /\ manualOf = manual /\ timeoutOf = timeout /\ ageOf = age
         /\ answerOf = {} /\ toldOf = {}
<1>1. /\ ~ Holding({"manual", "timeout", "store"}) /\ ~ Holding({"manual", "timeout"})
      /\ ~ Holding({"manual"}) /\ ~ Returning
  BY DEF Holding, Returning
<1>2. stateOf = state /\ manualOf = manual /\ timeoutOf = timeout /\ ageOf = age
  BY <1>1 DEF stateOf, manualOf, timeoutOf, ageOf
<1>3. "poller" \in Threads /\ "dispatcher" \in Threads
  BY DEF Threads, System
<1> QED
  BY <1>2, <1>3 DEF answerOf, toldOf

LEMMA StartActs ==
  ASSUME ControlInv, Restart \/ Crash
  PROVE  Device!Next
<1>1. "poller" \in Threads /\ "dispatcher" \in Threads
  BY WhoHolds
<1>2. manual \in BOOLEAN /\ manual' \in BOOLEAN
  BY StepTypes DEF Next, ControlInv, TypeOK
<1>3. ASSUME NEW backup, Boot(backup) PROVE Device!Start(backup)
  <2>1. \A t \in Threads : pc'[t] = "idle"
    BY <1>3 DEF Boot
  <2>2. /\ ~ Holding({"manual", "timeout", "store"})' /\ ~ Holding({"manual", "timeout"})'
        /\ ~ Holding({"manual"})' /\ ~ Returning'
    BY <2>1 DEF Holding, Returning
  <2>3. stateOf' = state' /\ manualOf' = manual' /\ timeoutOf' = timeout' /\ ageOf' = age'
    BY <1>2, <2>2 DEF stateOf, manualOf, timeoutOf, ageOf
  <2>4. answerOf' = {} /\ toldOf' = {}
    BY <1>1, <2>1 DEF answerOf, toldOf
  <2> QED  BY <1>3, <2>3, <2>4 DEF Boot, Device!Start, NoCopy, Device!NoCopy
<1>4. CASE Crash
  BY <1>3, <1>4 DEF Crash, Device!Crash, Device!Next
<1>5. CASE Restart
  <2>1. \A t \in Threads : pc[t] = "idle"
    BY <1>5 DEF Restart
  <2>2. stateOf = state /\ manualOf = manual /\ answerOf = {} /\ toldOf = {}
    BY <1>2, <2>1, AllIdle
  <2>3. Device!Start([state |-> stateOf, manual |-> manualOf])
    BY <1>3, <1>5, <2>2 DEF Restart, Backup
  <2> QED  BY <2>2, <2>3 DEF Device!Restart, Device!Next
<1> QED  BY <1>4, <1>5

\* The first steps of a command, and what the manager does before and after an
\* order, nobody sees.
LEMMA ThoughtsUnseen ==
  ASSUME ControlInv,
         \/ \E c \in Clients : CommandManual(c) \/ CommandAuto(c)
         \/ Decide \/ ReadState \/ Offload \/ Check \/ Expire
  PROVE  UNCHANGED Device!vars
<1>1. arg \in [Threads -> BOOLEAN] /\ dur \in [Clients -> 0..MaxTimeout]
  BY DEF ControlInv, TypeOK
<1>2. CASE \E c \in Clients : CommandManual(c) \/ CommandAuto(c)
  <2>1. PICK c \in Clients : CommandManual(c) \/ CommandAuto(c)
    BY <1>2
  <2>2. c \in Threads /\ pc[c] = "idle"
    BY <2>1, NamedThreads DEF CommandManual, CommandAuto
  <2>3. PICK label \in {"switch", "auto"} : pc' = [pc EXCEPT ![c] = label]
    BY <2>1 DEF CommandManual, CommandAuto, Goto
  <2>4. /\ UNCHANGED <<relay, cmds, events, state, manual, timeout, age, sw, saved, lock>>
        /\ \A u \in Threads \ {c} : arg'[u] = arg[u]
        /\ \A d \in Clients \ {c} : dur'[d] = dur[d]
    BY <1>1, <2>1 DEF CommandManual, CommandAuto, relayVars, deviceVars, bootVars
  <2>5. label \notin Seen /\ pc[c] \notin Seen
    BY <2>2 DEF Seen
  <2> QED  BY <2>2, <2>3, <2>4, <2>5, Unseen
<1>3. CASE Decide \/ ReadState \/ Offload \/ Check \/ Expire
  <2>1. "manager" \in Threads /\ pc["manager"] \in {"idle", "read", "offload", "check", "expire"}
    BY <1>3, NamedThreads DEF Decide, ReadState, Offload, Check, Expire
  <2>2. PICK label \in {"expire", "read", "offload", "check", "switch", "idle", "recheck"} :
           pc' = [pc EXCEPT !["manager"] = label]
    BY <1>3 DEF Decide, ReadState, Offload, Check, Expire, Drop, Goto
  <2>3. /\ UNCHANGED <<relay, cmds, events, state, manual, timeout, age, sw, saved, lock, dur>>
        /\ \E v : arg' = [arg EXCEPT !["manager"] = v] \/ arg' = arg
    BY <1>3 DEF Decide, ReadState, Offload, Check, Expire, Drop,
                relayVars, deviceVars, bootVars
  <2>4. \A u \in Threads \ {"manager"} : arg'[u] = arg[u]
    BY <1>1, <2>3
  <2>5. label \notin Seen /\ pc["manager"] \notin Seen
    BY <2>1 DEF Seen
  <2> QED  BY <2>1, <2>2, <2>3, <2>4, <2>5, Unseen
<1> QED  BY <1>2, <1>3

LEMMA InitActs == ASSUME Init PROVE Device!Init
<1>1. \A t \in Threads : pc[t] = "idle"
  BY DEF Init
<1> QED
  BY <1>1, AllIdle DEF Init, Device!Init, NoCopy, Device!NoCopy

LEMMA StepActs ==
  ASSUME ControlInv, [Next]_vars
  PROVE  [Device!Next]_(Device!vars)
<1>1. CASE UNCHANGED vars
  <2>1. /\ UNCHANGED <<relay, cmds, events, sw, saved>>
        /\ UNCHANGED <<state, manual, pc, arg, dur, lock>> /\ UNCHANGED <<timeout, age>>
    BY <1>1 DEF vars, relayVars, deviceVars, threadVars, bootVars
  <2>2. UNCHANGED <<stateOf, manualOf, timeoutOf, ageOf, answerOf, toldOf>>
    BY <2>1, Still
  <2> QED
    BY <2>1, <2>2 DEF Device!vars, Device!wire, Device!mode, Device!news
<1>2. CASE Next
  BY <1>2, StepCases, SwitchActs, StoreActs, ManualActs, AutoActs, ExpiryActs, PollActs,
     DispatchActs, LearnActs, WorldActs, StartActs, ThoughtsUnseen
<1> QED  BY <1>1, <1>2

\* The device implements its atomic specification: whatever the number of
\* clients, the kind of relay, the losses and the restarts, an order, a manual
\* command and what the sensor tells take effect in one step, for the command
\* that is sent, the state and the mode together, although SetState,
\* SetManualState and the callbacks write them one after the other, and the
\* switch sensor is polled without the mutex.
THEOREM DeviceActsAtOnce == Spec => ActsAtOnce
<1>1. Init => Device!Init
  BY InitActs
<1>2. ControlInv /\ [Next]_vars => [Device!Next]_(Device!vars)
  BY StepActs
<1> QED
  BY <1>1, <1>2, ControlInvariant, PTL DEF Spec, ActsAtOnce, Device!Spec
=============================================================================
