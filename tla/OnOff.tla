------------------------------- MODULE OnOff -------------------------------
(***************************************************************************)
(* One switchable device (device::OnOff) and the threads that act on it:   *)
(* the devices manager applying the schedule every second, the sensors     *)
(* manager polling the relay, the MQTT dispatcher delivering the relay's   *)
(* events, and one API worker thread per client.  The device's recursive   *)
(* mutex `lock' serialises only some of their steps; every read and write  *)
(* the code makes without it is a step of its own here.                    *)
(*                                                                         *)
(* The relay itself is the environment: it obeys a request, its button     *)
(* toggles it, and it announces every change of its output over MQTT.      *)
(***************************************************************************)
EXTENDS Naturals, Sequences

CONSTANTS Clients,      \* API clients, each served by a worker thread
          NoThread,     \* the holder of a lock nobody holds
          Kind,         \* "http": Shelly relay; "mqtt": Arduino or SC relay
          Losses,       \* what may be lost: requests to the relay, its events
          Plans,        \* what the device's own rules may ask for
          Orders,       \* what each client may command: on or off, and for how long
          MaxTimeout,   \* bound: the longest manual duration, in ticks
          MaxQueue,     \* bound: events or commands not yet delivered
          MaxRestarts   \* bound: restarts of the program

System  == {"manager", "poller", "dispatcher"}
Threads == Clients \cup System

ASSUME ClientsAssumption == /\ Clients \cap System = {}
                            /\ NoThread \notin Threads
ASSUME KindAssumption    == Kind \in {"http", "mqtt"} /\ Losses \subseteq {"request", "event"}
ASSUME PlansAssumption   == Plans \subseteq {"ON", "OFF", "OFFLOAD", "UNCHANGED"}
ASSUME OrdersAssumption  == Orders \in [Clients -> SUBSET [on : BOOLEAN, for : 0..MaxTimeout]]
ASSUME BoundsAssumption  == /\ MaxTimeout \in Nat
                            /\ MaxQueue \in Nat \ {0}
                            /\ MaxRestarts \in Nat

VARIABLES relay,      \* output of the physical relay
          cmds,       \* commands published over MQTT the relay has not received
          events,     \* changes the relay announced, not yet dispatched
          sw,         \* the switch sensor's copy: [on, manual]
          state, manual, timeout,  \* OnOff::state, manual, manual_timeout
          age,        \* now - OnOff::last_manual, counted up to manual_timeout
          offline,    \* Device::offline
          lock,       \* holder of Device::lock
          plan,       \* what get_wanted_state() answers in automatic mode
          pc, arg,    \* where each thread is, and the on/off value it carries
          event,      \* the message the dispatcher is handling
          dur,        \* the duration each client's command carries
          saved,      \* t_device_state
          restarts,
          lost        \* history: a request or an event has been lost

relayVars  == <<relay, cmds, events, lost>>
deviceVars == <<state, manual, timeout, age>>
threadVars == <<pc, arg, event, dur>>
bootVars   == <<saved, restarts>>
vars == <<relayVars, deviceVars, threadVars, bootVars, sw, offline, lock, plan>>

Labels == {"idle", "read", "offload", "check", "switch", "manual", "timeout",
           "store", "expire", "recheck", "auto", "auto2", "reply", "apply"}
Events == [on : BOOLEAN, button : BOOLEAN]
NoEvent == [on |-> FALSE, button |-> FALSE]
NoCopy  == [on |-> FALSE, manual |-> FALSE]

TypeOK ==
  /\ relay \in BOOLEAN /\ state \in BOOLEAN /\ manual \in BOOLEAN
  /\ offline \in BOOLEAN
  /\ cmds \in Seq(BOOLEAN) /\ events \in Seq(Events)
  /\ sw \in [on : BOOLEAN, manual : BOOLEAN]
  /\ timeout \in 0..MaxTimeout /\ age \in 0..MaxTimeout
  /\ lock \in Threads \cup {NoThread}
  /\ plan \in Plans
  /\ pc \in [Threads -> Labels] /\ arg \in [Threads -> BOOLEAN]
  /\ event \in Events
  /\ dur \in [Clients -> 0..MaxTimeout]
  /\ saved \in [state : BOOLEAN, manual : BOOLEAN]
  /\ restarts \in 0..MaxRestarts
  /\ lost \in BOOLEAN

\* A new device, whose relay is off: no state was ever saved for it.
Init ==
  /\ state = FALSE /\ manual = FALSE /\ relay = FALSE
  /\ saved = [state |-> FALSE, manual |-> FALSE]
  /\ cmds = <<>> /\ events = <<>>
  /\ sw = NoCopy
  /\ timeout = 0 /\ age = 0
  /\ offline = FALSE
  /\ lock = NoThread
  /\ plan \in Plans
  /\ pc = [t \in Threads |-> "idle"] /\ arg = [t \in Threads |-> FALSE]
  /\ event = NoEvent
  /\ dur = [c \in Clients |-> 0]
  /\ restarts = 0
  /\ lost = FALSE

Goto(t, label) == pc' = [pc EXCEPT ![t] = label]
\* The thread no longer needs the value it carried.
Drop(t, label) == Goto(t, label) /\ arg' = [arg EXCEPT ![t] = FALSE]
Free    == lock = NoThread
Holds(t) == lock = t

-----------------------------------------------------------------------------
(* The relay. *)

SetRelay(on, button) ==
  /\ Len(events) < MaxQueue
  /\ relay' = on
  /\ events' = IF on = relay THEN events
               ELSE Append(events, [on |-> on, button |-> button])

Button == SetRelay(~relay, TRUE) /\ UNCHANGED <<cmds, lost, sw, deviceVars, threadVars,
                                               bootVars, offline, lock, plan>>

RelayObeys ==
  /\ cmds # <<>>
  /\ SetRelay(Head(cmds), FALSE)
  /\ cmds' = Tail(cmds)
  /\ UNCHANGED <<lost, sw, deviceVars, threadVars, bootVars, offline, lock, plan>>

LoseEvent ==
  /\ "event" \in Losses /\ events # <<>>
  /\ events' = Tail(events)
  /\ lost' = TRUE
  /\ UNCHANGED <<relay, cmds, sw, deviceVars, threadVars, bootVars, offline, lock, plan>>

\* control::OnOff::Switch, delivered: an HTTP request the relay executes, or a
\* message handed to the broker.
Deliver(on) ==
  IF Kind = "http" THEN SetRelay(on, FALSE) /\ UNCHANGED cmds
  ELSE /\ Len(cmds) < MaxQueue
       /\ cmds' = Append(cmds, on)
       /\ UNCHANGED <<relay, events>>

-----------------------------------------------------------------------------
(* The locked part of SetState and SetManualState, up to the Switch call.   *)

AfterSwitch(t)  == IF t = "manager" THEN "store" ELSE "manual"
AfterFailure(t) == IF t = "manager" THEN "expire" ELSE "idle"

SwitchSent(t) ==
  /\ pc[t] = "switch" /\ Free
  /\ Deliver(arg[t]) /\ UNCHANGED lost
  /\ lock' = t
  /\ Goto(t, AfterSwitch(t))
  /\ UNCHANGED <<sw, deviceVars, arg, event, dur, bootVars, offline, plan>>

\* Publish() ignores the result of mosquitto_publish: nothing is sent and the
\* caller goes on as if it had been.
SwitchDropped(t) ==
  /\ "request" \in Losses /\ Kind = "mqtt"
  /\ pc[t] = "switch" /\ Free
  /\ lost' = TRUE
  /\ lock' = t
  /\ Goto(t, AfterSwitch(t))
  /\ UNCHANGED <<relay, cmds, events, sw, deviceVars, arg, event, dur, bootVars,
                 offline, plan>>

\* The HTTP call throws, before or after the relay has obeyed; the exception
\* leaves the locked section with nothing stored.
SwitchFailed(t) ==
  /\ "request" \in Losses /\ Kind = "http"
  /\ pc[t] = "switch" /\ Free
  /\ Deliver(arg[t]) \/ UNCHANGED <<relay, cmds, events>>
  /\ lost' = TRUE
  /\ Drop(t, AfterFailure(t))
  /\ dur' = [c \in Clients |-> IF c = t THEN 0 ELSE dur[c]]
  /\ UNCHANGED <<sw, deviceVars, event, bootVars, offline, lock, plan>>

\* state = new_state; the end of the locked section.
Store(t) ==
  /\ pc[t] = "store" /\ Holds(t)
  /\ state' = arg[t]
  /\ lock' = NoThread
  /\ Drop(t, IF t = "manager" THEN "expire" ELSE "idle")
  /\ UNCHANGED <<relayVars, sw, manual, timeout, age, event, dur, bootVars,
                 offline, plan>>

-----------------------------------------------------------------------------
(* An API worker: the "setstate" command. *)

\* A new command arrives at an idle worker.
CommandManual(c) ==
  /\ pc[c] = "idle"
  /\ \E order \in Orders[c] :
       /\ arg' = [arg EXCEPT ![c] = order.on]
       /\ dur' = [dur EXCEPT ![c] = order.for]
  /\ Goto(c, "switch")
  /\ UNCHANGED <<relayVars, sw, deviceVars, event, bootVars, offline, lock, plan>>

CommandAuto(c) ==
  /\ pc[c] = "idle"
  /\ Goto(c, "auto")
  /\ UNCHANGED <<relayVars, sw, deviceVars, arg, event, dur, bootVars, offline, lock, plan>>

SetManualMode(c) ==
  /\ pc[c] = "manual" /\ Holds(c)
  /\ manual' = TRUE
  /\ Goto(c, "timeout")
  /\ UNCHANGED <<relayVars, sw, state, timeout, age, arg, event, dur, bootVars,
                 offline, lock, plan>>

SetManualTimeout(c) ==
  /\ pc[c] = "timeout" /\ Holds(c)
  /\ timeout' = dur[c]
  /\ age' = 0
  /\ dur' = [dur EXCEPT ![c] = 0]
  /\ Goto(c, "store")
  /\ UNCHANGED <<relayVars, sw, state, manual, arg, event, bootVars,
                 offline, lock, plan>>

\* SetAutoState takes no lock.
SetAutoMode(c) ==
  /\ pc[c] = "auto"
  /\ manual' = FALSE
  /\ Goto(c, "auto2")
  /\ UNCHANGED <<relayVars, sw, state, timeout, age, arg, event, dur, bootVars,
                 offline, lock, plan>>

\* Mutant: the mode is reset, its duration is not.
ClearTimeoutForgotten(c) ==
  /\ pc[c] = "auto2"
  /\ Goto(c, "idle")
  /\ UNCHANGED <<relayVars, sw, deviceVars, arg, event, dur, bootVars, offline,
                 lock, plan>>

ClearTimeout(c) ==
  /\ pc[c] = "auto2"
  /\ timeout' = 0 /\ age' = 0
  /\ Goto(c, "idle")
  /\ UNCHANGED <<relayVars, sw, state, manual, arg, event, dur, bootVars,
                 offline, lock, plan>>

Switch(t) == SwitchSent(t) \/ SwitchDropped(t) \/ SwitchFailed(t)

Command(c) == CommandManual(c) \/ CommandAuto(c)
Worker(c)  == \/ Switch(c) \/ SetManualMode(c) \/ SetManualTimeout(c) \/ Store(c)
              \/ SetAutoMode(c) \/ ClearTimeout(c)

-----------------------------------------------------------------------------
(* One iteration of the devices manager, for this device. *)

\* Mutant: the schedule applies to a manual device too.
DecideIgnoringManual ==
  /\ pc["manager"] = "idle"
  /\ Goto("manager", IF plan = "OFFLOAD" THEN "offload" ELSE "read")
  /\ UNCHANGED <<relayVars, sw, deviceVars, arg, event, dur, bootVars, offline, lock, plan>>

\* GetWantedState: a manual device, like one inside its min_on or min_off time,
\* is to stay as it is; an offline one is skipped.
Decide ==
  /\ pc["manager"] = "idle"
  /\ \/ /\ offline
        /\ Goto("manager", "expire") /\ UNCHANGED arg
     \/ /\ ~offline /\ (manual \/ plan = "UNCHANGED")
        /\ Goto("manager", "read") /\ UNCHANGED arg
     \/ /\ ~offline /\ ~manual /\ plan = "OFFLOAD"
        /\ Goto("manager", "offload") /\ UNCHANGED arg
     \/ /\ ~offline /\ ~manual /\ plan \in {"ON", "OFF"}
        /\ arg' = [arg EXCEPT !["manager"] = (plan = "ON")]
        /\ Goto("manager", "check")
  /\ UNCHANGED <<relayVars, sw, deviceVars, event, dur, bootVars, offline, lock, plan>>

\* forced_devices.insert({device, device->GetState()})
ReadState ==
  /\ pc["manager"] = "read"
  /\ arg' = [arg EXCEPT !["manager"] = state]
  /\ Goto("manager", "check")
  /\ UNCHANGED <<relayVars, sw, deviceVars, event, dur, bootVars, offline, lock, plan>>

\* AlgoOffload chooses, unless the cooldown defers it.
Offload ==
  /\ pc["manager"] = "offload"
  /\ \/ /\ \E on \in BOOLEAN : arg' = [arg EXCEPT !["manager"] = on]
        /\ Goto("manager", "check")
     \/ Goto("manager", "expire") /\ UNCHANGED arg
  /\ UNCHANGED <<relayVars, sw, deviceVars, event, dur, bootVars, offline, lock, plan>>

\* if(device->GetState()!=new_state) device->SetState(new_state), unlocked.
Check ==
  /\ pc["manager"] = "check"
  /\ \/ state = arg["manager"] /\ Drop("manager", "expire")
     \/ state # arg["manager"] /\ Goto("manager", "switch") /\ UNCHANGED arg
  /\ UNCHANGED <<relayVars, sw, deviceVars, event, dur, bootVars, offline, lock, plan>>

\* Mutant: a manual device is skipped.
ExpireIfAutomatic ==
  /\ pc["manager"] = "expire"
  /\ Goto("manager", IF timeout = 0 \/ manual THEN "idle" ELSE "recheck")
  /\ UNCHANGED <<relayVars, sw, deviceVars, arg, event, dur, bootVars, offline, lock, plan>>

\* SpecificActions reads manual_timeout before taking the lock.
Expire ==
  /\ pc["manager"] = "expire"
  /\ Goto("manager", IF timeout = 0 THEN "idle" ELSE "recheck")
  /\ UNCHANGED <<relayVars, sw, deviceVars, arg, event, dur, bootVars, offline, lock, plan>>

Recheck ==
  /\ pc["manager"] = "recheck" /\ Free
  /\ \/ /\ age >= timeout
        /\ manual' = FALSE
        /\ lock' = "manager"
        /\ Goto("manager", "auto2")
     \/ /\ age < timeout
        /\ Goto("manager", "idle") /\ UNCHANGED <<manual, lock>>
  /\ UNCHANGED <<relayVars, sw, state, timeout, age, arg, event, dur, bootVars,
                 offline, plan>>

\* Mutant: the mutex is not released.
EndManualKeepingLock ==
  /\ pc["manager"] = "auto2" /\ Holds("manager")
  /\ timeout' = 0 /\ age' = 0
  /\ Goto("manager", "idle")
  /\ UNCHANGED <<relayVars, sw, state, manual, arg, event, dur, bootVars,
                 offline, lock, plan>>

EndManual ==
  /\ pc["manager"] = "auto2" /\ Holds("manager")
  /\ timeout' = 0 /\ age' = 0
  /\ lock' = NoThread
  /\ Goto("manager", "idle")
  /\ UNCHANGED <<relayVars, sw, state, manual, arg, event, dur, bootVars,
                 offline, plan>>

Manager == \/ Decide \/ ReadState \/ Offload \/ Check \/ Switch("manager")
           \/ Store("manager") \/ Expire \/ Recheck \/ EndManual

-----------------------------------------------------------------------------
(* sensor_changed("switch"), up to the store: shared by poller and dispatcher. *)

Apply(t) ==
  /\ manual' = (manual \/ sw.manual)
  /\ arg' = [arg EXCEPT ![t] = sw.on]
  /\ Goto(t, "store")
  /\ UNCHANGED <<relayVars, sw, state, timeout, age, dur, bootVars, offline, plan>>

(* The sensors manager: SensorsForceUpdate, the request made unlocked. *)

PollRead ==
  /\ Kind = "http"
  /\ pc["poller"] = "idle"
  /\ arg' = [arg EXCEPT !["poller"] = relay]
  /\ Goto("poller", "reply")
  /\ UNCHANGED <<relayVars, sw, deviceVars, event, dur, bootVars, offline, lock, plan>>

PollFailed ==
  /\ "request" \in Losses /\ Kind = "http"
  /\ pc["poller"] \in {"idle", "reply"}
  /\ offline' = TRUE
  /\ Drop("poller", "idle")
  /\ UNCHANGED <<relayVars, sw, deviceVars, event, dur, bootVars, lock, plan>>

\* Mutant: a device that answers again stays offline.
PollReplyStillOffline ==
  /\ pc["poller"] = "reply"
  /\ sw' = [sw EXCEPT !.on = arg["poller"]]
  /\ Drop("poller", "apply")
  /\ UNCHANGED <<relayVars, deviceVars, event, dur, bootVars, offline, lock, plan>>

\* Mutant: the device is told only when the sensor's copy has changed.
PollReplyIfChanged ==
  /\ pc["poller"] = "reply"
  /\ sw' = [sw EXCEPT !.on = arg["poller"]]
  /\ offline' = FALSE
  /\ Drop("poller", IF sw.on = arg["poller"] THEN "idle" ELSE "apply")
  /\ UNCHANGED <<relayVars, deviceVars, event, dur, bootVars, lock, plan>>

PollReply ==
  /\ pc["poller"] = "reply"
  /\ sw' = [sw EXCEPT !.on = arg["poller"]]
  /\ offline' = FALSE
  /\ Drop("poller", "apply")
  /\ UNCHANGED <<relayVars, deviceVars, event, dur, bootVars, lock, plan>>

PollApply ==
  /\ pc["poller"] = "apply" /\ Free
  /\ lock' = "poller"
  /\ Apply("poller")
  /\ UNCHANGED event

Poller == PollRead \/ PollFailed \/ PollReply \/ PollApply \/ Store("poller")

-----------------------------------------------------------------------------
(* The MQTT dispatcher: DispatchMQTTMessage, under the lock. *)

\* Mutant: a message that finds the device locked is dropped.
DispatchIfUnlocked ==
  /\ pc["dispatcher"] = "idle" /\ events # <<>>
  /\ event' = Head(events) /\ events' = Tail(events)
  /\ sw' = [on |-> Head(events).on, manual |-> Head(events).button]
  /\ IF Free THEN lock' = "dispatcher" /\ Goto("dispatcher", "apply")
     ELSE UNCHANGED <<lock, pc>>
  /\ UNCHANGED <<relay, cmds, lost, deviceVars, arg, dur, bootVars, offline, plan>>

\* Mutant: an event that names no button leaves the sensor's manual flag alone.
DispatchStickyButton ==
  /\ pc["dispatcher"] = "idle" /\ Free /\ events # <<>>
  /\ event' = Head(events) /\ events' = Tail(events)
  /\ sw' = [on |-> Head(events).on, manual |-> sw.manual \/ Head(events).button]
  /\ lock' = "dispatcher" /\ Goto("dispatcher", "apply")
  /\ UNCHANGED <<relay, cmds, lost, deviceVars, arg, dur, bootVars, offline, plan>>

Dispatch ==
  /\ pc["dispatcher"] = "idle" /\ Free
  /\ events # <<>>
  /\ event' = Head(events)
  /\ events' = Tail(events)
  /\ sw' = [on |-> Head(events).on, manual |-> Head(events).button]
  /\ lock' = "dispatcher"
  /\ Goto("dispatcher", "apply")
  /\ UNCHANGED <<relay, cmds, lost, deviceVars, arg, dur, bootVars, offline, plan>>

DispatchApply ==
  /\ pc["dispatcher"] = "apply" /\ Holds("dispatcher")
  /\ Apply("dispatcher")
  /\ event' = NoEvent
  /\ UNCHANGED lock

Dispatcher == Dispatch \/ DispatchApply \/ Store("dispatcher")

-----------------------------------------------------------------------------
(* Time, the schedule, and restarts. *)

Tick ==
  /\ age < timeout
  /\ age' = age + 1
  /\ UNCHANGED <<relayVars, sw, state, manual, timeout, threadVars, bootVars,
                 offline, lock, plan>>

Replan ==
  /\ plan' \in Plans \ {plan}
  /\ UNCHANGED <<relayVars, sw, deviceVars, threadVars, bootVars, offline, lock>>

Backup == [state |-> state, manual |-> manual]

\* A new process restores what the last clean stop saved.  What happened to the
\* relay meanwhile was announced to nobody.
Boot(backup) ==
  /\ restarts < MaxRestarts
  /\ restarts' = restarts + 1
  /\ saved' = backup
  /\ state' = backup.state /\ manual' = backup.manual
  /\ timeout' = 0 /\ age' = 0
  /\ sw' = NoCopy
  /\ offline' = FALSE
  /\ lock' = NoThread
  /\ pc' = [t \in Threads |-> "idle"] /\ arg' = [t \in Threads |-> FALSE]
  /\ dur' = [c \in Clients |-> 0] /\ event' = NoEvent
  /\ events' = <<>>
  /\ relay' \in BOOLEAN
  /\ UNCHANGED <<cmds, plan>>
  /\ lost' = TRUE

Restart == (\A t \in Threads : pc[t] = "idle") /\ Boot(Backup)
Crash   == Boot(saved)

-----------------------------------------------------------------------------
Next == \/ \E c \in Clients : Command(c) \/ Worker(c)
        \/ Manager \/ Poller \/ Dispatcher
        \/ Button \/ RelayObeys \/ LoseEvent
        \/ Tick \/ Replan \/ Restart \/ Crash

Spec == Init /\ [][Next]_vars

(***************************************************************************)
(* Fairness.  A thread of the program goes on: the mutex is handed round,  *)
(* so a thread that keeps finding it free gets it.  Its holders return: an *)
(* HTTP request made under the lock is answered or fails, which the code   *)
(* asks of the network (http::HTTP::Post sets CURLOPT_CONNECTTIMEOUT, and  *)
(* no limit on the whole transfer).  Time passes, the relay takes its      *)
(* commands, and a request that is retried for ever is answered some time. *)
(* Nothing obliges a client, a button, the schedule, a loss or a restart   *)
(* to happen.                                                              *)
(***************************************************************************)
Fairness ==
  /\ \A c \in Clients : SF_vars(Worker(c))
  /\ SF_vars(Manager) /\ SF_vars(Dispatcher)
  /\ Kind = "http" => SF_vars(Poller)
  /\ SF_vars(RelayObeys) /\ WF_vars(Tick)

FairSpec == Spec /\ Fairness

-----------------------------------------------------------------------------
(* Properties. *)

\* From some time on nobody touches the button and the network works.
Disturbance == Button \/ LoseEvent \/ PollFailed
               \/ \E t \in Threads : SwitchDropped(t) \/ SwitchFailed(t)
Undisturbed == <>[][~Disturbance]_vars
Unattended == \A c \in Clients : pc[c] = "idle"
AtRest == \A t \in Threads : pc[t] = "idle"

Settled == AtRest /\ cmds = <<>> /\ events = <<>>

\* What the program believes is what the relay does: once every message has
\* been delivered and no thread is half-way, OnOff::state is the output of the
\* relay (SetState, SetManualState and DispatchMQTTMessage under one lock).
SettledStateMatchesRelay ==
  Settled /\ ~lost => state = relay

\* A device leaves automatic mode for a reason: a client's command, or an event
\* of the relay that says its button was pressed, or a start that finds a manual
\* mode saved; never because an earlier event said so.
AutoEndsOnPurpose ==
  [][(~manual /\ manual') =>
       \/ \E c \in Clients : pc[c] = "manual"
       \/ pc["dispatcher"] = "apply" /\ event.button
       \/ saved.manual /\ restarts' = restarts + 1]_vars

\* A permanent manual command is not ended by the manager: SpecificActions only
\* ends a manual mode that has a duration.
ExpiryOnlyOfTimedManual ==
  [][(manual /\ ~manual' /\ pc["manager"] = "recheck") => timeout > 0]_vars

\* A manual command with a duration does not last for ever, whatever other clients
\* do meanwhile: the device returns to automatic mode, unless a client commands it
\* again first, or a restart forgets the duration (SpecificActions; manual_timeout is
\* not saved).  SetAutoState takes no lock (OnOff.cpp:189): one that is half-way when the
\* command is stored, or that has already reset its duration, leaves the device manual
\* for good; no other can.
TimedManualEnds ==
  \A r \in 0..MaxRestarts :
    (/\ timeout > 0 /\ restarts = r
     /\ \E c \in Clients : pc[c] = "store"
     /\ \A c \in Clients : pc[c] # "auto2")
    ~> (~manual \/ restarts # r \/ \E c \in Clients : pc[c] = "switch")

\* A manual device loses its duration without returning to automatic mode in three
\* ways only: a command for good, the second half of a client's SetAutoState that
\* comes after the command, or a restart.  The manager's SpecificActions, an order or
\* an event of the relay never leaves a timed manual mode without its end.
DurationIsKept ==
  [][(manual /\ timeout > 0 /\ manual' /\ timeout' = 0) =>
       \/ \E c \in Clients : pc[c] = "timeout" /\ dur[c] = 0
       \/ \E c \in Clients : pc[c] = "auto2"
       \/ restarts' = restarts + 1]_vars

\* A device left in manual mode comes to rest: the schedule may change for ever,
\* the relay in the end does not.
ManualComesToRest ==
  (<>[](manual /\ Unattended) /\ Undisturbed) => (<>[]relay \/ <>[]~relay)

\* A device left in automatic mode obeys its schedule in the end, through failed
\* requests, lost events, stale polls and restarts.
AutoModeConverges ==
  (<>[](~manual /\ plan = "ON" /\ Unattended) /\ Undisturbed) => <>[]relay

\* Polling keeps the program informed: it never stays wrong about the relay.
BeliefRecovers == (Undisturbed /\ <>[]Unattended) => []<>(state = relay)

\* Every command a client starts is answered, whatever the relay does.
CommandsEnd ==
  \A c \in {d \in Clients : Orders[d] # {}} : pc[c] = "switch" ~> pc[c] = "idle"

-----------------------------------------------------------------------------
(***************************************************************************)
(* What the device promises.  The thread that holds the mutex has done what *)
(* it is about to do; a return to automatic mode is done once its first    *)
(* half is; the rest is as it stands.                                      *)
(***************************************************************************)
Holding(labels) == lock \in Threads /\ pc[lock] \in labels

stateOf  == IF Holding({"manual", "timeout", "store"}) THEN arg[lock] ELSE state
manualOf == Holding({"manual"}) \/ manual
Returning == \E t \in Threads : pc[t] = "auto2"
timeoutOf == IF Holding({"manual", "timeout"}) THEN dur[lock]
             ELSE IF Returning THEN 0 ELSE timeout
ageOf == IF Holding({"manual", "timeout"}) \/ Returning THEN 0 ELSE age
answerOf == IF pc["poller"] = "reply" THEN {arg["poller"]} ELSE {}
toldOf == {t \in {"poller", "dispatcher"} : pc[t] = "apply"}

Device == INSTANCE SwitchedDevice WITH
  state <- stateOf, manual <- manualOf, timeout <- timeoutOf, age <- ageOf,
  answer <- answerOf, told <- toldOf

\* Orders, commands and what the sensor tells are one step each, whoever acts
\* between the steps of their locked sections; and with a single client, so is a
\* return to automatic mode, which takes no lock.
ActsAtOnce == Device!Spec
=============================================================================
