--------------------------- MODULE SwitchedDevice ---------------------------
(***************************************************************************)
(* What a switchable device promises to those that use it, without its     *)
(* mutex, its threads and the steps of its locked sections (OnOff): an     *)
(* order, a manual command and what its sensor tells take effect at once,  *)
(* for the command that is sent, the state and the mode together.  This is *)
(* the device DevicesManager and Battery take for granted.                 *)
(*                                                                         *)
(* Two things it does not promise.  The switch sensor is a little ahead of *)
(* its device.  And when a client returns the device to automatic mode     *)
(* while another commands it, half of the return may be lost.              *)
(***************************************************************************)
EXTENDS Naturals, Sequences

CONSTANTS Clients,    \* clients that may command the device
          Kind,       \* "http" or "mqtt"
          Losses,     \* what may be lost: requests to the relay, its events
          MaxTimeout  \* bound: the longest manual duration

VARIABLES relay, cmds, events,         \* the relay, what is on its way to and from it
          state, manual, timeout, age, \* the device
          sw,                          \* its switch sensor
          answer,                      \* what the relay has answered to a poll
          told,                        \* who has news of the sensor for the device
          saved                        \* the state a start restores

wire == <<relay, cmds, events>>
mode == <<manual, timeout, age>>
news == <<sw, answer, told>>
vars == <<wire, state, mode, news, saved>>

NoCopy == [on |-> FALSE, manual |-> FALSE]

Init ==
  /\ relay = FALSE /\ cmds = <<>> /\ events = <<>>
  /\ state = FALSE /\ manual = FALSE /\ timeout = 0 /\ age = 0
  /\ sw = NoCopy
  /\ answer = {} /\ told = {}
  /\ saved = [state |-> FALSE, manual |-> FALSE]

-----------------------------------------------------------------------------
(* The relay. *)

Turn(on, button) ==
  /\ relay' = on
  /\ events' = IF on = relay THEN events ELSE Append(events, [on |-> on, button |-> button])

Press == Turn(~relay, TRUE) /\ UNCHANGED <<cmds, state, mode, news, saved>>

Obey ==
  /\ cmds # <<>>
  /\ Turn(Head(cmds), FALSE) /\ cmds' = Tail(cmds)
  /\ UNCHANGED <<state, mode, news, saved>>

Forget ==
  /\ "event" \in Losses /\ events # <<>>
  /\ events' = Tail(events)
  /\ UNCHANGED <<relay, cmds, state, mode, news, saved>>

Deliver(on) == IF Kind = "http" THEN Turn(on, FALSE) /\ UNCHANGED cmds
               ELSE cmds' = Append(cmds, on) /\ UNCHANGED <<relay, events>>

\* A message may be lost without anybody noticing; an HTTP request is obeyed.
Send(on) == Deliver(on) \/ ("request" \in Losses /\ Kind = "mqtt" /\ UNCHANGED wire)

-----------------------------------------------------------------------------
(* The device. *)

\* An order of the devices manager.
Order(on) ==
  /\ Send(on) /\ state' = on
  /\ UNCHANGED <<mode, news, saved>>

\* A client's command, for d ticks or for good.
Command(on, d) ==
  /\ Send(on) /\ state' = on
  /\ manual' = TRUE /\ timeout' = d /\ age' = 0
  /\ UNCHANGED <<news, saved>>

\* A request that fails although the relay has obeyed.
Fail(on) ==
  /\ "request" \in Losses /\ Kind = "http"
  /\ Deliver(on)
  /\ UNCHANGED <<state, mode, news, saved>>

Automatic == manual' = FALSE /\ timeout' = 0 /\ age' = 0

\* A client, or a duration that has passed.
Return ==
  /\ Automatic
  /\ UNCHANGED <<wire, state, news, saved>>

\* SetAutoState takes no lock: the mode or the duration may be another client's.
HalfReturn ==
  /\ \/ manual' = FALSE /\ UNCHANGED <<timeout, age>>
     \/ timeout' = 0 /\ age' = 0 /\ UNCHANGED manual
  /\ UNCHANGED <<wire, state, news, saved>>

Tick ==
  /\ age < timeout /\ age' = age + 1
  /\ UNCHANGED <<wire, state, manual, timeout, news, saved>>

-----------------------------------------------------------------------------
(* The switch sensor and its device. *)

\* The oldest event reaches the sensor.
Hear ==
  /\ events # <<>> /\ "dispatcher" \notin told
  /\ events' = Tail(events)
  /\ sw' = [on |-> Head(events).on, manual |-> Head(events).button]
  /\ told' = told \cup {"dispatcher"}
  /\ UNCHANGED <<relay, cmds, state, mode, answer, saved>>

\* A poll: the relay is asked, gives no answer, or its answer reaches the sensor.
Ask ==
  /\ Kind = "http" /\ answer = {} /\ "poller" \notin told
  /\ answer' = {relay}
  /\ UNCHANGED <<wire, state, mode, sw, told, saved>>

GiveUp ==
  /\ "request" \in Losses /\ Kind = "http" /\ answer' = {}
  /\ UNCHANGED <<wire, state, mode, sw, told, saved>>

Reply ==
  /\ \E on \in answer : sw' = [sw EXCEPT !.on = on]
  /\ answer' = {} /\ told' = told \cup {"poller"}
  /\ UNCHANGED <<wire, state, mode, saved>>

\* The device follows its sensor; a button makes it manual.
Learn(t) ==
  /\ t \in told /\ told' = told \ {t}
  /\ state' = sw.on /\ manual' = (manual \/ sw.manual)
  /\ UNCHANGED <<wire, timeout, age, sw, answer, saved>>

-----------------------------------------------------------------------------
(* The program is started again. *)

Start(backup) ==
  /\ saved' = backup
  /\ state' = backup.state /\ manual' = backup.manual /\ timeout' = 0 /\ age' = 0
  /\ sw' = NoCopy /\ answer' = {} /\ told' = {}
  /\ events' = <<>> /\ relay' \in BOOLEAN /\ UNCHANGED cmds

Restart == told = {} /\ answer = {} /\ Start([state |-> state, manual |-> manual])
Crash   == Start(saved)

-----------------------------------------------------------------------------
Next ==
  \/ \E on \in BOOLEAN : Order(on) \/ Fail(on)
  \/ /\ Clients # {}
     /\ \E on \in BOOLEAN, d \in 0..MaxTimeout : Command(on, d)
  \/ /\ Clients # {} \/ age >= timeout
     /\ Return
  \/ /\ \E c, d \in Clients : c # d
     /\ HalfReturn
  \/ \E t \in told : Learn(t)
  \/ Hear \/ Ask \/ GiveUp \/ Reply
  \/ Press \/ Obey \/ Forget \/ Tick \/ Restart \/ Crash

Spec == Init /\ [][Next]_vars
=============================================================================
