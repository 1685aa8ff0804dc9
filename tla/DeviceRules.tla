----------------------------- MODULE DeviceRules -----------------------------
(***************************************************************************)
(* A device driven by its own rules (device::TimeRange, HWS, Temperature,  *)
(* CMV): time ranges in which it is forced, offloaded, or forced for what  *)
(* it lacks of a minimum (remainder); the least and the longest time to    *)
(* stay on or off; a temperature, a moisture, or for the water heater the  *)
(* energy it has had.  The devices manager asks the rules and drives the   *)
(* relay every second, a button and API commands come in between.  The     *)
(* time on is kept by OnOff::clock and TimespanHistory, and in t_log_state *)
(* over restarts.                                                          *)
(*                                                                         *)
(* How a manual mode ends, and the order of relay events, is the matter of *)
(* module OnOff; which devices are offloaded, of DevicesManager.           *)
(***************************************************************************)
EXTENDS Naturals, Sequences, SequencesExt, FiniteSets

CONSTANTS Kinds,          \* of devices: a subset of Rules
          Start, MaxTime, \* bound: seconds, from the start of the program
          Forced, Offload, Remainder, \* the seconds of the time ranges
          MinOn, MaxOn, MinOff,      \* min_on, max_on (0 is none), min_off
          MinOnTime, MinOnForLast,   \* what remainder provides for
          Retention,      \* of the history
          MaxDisturbances \* bound: commands, buttons, failures, restarts

Rules == {"timerange", "hws", "temperature", "cmv"}
Clock == Start..MaxTime

ASSUME RulesAssumption ==
  /\ Kinds \subseteq Rules
  /\ {Start, MaxTime, MinOn, MaxOn, MinOff, MinOnTime, MinOnForLast, Retention,
      MaxDisturbances} \subseteq Nat /\ Start <= MaxTime
  /\ Forced \cup Offload \cup Remainder \subseteq Clock
  \* The program starts when the machine has been up for long enough.
  /\ \A limit \in {MinOn, MaxOn, MinOff} : limit < Start
  \* GetTotalForLast throws otherwise.
  /\ MinOnForLast <= Retention

OnHistory == INSTANCE TimespanHistory

VARIABLES now, driven,     \* the clock; whether the manager has had its turn
          kind, present,   \* the device; whether its thermometers exist
          needs,           \* the ranges whose temperature, moisture or energy is not
                          \* reached
          relay, state, manual,
          last_on, last_off, on_history, rows,
          saved,           \* t_device_state: [state, manual]
          wanted,          \* the manager's answer from the rules, or "none"
          on_seconds,      \* ghost: the seconds the relay was on
          since,           \* ghost: when the manager last turned the relay on
          disturbed,       \* ghost: something else than the rules acted
          astray,          \* ghost: the relay changed without the program
          disturbances

clock    == <<now, driven>>
device   == <<relay, state, manual>>
times    == <<last_on, last_off, on_history, rows>>
inputs   == <<kind, present, needs>>
ghosts   == <<on_seconds, since, disturbed, astray>>
vars == <<clock, inputs, device, times, saved, wanted, ghosts, disturbances>>

Span == [from : Clock, to : Clock \cup {0}]
Row == [at : Clock, on : BOOLEAN]

TypeOK ==
  /\ now \in Clock /\ driven \in BOOLEAN /\ kind \in Kinds /\ present \in BOOLEAN
  /\ needs \subseteq {"force", "offload", "energy"}
  /\ relay \in BOOLEAN /\ state \in BOOLEAN /\ manual \in BOOLEAN
  /\ last_on \in Clock \cup {0} /\ last_off \in Clock \cup {0}
  /\ on_history \in Seq(Span) /\ rows \in Seq(Row)
  /\ saved \in [state : BOOLEAN, manual : BOOLEAN]
  /\ wanted \in {"none", "on", "off", "offload"}
  /\ on_seconds \subseteq Clock /\ since \in Clock \cup {0}
  /\ disturbed \in BOOLEAN /\ astray \in BOOLEAN
  /\ disturbances \in 0..MaxDisturbances

\* What may be measured: a water heater in absence mode needs no energy.
Measures ==
  CASE kind = "timerange" -> {{}}
    [] kind = "hws" -> {{}, {"energy"}}
    [] kind \in {"temperature", "cmv"} -> SUBSET {"force", "offload"}

\* A timestamp that was never set is 0: ago by more than any limit.
Init ==
  /\ now = Start /\ driven = FALSE
  /\ kind \in Kinds /\ present = TRUE /\ needs \in Measures
  /\ relay = FALSE /\ state = FALSE /\ manual = FALSE
  /\ last_on = 0 /\ last_off = 0 /\ on_history = <<>> /\ rows = <<>>
  /\ saved = [state |-> FALSE, manual |-> FALSE] /\ wanted = "none"
  /\ on_seconds = {} /\ since = 0 /\ disturbed = FALSE /\ astray = FALSE
  /\ disturbances = 0

-----------------------------------------------------------------------------
(* Time and measurements. *)

\* A second passes.  The manager has an iteration every second.
Tick ==
  /\ now < MaxTime /\ driven /\ wanted = "none"
  /\ now' = now + 1 /\ driven' = FALSE
  /\ on_seconds' = IF relay THEN on_seconds \cup {now} ELSE on_seconds
  /\ UNCHANGED <<inputs, device, times, saved, wanted, since, disturbed, astray, disturbances>>

\* The temperature, the moisture or the energy of the last days changes.
Measure ==
  /\ ~ driven /\ wanted = "none"
  /\ needs' \in Measures
  /\ UNCHANGED <<clock, kind, present, device, times, saved, wanted, ghosts, disturbances>>

-----------------------------------------------------------------------------
(* The rules. *)

IsForced    == now \in Forced
WantOffload == now \in Offload

OnTotal == Cardinality(OnHistory!CoveredForLast(on_history, MinOnForLast, now))

\* HWS looks at the energy instead of the time.
WantRemainder ==
  /\ now \in Remainder
  /\ IF kind = "hws" THEN "energy" \in needs ELSE OnTotal < MinOnTime

\* Mutant: only the time off is looked at.
StaysOff == manual \/ (~ state /\ now - last_off < MinOff)

\* "unchanged": manual, on for too short, or off for too short.
Stays ==
  \/ manual
  \/ state /\ now - last_on < MinOn
  \/ ~ state /\ now - last_off < MinOff

TooLongOn == state /\ MaxOn > 0 /\ now - last_on > MaxOn

\* Mutant: the longest time on is not looked at.
TimeRangeWantsForEver ==
  CASE Stays -> "unchanged"
    [] ~ Stays /\ (IsForced \/ WantRemainder) -> "on"
    [] ~ Stays /\ ~ (IsForced \/ WantRemainder) /\ WantOffload -> "offload"
    [] OTHER -> "off"

\* Mutant: an offload range hides a remainder range.
TimeRangeWantsOffloadFirst ==
  CASE Stays -> "unchanged"
    [] ~ Stays /\ TooLongOn -> "off"
    [] ~ Stays /\ ~ TooLongOn /\ ~ IsForced /\ WantOffload -> "offload"
    [] ~ Stays /\ ~ TooLongOn /\ (IsForced \/ (~ WantOffload /\ WantRemainder)) -> "on"
    [] OTHER -> "off"

\* TimeRange::get_wanted_state.
TimeRangeWants ==
  CASE Stays -> "unchanged"
    [] ~ Stays /\ TooLongOn -> "off"
    [] ~ Stays /\ ~ TooLongOn /\ (IsForced \/ WantRemainder) -> "on"
    [] ~ Stays /\ ~ TooLongOn /\ ~ (IsForced \/ WantRemainder) /\ WantOffload -> "offload"
    [] OTHER -> "off"

\* Temperature asks for an offload again when the rules have answered "off".
TemperatureWants ==
  CASE TimeRangeWants = "unchanged" -> "unchanged"
    [] TimeRangeWants = "on" /\ "force" \in needs -> "on"
    [] (TimeRangeWants = "offload" \/ WantOffload) /\ "offload" \in needs
       /\ ~ (TimeRangeWants = "on" /\ "force" \in needs)
       /\ TimeRangeWants # "unchanged" -> "offload"
    [] OTHER -> "off"

CMVWants ==
  CASE TimeRangeWants = "unchanged" -> "unchanged"
    [] TimeRangeWants = "on" /\ "force" \in needs -> "on"
    [] TimeRangeWants = "offload" /\ "offload" \in needs -> "offload"
    [] OTHER -> "off"

\* Without its thermometer or hygrometers a device is turned off.
GetWantedState ==
  CASE kind \in {"timerange", "hws"} -> TimeRangeWants
    [] kind \in {"temperature", "cmv"} /\ ~ present -> "off"
    [] kind = "temperature" /\ present -> TemperatureWants
    [] kind = "cmv" /\ present -> CMVWants

-----------------------------------------------------------------------------
(* OnOff::SetState. *)

\* Mutant: clock is called when the state has changed already.
ClockToLate(on) == UNCHANGED <<last_on, last_off, on_history>>

\* OnOff::clock: the history and the last times change with the state.
ClockTo(on) ==
  IF on = state
  THEN UNCHANGED <<last_on, last_off, on_history>>
  ELSE /\ on_history' = IF on THEN OnHistory!ClockedIn(on_history, now)
                               ELSE OnHistory!ClockedOut(on_history, now, now)
       /\ last_on'  = IF on THEN now ELSE last_on
       /\ last_off' = IF on THEN last_off ELSE now

\* The relay obeys, the time is kept, the change is logged.
Switch(on) ==
  /\ relay' = on /\ state' = on
  /\ ClockTo(on)
  /\ rows' = Append(rows, [at |-> now, on |-> on])

Keep == UNCHANGED <<relay, state, times>>

\* When the manager turned on what is on now, 0 without its thermometer.
SinceFor(on) == IF on = state THEN since ELSE IF on /\ present THEN now ELSE 0

-----------------------------------------------------------------------------
(* The devices manager. *)

\* It asks the device; "unchanged" is the state of the moment.
Ask ==
  /\ ~ driven /\ wanted = "none"
  /\ wanted' = IF GetWantedState = "unchanged"
               THEN IF state THEN "on" ELSE "off"
               ELSE GetWantedState
  /\ UNCHANGED <<clock, inputs, device, times, saved, ghosts, disturbances>>

Done == wanted' = "none" /\ driven' = TRUE

Apply(on) ==
  /\ IF on = state THEN Keep ELSE Switch(on)
  /\ since' = SinceFor(on)
  /\ Done
  /\ UNCHANGED <<now, inputs, manual, saved, on_seconds, disturbed, astray, disturbances>>

\* AlgoForced.
ApplyForced ==
  \/ wanted = "on" /\ Apply(TRUE)
  \/ wanted = "off" /\ Apply(FALSE)

\* AlgoOffload turns the device on or off as there is power, ...
ApplyOffload == wanted = "offload" /\ \E on \in BOOLEAN : Apply(on)

\* ... unless the cooldown, or an exception for this or another device, leaves
\* it as it is.
Skip ==
  /\ wanted = "offload"
  /\ Done
  /\ UNCHANGED <<now, inputs, device, times, saved, ghosts, disturbances>>

-----------------------------------------------------------------------------
(* What else may happen. *)

Disturb ==
  /\ disturbances < MaxDisturbances
  /\ disturbances' = disturbances + 1
  /\ disturbed' = TRUE

\* The relay does not obey, and the manager goes on.
Fail ==
  /\ wanted \in {"on", "off"} /\ state # (wanted = "on")
  /\ Disturb
  /\ Done
  /\ UNCHANGED <<now, inputs, device, times, saved, on_seconds, since, astray>>

\* The relay obeys and the time is kept, but the database refuses the log's row.
FailToLog ==
  /\ wanted \in {"on", "off"} /\ state # (wanted = "on")
  /\ Disturb
  /\ relay' = (wanted = "on") /\ state' = relay' /\ ClockTo(relay')
  /\ since' = SinceFor(relay') /\ astray' = TRUE
  /\ Done
  /\ UNCHANGED <<now, inputs, manual, rows, saved, on_seconds>>

\* SetManualState, SetAutoState (or the end of a timed manual mode).
SetManualState(on) ==
  /\ Disturb
  /\ Switch(on) /\ manual' = TRUE
  /\ since' = 0
  /\ UNCHANGED <<clock, inputs, saved, wanted, on_seconds, astray>>

SetAutoState ==
  /\ manual
  /\ manual' = FALSE
  /\ UNCHANGED <<clock, inputs, relay, state, times, saved, wanted, ghosts, disturbances>>

\* The relay's button; sensor_changed takes the relay's state and keeps no time.
Button ==
  /\ Disturb
  /\ relay' = ~ relay /\ state' = ~ relay /\ manual' = TRUE
  /\ since' = 0 /\ astray' = TRUE
  /\ UNCHANGED <<clock, inputs, times, saved, wanted, on_seconds>>

\* The poll of the relay: sensor_changed again.
Poll ==
  /\ state # relay
  /\ state' = relay
  /\ UNCHANGED <<clock, inputs, relay, manual, times, saved, wanted, ghosts, disturbances>>

\* The thermometer is deleted, or created again; what the rules owe the device
\* ends with it.
ChangeThermometer ==
  /\ kind \in {"temperature", "cmv"}
  /\ Disturb
  /\ present' = ~ present /\ since' = 0
  /\ UNCHANGED <<clock, kind, needs, device, times, saved, wanted, on_seconds, astray>>

\* The device a start builds from its rows.
Load(row) ==
  /\ state' = row.state /\ manual' = row.manual
  /\ last_on' = 0 /\ last_off' = 0
  /\ on_history' = OnHistory!Reloaded(rows, now)
  /\ wanted' = "none" /\ driven' = FALSE
  /\ UNCHANGED <<now, inputs, relay, rows, on_seconds>>

\* In memory a span is kept by its end, in the database by its beginning: one that
\* began before what is kept is not read again.
CutShort == \E i \in DOMAIN on_history : on_history[i].from + Retention < now

\* The program ends and starts again.
Restart ==
  /\ Disturb
  /\ saved' = [state |-> state, manual |-> manual]
  /\ Load(saved')
  /\ since' = 0 /\ astray' = (astray \/ CutShort)

\* It is killed: the saved state is that of an earlier end.
Kill ==
  /\ Disturb
  /\ UNCHANGED saved
  /\ Load(saved)
  /\ since' = 0 /\ astray' = (astray \/ CutShort \/ saved.state # relay)

Next ==
  \/ Tick \/ Measure \/ Ask
  \/ ApplyForced \/ ApplyOffload \/ Skip \/ Fail \/ FailToLog
  \/ \E on \in BOOLEAN : SetManualState(on)
  \/ SetAutoState \/ Button \/ Poll \/ ChangeThermometer
  \/ Restart \/ Kill

Spec == Init /\ [][Next]_vars

-----------------------------------------------------------------------------
(* Properties. *)

\* The history has the seconds the relay was on, after failures, commands and
\* restarts, unless the relay was switched without the program.
OnTimeIsCounted ==
  ~ astray =>
    OnHistory!CoveredForLast(on_history, MinOnForLast, now)
      = {t \in on_seconds : t + MinOnForLast >= now}

\* A device that was left to its rules has had its minimum at the end of the
\* remainder range, within that range or the time the range looks back to, if the
\* range is longer than what it lacks at worst, and the time to stay off.
FirstOf(range) == CHOOSE t \in range : \A u \in range : t <= u
LastOf(range)  == CHOOSE t \in range : \A u \in range : u <= t
OneRange == Remainder \in {from..to : from, to \in Clock}
RemainderIsMade ==
  (/\ ~ disturbed /\ kind = "timerange"
   /\ MaxOn = 0 \/ MinOnTime <= MaxOn
   /\ OneRange /\ Cardinality(Remainder) > MinOnTime + MinOff
   /\ now > LastOf(Remainder))
    => Cardinality({t \in on_seconds : t + MinOnForLast >= FirstOf(Remainder)}) >= MinOnTime

\* The rules never turn off a device they have turned on less than min_on
\* seconds ago, unless the thermometer was deleted.
MinOnIsKept ==
  [][relay /\ ~ relay' /\ wanted # "none" /\ wanted' = "none" /\ since > 0
       => now - since >= MinOn]_vars

\* After the manager's turn a device the rules have turned on has not been on
\* for longer than max_on, but for a device with a temperature.
MaxOnIsObserved ==
  driven /\ ~ disturbed /\ relay /\ kind # "temperature" /\ MaxOn > 0
    => now - since <= MaxOn

=============================================================================
