------------------------------ MODULE Battery ------------------------------
(***************************************************************************)
(* The house battery (device::Battery), an OnOff device whose relay        *)
(* chooses the source of the house: ON is the grid, OFF the battery.       *)
(* The voltmeter's reports drive three decisions with hysteresis (backup,  *)
(* offload, charge); the devices manager turns them, the policy and the    *)
(* state of the grid into a source; clients command it by hand; a new      *)
(* configuration may reverse the relay; and the program restarts.          *)
(*                                                                         *)
(* The reports, SetState, SetManualState and Reload hold the device's      *)
(* mutex; GetWantedState reads without it, and both it and SetState pick   *)
(* the configuration they use before anything else.                        *)
(***************************************************************************)
EXTENDS Integers

CONSTANTS Levels,       \* states of charge the voltmeter may report
          Configs,      \* configurations the device may be given
          MinGridTime,  \* backup.min_grid_time, in ticks
          Cooldown      \* control.battery.cooldown, in ticks

Band == [on : BOOLEAN, low : Nat, high : Nat]

\* Battery::CheckConfig.
ASSUME ConfigsAssumption ==
  /\ Levels \subseteq Nat
  /\ Configs \subseteq [policy : {"GRID", "BATTERY", "OFFLOAD"}, reverted : BOOLEAN,
                        low : Nat, high : Nat, offload : Band, charge : Band]
  /\ \A c \in Configs : /\ c.low < c.high
                        /\ c.offload.on => c.offload.low < c.offload.high
                        /\ c.charge.on => c.charge.low < c.charge.high
ASSUME TimesAssumption == MinGridTime \in Nat /\ Cooldown \in Nat

VARIABLES config,
          soc, backup,    \* soc_state, of which only BACKUP is told apart
          allowed,        \* offload_state = ALLOWED
          charge,         \* charge_required
          state, manual,  \* OnOff::state (TRUE: grid), OnOff::manual
          relay,          \* output of the physical relay
          gridAge,        \* now - last_grid_switch, counted up to MinGridTime + 1
          onAge,          \* now - last_on, counted up to Cooldown + 1
          online,         \* Grid::grid_state is not OFFLINE
          inRange,        \* charge.timeranges.IsActive()
          reporting,      \* a report is half-way; its thread holds the mutex
          pc, wanted,     \* the manager: where it is, the state it is to set,
          seen,           \* the configuration it has picked (lconfig), and
          rested,         \* whether last_on, as it has read it, is old enough
          fresh           \* history: a report came since the last Reload or start

charging == <<soc, backup, allowed, charge, gridAge, reporting, fresh>>
switch   == <<state, manual, relay, onAge>>
manager  == <<pc, wanted, seen, rested>>
world    == <<online, inRange>>
vars     == <<config, charging, switch, manager, world>>

Unknown == -1
\* What the manager's locals hold while they hold nothing of use.
Nothing == CHOOSE c \in Configs : TRUE
Never   == Cooldown + 1

TypeOK ==
  /\ config \in Configs
  /\ soc \in Levels \cup {Unknown} /\ backup \in BOOLEAN
  /\ allowed \in BOOLEAN /\ charge \in BOOLEAN
  /\ state \in BOOLEAN /\ manual \in BOOLEAN /\ relay \in BOOLEAN
  /\ gridAge \in 0..(MinGridTime + 1) /\ onAge \in 0..Never
  /\ online \in BOOLEAN /\ inRange \in BOOLEAN
  /\ reporting \in BOOLEAN /\ fresh \in BOOLEAN
  /\ pc \in {"idle", "outage", "policy", "read", "check", "set"}
  /\ wanted \in BOOLEAN /\ seen \in Configs /\ rested \in BOOLEAN

\* A relay reversed by its controller.
Output(on, reverted) == on # reverted
\* The source of the house, as the configuration in force reads the relay.
OnGrid == relay # config.reverted

Init ==
  /\ config \in Configs
  /\ soc = Unknown /\ backup = FALSE /\ allowed = FALSE /\ charge = FALSE
  /\ state = FALSE /\ manual = FALSE
  /\ relay = Output(FALSE, config.reverted)
  /\ gridAge = 0 /\ onAge = Never
  /\ online \in BOOLEAN /\ inRange \in BOOLEAN
  /\ reporting = FALSE /\ fresh = FALSE
  /\ pc = "idle" /\ wanted = FALSE /\ seen = Nothing /\ rested = FALSE

-----------------------------------------------------------------------------
(* A report of the voltmeter: sensor_changed, under the mutex. *)

\* BACKUP below battery_low; out of it above battery_high, when the last switch is
\* not too recent.
ReportCharge ==
  /\ ~reporting
  /\ \E s \in Levels :
       LET low  == backup \/ s < config.low
           ends == low /\ s > config.high /\ gridAge > MinGridTime
       IN  /\ soc' = s
           /\ backup' = (low /\ ~ends)
           /\ gridAge' = IF ends THEN 0 ELSE gridAge
  /\ reporting' = TRUE
  /\ UNCHANGED <<config, allowed, charge, fresh, switch, manager, world>>

\* Mutant: the low threshold is forgotten.
AllowsForEver(band) == soc >= band.high \/ allowed

\* The two hystereses; charging has none out of its time ranges.
Allows(band)   == soc >= band.low /\ (soc >= band.high \/ allowed)
Requires(band) == soc < band.low \/ (inRange /\ soc < band.high /\ charge)

ReportBands ==
  /\ reporting
  /\ allowed' = IF config.offload.on THEN Allows(config.offload) ELSE allowed
  /\ charge'  = IF config.charge.on THEN Requires(config.charge) ELSE charge
  /\ reporting' = FALSE /\ fresh' = TRUE
  /\ UNCHANGED <<config, soc, backup, gridAge, switch, manager, world>>

Report == ReportCharge \/ ReportBands

-----------------------------------------------------------------------------
(* The devices manager. *)

Go(label) == pc' = label /\ wanted' = FALSE
Want(on)  == pc' = "check" /\ wanted' = on

\* Mutant: the manual mode comes before the backup mode.
StaysManual == soc = Unknown \/ manual
\* Mutant: the manual mode is not looked at.
StaysUnknown == soc = Unknown

StaysAsItIs == soc = Unknown \/ (manual /\ ~backup)

\* GetWantedState up to the manual mode; the configuration, last_on and the state of
\* the grid are picked here.
Decide ==
  /\ pc = "idle"
  /\ \/ StaysAsItIs /\ Go("read") /\ UNCHANGED <<seen, rested>>
     \/ /\ ~StaysAsItIs /\ Go(IF online THEN "policy" ELSE "outage")
        /\ seen' = config /\ rested' = (onAge > Cooldown)
  /\ UNCHANGED <<config, charging, switch, world>>

\* Mutant: an outage changes nothing.
IgnoresOutage ==
  /\ pc = "outage" /\ Go("policy")
  /\ UNCHANGED <<config, charging, switch, seen, rested, world>>

\* The grid is out; soc_state is read again.
FaceOutage ==
  /\ pc = "outage"
  /\ \/ ~backup /\ Want(FALSE) /\ seen' = Nothing /\ rested' = FALSE
     \/ backup /\ Go("policy") /\ UNCHANGED <<seen, rested>>
  /\ UNCHANGED <<config, charging, switch, world>>

\* Mutant: the grid charges during all of the time range.
ChargesAnyway == seen.charge.on /\ inRange
\* Mutant: it charges out of the range.
ChargesOutside == seen.charge.on /\ charge /\ ~inRange

ChargesNow == seen.charge.on /\ charge /\ inRange

\* GetWantedState, the policy; soc_state is read once more.  AlgoOffload chooses the
\* source of a battery that offloads, or the cooldown defers it.
DecideByPolicy ==
  /\ pc = "policy"
  /\ \/ (seen.policy = "GRID" \/ backup) /\ Want(TRUE)
     \/ seen.policy = "BATTERY" /\ ~backup /\ Want(ChargesNow)
     \/ /\ seen.policy = "OFFLOAD" /\ ~backup /\ (rested \/ onAge > Cooldown)
        /\ (\E on \in BOOLEAN : Want(on)) \/ Go("idle")
     \/ seen.policy = "OFFLOAD" /\ ~backup /\ ~rested /\ onAge <= Cooldown /\ Go("read")
  /\ seen' = Nothing /\ rested' = FALSE
  /\ UNCHANGED <<config, charging, switch, world>>

\* UNCHANGED stands for the state the device has when it is read.
ReadState ==
  /\ pc = "read"
  /\ Want(state)
  /\ UNCHANGED <<config, charging, switch, seen, rested, world>>

\* if(GetState()!=new_state) SetState(new_state), which picks the configuration, and
\* its controller, before it takes the mutex.
Check ==
  /\ pc = "check"
  /\ \/ state = wanted /\ Go("idle") /\ UNCHANGED seen
     \/ state # wanted /\ pc' = "set" /\ seen' = config /\ UNCHANGED wanted
  /\ UNCHANGED <<config, charging, switch, rested, world>>

\* The locked part of SetState and SetManualState.
Switch(on, reverted) ==
  /\ ~reporting
  /\ relay' = Output(on, reverted)
  /\ state' = on
  /\ onAge' = IF on /\ ~state THEN 0 ELSE onAge

Set ==
  /\ pc = "set"
  /\ Switch(wanted, seen.reverted)
  /\ Go("idle") /\ seen' = Nothing
  /\ UNCHANGED <<config, charging, manual, rested, world>>

\* The request fails, before or after the relay has obeyed.
SetFailed ==
  /\ pc = "set" /\ ~reporting
  /\ relay' \in {relay, Output(wanted, seen.reverted)}
  /\ Go("idle") /\ seen' = Nothing
  /\ UNCHANGED <<config, charging, rested, state, manual, onAge, world>>

Manager == Decide \/ FaceOutage \/ DecideByPolicy \/ ReadState \/ Check \/ Set

-----------------------------------------------------------------------------
(* Clients, the relay's button, and what the relay says of itself. *)

Manual(on) ==
  /\ Switch(on, config.reverted)
  /\ manual' = TRUE
  /\ UNCHANGED <<config, charging, manager, world>>

\* By command, or at the end of a manual mode with a duration.
Automatic ==
  /\ manual' = FALSE
  /\ UNCHANGED <<config, charging, state, relay, onAge, manager, world>>

\* The button of the relay; the event that says so may be lost.
Button ==
  /\ relay' = ~relay
  /\ \/ UNCHANGED <<state, manual>>
     \/ ~reporting /\ state' = ~OnGrid /\ manual' = TRUE
  /\ UNCHANGED <<config, charging, onAge, manager, world>>

\* A poll or an event: sensor_changed("switch").
Learn ==
  /\ ~reporting
  /\ state' = OnGrid
  /\ UNCHANGED <<config, charging, manual, relay, onAge, manager, world>>

-----------------------------------------------------------------------------
(* Configuration::Prepare: the options that were turned on or off are reset,   *)
(* then the relay is switched, then the configuration is stored.               *)

ResetOptions(new) ==
  /\ allowed' = (allowed /\ config.offload.on = new.offload.on)
  /\ charge'  = (charge /\ config.charge.on = new.charge.on)
  /\ fresh' = FALSE
  /\ UNCHANGED <<soc, backup, gridAge, reporting>>

Reload(new) ==
  /\ ~reporting
  /\ ResetOptions(new)
  /\ relay' = Output(state, new.reverted)
  /\ config' = new
  /\ UNCHANGED <<state, manual, onAge, manager, world>>

\* The relay does not answer: the exception leaves the old configuration in force.
ReloadFailed(new) ==
  /\ ~reporting
  /\ ResetOptions(new)
  /\ relay' \in {relay, Output(state, new.reverted)}
  /\ UNCHANGED <<config, state, manual, onAge, manager, world>>

-----------------------------------------------------------------------------
(* Time, the grid, restarts. *)

Until(age, limit) == IF age < limit THEN age + 1 ELSE age

Tick ==
  /\ gridAge' = Until(gridAge, MinGridTime + 1)
  /\ onAge' = Until(onAge, Never)
  /\ UNCHANGED <<config, soc, backup, allowed, charge, reporting, fresh, state, manual,
                 relay, manager, world>>

Outage == online' = ~online /\ UNCHANGED <<config, charging, switch, manager, inRange>>
TimeRange == inRange' = ~inRange /\ UNCHANGED <<config, charging, switch, manager, online>>

\* The device is loaded: Prepare switches the relay of a device whose state is
\* still false; the state that was saved, if any, is restored after that.  The
\* configuration is the one stored last, which a failed Reload may have left.
Load ==
  /\ config' \in Configs
  /\ relay' = Output(FALSE, config'.reverted)
  /\ gridAge' = 0 /\ onAge' = Never
  /\ reporting' = FALSE /\ fresh' = FALSE
  /\ pc' = "idle" /\ wanted' = FALSE /\ seen' = Nothing /\ rested' = FALSE
  /\ UNCHANGED world

\* Devices::Unload saves every device's state at a clean stop.
Restart ==
  /\ pc = "idle" /\ ~reporting
  /\ Load
  /\ UNCHANGED <<soc, backup, allowed, charge, state, manual>>

\* A crash before any clean stop.  (One that comes after a clean stop loads what
\* that stop had saved: the same states as Restart led to then.)
Crash ==
  /\ Load
  /\ soc' = Unknown /\ backup' = FALSE /\ allowed' = FALSE /\ charge' = FALSE
  /\ state' = FALSE /\ manual' = FALSE

-----------------------------------------------------------------------------
Intervention == \/ \E on \in BOOLEAN : Manual(on)
                \/ Automatic \/ Button
Upset == \/ \E new \in Configs : Reload(new) \/ ReloadFailed(new)
         \/ SetFailed \/ Restart \/ Crash
Next == Manager \/ Report \/ Learn \/ Tick \/ Outage \/ TimeRange \/ Intervention \/ Upset

Spec == Init /\ [][Next]_vars

\* The manager's loop goes on, the relay is polled, time passes, and, of the
\* environment, the voltmeter keeps reporting.
Fairness == SF_vars(Manager) /\ WF_vars(Report) /\ SF_vars(Learn) /\ WF_vars(Tick)
FairSpec == Spec /\ Fairness

-----------------------------------------------------------------------------
(* Properties. *)

\* From some time on requests succeed and nobody commands or reconfigures.
Undisturbed == <>[][~Intervention /\ ~Upset]_vars

\* A battery that is too low feeds nothing, whatever the policy, the mode, the
\* time or the grid: "Always switch to backup mode if battery is too low".
LowBatteryIsSpared ==
  (Undisturbed /\ <>[](soc # Unknown /\ soc < config.low)) => <>[]OnGrid

\* With the battery policy, a charged battery is used: neither the backup mode,
\* nor its minimum time, nor a charge that has reached its end keeps the grid on.
ChargedBatteryIsUsed ==
  (/\ Undisturbed
   /\ <>[](/\ config.policy = "BATTERY" /\ ~manual
           /\ soc > config.high
           /\ config.charge.on => soc >= config.charge.high))
  => <>[]~OnGrid

\* A charge that is required in its time range is taken from the grid, unless the
\* grid is out.
ChargeIsTaken ==
  (/\ Undisturbed
   /\ <>[](/\ config.policy = "BATTERY" /\ ~manual /\ online /\ inRange
           /\ config.charge.on /\ soc # Unknown /\ soc < config.charge.low))
  => <>[]OnGrid

\* When the grid is out the battery takes over, as long as it has charge.
OutageUsesBattery ==
  (Undisturbed /\ <>[](~online /\ ~manual /\ soc # Unknown /\ ~backup)) => <>[]~OnGrid

\* A source chosen by hand stays, out of the backup mode.
ManualSourceStays ==
  (Undisturbed /\ <>[](manual /\ ~backup)) => (<>[]OnGrid \/ <>[]~OnGrid)

\* The offload permission and the charge request agree with the charge: whatever
\* was restored or reconfigured before, after one report they are on their side of
\* the two thresholds.
BandsFollowCharge ==
  (fresh /\ ~reporting) =>
    /\ config.offload.on => /\ allowed => soc >= config.offload.low
                            /\ soc >= config.offload.high => allowed
    /\ config.charge.on => /\ charge => soc < config.charge.high
                           /\ soc < config.charge.low => charge
=============================================================================
