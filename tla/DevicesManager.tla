--------------------------- MODULE DevicesManager ---------------------------
(***************************************************************************)
(* The devices manager (thread::DevicesManager) and its three algorithms.  *)
(* Every second it asks each controllable device what it wants, drives the *)
(* forced ones (AlgoForced), and, when nothing has changed for the         *)
(* cooldown time, shares the available power between those that want to    *)
(* offload, by priority: AlgoOffload for the devices on the grid,          *)
(* AlgoOffloadBattery for those on the battery.                            *)
(*                                                                         *)
(* What a device does with the order is the subject of module OnOff; here  *)
(* an order succeeds or fails in one step, and everything else the manager *)
(* reads (what the devices want, the power statistics, the battery) may    *)
(* change between any two of its steps.                                    *)
(***************************************************************************)
EXTENDS Integers, FiniteSetsExt

CONSTANTS N,            \* number of devices; 1 has the highest priority
          Expected,     \* expected_consumption of each, in units of power
          Loads,        \* what each may really draw while it is on
          Wants,        \* what the devices' own rules may ask for
          Weathers,     \* controllable power: [avg, steady], see Hysteresis
          Outcomes,     \* for each device, how an order to it may end
          Import, Export,  \* control.hysteresis.import and .export
          OffloadMax,   \* control.offload.max, the end of the statistics' range
          Cooldown,     \* control.cooldown, in seconds
          Base,         \* power drawn from the battery by uncontrolled loads
          BatteryMax,   \* offload.max of the battery
          Metered,      \* whether the battery has a meter
          Wirings,      \* the sets of devices that may be on the battery at a time
          Concurrent    \* bound: FALSE lets the rest of the system change only
                        \* between two iterations, not between two steps of one

Devices == 1..N

ASSUME DevicesAssumption ==
  /\ N \in Nat \ {0}
  /\ Expected \in [Devices -> Nat \ {0}] /\ Loads \subseteq [Devices -> Nat]
  /\ Wirings \subseteq SUBSET Devices
  /\ Wants \subseteq {"ON", "OFF", "OFFLOAD", "UNCHANGED", "SKIP"}
  /\ Outcomes \in [Devices -> SUBSET {"ok", "shelly", "passive", "other"}]
ASSUME PowerAssumption ==
  /\ Weathers \subseteq [avg : Int, steady : Int]
  /\ Import \in Nat /\ Export \in Nat /\ OffloadMax \in Nat
  /\ Base \in Nat /\ BatteryMax \in Nat /\ Metered \in BOOLEAN
  /\ Cooldown \in Nat \ {0} /\ Concurrent \in BOOLEAN

VARIABLES on,          \* the devices whose OnOff::state is true
          wants,       \* what GetWantedState answers; "SKIP": offline or disabled
          onBattery,   \* the devices whose IsOnBattery is true
          load,        \* what the devices draw when they are on
          weather,     \* statistics of the controllable power
          allowed,     \* Battery::IsOffloadAllowed
          reading,     \* what the battery's meter reported last
          pc,          \* where the loop is
          forceOn, forceOff,  \* forced_devices not yet driven
          grid, battery,      \* offload_devices, offload_devices_battery, not yet seen
          forcedPower, offloadedPower,
          changed,     \* state_changed
          since,       \* now - last_change_ts, counted up to Cooldown
          calm,        \* history: seconds since the manager last switched a device
          abandoned,   \* history: an exception hid a switch from last_change_ts
          before,      \* history: the devices that were on when the iteration began
          exact        \* history: in this iteration each order was obeyed, nothing
                       \* else changed and the battery's meter was up to date

environment == <<wants, onBattery, load, weather, allowed, reading>>
lists  == <<forceOn, forceOff, grid, battery>>
powers == <<forcedPower, offloadedPower>>
vars   == <<on, environment, pc, lists, powers, changed, since, calm, abandoned, before, exact>>

\* The power of the devices of S, if each uses what `use' says.
Total(use, S) ==
  LET sum[d \in 0..N] == IF d = 0 THEN 0
                         ELSE sum[d - 1] + (IF d \in S THEN use[d] ELSE 0)
  IN sum[N]

\* GetExpectedConsumption: what its meter says of a device that is on and has one,
\* else what it is configured for.  A device without meter draws that, for all the
\* program can know: its load is the expected one.  A meter reports before the next
\* decision, which is seconds away.
uses == [d \in Devices |-> IF d \in on THEN load[d] ELSE Expected[d]]

TypeOK ==
  /\ on \subseteq Devices
  /\ wants \in [Devices -> Wants] /\ onBattery \in Wirings
  /\ load \in Loads /\ weather \in Weathers /\ allowed \in BOOLEAN /\ reading \in Nat
  /\ pc \in {"collect", "forced", "grid", "battery", "wait"}
  /\ forceOn \subseteq Devices /\ forceOff \subseteq Devices \ forceOn
  /\ grid \subseteq Devices \ (forceOn \cup forceOff)
  /\ battery \subseteq Devices \ (forceOn \cup forceOff \cup grid)
  /\ forcedPower \in Int /\ offloadedPower \in Nat
  /\ changed \in BOOLEAN /\ abandoned \in BOOLEAN /\ exact \in BOOLEAN /\ before \subseteq Devices
  /\ since \in 0..Cooldown /\ calm \in 0..Cooldown

\* What the battery delivers.
Draw == Base + Total(load, on \cap onBattery)

Init ==
  /\ on = {} /\ wants \in [Devices -> Wants] /\ onBattery \in Wirings
  /\ load \in Loads /\ weather \in Weathers /\ allowed = FALSE /\ reading = Base
  /\ pc = "collect"
  /\ forceOn = {} /\ forceOff = {} /\ grid = {} /\ battery = {}
  /\ forcedPower = 0 /\ offloadedPower = 0
  /\ changed = FALSE /\ abandoned = FALSE /\ exact = FALSE /\ before = {}
  /\ since = 0 /\ calm = 0

-----------------------------------------------------------------------------
(* Driving one device. *)

Switched(d, new) == IF new THEN on \cup {d} ELSE on \ {d}

\* if(device->GetState()!=new_state) { SetState(new_state); state_changed = true; }
\* "shelly": the relay cannot be reached, the order is given up with a warning;
\* "passive": the device has no control, SetState returns at once.
Drive(d, new, outcome) ==
  \/ /\ (d \in on) = new /\ outcome = "ok"
     /\ UNCHANGED <<on, changed, calm, exact>>
  \/ /\ (d \in on) # new /\ outcome \in Outcomes[d] \ {"other"}
     /\ on' = IF outcome = "ok" THEN Switched(d, new) ELSE on
     /\ changed' = (changed \/ outcome # "shelly")
     /\ calm' = IF outcome = "ok" THEN 0 ELSE calm
     /\ exact' = (exact /\ outcome = "ok")

\* Any other exception (BSB-LAN, database, a deleted battery controller) leaves
\* the iteration where it is, whether or not the device was switched.
Throw(d, new) ==
  /\ "other" \in Outcomes[d]
  /\ \/ UNCHANGED <<on, calm, abandoned>> /\ changed = FALSE
     \/ UNCHANGED <<on, calm>> /\ changed = TRUE /\ abandoned' = TRUE
     \/ /\ (d \in on) # new
        /\ on' = Switched(d, new) /\ calm' = 0 /\ abandoned' = TRUE
  /\ pc' = "wait" /\ exact' = FALSE /\ before' = {}
  /\ UNCHANGED <<environment, lists, powers, changed, since>>

-----------------------------------------------------------------------------
(* One iteration. *)

\* Mutant: a device that is off by its schedule needs no order.
CollectOffIgnored ==
  /\ pc = "collect"
  /\ forceOn'  = {d \in Devices : wants[d] = "ON"  \/ (wants[d] = "UNCHANGED" /\ d \in on)}
  /\ forceOff' = {d \in Devices : wants[d] = "UNCHANGED" /\ d \notin on}
  /\ grid'     = {d \in Devices : wants[d] = "OFFLOAD"} \ onBattery
  /\ battery'  = {d \in Devices : wants[d] = "OFFLOAD"} \cap onBattery
  /\ pc' = "forced" /\ exact' = TRUE /\ before' = on
  /\ UNCHANGED <<on, environment, powers, changed, since, calm, abandoned>>

Collect ==
  /\ pc = "collect"
  /\ forceOn'  = {d \in Devices : wants[d] = "ON"  \/ (wants[d] = "UNCHANGED" /\ d \in on)}
  /\ forceOff' = {d \in Devices : wants[d] = "OFF" \/ (wants[d] = "UNCHANGED" /\ d \notin on)}
  /\ grid'     = {d \in Devices : wants[d] = "OFFLOAD"} \ onBattery
  /\ battery'  = {d \in Devices : wants[d] = "OFFLOAD"} \cap onBattery
  /\ pc' = "forced" /\ exact' = TRUE /\ before' = on
  /\ UNCHANGED <<on, environment, powers, changed, since, calm, abandoned>>

\* IsOnBattery throws while the list is made.
CollectThrows(d) ==
  /\ pc = "collect"
  /\ wants[d] = "OFFLOAD" /\ d \in UNION Wirings
  /\ Throw(d, d \in on)

\* AlgoForced::Run, one device; the order of the map is that of the pointers.
DriveForced(d, outcome) ==
  /\ pc = "forced" /\ d \in forceOn \cup forceOff
  /\ Drive(d, d \in forceOn, outcome)
  /\ forceOn' = forceOn \ {d} /\ forceOff' = forceOff \ {d}
  /\ forcedPower' = forcedPower + (IF d \in on' \ onBattery THEN load[d] ELSE 0)
  /\ UNCHANGED <<environment, pc, grid, battery, offloadedPower, since, abandoned, before>>

DriveForcedThrows(d) ==
  /\ pc = "forced" /\ d \in forceOn \cup forceOff
  /\ Throw(d, d \in forceOn)

\* if(state_changed) last_change_ts = now;
Record ==
  /\ pc' = "wait" /\ exact' = FALSE /\ before' = {}
  /\ since' = IF changed THEN 0 ELSE since
  /\ abandoned' = (abandoned /\ ~changed)

\* Mutant: a forced change does not hold the offload back.
GateIgnoringForced ==
  /\ pc = "forced" /\ forceOn \cup forceOff = {}
  /\ \/ since >= Cooldown /\ pc' = "grid" /\ UNCHANGED <<since, abandoned, before, exact>>
     \/ since < Cooldown /\ Record
  /\ UNCHANGED <<on, environment, lists, powers, changed, calm>>

Gate ==
  /\ pc = "forced" /\ forceOn \cup forceOff = {}
  /\ \/ since >= Cooldown /\ ~changed /\ pc' = "grid" /\ UNCHANGED <<since, abandoned, before, exact>>
     \/ (since < Cooldown \/ changed) /\ Record
  /\ UNCHANGED <<on, environment, lists, powers, changed, calm>>

\* CumulativeHigherFrequency::GetFrequency(need) >= precision: the power has been
\* at least `steady' for the required share of the time.  The statistics end at
\* control.offload.max: a higher need is looked up there.
Predicted(need) == (IF need > OffloadMax THEN OffloadMax ELSE need) <= weather.steady

\* Mutant: a device that is on is judged without the power used before it.
HysteresisForgetful(d) ==
  IF d \in on THEN uses[d] - (weather.avg - forcedPower) < Import
  ELSE Predicted(uses[d] + forcedPower + offloadedPower + Export)

\* Mutant: the two thresholds are crossed.
HysteresisCrossed(d) ==
  LET active == forcedPower + offloadedPower
  IN  IF d \in on THEN uses[d] - (weather.avg - active) < -Export
      ELSE Predicted(uses[d] + active)

\* Mutant: the power of the devices that are already on counts for all.
HysteresisUnfair(d) ==
  LET active == forcedPower + offloadedPower
  IN  IF d \in on THEN uses[d] - (weather.avg - active) < Import
      ELSE Predicted(uses[d] + Total(load, on \cap grid) + active + Export)

\* AlgoOffload::hysteresis: a device that is on stays on while it imports less
\* than the threshold; one that is off is turned on when the power it needs has
\* been there for long enough.
Hysteresis(d) ==
  LET active == forcedPower + offloadedPower
  IN  IF d \in on THEN uses[d] - (weather.avg - active) < Import
      ELSE Predicted(uses[d] + active + Export)

\* AlgoOffload::Run, the next device by priority.
OffloadGrid(outcome) ==
  /\ pc = "grid" /\ grid # {}
  /\ LET d == Min(grid) IN
       /\ Drive(d, Hysteresis(d), outcome)
       /\ offloadedPower' = offloadedPower + (IF Hysteresis(d) THEN uses[d] ELSE 0)
       /\ grid' = grid \ {d}
  /\ UNCHANGED <<environment, pc, forceOn, forceOff, battery, forcedPower, since,
                 abandoned, before>>

OffloadGridThrows == pc = "grid" /\ grid # {} /\ Throw(Min(grid), Hysteresis(Min(grid)))

\* AlgoOffloadBattery::Run up to its loop: what the battery delivers to the
\* devices it cannot control; -1 stands for the reading of a battery without meter.
StartBattery ==
  /\ pc = "grid" /\ grid = {}
  /\ forcedPower' = (IF Metered THEN reading ELSE -1) - Total(load, battery \cap on)
  /\ offloadedPower' = 0
  /\ pc' = "battery"
  /\ exact' = (exact /\ Metered /\ reading = Draw)
  /\ UNCHANGED <<on, environment, lists, changed, since, calm, abandoned, before>>

\* Mutant: the devices already chosen are not counted.
FitsBatteryAlone(d) == allowed /\ forcedPower + uses[d] < BatteryMax

FitsBattery(d) == allowed /\ forcedPower + offloadedPower + uses[d] < BatteryMax

OffloadBattery(outcome) ==
  /\ pc = "battery" /\ battery # {}
  /\ LET d == Min(battery) IN
       /\ Drive(d, FitsBattery(d), outcome)
       /\ offloadedPower' = offloadedPower + (IF FitsBattery(d) THEN uses[d] ELSE 0)
       /\ battery' = battery \ {d}
  /\ UNCHANGED <<environment, pc, forceOn, forceOff, grid, forcedPower, since,
                 abandoned, before>>

OffloadBatteryThrows ==
  pc = "battery" /\ battery # {} /\ Throw(Min(battery), FitsBattery(Min(battery)))

Finish ==
  /\ pc = "battery" /\ battery = {}
  /\ Record
  /\ UNCHANGED <<on, environment, lists, powers, changed, calm>>

\* One more second, counted up to the cooldown time.
Second(count) == IF count < Cooldown THEN count + 1 ELSE count

\* wait(1), and the locals of the next iteration.  The battery's meter reports
\* within the cooldown time: an assumption about the meter, not about the code.
Wait ==
  /\ pc = "wait"
  /\ since + 1 >= Cooldown => reading = Draw
  /\ since' = Second(since) /\ calm' = Second(calm)
  /\ forceOn' = {} /\ forceOff' = {} /\ grid' = {} /\ battery' = {}
  /\ forcedPower' = 0 /\ offloadedPower' = 0 /\ changed' = FALSE
  /\ pc' = "collect"
  /\ UNCHANGED <<on, environment, abandoned, before, exact>>

Order(outcome) == \/ \E d \in Devices : DriveForced(d, outcome)
                  \/ OffloadGrid(outcome) \/ OffloadBattery(outcome)
Exception == \/ \E d \in Devices : CollectThrows(d) \/ DriveForcedThrows(d)
             \/ OffloadGridThrows \/ OffloadBatteryThrows
Manager == \/ Collect \/ Gate \/ StartBattery \/ Finish \/ Wait \/ Exception
           \/ \E outcome \in {"ok", "shelly", "passive"} : Order(outcome)

-----------------------------------------------------------------------------
(* The rest of the system. *)

loop == <<pc, lists, powers, changed, since, calm, abandoned, before>>

\* What changes during an iteration is not what its decisions were made from.
Elsewhere == (Concurrent \/ pc = "collect") /\ exact' = FALSE

\* The schedule, the time since the last switch, the connection to the device.
Reschedule(d) ==
  /\ Elsewhere
  /\ \E w \in Wants \ {wants[d]} : wants' = [wants EXCEPT ![d] = w]
  /\ UNCHANGED <<on, onBattery, load, weather, allowed, reading, loop>>

\* A client or the device's button.
Intervene(d) ==
  /\ Elsewhere
  /\ "UNCHANGED" \in Wants
  /\ on' = Switched(d, d \notin on)
  /\ wants' = [wants EXCEPT ![d] = "UNCHANGED"]
  /\ UNCHANGED <<onBattery, load, weather, allowed, reading, loop>>

\* A device draws more or less: a thermostat, a programme.
Vary ==
  /\ Elsewhere
  /\ load' \in Loads \ {load}
  /\ UNCHANGED <<on, wants, onBattery, weather, allowed, reading, loop>>

Weather ==
  /\ Elsewhere
  /\ weather' \in Weathers \ {weather}
  /\ UNCHANGED <<on, wants, onBattery, load, allowed, reading, loop>>

Rewire ==
  /\ Elsewhere
  /\ onBattery' \in Wirings \ {onBattery}
  /\ UNCHANGED <<on, wants, load, weather, allowed, reading, loop>>

Permit ==
  /\ Elsewhere
  /\ allowed' = ~allowed
  /\ UNCHANGED <<on, wants, onBattery, load, weather, reading, loop>>

Report ==
  /\ reading' = Draw /\ reading # Draw
  /\ UNCHANGED <<on, wants, onBattery, load, weather, allowed, loop, exact>>

Disturbance == (\E d \in Devices : Reschedule(d) \/ Intervene(d))
               \/ Vary \/ Weather \/ Rewire \/ Permit

Next == Manager \/ Disturbance \/ Report

Spec == Init /\ [][Next]_vars

\* The manager's loop runs for ever (nothing in it waits without end, see the
\* requests in module OnOff) and the battery's meter reports.
Fairness == WF_vars(Manager) /\ WF_vars(Report)

FairSpec == Spec /\ Fairness

-----------------------------------------------------------------------------
(* Properties. *)

\* An offload decision is taken when the manager has switched nothing for the
\* cooldown time ("Apply cooldown time for offload devices"), forced changes of the
\* same iteration included, unless an exception made it forget a switch.
CooldownIsObserved ==
  [][(pc = "forced" /\ pc' = "grid") => (calm >= Cooldown \/ abandoned)]_vars

\* The devices whose power the allocation on the grid counts: those that are on, but
\* for those that are offline or disabled.
GridLoad   == {d \in on \ onBattery : wants[d] # "SKIP"}
Forced     == {d \in Devices : wants[d] \in {"ON", "OFF", "UNCHANGED"}}
Offloading == {d \in Devices : wants[d] = "OFFLOAD"}

\* The power a decision counts for a device: the measured one if the device was on,
\* else the one it is expected to use.
counted == [d \in Devices |-> IF d \in before THEN load[d] ELSE Expected[d]]

\* What a device may use, or would have been allowed to, if that is the power in use.
MayBeOn(power)  == power - weather.avg < Import \/ Predicted(power + Export)
SurelyOn(power) == power - weather.avg < Import /\ Predicted(power + Export)

\* Once every device is decided, what is on, forced or not, draws less than the power
\* there is and the import threshold, or has been available for long enough.
GridFits == GridLoad \cap Offloading # {} => MayBeOn(Total(counted, GridLoad))

\* A device is left off only if it does not fit together with the forced ones and
\* those of higher priority that are on; those of lower priority do not count.
LoadBefore(d) == {e \in GridLoad : e \in Forced \/ e < d}
PriorityKept ==
  \A d \in (Offloading \ onBattery) \ on : ~ SurelyOn(Total(counted, LoadBefore(d) \cup {d}))

\* With devices that offload to it, the battery delivers less than its maximum.
BatteryFits ==
  on \cap onBattery \cap Offloading # {} =>
    allowed /\ Base + Total(counted, on \cap onBattery) < BatteryMax

\* An iteration that nothing disturbs decides rightly: the power the algorithms count,
\* device by device, is that of the devices that are on when they are done.
DecisionsAreRight ==
  exact => /\ pc = "grid" /\ grid = {} => GridFits /\ PriorityKept
           /\ pc = "battery" /\ battery = {} => BatteryFits

\* From some time on every order succeeds and nothing else changes.
Failure == Exception \/ Order("shelly") \/ Order("passive")
Undisturbed == <>[][~Disturbance /\ ~Failure]_vars

\* The schedule is applied in the end: a device that is to be on, or off, for
\* good is so, whatever happened before.
ScheduleIsApplied ==
  \A d \in Devices : Undisturbed =>
    /\ <>[](wants[d] = "ON") => <>[](d \in on)
    /\ <>[](wants[d] = "OFF") => <>[](d \notin on)

\* No device draws more than it is expected to.  One that does is turned on by what it
\* is expected to use and off again by what it uses, with every cooldown.
AsExpected == \A d \in Devices : load[d] <= Expected[d]

\* With steady power the allocation settles: no device is switched on and off for
\* ever by the two thresholds, by the priorities, by the battery's reading, or by
\* less power measured when it is on than expected when it is off.
AllocationSettles ==
  (Undisturbed /\ <>[](weather.steady = weather.avg /\ AsExpected)) =>
    \A d \in Devices : <>[](d \in on) \/ <>[](d \notin on)

\* What may come before d on the grid.
Before(d) == {e \in GridLoad : wants[e] # "OFFLOAD"}
             \cup {e \in 1..(d - 1) : wants[e] = "OFFLOAD" /\ e \notin onBattery}

\* The most a decision may count for a device.
most == [d \in Devices |-> Max({load[d], Expected[d]})]

\* Priority: a device that wants to offload, and fits in the power that the
\* devices of higher priority leave, by what it is expected to use and by what it
\* uses, is turned on, even if those are switched on and off for ever; those of lower
\* priority that hold the power give it up.
PriorityIsServed ==
  \A d \in Devices :
    (/\ Undisturbed
     /\ <>[](/\ wants[d] = "OFFLOAD" /\ d \notin onBattery
             /\ weather.steady = weather.avg
             /\ Total(most, Before(d) \cup {d}) + Export <= weather.steady))
    => <>[](d \in on)

\* Offloading on the battery stays within its maximum power, what the devices are
\* expected to use being replaced by what they do use as they are turned on.
BatteryStaysWithinMax ==
  (Undisturbed /\ <>[]AsExpected) =>
    <>[]((\E d \in on \cap onBattery : wants[d] = "OFFLOAD") => allowed /\ Draw < BatteryMax)
=============================================================================
