--------------------------- MODULE BatteryProofs ---------------------------
(***************************************************************************)
(* Theorems about the battery, for any set of configurations that passes   *)
(* CheckConfig, any levels of charge and any times.                        *)
(***************************************************************************)
EXTENDS Battery, TLAPS

-----------------------------------------------------------------------------
(* Types. *)

LEMMA ConfigFields ==
  ASSUME NEW c \in Configs
  PROVE  /\ c.low \in Nat /\ c.high \in Nat
         /\ c.offload.low \in Nat /\ c.offload.high \in Nat
         /\ c.charge.low \in Nat /\ c.charge.high \in Nat
         /\ c.reverted \in BOOLEAN
  BY ConfigsAssumption DEF Band

LEMMA OutputType == ASSUME NEW on, NEW reverted PROVE Output(on, reverted) \in BOOLEAN
  BY DEF Output

LEMMA NothingIsAConfig == ASSUME NEW c \in Configs PROVE Nothing \in Configs
  BY DEF Nothing

LEMMA UntilStays ==
  ASSUME NEW limit \in Nat, NEW age \in 0..limit
  PROVE  Until(age, limit) \in 0..limit
  BY DEF Until

\* Every variable keeps its type.
THEOREM TypeInvariant == Spec => []TypeOK
<1>1. Init => TypeOK
  <2> SUFFICES ASSUME Init PROVE TypeOK
    OBVIOUS
  <2>1. Nothing \in Configs
    BY NothingIsAConfig DEF Init
  <2>2. relay \in BOOLEAN
    BY OutputType DEF Init
  <2>3. gridAge \in 0..(MinGridTime + 1) /\ onAge \in 0..Never
    BY TimesAssumption DEF Init, Never
  <2> QED
    BY <2>1, <2>2, <2>3 DEF Init, TypeOK
<1>2. TypeOK /\ [Next]_vars => TypeOK'
  <2> SUFFICES ASSUME TypeOK, [Next]_vars PROVE TypeOK'
    OBVIOUS
  <2>0. Nothing \in Configs
    BY NothingIsAConfig DEF TypeOK
  <2>1. CASE ReportCharge
    <3>1. PICK s \in Levels :
            LET low  == backup \/ s < config.low
                ends == low /\ s > config.high /\ gridAge > MinGridTime
            IN  /\ soc' = s
                /\ backup' = (low /\ ~ends)
                /\ gridAge' = IF ends THEN 0 ELSE gridAge
      BY <2>1 DEF ReportCharge
    <3>2. backup' \in BOOLEAN
      BY <3>1
    <3>3. gridAge' \in 0..(MinGridTime + 1)
      <4>1. gridAge' = gridAge \/ gridAge' = 0
        BY <3>1
      <4> QED
        BY <4>1, TimesAssumption DEF TypeOK
    <3> QED
      BY <2>1, <3>1, <3>2, <3>3 DEF TypeOK, ReportCharge, switch, manager, world
  <2>2. CASE ReportBands
    <3>1. Allows(config.offload) \in BOOLEAN /\ Requires(config.charge) \in BOOLEAN
      BY DEF Allows, Requires
    <3> QED
      <4>1. allowed' \in BOOLEAN /\ charge' \in BOOLEAN
        BY <2>2, <3>1 DEF TypeOK, ReportBands
      <4>2. /\ reporting' = FALSE /\ fresh' = TRUE
            /\ UNCHANGED <<config, soc, backup, gridAge, switch, manager, world>>
        BY <2>2 DEF ReportBands
      <4>3. /\ config' \in Configs /\ soc' \in Levels \cup {Unknown} /\ backup' \in BOOLEAN
            /\ gridAge' \in 0..(MinGridTime + 1) /\ fresh' \in BOOLEAN /\ reporting' \in BOOLEAN
        BY <4>2 DEF TypeOK
      <4> QED
        BY <4>1, <4>2, <4>3 DEF TypeOK, switch, manager, world
  <2>3. CASE Decide \/ FaceOutage \/ DecideByPolicy \/ ReadState \/ Check
    <3>1. wanted' \in BOOLEAN
      BY <2>3 DEF TypeOK, Decide, FaceOutage, DecideByPolicy, ReadState, Check, Go, Want, ChargesNow
    <3>2. seen' \in {seen, config, Nothing}
      BY <2>3 DEF Decide, FaceOutage, DecideByPolicy, ReadState, Check
    <3>5. seen' \in Configs
      BY <2>0, <3>2 DEF TypeOK
    <3>6. rested' \in BOOLEAN
      <4>1. CASE rested' = (onAge > Cooldown)
        BY <4>1
      <4>2. CASE rested' = rested \/ rested' = FALSE
        BY <4>2 DEF TypeOK
      <4> QED
        BY <2>3, <4>1, <4>2, Zenon DEF Decide, FaceOutage, DecideByPolicy, ReadState, Check
    <3>3. pc' \in {"idle", "outage", "policy", "read", "check", "set"}
      BY <2>3 DEF TypeOK, Decide, FaceOutage, DecideByPolicy, ReadState, Check, Go, Want
    <3>4. UNCHANGED <<config, charging, switch, world>>
      BY <2>3 DEF Decide, FaceOutage, DecideByPolicy, ReadState, Check
    <3> QED
      BY <3>1, <3>3, <3>4, <3>5, <3>6 DEF TypeOK, charging, switch, world
  <2>4. CASE Set \/ SetFailed
    <3>1. relay' \in BOOLEAN /\ state' \in BOOLEAN
      BY <2>4, OutputType DEF TypeOK, Set, SetFailed, Switch
    <3>2. onAge' \in {onAge, 0}
      BY <2>4 DEF Set, SetFailed, Switch
    <3>3. onAge' \in 0..Never
      BY <3>2, TimesAssumption DEF TypeOK, Never
    <3>4. pc' = "idle" /\ wanted' = FALSE /\ seen' = Nothing /\ rested' = rested
      BY <2>4 DEF Set, SetFailed, Go
    <3>5. UNCHANGED <<config, charging, manual, world>>
      BY <2>4 DEF Set, SetFailed
    <3> QED
      BY <2>0, <3>1, <3>3, <3>4, <3>5 DEF TypeOK, charging, world
  <2>5. CASE Learn \/ Intervention
    <3>1. relay' \in BOOLEAN
      BY <2>5, OutputType DEF TypeOK, Learn, Intervention, Manual, Automatic, Button, Switch
    <3>2. state' \in BOOLEAN
      BY <2>5 DEF TypeOK, Learn, Intervention, Manual, Automatic, Button, Switch, OnGrid
    <3>3. manual' \in BOOLEAN
      BY <2>5 DEF TypeOK, Learn, Intervention, Manual, Automatic, Button
    <3>4. onAge' \in {onAge, 0}
      BY <2>5 DEF Learn, Intervention, Manual, Automatic, Button, Switch
    <3>5. onAge' \in 0..Never
      BY <3>4, TimesAssumption DEF TypeOK, Never
    <3>6. UNCHANGED <<config, charging, manager, world>>
      BY <2>5 DEF Learn, Intervention, Manual, Automatic, Button
    <3> QED
      BY <3>1, <3>2, <3>3, <3>5, <3>6 DEF TypeOK, charging, manager, world
  <2>6. ASSUME NEW new \in Configs, Reload(new) \/ ReloadFailed(new) PROVE TypeOK'
    <3>1. relay' \in BOOLEAN
      BY <2>6, OutputType DEF TypeOK, Reload, ReloadFailed
    <3>2. config' \in Configs
      BY <2>6 DEF TypeOK, Reload, ReloadFailed
    <3>3. allowed' \in BOOLEAN /\ charge' \in BOOLEAN /\ fresh' = FALSE
      BY <2>6, Zenon DEF Reload, ReloadFailed, ResetOptions
    <3>4. UNCHANGED <<soc, backup, gridAge, reporting, state, manual, onAge, manager, world>>
      BY <2>6 DEF Reload, ReloadFailed, ResetOptions
    <3> QED
      <4>1. allowed' \in BOOLEAN /\ charge' \in BOOLEAN /\ fresh' \in BOOLEAN
        BY <3>3
      <4> QED
        BY <3>1, <3>2, <3>4, <4>1 DEF TypeOK, manager, world
  <2>7. CASE Restart \/ Crash
    <3>1. Load
      BY <2>7 DEF Restart, Crash
    <3>2. config' \in Configs /\ relay' \in BOOLEAN
      BY <3>1, OutputType DEF Load
    <3>3. gridAge' \in 0..(MinGridTime + 1) /\ onAge' \in 0..Never
      BY <3>1, TimesAssumption DEF Load, Never
    <3>4. /\ soc' \in Levels \cup {Unknown} /\ backup' \in BOOLEAN
          /\ allowed' \in BOOLEAN /\ charge' \in BOOLEAN
          /\ state' \in BOOLEAN /\ manual' \in BOOLEAN
      BY <2>7 DEF Restart, Crash, TypeOK
    <3> QED
      BY <2>0, <3>1, <3>2, <3>3, <3>4 DEF TypeOK, Load, world
  <2>8. CASE Tick
    <3>1. gridAge' \in 0..(MinGridTime + 1) /\ onAge' \in 0..Never
      BY <2>8, UntilStays, TimesAssumption DEF Tick, TypeOK, Never
    <3> QED
      BY <2>8, <3>1 DEF TypeOK, Tick, manager, world
  <2>9. CASE Outage
    BY <2>9 DEF TypeOK, Outage, charging, switch, manager
  <2>10. CASE TimeRange
    BY <2>10 DEF TypeOK, TimeRange, charging, switch, manager
  <2>11. CASE UNCHANGED vars
    BY <2>11 DEF TypeOK, vars, charging, switch, manager, world
  <2> QED
    BY <2>1, <2>2, <2>3, <2>4, <2>5, <2>6, <2>7, <2>8, <2>9, <2>10, <2>11
    DEF Next, Manager, Report, Upset
<1> QED
  BY <1>1, <1>2, PTL DEF Spec

-----------------------------------------------------------------------------
(* The bands. *)

\* Once the thresholds in force have met a report, the offload permission and the
\* charge request are on their side of them, through every later report, failed
\* request, reconfiguration and restart.
THEOREM BandsTheorem == Spec => []BandsFollowCharge
<1>1. Init => BandsFollowCharge
  BY DEF Init, BandsFollowCharge
<1>2. TypeOK /\ BandsFollowCharge /\ [Next]_vars => BandsFollowCharge'
  <2> SUFFICES ASSUME TypeOK, BandsFollowCharge, [Next]_vars, fresh', ~reporting'
               PROVE  BandsFollowCharge'
    BY DEF BandsFollowCharge
  <2>1. CASE ReportBands
    <3>1. config \in Configs /\ config' = config /\ soc' = soc /\ soc \in Int
      BY <2>1, ConfigsAssumption DEF TypeOK, ReportBands, Unknown
    <3>2. config.offload.on =>
            /\ allowed' => soc >= config.offload.low
            /\ soc >= config.offload.high => allowed'
      <4> SUFFICES ASSUME config.offload.on PROVE /\ allowed' => soc >= config.offload.low
                                                  /\ soc >= config.offload.high => allowed'
        OBVIOUS
      <4>1. config.offload.low < config.offload.high
        BY <3>1, ConfigsAssumption
      <4>2. allowed' = Allows(config.offload)
        BY <2>1 DEF ReportBands
      <4>3. config.offload.low \in Nat /\ config.offload.high \in Nat
        BY <3>1, ConfigFields
      <4>4. CASE Allows(config.offload)
        <5>1. soc >= config.offload.low
          BY <4>4 DEF Allows
        <5> QED
          BY <4>2, <4>4, <5>1
      <4>5. CASE ~Allows(config.offload)
        <5>1. ~(soc >= config.offload.high)
          BY <3>1, <4>1, <4>3, <4>5 DEF Allows
        <5> QED
          BY <4>2, <4>5, <5>1
      <4> QED
        BY <4>4, <4>5
    <3>3. config.charge.on =>
            /\ charge' => soc < config.charge.high
            /\ soc < config.charge.low => charge'
      <4> SUFFICES ASSUME config.charge.on PROVE /\ charge' => soc < config.charge.high
                                                 /\ soc < config.charge.low => charge'
        OBVIOUS
      <4>1. config.charge.low < config.charge.high
        BY <3>1, ConfigsAssumption
      <4>2. charge' = Requires(config.charge)
        BY <2>1 DEF ReportBands
      <4>3. config.charge.low \in Nat /\ config.charge.high \in Nat
        BY <3>1, ConfigFields
      <4>4. CASE Requires(config.charge)
        <5>1. soc < config.charge.high
          BY <3>1, <4>1, <4>3, <4>4 DEF Requires
        <5> QED
          BY <4>2, <4>4, <5>1
      <4>5. CASE ~Requires(config.charge)
        <5>1. ~(soc < config.charge.low)
          BY <4>5 DEF Requires
        <5> QED
          BY <4>2, <4>5, <5>1
      <4> QED
        BY <4>4, <4>5
    <3> QED
      BY <3>1, <3>2, <3>3 DEF BandsFollowCharge
  <2>2. CASE UNCHANGED <<config, soc, allowed, charge, fresh, reporting>>
    BY <2>2 DEF BandsFollowCharge
  <2>3. CASE ReportCharge
    BY <2>3 DEF ReportCharge
  <2>4. CASE Upset /\ ~SetFailed
    BY <2>4 DEF Upset, Reload, ReloadFailed, ResetOptions, Restart, Crash, Load
  <2>5. ReportBands \/ ReportCharge \/ (Upset /\ ~SetFailed)
        \/ UNCHANGED <<config, soc, allowed, charge, fresh, reporting>>
    <3>1. CASE Manager \/ SetFailed
      BY <3>1 DEF Manager, Decide, FaceOutage, DecideByPolicy, ReadState, Check, Set, SetFailed, charging
    <3>2. CASE Learn \/ Tick \/ Outage \/ TimeRange \/ Intervention
      BY <3>2 DEF Learn, Tick, Outage, TimeRange, Intervention, Manual, Automatic, Button, charging
    <3>3. CASE UNCHANGED vars
      BY <3>3 DEF vars, charging
    <3> QED
      BY <3>1, <3>2, <3>3 DEF Next, Report
  <2> QED
    BY <2>1, <2>2, <2>3, <2>4, <2>5
<1> QED
  BY <1>1, <1>2, TypeInvariant, PTL DEF Spec
=============================================================================
