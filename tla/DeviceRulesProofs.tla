-------------------------- MODULE DeviceRulesProofs --------------------------
(***************************************************************************)
(* Proofs about a device driven by its rules (DeviceRules), for any time   *)
(* ranges, limits, measurements and number of disturbances: the least and  *)
(* the longest time on, the time on that the history has, and the minimum  *)
(* a remainder range makes up for.  The third is about TimespanHistory     *)
(* first: what is forgotten of a history, and what a start reads of the    *)
(* log, by induction on the rows.                                          *)
(***************************************************************************)
EXTENDS DeviceRules, WellFoundedInduction, FiniteSetTheorems, TLAPS

Typed ==
  /\ now \in Nat /\ last_on \in Nat /\ since \in Nat
  /\ relay \in BOOLEAN /\ state \in BOOLEAN /\ manual \in BOOLEAN /\ present \in BOOLEAN
  /\ kind \in Rules /\ disturbed \in BOOLEAN /\ driven \in BOOLEAN
  /\ wanted \in {"none", "on", "off", "offload"}
  /\ saved.state \in BOOLEAN /\ saved.manual \in BOOLEAN

-----------------------------------------------------------------------------
(* The least time on. *)

\* What the rules have turned on is on since the time the device remembers; once
\* they want it off, or leave it to the offload, it has been on for long enough.
OnInv ==
  /\ since > 0 => relay /\ state /\ present /\ last_on = since
  /\ since > 0 /\ wanted \in {"off", "offload"} => now - since >= MinOn

LEMMA Limits == {Start, MaxTime, MinOn, MaxOn} \subseteq Nat /\ Kinds \subseteq Rules
BY RulesAssumption

LEMMA WantedType ==
  ASSUME Typed PROVE GetWantedState \in {"unchanged", "on", "off", "offload"}
BY DEF Typed, GetWantedState, TimeRangeWants, TemperatureWants, CMVWants, Rules

\* With its thermometer, a device that must stay as it is, is told to.
LEMMA StaysUnchanged ==
  ASSUME Typed, present, Stays PROVE GetWantedState = "unchanged"
<1>1. TimeRangeWants = "unchanged"  BY DEF TimeRangeWants
<1> QED  BY <1>1 DEF Typed, GetWantedState, TemperatureWants, CMVWants, Rules

\* A switch of the relay to what it is not.
LEMMA Switched ==
  ASSUME Typed, NEW on \in BOOLEAN, state # on, ClockTo(on), since' = SinceFor(on)
  PROVE  /\ since' = IF on /\ present THEN now ELSE 0
         /\ last_on' = IF on THEN now ELSE last_on
BY DEF ClockTo, SinceFor, Typed

LEMMA NextTyped == ASSUME Typed, [Next]_vars PROVE Typed'
<1> USE DEF Typed, clock, device, times, inputs, ghosts
<1>l. Start \in Nat /\ Kinds \subseteq Rules
  BY Limits
<1>1. CASE Tick
  <2>1. now' = now + 1 /\ driven' = FALSE
    BY <1>1 DEF Tick
  <2>3. now' \in Nat  BY <2>1
  <2>4. driven' \in BOOLEAN  BY <2>1
  <2>2. UNCHANGED <<last_on, since, relay, state, manual, present, kind, disturbed, wanted, saved>>
    BY <1>1 DEF Tick
  <2> QED  BY <2>2, <2>3, <2>4
<1>2. CASE Measure  BY <1>2 DEF Measure
<1>3. CASE Ask  BY <1>3, WantedType DEF Ask
<1>4. ASSUME NEW on \in BOOLEAN, Apply(on) PROVE Typed'
  <2>1. since' \in Nat  BY <1>4 DEF Apply, SinceFor
  <2>2. last_on' \in Nat /\ relay' \in BOOLEAN /\ state' \in BOOLEAN
    BY <1>4 DEF Apply, Keep, Switch, ClockTo
  <2> QED  BY <1>4, <2>1, <2>2 DEF Apply, Done
<1>5. CASE ApplyForced \/ ApplyOffload
  BY <1>4, <1>5 DEF ApplyForced, ApplyOffload
<1>6. CASE Skip  BY <1>6 DEF Skip, Done
<1>7. CASE Fail  BY <1>7 DEF Fail, Done, Disturb
<1>8. CASE FailToLog
  <2>1. since' \in Nat /\ relay' \in BOOLEAN /\ state' \in BOOLEAN
    BY <1>8 DEF FailToLog, SinceFor
  <2>2. last_on' \in Nat
    BY <1>8 DEF FailToLog, ClockTo
  <2> QED  BY <1>8, <2>1, <2>2 DEF FailToLog, Done, Disturb
<1>9. ASSUME NEW on \in BOOLEAN, SetManualState(on) PROVE Typed'
  <2>1. last_on' \in Nat /\ relay' \in BOOLEAN /\ state' \in BOOLEAN
    BY <1>9 DEF SetManualState, Switch, ClockTo
  <2> QED  BY <1>9, <2>1 DEF SetManualState, Disturb
<1>10. CASE SetAutoState  BY <1>10 DEF SetAutoState
<1>11. CASE Button \/ Poll \/ ChangeThermometer
  <2>1. /\ UNCHANGED <<now, last_on, driven, kind, wanted, saved>>
        /\ since' \in Nat /\ disturbed' \in BOOLEAN
        /\ relay' \in BOOLEAN /\ state' \in BOOLEAN /\ manual' \in BOOLEAN
        /\ present' \in BOOLEAN
    <3>1. CASE Button  BY <3>1 DEF Button, Disturb
    <3>2. CASE Poll  BY <3>2 DEF Poll
    <3>3. CASE ChangeThermometer  BY <3>3 DEF ChangeThermometer, Disturb
    <3> QED  BY <1>11, <3>1, <3>2, <3>3
  <2> QED  BY <2>1
<1>12. CASE Restart
  <2>1. saved'.state = state /\ saved'.manual = manual  BY <1>12 DEF Restart
  <2> QED  BY <1>12, <2>1 DEF Restart, Load, Disturb
<1>13. CASE Kill  BY <1>13 DEF Kill, Load, Disturb
<1>14. CASE UNCHANGED vars  BY <1>14 DEF vars
<1> QED
  BY <1>1, <1>2, <1>3, <1>5, <1>6, <1>7, <1>8, <1>9, <1>10, <1>11, <1>12, <1>13, <1>14 DEF Next

\* What MinOnIsKept says of a step.
TurnsOffInTime ==
  relay /\ ~ relay' /\ wanted # "none" /\ wanted' = "none" /\ since > 0 => now - since >= MinOn

LEMMA NextOn == ASSUME Typed, OnInv, [Next]_vars PROVE OnInv' /\ TurnsOffInTime
<1> USE Limits DEF clock, device, times, inputs, ghosts
<1>same. ASSUME UNCHANGED <<relay, state, present, last_on, since>>,
                wanted' = "none" \/ UNCHANGED <<wanted, now>>
         PROVE  OnInv' /\ TurnsOffInTime
  BY <1>same DEF OnInv, TurnsOffInTime
<1>zero. ASSUME since' = 0, wanted' = wanted \/ relay' = relay
         PROVE  OnInv' /\ TurnsOffInTime
  BY <1>zero DEF OnInv, TurnsOffInTime
<1>1. CASE Tick  BY <1>1, <1>same DEF Tick
<1>2. CASE Measure  BY <1>2, <1>same DEF Measure
<1>3. CASE Ask
  <2>1. UNCHANGED <<relay, state, present, last_on, since, now>> /\ wanted = "none"
    BY <1>3 DEF Ask
  <2>2. ASSUME since > 0, wanted' \in {"off", "offload"} PROVE now - since >= MinOn
    <3>1. state /\ present /\ last_on = since  BY <2>2 DEF OnInv
    <3>2. GetWantedState # "unchanged"  BY <1>3, <2>2, <3>1 DEF Ask
    <3>3. ~ (now - last_on < MinOn)  BY <3>1, <3>2, StaysUnchanged DEF Stays
    <3> QED  BY <3>1, <3>3 DEF Typed
  <2> QED  BY <2>1, <2>2 DEF OnInv, TurnsOffInTime
<1>4. ASSUME NEW on \in BOOLEAN, Apply(on), on \/ wanted \in {"off", "offload"}
      PROVE  OnInv' /\ TurnsOffInTime
  <2>1. now' = now /\ present' = present /\ wanted' = "none"
    BY <1>4 DEF Apply, Done
  <2>2. CASE on = state
    BY <1>4, <1>same, <2>1, <2>2 DEF Apply, Keep, SinceFor
  <2>3. CASE on # state
    <3>1. relay' = on /\ state' = on /\ ClockTo(on) /\ since' = SinceFor(on)
      BY <1>4, <2>3 DEF Apply, Switch
    <3>2. /\ since' = IF on /\ present THEN now ELSE 0
          /\ last_on' = IF on THEN now ELSE last_on
      BY <2>3, <3>1, Switched
    <3>3. OnInv'  BY <2>1, <3>1, <3>2 DEF OnInv
    <3>4. TurnsOffInTime  BY <1>4, <3>1 DEF OnInv, TurnsOffInTime
    <3> QED  BY <3>3, <3>4
  <2> QED  BY <2>2, <2>3
<1>5. CASE ApplyForced \/ ApplyOffload
  BY <1>4, <1>5 DEF ApplyForced, ApplyOffload
<1>6. CASE Skip  BY <1>6, <1>same DEF Skip, Done
<1>7. CASE Fail  BY <1>7, <1>same DEF Fail, Done
<1>8. CASE FailToLog
  <2> DEFINE on == wanted = "on"
  <2>1. /\ state # on /\ relay' = on /\ state' = on /\ ClockTo(on) /\ since' = SinceFor(on)
        /\ now' = now /\ present' = present /\ wanted' = "none" /\ wanted \in {"on", "off"}
    BY <1>8 DEF FailToLog, Done
  <2>2. on \in BOOLEAN  OBVIOUS
  <2>3. /\ since' = IF on /\ present THEN now ELSE 0
        /\ last_on' = IF on THEN now ELSE last_on
    <3> HIDE DEF on
    <3> QED  BY <2>1, <2>2, Switched
  <2>4. OnInv'
    <3>1. CASE wanted = "on"
      <4>1. relay' = TRUE /\ state' = TRUE /\ last_on' = now
        BY <2>1, <2>3, <3>1
      <4>2. since' = IF present THEN now ELSE 0
        BY <2>3, <3>1
      <4> QED  BY <2>1, <4>1, <4>2 DEF OnInv
    <3>2. CASE wanted = "off"  BY <2>1, <2>3, <3>2 DEF OnInv
    <3> QED  BY <2>1, <3>1, <3>2
  <2>5. TurnsOffInTime  BY <2>1 DEF OnInv, TurnsOffInTime
  <2> QED  BY <2>4, <2>5
<1>9. ASSUME NEW on \in BOOLEAN, SetManualState(on) PROVE OnInv' /\ TurnsOffInTime
  BY <1>9, <1>zero DEF SetManualState
<1>10. CASE SetAutoState  BY <1>10, <1>same DEF SetAutoState
<1>11. CASE Button \/ ChangeThermometer  BY <1>11, <1>zero DEF Button, ChangeThermometer
<1>12. CASE Poll
  <2>1. ~ since > 0 /\ since' = since /\ wanted' = wanted  BY <1>12 DEF Poll, OnInv, Typed
  <2> QED  BY <2>1 DEF OnInv, TurnsOffInTime
<1>13. CASE Restart \/ Kill  BY <1>13, <1>zero DEF Restart, Kill, Load
<1>14. CASE UNCHANGED vars  BY <1>14, <1>same DEF vars
<1> QED
  BY <1>1, <1>2, <1>3, <1>5, <1>6, <1>7, <1>8, <1>9, <1>10, <1>11, <1>12, <1>13, <1>14 DEF Next

LEMMA InitOn == ASSUME Init PROVE Typed /\ OnInv
<1>1. /\ now = Start /\ last_on = 0 /\ since = 0 /\ kind \in Kinds
      /\ present = TRUE /\ relay = FALSE /\ state = FALSE /\ manual = FALSE
      /\ disturbed = FALSE /\ driven = FALSE /\ wanted = "none"
      /\ saved = [state |-> FALSE, manual |-> FALSE]
  BY DEF Init
<1>2. now \in Nat /\ kind \in Rules
  BY <1>1, Limits
<1>3. saved.state = FALSE /\ saved.manual = FALSE
  BY <1>1
<1>4. Typed  BY <1>1, <1>2, <1>3 DEF Typed
<1>5. OnInv  BY <1>1 DEF OnInv
<1> QED  BY <1>4, <1>5

\* The rules never turn off a device they have turned on less than min_on ago,
\* whatever fails, is measured or commanded in between.
THEOREM LeastTimeOn == Spec => MinOnIsKept
<1>1. Typed /\ OnInv /\ [Next]_vars => Typed' /\ OnInv' /\ TurnsOffInTime
  BY NextTyped, NextOn
<1>2. MinOnIsKept <=> [][TurnsOffInTime]_vars
  BY DEF MinOnIsKept, TurnsOffInTime
<1> QED
  BY <1>1, <1>2, InitOn, PTL DEF Spec

-----------------------------------------------------------------------------
(* The longest time on. *)

\* Until something else acts, the device remembers since when the rules have had
\* it on, and what they want kept on has not been on for too long.
MaxInv ==
  ~ disturbed =>
    /\ state = relay /\ manual = FALSE /\ present = TRUE
    /\ relay => last_on = since
    /\ kind # "temperature" /\ MaxOn > 0 /\ relay /\ (driven \/ wanted \in {"on", "offload"})
         => now - since <= MaxOn

\* What the rules, but for a temperature, keep on has not been on for too long.
LEMMA WantedOn ==
  ASSUME Typed, present, kind # "temperature"
  PROVE  /\ GetWantedState = "unchanged" => Stays
         /\ GetWantedState \in {"on", "offload"} => ~ TooLongOn
<1>1. GetWantedState = TimeRangeWants
        \/ (TimeRangeWants # "unchanged" /\ GetWantedState = "off")
  BY DEF Typed, GetWantedState, CMVWants, Rules
<1>2. /\ TimeRangeWants = "unchanged" => Stays
      /\ TimeRangeWants \in {"on", "offload"} => ~ TooLongOn
  BY DEF TimeRangeWants
<1> QED  BY <1>1, <1>2

LEMMA NextMax ==
  ASSUME MinOn <= MaxOn + 1, Typed, MaxInv, [Next]_vars PROVE MaxInv'
<1> USE Limits DEF clock, device, times, inputs, ghosts
<1>same. ASSUME UNCHANGED <<relay, state, manual, present, last_on, since, kind, disturbed>>,
                UNCHANGED <<now, wanted, driven>>
                \/ (wanted' = "none" /\ driven' = FALSE)
         PROVE  MaxInv'
  BY <1>same DEF MaxInv
<1>disturbed. ASSUME Disturb PROVE MaxInv'
  BY <1>disturbed DEF Disturb, MaxInv
<1>1. CASE Tick
  <2>1. /\ UNCHANGED <<relay, state, manual, present, last_on, since, kind, disturbed>>
        /\ wanted' = "none" /\ driven' = FALSE
    BY <1>1 DEF Tick
  <2> QED  BY <1>same, <2>1
<1>2. CASE Measure  BY <1>2, <1>same DEF Measure
<1>3. CASE Ask
  <2>1. /\ UNCHANGED <<relay, state, manual, present, last_on, since, kind, disturbed, now, driven>>
        /\ ~ driven
        /\ wanted' = IF GetWantedState = "unchanged"
                     THEN IF state THEN "on" ELSE "off"
                     ELSE GetWantedState
    BY <1>3 DEF Ask
  <2>2. ASSUME ~ disturbed, kind # "temperature", MaxOn > 0, relay, wanted' \in {"on", "offload"}
        PROVE  now - since <= MaxOn
    <3>1. state /\ ~ manual /\ present /\ last_on = since
      BY <2>2 DEF MaxInv, Typed
    <3>2. CASE GetWantedState = "unchanged"
      <4>1. Stays  BY <2>2, <3>1, <3>2, WantedOn
      <4>2. now - last_on < MinOn  BY <3>1, <4>1 DEF Stays
      <4> QED  BY <3>1, <4>2 DEF Typed
    <3>3. CASE GetWantedState # "unchanged"
      <4>1. ~ TooLongOn  BY <2>1, <2>2, <3>1, <3>3, WantedOn
      <4>2. ~ (now - last_on > MaxOn)  BY <2>2, <3>1, <4>1 DEF TooLongOn
      <4> QED  BY <3>1, <4>2 DEF Typed
    <3> QED  BY <3>2, <3>3
  <2> QED  BY <2>1, <2>2 DEF MaxInv
<1>4. ASSUME NEW on \in BOOLEAN, Apply(on), on => wanted \in {"on", "offload"}
      PROVE  MaxInv'
  <2>1. UNCHANGED <<now, present, kind, manual, disturbed>> /\ wanted' = "none"
    BY <1>4 DEF Apply, Done
  <2>2. CASE on = state
    <3>1. UNCHANGED <<relay, state, last_on, since>>
      BY <1>4, <2>2 DEF Apply, Keep, SinceFor
    <3>2. ~ disturbed /\ relay => wanted \in {"on", "offload"}
      BY <1>4, <2>2 DEF MaxInv
    <3> QED  BY <2>1, <3>1, <3>2 DEF MaxInv
  <2>3. CASE on # state
    <3>1. relay' = on /\ state' = on /\ ClockTo(on) /\ since' = SinceFor(on)
      BY <1>4, <2>3 DEF Apply, Switch
    <3>2. /\ since' = IF on /\ present THEN now ELSE 0
          /\ last_on' = IF on THEN now ELSE last_on
      BY <2>3, <3>1, Switched
    <3>3. ~ disturbed /\ on => since' = now /\ last_on' = now
      BY <3>2 DEF MaxInv
    <3>4. now - now <= MaxOn  BY DEF Typed
    <3> QED  BY <2>1, <3>1, <3>3, <3>4 DEF MaxInv
  <2> QED  BY <2>2, <2>3
<1>5. CASE ApplyForced \/ ApplyOffload
  BY <1>4, <1>5 DEF ApplyForced, ApplyOffload
<1>6. CASE Skip
  <2>1. wanted = "offload"
        /\ UNCHANGED <<relay, state, manual, present, last_on, since, kind, disturbed, now>>
        /\ wanted' = "none"
    BY <1>6 DEF Skip, Done
  <2> QED  BY <2>1 DEF MaxInv
<1>7. CASE Fail \/ FailToLog \/ Button \/ ChangeThermometer \/ Restart \/ Kill
  BY <1>7, <1>disturbed DEF Fail, FailToLog, Button, ChangeThermometer, Restart, Kill
<1>8. ASSUME NEW on \in BOOLEAN, SetManualState(on) PROVE MaxInv'
  BY <1>8, <1>disturbed DEF SetManualState
<1>9. CASE SetAutoState
  <2>1. disturbed /\ disturbed' = disturbed
    BY <1>9 DEF SetAutoState, MaxInv, Typed
  <2> QED  BY <2>1 DEF MaxInv
<1>10. CASE Poll
  <2>1. disturbed /\ disturbed' = disturbed
    BY <1>10 DEF Poll, MaxInv, Typed
  <2> QED  BY <2>1 DEF MaxInv
<1>11. CASE UNCHANGED vars  BY <1>11, <1>same DEF vars
<1> QED
  BY <1>1, <1>2, <1>3, <1>5, <1>6, <1>7, <1>8, <1>9, <1>10, <1>11 DEF Next

\* A device that is left to its rules is not on for longer than max_on, unless it
\* has a temperature, or must stay on for longer than that.
THEOREM LongestTimeOn == MinOn <= MaxOn + 1 => (Spec => []MaxOnIsObserved)
<1> SUFFICES ASSUME MinOn <= MaxOn + 1 PROVE Spec => []MaxOnIsObserved
  OBVIOUS
<1>1. Init => Typed /\ MaxInv
  BY InitOn DEF Init, MaxInv
<1>2. Typed /\ MaxInv /\ [Next]_vars => Typed' /\ MaxInv'
  BY NextTyped, NextMax
<1>3. MaxInv => MaxOnIsObserved
  BY DEF MaxInv, MaxOnIsObserved
<1> QED
  BY <1>1, <1>2, <1>3, PTL DEF Spec

-----------------------------------------------------------------------------
(* Histories. *)

Spans == [from : Nat, to : Nat]
LogRows == [at : Nat, on : BOOLEAN]

\* Induction up to n: where something fails, there is a first time it does.
LEMMA FirstOne ==
  ASSUME NEW n \in Nat, NEW E \in SUBSET (0..n), E # {}
  PROVE  \E p \in E : p = 0 \/ (p - 1 \in 0..n /\ p - 1 \notin E)
<1>1. E \subseteq Nat
  OBVIOUS
<1>2. PICK p \in E : \A y \in E : ~ <<y, p>> \in OpToRel(<, Nat)
  BY <1>1, NatLessThanWellFounded, WFMin
<1>3. \A y \in E : ~ y < p
  BY <1>1, <1>2 DEF OpToRel
<1> QED  BY <1>1, <1>3

\* g[1], ..., g[n] may be applied in turn.
LEMMA Iterates ==
  ASSUME NEW X, NEW b \in X, NEW n \in Nat, NEW g \in [1..n -> [X -> X]]
  PROVE  \E f \in [0..n -> X] : f[0] = b /\ \A i \in 1..n : f[i] = g[i][f[i - 1]]
<1> DEFINE Upto(f, m) == f[0] = b /\ \A i \in 1..m : f[i] = g[i][f[i - 1]]
           E == {m \in 0..n : ~ \E f \in [0..m -> X] : Upto(f, m)}
<1>1. ASSUME NEW m \in E PROVE m # 0 /\ (m - 1 \in 0..n => m - 1 \in E)
  <2>1. ASSUME m = 0 PROVE \E f \in [0..m -> X] : Upto(f, m)
    <3>1. [i \in 0..m |-> b] \in [0..m -> X] /\ Upto([i \in 0..m |-> b], m)
      BY <2>1
    <3> QED  BY <3>1
  <2>2. ASSUME m - 1 \in 0..n, NEW r \in [0..(m - 1) -> X], Upto(r, m - 1)
        PROVE  \E f \in [0..m -> X] : Upto(f, m)
    <3> DEFINE f == [i \in 0..m |-> IF i = m THEN g[m][r[m - 1]] ELSE r[i]]
    <3>1. m \in 1..n /\ m - 1 \in Nat
      BY <2>2
    <3>2. g[m][r[m - 1]] \in X
      BY <3>1
    <3>3. f \in [0..m -> X]
      BY <3>1, <3>2
    <3>4. f[0] = b
      BY <2>2, <3>1
    <3>5. ASSUME NEW i \in 1..m PROVE f[i] = g[i][f[i - 1]]
      BY <2>2, <3>1
    <3> QED  BY <3>3, <3>4, <3>5
  <2> HIDE DEF Upto
  <2> QED  BY <2>1, <2>2
<1>2. E = {}
  <2> HIDE DEF E
  <2>1. E \in SUBSET (0..n)
    BY DEF E
  <2> QED  BY <1>1, <2>1, FirstOne
<1> HIDE DEF Upto
<1>3. PICK f \in [0..n -> X] : Upto(f, n)
  BY <1>2
<1> QED  BY <1>3 DEF Upto

\* So may steps from a history to a history, from the empty one.
LEMMA Histories ==
  ASSUME NEW n \in Nat, NEW g \in [1..n -> [Seq(Spans) -> Seq(Spans)]]
  PROVE  \E f \in [0..n -> Seq(Spans)] : f[0] = <<>> /\ \A i \in 1..n : f[i] = g[i][f[i - 1]]
<1> DEFINE X == Seq(Spans)
           b == <<>>
<1>1. b \in X /\ g \in [1..n -> [X -> X]]
  OBVIOUS
<1> HIDE DEF X, b
<1>2. \E f \in [0..n -> X] : f[0] = b /\ \A i \in 1..n : f[i] = g[i][f[i - 1]]
  BY <1>1, Iterates
<1> QED  BY <1>2 DEF X, b

IsKept(f, h, ts) ==
  f = [i \in 0..Len(h) |->
         IF i = 0 THEN <<>>
         ELSE IF ts <= h[i].to + Retention THEN Append(f[i - 1], h[i])
         ELSE f[i - 1]]

LEMMA KeptExists ==
  ASSUME NEW h \in Seq(Spans), NEW ts \in Nat
  PROVE  \E f : IsKept(f, h, ts)
<1> DEFINE n == Len(h)
           g == [i \in 1..n |-> [x \in Seq(Spans) |->
                   IF ts <= h[i].to + Retention THEN Append(x, h[i]) ELSE x]]
           X == Seq(Spans)
<1>1. n \in Nat /\ Retention \in Nat
  BY RulesAssumption
<1>2. ASSUME NEW i \in 1..n PROVE h[i] \in Spans
  OBVIOUS
<1>3. g \in [1..n -> [X -> X]]
  BY <1>2
<1>4. <<>> \in X
  OBVIOUS
<1>5. PICK f \in [0..n -> X] : f[0] = <<>> /\ \A i \in 1..n : f[i] = g[i][f[i - 1]]
  <2> HIDE DEF g, n
  <2> QED  BY <1>1, <1>3, Histories
<1>6. ASSUME NEW i \in 1..n
      PROVE  f[i] = IF ts <= h[i].to + Retention THEN Append(f[i - 1], h[i]) ELSE f[i - 1]
  <2>1. i - 1 \in 0..n
    BY <1>1
  <2>2. f[i - 1] \in X
    BY <2>1
  <2> QED  BY <1>5, <2>2
<1>7. IsKept(f, h, ts)
  <2>1. f = [i \in 0..n |-> f[i]]
    OBVIOUS
  <2>2. ASSUME NEW i \in 0..n
        PROVE  f[i] = IF i = 0 THEN <<>>
                      ELSE IF ts <= h[i].to + Retention THEN Append(f[i - 1], h[i])
                      ELSE f[i - 1]
    <3>1. CASE i = 0  BY <1>5, <3>1
    <3>2. CASE i # 0
      <4>1. i \in 1..n
        BY <1>1, <3>2
      <4> QED  BY <1>6, <3>2, <4>1
    <3> QED  BY <3>1, <3>2
  <2> HIDE DEF g
  <2> QED  BY <2>1, <2>2 DEF IsKept
<1> QED  BY <1>7

\* What is forgotten is what ended too long ago, and nothing else.
LEMMA PurgedIs ==
  ASSUME NEW h \in Seq(Spans), NEW ts \in Nat
  PROVE  LET p == OnHistory!Purged(h, ts)
         IN  /\ p \in Seq(Spans)
             /\ \A x : (\E k \in DOMAIN p : p[k] = x)
                         <=> (\E k \in DOMAIN h : h[k] = x /\ ts <= x.to + Retention)
<1> DEFINE f == CHOOSE f : IsKept(f, h, ts)
           n == Len(h)
           Here(i) == /\ f[i] \in Seq(Spans)
                      /\ \A x : (\E k \in DOMAIN f[i] : f[i][k] = x)
                                  <=> (\E k \in 1..i : h[k] = x /\ ts <= x.to + Retention)
           E == {i \in 0..n : ~ Here(i)}
<1>1. IsKept(f, h, ts)
  BY KeptExists
<1>2. OnHistory!Purged(h, ts) = f[n]
  BY DEF OnHistory!Purged, IsKept
<1> HIDE DEF f
<1>3. n \in Nat /\ Retention \in Nat /\ DOMAIN h = 1..n
  BY RulesAssumption
<1>4. f[0] = <<>>
  BY <1>1, <1>3 DEF IsKept
<1>5. ASSUME NEW i \in 1..n
      PROVE  f[i] = IF ts <= h[i].to + Retention THEN Append(f[i - 1], h[i]) ELSE f[i - 1]
  <2>1. f = [j \in 0..n |->
               IF j = 0 THEN <<>>
               ELSE IF ts <= h[j].to + Retention THEN Append(f[j - 1], h[j])
               ELSE f[j - 1]]
    BY <1>1 DEF IsKept
  <2>2. i \in 0..n /\ i # 0
    BY <1>3
  <2> QED  BY <2>1, <2>2
<1>6. Here(0)
  BY <1>4
<1>7. ASSUME NEW i \in 1..n, Here(i - 1) PROVE Here(i)
  <2> DEFINE r == f[i - 1]
  <2>1. r \in Seq(Spans) /\ h[i] \in Spans
    BY <1>7
  <2>2. \A x : (\E k \in DOMAIN r : r[k] = x)
                 <=> (\E k \in 1..(i - 1) : h[k] = x /\ ts <= x.to + Retention)
    BY <1>7
  <2> HIDE DEF r
  <2>3. CASE ts <= h[i].to + Retention
    <3>1. f[i] = Append(r, h[i])
      BY <1>5, <2>3 DEF r
    <3>2. f[i] \in Seq(Spans) /\ DOMAIN f[i] = 1..(Len(r) + 1) /\ DOMAIN r = 1..Len(r) /\ Len(r) \in Nat
      BY <2>1, <3>1
    <3>3. f[i][Len(r) + 1] = h[i] /\ \A k \in 1..Len(r) : f[i][k] = r[k]
      BY <2>1, <3>1
    <3>4. ASSUME NEW x
          PROVE  (\E k \in DOMAIN f[i] : f[i][k] = x) <=> (x = h[i] \/ \E k \in DOMAIN r : r[k] = x)
      BY <3>2, <3>3
    <3>5. ASSUME NEW x
          PROVE  (\E k \in 1..i : h[k] = x /\ ts <= x.to + Retention)
                   <=> (x = h[i] \/ \E k \in 1..(i - 1) : h[k] = x /\ ts <= x.to + Retention)
      BY <2>3
    <3> QED  BY <2>2, <3>2, <3>4, <3>5
  <2>4. CASE ~ (ts <= h[i].to + Retention)
    <3>1. f[i] = r
      BY <1>5, <2>4 DEF r
    <3>2. ASSUME NEW x
          PROVE  (\E k \in 1..i : h[k] = x /\ ts <= x.to + Retention)
                   <=> (\E k \in 1..(i - 1) : h[k] = x /\ ts <= x.to + Retention)
      BY <2>4
    <3> QED  BY <2>1, <2>2, <3>1, <3>2
  <2> QED  BY <2>3, <2>4
<1>8. Here(n)
  <2> HIDE DEF Here
  <2>1. E \in SUBSET (0..n)
    OBVIOUS
  <2>2. E = {}
    <3>1. ASSUME NEW p \in E PROVE p # 0 /\ (p - 1 \in 0..n => p - 1 \in E)
      <4>1. p # 0  BY <1>6
      <4>2. p \in 1..n  BY <1>3, <4>1
      <4> QED  BY <1>7, <4>1, <4>2
    <3> HIDE DEF E
    <3> QED  BY <1>3, <2>1, <3>1, FirstOne
  <2> QED  BY <1>3, <2>2
<1> DEFINE p == OnHistory!Purged(h, ts)
<1>9. p = f[n]
  BY <1>2
<1>10. p \in Seq(Spans)
  BY <1>8, <1>9
<1>11. \A x : (\E k \in DOMAIN p : p[k] = x)
                <=> (\E k \in DOMAIN h : h[k] = x /\ ts <= x.to + Retention)
  <2> HIDE DEF p, f
  <2>1. \A x : (\E k \in DOMAIN f[n] : f[n][k] = x)
                 <=> (\E k \in 1..n : h[k] = x /\ ts <= x.to + Retention)
    BY <1>8
  <2> QED  BY ONLY <1>3, <1>9, <2>1
<1> QED  BY <1>10, <1>11

\* Whether a second is one of those a history has.
Covers(h, t) == \E i \in DOMAIN h : h[i].from <= t /\ (h[i].to = 0 \/ t < h[i].to)

\* Spans that begin and end, in this order, by ts; only the last may be open.
Tidy(h, ts) ==
  \A i \in DOMAIN h :
    /\ h[i].from > 0 /\ h[i].from <= ts
    /\ h[i].to # 0 => h[i].from <= h[i].to /\ h[i].to <= ts
    /\ i # Len(h) => h[i].to # 0

LEMMA TidyLater ==
  ASSUME NEW h \in Seq(Spans), NEW s \in Nat, NEW ts \in Nat, s <= ts, Tidy(h, s)
  PROVE  Tidy(h, ts)
<1>1. ASSUME NEW i \in DOMAIN h PROVE h[i].from \in Nat /\ h[i].to \in Nat
  <2>1. h[i] \in Spans
    OBVIOUS
  <2> QED  BY <2>1 DEF Spans
<1> QED  BY <1>1 DEF Tidy

\* A history that is not open has no second after its end; an open one is on.
LEMMA OpenCovers ==
  ASSUME NEW h \in Seq(Spans), NEW ts \in Nat, Tidy(h, ts), NEW t \in Nat, t >= ts
  PROVE  Covers(h, t) <=> OnHistory!Open(h)
<1>1. DOMAIN h = 1..Len(h) /\ Len(h) \in Nat
  OBVIOUS
<1>2. ASSUME NEW i \in DOMAIN h PROVE h[i].from \in Nat /\ h[i].to \in Nat
  <2>1. h[i] \in Spans
    OBVIOUS
  <2> QED  BY <2>1 DEF Spans
<1>3. ASSUME OnHistory!Open(h) PROVE Covers(h, t)
  <2>1. Len(h) \in DOMAIN h /\ h[Len(h)].to = 0
    BY <1>1, <1>3 DEF OnHistory!Open, OnHistory!Last
  <2>2. h[Len(h)].from <= t
    BY <1>2, <2>1 DEF Tidy
  <2> QED  BY <2>1, <2>2 DEF Covers
<1>4. ASSUME Covers(h, t) PROVE OnHistory!Open(h)
  <2>1. PICK i \in DOMAIN h : h[i].from <= t /\ (h[i].to = 0 \/ t < h[i].to)
    BY <1>4 DEF Covers
  <2>2. h[i].to = 0
    BY <1>2, <2>1 DEF Tidy
  <2>3. i = Len(h)
    BY <2>2 DEF Tidy
  <2>4. h # <<>>
    BY <1>1, <2>1
  <2> QED  BY <2>2, <2>3, <2>4 DEF OnHistory!Open, OnHistory!Last
<1> QED  BY <1>3, <1>4

LEMMA ClockIn ==
  ASSUME NEW h \in Seq(Spans), NEW ts \in Nat, ts > 0, Tidy(h, ts)
  PROVE  LET r == OnHistory!ClockedIn(h, ts)
         IN  /\ r \in Seq(Spans) /\ Tidy(r, ts) /\ OnHistory!Open(r)
             /\ \A t \in Nat : Covers(r, t) <=> (Covers(h, t) \/ t >= ts)
             /\ \A i \in DOMAIN r : r[i].from = ts \/ \E k \in DOMAIN h : h[k].from = r[i].from
<1> DEFINE n == Len(h)
           r == OnHistory!ClockedIn(h, ts)
<1>1. DOMAIN h = 1..n /\ n \in Nat
  OBVIOUS
<1>2. ASSUME NEW i \in DOMAIN h PROVE h[i] \in Spans /\ h[i].from \in Nat /\ h[i].to \in Nat
  <2>1. h[i] \in Spans
    OBVIOUS
  <2> QED  BY <2>1 DEF Spans
<1>3. CASE OnHistory!Open(h)
  <2>1. r = h
    BY <1>3 DEF OnHistory!ClockedIn
  <2>2. ASSUME NEW t \in Nat, t >= ts PROVE Covers(h, t)
    BY <1>3, <2>2, OpenCovers
  <2> QED  BY <1>3, <2>1, <2>2
<1>4. CASE ~ OnHistory!Open(h)
  <2> DEFINE new == [from |-> ts, to |-> 0]
  <2>1. ASSUME NEW i \in DOMAIN h PROVE h[i].to # 0 /\ h[i].to <= ts
    <3>1. h # <<>>
      BY <1>1
    <3> QED  BY <1>1, <1>4, <3>1 DEF Tidy, OnHistory!Open, OnHistory!Last
  <2>2. r = Append(h, new)
    <3>1. h # <<>> => ~ (OnHistory!Last(h).to > ts)
      BY <1>1, <1>2, <2>1 DEF OnHistory!Last
    <3> QED  BY <1>4, <3>1 DEF OnHistory!ClockedIn
  <2>3. new \in Spans /\ new.from = ts /\ new.to = 0
    BY DEF Spans
  <2> HIDE DEF new, r
  <2>4. r \in Seq(Spans) /\ Len(r) = n + 1 /\ DOMAIN r = 1..(n + 1)
    BY <2>2, <2>3
  <2>5. r[n + 1] = new /\ \A i \in DOMAIN h : r[i] = h[i]
    BY <1>1, <2>2
  <2>6. \A i \in DOMAIN r : i = n + 1 \/ i \in DOMAIN h
    BY <1>1, <2>4
  <2>7. n + 1 \in DOMAIN r /\ \A i \in DOMAIN h : i \in DOMAIN r /\ i # n + 1
    BY <1>1, <2>4
  <2>8. Tidy(r, ts)
    <3>1. ASSUME NEW i \in DOMAIN h PROVE h[i].from > 0 /\ h[i].from <= ts /\ h[i].from <= h[i].to
      BY <2>1 DEF Tidy
    <3>2. ASSUME NEW i \in DOMAIN r
          PROVE  /\ r[i].from > 0 /\ r[i].from <= ts
                 /\ r[i].to # 0 => r[i].from <= r[i].to /\ r[i].to <= ts
                 /\ i # n + 1 => r[i].to # 0
      BY <2>1, <2>3, <2>5, <2>6, <3>1
    <3> QED  BY <2>4, <3>2 DEF Tidy
  <2>9. OnHistory!Open(r)
    BY <1>1, <2>3, <2>4, <2>5 DEF OnHistory!Open, OnHistory!Last
  <2>10. ASSUME NEW t \in Nat PROVE Covers(r, t) <=> (Covers(h, t) \/ t >= ts)
    BY <2>3, <2>5, <2>6, <2>7 DEF Covers
  <2>11. \A i \in DOMAIN r : r[i].from = ts \/ \E k \in DOMAIN h : h[k].from = r[i].from
    BY <2>3, <2>5, <2>6
  <2> QED  BY <2>4, <2>8, <2>9, <2>10, <2>11 DEF r
<1> QED  BY <1>3, <1>4

\* What is forgotten by the way is not of the time that is kept.
LEMMA ClockOut ==
  ASSUME NEW h \in Seq(Spans), NEW ts \in Nat, ts > 0, Tidy(h, ts), NEW at \in Nat
  PROVE  LET r == OnHistory!ClockedOut(h, ts, at)
         IN  /\ r \in Seq(Spans) /\ Tidy(r, ts) /\ ~ OnHistory!Open(r)
             /\ \A t \in Nat : t + Retention >= at => (Covers(r, t) <=> (Covers(h, t) /\ t < ts))
             /\ \A i \in DOMAIN r : \E k \in DOMAIN h : h[k].from = r[i].from
<1> DEFINE n == Len(h)
           r == OnHistory!ClockedOut(h, ts, at)
<1>1. DOMAIN h = 1..n /\ n \in Nat /\ Retention \in Nat
  BY RulesAssumption
<1>2. ASSUME NEW i \in DOMAIN h PROVE h[i] \in Spans /\ h[i].from \in Nat /\ h[i].to \in Nat
  <2>1. h[i] \in Spans
    OBVIOUS
  <2> QED  BY <2>1 DEF Spans
<1>3. CASE ~ OnHistory!Open(h)
  <2>1. r = h
    BY <1>3 DEF OnHistory!ClockedOut
  <2>2. ASSUME NEW t \in Nat, Covers(h, t) PROVE t < ts
    BY <1>3, <2>2, OpenCovers
  <2> QED  BY <1>3, <2>1, <2>2
<1>4. CASE OnHistory!Open(h)
  <2> DEFINE g == [h EXCEPT ![n].to = ts]
  <2>1. n \in DOMAIN h /\ h[n].to = 0
    BY <1>1, <1>4 DEF OnHistory!Open, OnHistory!Last
  <2>2. r = OnHistory!Purged(g, at)
    <3>1. ~ (OnHistory!Last(h).from > ts)
      BY <1>2, <2>1 DEF Tidy, OnHistory!Last
    <3> QED  BY <1>4, <3>1 DEF OnHistory!ClockedOut
  <2> DEFINE end == [h[n] EXCEPT !.to = ts]
  <2>3. g[n] = end /\ DOMAIN g = DOMAIN h /\ \A i \in DOMAIN h : i # n => g[i] = h[i]
    BY <2>1
  <2>4. end \in Spans /\ end.from = h[n].from /\ end.to = ts
    BY <1>2, <2>1 DEF Spans
  <2>5. g \in Seq(Spans)
    <3>1. g = [h EXCEPT ![n] = end]
      OBVIOUS
    <3> HIDE DEF end, g
    <3> QED  BY <1>1, <2>1, <2>4, <3>1
  <2> HIDE DEF g, r, end
  <2>6. ASSUME NEW i \in DOMAIN g
        PROVE  /\ g[i].from = h[i].from /\ g[i].to \in Nat
               /\ g[i].to # 0 /\ g[i].to <= ts
               /\ g[i].to = IF i = n THEN ts ELSE h[i].to
    <3>1. CASE i = n  BY <2>3, <2>4, <3>1
    <3>2. CASE i # n
      <4>1. i \in DOMAIN h /\ g[i] = h[i]
        BY <2>3, <3>2
      <4>2. h[i].to # 0 /\ h[i].to <= ts
        BY <3>2, <4>1 DEF Tidy
      <4> QED  BY <1>2, <3>2, <4>1, <4>2
    <3> QED  BY <3>1, <3>2
  <2>7. /\ r \in Seq(Spans)
        /\ \A x : (\E k \in DOMAIN r : r[k] = x)
                    <=> (\E k \in DOMAIN g : g[k] = x /\ at <= x.to + Retention)
    <3> DEFINE p == OnHistory!Purged(g, at)
    <3>1. /\ p \in Seq(Spans)
          /\ \A x : (\E k \in DOMAIN p : p[k] = x)
                      <=> (\E k \in DOMAIN g : g[k] = x /\ at <= x.to + Retention)
      BY <2>5, PurgedIs
    <3> HIDE DEF p
    <3> QED  BY <2>2, <3>1 DEF p
  <2>8. ASSUME NEW k \in DOMAIN r PROVE \E j \in DOMAIN g : g[j] = r[k]
    BY <2>7
  <2>9. Tidy(r, ts) /\ ~ OnHistory!Open(r)
    <3>1. ASSUME NEW i \in DOMAIN r
          PROVE  /\ r[i].from > 0 /\ r[i].from <= ts
                 /\ r[i].to # 0 /\ r[i].from <= r[i].to /\ r[i].to <= ts
      <4>1. PICK j \in DOMAIN g : g[j] = r[i]
        BY <2>8
      <4>2. j \in DOMAIN h
        BY <2>3
      <4>3. h[j].from > 0 /\ h[j].from <= ts /\ (j # n => h[j].from <= h[j].to)
        BY <4>2 DEF Tidy
      <4> QED  BY <2>6, <4>1, <4>3
    <3>2. r # <<>> => Len(r) \in DOMAIN r
      BY <2>7
    <3> QED  BY <3>1, <3>2 DEF Tidy, OnHistory!Open, OnHistory!Last
  <2>10. ASSUME NEW t \in Nat, t + Retention >= at
         PROVE  Covers(r, t) <=> (Covers(h, t) /\ t < ts)
    <3>1. ASSUME Covers(r, t) PROVE Covers(h, t) /\ t < ts
      <4>1. PICK i \in DOMAIN r : r[i].from <= t /\ (r[i].to = 0 \/ t < r[i].to)
        BY <3>1 DEF Covers
      <4>2. PICK j \in DOMAIN g : g[j] = r[i]
        BY <2>8
      <4>3. h[j].from <= t /\ t < g[j].to /\ t < ts
        BY <2>6, <4>1, <4>2
      <4>4. j \in DOMAIN h /\ (h[j].to = 0 \/ t < h[j].to)
        BY <2>1, <2>3, <2>6, <4>3
      <4> QED  BY <4>3, <4>4 DEF Covers
    <3>2. ASSUME Covers(h, t), t < ts PROVE Covers(r, t)
      <4>1. PICK j \in DOMAIN h : h[j].from <= t /\ (h[j].to = 0 \/ t < h[j].to)
        BY <3>2 DEF Covers
      <4>2. j \in DOMAIN g /\ g[j].from <= t /\ t < g[j].to /\ g[j].to \in Nat
        <5>1. j \in DOMAIN g
          BY <2>3
        <5>2. j # n => h[j].to # 0
          BY DEF Tidy
        <5> QED  BY <2>6, <3>2, <4>1, <5>1, <5>2
      <4>3. at <= g[j].to + Retention
        BY <1>1, <2>10, <4>2
      <4>4. PICK k \in DOMAIN r : r[k] = g[j]
        BY <2>7, <4>2, <4>3
      <4> QED  BY <4>2, <4>4 DEF Covers
    <3> QED  BY <3>1, <3>2
  <2>11. \A i \in DOMAIN r : \E k \in DOMAIN h : h[k].from = r[i].from
    BY <2>3, <2>6, <2>8
  <2> QED  BY <2>7, <2>9, <2>10, <2>11 DEF r
<1> QED  BY <1>3, <1>4

-----------------------------------------------------------------------------
(* What a start reads. *)

\* The last of the first i rows that is not after t says that the device was on;
\* it is among those that are still read.
OnAt(log, i, t) ==
  \E k \in 1..i : log[k].on /\ log[k].at <= t /\ \A j \in (k + 1)..i : log[j].at > t
ReadOnAt(log, i, t, ts) ==
  \E k \in 1..i : /\ log[k].on /\ log[k].at <= t /\ ts <= log[k].at + Retention
                  /\ \A j \in (k + 1)..i : log[j].at > t

Ordered(log, ts) ==
  /\ \A i \in DOMAIN log : log[i].at > 0 /\ log[i].at <= ts
  /\ \A i, j \in DOMAIN log : i <= j => log[i].at <= log[j].at

\* The spans begin where a row says that the device was turned on.
FromRows(h, log, n) ==
  \A i \in DOMAIN h : \E k \in 1..n : log[k].on /\ log[k].at = h[i].from

LEMMA OneMoreRow ==
  ASSUME NEW log \in Seq(LogRows), NEW ts \in Nat, Ordered(log, ts), NEW i \in DOMAIN log, NEW t \in Nat
  PROVE  /\ ts > log[i].at + Retention => ~ ReadOnAt(log, i, t, ts) /\ ~ ReadOnAt(log, i - 1, t, ts)
         /\ ts <= log[i].at + Retention
              => (ReadOnAt(log, i, t, ts)
                    <=> IF log[i].on THEN ReadOnAt(log, i - 1, t, ts) \/ t >= log[i].at
                                     ELSE ReadOnAt(log, i - 1, t, ts) /\ t < log[i].at)
<1>1. i \in 1..Len(log) /\ Len(log) \in Nat /\ DOMAIN log = 1..Len(log) /\ Retention \in Nat
  BY RulesAssumption
<1>2. ASSUME NEW j \in DOMAIN log PROVE log[j].at \in Nat /\ log[j].on \in BOOLEAN
  <2>1. log[j] \in LogRows
    OBVIOUS
  <2> QED  BY <2>1 DEF LogRows
<1>3. ASSUME NEW k \in 1..i PROVE k \in DOMAIN log /\ log[k].at <= log[i].at
  <2>1. k \in DOMAIN log /\ k <= i
    BY <1>1
  <2> QED  BY <2>1 DEF Ordered
<1>4. ASSUME ts > log[i].at + Retention
      PROVE  ~ ReadOnAt(log, i, t, ts) /\ ~ ReadOnAt(log, i - 1, t, ts)
  <2>1. ASSUME NEW k \in 1..i PROVE ~ (ts <= log[k].at + Retention)
    BY <1>1, <1>2, <1>3, <1>4
  <2>2. \A k \in 1..(i - 1) : k \in 1..i
    BY <1>1
  <2> QED  BY <2>1, <2>2 DEF ReadOnAt
<1>5. ASSUME ReadOnAt(log, i, t, ts), ~ (log[i].on /\ t >= log[i].at)
      PROVE  ReadOnAt(log, i - 1, t, ts) /\ t < log[i].at
  <2>1. PICK k \in 1..i : /\ log[k].on /\ log[k].at <= t /\ ts <= log[k].at + Retention
                          /\ \A j \in (k + 1)..i : log[j].at > t
    BY <1>5 DEF ReadOnAt
  <2>2. k # i
    BY <1>2, <1>3, <1>5, <2>1
  <2>3. k \in 1..(i - 1) /\ i \in (k + 1)..i /\ \A j \in (k + 1)..(i - 1) : j \in (k + 1)..i
    BY <1>1, <2>2
  <2>4. ReadOnAt(log, i - 1, t, ts)
    BY <2>1, <2>3 DEF ReadOnAt
  <2>5. log[i].at > t
    BY <2>1, <2>3
  <2> QED  BY <1>2, <2>4, <2>5
<1>6. ASSUME ReadOnAt(log, i - 1, t, ts), t < log[i].at
      PROVE  ReadOnAt(log, i, t, ts)
  <2>1. PICK k \in 1..(i - 1) : /\ log[k].on /\ log[k].at <= t /\ ts <= log[k].at + Retention
                                /\ \A j \in (k + 1)..(i - 1) : log[j].at > t
    BY <1>6 DEF ReadOnAt
  <2>2. k \in 1..i /\ \A j \in (k + 1)..i : j = i \/ j \in (k + 1)..(i - 1)
    BY <1>1
  <2>3. log[i].at > t
    BY <1>2, <1>6
  <2> QED  BY <2>1, <2>2, <2>3 DEF ReadOnAt
<1>7. ASSUME log[i].on, t >= log[i].at, ts <= log[i].at + Retention
      PROVE  ReadOnAt(log, i, t, ts)
  <2>1. i \in 1..i /\ (i + 1)..i = {} /\ log[i].at <= t
    BY <1>1, <1>2, <1>7
  <2> QED  BY <1>7, <2>1 DEF ReadOnAt
<1> QED
  <2>1. t < log[i].at <=> ~ (t >= log[i].at)
    BY <1>2
  <2> QED  BY <1>4, <1>5, <1>6, <1>7, <2>1

LEMMA WithRowType ==
  ASSUME NEW h \in Seq(Spans), NEW row \in LogRows, NEW ts \in Nat
  PROVE  OnHistory!WithRow(h, row, ts) \in Seq(Spans)
<1>1. row.at \in Nat /\ row.on \in BOOLEAN /\ Retention \in Nat
  BY RulesAssumption DEF LogRows
<1>2. OnHistory!ClockedIn(h, row.at) \in Seq(Spans)
  <2>1. [from |-> row.at, to |-> 0] \in Spans
    BY <1>1 DEF Spans
  <2> QED  BY <2>1 DEF OnHistory!ClockedIn
<1>3. OnHistory!ClockedOut(h, row.at, ts) \in Seq(Spans)
  <2>1. CASE OnHistory!Open(h)
    <3> DEFINE g == [h EXCEPT ![Len(h)].to = row.at]
               end == [h[Len(h)] EXCEPT !.to = row.at]
    <3>1. Len(h) \in DOMAIN h /\ h[Len(h)] \in Spans
      BY <2>1 DEF OnHistory!Open
    <3>2. end \in Spans
      BY <1>1, <3>1 DEF Spans
    <3>3. g = [h EXCEPT ![Len(h)] = end]
      OBVIOUS
    <3> HIDE DEF end, g
    <3>4. g \in Seq(Spans)
      BY <3>1, <3>2, <3>3
    <3>5. OnHistory!Purged(g, ts) \in Seq(Spans)
      BY <3>4, PurgedIs
    <3> QED  BY <3>5 DEF OnHistory!ClockedOut, g
  <2>2. CASE ~ OnHistory!Open(h)
    BY <2>2 DEF OnHistory!ClockedOut
  <2> QED  BY <2>1, <2>2
<1> QED  BY <1>1, <1>2, <1>3 DEF OnHistory!WithRow

IsRead(f, log, ts) ==
  f = [i \in 0..Len(log) |-> IF i = 0 THEN <<>> ELSE OnHistory!WithRow(f[i - 1], log[i], ts)]

LEMMA ReadExists ==
  ASSUME NEW log \in Seq(LogRows), NEW ts \in Nat
  PROVE  \E f : IsRead(f, log, ts)
<1> DEFINE n == Len(log)
           X == Seq(Spans)
           g == [i \in 1..n |-> [x \in X |-> OnHistory!WithRow(x, log[i], ts)]]
<1>1. n \in Nat
  OBVIOUS
<1>2. ASSUME NEW i \in 1..n PROVE log[i] \in LogRows
  OBVIOUS
<1>3. g \in [1..n -> [X -> X]]
  BY <1>2, WithRowType
<1>4. PICK f \in [0..n -> X] : f[0] = <<>> /\ \A i \in 1..n : f[i] = g[i][f[i - 1]]
  <2> HIDE DEF g, n
  <2> QED  BY <1>1, <1>3, Histories
<1>5. ASSUME NEW i \in 1..n PROVE f[i] = OnHistory!WithRow(f[i - 1], log[i], ts)
  <2>1. i - 1 \in 0..n
    BY <1>1
  <2>2. f[i - 1] \in X
    BY <2>1
  <2> QED  BY <1>4, <2>2
<1>6. IsRead(f, log, ts)
  <2>1. f = [i \in 0..n |-> f[i]]
    OBVIOUS
  <2>2. ASSUME NEW i \in 0..n
        PROVE  f[i] = IF i = 0 THEN <<>> ELSE OnHistory!WithRow(f[i - 1], log[i], ts)
    <3>1. CASE i = 0  BY <1>4, <3>1
    <3>2. CASE i # 0
      <4>1. i \in 1..n
        BY <1>1, <3>2
      <4> QED  BY <1>5, <3>2, <4>1
    <3> QED  BY <3>1, <3>2
  <2> HIDE DEF g
  <2> QED  BY <2>1, <2>2 DEF IsRead
<1> QED  BY <1>6

\* What is read, of a time that is kept, is what the rows that are read say.
ReadAs(h, log, i, ts) ==
  /\ h \in Seq(Spans)
  /\ Tidy(h, IF i = 0 THEN 0 ELSE log[i].at)
  /\ OnHistory!Open(h) <=> (i # 0 /\ log[i].on /\ ts <= log[i].at + Retention)
  /\ \A t \in Nat : t + Retention >= ts => (Covers(h, t) <=> ReadOnAt(log, i, t, ts))
  /\ FromRows(h, log, i)

LEMMA NothingRead ==
  ASSUME NEW log, NEW ts PROVE ReadAs(<<>>, log, 0, ts)
<1>1. <<>> \in Seq(Spans) /\ DOMAIN <<>> = {}
  OBVIOUS
<1>2. 1..0 = {}
  OBVIOUS
<1> QED  BY <1>1, <1>2 DEF ReadAs, Tidy, Covers, ReadOnAt, FromRows, OnHistory!Open

LEMMA RowRead ==
  ASSUME NEW log \in Seq(LogRows), NEW ts \in Nat, Ordered(log, ts), NEW i \in DOMAIN log,
         NEW h, ReadAs(h, log, i - 1, ts)
  PROVE  ReadAs(OnHistory!WithRow(h, log[i], ts), log, i, ts)
<1> DEFINE r == OnHistory!WithRow(h, log[i], ts)
           s == log[i].at
<1>1. i \in 1..Len(log) /\ Len(log) \in Nat /\ DOMAIN log = 1..Len(log) /\ Retention \in Nat /\ i # 0
  BY RulesAssumption
<1>2. ASSUME NEW j \in DOMAIN log PROVE log[j].at \in Nat /\ log[j].on \in BOOLEAN /\ log[j].at > 0
  <2>1. log[j] \in LogRows
    OBVIOUS
  <2> QED  BY <2>1 DEF LogRows, Ordered
<1>3. h \in Seq(Spans) /\ s \in Nat /\ s > 0 /\ log[i].on \in BOOLEAN
  BY <1>2 DEF ReadAs
<1>4. Tidy(h, s)
  <2> DEFINE before == IF i - 1 = 0 THEN 0 ELSE log[i - 1].at
  <2>1. before \in Nat /\ before <= s
    <3>1. CASE i - 1 = 0  BY <1>3, <3>1
    <3>2. CASE i - 1 # 0
      <4>1. i - 1 \in DOMAIN log /\ i - 1 <= i
        BY <1>1, <3>2
      <4> QED  BY <1>2, <3>2, <4>1 DEF Ordered
    <3> QED  BY <3>1, <3>2
  <2>2. Tidy(h, before)
    BY DEF ReadAs
  <2> HIDE DEF before
  <2> QED  BY <1>3, <2>1, <2>2, TidyLater
<1>5. FromRows(h, log, i)
  <2>1. \A k \in 1..(i - 1) : k \in 1..i
    BY <1>1
  <2> QED  BY <2>1 DEF ReadAs, FromRows
<1>6. CASE ts > s + Retention
  <2>1. r = h
    <3>1. ~ (ts <= s + Retention)
      BY <1>1, <1>3, <1>6
    <3> QED  BY <1>6, <3>1 DEF OnHistory!WithRow
  <2>2. ~ OnHistory!Open(h)
    <3>1. CASE i - 1 = 0  BY <3>1 DEF ReadAs
    <3>2. CASE i - 1 # 0
      <4>1. i - 1 \in DOMAIN log /\ i - 1 <= i
        BY <1>1, <3>2
      <4>2. log[i - 1].at <= s /\ log[i - 1].at \in Nat
        BY <1>2, <4>1 DEF Ordered
      <4> QED  BY <1>1, <1>3, <1>6, <4>2 DEF ReadAs
    <3> QED  BY <3>1, <3>2
  <2>3. ~ (ts <= s + Retention)
    BY <1>1, <1>3, <1>6
  <2>4. ASSUME NEW t \in Nat, t + Retention >= ts PROVE Covers(h, t) <=> ReadOnAt(log, i, t, ts)
    <3>1. ~ ReadOnAt(log, i, t, ts) /\ ~ ReadOnAt(log, i - 1, t, ts)
      BY <1>6, OneMoreRow
    <3> QED  BY <2>4, <3>1 DEF ReadAs
  <2> QED  BY <1>1, <1>3, <1>4, <1>5, <2>1, <2>2, <2>3, <2>4 DEF ReadAs
<1>7. CASE ts <= s + Retention /\ log[i].on
  <2>1. r = OnHistory!ClockedIn(h, s)
    <3>1. ~ (ts > s + Retention)
      BY <1>1, <1>3, <1>7
    <3> QED  BY <1>7, <3>1 DEF OnHistory!WithRow
  <2> HIDE DEF r
  <2>2. /\ r \in Seq(Spans) /\ Tidy(r, s) /\ OnHistory!Open(r)
        /\ \A t \in Nat : Covers(r, t) <=> (Covers(h, t) \/ t >= s)
        /\ \A k \in DOMAIN r : r[k].from = s \/ \E j \in DOMAIN h : h[j].from = r[k].from
    <3> HIDE DEF s
    <3> DEFINE p == OnHistory!ClockedIn(h, s)
    <3>1. /\ p \in Seq(Spans) /\ Tidy(p, s) /\ OnHistory!Open(p)
          /\ \A t \in Nat : Covers(p, t) <=> (Covers(h, t) \/ t >= s)
          /\ \A k \in DOMAIN p : p[k].from = s \/ \E j \in DOMAIN h : h[j].from = p[k].from
      BY <1>3, <1>4, ClockIn
    <3> QED  BY <2>1, <3>1
  <2>3. ASSUME NEW t \in Nat, t + Retention >= ts PROVE Covers(r, t) <=> ReadOnAt(log, i, t, ts)
    <3>1. Covers(h, t) <=> ReadOnAt(log, i - 1, t, ts)
      BY <2>3 DEF ReadAs
    <3>2. ReadOnAt(log, i, t, ts) <=> ReadOnAt(log, i - 1, t, ts) \/ t >= s
      BY <1>7, OneMoreRow
    <3> QED  BY <2>2, <3>1, <3>2
  <2>4. FromRows(r, log, i)
    <3>1. i \in 1..i /\ log[i].on /\ log[i].at = s
      BY <1>1, <1>7
    <3> QED  BY <1>5, <2>2, <3>1 DEF FromRows
  <2> QED  BY <1>1, <1>7, <2>2, <2>3, <2>4 DEF ReadAs, r
<1>8. CASE ts <= s + Retention /\ ~ log[i].on
  <2>1. r = OnHistory!ClockedOut(h, s, ts)
    <3>1. ~ (ts > s + Retention)
      BY <1>1, <1>3, <1>8
    <3> QED  BY <1>8, <3>1 DEF OnHistory!WithRow
  <2> HIDE DEF r
  <2>2. /\ r \in Seq(Spans) /\ Tidy(r, s) /\ ~ OnHistory!Open(r)
        /\ \A t \in Nat : t + Retention >= ts => (Covers(r, t) <=> (Covers(h, t) /\ t < s))
        /\ \A k \in DOMAIN r : \E j \in DOMAIN h : h[j].from = r[k].from
    <3> HIDE DEF s
    <3> DEFINE p == OnHistory!ClockedOut(h, s, ts)
    <3>1. /\ p \in Seq(Spans) /\ Tidy(p, s) /\ ~ OnHistory!Open(p)
          /\ \A t \in Nat : t + Retention >= ts => (Covers(p, t) <=> (Covers(h, t) /\ t < s))
          /\ \A k \in DOMAIN p : \E j \in DOMAIN h : h[j].from = p[k].from
      BY <1>3, <1>4, ClockOut
    <3> QED  BY <2>1, <3>1
  <2>3. ASSUME NEW t \in Nat, t + Retention >= ts PROVE Covers(r, t) <=> ReadOnAt(log, i, t, ts)
    <3>1. Covers(h, t) <=> ReadOnAt(log, i - 1, t, ts)
      BY <2>3 DEF ReadAs
    <3>2. ReadOnAt(log, i, t, ts) <=> ReadOnAt(log, i - 1, t, ts) /\ t < s
      BY <1>8, OneMoreRow
    <3> QED  BY <2>2, <2>3, <3>1, <3>2
  <2>4. FromRows(r, log, i)
    BY <1>5, <2>2 DEF FromRows
  <2> QED  BY <1>1, <1>8, <2>2, <2>3, <2>4 DEF ReadAs, r
<1> QED  BY <1>1, <1>3, <1>6, <1>7, <1>8

LEMMA ReloadedAs ==
  ASSUME NEW log \in Seq(LogRows), NEW ts \in Nat, Ordered(log, ts)
  PROVE  ReadAs(OnHistory!Reloaded(log, ts), log, Len(log), ts)
<1> DEFINE f == CHOOSE f : IsRead(f, log, ts)
           n == Len(log)
           E == {i \in 0..n : ~ ReadAs(f[i], log, i, ts)}
<1>1. IsRead(f, log, ts)
  BY ReadExists
<1>2. OnHistory!Reloaded(log, ts) = f[n]
  BY DEF OnHistory!Reloaded, IsRead
<1> HIDE DEF f
<1>3. n \in Nat /\ DOMAIN log = 1..n
  OBVIOUS
<1>4. ASSUME NEW i \in 0..n
      PROVE  f[i] = IF i = 0 THEN <<>> ELSE OnHistory!WithRow(f[i - 1], log[i], ts)
  <2>1. f = [j \in 0..n |-> IF j = 0 THEN <<>> ELSE OnHistory!WithRow(f[j - 1], log[j], ts)]
    BY <1>1 DEF IsRead
  <2> QED  BY <2>1
<1>5. ReadAs(f[0], log, 0, ts)
  <2>1. f[0] = <<>>
    BY <1>3, <1>4
  <2> QED  BY <2>1, NothingRead
<1>6. ASSUME NEW i \in 1..n, ReadAs(f[i - 1], log, i - 1, ts) PROVE ReadAs(f[i], log, i, ts)
  <2>1. i \in 0..n /\ i # 0 /\ i \in DOMAIN log
    BY <1>3
  <2>2. f[i] = OnHistory!WithRow(f[i - 1], log[i], ts)
    BY <1>4, <2>1
  <2> QED  BY <1>6, <2>1, <2>2, RowRead
<1>7. ASSUME NEW p \in E PROVE p # 0 /\ (p - 1 \in 0..n => p - 1 \in E)
  <2>1. p # 0  BY <1>5
  <2>2. p \in 1..n  BY <1>3, <2>1
  <2> QED  BY <1>6, <2>1, <2>2
<1>8. E \in SUBSET (0..n)
  OBVIOUS
<1>9. E = {}
  <2> HIDE DEF E
  <2> QED  BY <1>3, <1>7, <1>8, FirstOne
<1> QED  BY <1>2, <1>3, <1>9

-----------------------------------------------------------------------------
(* The time on. *)

\* The log has one row per switch, in their order: the last says what the relay
\* is, the others since when it has not been so.
LogSays ==
  /\ rows \in Seq(LogRows) /\ Ordered(rows, now)
  /\ relay <=> (rows # <<>> /\ rows[Len(rows)].on)
  /\ on_seconds \subseteq 0..(now - 1)
  /\ \A t \in 0..(now - 1) : t \in on_seconds <=> OnAt(rows, Len(rows), t)

\* The history agrees with the relay, and on the seconds that are kept; its spans
\* begin with rows of the log, which a start will read in its place.
HistorySays ==
  /\ on_history \in Seq(Spans) /\ Tidy(on_history, now)
  /\ OnHistory!Open(on_history) <=> relay
  /\ FromRows(on_history, rows, Len(rows))
  /\ \A t \in 0..(now - 1) : t + Retention >= now => (Covers(on_history, t) <=> t \in on_seconds)

CountInv == now > 0 /\ (~ astray => state = relay /\ LogSays /\ HistorySays)

LEMMA EndOfLog ==
  ASSUME NEW log \in Seq(LogRows), NEW ts \in Nat, Ordered(log, ts), NEW t \in Nat, t >= ts
  PROVE  OnAt(log, Len(log), t) <=> (log # <<>> /\ log[Len(log)].on)
<1> DEFINE n == Len(log)
<1>1. n \in Nat /\ DOMAIN log = 1..n /\ (log = <<>> <=> n = 0)
  OBVIOUS
<1>2. ASSUME NEW j \in DOMAIN log PROVE log[j].at \in Nat /\ log[j].at <= t
  <2>1. log[j] \in LogRows
    OBVIOUS
  <2> QED  BY <2>1 DEF LogRows, Ordered
<1>3. ASSUME log # <<>>, log[n].on PROVE OnAt(log, n, t)
  <2>1. n \in 1..n /\ n \in DOMAIN log /\ (n + 1)..n = {}
    BY <1>1, <1>3
  <2> QED  BY <1>2, <1>3, <2>1 DEF OnAt
<1>4. ASSUME OnAt(log, n, t) PROVE log # <<>> /\ log[n].on
  <2>1. PICK k \in 1..n : log[k].on /\ \A j \in (k + 1)..n : log[j].at > t
    BY <1>4 DEF OnAt
  <2>2. ASSUME k # n PROVE FALSE
    <3>1. n \in Nat /\ k \in 1..n
      BY <1>1
    <3>2. n \in (k + 1)..n /\ n \in 1..n
      BY <2>2, <3>1
    <3> QED  BY <1>1, <1>2, <2>1, <3>2
  <2>3. log # <<>>
    BY <1>1
  <2> QED  BY <2>1, <2>2, <2>3
<1> QED  BY <1>3, <1>4

\* A row says nothing of the time before it.
LEMMA RowAppended ==
  ASSUME NEW log \in Seq(LogRows), NEW ts \in Nat, ts > 0, Ordered(log, ts), NEW on \in BOOLEAN
  PROVE  LET new == Append(log, [at |-> ts, on |-> on])
         IN  /\ new \in Seq(LogRows) /\ Ordered(new, ts) /\ Len(new) = Len(log) + 1
             /\ new[Len(new)].on = on /\ new[Len(new)].at = ts
             /\ \A k \in 1..Len(log) : new[k] = log[k]
             /\ \A t \in Nat : t < ts => (OnAt(new, Len(new), t) <=> OnAt(log, Len(log), t))
<1> DEFINE n == Len(log)
           row == [at |-> ts, on |-> on]
           new == Append(log, row)
<1>1. n \in Nat /\ DOMAIN log = 1..n
  OBVIOUS
<1>2. row \in LogRows /\ row.at = ts /\ row.on = on
  BY DEF LogRows
<1> HIDE DEF row
<1>3. new \in Seq(LogRows) /\ Len(new) = n + 1 /\ DOMAIN new = 1..(n + 1)
  BY <1>2
<1>4. new[n + 1] = row /\ \A k \in 1..n : new[k] = log[k]
  BY <1>1
<1> HIDE DEF new
<1>5. ASSUME NEW j \in DOMAIN log PROVE log[j].at \in Nat /\ log[j].at > 0 /\ log[j].at <= ts
  <2>1. log[j] \in LogRows
    OBVIOUS
  <2> QED  BY <2>1 DEF LogRows, Ordered
<1>6. \A k \in DOMAIN new : k = n + 1 \/ (k \in DOMAIN log /\ k < n + 1)
  BY <1>1, <1>3
<1>7. Ordered(new, ts)
  <2>1. ASSUME NEW k \in DOMAIN new PROVE new[k].at > 0 /\ new[k].at <= ts
    BY <1>1, <1>2, <1>4, <1>5, <1>6
  <2>2. ASSUME NEW k \in DOMAIN new, NEW j \in DOMAIN new, k <= j PROVE new[k].at <= new[j].at
    <3>1. CASE j = n + 1  BY <1>2, <1>4, <2>1, <3>1
    <3>2. CASE j # n + 1
      <4>1. j \in DOMAIN log /\ k \in DOMAIN log
        BY <1>1, <1>3, <1>6, <2>2, <3>2
      <4> QED  BY <1>1, <1>4, <2>2, <4>1 DEF Ordered
    <3> QED  BY <3>1, <3>2
  <2> QED  BY <2>1, <2>2 DEF Ordered
<1>8. ASSUME NEW t \in Nat, t < ts PROVE OnAt(new, n + 1, t) <=> OnAt(log, n, t)
  <2>1. ASSUME OnAt(log, n, t) PROVE OnAt(new, n + 1, t)
    <3>1. PICK k \in 1..n : log[k].on /\ log[k].at <= t /\ \A j \in (k + 1)..n : log[j].at > t
      BY <2>1 DEF OnAt
    <3>2. k \in 1..(n + 1) /\ \A j \in (k + 1)..(n + 1) : j = n + 1 \/ (j \in (k + 1)..n /\ j \in 1..n)
      BY <1>1
    <3>3. \A j \in (k + 1)..(n + 1) : new[j].at > t
      BY <1>2, <1>4, <1>8, <3>1, <3>2
    <3> QED  BY <1>4, <3>1, <3>2, <3>3 DEF OnAt
  <2>2. ASSUME OnAt(new, n + 1, t) PROVE OnAt(log, n, t)
    <3>1. PICK k \in 1..(n + 1) : /\ new[k].on /\ new[k].at <= t
                                  /\ \A j \in (k + 1)..(n + 1) : new[j].at > t
      BY <2>2 DEF OnAt
    <3>2. k # n + 1
      BY <1>2, <1>4, <1>8, <3>1
    <3>3. k \in 1..n /\ \A j \in (k + 1)..n : j \in (k + 1)..(n + 1) /\ j \in 1..n
      BY <1>1, <3>2
    <3> QED  BY <1>4, <3>1, <3>3 DEF OnAt
  <2> QED  BY <2>1, <2>2
<1>9. new[Len(new)].on = on /\ new[Len(new)].at = ts
  BY <1>2, <1>3, <1>4
<1> QED  BY <1>3, <1>4, <1>7, <1>8, <1>9 DEF new, row

LEMMA CountSame ==
  ASSUME CountInv, UNCHANGED <<now, on_history, rows, relay, state, on_seconds, astray>>
  PROVE  CountInv'
BY DEF CountInv, LogSays, HistorySays, Ordered, OnAt, Tidy, FromRows, Covers,
       OnHistory!Open, OnHistory!Last

\* A second passes with the relay as the end of the log and of the history say.
LEMMA TickCounted ==
  ASSUME Typed, CountInv, Tick PROVE CountInv'
<1>1. /\ now' = now + 1 /\ now \in Nat
      /\ UNCHANGED <<on_history, rows, relay, state, astray>>
      /\ on_seconds' = IF relay THEN on_seconds \cup {now} ELSE on_seconds
  BY DEF Tick, Typed, device, times
<1>2. SUFFICES ASSUME ~ astray PROVE LogSays' /\ HistorySays'
  BY <1>1 DEF CountInv
<1>3. now > 0 /\ state = relay /\ LogSays /\ HistorySays
  BY <1>2 DEF CountInv
<1>4. rows \in Seq(LogRows) /\ Ordered(rows, now) /\ on_history \in Seq(Spans) /\ Tidy(on_history, now)
  BY <1>3 DEF LogSays, HistorySays
<1>5. ASSUME NEW t \in 0..now PROVE t = now \/ t \in 0..(now - 1)
  BY <1>1
<1>6. now \notin on_seconds /\ on_seconds \subseteq 0..(now - 1)
  BY <1>1, <1>3 DEF LogSays
<1>7. LogSays'
  <2>1. Ordered(rows, now + 1)
    <3>1. ASSUME NEW j \in DOMAIN rows PROVE rows[j].at > 0 /\ rows[j].at <= now + 1
      <4>1. rows[j] \in LogRows
        BY <1>4
      <4> QED  BY <1>1, <1>4, <4>1 DEF LogRows, Ordered
    <3> QED  BY <1>4, <3>1 DEF Ordered
  <2>2. ASSUME NEW t \in 0..now PROVE t \in on_seconds' <=> OnAt(rows, Len(rows), t)
    <3>1. CASE t = now
      <4>1. OnAt(rows, Len(rows), now) <=> (rows # <<>> /\ rows[Len(rows)].on)
        BY <1>1, <1>4, EndOfLog
      <4> QED  BY <1>1, <1>3, <1>6, <3>1, <4>1 DEF LogSays
    <3>2. CASE t # now
      BY <1>1, <1>3, <1>5, <3>2 DEF LogSays
    <3> QED  BY <3>1, <3>2
  <2>3. on_seconds' \subseteq 0..now
    BY <1>1, <1>6
  <2>4. now' - 1 = now
    BY <1>1
  <2>5. relay <=> (rows # <<>> /\ rows[Len(rows)].on)
    BY <1>3 DEF LogSays
  <2> QED  BY <1>1, <1>4, <2>1, <2>2, <2>3, <2>4, <2>5 DEF LogSays
<1>8. HistorySays'
  <2>1. Tidy(on_history, now + 1)
    BY <1>1, <1>4, TidyLater
  <2>2. ASSUME NEW t \in 0..now, t + Retention >= now + 1
        PROVE  Covers(on_history, t) <=> t \in on_seconds'
    <3>1. CASE t = now
      <4>1. Covers(on_history, now) <=> OnHistory!Open(on_history)
        BY <1>1, <1>4, OpenCovers
      <4> QED  BY <1>1, <1>3, <1>6, <3>1, <4>1 DEF HistorySays
    <3>2. CASE t # now
      <4>1. t \in 0..(now - 1) /\ t + Retention >= now
        BY <1>1, <1>5, <2>2, <3>2, RulesAssumption
      <4> QED  BY <1>1, <1>3, <3>2, <4>1 DEF HistorySays
    <3> QED  BY <3>1, <3>2
  <2>3. now' - 1 = now
    BY <1>1
  <2>4. /\ OnHistory!Open(on_history) <=> relay
        /\ FromRows(on_history, rows, Len(rows))
    BY <1>3 DEF HistorySays
  <2> QED  BY <1>1, <1>4, <2>1, <2>2, <2>3, <2>4 DEF HistorySays
<1> QED  BY <1>7, <1>8

\* A switch, even to what the relay is already, adds its row; the history changes
\* with the state, and for the time after it.
LEMMA SwitchCounted ==
  ASSUME Typed, CountInv, NEW on \in BOOLEAN, Switch(on), UNCHANGED <<now, on_seconds, astray>>
  PROVE  CountInv'
<1>1. /\ relay' = on /\ state' = on /\ now \in Nat
      /\ rows' = Append(rows, [at |-> now, on |-> on])
      /\ ClockTo(on)
  BY DEF Switch, Typed
<1>2. SUFFICES ASSUME ~ astray PROVE LogSays' /\ HistorySays'
  BY <1>1 DEF CountInv
<1>3. now > 0 /\ state = relay /\ LogSays /\ HistorySays
  BY <1>2 DEF CountInv
<1>4. rows \in Seq(LogRows) /\ Ordered(rows, now) /\ on_history \in Seq(Spans) /\ Tidy(on_history, now)
  BY <1>3 DEF LogSays, HistorySays
<1> DEFINE n == Len(rows)
<1>5. /\ rows' \in Seq(LogRows) /\ Ordered(rows', now) /\ Len(rows') = n + 1
      /\ rows'[Len(rows')].on = on /\ rows'[Len(rows')].at = now
      /\ \A k \in 1..n : rows'[k] = rows[k]
      /\ \A t \in Nat : t < now => (OnAt(rows', Len(rows'), t) <=> OnAt(rows, n, t))
  <2> DEFINE new == Append(rows, [at |-> now, on |-> on])
  <2>1. /\ new \in Seq(LogRows) /\ Ordered(new, now) /\ Len(new) = n + 1
        /\ new[Len(new)].on = on /\ new[Len(new)].at = now
        /\ \A k \in 1..n : new[k] = rows[k]
        /\ \A t \in Nat : t < now => (OnAt(new, Len(new), t) <=> OnAt(rows, n, t))
    BY <1>1, <1>3, <1>4, RowAppended
  <2> HIDE DEF new
  <2>2. rows' = new
    BY <1>1 DEF new
  <2> QED  BY <2>1, <2>2
<1>6. n \in Nat
  BY <1>4
<1>7. LogSays'
  <2>1. ASSUME NEW t \in 0..(now - 1) PROVE t \in on_seconds <=> OnAt(rows', Len(rows'), t)
    <3>1. t \in Nat /\ t < now
      BY <1>1
    <3> QED  BY <1>3, <1>5, <3>1 DEF LogSays
  <2>2. on_seconds \subseteq 0..(now - 1)
    BY <1>3 DEF LogSays
  <2>3. rows' # <<>>
    BY <1>5, <1>6
  <2> QED  BY <1>1, <1>5, <2>1, <2>2, <2>3 DEF LogSays
<1>8. HistorySays'
  <2>1. FromRows(on_history, rows', n + 1)
    <3>1. \A k \in 1..n : k \in 1..(n + 1)
      BY <1>6
    <3> QED  BY <1>3, <1>5, <3>1 DEF HistorySays, FromRows
  <2>2. ASSUME NEW t \in 0..(now - 1), t + Retention >= now
        PROVE  t \in Nat /\ t < now /\ (Covers(on_history, t) <=> t \in on_seconds)
    BY <1>1, <1>3, <2>2 DEF HistorySays
  <2>3. CASE on = state
    <3>1. on_history' = on_history /\ (OnHistory!Open(on_history) <=> on)
      BY <1>1, <1>3, <2>3 DEF ClockTo, HistorySays
    <3> QED  BY <1>1, <1>4, <1>5, <2>1, <2>2, <3>1 DEF HistorySays
  <2>4. CASE on # state /\ on
    <3> DEFINE r == OnHistory!ClockedIn(on_history, now)
    <3>1. on_history' = r
      BY <1>1, <2>4 DEF ClockTo
    <3>2. /\ r \in Seq(Spans) /\ Tidy(r, now) /\ OnHistory!Open(r)
          /\ \A t \in Nat : Covers(r, t) <=> (Covers(on_history, t) \/ t >= now)
          /\ \A i \in DOMAIN r :
               r[i].from = now \/ \E k \in DOMAIN on_history : on_history[k].from = r[i].from
      BY <1>1, <1>3, <1>4, ClockIn
    <3> HIDE DEF r
    <3>3. FromRows(r, rows', n + 1)
      <4>1. n + 1 \in 1..(n + 1) /\ rows'[n + 1].on /\ rows'[n + 1].at = now
        BY <1>5, <1>6, <2>4
      <4>2. ASSUME NEW i \in DOMAIN r, r[i].from = now
            PROVE  \E k \in 1..(n + 1) : rows'[k].on /\ rows'[k].at = r[i].from
        BY <4>1, <4>2
      <4>3. ASSUME NEW i \in DOMAIN r, NEW j \in DOMAIN on_history, on_history[j].from = r[i].from
            PROVE  \E k \in 1..(n + 1) : rows'[k].on /\ rows'[k].at = r[i].from
        <5>1. \E k \in 1..(n + 1) : rows'[k].on /\ rows'[k].at = on_history[j].from
          BY <2>1 DEF FromRows
        <5> QED  BY <4>3, <5>1
      <4> QED  BY <3>2, <4>2, <4>3 DEF FromRows
    <3>4. ASSUME NEW t \in 0..(now - 1), t + Retention >= now PROVE Covers(r, t) <=> t \in on_seconds
      <4>1. ~ (t >= now)
        BY <1>1
      <4> QED  BY <2>2, <3>2, <3>4, <4>1
    <3> QED  BY <1>1, <1>5, <2>4, <3>1, <3>2, <3>3, <3>4 DEF HistorySays
  <2>5. CASE on # state /\ ~ on
    <3> DEFINE r == OnHistory!ClockedOut(on_history, now, now)
    <3>1. on_history' = r
      BY <1>1, <2>5 DEF ClockTo
    <3>2. /\ r \in Seq(Spans) /\ Tidy(r, now) /\ ~ OnHistory!Open(r)
          /\ \A t \in Nat : t + Retention >= now => (Covers(r, t) <=> (Covers(on_history, t) /\ t < now))
          /\ \A i \in DOMAIN r : \E k \in DOMAIN on_history : on_history[k].from = r[i].from
      BY <1>1, <1>3, <1>4, ClockOut
    <3> HIDE DEF r
    <3>3. FromRows(r, rows', n + 1)
      BY <2>1, <3>2 DEF FromRows
    <3>4. ASSUME NEW t \in 0..(now - 1), t + Retention >= now PROVE Covers(r, t) <=> t \in on_seconds
      BY <2>2, <3>2, <3>4
    <3> QED  BY <1>1, <1>5, <2>5, <3>1, <3>2, <3>3, <3>4 DEF HistorySays
  <2> QED  BY <2>3, <2>4, <2>5
<1> QED  BY <1>7, <1>8

\* A start reads what the history had, but for what is cut short.
LEMMA LoadCounted ==
  ASSUME Typed, CountInv, NEW row, Load(row), astray => astray',
         CutShort => astray', row.state # relay => astray'
  PROVE  CountInv'
<1>1. /\ UNCHANGED <<now, relay, rows, on_seconds>> /\ now \in Nat
      /\ state' = row.state /\ on_history' = OnHistory!Reloaded(rows, now)
  BY DEF Load, Typed
<1>2. SUFFICES ASSUME ~ astray' PROVE state' = relay' /\ LogSays' /\ HistorySays'
  BY <1>1 DEF CountInv
<1>3. ~ CutShort /\ row.state = relay /\ LogSays /\ HistorySays
  BY <1>2 DEF CountInv
<1>4. rows \in Seq(LogRows) /\ Ordered(rows, now) /\ on_history \in Seq(Spans) /\ Tidy(on_history, now)
  BY <1>3 DEF LogSays, HistorySays
<1> DEFINE n == Len(rows)
           r == OnHistory!Reloaded(rows, now)
<1>5. ReadAs(r, rows, n, now)
  BY <1>1, <1>4, ReloadedAs
<1> HIDE DEF r
<1>6. n \in Nat /\ DOMAIN rows = 1..n /\ (rows = <<>> <=> n = 0) /\ Retention \in Nat
  BY <1>4, RulesAssumption
<1>7. ASSUME NEW j \in DOMAIN rows PROVE rows[j].at \in Nat /\ rows[j].at <= now
  <2>1. rows[j] \in LogRows
    BY <1>4
  <2> QED  BY <1>4, <2>1 DEF LogRows, Ordered
<1>8. ASSUME NEW i \in DOMAIN on_history
      PROVE  /\ on_history[i].from \in Nat /\ on_history[i].from + Retention >= now
             /\ \E k \in 1..n : rows[k].on /\ rows[k].at = on_history[i].from
  <2>1. on_history[i] \in Spans
    BY <1>4
  <2>2. ~ (on_history[i].from + Retention < now)
    BY <1>3 DEF CutShort
  <2>3. on_history[i].from \in Nat
    BY <2>1 DEF Spans
  <2>4. on_history[i].from + Retention >= now
    <3>1. now \in Nat /\ Retention \in Nat
      BY <1>1, <1>6
    <3> QED  BY <2>2, <2>3, <3>1
  <2>5. \E k \in 1..n : rows[k].on /\ rows[k].at = on_history[i].from
    <3>1. FromRows(on_history, rows, n)
      BY <1>3 DEF HistorySays
    <3> QED  BY <3>1 DEF FromRows
  <2> QED  BY <2>3, <2>4, <2>5
\* The row that says that the relay is on, or was, is not older than the span.
<1>9. ASSUME NEW k \in 1..n, NEW i \in DOMAIN on_history,
             \A j \in (k + 1)..n : rows[j].at > on_history[i].from
      PROVE  now <= rows[k].at + Retention
  <2>1. PICK l \in 1..n : rows[l].at = on_history[i].from
    BY <1>8
  <2>2. ~ (l \in (k + 1)..n)
    BY <1>6, <1>7, <1>8, <1>9, <2>1
  <2>3. l <= k /\ l \in DOMAIN rows /\ k \in DOMAIN rows
    BY <1>6, <2>2
  <2>4. on_history[i].from <= rows[k].at
    BY <1>4, <2>1, <2>3 DEF Ordered
  <2> QED  BY <1>1, <1>6, <1>7, <1>8, <2>3, <2>4
<1>10. OnHistory!Open(r) <=> relay
  <2>1. ASSUME relay PROVE n # 0 /\ rows[n].on /\ now <= rows[n].at + Retention
    <3>1. n # 0 /\ rows[n].on
      BY <1>3, <1>6, <2>1 DEF LogSays
    <3>2. OnHistory!Open(on_history)
      BY <1>3, <2>1 DEF HistorySays
    <3>3. Len(on_history) \in DOMAIN on_history
      BY <1>4, <3>2 DEF OnHistory!Open
    <3>4. n \in 1..n /\ (n + 1)..n = {}
      BY <1>6, <3>1
    <3> QED  BY <1>9, <3>1, <3>3, <3>4
  <2>2. ASSUME n # 0, rows[n].on PROVE relay
    BY <1>3, <1>6, <2>2 DEF LogSays
  <2> QED  BY <1>5, <2>1, <2>2 DEF ReadAs
<1>11. ASSUME NEW t \in 0..(now - 1), t + Retention >= now
       PROVE  Covers(r, t) <=> t \in on_seconds
  <2>1. t \in Nat /\ (Covers(r, t) <=> ReadOnAt(rows, n, t, now))
    BY <1>5, <1>11 DEF ReadAs
  <2>2. t \in on_seconds <=> OnAt(rows, n, t)
    BY <1>3 DEF LogSays
  <2>3. t \in on_seconds <=> Covers(on_history, t)
    BY <1>3, <1>11 DEF HistorySays
  <2>4. ASSUME OnAt(rows, n, t) PROVE ReadOnAt(rows, n, t, now)
    <3>1. PICK k \in 1..n : rows[k].on /\ rows[k].at <= t /\ \A j \in (k + 1)..n : rows[j].at > t
      BY <2>4 DEF OnAt
    <3>2. PICK i \in DOMAIN on_history : on_history[i].from <= t
      BY <2>2, <2>3, <2>4 DEF Covers
    <3>3. ASSUME NEW j \in (k + 1)..n PROVE rows[j].at > on_history[i].from
      <4>1. j \in DOMAIN rows
        BY <1>6
      <4> QED  BY <1>7, <1>8, <2>1, <3>1, <3>2, <4>1
    <3>4. now <= rows[k].at + Retention
      BY <1>9, <3>3
    <3> QED  BY <3>1, <3>4 DEF ReadOnAt
  <2>5. ASSUME ReadOnAt(rows, n, t, now) PROVE OnAt(rows, n, t)
    BY <2>5 DEF ReadOnAt, OnAt
  <2> QED  BY <2>1, <2>2, <2>4, <2>5
<1>12. r \in Seq(Spans) /\ Tidy(r, now) /\ FromRows(r, rows, n)
  <2> DEFINE last == IF n = 0 THEN 0 ELSE rows[n].at
  <2>1. last \in Nat /\ last <= now
    BY <1>1, <1>6, <1>7
  <2>2. r \in Seq(Spans) /\ Tidy(r, last) /\ FromRows(r, rows, n)
    BY <1>5 DEF ReadAs
  <2> HIDE DEF last
  <2> QED  BY <1>1, <2>1, <2>2, TidyLater
<1>13. LogSays'
  BY <1>1, <1>3 DEF LogSays, Ordered, OnAt
<1>14. HistorySays'
  <2>1. on_history' = r
    BY <1>1 DEF r
  <2> QED  BY <1>1, <1>10, <1>11, <1>12, <2>1 DEF HistorySays
<1> QED  BY <1>1, <1>3, <1>13, <1>14

LEMMA AstrayCounted ==
  ASSUME CountInv, now' = now, astray' PROVE CountInv'
BY DEF CountInv

LEMMA NextCounted == ASSUME Typed, CountInv, [Next]_vars PROVE CountInv'
<1> USE DEF clock, device, times, inputs, ghosts
<1>1. CASE Tick  BY <1>1, TickCounted
<1>2. CASE Measure  BY <1>2, CountSame DEF Measure
<1>3. CASE Ask  BY <1>3, CountSame DEF Ask
<1>4. ASSUME NEW on \in BOOLEAN, Apply(on) PROVE CountInv'
  <2>1. UNCHANGED <<now, on_seconds, astray>>
    BY <1>4 DEF Apply
  <2>2. CASE on = state  BY <1>4, <2>1, <2>2, CountSame DEF Apply, Keep
  <2>3. CASE on # state  BY <1>4, <2>1, <2>3, SwitchCounted DEF Apply
  <2> QED  BY <2>2, <2>3
<1>5. CASE ApplyForced \/ ApplyOffload
  BY <1>4, <1>5 DEF ApplyForced, ApplyOffload
<1>6. CASE Skip \/ Fail  BY <1>6, CountSame DEF Skip, Fail
<1>7. CASE FailToLog \/ Button  BY <1>7, AstrayCounted DEF FailToLog, Button
<1>8. ASSUME NEW on \in BOOLEAN, SetManualState(on) PROVE CountInv'
  BY <1>8, SwitchCounted DEF SetManualState
<1>9. CASE SetAutoState \/ ChangeThermometer
  BY <1>9, CountSame DEF SetAutoState, ChangeThermometer
<1>10. CASE Poll
  <2>1. astray
    BY <1>10 DEF Poll, CountInv
  <2> QED  BY <1>10, <2>1, AstrayCounted DEF Poll
<1>11. CASE Restart
  <2>1. Load(saved') /\ astray' = (astray \/ CutShort) /\ saved'.state = state
    BY <1>11 DEF Restart
  <2>2. astray \/ state = relay
    BY DEF CountInv
  <2> QED  BY <2>1, <2>2, LoadCounted
<1>12. CASE Kill
  <2>1. Load(saved) /\ astray' = (astray \/ CutShort \/ saved.state # relay)
    BY <1>12 DEF Kill
  <2> QED  BY <2>1, LoadCounted
<1>13. CASE UNCHANGED vars  BY <1>13, CountSame DEF vars
<1> QED
  BY <1>1, <1>2, <1>3, <1>5, <1>6, <1>7, <1>8, <1>9, <1>10, <1>11, <1>12, <1>13 DEF Next

LEMMA InitCounted == ASSUME Init PROVE CountInv
<1>1. /\ now = Start /\ relay = FALSE /\ state = FALSE /\ on_history = <<>> /\ rows = <<>>
      /\ on_seconds = {}
  BY DEF Init
<1>2. Start \in Nat /\ Start > 0
  BY RulesAssumption
<1>3. Len(rows) = 0 /\ DOMAIN rows = {} /\ DOMAIN on_history = {} /\ 1..0 = {}
      /\ rows \in Seq(LogRows) /\ on_history \in Seq(Spans)
  BY <1>1
<1>4. LogSays
  BY <1>1, <1>3 DEF LogSays, Ordered, OnAt
<1>5. HistorySays
  BY <1>1, <1>3 DEF HistorySays, Tidy, FromRows, Covers, OnHistory!Open
<1> QED  BY <1>1, <1>2, <1>4, <1>5 DEF CountInv

LEMMA CountedSeconds == ASSUME Typed, CountInv PROVE OnTimeIsCounted
<1>1. SUFFICES ASSUME ~ astray
               PROVE  OnHistory!CoveredForLast(on_history, MinOnForLast, now)
                        = {t \in on_seconds : t + MinOnForLast >= now}
  BY DEF OnTimeIsCounted
<1>2. LogSays /\ HistorySays /\ now \in Nat
  BY <1>1 DEF CountInv, Typed
<1>3. MinOnForLast \in Nat /\ Retention \in Nat /\ MinOnForLast <= Retention
  BY RulesAssumption
<1>4. on_seconds \subseteq 0..(now - 1)
  BY <1>2 DEF LogSays
<1>5. ASSUME NEW i \in DOMAIN on_history PROVE on_history[i].from \in Nat
  <2>1. on_history[i] \in Spans
    BY <1>2 DEF HistorySays
  <2> QED  BY <2>1 DEF Spans
<1>6. ASSUME NEW t \in 0..(now - 1), t + MinOnForLast >= now
      PROVE  t \in on_seconds
               <=> \E i \in DOMAIN on_history :
                     t >= on_history[i].from /\ (on_history[i].to = 0 \/ t < on_history[i].to)
  <2>1. t + Retention >= now
    BY <1>2, <1>3, <1>6
  <2>2. Covers(on_history, t) <=> t \in on_seconds
    BY <1>2, <2>1 DEF HistorySays
  <2>3. \A i \in DOMAIN on_history : t >= on_history[i].from <=> on_history[i].from <= t
    BY <1>5
  <2> QED  BY <2>2, <2>3 DEF Covers
<1> QED  BY <1>4, <1>6 DEF OnHistory!CoveredForLast

\* The history has the seconds the relay was on, over failures, commands and
\* restarts, for as long as nothing switched the relay, or
\* left the log, without the program: what is forgotten, and what a start reads of
\* the log in place of it, does not matter to the time that is asked for.
THEOREM TimeIsCounted == Spec => []OnTimeIsCounted
<1>1. Init => Typed /\ CountInv
  BY InitOn, InitCounted
<1>2. Typed /\ CountInv /\ [Next]_vars => Typed' /\ CountInv'
  BY NextTyped, NextCounted
<1>3. Typed /\ CountInv => OnTimeIsCounted
  BY CountedSeconds
<1> QED
  BY <1>1, <1>2, <1>3, PTL DEF Spec

-----------------------------------------------------------------------------
(* The remainder. *)

\* A remainder range from a to b that is long enough to make up for all of it.
Ample(a, b) ==
  /\ a \in Clock /\ b \in Clock /\ Remainder = a..b
  /\ b - a >= MinOnTime + MinOff
  /\ MaxOn = 0 \/ MinOnTime <= MaxOn

\* What the device has had when the range that begins at a looks back.
Credited(a) == {t \in on_seconds : t + MinOnForLast >= a}
Enough(a) == Cardinality(Credited(a)) >= MinOnTime

\* The device's own memory of a relay nothing else has touched.
Steady ==
  /\ state = relay /\ manual = FALSE
  /\ last_on <= now /\ last_off \in Nat /\ last_off <= now
  /\ relay => last_on..(now - 1) \subseteq on_seconds

\* In the range a device that lacks time has been off only to stay off after it
\* was last turned off, ...
OffOnce(a) ==
  \A t \in a..(now - 1) : t \in on_seconds \/ (last_off <= t /\ t <= last_off + MinOff)

\* ... is on after the manager's turn, or just off, ...
DrivenOn == driven => relay \/ now <= last_off + MinOff

\* ... and is wanted on, unless it must stay off, or was on for all of the range
\* and is so for too long.
AskedOn(a) ==
  \/ wanted \in {"none", "on"}
  \/ wanted = "off" /\ ~ state /\ now <= last_off + MinOff
  \/ wanted = "off" /\ state /\ a..(now - 1) \subseteq on_seconds

RemainderInv(a, b) ==
  /\ astray => disturbed
  /\ ~ disturbed /\ kind = "timerange" =>
       /\ Steady
       /\ now \in a..b /\ ~ Enough(a) => OffOnce(a) /\ DrivenOn /\ AskedOn(a)
       /\ now > b => Enough(a)

LEMMA RangeFacts ==
  ASSUME NEW a, NEW b, Ample(a, b)
  PROVE  /\ a \in Nat /\ b \in Nat /\ a <= b /\ a >= Start
         /\ MinOnTime \in Nat /\ MinOff \in Nat /\ MaxOn \in Nat /\ MinOnForLast \in Nat
         /\ MinOn \in Nat /\ Start \in Nat
<1>1. /\ MinOnTime \in Nat /\ MinOff \in Nat /\ MaxOn \in Nat /\ MinOnForLast \in Nat
      /\ Start \in Nat /\ MaxTime \in Nat /\ MinOn \in Nat
  BY RulesAssumption
<1>2. a \in Nat /\ b \in Nat /\ a >= Start
  BY <1>1 DEF Ample, Clock
<1>3. b - a >= 0
  BY <1>1, <1>2 DEF Ample
<1> QED  BY <1>1, <1>2, <1>3

\* What is known of the time on of a relay nothing else has touched.
LEMMA SecondsOn ==
  ASSUME Typed, CountInv, ~ astray, NEW a \in Nat
  PROVE  /\ on_seconds \subseteq 0..(now - 1)
         /\ IsFiniteSet(Credited(a)) /\ Cardinality(Credited(a)) \in Nat
<1>1. on_seconds \subseteq 0..(now - 1)
  BY DEF CountInv, LogSays
<1>2. IsFiniteSet(0..(now - 1))
  BY FS_Interval DEF Typed
<1>3. Credited(a) \in SUBSET (0..(now - 1))
  BY <1>1 DEF Credited
<1>4. IsFiniteSet(Credited(a))
  BY <1>2, <1>3, FS_Subset
<1> QED  BY <1>1, <1>4, FS_CardinalityType

\* Every second on from a on is credited.
LEMMA AllCredited ==
  ASSUME Typed, CountInv, ~ astray, NEW a \in Nat, NEW S \in SUBSET on_seconds,
         \A t \in S : t >= a, MinOnForLast \in Nat
  PROVE  Cardinality(S) <= Cardinality(Credited(a))
<1>1. IsFiniteSet(Credited(a)) /\ on_seconds \subseteq 0..(now - 1)
  BY SecondsOn
<1>2. ASSUME NEW t \in S PROVE t \in Credited(a)
  <2>1. t \in Nat /\ t >= a /\ t \in on_seconds
    BY <1>1
  <2> QED  BY <2>1 DEF Credited
<1>3. S \in SUBSET Credited(a)
  BY <1>2
<1> QED  BY <1>1, <1>3, FS_Subset

\* A second more is never less.
LEMMA EnoughGrows ==
  ASSUME Typed, CountInv, ~ astray, Typed', CountInv', ~ astray', on_seconds \subseteq on_seconds',
         NEW a \in Nat, MinOnTime \in Nat, Enough(a)
  PROVE  Enough(a)'
<1>1. Cardinality(Credited(a)) \in Nat
  BY SecondsOn
<1>2. IsFiniteSet(Credited(a)') /\ Cardinality(Credited(a)') \in Nat
  <2>1. on_seconds' \subseteq 0..(now' - 1) /\ IsFiniteSet(0..(now' - 1))
    <3>1. on_seconds' \subseteq 0..(now' - 1)
      BY DEF CountInv, LogSays
    <3>2. IsFiniteSet(0..(now' - 1))
      BY FS_Interval DEF Typed
    <3> QED  BY <3>1, <3>2
  <2>2. Credited(a)' \in SUBSET (0..(now' - 1))
    BY <2>1 DEF Credited
  <2> QED  BY <2>1, <2>2, FS_Subset, FS_CardinalityType
<1>3. Credited(a) \in SUBSET (Credited(a)')
  BY DEF Credited
<1>4. Cardinality(Credited(a)) <= Cardinality(Credited(a)')
  BY <1>2, <1>3, FS_Subset
<1> QED  BY <1>1, <1>2, <1>4 DEF Enough

\* In the range, the answer of the rules keeps on a device that lacks time.
LEMMA AskedForRemainder ==
  ASSUME Typed, CountInv, ~ astray, Steady, kind = "timerange", Ask,
         NEW a, NEW b, Ample(a, b), now \in a..b, ~ Enough(a)
  PROVE  AskedOn(a)'
<1>1. /\ wanted' = IF TimeRangeWants = "unchanged" THEN IF state THEN "on" ELSE "off"
                   ELSE TimeRangeWants
      /\ UNCHANGED <<now, state, last_off, on_seconds>>
  BY DEF Ask, GetWantedState, clock, device, times, ghosts
<1>2. /\ now \in Nat /\ last_on \in Nat /\ last_off \in Nat /\ last_on <= now /\ last_off <= now
      /\ manual = FALSE /\ state = relay /\ state \in BOOLEAN
  BY DEF Typed, Steady
<1>3. /\ a \in Nat /\ b \in Nat /\ MinOnTime \in Nat /\ MinOff \in Nat /\ MaxOn \in Nat
      /\ MinOn \in Nat /\ MinOnForLast \in Nat /\ a <= now
  BY <1>2, RangeFacts
<1>4. Cardinality(Credited(a)) < MinOnTime /\ Cardinality(Credited(a)) \in Nat
  BY <1>3, SecondsOn DEF Enough
<1>5. CASE Stays
  <2>1. wanted' = IF state THEN "on" ELSE "off"
    BY <1>1, <1>5 DEF TimeRangeWants
  <2>2. ~ state => now <= last_off + MinOff
    BY <1>2, <1>3, <1>5 DEF Stays
  <2> QED  BY <1>1, <1>2, <2>1, <2>2 DEF AskedOn
<1>6. CASE ~ Stays /\ TooLongOn
  <2>1. wanted' = "off" /\ state /\ MaxOn > 0 /\ now - last_on > MaxOn
    BY <1>1, <1>6 DEF TimeRangeWants, TooLongOn
  <2> DEFINE S == last_on..(now - 1)
  <2>2. S \in SUBSET on_seconds
    BY <1>2, <2>1 DEF Steady
  <2>3. last_on < a
    <3>1. SUFFICES ASSUME last_on >= a PROVE FALSE
      BY <1>2, <1>3
    <3>2. \A t \in S : t >= a
      BY <1>2, <1>3, <3>1
    <3>3. Cardinality(S) <= Cardinality(Credited(a))
      <4> HIDE DEF S
      <4> QED  BY <1>3, <2>2, <3>2, AllCredited
    <3>4. Cardinality(S) = now - last_on
      <4>1. now - 1 \in Int /\ last_on \in Int /\ ~ (last_on > now - 1)
        BY <1>2, <1>3, <2>1
      <4>2. Cardinality(S) = (now - 1) - last_on + 1
        BY <4>1, FS_Interval
      <4> QED  BY <1>2, <4>2
    <3>5. MinOnTime <= MaxOn
      BY <1>3, <2>1 DEF Ample
    <3> QED  BY <1>2, <1>3, <1>4, <2>1, <3>3, <3>4, <3>5
  <2>4. a..(now - 1) \subseteq on_seconds
    BY <1>2, <1>3, <2>2, <2>3
  <2> QED  BY <1>1, <2>1, <2>4 DEF AskedOn
<1>7. CASE ~ Stays /\ ~ TooLongOn
  <2>1. OnTotal <= Cardinality(Credited(a))
    <3> DEFINE S == {t \in on_seconds : t + MinOnForLast >= now}
    <3>1. OnHistory!CoveredForLast(on_history, MinOnForLast, now) = S
      BY CountedSeconds DEF OnTimeIsCounted
    <3>2. on_seconds \subseteq 0..(now - 1) /\ IsFiniteSet(Credited(a))
      BY <1>3, SecondsOn
    <3>3. ASSUME NEW t \in S PROVE t \in Credited(a)
      <4>1. t \in Nat /\ t \in on_seconds /\ t + MinOnForLast >= now
        BY <1>2, <3>2
      <4> QED  BY <1>2, <1>3, <4>1 DEF Credited
    <3>4. S \in SUBSET Credited(a)
      BY <3>3
    <3> HIDE DEF S
    <3>5. Cardinality(S) <= Cardinality(Credited(a))
      BY <3>2, <3>4, FS_Subset
    <3> QED  BY <3>1, <3>5 DEF OnTotal
  <2>2. OnTotal \in Nat
    <3>1. IsFiniteSet(0..(now - 1))
      BY <1>2, FS_Interval
    <3>2. OnHistory!CoveredForLast(on_history, MinOnForLast, now) \in SUBSET (0..(now - 1))
      BY DEF OnHistory!CoveredForLast
    <3> QED  BY <3>1, <3>2, FS_Subset, FS_CardinalityType DEF OnTotal
  <2>3. WantRemainder
    <3>1. now \in Remainder /\ OnTotal < MinOnTime
      BY <1>3, <1>4, <2>1, <2>2 DEF Ample
    <3> QED  BY <3>1 DEF WantRemainder
  <2>4. wanted' = "on"
    BY <1>1, <1>7, <2>3 DEF TimeRangeWants
  <2> QED  BY <2>4 DEF AskedOn
<1> QED  BY <1>5, <1>6, <1>7

\* The range is longer than what is lacking and the time off in it.
LEMMA MadeUp ==
  ASSUME NEW a, NEW b, Ample(a, b), NEW S \in SUBSET Nat, IsFiniteSet(S), NEW off \in Nat,
         \A t \in a..b : t \in S \/ (off <= t /\ t <= off + MinOff)
  PROVE  Cardinality({t \in S : t + MinOnForLast >= a}) >= MinOnTime
<1>1. /\ a \in Nat /\ b \in Nat /\ MinOnTime \in Nat /\ MinOff \in Nat /\ MinOnForLast \in Nat
      /\ b - a >= MinOnTime + MinOff /\ a <= b
  BY RangeFacts DEF Ample
<1> DEFINE On == {t \in S : t + MinOnForLast >= a}
           Off == off..(off + MinOff)
<1>2. IsFiniteSet(On) /\ On \in SUBSET S
  BY FS_Subset
<1>3. IsFiniteSet(Off) /\ Cardinality(Off) = MinOff + 1
  <2>1. off \in Int /\ off + MinOff \in Int /\ ~ (off > off + MinOff)
    BY <1>1
  <2>2. IsFiniteSet(Off) /\ Cardinality(Off) = (off + MinOff) - off + 1
    BY <2>1, FS_Interval
  <2> QED  BY <1>1, <2>2
<1>4. Cardinality(a..b) = b - a + 1
  <2>1. a \in Int /\ b \in Int /\ ~ (a > b)
    BY <1>1
  <2> QED  BY <2>1, FS_Interval
<1>5. a..b \in SUBSET (On \cup Off)
  BY <1>1
<1> HIDE DEF On, Off
<1>6. /\ IsFiniteSet(On \cup Off)
      /\ Cardinality(On \cup Off) = Cardinality(On) + Cardinality(Off) - Cardinality(On \cap Off)
  BY <1>2, <1>3, FS_Union
<1>7. Cardinality(On \cap Off) \in Nat /\ Cardinality(On) \in Nat
  <2>1. On \cap Off \in SUBSET On
    OBVIOUS
  <2> QED  BY <1>2, <2>1, FS_Subset, FS_CardinalityType
<1>8. Cardinality(a..b) <= Cardinality(On \cup Off)
  BY <1>5, <1>6, FS_Subset
<1>9. Cardinality(On) >= MinOnTime
  BY <1>1, <1>3, <1>4, <1>6, <1>7, <1>8
<1> QED  BY <1>9 DEF On

LEMMA TickRemainder ==
  ASSUME Typed, CountInv, Typed', CountInv', NEW a, NEW b, Ample(a, b), RemainderInv(a, b), Tick
  PROVE  RemainderInv(a, b)'
<1>1. /\ UNCHANGED <<kind, disturbed, astray, relay, state, manual, last_on, last_off>>
      /\ now' = now + 1 /\ driven /\ driven' = FALSE /\ wanted' = "none"
      /\ on_seconds' = IF relay THEN on_seconds \cup {now} ELSE on_seconds
  BY DEF Tick, inputs, device, times
<1>2. SUFFICES ASSUME ~ disturbed, kind = "timerange"
               PROVE  /\ Steady'
                      /\ now' \in a..b /\ ~ Enough(a)' => OffOnce(a)' /\ DrivenOn' /\ AskedOn(a)'
                      /\ now' > b => Enough(a)'
  BY <1>1 DEF RemainderInv
<1>3. /\ Steady /\ ~ astray /\ ~ astray' /\ now \in Nat /\ last_on \in Nat /\ last_off \in Nat
      /\ a \in Nat /\ b \in Nat /\ MinOnTime \in Nat /\ MinOff \in Nat
  BY <1>1, <1>2, RangeFacts DEF RemainderInv, Typed, Steady
<1>4. Enough(a) => Enough(a)'
  BY <1>1, <1>3, EnoughGrows
<1>5. Steady'
  <2>1. ASSUME relay, NEW t \in last_on..now PROVE t \in on_seconds'
    <3>1. t = now \/ t \in last_on..(now - 1)
      BY <1>3
    <3> QED  BY <1>1, <1>3, <2>1, <3>1 DEF Steady
  <2>2. now + 1 - 1 = now
    BY <1>3
  <2> QED  BY <1>1, <1>3, <2>1, <2>2 DEF Steady
<1>6. ASSUME now \in a..b, ~ Enough(a)' PROVE OffOnce(a)'
  <2>1. OffOnce(a) /\ DrivenOn
    BY <1>2, <1>4, <1>6 DEF RemainderInv
  <2>2. ASSUME NEW t \in a..now PROVE t \in on_seconds' \/ (last_off <= t /\ t <= last_off + MinOff)
    <3>1. CASE t = now
      BY <1>1, <1>3, <2>1, <3>1 DEF DrivenOn, Steady
    <3>2. CASE t # now
      <4>1. t \in a..(now - 1)
        BY <1>3, <3>2
      <4> QED  BY <1>1, <2>1, <4>1 DEF OffOnce
    <3> QED  BY <3>1, <3>2
  <2>3. now' - 1 = now
    BY <1>1, <1>3
  <2> QED  BY <1>1, <2>2, <2>3 DEF OffOnce
<1>7. ASSUME now' \in a..b, ~ Enough(a)' PROVE OffOnce(a)' /\ DrivenOn' /\ AskedOn(a)'
  <2>1. OffOnce(a)'
    <3>1. CASE now' = a
      BY <1>1, <1>3, <3>1 DEF OffOnce
    <3>2. CASE now' # a
      <4>1. now \in a..b
        BY <1>1, <1>3, <1>7, <3>2
      <4> QED  BY <1>6, <1>7, <4>1
    <3> QED  BY <3>1, <3>2
  <2> QED  BY <1>1, <2>1 DEF DrivenOn, AskedOn
<1>8. ASSUME now' > b PROVE Enough(a)'
  <2>1. CASE now > b
    BY <1>2, <1>4, <2>1 DEF RemainderInv
  <2>2. CASE now = b
    <3>1. SUFFICES ASSUME ~ Enough(a)' PROVE Enough(a)'
      OBVIOUS
    <3>2. OffOnce(a)'
      BY <1>3, <1>6, <2>2, <3>1, RangeFacts
    <3>3. \A t \in a..b : t \in on_seconds' \/ (last_off <= t /\ t <= last_off + MinOff)
      <4>1. now' - 1 = b
        BY <1>1, <1>3, <2>2
      <4> QED  BY <1>1, <3>2, <4>1 DEF OffOnce
    <3>4. on_seconds' \in SUBSET Nat /\ IsFiniteSet(on_seconds')
      <4>1. on_seconds' \in SUBSET (0..(now' - 1))
        BY <1>3 DEF CountInv, LogSays
      <4>2. IsFiniteSet(0..(now' - 1))
        BY FS_Interval DEF Typed
      <4>3. 0..(now' - 1) \in SUBSET Nat
        OBVIOUS
      <4> QED  BY <4>1, <4>2, <4>3, FS_Subset
    <3> QED  BY <1>3, <3>3, <3>4, MadeUp DEF Enough, Credited
  <2> QED  BY <1>1, <1>3, <1>8, <2>1, <2>2
<1> QED  BY <1>5, <1>7, <1>8

LEMMA ApplyRemainder ==
  ASSUME Typed, NEW a, NEW b, Ample(a, b), RemainderInv(a, b), NEW on \in BOOLEAN, Apply(on),
         wanted \in {"on", "off"} => on = (wanted = "on"), wanted # "none"
  PROVE  RemainderInv(a, b)'
<1>1. /\ UNCHANGED <<now, kind, disturbed, astray, manual, on_seconds>>
      /\ driven' = TRUE /\ wanted' = "none"
  BY DEF Apply, Done, inputs
<1>2. SUFFICES ASSUME ~ disturbed, kind = "timerange"
               PROVE  /\ Steady'
                      /\ now \in a..b /\ ~ Enough(a) => OffOnce(a)' /\ DrivenOn'
                      /\ now > b => Enough(a)'
  <2>1. Enough(a)' <=> Enough(a)
    BY <1>1 DEF Enough, Credited
  <2>2. AskedOn(a)'
    BY <1>1 DEF AskedOn
  <2> QED  BY <1>1, <1>2, <2>1, <2>2 DEF RemainderInv
<1>3. /\ Steady /\ now \in Nat /\ last_on \in Nat /\ last_off \in Nat /\ last_off <= now
      /\ a \in Nat /\ b \in Nat /\ MinOff \in Nat /\ state = relay /\ state \in BOOLEAN
  BY <1>2, RangeFacts DEF RemainderInv, Typed, Steady
<1>4. now > b => Enough(a)'
  BY <1>1, <1>2 DEF RemainderInv, Enough, Credited
<1>5. /\ relay' = on /\ state' = on
      /\ last_on' = IF on /\ ~ state THEN now ELSE last_on
      /\ last_off' = IF ~ on /\ state THEN now ELSE last_off
  <2>1. CASE on = state
    BY <1>3, <2>1 DEF Apply, Keep, times
  <2>2. CASE on # state
    BY <1>3, <2>2 DEF Apply, Switch, ClockTo
  <2> QED  BY <2>1, <2>2
<1>6. Steady'
  <2>1. CASE on /\ ~ state
    <3>1. now..(now - 1) = {}
      BY <1>3
    <3> QED  BY <1>1, <1>3, <1>5, <2>1, <3>1 DEF Steady
  <2>2. CASE ~ (on /\ ~ state)
    BY <1>1, <1>3, <1>5, <2>2 DEF Steady
  <2> QED  BY <2>1, <2>2
<1>7. ASSUME now \in a..b, ~ Enough(a) PROVE OffOnce(a)' /\ DrivenOn'
  <2>1. OffOnce(a) /\ AskedOn(a)
    BY <1>2, <1>7 DEF RemainderInv
  <2>2. CASE on
    BY <1>1, <1>5, <2>1, <2>2 DEF OffOnce, DrivenOn
  <2>3. CASE ~ on /\ ~ state
    <3>1. wanted = "off" /\ now <= last_off + MinOff
      BY <2>1, <2>3 DEF AskedOn
    <3> QED  BY <1>1, <1>5, <2>1, <2>3, <3>1 DEF OffOnce, DrivenOn
  <2>4. CASE ~ on /\ state
    <3>1. a..(now - 1) \subseteq on_seconds
      BY <2>1, <2>4 DEF AskedOn
    <3>2. now <= now + MinOff
      BY <1>3
    <3> QED  BY <1>1, <1>5, <2>4, <3>1, <3>2 DEF OffOnce, DrivenOn
  <2> QED  BY <2>2, <2>3, <2>4
<1> QED  BY <1>4, <1>6, <1>7

LEMMA NextRemainder ==
  ASSUME Typed, CountInv, Typed', CountInv', NEW a, NEW b, Ample(a, b), RemainderInv(a, b),
         [Next]_vars
  PROVE  RemainderInv(a, b)'
<1> USE DEF clock, device, times, inputs, ghosts
<1>same. ASSUME UNCHANGED <<now, kind, disturbed, astray, relay, state, manual, last_on, last_off,
                            on_seconds, wanted, driven>>
         PROVE  RemainderInv(a, b)'
  BY <1>same DEF RemainderInv, Steady, Enough, Credited, OffOnce, DrivenOn, AskedOn
<1>disturbed. ASSUME Disturb PROVE RemainderInv(a, b)'
  BY <1>disturbed DEF Disturb, RemainderInv
<1>1. CASE Tick  BY <1>1, TickRemainder
<1>2. CASE Measure  BY <1>2, <1>same DEF Measure
<1>3. CASE Ask
  <2>1. UNCHANGED <<now, kind, disturbed, astray, relay, state, manual, last_on, last_off,
                    on_seconds, driven>>
    BY <1>3 DEF Ask
  <2>2. ASSUME ~ disturbed, kind = "timerange", now \in a..b, ~ Enough(a) PROVE AskedOn(a)'
    <3>1. ~ astray /\ Steady
      BY <2>2 DEF RemainderInv
    <3> QED  BY <1>3, <2>2, <3>1, AskedForRemainder
  <2> QED  BY <2>1, <2>2 DEF RemainderInv, Steady, Enough, Credited, OffOnce, DrivenOn
<1>4. CASE ApplyForced \/ ApplyOffload
  BY <1>4, ApplyRemainder DEF ApplyForced, ApplyOffload
<1>5. CASE Skip
  <2>1. /\ UNCHANGED <<now, kind, disturbed, astray, relay, state, manual, last_on, last_off, on_seconds>>
        /\ wanted = "offload" /\ wanted' = "none"
    BY <1>5 DEF Skip, Done
  <2>2. ~ AskedOn(a) /\ AskedOn(a)'
    BY <2>1 DEF AskedOn
  <2> QED  BY <2>1, <2>2 DEF RemainderInv, Steady, Enough, Credited
<1>6. CASE Fail \/ FailToLog \/ Button \/ ChangeThermometer \/ Restart \/ Kill
  BY <1>6, <1>disturbed DEF Fail, FailToLog, Button, ChangeThermometer, Restart, Kill
<1>7. ASSUME NEW on \in BOOLEAN, SetManualState(on) PROVE RemainderInv(a, b)'
  BY <1>7, <1>disturbed DEF SetManualState
\* A manual mode, or a state that is not the relay's, comes of a disturbance.
<1>8. CASE SetAutoState \/ Poll
  <2>1. (astray => disturbed) /\ (disturbed \/ kind # "timerange")
    BY <1>8 DEF SetAutoState, Poll, RemainderInv, Steady
  <2>2. UNCHANGED <<kind, disturbed, astray>>
    BY <1>8 DEF SetAutoState, Poll
  <2> QED  BY <2>1, <2>2 DEF RemainderInv
<1>9. CASE UNCHANGED vars  BY <1>9, <1>same DEF vars
<1> QED
  BY <1>1, <1>2, <1>3, <1>4, <1>5, <1>6, <1>7, <1>8, <1>9 DEF Next

LEMMA InitRemainder == ASSUME Init, NEW a, NEW b, Ample(a, b) PROVE RemainderInv(a, b)
<1>1. /\ now = Start /\ driven = FALSE /\ wanted = "none" /\ astray = FALSE
      /\ relay = FALSE /\ state = FALSE /\ manual = FALSE /\ last_on = 0 /\ last_off = 0
  BY DEF Init
<1>2. a \in Nat /\ b \in Nat /\ a <= b /\ a >= Start /\ Start \in Nat
  BY RangeFacts
<1>3. Steady
  <2>1. 0 <= now /\ 0 \in Nat
    BY <1>1, <1>2
  <2> QED  BY <1>1, <2>1 DEF Steady
<1>4. DrivenOn /\ AskedOn(a)
  BY <1>1 DEF DrivenOn, AskedOn
<1>5. now \in a..b => OffOnce(a)
  BY <1>1, <1>2 DEF OffOnce
<1>6. ~ (now > b)
  BY <1>1, <1>2
<1> QED  BY <1>1, <1>3, <1>4, <1>5, <1>6 DEF RemainderInv

LEMMA RangeEnds ==
  ASSUME NEW a \in Nat, NEW b \in Nat, a <= b
  PROVE  FirstOf(a..b) = a /\ LastOf(a..b) = b
<1>1. a \in a..b /\ b \in a..b /\ \A u \in a..b : a <= u /\ u <= b
  OBVIOUS
<1>2. \A t \in a..b : ((\A u \in a..b : t <= u) => t = a) /\ ((\A u \in a..b : u <= t) => t = b)
  BY <1>1
<1> QED  BY <1>1, <1>2 DEF FirstOf, LastOf

\* A range that is long enough has made up for what the device lacked at its end,
\* whatever it lacked, and whether min_on, min_off, max_on or other ranges
\* kept it as it was or turned it off meanwhile.
THEOREM RemainderMade == Spec => []RemainderIsMade
<1> DEFINE Longer == /\ MaxOn = 0 \/ MinOnTime <= MaxOn
                     /\ OneRange /\ Cardinality(Remainder) > MinOnTime + MinOff
<1>1. CASE ~ Longer
  <2>1. RemainderIsMade
    BY <1>1 DEF RemainderIsMade
  <2> QED  BY <2>1, PTL
<1>2. CASE Longer
  <2>1. PICK a \in Clock, b \in Clock : Remainder = a..b
    BY <1>2 DEF OneRange
  <2>2. /\ a \in Nat /\ b \in Nat /\ a <= b
        /\ b - a >= MinOnTime + MinOff
    <3>1. a \in Nat /\ b \in Nat /\ MinOnTime \in Nat /\ MinOff \in Nat
      BY RulesAssumption DEF Clock
    <3>2. Cardinality(a..b) = IF a > b THEN 0 ELSE b - a + 1
      BY <3>1, FS_Interval
    <3> QED  BY <1>2, <2>1, <3>1, <3>2
  <2>3. Ample(a, b)
    BY <1>2, <2>1, <2>2 DEF Ample
  <2>4. Init => Typed /\ CountInv /\ RemainderInv(a, b)
    BY <2>3, InitOn, InitCounted, InitRemainder
  <2>5. Typed /\ CountInv /\ RemainderInv(a, b) /\ [Next]_vars
          => Typed' /\ CountInv' /\ RemainderInv(a, b)'
    BY <2>3, NextTyped, NextCounted, NextRemainder
  <2>6. RemainderInv(a, b) => RemainderIsMade
    BY <2>1, <2>2, RangeEnds DEF RemainderInv, RemainderIsMade, Enough, Credited
  <2> HIDE DEF Longer
  <2> QED  BY <2>4, <2>5, <2>6, PTL DEF Spec
<1> QED  BY <1>1, <1>2

-----------------------------------------------------------------------------
(* Types. *)

LEMMA SpanTypes ==
  /\ Clock \in SUBSET Nat /\ Span \in SUBSET Spans /\ Row \in SUBSET LogRows
  /\ Start \in Clock /\ MaxTime \in Nat
<1>1. Start \in Nat /\ MaxTime \in Nat /\ Start <= MaxTime
  BY RulesAssumption
<1> QED  BY <1>1 DEF Clock, Span, Spans, Row, LogRows

LEMMA SpansKept ==
  ASSUME NEW h \in Seq(Span), NEW ts \in Clock, NEW at \in Clock
  PROVE  OnHistory!ClockedIn(h, ts) \in Seq(Span) /\ OnHistory!ClockedOut(h, ts, at) \in Seq(Span)
<1>1. OnHistory!ClockedIn(h, ts) \in Seq(Span)
  <2>1. [from |-> ts, to |-> 0] \in Span
    BY DEF Span
  <2> QED  BY <2>1 DEF OnHistory!ClockedIn
<1>2. OnHistory!ClockedOut(h, ts, at) \in Seq(Span)
  <2>1. CASE OnHistory!Open(h)
    <3> DEFINE g == [h EXCEPT ![Len(h)].to = ts]
               end == [h[Len(h)] EXCEPT !.to = ts]
               p == OnHistory!Purged(g, at)
    <3>1. Len(h) \in DOMAIN h /\ h[Len(h)] \in Span
      BY <2>1 DEF OnHistory!Open
    <3>2. end \in Span
      BY <3>1 DEF Span
    <3>3. g = [h EXCEPT ![Len(h)] = end]
      OBVIOUS
    <3> HIDE DEF end, g
    <3>4. g \in Seq(Span)
      BY <3>1, <3>2, <3>3
    <3>5. g \in Seq(Spans) /\ at \in Nat
      BY <3>4, SpanTypes
    <3>6. /\ p \in Seq(Spans)
          /\ \A x : (\E k \in DOMAIN p : p[k] = x)
                      <=> (\E k \in DOMAIN g : g[k] = x /\ at <= x.to + Retention)
      BY <3>5, PurgedIs
    <3> HIDE DEF p
    <3>7. ASSUME NEW i \in DOMAIN p PROVE p[i] \in Span
      <4>1. PICK k \in DOMAIN g : g[k] = p[i]
        BY <3>6
      <4> QED  BY <3>4, <4>1
    <3>8. p \in Seq(Span)
      BY <3>6, <3>7
    <3> QED  BY <2>1, <3>8 DEF OnHistory!ClockedOut, p, g
  <2>2. CASE ~ OnHistory!Open(h)
    BY <2>2 DEF OnHistory!ClockedOut
  <2> QED  BY <2>1, <2>2
<1> QED  BY <1>1, <1>2

LEMMA SpansRead ==
  ASSUME NEW log \in Seq(Row), NEW at \in Clock
  PROVE  OnHistory!Reloaded(log, at) \in Seq(Span)
<1> DEFINE f == CHOOSE f : IsRead(f, log, at)
           n == Len(log)
           E == {i \in 0..n : f[i] \notin Seq(Span)}
<1>1. log \in Seq(LogRows) /\ at \in Nat
  BY SpanTypes
<1>2. IsRead(f, log, at)
  BY <1>1, ReadExists
<1>3. OnHistory!Reloaded(log, at) = f[n]
  BY DEF OnHistory!Reloaded, IsRead
<1> HIDE DEF f
<1>4. n \in Nat /\ DOMAIN log = 1..n
  OBVIOUS
<1>5. ASSUME NEW i \in 0..n
      PROVE  f[i] = IF i = 0 THEN <<>> ELSE OnHistory!WithRow(f[i - 1], log[i], at)
  <2>1. f = [j \in 0..n |-> IF j = 0 THEN <<>> ELSE OnHistory!WithRow(f[j - 1], log[j], at)]
    BY <1>2 DEF IsRead
  <2> QED  BY <2>1
<1>6. f[0] \in Seq(Span)
  <2>1. f[0] = <<>>
    BY <1>4, <1>5
  <2> QED  BY <2>1
<1>7. ASSUME NEW i \in 1..n, f[i - 1] \in Seq(Span) PROVE f[i] \in Seq(Span)
  <2>1. log[i] \in Row /\ f[i] = OnHistory!WithRow(f[i - 1], log[i], at)
    BY <1>4, <1>5, <1>7
  <2>2. log[i].at \in Clock /\ log[i].on \in BOOLEAN /\ log[i].at \in Nat /\ Retention \in Nat
    BY <2>1, SpanTypes, RulesAssumption DEF Row
  <2>3. /\ OnHistory!ClockedIn(f[i - 1], log[i].at) \in Seq(Span)
        /\ OnHistory!ClockedOut(f[i - 1], log[i].at, at) \in Seq(Span)
    BY <1>7, <2>2, SpansKept
  <2> QED  BY <1>1, <1>7, <2>1, <2>2, <2>3 DEF OnHistory!WithRow
<1>8. E = {}
  <2>1. E \in SUBSET (0..n)
    OBVIOUS
  <2>2. ASSUME NEW p \in E, p = 0 \/ (p - 1 \in 0..n /\ p - 1 \notin E) PROVE FALSE
    <3>1. p # 0 /\ p \in 1..n /\ f[p - 1] \in Seq(Span)
      BY <1>4, <1>6, <2>2
    <3> QED  BY <1>7, <2>2, <3>1
  <2> HIDE DEF E
  <2> QED  BY <1>4, <2>1, <2>2, FirstOne
<1> QED  BY <1>3, <1>4, <1>8

LEMMA InitTypes == ASSUME Init PROVE TypeOK
<1>1. Start \in Clock /\ Kinds \subseteq Rules /\ MaxDisturbances \in Nat
  BY SpanTypes, RulesAssumption
<1>2. needs \in SUBSET {"force", "offload", "energy"}
  BY <1>1 DEF Init, Measures, Rules
<1>3. /\ now \in Clock /\ kind \in Kinds /\ disturbances \in 0..MaxDisturbances
      /\ on_history \in Seq(Span) /\ rows \in Seq(Row) /\ on_seconds \subseteq Clock
  BY <1>1 DEF Init
<1>4. saved \in [state : BOOLEAN, manual : BOOLEAN]
  BY DEF Init
<1>5. /\ driven \in BOOLEAN /\ present \in BOOLEAN
      /\ relay \in BOOLEAN /\ state \in BOOLEAN /\ manual \in BOOLEAN
      /\ last_on \in Clock \cup {0} /\ last_off \in Clock \cup {0} /\ since \in Clock \cup {0}
      /\ wanted \in {"none", "on", "off", "offload"} /\ disturbed \in BOOLEAN /\ astray \in BOOLEAN
  BY DEF Init
<1> QED  BY <1>2, <1>3, <1>4, <1>5 DEF TypeOK

\* The device's times and history when it is switched.
LEMMA ClockTypes ==
  ASSUME TypeOK, NEW on \in BOOLEAN, ClockTo(on)
  PROVE  /\ last_on' \in Clock \cup {0} /\ last_off' \in Clock \cup {0}
         /\ on_history' \in Seq(Span)
<1>1. /\ now \in Clock /\ on_history \in Seq(Span)
      /\ last_on \in Clock \cup {0} /\ last_off \in Clock \cup {0}
  BY DEF TypeOK
<1>2. last_on' \in {last_on, now} /\ last_off' \in {last_off, now}
  BY DEF ClockTo
<1>3. on_history' \in {on_history, OnHistory!ClockedIn(on_history, now),
                       OnHistory!ClockedOut(on_history, now, now)}
  BY DEF ClockTo
<1>4. on_history' \in Seq(Span)
  BY <1>1, <1>3, SpansKept
<1> QED  BY <1>1, <1>2, <1>4

LEMMA SwitchTypes ==
  ASSUME TypeOK, NEW on \in BOOLEAN, Switch(on)
  PROVE  /\ relay' \in BOOLEAN /\ state' \in BOOLEAN
         /\ last_on' \in Clock \cup {0} /\ last_off' \in Clock \cup {0}
         /\ on_history' \in Seq(Span) /\ rows' \in Seq(Row)
<1>1. [at |-> now, on |-> on] \in Row
  BY DEF TypeOK, Row
<1> DEFINE new == [at |-> now, on |-> on]
<1> HIDE DEF new
<1>2. Append(rows, new) \in Seq(Row)
  BY <1>1 DEF TypeOK, new
<1> QED  BY <1>2, ClockTypes DEF Switch, new

LEMMA LoadTypes ==
  ASSUME TypeOK, NEW row \in [state : BOOLEAN, manual : BOOLEAN], Load(row)
  PROVE  /\ state' \in BOOLEAN /\ manual' \in BOOLEAN
         /\ last_on' \in Clock \cup {0} /\ last_off' \in Clock \cup {0}
         /\ on_history' \in Seq(Span)
         /\ wanted' = "none" /\ driven' = FALSE
         /\ UNCHANGED <<now, kind, present, needs, relay, rows, on_seconds>>
BY SpansRead DEF TypeOK, Load, inputs

LEMMA DisturbTypes ==
  ASSUME TypeOK, Disturb PROVE disturbed' \in BOOLEAN /\ disturbances' \in 0..MaxDisturbances
<1>1. MaxDisturbances \in Nat
  BY RulesAssumption
<1> QED  BY <1>1 DEF TypeOK, Disturb

LEMMA NextTypes == ASSUME TypeOK, [Next]_vars PROVE TypeOK'
<1> USE DEF clock, device, times, inputs, ghosts
<1>k. kind \in Rules /\ 0 \in Clock \cup {0}
  BY RulesAssumption DEF TypeOK
<1>1. CASE Tick
  <2>1. now' \in Clock /\ on_seconds' \subseteq Clock
    BY <1>1, SpanTypes DEF Tick, TypeOK, Clock
  <2>2. /\ UNCHANGED <<kind, present, needs, relay, state, manual, last_on, last_off, on_history, rows>>
        /\ UNCHANGED <<saved, wanted, since, disturbed, astray, disturbances>>
        /\ driven' = FALSE
    BY <1>1 DEF Tick
  <2>3. /\ kind' \in Kinds /\ present' \in BOOLEAN /\ needs' \subseteq {"force", "offload", "energy"}
        /\ relay' \in BOOLEAN /\ state' \in BOOLEAN /\ manual' \in BOOLEAN
        /\ last_on' \in Clock \cup {0} /\ last_off' \in Clock \cup {0}
        /\ on_history' \in Seq(Span) /\ rows' \in Seq(Row)
    BY <2>2 DEF TypeOK
  <2>4. /\ saved' \in [state : BOOLEAN, manual : BOOLEAN] /\ since' \in Clock \cup {0}
        /\ wanted' \in {"none", "on", "off", "offload"} /\ disturbances' \in 0..MaxDisturbances
        /\ disturbed' \in BOOLEAN /\ astray' \in BOOLEAN /\ driven' \in BOOLEAN
    BY <2>2 DEF TypeOK
  <2> QED  BY <2>1, <2>3, <2>4 DEF TypeOK
<1>2. CASE Measure
  <2>1. needs' \in SUBSET {"force", "offload", "energy"}
    BY <1>2, <1>k DEF Measure, Measures, Rules
  <2> QED  BY <1>2, <2>1 DEF Measure, TypeOK
<1>3. CASE Ask
  <2>1. wanted' \in {"on", "off", "offload"}
    BY <1>3, <1>k DEF Ask, GetWantedState, TimeRangeWants, TemperatureWants, CMVWants, Rules
  <2> QED  BY <1>3, <2>1 DEF Ask, TypeOK
<1>4. ASSUME NEW on \in BOOLEAN, Apply(on) PROVE TypeOK'
  <2>1. since' \in Clock \cup {0}
    BY <1>4 DEF Apply, SinceFor, TypeOK
  <2>2. CASE on = state  BY <1>4, <2>1, <2>2 DEF Apply, Keep, Done, TypeOK
  <2>3. CASE on # state  BY <1>4, <2>1, <2>3, SwitchTypes DEF Apply, Done, TypeOK
  <2> QED  BY <2>2, <2>3
<1>5. CASE ApplyForced \/ ApplyOffload
  BY <1>4, <1>5 DEF ApplyForced, ApplyOffload
<1>6. CASE Skip  BY <1>6 DEF Skip, Done, TypeOK
<1>7. CASE Fail  BY <1>7, DisturbTypes DEF Fail, Done, TypeOK
<1>8. CASE FailToLog
  <2>1. PICK on \in BOOLEAN : on = (wanted = "on")
    OBVIOUS
  <2>2. relay' = on /\ state' = on /\ ClockTo(on) /\ since' = SinceFor(on)
    BY <1>8, <2>1 DEF FailToLog
  <2>3. since' \in Clock \cup {0}
    BY <2>2 DEF SinceFor, TypeOK
  <2>4. /\ last_on' \in Clock \cup {0} /\ last_off' \in Clock \cup {0}
        /\ on_history' \in Seq(Span)
    BY <2>2, ClockTypes
  <2> QED  BY <1>8, <2>2, <2>3, <2>4, DisturbTypes DEF FailToLog, Done, TypeOK
<1>9. ASSUME NEW on \in BOOLEAN, SetManualState(on) PROVE TypeOK'
  BY <1>9, SwitchTypes, DisturbTypes DEF SetManualState, TypeOK
<1>10. CASE SetAutoState
  <2>1. manual' \in BOOLEAN
    BY <1>10 DEF SetAutoState
  <2>2. /\ UNCHANGED <<now, driven, kind, present, needs, relay, state, last_on, last_off, saved>>
        /\ UNCHANGED <<on_history, rows, wanted, on_seconds, since, disturbed, astray, disturbances>>
    BY <1>10 DEF SetAutoState
  <2> QED  BY <2>1, <2>2 DEF TypeOK
<1>11. CASE Button  BY <1>11, DisturbTypes DEF Button, TypeOK
<1>12. CASE Poll  BY <1>12 DEF Poll, TypeOK
<1>13. CASE ChangeThermometer  BY <1>13, DisturbTypes DEF ChangeThermometer, TypeOK
<1>14. CASE Restart
  <2>1. saved' \in [state : BOOLEAN, manual : BOOLEAN]
    BY <1>14 DEF Restart, TypeOK
  <2>2. Load(saved') /\ Disturb /\ since' = 0 /\ astray' \in BOOLEAN
    BY <1>14 DEF Restart, TypeOK
  <2> QED  BY <2>1, <2>2, LoadTypes, DisturbTypes DEF TypeOK
<1>15. CASE Kill
  <2>1. saved \in [state : BOOLEAN, manual : BOOLEAN] /\ saved' = saved
    BY <1>15 DEF Kill, TypeOK
  <2>2. Load(saved) /\ Disturb /\ since' = 0 /\ astray' \in BOOLEAN
    BY <1>15 DEF Kill, TypeOK
  <2> QED  BY <2>1, <2>2, LoadTypes, DisturbTypes DEF TypeOK
<1>16. CASE UNCHANGED vars  BY <1>16 DEF vars, TypeOK
<1> QED
  BY <1>1, <1>2, <1>3, <1>5, <1>6, <1>7, <1>8, <1>9, <1>10, <1>11, <1>12, <1>13, <1>14, <1>15,
     <1>16 DEF Next

\* Type correctness: clock, device, history and log, whatever was lost of them.
THEOREM TypeInvariant == Spec => []TypeOK
<1>1. Init => TypeOK  BY InitTypes
<1>2. TypeOK /\ [Next]_vars => TypeOK'  BY NextTypes
<1> QED  BY <1>1, <1>2, PTL DEF Spec

=============================================================================
