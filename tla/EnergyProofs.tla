---------------------------- MODULE EnergyProofs ----------------------------
(***************************************************************************)
(* Proofs about the counters and histories of a metered device (Energy),   *)
(* for any time, days, retention and number of restarts.                   *)
(***************************************************************************)
EXTENDS Energy, TLAPS, WellFoundedInduction

-----------------------------------------------------------------------------
(* Periods. *)

LEMMA PeriodsAreNumbers ==
  /\ Quarters \subseteq Nat /\ Days \subseteq Nat
  /\ \A q \in Quarters : DayOf[q] \in Days
  /\ \A d \in Days : DateOf[d] \in Dates
  /\ \A n \in Dates : \E d \in Days : DateOf[d] = n
<1>1. Quarters \subseteq Nat /\ \A q \in Quarters : DayOf[q] \in Nat
  BY EnergyAssumption DEF Quarters
<1>2. Days \subseteq Nat /\ \A q \in Quarters : DayOf[q] \in Days
  BY <1>1 DEF Days
<1>3. (\A d \in Days : DateOf[d] \in Dates) /\ \A n \in Dates : \E d \in Days : DateOf[d] = n
  BY DEF Dates
<1> QED  BY <1>1, <1>2, <1>3

LEMMA GreatestExists ==
  ASSUME NEW B \in Nat, NEW E, E \subseteq 0..B, E # {}
  PROVE  \E p \in E : \A q \in E : q <= p
<1> DEFINE T == {B - p : p \in E}
<1>1. T \subseteq Nat /\ T # {}
  <2>1. \A p \in E : B - p \in Nat  OBVIOUS
  <2> QED  BY <2>1
<1>2. \E x \in T : \A y \in T : ~ <<y, x>> \in OpToRel(<, Nat)
  <2> HIDE DEF T
  <2> QED  BY <1>1, NatLessThanWellFounded, WFMin
<1>3. PICK p \in E : \A y \in T : ~ <<y, B - p>> \in OpToRel(<, Nat)
  BY <1>2
<1>4. ASSUME NEW q \in E PROVE q <= p
  <2>1. ~ <<B - q, B - p>> \in OpToRel(<, Nat)
    BY <1>3
  <2>2. ~ (B - q < B - p)
    BY <2>1 DEF OpToRel
  <2> QED  BY <2>2
<1> QED  BY <1>4

\* The last of some days.
LEMMA LastDay ==
  ASSUME NEW E \in SUBSET Days, E # {}
  PROVE  (CHOOSE p \in E : \A q \in E : q <= p) \in E
<1>1. MaxTime \in Quarters /\ \A q \in Quarters : q <= MaxTime
  BY EnergyAssumption DEF Quarters
<1>2. \A d \in Days : d \in Nat /\ d <= DayOf[MaxTime]
  BY <1>1, EnergyAssumption, PeriodsAreNumbers DEF Days
<1>3. DayOf[MaxTime] \in Nat /\ E \subseteq 0..DayOf[MaxTime]
  BY <1>1, <1>2, EnergyAssumption
<1>4. \E p \in E : \A q \in E : q <= p
  BY <1>3, GreatestExists
<1> QED  BY <1>4

LEMMA LastQuarter ==
  ASSUME NEW E \in SUBSET Quarters, E # {}
  PROVE  (CHOOSE p \in E : \A q \in E : q <= p) \in E
<1>1. \E p \in E : \A q \in E : q <= p
  BY EnergyAssumption, GreatestExists DEF Quarters
<1> QED  BY <1>1

-----------------------------------------------------------------------------
(* What is stored and loaded. *)

\* A row becomes the amount of one of the periods with its name, or stays.
LEMMA DayStored ==
  ASSUME NEW row \in [Dates -> Nat], NEW h \in [Days -> Nat], NEW set \in SUBSET Days
  PROVE  /\ ByDay!Stored(row, h, set) \in [Dates -> Nat]
         /\ \A n \in Dates : \/ ByDay!Stored(row, h, set)[n] = row[n]
                             \/ \E p \in set : /\ DateOf[p] = n /\ h[p] > 0
                                               /\ ByDay!Stored(row, h, set)[n] = h[p]
<1> DEFINE E(n) == {p \in set : DateOf[p] = n /\ h[p] > 0}
           c(n) == CHOOSE p \in E(n) : \A q \in E(n) : q <= p
<1>1. ByDay!Stored(row, h, set) = [n \in Dates |-> IF E(n) = {} THEN row[n] ELSE h[c(n)]]
  BY DEF ByDay!Stored
<1>2. ASSUME NEW n \in Dates, E(n) # {} PROVE c(n) \in E(n)
  BY <1>2, LastDay
<1>3. \A n \in Dates : E(n) # {} => c(n) \in set /\ c(n) \in Days /\ DateOf[c(n)] = n /\ h[c(n)] > 0
  BY <1>2
<1> HIDE DEF E, c
<1> QED  BY <1>1, <1>3

\* A date that is one day's only: its row becomes that day's amount.
DatesAreUnique == \A d, e \in Days : DateOf[d] = DateOf[e] => d = e

LEMMA DayStoredAlone ==
  ASSUME DatesAreUnique,
         NEW row \in [Dates -> Nat], NEW h \in [Days -> Nat], NEW set \in SUBSET Days
  PROVE  [d \in Days |-> ByDay!Stored(row, h, set)[DateOf[d]]]
           = [d \in Days |-> IF d \in set /\ h[d] > 0 THEN h[d] ELSE row[DateOf[d]]]
<1> SUFFICES ASSUME NEW d \in Days
             PROVE  ByDay!Stored(row, h, set)[DateOf[d]]
                      = IF d \in set /\ h[d] > 0 THEN h[d] ELSE row[DateOf[d]]
  OBVIOUS
<1> DEFINE E == {p \in set : DateOf[p] = DateOf[d] /\ h[p] > 0}
           c == CHOOSE p \in E : \A q \in E : q <= p
<1>1. ByDay!Stored(row, h, set)[DateOf[d]] = IF E = {} THEN row[DateOf[d]] ELSE h[c]
  BY PeriodsAreNumbers DEF ByDay!Stored
<1>2. E = IF d \in set /\ h[d] > 0 THEN {d} ELSE {}
  BY DEF DatesAreUnique
<1>3. E # {} => c \in E
  BY LastDay
<1> HIDE DEF E, c
<1> QED  BY <1>1, <1>2, <1>3

LEMMA QuarterStored ==
  ASSUME NEW row \in [Quarters -> Nat], NEW h \in [Quarters -> Nat], NEW set \in SUBSET Quarters
  PROVE  ByQuarter!Stored(row, h, set)
           = [q \in Quarters |-> IF q \in set /\ h[q] > 0 THEN h[q] ELSE row[q]]
<1> DEFINE E(n) == {p \in set : [q \in Quarters |-> q][p] = n /\ h[p] > 0}
           c(n) == CHOOSE p \in E(n) : \A q \in E(n) : q <= p
<1>1. ByQuarter!Stored(row, h, set)
        = [n \in Quarters |-> IF E(n) = {} THEN row[n] ELSE h[c(n)]]
  BY DEF ByQuarter!Stored
<1>2. ASSUME NEW n \in Quarters PROVE E(n) = IF n \in set /\ h[n] > 0 THEN {n} ELSE {}
  OBVIOUS
<1>3. ASSUME NEW n \in Quarters, E(n) # {} PROVE c(n) \in E(n)
  BY <1>3, LastQuarter
<1> HIDE DEF E, c
<1> QED  BY <1>1, <1>2, <1>3

-----------------------------------------------------------------------------
(* A history and the rows it is stored in. *)

\* Nothing is known of the future; the present, and what is in memory of the
\* past, is not less than its row.
Ahead(P, row, history, t) ==
  \A p \in P : /\ p >= t \/ history[p] > 0 => row[p] <= history[p]
               /\ p > t => history[p] = 0

-----------------------------------------------------------------------------
(* What the steps do to the histories. *)

LEMMA OldDays ==
  ASSUME NEW t \in Days PROVE ByDay!Old(t) \subseteq {d \in Days : d < t}
<1>1. ASSUME NEW d \in Days, d + MaxDays < t PROVE d < t
  <2>1. d \in Nat /\ t \in Nat /\ MaxDays \in Nat
    BY PeriodsAreNumbers, EnergyAssumption
  <2> QED  BY <1>1, <2>1
<1> QED  BY <1>1 DEF ByDay!Old

LEMMA AddEnergyStep ==
  ASSUME TypeOK, NEW amount \in Nat, AddEnergy(amount)
  PROVE  /\ \E S \in SUBSET {d \in Days : d < today} :
              /\ day_rows' = ByDay!Stored(day_rows, [days EXCEPT ![today] = @ + amount], S)
              /\ days' = [d \in Days |-> IF d \in S THEN 0
                                         ELSE [days EXCEPT ![today] = @ + amount][d]]
         /\ \/ UNCHANGED <<quarters, quarter_rows>>
            \/ \E S \in SUBSET {q \in Quarters : q < now} :
                 /\ quarter_rows' = ByQuarter!Stored(quarter_rows, [quarters EXCEPT ![now] = @ + amount], S)
                 /\ quarters' = [q \in Quarters |-> IF q \in S THEN 0
                                                    ELSE [quarters EXCEPT ![now] = @ + amount][q]]
         /\ last_yday' = today /\ energy_consumption' = amount + Shown
         /\ failed' \in BOOLEAN
<1>t. now \in Quarters /\ today \in Days /\ failed \in BOOLEAN /\ MaxDays \in Nat
  BY PeriodsAreNumbers, EnergyAssumption DEF TypeOK, today
<1>1. ByDay!Old(today) \subseteq {d \in Days : d < today}
  BY <1>t, OldDays
<1>2. ByQuarter!Old(now) \subseteq {q \in Quarters : q < now}
  BY <1>t, PeriodsAreNumbers DEF ByQuarter!Old
<1>3. ASSUME NEW end, AddToDay(amount, end)
      PROVE  \E S \in SUBSET {d \in Days : d < today} :
               /\ day_rows' = ByDay!Stored(day_rows, [days EXCEPT ![today] = @ + amount], S)
               /\ days' = [d \in Days |-> IF d \in S THEN 0
                                          ELSE [days EXCEPT ![today] = @ + amount][d]]
  <2> DEFINE S == ByDay!Upto(ByDay!Old(today), end)
  <2>1. S \in SUBSET {d \in Days : d < today}
    BY <1>1 DEF ByDay!Upto
  <2>2. /\ day_rows' = ByDay!Stored(day_rows, [days EXCEPT ![today] = @ + amount], S)
        /\ days' = [d \in Days |-> IF d \in S THEN 0
                                   ELSE [days EXCEPT ![today] = @ + amount][d]]
    BY <1>3 DEF AddToDay, ByDay!Added, ByDay!Erased
  <2> QED  BY <2>1, <2>2
<1>4. ASSUME NEW end, AddToQuarter(amount, end)
      PROVE  \E S \in SUBSET {q \in Quarters : q < now} :
               /\ quarter_rows' = ByQuarter!Stored(quarter_rows, [quarters EXCEPT ![now] = @ + amount], S)
               /\ quarters' = [q \in Quarters |-> IF q \in S THEN 0
                                                  ELSE [quarters EXCEPT ![now] = @ + amount][q]]
  <2> DEFINE S == ByQuarter!Upto(ByQuarter!Old(now), end)
  <2>1. S \in SUBSET {q \in Quarters : q < now}
    BY <1>2 DEF ByQuarter!Upto
  <2>2. /\ quarter_rows' = ByQuarter!Stored(quarter_rows, [quarters EXCEPT ![now] = @ + amount], S)
        /\ quarters' = [q \in Quarters |-> IF q \in S THEN 0
                                           ELSE [quarters EXCEPT ![now] = @ + amount][q]]
    BY <1>4 DEF AddToQuarter, ByQuarter!Added, ByQuarter!Erased
  <2> QED  BY <2>1, <2>2
<1>5. last_yday' = today /\ energy_consumption' = amount + Shown
  BY DEF AddEnergy, CountToday, Shown
<1>6. CASE \E end \in Ends(days) \cap ByDay!Old(today) :
             /\ AddToDay(amount, end)
             /\ failed' = TRUE
             /\ UNCHANGED <<quarters, quarter_rows>>
  BY <1>3, <1>5, <1>6
<1>7. CASE /\ AddToDay(amount, today)
           /\ \/ \E end \in Ends(quarters) \cap ByQuarter!Old(now) :
                   AddToQuarter(amount, end) /\ failed' = TRUE
              \/ AddToQuarter(amount, now) /\ UNCHANGED failed
  <2>1. failed' \in BOOLEAN /\ \E end : AddToQuarter(amount, end)
    BY <1>7, <1>t
  <2> QED  BY <1>3, <1>4, <1>5, <1>7, <2>1
<1> QED  BY <1>6, <1>7 DEF AddEnergy

LEMMA SyncStep ==
  ASSUME TypeOK, Sync
  PROVE  /\ \E S \in SUBSET Days, G \in SUBSET {d \in Days : d < today} :
              /\ day_rows' = ByDay!Stored(day_rows, days, S)
              /\ days' = [d \in Days |-> IF d \in G THEN 0 ELSE days[d]]
         /\ \/ UNCHANGED <<quarters, quarter_rows>>
            \/ \E S \in SUBSET Quarters, G \in SUBSET {q \in Quarters : q < now} :
                 /\ quarter_rows' = ByQuarter!Stored(quarter_rows, quarters, S)
                 /\ quarters' = [q \in Quarters |-> IF q \in G THEN 0 ELSE quarters[q]]
         /\ failed' \in BOOLEAN
<1>t. now \in Quarters /\ today \in Days /\ failed \in BOOLEAN /\ MaxDays \in Nat
  BY PeriodsAreNumbers, EnergyAssumption DEF TypeOK, today
<1>1. ByDay!Old(today) \subseteq {d \in Days : d < today}
  BY <1>t, OldDays
<1>2. ByQuarter!Old(now) \subseteq {q \in Quarters : q < now}
  BY <1>t, PeriodsAreNumbers DEF ByQuarter!Old
<1>3. ASSUME NEW end, SyncDays(end)
      PROVE  \E S \in SUBSET Days, G \in SUBSET {d \in Days : d < today} :
               /\ day_rows' = ByDay!Stored(day_rows, days, S)
               /\ days' = [d \in Days |-> IF d \in G THEN 0 ELSE days[d]]
  <2> DEFINE S == ByDay!Upto(Days, end)
             G == S \cap ByDay!Old(today)
  <2>1. S \in SUBSET Days /\ G \in SUBSET {d \in Days : d < today}
    BY <1>1 DEF ByDay!Upto
  <2>2. /\ day_rows' = ByDay!Stored(day_rows, days, S)
        /\ days' = [d \in Days |-> IF d \in G THEN 0 ELSE days[d]]
    BY <1>3 DEF SyncDays, ByDay!Erased
  <2> QED  BY <2>1, <2>2
<1>4. ASSUME NEW end, SyncQuarters(end)
      PROVE  \E S \in SUBSET Quarters, G \in SUBSET {q \in Quarters : q < now} :
               /\ quarter_rows' = ByQuarter!Stored(quarter_rows, quarters, S)
               /\ quarters' = [q \in Quarters |-> IF q \in G THEN 0 ELSE quarters[q]]
  <2> DEFINE S == ByQuarter!Upto(Quarters, end)
             G == S \cap ByQuarter!Old(now)
  <2>1. S \in SUBSET Quarters /\ G \in SUBSET {q \in Quarters : q < now}
    BY <1>2 DEF ByQuarter!Upto
  <2>2. /\ quarter_rows' = ByQuarter!Stored(quarter_rows, quarters, S)
        /\ quarters' = [q \in Quarters |-> IF q \in G THEN 0 ELSE quarters[q]]
    BY <1>4 DEF SyncQuarters, ByQuarter!Erased
  <2> QED  BY <2>1, <2>2
<1>5. CASE \E end \in Ends(days) :
             SyncDays(end) /\ failed' = TRUE /\ UNCHANGED <<quarters, quarter_rows>>
  BY <1>3, <1>5
<1>6. CASE /\ SyncDays(today + 1)
           /\ \/ \E end \in Ends(quarters) : SyncQuarters(end) /\ failed' = TRUE
              \/ SyncQuarters(now + 1) /\ UNCHANGED failed
  <2>1. failed' \in BOOLEAN /\ \E end : SyncQuarters(end)
    BY <1>6, <1>t
  <2> QED  BY <1>3, <1>4, <1>6, <2>1
<1> QED  BY <1>5, <1>6 DEF Sync

\* A start, after an end that has saved something or nothing.
LEMMA StartStep ==
  ASSUME TypeOK, Restart \/ Kill
  PROVE  /\ \E S \in SUBSET Days : day_rows' = ByDay!Stored(day_rows, days, S)
         /\ \E S \in SUBSET Quarters : quarter_rows' = ByQuarter!Stored(quarter_rows, quarters, S)
         /\ LoadCounter /\ ends' = ends + 1
         /\ UNCHANGED <<now, register, ghosts, resets>>
<1>1. CASE Restart
  <2>1. \E dend, qend : SavedRows(dend, qend)
    BY <1>1 DEF Restart
  <2>2. PICK dend, qend : SavedRows(dend, qend)
    BY <2>1
  <2>3. ByDay!Upto(Days, dend) \in SUBSET Days /\ ByQuarter!Upto(Quarters, qend) \in SUBSET Quarters
    BY DEF ByDay!Upto, ByQuarter!Upto
  <2> QED  BY <1>1, <2>2, <2>3 DEF Restart, SavedRows
<1>2. CASE Kill
  <2>1. day_rows' = ByDay!Stored(day_rows, days, {}) /\ day_rows' = day_rows
    BY <1>2 DEF Kill, rows, ByDay!Stored, TypeOK
  <2>2. quarter_rows' = ByQuarter!Stored(quarter_rows, quarters, {}) /\ quarter_rows' = quarter_rows
    BY <1>2 DEF Kill, rows, ByQuarter!Stored, TypeOK
  <2> QED  BY <1>2, <2>1, <2>2 DEF Kill
<1> QED  BY <1>1, <1>2

-----------------------------------------------------------------------------
(* Type correctness. *)

LEMMA DeltaType == ASSUME TypeOK PROVE Delta \in Nat
BY DEF TypeOK, Delta

LEMMA NextType == ASSUME TypeOK, [Next]_vars PROVE TypeOK'
<1> USE PeriodsAreNumbers DEF meter, counter, rows, ghosts, bounds
<1>t. /\ now \in Quarters /\ today \in Days /\ days \in [Days -> Nat]
      /\ quarters \in [Quarters -> Nat] /\ day_rows \in [Dates -> Nat]
      /\ quarter_rows \in [Quarters -> Nat]
  BY DEF TypeOK, today
<1>1. CASE Tick
  <2>1. now' \in Quarters  BY <1>1, EnergyAssumption DEF Tick, TypeOK, Quarters
  <2> QED  BY <1>1, <2>1 DEF Tick, TypeOK
<1>2. CASE Consume  BY <1>2 DEF Consume, TypeOK
<1>3. CASE ResetRegister  BY <1>3 DEF ResetRegister, TypeOK
<1>4. CASE ReloadSensor  BY <1>4 DEF ReloadSensor, TypeOK
<1>5. CASE Report
  <2>1. UNCHANGED <<now, register, consumed, bounds>> /\ last' \in Nat
    BY <1>5 DEF Report, TypeOK
  <2>2. CASE Delta > 0
    <3>1. Delta \in Nat /\ AddEnergy(Delta) /\ counted' = counted + Delta
          /\ reported' = [reported EXCEPT ![DateOf[today]] = @ + Delta]
      BY <1>5, <2>2, DeltaType DEF Report
    <3>2. days' \in [Days -> Nat] /\ day_rows' \in [Dates -> Nat]
      <4>1. [days EXCEPT ![today] = @ + Delta] \in [Days -> Nat]
        BY <1>t, <3>1
      <4>2. PICK S \in SUBSET {d \in Days : d < today} :
              /\ day_rows' = ByDay!Stored(day_rows, [days EXCEPT ![today] = @ + Delta], S)
              /\ days' = [d \in Days |-> IF d \in S THEN 0
                                         ELSE [days EXCEPT ![today] = @ + Delta][d]]
        BY <3>1, AddEnergyStep
      <4>3. S \in SUBSET Days  OBVIOUS
      <4> QED  BY <1>t, <4>1, <4>2, <4>3, DayStored
    <3>3. quarters' \in [Quarters -> Nat] /\ quarter_rows' \in [Quarters -> Nat]
      <4> DEFINE h == [quarters EXCEPT ![now] = @ + Delta]
      <4>1. h \in [Quarters -> Nat]
        BY <1>t, <3>1
      <4>2. CASE UNCHANGED <<quarters, quarter_rows>>  BY <1>t, <4>2
      <4>3. ASSUME NEW S \in SUBSET {q \in Quarters : q < now},
                   quarter_rows' = ByQuarter!Stored(quarter_rows, h, S),
                   quarters' = [q \in Quarters |-> IF q \in S THEN 0 ELSE h[q]]
            PROVE  quarters' \in [Quarters -> Nat] /\ quarter_rows' \in [Quarters -> Nat]
        <5>1. S \in SUBSET Quarters  OBVIOUS
        <5> HIDE DEF h
        <5> QED  BY <1>t, <4>1, <4>3, <5>1, QuarterStored
      <4> HIDE DEF h
      <4> QED  BY <3>1, <4>2, <4>3, AddEnergyStep DEF h
    <3>4. last_yday' \in Days /\ energy_consumption' \in Nat /\ failed' \in BOOLEAN
      <4>1. /\ last_yday' = today /\ energy_consumption' = Delta + Shown
            /\ failed' \in BOOLEAN
        BY <3>1, AddEnergyStep
      <4>2. Shown \in Nat
        BY DEF Shown, TypeOK
      <4> QED  BY <1>t, <3>1, <4>1, <4>2
    <3>5. counted' \in Nat /\ reported' \in [Dates -> Nat]
      BY <1>t, <3>1 DEF TypeOK
    <3> QED  BY <2>1, <3>2, <3>3, <3>4, <3>5 DEF TypeOK
  <2>3. CASE ~ Delta > 0
    BY <1>5, <2>1, <2>3 DEF Report, TypeOK
  <2> QED  BY <2>2, <2>3
<1>6. CASE Sync
  <2>1. UNCHANGED <<now, meter, last_yday, energy_consumption, consumed, counted, reported, bounds>>
    BY <1>6 DEF Sync
  <2>2. days' \in [Days -> Nat] /\ day_rows' \in [Dates -> Nat]
    <3>1. PICK S \in SUBSET Days, G \in SUBSET {d \in Days : d < today} :
              /\ day_rows' = ByDay!Stored(day_rows, days, S)
              /\ days' = [d \in Days |-> IF d \in G THEN 0 ELSE days[d]]
      BY <1>6, SyncStep
    <3> QED  BY <1>t, <3>1, DayStored
  <2>3. quarters' \in [Quarters -> Nat] /\ quarter_rows' \in [Quarters -> Nat] /\ failed' \in BOOLEAN
    BY <1>6, <1>t, SyncStep, QuarterStored
  <2> QED  BY <2>1, <2>2, <2>3 DEF TypeOK
<1>7. CASE Restart \/ Kill
  <2>1. LoadCounter /\ ends' = ends + 1 /\ UNCHANGED <<now, register, ghosts, resets>>
    BY <1>7, StartStep
  <2>2. day_rows' \in [Dates -> Nat]
    BY <1>7, <1>t, StartStep, DayStored
  <2>3. quarter_rows' \in [Quarters -> Nat]
    BY <1>7, <1>t, StartStep, QuarterStored
  <2>4. days' \in [Days -> Nat]
    BY <1>t, <2>1, <2>2 DEF LoadCounter, ByDay!Loaded
  <2>5. quarters' \in [Quarters -> Nat]
    BY <2>1, <2>3 DEF LoadCounter, ByQuarter!Loaded
  <2>6. last_yday' \in Days /\ energy_consumption' \in Nat /\ last' = 0
    BY <1>t, <2>1, <2>4 DEF LoadCounter
  <2> QED  BY <2>1, <2>2, <2>3, <2>4, <2>5, <2>6 DEF TypeOK
<1>8. CASE UNCHANGED vars  BY <1>8 DEF vars, TypeOK
<1> QED
  BY <1>1, <1>2, <1>3, <1>4, <1>5, <1>6, <1>7, <1>8 DEF Next

LEMMA InitType == ASSUME Init PROVE TypeOK
<1>1. 0 \in Quarters /\ DayOf[0] \in Days
  BY EnergyAssumption, PeriodsAreNumbers DEF Quarters
<1>2. register \in Nat
  BY DEF Init
<1> QED  BY <1>1, <1>2 DEF Init, TypeOK, today

\* The counter, its histories and their rows have their types.
THEOREM TypeCorrect == Spec => []TypeOK
BY InitType, NextType, PTL DEF Spec

-----------------------------------------------------------------------------
(* Nothing is counted twice. *)

\* What the register has grown by since the last report is not counted yet.
MeterInv ==
  /\ counted <= consumed
  /\ last > 0 => counted + register <= consumed + last

AmountInv ==
  /\ \A d \in Days : days[d] <= reported[DateOf[d]]
  /\ \A n \in Dates : day_rows[n] <= reported[n]

LEMMA NextMeter == ASSUME TypeOK, MeterInv, [Next]_vars PROVE MeterInv'
<1> USE DEF TypeOK, MeterInv, meter, ghosts
<1>1. CASE Report
  <2>1. last' = register /\ UNCHANGED <<register, consumed>>
    BY <1>1 DEF Report
  <2>2. CASE Delta > 0
    <3>1. counted' = counted + Delta  BY <1>1, <2>2 DEF Report
    <3>2. last > 0 /\ Delta = register - last  BY <2>2 DEF Delta
    <3> QED  BY <2>1, <3>1, <3>2
  <2>3. CASE ~ Delta > 0
    <3>1. counted' = counted  BY <1>1, <2>3 DEF Report
    <3> QED  BY <2>1, <3>1
  <2> QED  BY <2>2, <2>3
<1>2. CASE Restart \/ Kill
  <2>1. last' = 0 /\ UNCHANGED <<counted, consumed>>
    BY <1>2, StartStep DEF LoadCounter
  <2> QED  BY <2>1
<1>3. CASE Consume  BY <1>3 DEF Consume
<1>4. CASE ResetRegister  BY <1>4 DEF ResetRegister
<1>5. CASE ReloadSensor  BY <1>5 DEF ReloadSensor
<1>6. CASE Tick \/ Sync  BY <1>6 DEF Tick, Sync
<1>7. CASE UNCHANGED vars  BY <1>7 DEF vars
<1> QED  BY <1>1, <1>2, <1>3, <1>4, <1>5, <1>6, <1>7 DEF Next

\* A history and rows made of amounts that were reported.
LEMMA AmountsStored ==
  ASSUME NEW r \in [Dates -> Nat], NEW row \in [Dates -> Nat], NEW h \in [Days -> Nat],
         \A d \in Days : h[d] <= r[DateOf[d]], \A n \in Dates : row[n] <= r[n],
         NEW S \in SUBSET Days
  PROVE  \A n \in Dates : ByDay!Stored(row, h, S)[n] <= r[n]
BY DayStored

LEMMA NextAmount == ASSUME TypeOK, AmountInv, [Next]_vars PROVE AmountInv'
<1> USE PeriodsAreNumbers
<1>t. /\ today \in Days /\ days \in [Days -> Nat] /\ day_rows \in [Dates -> Nat]
      /\ reported \in [Dates -> Nat]
  BY DEF TypeOK, today
<1>i. /\ \A d \in Days : days[d] <= reported[DateOf[d]]
      /\ \A n \in Dates : day_rows[n] <= reported[n]
  BY DEF AmountInv
<1>same. ASSUME UNCHANGED <<days, day_rows, reported>> PROVE AmountInv'
  BY <1>same, <1>i DEF AmountInv
<1>1. CASE Report
  <2>1. CASE Delta > 0
    <3> DEFINE h == [days EXCEPT ![today] = @ + Delta]
               r == [reported EXCEPT ![DateOf[today]] = @ + Delta]
    <3>1. Delta \in Nat /\ AddEnergy(Delta) /\ reported' = r
      BY <1>1, <2>1, DeltaType DEF Report
    <3>2. PICK S \in SUBSET {d \in Days : d < today} :
            /\ day_rows' = ByDay!Stored(day_rows, h, S)
            /\ days' = [d \in Days |-> IF d \in S THEN 0 ELSE h[d]]
      BY <3>1, AddEnergyStep
    <3>3. h \in [Days -> Nat] /\ r \in [Dates -> Nat] /\ S \in SUBSET Days
      BY <1>t, <3>1
    <3>4. \A d \in Days : h[d] <= r[DateOf[d]]
      BY <1>t, <1>i, <3>1
    <3>5. \A n \in Dates : day_rows[n] <= r[n]
      BY <1>t, <1>i, <3>1
    <3> HIDE DEF h, r
    <3>6. \A n \in Dates : day_rows'[n] <= reported'[n]
      BY <1>t, <3>1, <3>2, <3>3, <3>4, <3>5, AmountsStored
    <3>7. \A d \in Days : days'[d] <= reported'[DateOf[d]]
      BY <3>1, <3>2, <3>3, <3>4
    <3> QED  BY <3>6, <3>7 DEF AmountInv
  <2>2. CASE ~ Delta > 0
    BY <1>1, <2>2, <1>same DEF Report, counter, rows
  <2> QED  BY <2>1, <2>2
<1>2. CASE Sync
  <2>1. PICK S \in SUBSET Days, G \in SUBSET {d \in Days : d < today} :
            /\ day_rows' = ByDay!Stored(day_rows, days, S)
            /\ days' = [d \in Days |-> IF d \in G THEN 0 ELSE days[d]]
    BY <1>2, SyncStep
  <2>2. reported' = reported  BY <1>2 DEF Sync
  <2>3. \A n \in Dates : day_rows'[n] <= reported[n]
    BY <1>t, <1>i, <2>1, AmountsStored
  <2>4. \A d \in Days : days'[d] <= reported[DateOf[d]]
    BY <1>t, <1>i, <2>1
  <2> QED  BY <2>2, <2>3, <2>4 DEF AmountInv
<1>3. CASE Restart \/ Kill
  <2>1. /\ \E S \in SUBSET Days : day_rows' = ByDay!Stored(day_rows, days, S)
        /\ days' = ByDay!Loaded(day_rows', today') /\ reported' = reported
    BY <1>3, StartStep DEF LoadCounter, ghosts, today
  <2>2. /\ day_rows' \in [Dates -> Nat]
        /\ \A n \in Dates : day_rows'[n] <= reported[n]
    BY <1>t, <1>i, <2>1, AmountsStored, DayStored
  <2>3. \A d \in Days : days'[d] \in {0, day_rows'[DateOf[d]]}
    BY <2>1 DEF ByDay!Loaded
  <2> QED  BY <1>t, <2>1, <2>2, <2>3 DEF AmountInv
<1>4. CASE Tick \/ Consume \/ ResetRegister \/ ReloadSensor
  BY <1>4, <1>same DEF Tick, Consume, ResetRegister, ReloadSensor, counter, rows, ghosts
<1>5. CASE UNCHANGED vars  BY <1>5, <1>same DEF vars, counter, rows, ghosts
<1> QED  BY <1>1, <1>2, <1>3, <1>4, <1>5 DEF Next

\* No energy is counted twice, in memory or in the database, over the resets of
\* the meter's register, reloads, refused rows, restarts and kills, even on a
\* date that is two days.
THEOREM NothingIsCountedTwice == Spec => []NothingTwice
<1>1. Init => MeterInv /\ AmountInv
  <2>1. ASSUME Init PROVE MeterInv /\ AmountInv
    <3>1. /\ \A d \in Days : days[d] = 0 /\ reported[DateOf[d]] = 0
          /\ \A n \in Dates : day_rows[n] = 0 /\ reported[n] = 0
          /\ counted = 0 /\ consumed = 0 /\ last = 0
      BY <2>1, PeriodsAreNumbers DEF Init
    <3> QED  BY <3>1 DEF MeterInv, AmountInv
  <2> QED  BY <2>1
<1>2. MeterInv /\ AmountInv => NothingTwice
  BY DEF MeterInv, AmountInv, NothingTwice
<1> QED
  BY <1>1, <1>2, TypeCorrect, NextMeter, NextAmount, PTL DEF Spec

-----------------------------------------------------------------------------
(* Rows never shrink, if every day has a date of its own. *)

DayRows == [d \in Days |-> day_rows[DateOf[d]]]
DaysAhead == Ahead(Days, DayRows, days, today)
QuartersAhead == Ahead(Quarters, quarter_rows, quarters, now)

RowsGrow ==
  /\ \A n \in Dates : day_rows[n] <= day_rows'[n]
  /\ \A q \in Quarters : quarter_rows[q] <= quarter_rows'[q]

\* What a step must do to the histories.
LEMMA AheadStep ==
  ASSUME TypeOK,
         Ahead(Days, DayRows', days', today') /\ \A d \in Days : DayRows[d] <= DayRows'[d],
         Ahead(Quarters, quarter_rows', quarters', now')
           /\ \A q \in Quarters : quarter_rows[q] <= quarter_rows'[q]
  PROVE  DaysAhead' /\ QuartersAhead' /\ RowsGrow
<1>1. \A d \in Days : DayRows[d] = day_rows[DateOf[d]] /\ DayRows'[d] = day_rows'[DateOf[d]]
  BY DEF DayRows
<1>2. \A n \in Dates : day_rows[n] <= day_rows'[n]
  BY <1>1, PeriodsAreNumbers
<1> QED  BY <1>2 DEF DaysAhead, QuartersAhead, RowsGrow

LEMMA NextAhead ==
  ASSUME DatesAreUnique, TypeOK, TypeOK', DaysAhead, QuartersAhead, [Next]_vars
  PROVE  DaysAhead' /\ QuartersAhead' /\ RowsGrow
<1>t. /\ now \in Quarters /\ today \in Days /\ days \in [Days -> Nat]
      /\ quarters \in [Quarters -> Nat] /\ day_rows \in [Dates -> Nat]
      /\ quarter_rows \in [Quarters -> Nat] /\ DayRows \in [Days -> Nat]
      /\ Days \in SUBSET Nat /\ Quarters \in SUBSET Nat
  BY PeriodsAreNumbers DEF TypeOK, today, DayRows
<1>a. Ahead(Days, DayRows, days, today) /\ Ahead(Quarters, quarter_rows, quarters, now)
  BY DEF DaysAhead, QuartersAhead
<1>q. ASSUME UNCHANGED <<now, quarters, quarter_rows>>
      PROVE  Ahead(Quarters, quarter_rows', quarters', now')
               /\ \A q \in Quarters : quarter_rows[q] <= quarter_rows'[q]
  BY <1>q, <1>a, <1>t
<1>d. ASSUME UNCHANGED <<now, days, day_rows>>
      PROVE  Ahead(Days, DayRows', days', today') /\ \A d \in Days : DayRows[d] <= DayRows'[d]
  BY <1>d, <1>a, <1>t DEF DayRows, today
<1>1. CASE Report
  <2>1. UNCHANGED now  BY <1>1 DEF Report
  <2>2. CASE Delta > 0
    <3>1. Delta \in Nat /\ AddEnergy(Delta)
      BY <1>1, <2>2, DeltaType DEF Report
    <3>2. Ahead(Days, DayRows', days', today') /\ \A d \in Days : DayRows[d] <= DayRows'[d]
      <4> DEFINE h == [days EXCEPT ![today] = @ + Delta]
      <4>1. PICK S \in SUBSET {d \in Days : d < today} :
              /\ day_rows' = ByDay!Stored(day_rows, h, S)
              /\ days' = [d \in Days |-> IF d \in S THEN 0 ELSE h[d]]
        BY <3>1, AddEnergyStep
      <4>2. h \in [Days -> Nat] /\ S \in SUBSET Days
        BY <1>t, <3>1
      <4>3. DayRows' = [d \in Days |-> IF d \in S /\ h[d] > 0 THEN h[d] ELSE day_rows[DateOf[d]]]
        <5> HIDE DEF h
        <5> QED  BY <1>t, <4>1, <4>2, DayStoredAlone DEF DayRows
      <4>4. DayRows' = [d \in Days |-> IF d \in S /\ h[d] > 0 THEN h[d] ELSE DayRows[d]]
        <5> HIDE DEF h
        <5> QED  BY <4>3 DEF DayRows
      <4>5. today' = today  BY <2>1 DEF today
      <4>6. h = [days EXCEPT ![today] = @ + Delta]  OBVIOUS
      <4> HIDE DEF h
      <4> QED  BY <1>t, <1>a, <3>1, <4>1, <4>4, <4>5, <4>6 DEF Ahead
    <3>3. Ahead(Quarters, quarter_rows', quarters', now')
            /\ \A q \in Quarters : quarter_rows[q] <= quarter_rows'[q]
      <4> DEFINE h == [quarters EXCEPT ![now] = @ + Delta]
      <4>1. CASE UNCHANGED <<quarters, quarter_rows>>  BY <1>q, <2>1, <4>1
      <4>2. ASSUME NEW S \in SUBSET {q \in Quarters : q < now},
                   quarter_rows' = ByQuarter!Stored(quarter_rows, h, S),
                   quarters' = [q \in Quarters |-> IF q \in S THEN 0 ELSE h[q]]
            PROVE  Ahead(Quarters, quarter_rows', quarters', now')
                     /\ \A q \in Quarters : quarter_rows[q] <= quarter_rows'[q]
        <5>1. h \in [Quarters -> Nat] /\ S \in SUBSET Quarters
          BY <1>t, <3>1
        <5>2. quarter_rows' = [q \in Quarters |-> IF q \in S /\ h[q] > 0 THEN h[q] ELSE quarter_rows[q]]
          <6> HIDE DEF h
          <6> QED  BY <1>t, <4>2, <5>1, QuarterStored
        <5>3. h = [quarters EXCEPT ![now] = @ + Delta]  OBVIOUS
        <5> HIDE DEF h
        <5> QED  BY <1>t, <1>a, <2>1, <3>1, <4>2, <5>2, <5>3 DEF Ahead
      <4>3. \/ UNCHANGED <<quarters, quarter_rows>>
            \/ \E S \in SUBSET {q \in Quarters : q < now} :
                 /\ quarter_rows' = ByQuarter!Stored(quarter_rows, h, S)
                 /\ quarters' = [q \in Quarters |-> IF q \in S THEN 0 ELSE h[q]]
        BY <3>1, AddEnergyStep
      <4> HIDE DEF h
      <4> QED  BY <4>1, <4>2, <4>3
    <3> QED  BY <3>2, <3>3, AheadStep
  <2>3. CASE ~ Delta > 0
    <3>1. UNCHANGED <<days, day_rows, quarters, quarter_rows>>
      BY <1>1, <2>3 DEF Report, counter, rows
    <3> QED  BY <1>q, <1>d, <2>1, <3>1, AheadStep
  <2> QED  BY <2>2, <2>3
<1>2. CASE Sync
  <2>1. UNCHANGED now  BY <1>2 DEF Sync
  <2>2. Ahead(Days, DayRows', days', today') /\ \A d \in Days : DayRows[d] <= DayRows'[d]
    <3>1. PICK S \in SUBSET Days, G \in SUBSET {d \in Days : d < today} :
              /\ day_rows' = ByDay!Stored(day_rows, days, S)
              /\ days' = [d \in Days |-> IF d \in G THEN 0 ELSE days[d]]
      BY <1>2, SyncStep
    <3>2. DayRows' = [d \in Days |-> IF d \in S /\ days[d] > 0 THEN days[d] ELSE day_rows[DateOf[d]]]
      <4>1. day_rows' = ByDay!Stored(day_rows, days, S) /\ S \in SUBSET Days
        BY <3>1
      <4>2. [d \in Days |-> ByDay!Stored(day_rows, days, S)[DateOf[d]]]
              = [d \in Days |-> IF d \in S /\ days[d] > 0 THEN days[d] ELSE day_rows[DateOf[d]]]
        BY <1>t, DayStoredAlone
      <4> QED  BY <4>1, <4>2 DEF DayRows
    <3>3. DayRows' = [d \in Days |-> IF d \in S /\ days[d] > 0 THEN days[d] ELSE DayRows[d]]
      BY <3>2 DEF DayRows
    <3>4. today' = today  BY <2>1 DEF today
    <3> QED  BY <1>t, <1>a, <3>1, <3>3, <3>4 DEF Ahead
  <2>3. Ahead(Quarters, quarter_rows', quarters', now')
          /\ \A q \in Quarters : quarter_rows[q] <= quarter_rows'[q]
    <3>1. CASE UNCHANGED <<quarters, quarter_rows>>  BY <1>q, <2>1, <3>1
    <3>2. ASSUME NEW S \in SUBSET Quarters, NEW G \in SUBSET {q \in Quarters : q < now},
                 quarter_rows' = ByQuarter!Stored(quarter_rows, quarters, S),
                 quarters' = [q \in Quarters |-> IF q \in G THEN 0 ELSE quarters[q]]
          PROVE  Ahead(Quarters, quarter_rows', quarters', now')
                   /\ \A q \in Quarters : quarter_rows[q] <= quarter_rows'[q]
      <4>1. quarter_rows' = [q \in Quarters |-> IF q \in S /\ quarters[q] > 0
                                                THEN quarters[q] ELSE quarter_rows[q]]
        BY <1>t, <3>2, QuarterStored
      <4> QED  BY <1>t, <1>a, <2>1, <3>2, <4>1 DEF Ahead
    <3> QED  BY <1>2, <3>1, <3>2, SyncStep
  <2> QED  BY <2>2, <2>3, AheadStep
<1>3. CASE Restart \/ Kill
  <2>1. LoadCounter /\ UNCHANGED now  BY <1>3, StartStep
  <2>2. Ahead(Days, DayRows', days', today') /\ \A d \in Days : DayRows[d] <= DayRows'[d]
    <3>1. PICK S \in SUBSET Days : day_rows' = ByDay!Stored(day_rows, days, S)
      BY <1>3, StartStep
    <3>2. DayRows' = [d \in Days |-> IF d \in S /\ days[d] > 0 THEN days[d] ELSE day_rows[DateOf[d]]]
      BY <1>t, <3>1, DayStoredAlone DEF DayRows
    <3>3. DayRows' = [d \in Days |-> IF d \in S /\ days[d] > 0 THEN days[d] ELSE DayRows[d]]
      BY <3>2 DEF DayRows
    <3>4. today' = today  BY <2>1 DEF today
    <3>5. days' = [d \in Days |-> IF d \in ByDay!Old(today) \/ d > today THEN 0 ELSE DayRows'[d]]
      BY <2>1, <3>4 DEF LoadCounter, ByDay!Loaded, DayRows
    <3>6. ByDay!Old(today) \in SUBSET {d \in Days : d < today}
      BY <1>t, OldDays
    <3> QED  BY <1>t, <1>a, <3>3, <3>4, <3>5, <3>6 DEF Ahead
  <2>3. Ahead(Quarters, quarter_rows', quarters', now')
          /\ \A q \in Quarters : quarter_rows[q] <= quarter_rows'[q]
    <3>1. PICK S \in SUBSET Quarters : quarter_rows' = ByQuarter!Stored(quarter_rows, quarters, S)
      BY <1>3, StartStep
    <3>2. quarter_rows' = [q \in Quarters |-> IF q \in S /\ quarters[q] > 0
                                              THEN quarters[q] ELSE quarter_rows[q]]
      BY <1>t, <3>1, QuarterStored
    <3>3. quarters' = [q \in Quarters |-> IF q \in ByQuarter!Old(now) \/ q > now THEN 0
                                          ELSE quarter_rows'[q]]
      BY <2>1 DEF LoadCounter, ByQuarter!Loaded
    <3>4. ByQuarter!Old(now) \in SUBSET {q \in Quarters : q < now}
      BY <1>t DEF ByQuarter!Old
    <3> QED  BY <1>t, <1>a, <2>1, <3>2, <3>3, <3>4 DEF Ahead
  <2> QED  BY <2>2, <2>3, AheadStep
<1>4. CASE Tick
  <2>1. now' = now + 1 /\ now' \in Quarters /\ UNCHANGED <<days, day_rows, quarters, quarter_rows>>
    BY <1>4 DEF Tick, counter, rows, TypeOK
  <2>2. today <= today' /\ today' \in Nat /\ DayRows' = DayRows
    BY <1>t, <2>1, EnergyAssumption DEF today, DayRows
  <2>3. Ahead(Days, DayRows', days', today') /\ \A d \in Days : DayRows[d] <= DayRows'[d]
    <3>1. \A d \in Days : (d >= today' => d >= today) /\ (d > today' => d > today)
      BY <1>t, <2>2
    <3> QED  BY <1>t, <1>a, <2>1, <2>2, <3>1 DEF Ahead
  <2>4. Ahead(Quarters, quarter_rows', quarters', now')
          /\ \A q \in Quarters : quarter_rows[q] <= quarter_rows'[q]
    <3>1. \A q \in Quarters : (q >= now' => q >= now) /\ (q > now' => q > now)
      BY <1>t, <2>1
    <3> QED  BY <1>t, <1>a, <2>1, <3>1 DEF Ahead
  <2> QED  BY <2>3, <2>4, AheadStep
<1>5. CASE Consume \/ ResetRegister \/ ReloadSensor
  <2>1. UNCHANGED <<now, days, day_rows, quarters, quarter_rows>>
    BY <1>5 DEF Consume, ResetRegister, ReloadSensor, counter, rows
  <2> QED  BY <1>q, <1>d, <2>1, AheadStep
<1>6. CASE UNCHANGED vars
  <2>1. UNCHANGED <<now, days, day_rows, quarters, quarter_rows>>
    BY <1>6 DEF vars, counter, rows
  <2> QED  BY <1>q, <1>d, <2>1, AheadStep
<1> QED  BY <1>1, <1>2, <1>3, <1>4, <1>5, <1>6 DEF Next

LEMMA InitAhead == Init => DaysAhead /\ QuartersAhead
<1> SUFFICES ASSUME Init PROVE DaysAhead /\ QuartersAhead
  OBVIOUS
<1>1. /\ \A d \in Days : days[d] = 0 /\ DayRows[d] = 0
      /\ \A q \in Quarters : quarters[q] = 0 /\ quarter_rows[q] = 0
  BY PeriodsAreNumbers DEF Init, DayRows
<1> QED  BY <1>1 DEF DaysAhead, QuartersAhead, Ahead

\* A row that was written never gets less, if the days have different dates (no
\* change to or from daylight saving time).
THEOREM RowsAreKept == DatesAreUnique => (Spec => RowsNeverShrink)
<1> SUFFICES ASSUME DatesAreUnique PROVE Spec => RowsNeverShrink
  OBVIOUS
<1>1. Init => DaysAhead /\ QuartersAhead
  BY InitAhead
<1>2. TypeOK /\ TypeOK' /\ DaysAhead /\ QuartersAhead /\ [Next]_vars
        => DaysAhead' /\ QuartersAhead' /\ RowsGrow
  BY NextAhead
<1>3. RowsNeverShrink <=> [][RowsGrow]_vars
  BY DEF RowsNeverShrink, RowsGrow
<1> QED
  BY <1>1, <1>2, <1>3, TypeCorrect, PTL DEF Spec

-----------------------------------------------------------------------------
(* The total of the day and its history. *)

TodayInv ==
  /\ last_yday <= today
  /\ \A d \in Days : d > today => days[d] = 0
  /\ TodayAgrees

LEMMA NextToday == ASSUME TypeOK, TypeOK', TodayInv, [Next]_vars PROVE TodayInv'
<1>t. /\ now \in Quarters /\ today \in Days /\ days \in [Days -> Nat] /\ last_yday \in Days
      /\ Days \subseteq Nat /\ energy_consumption \in Nat
  BY PeriodsAreNumbers DEF TypeOK, today
<1>same. ASSUME UNCHANGED <<now, days, last_yday, energy_consumption>> PROVE TodayInv'
  BY <1>same DEF TodayInv, TodayAgrees, Shown, today
<1>1. CASE Report
  <2>1. today' = today  BY <1>1 DEF Report, today
  <2>2. CASE Delta > 0
    <3> DEFINE h == [days EXCEPT ![today] = @ + Delta]
    <3>1. Delta \in Nat /\ AddEnergy(Delta)
      BY <1>1, <2>2, DeltaType DEF Report
    <3>2. /\ \E S \in SUBSET {d \in Days : d < today} :
               days' = [d \in Days |-> IF d \in S THEN 0 ELSE h[d]]
          /\ last_yday' = today /\ energy_consumption' = Delta + Shown
      BY <3>1, AddEnergyStep
    <3>3. \A d \in Days : d >= today => days'[d] = h[d]
      BY <1>t, <3>2
    <3>4. days'[today] = days[today] + Delta /\ \A d \in Days : d > today => days'[d] = 0
      BY <1>t, <3>1, <3>3 DEF TodayInv
    <3>5. Shown' = energy_consumption'
      BY <2>1, <3>2 DEF Shown
    <3>6. Shown' = days'[today'] /\ last_yday' <= today'
      BY <1>t, <2>1, <3>1, <3>2, <3>4, <3>5 DEF TodayInv, TodayAgrees, Shown
    <3> QED  BY <2>1, <3>4, <3>6 DEF TodayInv, TodayAgrees
  <2>3. CASE ~ Delta > 0
    BY <1>1, <2>3, <1>same DEF Report, counter
  <2> QED  BY <2>2, <2>3
<1>2. CASE Sync
  <2>1. /\ \E G \in SUBSET {d \in Days : d < today} :
             days' = [d \in Days |-> IF d \in G THEN 0 ELSE days[d]]
        /\ UNCHANGED <<now, last_yday, energy_consumption>>
    BY <1>2, SyncStep DEF Sync
  <2>2. \A d \in Days : d >= today => days'[d] = days[d]
    BY <1>t, <2>1
  <2>3. today' = today  BY <2>1 DEF today
  <2> QED  BY <1>t, <2>1, <2>2, <2>3 DEF TodayInv, TodayAgrees, Shown
<1>3. CASE Restart \/ Kill
  <2>1. LoadCounter /\ today' = today
    BY <1>3, StartStep DEF today
  <2>2. /\ last_yday' = today' /\ energy_consumption' = days'[today']
        /\ days' = ByDay!Loaded(day_rows', today')
    BY <2>1 DEF LoadCounter
  <2>3. \A d \in Days : d > today' => days'[d] = 0
    BY <2>2 DEF ByDay!Loaded
  <2> QED  BY <1>t, <2>1, <2>2, <2>3 DEF TodayInv, TodayAgrees, Shown
<1>4. CASE Tick
  <2>1. now' = now + 1 /\ now' \in Quarters /\ UNCHANGED <<days, last_yday, energy_consumption>>
    BY <1>4 DEF Tick, counter, TypeOK
  <2>2. today <= today' /\ today' \in Days
    BY <1>t, <2>1, EnergyAssumption, PeriodsAreNumbers DEF today
  <2>3. CASE today' = today
    BY <2>1, <2>3 DEF TodayInv, TodayAgrees, Shown
  <2>4. CASE today' > today
    <3>1. last_yday # today' /\ days[today'] = 0
      BY <1>t, <2>2, <2>4 DEF TodayInv
    <3>2. \A d \in Days : d > today' => days[d] = 0
      BY <1>t, <2>2, <2>4 DEF TodayInv
    <3>3. last_yday <= today'  BY <1>t, <2>2 DEF TodayInv
    <3> QED  BY <2>1, <3>1, <3>2, <3>3 DEF TodayInv, TodayAgrees, Shown
  <2> QED  BY <1>t, <2>2, <2>3, <2>4
<1>5. CASE Consume \/ ResetRegister \/ ReloadSensor
  BY <1>5, <1>same DEF Consume, ResetRegister, ReloadSensor, counter
<1>6. CASE UNCHANGED vars  BY <1>6, <1>same DEF vars, counter
<1> QED  BY <1>1, <1>2, <1>3, <1>4, <1>5, <1>6 DEF Next

\* The total GetEnergyConsumption shows is the present day's in the history, over
\* midnight, synchronisations, refused rows, restarts and kills.
THEOREM TheTotalIsTheDays == Spec => []TodayAgrees
<1>1. Init => TodayInv
  <2>1. ASSUME Init PROVE TodayInv
    <3>1. /\ \A d \in Days : days[d] = 0
          /\ today \in Days /\ last_yday = today /\ energy_consumption = 0
      BY <2>1, InitType, PeriodsAreNumbers DEF Init, TypeOK, today
    <3> QED  BY <3>1, PeriodsAreNumbers DEF TodayInv, TodayAgrees, Shown
  <2> QED  BY <2>1
<1>2. TypeOK /\ TypeOK' /\ TodayInv /\ [Next]_vars => TodayInv'
  BY NextToday
<1>3. TodayInv => TodayAgrees
  BY DEF TodayInv
<1> QED
  BY <1>1, <1>2, <1>3, TypeCorrect, PTL DEF Spec

-----------------------------------------------------------------------------
(* The sum of the quarters of a day. *)

\* s[q] is what the quarters of day d up to q are worth.
IsSum(s, a, d) ==
  s = [q \in Quarters |-> (IF q = 0 THEN 0 ELSE s[q - 1]) + (IF DayOf[q] = d THEN a[q] ELSE 0)]

\* Induction up to the last quarter: of the quarters where something fails, there
\* is a first one.
LEMMA FirstQuarter ==
  ASSUME NEW E \in SUBSET Quarters, E # {}
  PROVE  \E p \in E : p = 0 \/ (p - 1 \in Quarters /\ p - 1 \notin E)
<1>1. E \subseteq Nat /\ Quarters = 0..MaxTime /\ MaxTime \in Nat
  BY EnergyAssumption DEF Quarters
<1>2. PICK p \in E : \A y \in E : ~ <<y, p>> \in OpToRel(<, Nat)
  BY <1>1, NatLessThanWellFounded, WFMin
<1>3. \A y \in E : ~ y < p
  BY <1>1, <1>2 DEF OpToRel
<1> QED  BY <1>1, <1>3

LEMMA SumExists ==
  ASSUME NEW a, NEW d
  PROVE  \E s : IsSum(s, a, d)
<1> DEFINE part(q) == IF DayOf[q] = d THEN a[q] ELSE 0
           G(s, n) == [q \in 0..n |-> (IF q = 0 THEN 0 ELSE s[q - 1]) + part(q)]
           Summed(n) == \E s : s = G(s, n)
           E == {n \in Quarters : ~ Summed(n)}
<1> HIDE DEF part
<1>0. Quarters = 0..MaxTime /\ MaxTime \in Nat
  BY EnergyAssumption DEF Quarters
<1>1. ASSUME NEW p \in E PROVE p # 0 /\ (p - 1 \in Quarters => p - 1 \in E)
  <2>1. ASSUME p = 0 PROVE Summed(p)
    <3> DEFINE s == [q \in 0..p |-> 0 + part(q)]
    <3>1. s = G(s, p)
      BY <2>1
    <3> HIDE DEF s, G
    <3> QED  BY <3>1
  <2>2. ASSUME p - 1 \in Quarters, NEW r, r = G(r, p - 1) PROVE Summed(p)
    <3> DEFINE s == [q \in 0..p |-> (IF q = 0 THEN 0 ELSE r[q - 1]) + part(q)]
    <3>1. p \in Nat /\ p - 1 \in Nat
      BY <1>0, <2>2
    <3>2. \A q \in 0..(p - 1) : s[q] = r[q]
      BY <2>2, <3>1
    <3>3. \A q \in 0..p : q = 0 \/ q - 1 \in 0..(p - 1)
      BY <3>1
    <3>4. s = G(s, p)
      BY <3>2, <3>3
    <3> HIDE DEF s, G
    <3> QED  BY <3>4
  <2> HIDE DEF G
  <2> QED  BY <2>1, <2>2
<1>2. E = {}
  <2> HIDE DEF E
  <2>1. E \in SUBSET Quarters
    BY DEF E
  <2> QED  BY <1>1, <2>1, FirstQuarter
<1>3. PICK s : s = G(s, MaxTime)
  <2> HIDE DEF G
  <2> QED  BY <1>0, <1>2
<1> QED  BY <1>0, <1>3 DEF IsSum, part

\* What defines the sum.
LEMMA SumEquation ==
  ASSUME NEW a, NEW d, NEW s, IsSum(s, a, d), NEW q \in Quarters
  PROVE  s[q] = (IF q = 0 THEN 0 ELSE s[q - 1]) + (IF DayOf[q] = d THEN a[q] ELSE 0)
<1> DEFINE g == [r \in Quarters |-> (IF r = 0 THEN 0 ELSE s[r - 1]) + (IF DayOf[r] = d THEN a[r] ELSE 0)]
<1>1. s = g
  BY DEF IsSum
<1>2. g[q] = (IF q = 0 THEN 0 ELSE s[q - 1]) + (IF DayOf[q] = d THEN a[q] ELSE 0)
  OBVIOUS
<1> QED  BY <1>1, <1>2

LEMMA SumType ==
  ASSUME NEW a \in [Quarters -> Nat], NEW d, NEW s, IsSum(s, a, d)
  PROVE  \A q \in Quarters : s[q] \in Nat
<1> DEFINE E == {q \in Quarters : s[q] \notin Nat}
<1>1. ASSUME NEW p \in E PROVE p # 0 /\ (p - 1 \in Quarters => p - 1 \in E)
  <2>1. s[p] = (IF p = 0 THEN 0 ELSE s[p - 1]) + (IF DayOf[p] = d THEN a[p] ELSE 0)
    BY SumEquation
  <2> QED  BY <2>1
<1> HIDE DEF E
<1>2. E \in SUBSET Quarters
  BY DEF E
<1>3. E = {}
  BY <1>1, <1>2, FirstQuarter
<1> QED  BY <1>3 DEF E

\* A day whose quarters are worth more is worth more.
LEMMA SumsCompare ==
  ASSUME NEW a \in [Quarters -> Nat], NEW b \in [Quarters -> Nat], NEW d,
         NEW s, IsSum(s, a, d), NEW t, IsSum(t, b, d),
         \A q \in Quarters : DayOf[q] = d => a[q] <= b[q]
  PROVE  \A q \in Quarters : s[q] <= t[q]
<1> DEFINE E == {q \in Quarters : ~ s[q] <= t[q]}
<1>1. ASSUME NEW p \in E PROVE p # 0 /\ (p - 1 \in Quarters => p - 1 \in E)
  <2>1. /\ s[p] = (IF p = 0 THEN 0 ELSE s[p - 1]) + (IF DayOf[p] = d THEN a[p] ELSE 0)
        /\ t[p] = (IF p = 0 THEN 0 ELSE t[p - 1]) + (IF DayOf[p] = d THEN b[p] ELSE 0)
    BY SumEquation
  <2>2. \A q \in Quarters : s[q] \in Nat /\ t[q] \in Nat /\ a[q] \in Nat /\ b[q] \in Nat
    BY SumType
  <2> QED  BY <2>1, <2>2
<1> HIDE DEF E
<1>2. E \in SUBSET Quarters
  BY DEF E
<1>3. E = {}
  BY <1>1, <1>2, FirstQuarter
<1> QED  BY <1>3 DEF E

\* What is added to a quarter is added to its day.
LEMMA SumsAdd ==
  ASSUME NEW a \in [Quarters -> Nat], NEW b \in [Quarters -> Nat], NEW p \in Quarters,
         NEW s, IsSum(s, a, DayOf[p]), NEW t, IsSum(t, b, DayOf[p]), NEW k \in Nat,
         b[p] = a[p] + k, \A q \in Quarters \ {p} : b[q] = a[q]
  PROVE  \A q \in Quarters : t[q] = s[q] + (IF q < p THEN 0 ELSE k)
<1> DEFINE d == DayOf[p]
           E == {q \in Quarters : t[q] # s[q] + (IF q < p THEN 0 ELSE k)}
<1>0. Quarters \subseteq Nat
  BY PeriodsAreNumbers
<1>1. ASSUME NEW q \in E PROVE q # 0 /\ (q - 1 \in Quarters => q - 1 \in E)
  <2>1. /\ s[q] = (IF q = 0 THEN 0 ELSE s[q - 1]) + (IF DayOf[q] = d THEN a[q] ELSE 0)
        /\ t[q] = (IF q = 0 THEN 0 ELSE t[q - 1]) + (IF DayOf[q] = d THEN b[q] ELSE 0)
    BY SumEquation
  <2>2. \A r \in Quarters : s[r] \in Nat /\ t[r] \in Nat
    BY SumType
  <2>3. q \in Nat /\ p \in Nat /\ a[q] \in Nat /\ b[q] \in Nat
    BY <1>0
  <2>4. q # p => b[q] = a[q]
    OBVIOUS
  <2>5. p = 0 \/ p - 1 \in Quarters
    BY EnergyAssumption DEF Quarters
  <2> QED  BY <2>1, <2>2, <2>3, <2>4, <2>5
<1> HIDE DEF E
<1>2. E \in SUBSET Quarters
  BY DEF E
<1>3. E = {}
  BY <1>1, <1>2, FirstQuarter
<1> QED  BY <1>3 DEF E

LEMMA DaySums ==
  ASSUME NEW a \in [Quarters -> Nat], NEW d
  PROVE  \E s : IsSum(s, a, d) /\ DaySum(a, d) = s[MaxTime] /\ s[MaxTime] \in Nat
<1> DEFINE s == CHOOSE t : IsSum(t, a, d)
<1>1. IsSum(s, a, d)
  BY SumExists
<1>2. DaySum(a, d) = s[MaxTime]
  BY DEF DaySum, IsSum
<1>3. MaxTime \in Quarters
  BY EnergyAssumption DEF Quarters
<1> HIDE DEF s
<1> QED
  BY <1>1, <1>2, <1>3, SumType

LEMMA DaySumGrows ==
  ASSUME NEW a \in [Quarters -> Nat], NEW b \in [Quarters -> Nat], NEW d,
         \A q \in Quarters : DayOf[q] = d => a[q] <= b[q]
  PROVE  DaySum(a, d) <= DaySum(b, d)
<1>1. PICK s : IsSum(s, a, d) /\ DaySum(a, d) = s[MaxTime]
  BY DaySums
<1>2. PICK t : IsSum(t, b, d) /\ DaySum(b, d) = t[MaxTime]
  BY DaySums
<1>3. \A q \in Quarters : s[q] <= t[q]
  BY <1>1, <1>2, SumsCompare
<1> QED  BY <1>1, <1>2, <1>3, EnergyAssumption DEF Quarters

LEMMA DaySumAdds ==
  ASSUME NEW a \in [Quarters -> Nat], NEW b \in [Quarters -> Nat], NEW p \in Quarters, NEW k \in Nat,
         b[p] = a[p] + k, \A q \in Quarters \ {p} : b[q] = a[q]
  PROVE  DaySum(b, DayOf[p]) = DaySum(a, DayOf[p]) + k
<1>1. PICK s : IsSum(s, a, DayOf[p]) /\ DaySum(a, DayOf[p]) = s[MaxTime]
  BY DaySums
<1>2. PICK t : IsSum(t, b, DayOf[p]) /\ DaySum(b, DayOf[p]) = t[MaxTime]
  BY DaySums
<1>3. \A q \in Quarters : t[q] = s[q] + (IF q < p THEN 0 ELSE k)
  BY <1>1, <1>2, SumsAdd
<1>4. MaxTime \in Quarters /\ ~ MaxTime < p
  BY EnergyAssumption DEF Quarters
<1> QED  BY <1>1, <1>2, <1>3, <1>4

-----------------------------------------------------------------------------
(* The quarters of a day are worth the day. *)

\* In memory, and in the database alone, which is what a kill leaves.
Covered ==
  \A d \in Days : /\ DayTotal(d) <= DaySum(QuarterAmounts, d)
                  /\ DayRows[d] <= DaySum(quarter_rows, d)

CoverInv == ~ failed => Covered

AmountTypes ==
  /\ now \in Quarters /\ today \in Days /\ days \in [Days -> Nat]
  /\ quarters \in [Quarters -> Nat] /\ day_rows \in [Dates -> Nat]
  /\ quarter_rows \in [Quarters -> Nat] /\ DayRows \in [Days -> Nat]
  /\ QuarterAmounts \in [Quarters -> Nat]
  /\ \A q \in Quarters : QuarterAmounts[q] = Kept(quarters[q], quarter_rows[q])
  /\ \A d \in Days : DayTotal(d) = Kept(days[d], DayRows[d]) /\ DayTotal(d) \in Nat
  /\ \A d \in Days : DaySum(quarter_rows, d) \in Nat /\ DaySum(QuarterAmounts, d) \in Nat

LEMMA AmountsTyped == (TypeOK => AmountTypes) /\ (TypeOK' => AmountTypes')
<1>1. ASSUME NEW h \in [Days -> Nat], NEW r \in [Dates -> Nat], NEW d \in Days
      PROVE  Kept(h[d], [e \in Days |-> r[DateOf[e]]][d]) = Kept(h[d], r[DateOf[d]])
             /\ Kept(h[d], r[DateOf[d]]) \in Nat
  BY PeriodsAreNumbers DEF Kept
<1>2. ASSUME NEW h \in [Quarters -> Nat], NEW r \in [Quarters -> Nat], NEW q \in Quarters
      PROVE  Kept(h[q], r[q]) \in Nat
  BY DEF Kept
<1>3. ASSUME NEW r \in [Quarters -> Nat], NEW d PROVE DaySum(r, d) \in Nat
  BY DaySums
<1>4. ASSUME NEW r \in [Dates -> Nat] PROVE [d \in Days |-> r[DateOf[d]]] \in [Days -> Nat]
  BY PeriodsAreNumbers
<1>5. ASSUME TypeOK PROVE AmountTypes
  <2>1. /\ now \in Quarters /\ days \in [Days -> Nat] /\ quarters \in [Quarters -> Nat]
        /\ day_rows \in [Dates -> Nat] /\ quarter_rows \in [Quarters -> Nat]
    BY <1>5 DEF TypeOK
  <2>2. QuarterAmounts \in [Quarters -> Nat]
    BY <1>2, <2>1 DEF QuarterAmounts
  <2>3. \A d \in Days : DayTotal(d) = Kept(days[d], DayRows[d]) /\ DayTotal(d) \in Nat
    BY <1>1, <2>1 DEF DayTotal, DayRows
  <2>4. today \in Days /\ DayRows \in [Days -> Nat]
    BY <1>4, <2>1, PeriodsAreNumbers DEF today, DayRows
  <2> QED  BY <1>3, <2>1, <2>2, <2>3, <2>4 DEF AmountTypes, QuarterAmounts
<1>6. ASSUME TypeOK' PROVE AmountTypes'
  <2>1. /\ now' \in Quarters /\ days' \in [Days -> Nat] /\ quarters' \in [Quarters -> Nat]
        /\ day_rows' \in [Dates -> Nat] /\ quarter_rows' \in [Quarters -> Nat]
    BY <1>6 DEF TypeOK
  <2>2. QuarterAmounts' \in [Quarters -> Nat]
    BY <1>2, <2>1 DEF QuarterAmounts
  <2>3. \A d \in Days : DayTotal(d)' = Kept(days'[d], DayRows'[d]) /\ DayTotal(d)' \in Nat
    BY <1>1, <2>1 DEF DayTotal, DayRows
  <2>4. today' \in Days /\ DayRows' \in [Days -> Nat]
    BY <1>4, <2>1, PeriodsAreNumbers DEF today, DayRows
  <2> QED  BY <1>3, <2>1, <2>2, <2>3, <2>4 DEF AmountTypes, QuarterAmounts
<1> QED  BY <1>5, <1>6

\* A step that adds nothing: no quarter loses what it has, no day gets more, and
\* a day's row only what its quarters' rows have, too.
LEMMA CoverKept ==
  ASSUME TypeOK, TypeOK', Covered,
         \A q \in Quarters : /\ QuarterAmounts[q] <= QuarterAmounts'[q]
                             /\ quarter_rows[q] <= quarter_rows'[q],
         \A d \in Days : /\ DayTotal(d)' <= DayTotal(d)
                         /\ \/ DayRows'[d] <= DayRows[d]
                            \/ /\ DayRows'[d] <= DayTotal(d)
                               /\ \A q \in Quarters : DayOf[q] = d => QuarterAmounts[q] <= quarter_rows'[q]
  PROVE  Covered'
<1>0. AmountTypes /\ AmountTypes'
  BY AmountsTyped
<1> SUFFICES ASSUME NEW d \in Days
             PROVE  /\ DayTotal(d)' <= DaySum(QuarterAmounts', d)
                    /\ DayRows'[d] <= DaySum(quarter_rows', d)
  BY DEF Covered
<1>1. /\ DaySum(QuarterAmounts, d) <= DaySum(QuarterAmounts', d)
      /\ DaySum(quarter_rows, d) <= DaySum(quarter_rows', d)
  BY <1>0, DaySumGrows DEF AmountTypes
<1>2. /\ DayTotal(d) \in Nat /\ DayTotal(d)' \in Nat /\ DayRows[d] \in Nat /\ DayRows'[d] \in Nat
      /\ DaySum(QuarterAmounts, d) \in Nat /\ DaySum(QuarterAmounts', d) \in Nat
      /\ DaySum(quarter_rows, d) \in Nat /\ DaySum(quarter_rows', d) \in Nat
  BY <1>0 DEF AmountTypes
<1>3. DayTotal(d) <= DaySum(QuarterAmounts, d) /\ DayRows[d] <= DaySum(quarter_rows, d)
  BY DEF Covered
<1>4. DayTotal(d)' <= DaySum(QuarterAmounts', d)
  BY <1>1, <1>2, <1>3
<1>5. CASE DayRows'[d] <= DayRows[d]
  BY <1>1, <1>2, <1>3, <1>4, <1>5
<1>6. CASE /\ DayRows'[d] <= DayTotal(d)
           /\ \A q \in Quarters : DayOf[q] = d => QuarterAmounts[q] <= quarter_rows'[q]
  <2>1. DaySum(QuarterAmounts, d) <= DaySum(quarter_rows', d)
    BY <1>0, <1>6, DaySumGrows DEF AmountTypes
  <2> QED  BY <1>2, <1>3, <1>4, <1>6, <2>1
<1> QED  BY <1>5, <1>6

\* What a pass over the histories stores.
LEMMA RowsStored ==
  ASSUME DatesAreUnique, NEW row \in [Dates -> Nat], NEW h \in [Days -> Nat], NEW S \in SUBSET Days,
         day_rows' = ByDay!Stored(row, h, S)
  PROVE  \A d \in Days : DayRows'[d] = IF d \in S /\ h[d] > 0 THEN h[d] ELSE row[DateOf[d]]
<1>1. [d \in Days |-> day_rows'[DateOf[d]]]
        = [d \in Days |-> IF d \in S /\ h[d] > 0 THEN h[d] ELSE row[DateOf[d]]]
  BY DayStoredAlone
<1> QED  BY <1>1 DEF DayRows

\* A report counts for its quarter and for its day.
LEMMA ReportCovers ==
  ASSUME DatesAreUnique, TypeOK, TypeOK', DaysAhead, QuartersAhead, Covered, Report, ~ failed'
  PROVE  Covered'
<1>t. AmountTypes /\ AmountTypes' /\ Days \subseteq Nat /\ Quarters \subseteq Nat
  BY AmountsTyped, PeriodsAreNumbers
<1>1. CASE ~ Delta > 0
  <2>1. UNCHANGED <<days, day_rows, quarters, quarter_rows>>
    BY <1>1 DEF Report, counter, rows
  <2> QED  BY <2>1 DEF Covered, DayTotal, DayRows, QuarterAmounts
<1>2. CASE Delta > 0
  <2> DEFINE h == [days EXCEPT ![today] = @ + Delta]
             g == [quarters EXCEPT ![now] = @ + Delta]
             S == ByDay!Upto(ByDay!Old(today), today)
             G == ByQuarter!Upto(ByQuarter!Old(now), now)
  <2>1. Delta \in Nat /\ AddToDay(Delta, today) /\ AddToQuarter(Delta, now)
    BY <1>2, DeltaType DEF Report, AddEnergy
  <2>2. /\ day_rows' = ByDay!Stored(day_rows, h, S)
        /\ days' = [d \in Days |-> IF d \in S THEN 0 ELSE h[d]]
        /\ quarter_rows' = ByQuarter!Stored(quarter_rows, g, G)
        /\ quarters' = [q \in Quarters |-> IF q \in G THEN 0 ELSE g[q]]
    BY <2>1 DEF AddToDay, AddToQuarter, ByDay!Added, ByQuarter!Added, ByDay!Erased, ByQuarter!Erased
  <2>3. S \in SUBSET {d \in Days : d < today}
    BY <1>t, OldDays DEF ByDay!Upto, AmountTypes
  <2>4. G = {q \in Quarters : q < now}
    BY <1>t DEF ByQuarter!Upto, ByQuarter!Old, AmountTypes
  <2>5. h \in [Days -> Nat] /\ g \in [Quarters -> Nat] /\ S \in SUBSET Days /\ G \in SUBSET Quarters
    BY <1>t, <2>1, <2>3, <2>4 DEF AmountTypes
  <2>6. /\ h[today] = days[today] + Delta /\ \A d \in Days \ {today} : h[d] = days[d]
        /\ g[now] = quarters[now] + Delta /\ \A q \in Quarters \ {now} : g[q] = quarters[q]
    BY <1>t DEF AmountTypes
  <2> HIDE DEF h, g, S, G
  <2>7. \A d \in Days : DayRows'[d] = IF d \in S /\ h[d] > 0 THEN h[d] ELSE DayRows[d]
    BY <1>t, <2>2, <2>5, RowsStored DEF AmountTypes, DayRows
  <2>8. quarter_rows' = [q \in Quarters |-> IF q \in G /\ g[q] > 0 THEN g[q] ELSE quarter_rows[q]]
    BY <1>t, <2>2, <2>5, QuarterStored DEF AmountTypes
  <2>9. /\ QuarterAmounts'[now] = QuarterAmounts[now] + Delta
        /\ \A d \in Days : d = today => DayTotal(d)' = DayTotal(d) + Delta
    <3>1. today \notin S /\ now \notin G /\ today \in Days /\ now \in Quarters
      BY <1>t, <2>3, <2>4 DEF AmountTypes
    <3>2. /\ days[today] = 0 => DayRows[today] = 0
          /\ quarters[now] = 0 => quarter_rows[now] = 0
      BY <1>t, <3>1 DEF DaysAhead, QuartersAhead, Ahead, AmountTypes
    <3>3. days'[today] = days[today] + Delta /\ quarters'[now] = quarters[now] + Delta
      BY <2>2, <2>6, <3>1
    <3>4. DayTotal(today) = days[today] /\ QuarterAmounts[now] = quarters[now]
      BY <1>t, <3>1, <3>2 DEF AmountTypes, Kept
    <3>5. /\ QuarterAmounts'[now] = Kept(quarters'[now], quarter_rows'[now])
          /\ \A d \in Days : DayTotal(d)' = Kept(days'[d], DayRows'[d])
      BY <1>t, <3>1 DEF AmountTypes
    <3>6. days'[today] > 0 /\ quarters'[now] > 0
      BY <1>2, <1>t, <2>1, <3>1, <3>3 DEF AmountTypes
    <3> QED  BY <3>1, <3>3, <3>4, <3>5, <3>6 DEF Kept
  <2>10. ASSUME NEW d \in Days, d # today PROVE DayTotal(d)' = DayTotal(d)
    <3>1. DayTotal(d)' = Kept(days'[d], DayRows'[d]) /\ DayTotal(d) = Kept(days[d], DayRows[d])
      BY <1>t DEF AmountTypes
    <3>2. days[d] \in Nat /\ h[d] = days[d] /\ days'[d] = IF d \in S THEN 0 ELSE h[d]
      BY <1>t, <2>2, <2>6, <2>10 DEF AmountTypes
    <3> QED  BY <2>7, <3>1, <3>2 DEF Kept
  <2>11. ASSUME NEW q \in Quarters, q # now
         PROVE  QuarterAmounts'[q] = QuarterAmounts[q] /\ (q < now => quarter_rows'[q] = QuarterAmounts[q])
    <3>1. /\ QuarterAmounts'[q] = Kept(quarters'[q], quarter_rows'[q])
          /\ QuarterAmounts[q] = Kept(quarters[q], quarter_rows[q])
      BY <1>t DEF AmountTypes
    <3>2. quarters[q] \in Nat /\ g[q] = quarters[q] /\ quarters'[q] = IF q \in G THEN 0 ELSE g[q]
      BY <1>t, <2>2, <2>6, <2>11 DEF AmountTypes
    <3> QED  BY <2>4, <2>8, <3>1, <3>2 DEF Kept
  <2>12. \A q \in Quarters : quarter_rows[q] <= quarter_rows'[q]
    BY <1>t, <2>4, <2>6, <2>8 DEF QuartersAhead, Ahead, AmountTypes
  <2>13. ASSUME NEW d \in Days PROVE DayTotal(d)' <= DaySum(QuarterAmounts', d)
    <3>1. DayTotal(d) <= DaySum(QuarterAmounts, d)
      BY DEF Covered
    <3>2. CASE d = today
      <4>1. DaySum(QuarterAmounts', DayOf[now]) = DaySum(QuarterAmounts, DayOf[now]) + Delta
        BY <1>t, <2>1, <2>9, <2>11, DaySumAdds DEF AmountTypes
      <4>2. DayTotal(d)' = DayTotal(d) + Delta
        BY <2>9, <3>2
      <4>3. /\ DayTotal(d) \in Nat /\ DaySum(QuarterAmounts, d) \in Nat /\ d = DayOf[now]
        BY <1>t, <3>2 DEF AmountTypes, today
      <4> QED  BY <2>1, <3>1, <3>2, <4>1, <4>2, <4>3
    <3>3. CASE d # today
      <4>1. \A q \in Quarters : DayOf[q] = d => q # now
        BY <3>3 DEF today
      <4>2. \A q \in Quarters : DayOf[q] = d => QuarterAmounts[q] <= QuarterAmounts'[q]
        BY <1>t, <2>11, <4>1 DEF AmountTypes
      <4>3. DaySum(QuarterAmounts, d) <= DaySum(QuarterAmounts', d)
        BY <1>t, <4>2, DaySumGrows DEF AmountTypes
      <4> QED  BY <1>t, <2>10, <3>1, <3>3, <4>3 DEF AmountTypes
    <3> QED  BY <3>2, <3>3
  <2>14. ASSUME NEW d \in Days PROVE DayRows'[d] <= DaySum(quarter_rows', d)
    <3>1. DayTotal(d) <= DaySum(QuarterAmounts, d) /\ DayRows[d] <= DaySum(quarter_rows, d)
      BY DEF Covered
    <3>2. CASE d \in S /\ h[d] > 0
      <4>1. d < today /\ d # today
        BY <1>t, <2>3, <3>2 DEF AmountTypes
      <4>2. DayRows'[d] = DayTotal(d)
        BY <1>t, <2>6, <2>7, <3>2, <4>1 DEF AmountTypes, Kept
      <4>3. \A q \in Quarters : DayOf[q] = d => q < now
        BY <1>t, <4>1, EnergyAssumption DEF today, AmountTypes
      <4>4. \A q \in Quarters : DayOf[q] = d => QuarterAmounts[q] <= quarter_rows'[q]
        BY <1>t, <2>11, <4>3 DEF AmountTypes
      <4>5. DaySum(QuarterAmounts, d) <= DaySum(quarter_rows', d)
        BY <1>t, <4>4, DaySumGrows DEF AmountTypes
      <4> QED  BY <1>t, <3>1, <4>2, <4>5 DEF AmountTypes
    <3>3. CASE ~ (d \in S /\ h[d] > 0)
      <4>1. DayRows'[d] = DayRows[d]
        BY <2>7, <3>3
      <4>2. DaySum(quarter_rows, d) <= DaySum(quarter_rows', d)
        BY <1>t, <2>12, DaySumGrows DEF AmountTypes
      <4> QED  BY <1>t, <3>1, <4>1, <4>2 DEF AmountTypes
    <3> QED  BY <3>2, <3>3
  <2> QED  BY <2>13, <2>14 DEF Covered
<1> QED  BY <1>1, <1>2

\* A synchronisation without failure stores all there is.
LEMMA SyncCovers ==
  ASSUME DatesAreUnique, TypeOK, TypeOK', DaysAhead, QuartersAhead, Covered, Sync, ~ failed'
  PROVE  Covered'
<1>t. AmountTypes /\ AmountTypes' /\ Days \subseteq Nat /\ Quarters \subseteq Nat
  BY AmountsTyped, PeriodsAreNumbers
<1> DEFINE S == ByDay!Upto(Days, today + 1)
           G == ByQuarter!Upto(Quarters, now + 1)
           Sg == S \cap ByDay!Old(today)
           Gg == G \cap ByQuarter!Old(now)
<1>1. SyncDays(today + 1) /\ SyncQuarters(now + 1)
  BY DEF Sync
<1>2. /\ day_rows' = ByDay!Stored(day_rows, days, S)
      /\ days' = [d \in Days |-> IF d \in Sg THEN 0 ELSE days[d]]
      /\ quarter_rows' = ByQuarter!Stored(quarter_rows, quarters, G)
      /\ quarters' = [q \in Quarters |-> IF q \in Gg THEN 0 ELSE quarters[q]]
  BY <1>1 DEF SyncDays, SyncQuarters, ByDay!Erased, ByQuarter!Erased
<1>3. /\ S = {d \in Days : d < today + 1} /\ Sg \subseteq S
      /\ G = {q \in Quarters : q < now + 1} /\ Gg \subseteq G
  BY DEF ByDay!Upto, ByQuarter!Upto
<1> HIDE DEF S, G, Sg, Gg
<1>4. \A d \in Days : DayRows'[d] = IF d \in S /\ days[d] > 0 THEN days[d] ELSE DayRows[d]
  BY <1>t, <1>2, <1>3, RowsStored DEF AmountTypes, DayRows
<1>5. quarter_rows' = [q \in Quarters |-> IF q \in G /\ quarters[q] > 0
                                          THEN quarters[q] ELSE quarter_rows[q]]
  <2>1. quarter_rows \in [Quarters -> Nat] /\ quarters \in [Quarters -> Nat] /\ G \in SUBSET Quarters
    BY <1>t, <1>3 DEF AmountTypes
  <2> QED  BY <1>2, <2>1, QuarterStored
<1>6. ASSUME NEW d \in Days PROVE DayTotal(d)' = DayTotal(d) /\ DayRows'[d] = DayTotal(d)
  <2>1. /\ DayTotal(d)' = Kept(days'[d], DayRows'[d]) /\ DayTotal(d) = Kept(days[d], DayRows[d])
        /\ days[d] \in Nat /\ d \in Nat /\ today \in Nat
    BY <1>t DEF AmountTypes
  <2>2. d \notin S => days[d] = 0
    BY <1>3, <2>1 DEF DaysAhead, Ahead
  <2>3. days'[d] = IF d \in Sg THEN 0 ELSE days[d]
    BY <1>2
  <2> QED  BY <1>3, <1>4, <2>1, <2>2, <2>3 DEF Kept
<1>7. ASSUME NEW q \in Quarters
      PROVE  /\ QuarterAmounts'[q] = QuarterAmounts[q] /\ quarter_rows'[q] = QuarterAmounts[q]
             /\ quarter_rows[q] <= quarter_rows'[q]
  <2>1. /\ QuarterAmounts'[q] = Kept(quarters'[q], quarter_rows'[q])
        /\ QuarterAmounts[q] = Kept(quarters[q], quarter_rows[q])
        /\ quarters[q] \in Nat /\ quarter_rows[q] \in Nat /\ q \in Nat /\ now \in Nat
    BY <1>t DEF AmountTypes
  <2>2. (q \notin G => quarters[q] = 0) /\ (quarters[q] > 0 => quarter_rows[q] <= quarters[q])
    BY <1>3, <2>1 DEF QuartersAhead, Ahead
  <2>3. quarters'[q] = IF q \in Gg THEN 0 ELSE quarters[q]
    BY <1>2
  <2> QED  BY <1>3, <1>5, <2>1, <2>2, <2>3 DEF Kept
<1>8. /\ \A q \in Quarters : QuarterAmounts[q] \in Nat
      /\ \A d \in Days : DayTotal(d) \in Nat
  BY <1>t DEF AmountTypes
<1> QED  BY <1>6, <1>7, <1>8, CoverKept

\* A start finds what the end before it has saved: all, the days or the quarters
\* in part, or nothing.
LEMMA StartCovers ==
  ASSUME DatesAreUnique, TypeOK, TypeOK', DaysAhead, QuartersAhead, Covered, Restart \/ Kill
  PROVE  Covered'
<1>t. AmountTypes /\ AmountTypes' /\ Days \subseteq Nat /\ Quarters \subseteq Nat
  BY AmountsTyped, PeriodsAreNumbers
<1>1. LoadCounter /\ UNCHANGED now
  BY StartStep
<1>2. /\ days' = [d \in Days |-> IF d \in ByDay!Old(today) \/ d > today THEN 0 ELSE day_rows'[DateOf[d]]]
      /\ quarters' = [q \in Quarters |-> IF q \in ByQuarter!Old(now) \/ q > now
                                       THEN 0 ELSE quarter_rows'[q]]
  BY <1>1 DEF LoadCounter, ByDay!Loaded, ByQuarter!Loaded
<1>3. \A d \in Days : DayTotal(d)' = DayRows'[d]
  BY <1>2 DEF DayTotal, DayRows, Kept
<1>4. \A q \in Quarters : QuarterAmounts'[q] = quarter_rows'[q]
  BY <1>2 DEF QuarterAmounts, Kept
<1>5. QuarterAmounts' = quarter_rows'
  <2>1. QuarterAmounts' \in [Quarters -> Nat] /\ quarter_rows' \in [Quarters -> Nat]
    BY <1>t DEF AmountTypes
  <2> QED  BY <1>4, <2>1
\* It is enough to look at the rows.
<1>6. ASSUME \A d \in Days : DayRows'[d] <= DaySum(quarter_rows', d) PROVE Covered'
  BY <1>3, <1>5, <1>6 DEF Covered
<1>7. CASE Kill
  <2>1. DayRows' = DayRows /\ quarter_rows' = quarter_rows
    BY <1>7 DEF Kill, rows, DayRows
  <2> QED  BY <1>6, <2>1 DEF Covered
<1>8. CASE Restart
  <2>1. PICK dend, qend : SavedRows(dend, qend) /\ (dend = 0 \/ qend = now + 1)
    BY <1>8 DEF Restart
  <2> DEFINE S == ByDay!Upto(Days, dend)
             G == ByQuarter!Upto(Quarters, qend)
  <2>2. /\ day_rows' = ByDay!Stored(day_rows, days, S) /\ S = {d \in Days : d < dend}
        /\ quarter_rows' = ByQuarter!Stored(quarter_rows, quarters, G) /\ G = {q \in Quarters : q < qend}
    BY <2>1 DEF SavedRows, ByDay!Upto, ByQuarter!Upto
  <2> HIDE DEF S, G
  <2>3. \A d \in Days : DayRows'[d] = IF d \in S /\ days[d] > 0 THEN days[d] ELSE DayRows[d]
    BY <1>t, <2>2, RowsStored DEF AmountTypes, DayRows
  <2>4. quarter_rows' = [q \in Quarters |-> IF q \in G /\ quarters[q] > 0
                                            THEN quarters[q] ELSE quarter_rows[q]]
    <3>1. quarter_rows \in [Quarters -> Nat] /\ quarters \in [Quarters -> Nat] /\ G \in SUBSET Quarters
      BY <1>t, <2>2 DEF AmountTypes
    <3> QED  BY <2>2, <3>1, QuarterStored
  <2>5. ASSUME NEW d \in Days PROVE DayRows'[d] <= DaySum(quarter_rows', d)
    <3>1. DayTotal(d) <= DaySum(QuarterAmounts, d) /\ DayRows[d] <= DaySum(quarter_rows, d)
      BY DEF Covered
    <3>2. /\ DayTotal(d) = Kept(days[d], DayRows[d])
          /\ DayTotal(d) \in Nat /\ DayRows[d] \in Nat /\ days[d] \in Nat /\ d \in Nat
          /\ DaySum(QuarterAmounts, d) \in Nat /\ DaySum(quarter_rows, d) \in Nat
          /\ DaySum(quarter_rows', d) \in Nat
      BY <1>t DEF AmountTypes
    <3>3. CASE d \in S /\ days[d] > 0
      <4>1. DayRows'[d] = DayTotal(d)
        BY <2>3, <3>2, <3>3 DEF Kept
      <4>2. qend = now + 1
        BY <2>1, <2>2, <3>2, <3>3
      <4>3. ASSUME NEW q \in Quarters PROVE QuarterAmounts[q] <= quarter_rows'[q]
        <5>1. /\ QuarterAmounts[q] = Kept(quarters[q], quarter_rows[q])
              /\ quarters[q] \in Nat /\ quarter_rows[q] \in Nat /\ q \in Nat /\ now \in Nat
          BY <1>t DEF AmountTypes
        <5>2. q \notin G => quarters[q] = 0
          BY <2>2, <4>2, <5>1 DEF QuartersAhead, Ahead
        <5> QED  BY <2>4, <5>1, <5>2 DEF Kept
      <4>4. DaySum(QuarterAmounts, d) <= DaySum(quarter_rows', d)
        BY <1>t, <4>3, DaySumGrows DEF AmountTypes
      <4> QED  BY <3>1, <3>2, <4>1, <4>4
    <3>4. CASE ~ (d \in S /\ days[d] > 0)
      <4>1. \A q \in Quarters : quarter_rows[q] <= quarter_rows'[q]
        BY <1>t, <2>4 DEF QuartersAhead, Ahead, AmountTypes
      <4>2. DaySum(quarter_rows, d) <= DaySum(quarter_rows', d)
        BY <1>t, <4>1, DaySumGrows DEF AmountTypes
      <4> QED  BY <2>3, <3>1, <3>2, <3>4, <4>2
    <3> QED  BY <3>3, <3>4
  <2> QED  BY <1>6, <2>5
<1> QED  BY <1>7, <1>8

LEMMA NextCovers ==
  ASSUME DatesAreUnique, TypeOK, TypeOK', DaysAhead, QuartersAhead, CoverInv, [Next]_vars
  PROVE  CoverInv'
<1>1. CASE Report
  <2>1. failed => failed'
    BY <1>1 DEF Report, AddEnergy
  <2> QED  BY <1>1, <2>1, ReportCovers DEF CoverInv, TypeOK
<1>2. CASE Sync
  <2>1. failed => failed'
    BY <1>2 DEF Sync
  <2> QED  BY <1>2, <2>1, SyncCovers DEF CoverInv, TypeOK
<1>3. CASE Restart \/ Kill
  <2>1. failed' = failed
    BY <1>3 DEF Restart, Kill, ghosts
  <2> QED  BY <1>3, <2>1, StartCovers DEF CoverInv
<1>4. CASE Tick \/ Consume \/ ResetRegister \/ ReloadSensor \/ UNCHANGED vars
  <2>1. UNCHANGED <<days, day_rows, quarters, quarter_rows, failed>>
    BY <1>4 DEF Tick, Consume, ResetRegister, ReloadSensor, vars, counter, rows, ghosts
  <2> QED  BY <2>1 DEF CoverInv, Covered, DayTotal, DayRows, QuarterAmounts
<1> QED  BY <1>1, <1>2, <1>3, <1>4 DEF Next

\* Unless the database has refused a row, the quarters of a day are worth the day
\* at least, over midnight, retention, synchronisations, restarts and kills, if the
\* days have different dates.
THEOREM QuartersCoverDays == DatesAreUnique => (Spec => []DetailCoversDay)
<1> SUFFICES ASSUME DatesAreUnique PROVE Spec => []DetailCoversDay
  OBVIOUS
<1>1. Init => CoverInv
  <2>1. ASSUME Init PROVE Covered
    <3>1. AmountTypes /\ \A d \in Days : days[d] = 0 /\ DayRows[d] = 0
      BY <2>1, InitType, AmountsTyped, PeriodsAreNumbers DEF Init, DayRows
    <3> QED  BY <3>1 DEF Covered, AmountTypes, Kept
  <2> QED  BY <2>1 DEF CoverInv
<1>2. Init => DaysAhead /\ QuartersAhead
  BY InitAhead
<1>3. TypeOK /\ TypeOK' /\ DaysAhead /\ QuartersAhead /\ [Next]_vars => DaysAhead' /\ QuartersAhead'
  BY NextAhead
<1>4. TypeOK /\ TypeOK' /\ DaysAhead /\ QuartersAhead /\ CoverInv /\ [Next]_vars => CoverInv'
  BY NextCovers
<1>5. CoverInv => DetailCoversDay
  BY DEF CoverInv, Covered, DetailCoversDay
<1> QED
  BY <1>1, <1>2, <1>3, <1>4, <1>5, TypeCorrect, PTL DEF Spec

=============================================================================
