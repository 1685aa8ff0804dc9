------------------------------- MODULE Energy -------------------------------
(***************************************************************************)
(* The energy of a metered device: the meter's register, what the program  *)
(* makes of its reports (sensor::meter::Pro3EM), the counter of the day    *)
(* (energy::Counter), the histories by day and by quarter of an hour, and  *)
(* their rows, over days, synchronisations, failures of the database,      *)
(* reloads and restarts.                                                   *)
(*                                                                         *)
(* Only consumption is followed: excess and offload are counted and kept   *)
(* the same way, and an amount's division by tariff goes with it.  Reports *)
(* and synchronisations have the device's mutex.                           *)
(***************************************************************************)
EXTENDS Naturals

CONSTANTS MaxTime,    \* bound: quarters of an hour
          DayOf,      \* the day of each quarter, as a number
          DateOf,     \* the date of each day, which names its row
          MaxDays,    \* core.history.maxdays
          MaxEnergy,  \* bound: what is consumed
          MaxEnds,    \* bound: restarts
          MaxResets   \* bound: resets of the meter's register, reloads

Quarters == 0..MaxTime
Days  == {DayOf[q] : q \in Quarters}
Dates == {DateOf[d] : d \in Days}

ASSUME EnergyAssumption ==
  /\ MaxTime \in Nat /\ DayOf \in [Quarters -> Nat]
  /\ \A q, r \in Quarters : q <= r => DayOf[q] <= DayOf[r]
  /\ DateOf \in [Days -> Dates]
  /\ {MaxDays, MaxEnergy, MaxEnds, MaxResets} \subseteq Nat

ByDay == INSTANCE History WITH
  Periods <- Days, Names <- Dates, NameOf <- DateOf, Retention <- MaxDays

ByQuarter == INSTANCE History WITH
  Periods <- Quarters, Names <- Quarters, NameOf <- [q \in Quarters |-> q], Retention <- 0

VARIABLES now,                \* the present quarter of an hour
          register,           \* the meter's total
          last,               \* Pro3EM::last_energy_consumption
          last_yday, energy_consumption,   \* of the counter
          days, quarters,     \* its histories
          day_rows, quarter_rows,          \* t_log_energy, t_log_energy_detail
          consumed, counted,  \* ghosts: energy consumed, energy reported
          reported,           \* ghost: energy reported on each date
          failed,             \* ghost: the database has refused a row
          ends, resets

meter   == <<register, last>>
counter == <<last_yday, energy_consumption, days, quarters>>
rows    == <<day_rows, quarter_rows>>
ghosts  == <<consumed, counted, reported, failed>>
bounds  == <<ends, resets>>
vars == <<now, meter, counter, rows, ghosts, bounds>>

today == DayOf[now]

TypeOK ==
  /\ now \in Quarters /\ register \in Nat /\ last \in Nat
  /\ last_yday \in Days /\ energy_consumption \in Nat
  /\ days \in [Days -> Nat] /\ quarters \in [Quarters -> Nat]
  /\ day_rows \in [Dates -> Nat] /\ quarter_rows \in [Quarters -> Nat]
  /\ consumed \in Nat /\ counted \in Nat /\ reported \in [Dates -> Nat]
  /\ failed \in BOOLEAN /\ ends \in Nat /\ resets \in Nat

Init ==
  /\ now = 0 /\ register \in 0..1 /\ last = 0
  /\ last_yday = today /\ energy_consumption = 0
  /\ days = [d \in Days |-> 0] /\ quarters = [q \in Quarters |-> 0]
  /\ day_rows = [d \in Dates |-> 0] /\ quarter_rows = [q \in Quarters |-> 0]
  /\ consumed = 0 /\ counted = 0 /\ reported = [d \in Dates |-> 0] /\ failed = FALSE
  /\ ends = 0 /\ resets = 0

-----------------------------------------------------------------------------
(* The meter and the clock. *)

Tick ==
  /\ now < MaxTime
  /\ now' = now + 1
  /\ UNCHANGED <<meter, counter, rows, ghosts, bounds>>

Consume ==
  /\ consumed < MaxEnergy
  /\ register' = register + 1 /\ consumed' = consumed + 1
  /\ UNCHANGED <<now, last, counter, rows, counted, reported, failed, bounds>>

\* The register begins anew.
ResetRegister ==
  /\ resets < MaxResets
  /\ resets' = resets + 1
  /\ register' = 0
  /\ UNCHANGED <<now, last, counter, rows, ghosts, ends>>

\* A reload gives the device a new sensor.
ReloadSensor ==
  /\ resets < MaxResets
  /\ resets' = resets + 1
  /\ last' = 0
  /\ UNCHANGED <<now, register, counter, rows, ghosts, ends>>

-----------------------------------------------------------------------------
(* Counter::AddEnergy. *)

\* The entry of the day, then the days too old for the memory, up to one that
\* the database refuses.
AddToDay(amount, end) ==
  LET added == ByDay!Added(days, today, amount)
      gone  == ByDay!Upto(ByDay!Old(today), end)
  IN /\ day_rows' = ByDay!Stored(day_rows, added, gone)
     /\ days' = ByDay!Erased(added, gone)

\* Mutant: the quarters that are over are erased and not stored.
AddToQuarterErasing(amount, end) ==
  LET added == ByQuarter!Added(quarters, now, amount) IN
  /\ quarters' = ByQuarter!Erased(added, ByQuarter!Old(now))
  /\ UNCHANGED quarter_rows

AddToQuarter(amount, end) ==
  LET added == ByQuarter!Added(quarters, now, amount)
      gone  == ByQuarter!Upto(ByQuarter!Old(now), end)
  IN /\ quarter_rows' = ByQuarter!Stored(quarter_rows, added, gone)
     /\ quarters' = ByQuarter!Erased(added, gone)

\* The total of the day begins anew with the day's first report.
CountToday(amount) ==
  /\ last_yday' = today
  /\ energy_consumption' = amount + (IF last_yday = today THEN energy_consumption ELSE 0)

\* Where a pass over a history may end: before an entry the database refuses, or
\* after all of them.
Ends(history) == {p \in DOMAIN history : history[p] > 0}

\* purge throws before the quarter is counted, in it, or not at all.
AddEnergy(amount) ==
  /\ CountToday(amount)
  /\ \/ \E end \in Ends(days) \cap ByDay!Old(today) :
          /\ AddToDay(amount, end)
          /\ failed' = TRUE
          /\ UNCHANGED <<quarters, quarter_rows>>
     \/ /\ AddToDay(amount, today)
        /\ \/ \E end \in Ends(quarters) \cap ByQuarter!Old(now) :
                AddToQuarter(amount, end) /\ failed' = TRUE
           \/ AddToQuarter(amount, now) /\ UNCHANGED failed

\* Mutant: the first report counts for what the meter has ever measured.
DeltaFromZero == IF register < last THEN 0 ELSE register - last

\* What a report adds: a last value of 0 stands for none.
Delta == IF last = 0 \/ register < last THEN 0 ELSE register - last

\* A report of the register.  (One that is lost is made good by the next.)
Report ==
  /\ last' = register
  /\ IF Delta > 0
     THEN /\ AddEnergy(Delta)
          /\ counted' = counted + Delta
          /\ reported' = [reported EXCEPT ![DateOf[today]] = @ + Delta]
     ELSE UNCHANGED <<counter, rows, counted, reported, failed>>
  /\ UNCHANGED <<now, register, consumed, bounds>>

-----------------------------------------------------------------------------
(* Synchronisation and restarts. *)

\* Sync of the day's history: purge and save go through all its entries.
SyncDays(end) ==
  LET done == ByDay!Upto(Days, end) IN
  /\ day_rows' = ByDay!Stored(day_rows, days, done)
  /\ days' = ByDay!Erased(days, done \cap ByDay!Old(today))

SyncQuarters(end) ==
  LET done == ByQuarter!Upto(Quarters, end) IN
  /\ quarter_rows' = ByQuarter!Stored(quarter_rows, quarters, done)
  /\ quarters' = ByQuarter!Erased(quarters, done \cap ByQuarter!Old(now))

\* Counter::SyncHistory: the days, then the quarters, up to a refusal.
Sync ==
  /\ \/ \E end \in Ends(days) :
          SyncDays(end) /\ failed' = TRUE /\ UNCHANGED <<quarters, quarter_rows>>
     \/ /\ SyncDays(today + 1)
        /\ \/ \E end \in Ends(quarters) : SyncQuarters(end) /\ failed' = TRUE
           \/ SyncQuarters(now + 1) /\ UNCHANGED failed
  /\ UNCHANGED <<now, meter, last_yday, energy_consumption, consumed, counted,
                 reported, bounds>>

\* What the program ends with: the destructors save the quarters, then the days;
\* a kill saves nothing, a refused row ends the program before the rest.
SavedRows(dend, qend) ==
  /\ quarter_rows' = ByQuarter!Stored(quarter_rows, quarters, ByQuarter!Upto(Quarters, qend))
  /\ day_rows' = ByDay!Stored(day_rows, days, ByDay!Upto(Days, dend))

\* The counter a start builds from the rows.
LoadCounter ==
  /\ days' = ByDay!Loaded(day_rows', today)
  /\ quarters' = ByQuarter!Loaded(quarter_rows', now)
  /\ last_yday' = today /\ energy_consumption' = days'[today]
  /\ last' = 0

Restart ==
  /\ ends < MaxEnds
  /\ ends' = ends + 1
  /\ \/ SavedRows(today + 1, now + 1)
     \/ \E end \in Ends(quarters) : SavedRows(0, end)
     \/ \E end \in Ends(days) : SavedRows(end, now + 1)
  /\ LoadCounter
  /\ UNCHANGED <<now, register, ghosts, resets>>

\* The program is killed.
Kill ==
  /\ ends < MaxEnds
  /\ ends' = ends + 1
  /\ UNCHANGED rows
  /\ LoadCounter
  /\ UNCHANGED <<now, register, ghosts, resets>>

Next ==
  \/ Tick \/ Consume \/ ResetRegister \/ ReloadSensor \/ Report
  \/ Sync \/ Restart \/ Kill

Spec == Init /\ [][Next]_vars

-----------------------------------------------------------------------------
(* Properties. *)

\* No energy is counted twice, by the meter whose register begins anew, in
\* memory or in the database, over reloads, restarts and refused rows.
NothingTwice ==
  /\ counted <= consumed
  /\ \A d \in Days : days[d] <= reported[DateOf[d]]
  /\ \A n \in Dates : day_rows[n] <= reported[n]

\* A row that was written never gets less: what was saved of a day or a quarter
\* is not overwritten by what was added later, or loaded only in part.
RowsNeverShrink ==
  [][/\ \A n \in Dates : day_rows[n] <= day_rows'[n]
     /\ \A q \in Quarters : quarter_rows[q] <= quarter_rows'[q]]_vars

\* GetEnergyConsumption and the history of the day show the same, before and
\* after midnight, a restart or a failure.
Shown == IF last_yday = today THEN energy_consumption ELSE 0
TodayAgrees == Shown = days[today]

\* The amount of a quarter, or of a day, that the program knows or will know.
Kept(history, row) == IF history > 0 THEN history ELSE row

\* Unless the database has refused a row, the quarters of a day are worth at
\* least the day: a kill loses a part of the day, and of the quarters no more.
DayTotal(d) == Kept(days[d], day_rows[DateOf[d]])
DaySum(amounts, d) ==
  LET sum[q \in Quarters] == (IF q = 0 THEN 0 ELSE sum[q - 1])
                               + (IF DayOf[q] = d THEN amounts[q] ELSE 0)
  IN sum[MaxTime]
QuarterAmounts == [q \in Quarters |-> Kept(quarters[q], quarter_rows[q])]
DetailCoversDay ==
  ~ failed => \A d \in Days : DayTotal(d) <= DaySum(QuarterAmounts, d)

=============================================================================
