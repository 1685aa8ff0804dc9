------------------------ MODULE ConfigurationProofs -------------------------
(***************************************************************************)
(* Proofs about a configuration part and its observers (Configuration),    *)
(* for any workers and values and any number of commands and restarts.     *)
(***************************************************************************)
EXTENDS Configuration, TLAPS

-----------------------------------------------------------------------------
(* Values that were checked. *)

\* A worker changes the entry, under the lock of the part.
Writing(w) == pc[w] \in {"assign", "check", "restore"}

\* The lock is that of the one worker that changes the entry, and that can put a
\* checked value back; what is accepted, read or to be stored was checked before.
ValueInv ==
  /\ part_lock \in Workers \cup {None}
  /\ pc \in [Workers -> Steps] /\ value \in [Workers -> Values \cup {None}]
  /\ old \in [Workers -> Values] /\ read \in [Workers -> Values]
  /\ left \in [Workers -> SUBSET Observers]
  /\ \A w \in Workers : /\ Writing(w) <=> part_lock = w
                        /\ Writing(w) => old[w] \in Valid
                        /\ pc[w] = "check" => value[w] = entry
                        /\ pc[w] # "idle" /\ ~ Writing(w) => value[w] \in Valid \cup {None}
                        /\ read[w] \in Valid
  /\ entry \in Values
  /\ part_lock = None => entry \in Valid
  /\ stats \in Valid /\ state_update_interval \in Valid
  /\ stored \in Valid \cup {None}

LEMMA InitValue == ASSUME Init PROVE ValueInv
BY ConfigurationAssumption DEF Init, ValueInv, Writing, Steps

\* What leaves the part, the observers, the row and the workers as they are.
LEMMA ValueStays ==
  ASSUME ValueInv, UNCHANGED <<part, seen, command>> PROVE ValueInv'
BY DEF ValueInv, Writing, part, seen, command

LEMMA NextValue == ASSUME ValueInv, [Next]_vars PROVE ValueInv'
<1> USE ConfigurationAssumption DEF part, seen, ghosts, bounds
<1>stay. UNCHANGED <<part, seen, command>> => ValueInv'
  BY ValueStays
<1>1. ASSUME NEW w \in Workers, NEW v \in Values \cup {None}, Begin(w, v) PROVE ValueInv'
  <2>1. /\ pc[w] = "idle" /\ part_lock = None /\ part_lock' = w
        /\ pc' = [pc EXCEPT ![w] = "assign"] /\ value' = [value EXCEPT ![w] = v]
        /\ old' = [old EXCEPT ![w] = entry]
        /\ UNCHANGED <<entry, read, left, stored, stats, state_update_interval>>
    BY <1>1 DEF Begin, Goto
  <2>2. \A u \in Workers : ~ Writing(u)  BY <2>1 DEF ValueInv
  <2> QED  BY <2>1, <2>2 DEF ValueInv, Writing, Steps
\* The end of a change: the value is accepted, or the former one put back.
<1>free. ASSUME NEW w \in Workers, Writing(w), part_lock' = None, entry' \in Valid,
                NEW step \in {"notify", "idle"}, pc' = [pc EXCEPT ![w] = step],
                old' = [old EXCEPT ![w] = Master],
                left' \in [Workers -> SUBSET Observers],
                NEW v \in Values \cup {None}, value' = [value EXCEPT ![w] = v],
                step = "notify" => v \in Valid \cup {None},
                UNCHANGED <<read, stored, stats, state_update_interval>>
         PROVE  ValueInv'
  <2>1. part_lock = w /\ \A u \in Workers \ {w} : ~ Writing(u)
    BY <1>free DEF ValueInv
  <2> QED  BY <1>free, <2>1 DEF ValueInv, Writing, Steps
<1>2. ASSUME NEW w \in Workers, Assign(w) PROVE ValueInv'
  <2>1. /\ pc[w] = "assign" /\ Writing(w) /\ part_lock = w /\ entry' = AtStart(value[w])
        /\ \A u \in Workers \ {w} : ~ Writing(u)
        /\ UNCHANGED <<value, read, stored, stats, state_update_interval>>
    BY <1>2 DEF Assign, ValueInv, Writing
  <2>2. CASE value[w] # None /\ Goto(w, "check") /\ UNCHANGED <<part_lock, left, old>>
    <3>1. entry' = value[w] /\ pc' = [pc EXCEPT ![w] = "check"]
      BY <2>1, <2>2 DEF AtStart, Goto
    <3> QED  BY <2>1, <2>2, <3>1 DEF ValueInv, Writing, Steps
  <2>3. CASE value[w] = None /\ Accept(w)
    <3>1. /\ entry' = Master /\ part_lock' = None /\ pc' = [pc EXCEPT ![w] = "notify"]
          /\ old' = [old EXCEPT ![w] = Master] /\ left' = [left EXCEPT ![w] = Observers]
          /\ value' = [value EXCEPT ![w] = None]
      BY <2>1, <2>3 DEF AtStart, Accept, Goto, ValueInv
    <3>2. left' \in [Workers -> SUBSET Observers]
      BY <3>1 DEF ValueInv
    <3> QED  BY <1>free, <2>1, <3>1, <3>2
  <2> QED  BY <1>2, <2>2, <2>3 DEF Assign
<1>3. ASSUME NEW w \in Workers, Check(w) PROVE ValueInv'
  <2>1. /\ pc[w] = "check" /\ Writing(w) /\ value[w] = entry
        /\ \A u \in Workers \ {w} : ~ Writing(u)
        /\ UNCHANGED <<entry, value, read, stored, stats, state_update_interval>>
    BY <1>3 DEF Check, ValueInv, Writing
  <2>2. CASE entry \in Valid /\ Accept(w)
    <3>1. /\ part_lock' = None /\ pc' = [pc EXCEPT ![w] = "notify"]
          /\ old' = [old EXCEPT ![w] = Master] /\ left' = [left EXCEPT ![w] = Observers]
          /\ value' = [value EXCEPT ![w] = value[w]]
      BY <2>1, <2>2 DEF Accept, Goto, ValueInv
    <3>2. left' \in [Workers -> SUBSET Observers]
      BY <3>1 DEF ValueInv
    <3> QED  BY <1>free, <2>1, <2>2, <3>1, <3>2
  <2>3. CASE Goto(w, "restore") /\ UNCHANGED <<part_lock, left, old>>
    BY <2>1, <2>3 DEF Goto, ValueInv, Writing, Steps
  <2> QED  BY <1>3, <2>2, <2>3 DEF Check
<1>4. ASSUME NEW w \in Workers, Restore(w) PROVE ValueInv'
  <2>1. Writing(w) /\ old[w] \in Valid
    BY <1>4 DEF Restore, ValueInv, Writing
  <2>2. /\ part_lock' = None /\ entry' \in Valid /\ pc' = [pc EXCEPT ![w] = "idle"]
        /\ old' = [old EXCEPT ![w] = Master] /\ left' \in [Workers -> SUBSET Observers]
        /\ value' = [value EXCEPT ![w] = None]
        /\ UNCHANGED <<read, stored, stats, state_update_interval>>
    BY <1>4, <2>1 DEF Restore, Goto, ValueInv
  <2> QED  BY <1>free, <2>1, <2>2
\* A step of a worker that does not write, which keeps the part.
<1>reads. ASSUME NEW w \in Workers, pc[w] # "idle", ~ Writing(w), UNCHANGED <<entry, part_lock, old>>,
                 NEW step \in Steps \ {"assign", "check", "restore"},
                 pc' = [pc EXCEPT ![w] = step],
                 left' \in [Workers -> SUBSET Observers],
                 NEW v \in Valid \cup {None}, value' = [value EXCEPT ![w] = v],
                 NEW r \in Valid, read' = [read EXCEPT ![w] = r],
                 stats' \in Valid, state_update_interval' \in Valid,
                 stored' \in Valid \cup {None}
          PROVE  ValueInv'
  BY <1>reads DEF ValueInv, Writing, Steps
<1>same. ASSUME NEW w \in Workers, pc[w] # "idle", ~ Writing(w)
         PROVE  /\ value = [value EXCEPT ![w] = value[w]] /\ value[w] \in Valid \cup {None}
                /\ read = [read EXCEPT ![w] = read[w]] /\ read[w] \in Valid
                /\ left \in [Workers -> SUBSET Observers]
                /\ stats \in Valid /\ state_update_interval \in Valid
                /\ stored \in Valid \cup {None}
  BY <1>same DEF ValueInv
<1>5. ASSUME NEW w \in Workers, NotifyStats(w) \/ NotifyPoller(w) PROVE ValueInv'
  <2>1. pc[w] = "notify" /\ pc[w] # "idle" /\ ~ Writing(w)
    BY <1>5 DEF NotifyStats, NotifyPoller, Notifies, Writing
  <2>2. PICK step \in {"notify", "read"} : pc' = [pc EXCEPT ![w] = step]
    BY <1>5, <2>1 DEF NotifyStats, NotifyPoller, Goto, ValueInv
  <2>3. /\ stats' \in {stats} \cup Valid /\ left' \in [Workers -> SUBSET Observers]
        /\ UNCHANGED <<entry, part_lock, stored, value, old, read, state_update_interval>>
    BY <1>5 DEF NotifyStats, NotifyPoller, Notifies, Answers, ValueInv
  <2>4. step \in Steps \ {"assign", "check", "restore"}  BY DEF Steps
  <2> QED  BY <1>reads, <1>same, <2>1, <2>2, <2>3, <2>4
<1>6. ASSUME NEW w \in Workers, Read(w) PROVE ValueInv'
  <2>1. pc[w] # "idle" /\ ~ Writing(w) /\ pc' = [pc EXCEPT ![w] = "store"]
    BY <1>6 DEF Read, Goto, Writing
  <2>2. PICK v \in Valid : read' = [read EXCEPT ![w] = v]
    BY <1>6 DEF Read, Answers
  <2>3. UNCHANGED <<entry, part_lock, stored, stats, state_update_interval, value, old, left>>
    BY <1>6 DEF Read
  <2>4. "store" \in Steps \ {"assign", "check", "restore"}  BY DEF Steps
  <2> QED  BY <1>reads, <1>same, <2>1, <2>2, <2>3, <2>4
<1>7. ASSUME NEW w \in Workers, Throw(w) PROVE ValueInv'
  <2>1. pc[w] # "idle" /\ ~ Writing(w) /\ pc' = [pc EXCEPT ![w] = "idle"]
    BY <1>7 DEF Throw, Goto, Writing
  <2>2. /\ left' \in [Workers -> SUBSET Observers] /\ value' = [value EXCEPT ![w] = None]
        /\ UNCHANGED <<entry, part_lock, stored, stats, state_update_interval, old, read>>
    BY <1>7 DEF Throw, ValueInv
  <2>3. "idle" \in Steps \ {"assign", "check", "restore"}  BY DEF Steps
  <2> QED  BY <1>reads, <1>same, <2>1, <2>2, <2>3
<1>8. ASSUME NEW w \in Workers, StoreInterval(w) PROVE ValueInv'
  <2>1. pc[w] # "idle" /\ ~ Writing(w) /\ pc' = [pc EXCEPT ![w] = "signal"]
    BY <1>8 DEF StoreInterval, Goto, Writing
  <2>2. /\ state_update_interval' = read[w] /\ read' = [read EXCEPT ![w] = Master]
        /\ UNCHANGED <<entry, part_lock, stored, stats, value, old, left>>
    BY <1>8 DEF StoreInterval
  <2>3. "signal" \in Steps \ {"assign", "check", "restore"}  BY DEF Steps
  <2> QED  BY <1>reads, <1>same, <2>1, <2>2, <2>3
<1>9. ASSUME NEW w \in Workers, SignalPoller(w) \/ Notified(w) PROVE ValueInv'
  <2>1. PICK step \in {"notify", "database"} : pc' = [pc EXCEPT ![w] = step]
    BY <1>9 DEF SignalPoller, Notified, Goto
  <2>2. /\ pc[w] # "idle" /\ ~ Writing(w)
        /\ UNCHANGED <<entry, part_lock, stored, stats, state_update_interval, value, old, left, read>>
    BY <1>9 DEF SignalPoller, Notified, Writing
  <2>3. step \in Steps \ {"assign", "check", "restore"}  BY DEF Steps
  <2> QED  BY <1>reads, <1>same, <2>1, <2>2, <2>3
<1>10. ASSUME NEW w \in Workers, StoreRow(w) \/ LoseRow(w) PROVE ValueInv'
  <2>1. pc[w] # "idle" /\ ~ Writing(w) /\ pc' = [pc EXCEPT ![w] = "idle"]
    BY <1>10 DEF StoreRow, LoseRow, Goto, Writing
  <2>2. /\ stored' \in {stored, value[w]} /\ value' = [value EXCEPT ![w] = None]
        /\ UNCHANGED <<entry, part_lock, stats, state_update_interval, old, left, read>>
    BY <1>10 DEF StoreRow, LoseRow
  <2>3. "idle" \in Steps \ {"assign", "check", "restore"}  BY DEF Steps
  <2> QED  BY <1>reads, <1>same, <2>1, <2>2, <2>3
<1>11. CASE PollerCall \/ PollerStep \/ PollerTimeout \/ PollerSpurious
  BY <1>11, <1>stay DEF PollerCall, PollerStep, PollerTimeout, PollerSpurious, Thread
<1>12. ASSUME NEW t \in Interrupted, Handle(t) PROVE ValueInv'
  BY <1>12, <1>stay DEF Handle
<1>13. CASE Restart
  <2>1. AtStart(stored) \in Valid  BY DEF AtStart, ValueInv
  <2>2. /\ part_lock' = None /\ entry' \in Valid /\ stats' \in Valid
        /\ state_update_interval' \in Valid /\ stored' = stored
        /\ pc' = [w \in Workers |-> "idle"] /\ left' = [w \in Workers |-> {}]
        /\ value' = [w \in Workers |-> None]
        /\ old' = [w \in Workers |-> Master] /\ read' = [w \in Workers |-> Master]
    BY <1>13, <2>1 DEF Restart, Begun, Idle
  <2> QED  BY <2>2 DEF ValueInv, Writing, Steps
<1>14. CASE UNCHANGED vars  BY <1>14, <1>stay DEF vars
<1>15. ASSUME NEW w \in Workers, NEW v \in Values, Set(w, v) PROVE ValueInv'
  BY <1>1, <1>15 DEF Set
<1>16. ASSUME NEW w \in Workers, Reset(w) PROVE ValueInv'
  BY <1>1, <1>16 DEF Reset
<1> QED
  BY <1>2, <1>3, <1>4, <1>5, <1>6, <1>7, <1>8, <1>9, <1>10, <1>11, <1>12, <1>13, <1>14,
     <1>15, <1>16 DEF Next, WorkerStep

THEOREM ValuesAreRight == Spec => []ValueInv
BY InitValue, NextValue, PTL DEF Spec

\* A value that Check refuses stays nowhere, whoever sets and reads meanwhile: not in
\* the part once its lock is free, not with an observer, not in the database.
THEOREM RefusedValuesAreNotKept == Spec => []CheckedValuesOnly
<1>1. ValueInv => CheckedValuesOnly
  BY DEF ValueInv, CheckedValuesOnly
<1> QED  BY <1>1, ValuesAreRight, PTL

-----------------------------------------------------------------------------
(* Type correctness. *)

LEMMA NextType == ASSUME TypeOK, ValueInv, [Next]_vars PROVE TypeOK'
<1> USE ConfigurationAssumption DEF part, seen, command, ghosts, bounds, poller
<1>v. ValueInv'
  BY NextValue
<1> DEFINE Rest == /\ Poller!TypeOK
                   /\ stuck \in BOOLEAN /\ spoiled \in BOOLEAN
                   /\ solo \in Workers \cup {None} /\ raced \in BOOLEAN
                   /\ orders \in 0..MaxOrders /\ restarts \in 0..MaxRestarts
<1>r. Rest
  BY DEF TypeOK
<1>t. state_update_interval \in Valid /\ AtStart(stored) \in Valid
  BY DEF ValueInv, AtStart
<1>1. ASSUME NEW w \in Workers, NEW v \in Values \cup {None}, Begin(w, v)
      PROVE  Rest'
  BY <1>1, <1>r DEF Begin, Poller!TypeOK
<1>2. ASSUME UNCHANGED <<poller, stuck, solo, bounds>>, raced' \in BOOLEAN, spoiled' \in BOOLEAN
      PROVE  Rest'
  BY <1>2, <1>r DEF Poller!TypeOK
<1>3. ASSUME Poller!TypeOK', UNCHANGED <<ghosts, spoiled, bounds>>, stuck' \in BOOLEAN
      PROVE  Rest'
  BY <1>3, <1>r
<1>4. ASSUME NEW w \in Workers, WorkerStep(w) \/ LoseRow(w) PROVE Rest'
  <2>1. CASE SignalPoller(w)
    <3>1. Poller!TypeOK'  BY <1>r, <2>1 DEF SignalPoller, Poller!Signal, Poller!Notify, Poller!TypeOK
    <3> QED  BY <1>3, <1>r, <2>1, <3>1 DEF SignalPoller
  <2>2. CASE NotifyStats(w) \/ Throw(w)
    <3>1. UNCHANGED <<poller, stuck, solo, raced, bounds>> /\ spoiled' \in BOOLEAN
      BY <1>r, <2>2 DEF NotifyStats, Throw
    <3> QED  BY <1>2, <1>r, <3>1
  <2>3. CASE StoreRow(w) \/ LoseRow(w)
    <3>1. UNCHANGED <<poller, stuck, solo, spoiled, bounds>> /\ raced' \in BOOLEAN
      BY <1>r, <2>3 DEF StoreRow, LoseRow
    <3> QED  BY <1>2, <1>r, <3>1
  <2>4. CASE \/ Assign(w) \/ Check(w) \/ Restore(w) \/ NotifyPoller(w) \/ Read(w)
             \/ StoreInterval(w) \/ Notified(w)
    <3>1. UNCHANGED <<poller, stuck, solo, raced, spoiled, bounds>>
      BY <2>4 DEF Assign, Check, Restore, NotifyPoller, Read, StoreInterval, Notified
    <3> QED  BY <1>2, <1>r, <3>1
  <2> QED  BY <1>4, <2>1, <2>2, <2>3, <2>4 DEF WorkerStep
<1>6. ASSUME PollerCall \/ PollerStep \/ PollerTimeout \/ PollerSpurious PROVE Rest'
  <2>1. Poller!TypeOK'
    BY <1>6, <1>r, <1>t DEF PollerCall, PollerStep, PollerTimeout, PollerSpurious, Poller!Call,
       Poller!Step, Poller!Lock, Poller!Wait, Poller!WakeNotified, Poller!Return,
       Poller!WakeTimeout, Poller!WakeSpurious, Poller!TypeOK
  <2> QED
    BY <1>3, <1>6, <1>r, <2>1 DEF PollerCall, PollerStep, PollerTimeout, PollerSpurious, Thread
<1>7. ASSUME NEW t \in Interrupted, Handle(t) PROVE Rest'
  <2>1. Poller!TypeOK' /\ stuck' \in BOOLEAN
    BY <1>7, <1>r DEF Handle, Poller!Shutdown, Poller!Notify, Poller!TypeOK
  <2> QED  BY <1>3, <1>7, <1>r, <2>1 DEF Handle
<1>8. ASSUME Restart PROVE Rest'
  <2>1. restarts' \in 0..MaxRestarts  BY <1>8, <1>r DEF Restart
  <2> QED  BY <1>8, <1>r, <1>t, <2>1 DEF Restart, Begun, Poller!TypeOK
<1>9. ASSUME UNCHANGED vars PROVE Rest'
  BY <1>9, <1>r DEF vars, Poller!TypeOK
<1>10. ASSUME NEW w \in Workers, NEW v \in Values, Set(w, v) PROVE Rest'
  BY <1>1, <1>10 DEF Set
<1>11. ASSUME NEW w \in Workers, Reset(w) PROVE Rest'
  BY <1>1, <1>11 DEF Reset
<1>12. Rest'
  BY <1>4, <1>6, <1>7, <1>8, <1>9, <1>10, <1>11 DEF Next
<1> QED
  BY <1>v, <1>12 DEF TypeOK, ValueInv

THEOREM TypeCorrect == Spec => []TypeOK
<1>1. Init => TypeOK
  <2>1. Init => Poller!TypeOK
    BY ConfigurationAssumption DEF Init, Poller!Init, Poller!TypeOK
  <2>2. Master \in Values /\ 0 \in 0..MaxOrders /\ 0 \in 0..MaxRestarts
    BY ConfigurationAssumption
  <2> QED  BY <2>1, <2>2 DEF Init, TypeOK, Steps
<1> QED
  BY <1>1, NextType, ValuesAreRight, PTL DEF Spec

-----------------------------------------------------------------------------
(* Observers that follow. *)

\* The value in force: the one before, while a new one is being checked.
Settled == IF part_lock = None THEN entry ELSE old[part_lock]

\* A worker walks the observers, ...
Walking(w) == pc[w] \in {"notify", "read", "store", "signal"}

\* ... and has still to notify o.
Pending(o) == \E w \in Workers : Walking(w) /\ o \in left[w]

StatsInv == spoiled \/ stats = Settled \/ Pending("stats")

\* Worker w, which is alone, has not come to the poller, or has given it the value.
Follows(w) ==
  /\ Writing(w) /\ ~ raced => state_update_interval = old[w]
  /\ pc[w] = "notify" /\ "poller" \notin left[w] => state_update_interval = entry
  /\ pc[w] = "store" => read[w] = entry
  /\ pc[w] \in {"signal", "database"} => state_update_interval = entry

PollerInv ==
  /\ \A w \in Workers : solo = w /\ pc[w] # "idle" => \A u \in Workers \ {w} : pc[u] = "idle"
  /\ ~ raced => \A w \in Workers : pc[w] # "idle" => solo = w
  /\ ~ raced /\ (\A w \in Workers : pc[w] = "idle") => state_update_interval = entry
  /\ \A w \in Workers : solo = w => Follows(w)

LEMMA InitFollow == ASSUME Init PROVE StatsInv /\ PollerInv
BY ConfigurationAssumption DEF Init, StatsInv, PollerInv, Settled, Pending, Follows, Writing

\* A step that leaves the value in force, and no observer out.
LEMMA StatsStay ==
  ASSUME StatsInv, stats' = stats, Settled' = Settled, spoiled => spoiled',
         \A w \in Workers : Walking(w) => Walking(w)' /\ left[w] \subseteq left'[w] \cup {"poller"}
  PROVE  StatsInv'
BY DEF StatsInv, Pending

LEMMA NextStats == ASSUME ValueInv, StatsInv, [Next]_vars PROVE StatsInv'
<1> USE DEF part, seen, command, ghosts, bounds
<1>t. /\ pc \in [Workers -> Steps] /\ left \in [Workers -> SUBSET Observers]
      /\ part_lock \in Workers \cup {None} /\ None \notin Workers
      /\ old \in [Workers -> Values]
      /\ \A w \in Workers : Writing(w) <=> part_lock = w
  BY ConfigurationAssumption DEF ValueInv
<1>stay. UNCHANGED <<part, seen, command, spoiled>> => StatsInv'
  BY DEF StatsInv, Settled, Pending, Walking
<1>1. ASSUME NEW w \in Workers, NEW v, Begin(w, v) PROVE StatsInv'
  <2>1. /\ pc[w] = "idle" /\ part_lock = None /\ part_lock' = w
        /\ pc' = [pc EXCEPT ![w] = "assign"] /\ old' = [old EXCEPT ![w] = entry]
        /\ UNCHANGED <<left, stats, spoiled>>
    BY <1>1 DEF Begin, Goto
  <2>2. Settled' = Settled  BY <1>t, <2>1 DEF Settled
  <2> QED  BY <1>t, <2>1, <2>2, StatsStay DEF Walking
\* An accepted value is one to notify.
<1>accept. ASSUME NEW w \in Workers, Accept(w) PROVE StatsInv'
  <2>1. pc'[w] = "notify" /\ left'[w] = Observers
    BY <1>accept, <1>t DEF Accept, Goto
  <2> QED  BY <2>1 DEF StatsInv, Pending, Walking, Observers
\* The lock stays with a worker that writes, whose former value is the one in force.
<1>write. ASSUME NEW w \in Workers, Writing(w), NEW step \in {"check", "restore"},
                 Goto(w, step), UNCHANGED <<part_lock, left, old, stats, spoiled>>
          PROVE  StatsInv'
  <2>1. Settled' = Settled  BY <1>t, <1>write DEF Settled
  <2>2. pc' = [pc EXCEPT ![w] = step]  BY <1>write DEF Goto
  <2> QED  BY <1>t, <1>write, <2>1, <2>2, StatsStay DEF Walking, Writing
<1>2. ASSUME NEW w \in Workers, Assign(w) PROVE StatsInv'
  BY <1>2, <1>accept, <1>write DEF Assign, Writing
<1>3. ASSUME NEW w \in Workers, Check(w) PROVE StatsInv'
  BY <1>3, <1>accept, <1>write DEF Check, Writing
<1>4. ASSUME NEW w \in Workers, Restore(w) PROVE StatsInv'
  <2>1. /\ pc[w] = "restore" /\ pc' = [pc EXCEPT ![w] = "idle"]
        /\ entry' = old[w] /\ part_lock' = None /\ UNCHANGED <<left, stats, spoiled>>
    BY <1>4 DEF Restore, Goto
  <2>2. part_lock = w  BY <1>t, <2>1 DEF Writing
  <2>3. Settled' = Settled  BY <1>t, <2>1, <2>2 DEF Settled
  <2> QED  BY <1>t, <2>1, <2>3, StatsStay DEF Walking
<1>5. ASSUME NEW w \in Workers, NotifyStats(w) PROVE StatsInv'
  <2>1. /\ UNCHANGED <<part_lock, entry>> /\ stats' \in Answers
        /\ spoiled' <=> part_lock # None
    BY <1>5 DEF NotifyStats
  <2>2. CASE part_lock = None
    <3>1. Answers \subseteq {entry}
      BY <1>t, <2>2 DEF Answers, Readable, Writing
    <3> QED  BY <2>1, <2>2, <3>1 DEF StatsInv, Settled
  <2> QED  BY <2>1, <2>2 DEF StatsInv
<1>6. ASSUME NEW w \in Workers, NotifyPoller(w) PROVE StatsInv'
  <2>1. /\ pc[w] = "notify" /\ left' = [left EXCEPT ![w] = @ \ {"poller"}]
        /\ UNCHANGED <<entry, part_lock, old, stats, spoiled>>
    BY <1>6 DEF NotifyPoller, Notifies
  <2>2. PICK step \in {"notify", "read"} : pc' = [pc EXCEPT ![w] = step]
    BY <1>6 DEF NotifyPoller, Goto
  <2>3. Settled' = Settled  BY <2>1 DEF Settled
  <2> QED  BY <1>t, <2>1, <2>2, <2>3, StatsStay DEF Walking
<1>7. ASSUME NEW w \in Workers, Read(w) \/ StoreInterval(w) \/ SignalPoller(w) PROVE StatsInv'
  <2>1. /\ pc[w] \in {"read", "store", "signal"}
        /\ UNCHANGED <<entry, part_lock, old, stats, left, spoiled>>
    BY <1>7 DEF Read, StoreInterval, SignalPoller
  <2>2. PICK step \in {"notify", "store", "signal"} : pc' = [pc EXCEPT ![w] = step]
    BY <1>7 DEF Read, StoreInterval, SignalPoller, Goto
  <2>3. Settled' = Settled  BY <2>1 DEF Settled
  <2> QED  BY <1>t, <2>1, <2>2, <2>3, StatsStay DEF Walking
<1>8. ASSUME NEW w \in Workers, Throw(w) PROVE StatsInv'
  <2>1. /\ pc[w] \in {"notify", "read"} /\ pc' = [pc EXCEPT ![w] = "idle"]
        /\ left' = [left EXCEPT ![w] = {}]
        /\ spoiled' = (spoiled \/ "stats" \in left[w])
        /\ UNCHANGED <<entry, part_lock, old, stats>>
    BY <1>8 DEF Throw, Goto
  <2>2. Settled' = Settled /\ \A u \in Workers \ {w} : pc'[u] = pc[u] /\ left'[u] = left[u]
    BY <1>t, <2>1 DEF Settled
  <2> QED  BY <1>t, <2>1, <2>2 DEF StatsInv, Pending, Walking
<1>9. ASSUME NEW w \in Workers, Notified(w) \/ StoreRow(w) \/ LoseRow(w) PROVE StatsInv'
  <2>1. /\ (pc[w] = "notify" /\ left[w] = {}) \/ pc[w] = "database"
        /\ UNCHANGED <<entry, part_lock, old, stats, left, spoiled>>
    BY <1>9 DEF Notified, StoreRow, LoseRow
  <2>2. Settled' = Settled /\ \A u \in Workers \ {w} : pc'[u] = pc[u]
    BY <1>9, <1>t, <2>1 DEF Settled, Notified, StoreRow, LoseRow, Goto
  <2> QED  BY <1>t, <2>1, <2>2 DEF StatsInv, Pending, Walking
<1>10. CASE PollerCall \/ PollerStep \/ PollerTimeout \/ PollerSpurious
  BY <1>10, <1>stay DEF PollerCall, PollerStep, PollerTimeout, PollerSpurious, Thread
<1>11. ASSUME NEW t \in Interrupted, Handle(t) PROVE StatsInv'
  BY <1>11, <1>stay DEF Handle
<1>12. CASE Restart
  BY <1>12 DEF Restart, Begun, StatsInv, Settled
<1>13. CASE UNCHANGED vars  BY <1>13, <1>stay DEF vars
<1>14. ASSUME NEW w \in Workers, NEW v \in Values, Set(w, v) PROVE StatsInv'
  BY <1>1, <1>14 DEF Set
<1>15. ASSUME NEW w \in Workers, Reset(w) PROVE StatsInv'
  BY <1>1, <1>15 DEF Reset
<1> QED
  BY <1>2, <1>3, <1>4, <1>5, <1>6, <1>7, <1>8, <1>9, <1>10, <1>11, <1>12, <1>13, <1>14, <1>15
  DEF Next, WorkerStep

LEMMA NextPoller == ASSUME ValueInv, PollerInv, [Next]_vars PROVE PollerInv'
<1> USE DEF part, seen, command, ghosts, bounds
<1>t. /\ pc \in [Workers -> Steps] /\ left \in [Workers -> SUBSET Observers]
      /\ part_lock \in Workers \cup {None} /\ None \notin Workers
      /\ old \in [Workers -> Values] /\ read \in [Workers -> Values]
      /\ \A w \in Workers : Writing(w) <=> part_lock = w
  BY ConfigurationAssumption DEF ValueInv
<1>stay. UNCHANGED <<part, seen, command, ghosts>> => PollerInv'
  BY DEF PollerInv, Follows, Writing
\* A worker that is alone and does not write finds the entry as it is.
<1>alone. ASSUME NEW w \in Workers, solo = w, pc[w] # "idle", ~ Writing(w)
          PROVE  Readable = {entry} /\ Answers \subseteq {entry} /\ entry \in Valid
  <2>1. \A u \in Workers : ~ Writing(u)
    BY <1>alone DEF PollerInv, Writing
  <2>2. part_lock = None  BY <1>t, <2>1
  <2>3. Readable = {entry}  BY <2>1 DEF Readable, Writing
  <2> QED  BY <2>2, <2>3 DEF Answers, ValueInv
\* A step of one worker that is busy before and after it.
<1>busy. ASSUME NEW w \in Workers, pc[w] # "idle", pc'[w] # "idle",
                pc' = [pc EXCEPT ![w] = pc'[w]],
                left' = [left EXCEPT ![w] = left'[w]],
                read' = [read EXCEPT ![w] = read'[w]],
                UNCHANGED <<solo, raced>>,
                solo = w => Follows(w)'
         PROVE  PollerInv'
  <2>1. \A u \in Workers : pc[u] = "idle" <=> pc'[u] = "idle"
    BY <1>t, <1>busy
  <2>2. ASSUME NEW u \in Workers \ {w}, solo = u PROVE Follows(u)'
    <3>1. pc[u] = "idle"  BY <1>busy, <2>2 DEF PollerInv
    <3>2. pc'[u] = "idle"  BY <2>1, <3>1
    <3> QED  BY <3>2 DEF Follows, Writing
  <2> QED  BY <1>busy, <2>1, <2>2 DEF PollerInv
\* One that ends while others may be busy.
<1>end. ASSUME NEW w \in Workers, pc[w] # "idle", pc' = [pc EXCEPT ![w] = "idle"],
               UNCHANGED <<solo, state_update_interval>>, raced => raced' \/ solo = w,
               solo = w => state_update_interval = entry' \/ raced', ~ raced => solo = w
        PROVE  PollerInv'
  <2>1. pc'[w] = "idle" /\ \A u \in Workers \ {w} : pc'[u] = pc[u]
    BY <1>t, <1>end
  <2>2. ASSUME NEW u \in Workers, solo = u PROVE Follows(u)'
    <3>1. pc'[u] = "idle"  BY <1>end, <2>1, <2>2 DEF PollerInv
    <3> QED  BY <3>1 DEF Follows, Writing
  <2>3. CASE solo = w
    <3>1. \A u \in Workers : pc'[u] = "idle"
      BY <1>end, <2>1, <2>3 DEF PollerInv
    <3> QED  BY <1>end, <2>2, <2>3, <3>1 DEF PollerInv
  <2>4. CASE solo # w
    <3>1. raced'  BY <1>end, <2>4
    <3> QED  BY <1>end, <2>1, <2>2, <3>1 DEF PollerInv
  <2> QED  BY <2>3, <2>4
<1>solo. ASSUME NEW w \in Workers, pc[w] # "idle" PROVE ~ raced => solo = w
  BY <1>solo DEF PollerInv
<1>1. ASSUME NEW w \in Workers, NEW v, Begin(w, v) PROVE PollerInv'
  <2> DEFINE alone == \A u \in Workers \ {w} : pc[u] = "idle"
  <2>1. /\ pc[w] = "idle" /\ pc' = [pc EXCEPT ![w] = "assign"]
        /\ old' = [old EXCEPT ![w] = entry]
        /\ solo' = (IF alone THEN w ELSE None) /\ raced' = (raced \/ ~ alone)
        /\ UNCHANGED <<left, read, state_update_interval>>
    BY <1>1 DEF Begin, Goto
  <2>2. \A u \in Workers \ {w} : pc'[u] = pc[u]  BY <1>t, <2>1
  <2>3. CASE alone
    <3>1. solo' = w /\ (raced' <=> raced) /\ pc'[w] = "assign" /\ old'[w] = entry
      BY <1>t, <2>1, <2>3
    <3>2. ~ raced' => state_update_interval' = old'[w]
      BY <2>1, <2>3, <3>1 DEF PollerInv
    <3> QED  BY <2>2, <2>3, <3>1, <3>2 DEF PollerInv, Follows
  <2>4. CASE ~ alone
    <3>1. solo' = None /\ raced'  BY <2>1, <2>4
    <3> QED  BY <1>t, <3>1 DEF PollerInv
  <2> QED  BY <2>3, <2>4
\* An accepted value is one to notify.
<1>accept. ASSUME NEW w \in Workers, Writing(w), Accept(w), UNCHANGED <<read, ghosts>>
           PROVE  PollerInv'
  <2>1. /\ pc[w] # "idle" /\ pc' = [pc EXCEPT ![w] = "notify"]
        /\ left' = [left EXCEPT ![w] = Observers]
    BY <1>accept DEF Accept, Goto, Writing
  <2>2. pc'[w] = "notify" /\ "poller" \in left'[w]
    BY <1>t, <2>1 DEF Observers
  <2>3. Follows(w)'  BY <2>2 DEF Follows, Writing
  <2> QED  BY <1>accept, <1>busy, <1>t, <2>1, <2>2, <2>3
\* The former value stays until it is put back.
<1>write. ASSUME NEW w \in Workers, Writing(w), NEW step \in {"check", "restore"}, Goto(w, step),
                 UNCHANGED <<left, old, read, ghosts, state_update_interval>>
          PROVE  PollerInv'
  <2>1. pc[w] # "idle" /\ pc' = [pc EXCEPT ![w] = step] /\ pc'[w] = step
    BY <1>t, <1>write DEF Goto, Writing
  <2>2. solo = w => Follows(w)'
    BY <1>write, <2>1 DEF PollerInv, Follows, Writing
  <2> QED  BY <1>busy, <1>t, <1>write, <2>1, <2>2
<1>2. ASSUME NEW w \in Workers, Assign(w) PROVE PollerInv'
  BY <1>2, <1>accept, <1>write DEF Assign, Writing
<1>3. ASSUME NEW w \in Workers, Check(w) PROVE PollerInv'
  BY <1>3, <1>accept, <1>write DEF Check, Writing
<1>4. ASSUME NEW w \in Workers, Restore(w) PROVE PollerInv'
  <2>1. /\ pc[w] = "restore" /\ pc' = [pc EXCEPT ![w] = "idle"] /\ entry' = old[w]
        /\ UNCHANGED <<solo, raced, state_update_interval>>
    BY <1>4 DEF Restore, Goto
  <2>2. solo = w => state_update_interval = entry' \/ raced'
    BY <2>1 DEF PollerInv, Follows, Writing
  <2> QED  BY <1>end, <1>solo, <2>1, <2>2
<1>5. ASSUME NEW w \in Workers, NotifyStats(w) PROVE PollerInv'
  <2>1. /\ pc[w] = "notify" /\ pc' = pc /\ left' = [left EXCEPT ![w] = @ \ {"stats"}]
        /\ UNCHANGED <<read, solo, raced, entry, state_update_interval>>
    BY <1>5 DEF NotifyStats, Notifies
  <2>2. solo = w => Follows(w)'
    BY <1>t, <2>1 DEF PollerInv, Follows, Writing
  <2> QED  BY <1>busy, <1>t, <2>1, <2>2
<1>6. ASSUME NEW w \in Workers, NotifyPoller(w) PROVE PollerInv'
  <2>1. /\ pc[w] = "notify" /\ left' = [left EXCEPT ![w] = @ \ {"poller"}]
        /\ UNCHANGED <<read, solo, raced, entry, state_update_interval>>
    BY <1>6 DEF NotifyPoller, Notifies
  <2>2. PICK v \in Answers : pc' = [pc EXCEPT ![w] = IF v = state_update_interval
                                                     THEN "notify" ELSE "read"]
    BY <1>6 DEF NotifyPoller, Goto
  <2>3. solo = w => v = entry
    BY <1>alone, <2>1 DEF Writing
  <2>4. solo = w => Follows(w)'
    BY <1>t, <2>1, <2>2, <2>3 DEF Follows, Writing
  <2> QED  BY <1>busy, <1>t, <2>1, <2>2, <2>4
<1>7. ASSUME NEW w \in Workers, Read(w) PROVE PollerInv'
  <2>1. /\ pc[w] = "read" /\ pc' = [pc EXCEPT ![w] = "store"]
        /\ UNCHANGED <<left, solo, raced, entry>>
    BY <1>7 DEF Read, Goto
  <2>2. PICK v \in Answers : read' = [read EXCEPT ![w] = v]
    BY <1>7 DEF Read
  <2>3. solo = w => v = entry
    BY <1>alone, <2>1 DEF Writing
  <2>4. solo = w => Follows(w)'  BY <1>t, <2>1, <2>2, <2>3 DEF Follows, Writing
  <2> QED  BY <1>busy, <1>t, <2>1, <2>2, <2>4
<1>8. ASSUME NEW w \in Workers, Throw(w) PROVE PollerInv'
  <2>1. /\ pc[w] \in {"notify", "read"} /\ pc' = [pc EXCEPT ![w] = "idle"]
        /\ ~ Readable \subseteq Valid /\ UNCHANGED <<solo, raced, state_update_interval>>
    BY <1>8 DEF Throw, Goto
  <2>2. solo # w  BY <1>alone, <2>1 DEF Writing
  <2> QED  BY <1>end, <1>solo, <2>1, <2>2
<1>9. ASSUME NEW w \in Workers, StoreInterval(w) PROVE PollerInv'
  <2>1. /\ pc[w] = "store" /\ pc' = [pc EXCEPT ![w] = "signal"]
        /\ read' = [read EXCEPT ![w] = Master] /\ state_update_interval' = read[w]
        /\ UNCHANGED <<left, solo, raced, entry>>
    BY <1>9 DEF StoreInterval, Goto
  <2>2. solo = w => Follows(w)'  BY <1>t, <2>1 DEF PollerInv, Follows, Writing
  <2> QED  BY <1>busy, <1>t, <2>1, <2>2
<1>10. ASSUME NEW w \in Workers, SignalPoller(w) \/ Notified(w) PROVE PollerInv'
  <2>1. /\ \/ pc[w] = "signal" /\ pc' = [pc EXCEPT ![w] = "notify"]
           \/ /\ pc[w] = "notify" /\ left[w] = {}
              /\ pc' = [pc EXCEPT ![w] = "database"]
        /\ UNCHANGED <<left, read, solo, raced, entry, state_update_interval>>
    BY <1>10 DEF SignalPoller, Notified, Goto
  <2>2. solo = w => Follows(w)'  BY <1>t, <2>1 DEF PollerInv, Follows, Writing
  <2> QED  BY <1>busy, <1>t, <2>1, <2>2
<1>11. ASSUME NEW w \in Workers, StoreRow(w) \/ LoseRow(w) PROVE PollerInv'
  <2>1. /\ pc[w] = "database" /\ pc' = [pc EXCEPT ![w] = "idle"]
        /\ raced' = (raced /\ solo # w)
        /\ UNCHANGED <<solo, entry, state_update_interval>>
    BY <1>11 DEF StoreRow, LoseRow, Goto
  <2>2. solo = w => state_update_interval = entry'
    BY <2>1 DEF PollerInv, Follows
  <2>3. raced => raced' \/ solo = w  BY <2>1
  <2> QED  BY <1>end, <1>solo, <2>1, <2>2, <2>3
<1>12. CASE PollerCall \/ PollerStep \/ PollerTimeout \/ PollerSpurious
  BY <1>12, <1>stay DEF PollerCall, PollerStep, PollerTimeout, PollerSpurious, Thread
<1>13. ASSUME NEW t \in Interrupted, Handle(t) PROVE PollerInv'
  BY <1>13, <1>stay DEF Handle
<1>14. CASE Restart
  <2>1. pc' = [w \in Workers |-> "idle"] /\ state_update_interval' = entry'
    BY <1>14 DEF Restart, Begun, Idle
  <2> QED  BY <2>1 DEF PollerInv, Follows, Writing
<1>15. CASE UNCHANGED vars  BY <1>15, <1>stay DEF vars
<1>16. ASSUME NEW w \in Workers, NEW v \in Values, Set(w, v) PROVE PollerInv'
  BY <1>1, <1>16 DEF Set
<1>17. ASSUME NEW w \in Workers, Reset(w) PROVE PollerInv'
  BY <1>1, <1>17 DEF Reset
<1> QED
  BY <1>2, <1>3, <1>4, <1>5, <1>6, <1>7, <1>8, <1>9, <1>10, <1>11, <1>12, <1>13, <1>14, <1>15,
     <1>16, <1>17 DEF Next, WorkerStep

\* When nobody notifies any more, the observer with a mutex has the value in force,
\* unless it read during a command or was left out; the one without has it unless two
\* commands overlapped.
THEOREM ObserversHaveTheValue == Spec => []ObserversFollow
<1>1. ASSUME ValueInv, StatsInv, PollerInv PROVE ObserversFollow
  <2> SUFFICES ASSUME \A w \in Workers : pc[w] \in {"idle", "database"}
               PROVE  /\ ~ spoiled => stats = entry
                      /\ ~ raced => state_update_interval = entry
    BY DEF ObserversFollow
  <2>1. part_lock = None  BY <1>1 DEF ValueInv, Writing
  <2>2. ~ spoiled => stats = entry
    BY <1>1, <2>1 DEF StatsInv, Settled, Pending, Walking
  <2>3. ASSUME ~ raced PROVE state_update_interval = entry
    <3>1. CASE \A w \in Workers : pc[w] = "idle"  BY <1>1, <2>3, <3>1 DEF PollerInv
    <3>2. ASSUME NEW w \in Workers, pc[w] = "database" PROVE state_update_interval = entry
      BY <1>1, <2>3, <3>2 DEF PollerInv, Follows
    <3> QED  BY <3>1, <3>2
  <2> QED  BY <2>2, <2>3
<1> QED
  BY <1>1, InitFollow, NextStats, NextPoller, ValuesAreRight, PTL DEF Spec

=============================================================================
