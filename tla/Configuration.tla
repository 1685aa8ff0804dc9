--------------------------- MODULE Configuration ----------------------------
(***************************************************************************)
(* A configuration part ("control"), of which one entry is followed:       *)
(* control.state.update_interval.  API workers set and reset it            *)
(* (api::Config), the part notifies its observers, the database keeps it   *)
(* for the next start, and the thread that polls the devices               *)
(* (SensorsManager, a WaiterThread) waits for that time.                   *)
(*                                                                         *)
(* Two of the observers keep the entry: "stats" reads the part under its   *)
(* own mutex; "poller" reads and stores without, and signals its thread.   *)
(* The others keep other entries of the part, and may only throw.  One of  *)
(* them, the AlgoOffload of the devices manager, comes and goes every      *)
(* second, while others walk the set of observers: a walk that meets a     *)
(* change of the set, or an object that is gone, ends the program, at any  *)
(* step of the walk, which is Restart here.                                *)
(*                                                                         *)
(* The lock of the part keeps its writers apart, not its readers: Get      *)
(* returns a reference, which is copied when the lock is free again or     *)
(* another's, and api::Config's get (GetAll) takes none.  So a value is    *)
(* read before it is checked, or while it is being assigned, when it may   *)
(* be anything; the getters throw what does not parse, out of              *)
(* notify_observers, and the observers that follow are not notified.       *)
(***************************************************************************)
EXTENDS Naturals

CONSTANTS Workers,       \* threads of API commands
          Values, Valid, \* of the entry: all, and those Check lets pass
          Master,        \* its value without database
          None,          \* no row; no thread
          Interrupted,   \* threads that may run the signal handler
          MaxOrders, MaxRestarts  \* bounds: API commands, restarts

ASSUME ConfigurationAssumption ==
  /\ Valid \subseteq Values /\ Master \in Valid
  /\ None \notin Values \cup Workers
  /\ Interrupted \subseteq {"main", "poller"}
  /\ MaxOrders \in Nat /\ MaxRestarts \in Nat

Observers == {"stats", "poller"}

VARIABLES entry,        \* ConfigurationPart::entries
          part_lock,    \* its holder
          stored,       \* t_config
          stats,        \* what Stats made of the entry
          state_update_interval,  \* the SensorsManager's
          pc, value, old, left, read,  \* of a worker
          at, seconds, notified, timeout, is_signaled, is_shutting_down,
          stuck,        \* the signal handler waits for its own thread
          solo,         \* the worker that has had the part for itself
          raced,        \* two commands overlapped, and none was alone since
          spoiled,      \* Stats read the entry during a command, or was left out
          orders, restarts

Poller == INSTANCE WaiterThread WITH Intervals <- Valid

poller  == <<at, seconds, notified, timeout, is_signaled, is_shutting_down>>
part    == <<entry, part_lock, stored>>
seen    == <<stats, state_update_interval>>
command == <<pc, value, old, left, read>>
ghosts  == <<solo, raced>>
bounds  == <<orders, restarts>>
vars == <<part, seen, command, poller, stuck, ghosts, spoiled, bounds>>

Steps == {"idle", "assign", "check", "restore", "notify", "read", "store", "signal",
          "database"}

TypeOK ==
  /\ entry \in Values /\ part_lock \in Workers \cup {None}
  /\ stored \in Values \cup {None}
  /\ stats \in Values /\ state_update_interval \in Values
  /\ pc \in [Workers -> Steps] /\ value \in [Workers -> Values \cup {None}]
  /\ old \in [Workers -> Values] /\ left \in [Workers -> SUBSET Observers]
  /\ read \in [Workers -> Values]
  /\ Poller!TypeOK
  /\ stuck \in BOOLEAN /\ spoiled \in BOOLEAN
  /\ solo \in Workers \cup {None} /\ raced \in BOOLEAN
  /\ orders \in 0..MaxOrders /\ restarts \in 0..MaxRestarts

\* The value a start begins with: ConfigurationReaderDB reads what is stored.
AtStart(row) == IF row = None THEN Master ELSE row

Begun(row) ==
  /\ entry' = AtStart(row) /\ stats' = AtStart(row)
  /\ state_update_interval' = AtStart(row)
  /\ at' = "work" /\ seconds' = AtStart(row) /\ notified' = FALSE /\ timeout' = FALSE
  /\ is_signaled' = FALSE /\ is_shutting_down' = FALSE

Init ==
  /\ entry = Master /\ part_lock = None /\ stored = None
  /\ stats = Master /\ state_update_interval = Master
  /\ pc = [w \in Workers |-> "idle"] /\ value = [w \in Workers |-> None]
  /\ old = [w \in Workers |-> Master] /\ read = [w \in Workers |-> Master]
  /\ left = [w \in Workers |-> {}]
  /\ Poller!Init(Master)
  /\ stuck = FALSE /\ spoiled = FALSE /\ solo = None /\ raced = FALSE
  /\ orders = 0 /\ restarts = 0

Goto(w, step) == pc' = [pc EXCEPT ![w] = step]

-----------------------------------------------------------------------------
(* The API worker. *)

\* SetCheck and Set take the lock, which they hold until the value is accepted or
\* put back.  A command begins alone or while others are in progress.
Begin(w, v) ==
  /\ pc[w] = "idle" /\ orders < MaxOrders /\ part_lock = None
  /\ orders' = orders + 1
  /\ value' = [value EXCEPT ![w] = v]
  /\ old' = [old EXCEPT ![w] = entry]
  /\ part_lock' = w
  /\ Goto(w, "assign")
  /\ LET alone == \A u \in Workers \ {w} : pc[u] = "idle" IN
       /\ solo' = IF alone THEN w ELSE None
       /\ raced' = (raced \/ ~ alone)
  /\ UNCHANGED <<entry, stored, seen, left, read, poller, stuck, spoiled, restarts>>

Set(w, v) == Begin(w, v)
Reset(w)  == Begin(w, None)

Accept(w) ==
  /\ part_lock' = None
  /\ Goto(w, "notify") /\ left' = [left EXCEPT ![w] = Observers]
  /\ old' = [old EXCEPT ![w] = Master]

\* The value is in the part before it is checked; a default needs no check.
Assign(w) ==
  /\ pc[w] = "assign"
  /\ entry' = AtStart(value[w])
  /\ \/ value[w] # None /\ Goto(w, "check") /\ UNCHANGED <<part_lock, left, old>>
     \/ value[w] = None /\ Accept(w)
  /\ UNCHANGED <<stored, seen, value, read, poller, stuck, ghosts, spoiled, bounds>>

Check(w) ==
  /\ pc[w] = "check"
  /\ \/ entry \in Valid /\ Accept(w)
     \/ entry \notin Valid /\ Goto(w, "restore") /\ UNCHANGED <<part_lock, left, old>>
  /\ UNCHANGED <<entry, stored, seen, value, read, poller, stuck, ghosts, spoiled, bounds>>

\* Mutant: the refused value stays.
RestoreForgotten(w) ==
  /\ pc[w] = "restore"
  /\ part_lock' = None
  /\ Goto(w, "idle")
  /\ old' = [old EXCEPT ![w] = Master] /\ value' = [value EXCEPT ![w] = None]
  /\ UNCHANGED <<entry, stored, seen, left, read, poller, stuck, ghosts, spoiled, bounds>>

\* The check throws: the former value is put back, and the client is told.
Restore(w) ==
  /\ pc[w] = "restore"
  /\ entry' = old[w]
  /\ part_lock' = None
  /\ Goto(w, "idle")
  /\ old' = [old EXCEPT ![w] = Master] /\ value' = [value EXCEPT ![w] = None]
  /\ UNCHANGED <<stored, seen, left, read, poller, stuck, ghosts, spoiled, bounds>>

\* What a reader may find: anything while the entry is being assigned.
Readable == IF \E w \in Workers : pc[w] \in {"assign", "restore"} THEN Values ELSE {entry}

\* What the getters answer; they throw the rest.
Answers == Readable \cap Valid

\* The observers are notified one by one, without any lock; each reads the
\* part, whose value may be a later one by then.
Notifies(w, o) ==
  /\ pc[w] = "notify" /\ o \in left[w]
  /\ left' = [left EXCEPT ![w] = @ \ {o}]

\* Mutant: Stats takes the value of the command that notifies it.
NotifyStatsOfOwn(w) ==
  /\ Notifies(w, "stats")
  /\ stats' = AtStart(value[w])
  /\ spoiled' = (part_lock # None)
  /\ UNCHANGED <<part, state_update_interval, pc, value, old, read,
                 poller, stuck, ghosts, bounds>>

NotifyStats(w) ==
  /\ Notifies(w, "stats")
  /\ stats' \in Answers
  /\ spoiled' = (part_lock # None)
  /\ UNCHANGED <<part, state_update_interval, pc, value, old, read,
                 poller, stuck, ghosts, bounds>>

\* SensorsManager compares the entry with its interval, ...
NotifyPoller(w) ==
  /\ Notifies(w, "poller")
  /\ \E v \in Answers : Goto(w, IF v = state_update_interval THEN "notify" ELSE "read")
  /\ UNCHANGED <<part, seen, value, old, read, poller, stuck, ghosts, spoiled, bounds>>

\* ... reads it again, ...
Read(w) ==
  /\ pc[w] = "read"
  /\ \E v \in Answers : read' = [read EXCEPT ![w] = v]
  /\ Goto(w, "store")
  /\ UNCHANGED <<part, seen, value, old, left, poller, stuck, ghosts, spoiled, bounds>>

\* An observer, of this entry or another, reads what does not parse, and throws out
\* of notify_observers: those that follow are left out, the row is not written, and
\* the client is told of an error.
Throw(w) ==
  /\ pc[w] \in {"notify", "read"}
  /\ ~ Readable \subseteq Valid
  /\ spoiled' = (spoiled \/ "stats" \in left[w])
  /\ left' = [left EXCEPT ![w] = {}]
  /\ value' = [value EXCEPT ![w] = None]
  /\ Goto(w, "idle")
  /\ UNCHANGED <<part, seen, old, read, poller, stuck, ghosts, bounds>>

\* ... stores what it has read ...
StoreInterval(w) ==
  /\ pc[w] = "store"
  /\ state_update_interval' = read[w]
  /\ read' = [read EXCEPT ![w] = Master]
  /\ Goto(w, "signal")
  /\ UNCHANGED <<part, stats, value, old, left, poller, stuck, ghosts, spoiled, bounds>>

\* ... and signals its thread.
SignalPoller(w) ==
  /\ pc[w] = "signal"
  /\ Poller!Signal
  /\ Goto(w, "notify")
  /\ UNCHANGED <<part, seen, value, old, left, read, stuck, ghosts, spoiled, bounds>>

Notified(w) ==
  /\ pc[w] = "notify" /\ left[w] = {}
  /\ Goto(w, "database")
  /\ UNCHANGED <<part, seen, value, old, left, read, poller, stuck,
                 ghosts, spoiled, bounds>>

\* The row is written, or deleted by a reset, when memory has long changed.
StoreRow(w) ==
  /\ pc[w] = "database"
  /\ stored' = value[w]
  /\ Goto(w, "idle")
  /\ raced' = (raced /\ solo # w)
  /\ value' = [value EXCEPT ![w] = None]
  /\ UNCHANGED <<entry, part_lock, seen, old, left, read, poller,
                 stuck, solo, spoiled, bounds>>

\* The database throws: the client is told of an error, memory has changed.
LoseRow(w) ==
  /\ pc[w] = "database"
  /\ Goto(w, "idle")
  /\ raced' = (raced /\ solo # w)
  /\ value' = [value EXCEPT ![w] = None]
  /\ UNCHANGED <<part, seen, old, left, read, poller, stuck, solo, spoiled, bounds>>

WorkerStep(w) ==
  \/ Assign(w) \/ Check(w) \/ Restore(w)
  \/ NotifyStats(w) \/ NotifyPoller(w) \/ Read(w) \/ Throw(w)
  \/ StoreInterval(w) \/ SignalPoller(w) \/ Notified(w) \/ StoreRow(w)

-----------------------------------------------------------------------------
(* The poller. *)

Thread == UNCHANGED <<part, seen, command, stuck, ghosts, spoiled, bounds>>

\* It has polled, and waits for what is the interval now.
PollerCall == ~ stuck /\ Poller!Call(state_update_interval) /\ Thread

PollerStep == ~ stuck /\ Poller!Step /\ Thread

PollerTimeout == ~ stuck /\ Poller!WakeTimeout /\ Thread

PollerSpurious == ~ stuck /\ Poller!WakeSpurious /\ Thread

\* SIGINT and SIGTERM: thread t runs the handler, which shuts the poller down
\* (and the two other threads of main's loop).
Handle(t) ==
  /\ t \in Interrupted /\ ~ is_shutting_down /\ ~ stuck /\ at # "ended"
  /\ \/ Poller!Shutdown /\ UNCHANGED stuck
     \/ /\ t = "poller" /\ Poller!Locked
        /\ stuck' = TRUE
        /\ UNCHANGED poller
  /\ UNCHANGED <<part, seen, command, ghosts, spoiled, bounds>>

-----------------------------------------------------------------------------
\* No command is in progress.
Idle ==
  /\ pc' = [w \in Workers |-> "idle"] /\ value' = [w \in Workers |-> None]
  /\ old' = [w \in Workers |-> Master] /\ read' = [w \in Workers |-> Master]
  /\ left' = [w \in Workers |-> {}]

\* The program ends or is killed at any point, and starts again.
Restart ==
  /\ restarts < MaxRestarts
  /\ restarts' = restarts + 1
  /\ Begun(stored)
  /\ part_lock' = None
  /\ Idle
  /\ stuck' = FALSE /\ spoiled' = FALSE /\ solo' = None /\ raced' = FALSE
  /\ UNCHANGED <<stored, orders>>

Next ==
  \/ \E w \in Workers : \/ \E v \in Values : Set(w, v)
                         \/ Reset(w) \/ WorkerStep(w) \/ LoseRow(w)
  \/ PollerCall \/ PollerStep \/ PollerTimeout \/ PollerSpurious
  \/ \E t \in Interrupted : Handle(t)
  \/ Restart

\* Threads go on; no wait is sure to end by its time, which may be long.
Fairness ==
  /\ \A w \in Workers : WF_vars(WorkerStep(w))
  /\ WF_vars(PollerCall \/ PollerStep)

Spec == Init /\ [][Next]_vars /\ Fairness

-----------------------------------------------------------------------------
(* Properties. *)

\* A value that Check refuses is read by others before it is put back, but never
\* stays: not in the part once its lock is free, not with an observer, whose getter
\* throws it, not in the database, whoever sets and reads meanwhile.
CheckedValuesOnly ==
  /\ part_lock = None => entry \in Valid
  /\ {stats, state_update_interval} \cup {stored} \subseteq Valid \cup {None}

\* When every notification is done, Stats has the latest value, whatever the order in
\* which two changes were notified, unless it read the entry during a command or was
\* left out by a getter that threw; the poller, which reads without a mutex, has it
\* unless two commands overlapped.
ObserversFollow ==
  (\A w \in Workers : pc[w] \in {"idle", "database"}) =>
    /\ ~ spoiled => stats = entry
    /\ ~ raced => state_update_interval = entry

\* The poller ends when it is told to, without waiting for the interval, and
\* whatever signals, spurious wake-ups and changes come at the same time.
\* (Told: a signal was received since the last start.)
Told == is_shutting_down \/ stuck
PollerStops == Told ~> at = "ended" \/ ~ Told

=============================================================================
