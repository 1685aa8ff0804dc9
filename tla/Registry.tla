------------------------------ MODULE Registry ------------------------------
(***************************************************************************)
(* The devices in memory (device::Devices), their rows in the database,    *)
(* their sensors' subscriptions (mqtt::Client), the queue of MQTT messages *)
(* and its dispatcher, from one start of the program to the next.          *)
(*                                                                         *)
(* A device is referred to by shared pointers: the map holds one, and so   *)
(* does every thread that works with it.  Whoever lets go of the last one  *)
(* runs the destructor.  A device's configuration is replaced, never       *)
(* changed: each reload builds new sensors, subscribed before the          *)
(* configuration is in force; the former ones unsubscribe when the last    *)
(* thread that looks at the former configuration is done with it.          *)
(*                                                                         *)
(* Of a configuration only the topic of its sensor is kept.  What a device *)
(* does with an event is the subject of module OnOff.                      *)
(***************************************************************************)
EXTENDS Naturals, Sequences

CONSTANTS Ids,        \* identifiers of t_device
          Topics,     \* MQTT topics
          Workers,    \* threads of API commands, one per connection
          Installed,  \* rows of the first start, of type [Ids -> Topics \cup {None}]
          None,       \* no row, no configuration, no message, no device
          Stop,       \* the message that tells the dispatcher to end
          MaxOrders,  \* bound: API commands of a behaviour
          MaxQueue,   \* bound: messages in the queue when another arrives
          Rounds,     \* bound: which of poller and syncer go through the devices
          MaxFaults   \* bound: crashes and lost connections of a behaviour

\* poller: SensorsManager; syncer: HistorySync, both go through all devices.
Threads == Workers \cup {"poller", "syncer", "dispatcher", "main"}

VARIABLES rows,        \* t_device: the stored topic of each device, or None
          unused,      \* identifiers AUTO_INCREMENT has not given yet
          devices,     \* Devices::devices, as the set of its keys
          deleted,     \* the objects whose deleted flag is set
          config,      \* of each object, its configuration's subscriber
          built,       \* of each device, how many sensors it was given
          subscribers, \* Client::subscribers
          broker,      \* the topics the MQTT server sends us
          connected,   \* whether there is a connection to the MQTT server
          batch,       \* message_callback: subscribers not yet in the queue
          queue,       \* Client::msg_queue
          pc, refs,    \* of each thread, where it is, which objects it holds
          job,         \* of each worker, the command it carries out
          msg,         \* the dispatcher's message
          todo, held,  \* the poller's devices to come, the configuration it reads
          orders, faults  \* counters of the bounds

database == <<rows, unused>>
objects  == <<devices, deleted, config, built>>
mqtt     == <<subscribers, broker, connected>>
messages == <<batch, queue, msg>>
polling  == <<todo, held>>
bounds   == <<orders, faults>>
vars == <<database, objects, mqtt, messages, pc, refs, job, polling, bounds>>

\* An MQTTSubscriber.  Sensor::id_sequence gives every sensor another number;
\* here they are numbered by device.
Subscriber == [topic : Topics, device : Ids, sensor : Nat]
Row == [device : Ids, topic : Topics]

ASSUME RegistryAssumption ==
  /\ Installed \in [Ids -> Topics \cup {None}]
  /\ None \notin Ids \cup Topics \cup Subscriber
  /\ Stop \notin Subscriber \cup {None}
  /\ Workers \cap {"poller", "syncer", "dispatcher", "main"} = {}
  /\ Rounds \subseteq {"poller", "syncer"}
  /\ MaxOrders \in Nat /\ MaxQueue \in Nat /\ MaxFaults \in Nat

\* What a worker remembers of its command: the device, the topic to store or in
\* force, the devices of setprio still to store, the rows still to reload and
\* the subscriber prepared for the device being reloaded.
Job == [device : Ids \cup {None}, topic : Topics \cup {None}, left : SUBSET Ids,
        todo : SUBSET Row, new : Subscriber \cup {None}]
NoJob == [device |-> None, topic |-> None, left |-> {}, todo |-> {}, new |-> None]

WorkerSteps == {"idle", "load", "insert", "update", "prio", "read", "write", "written",
                "select", "next", "prepare", "store", "reloaded", "release", "deleting"}
Steps == [poller     |-> {"idle", "poll", "polling", "release", "ended"},
          syncer     |-> {"idle", "release"},
          dispatcher |-> {"pop", "dispatch", "release", "ended"},
          main       |-> {"run", "threads", "mqtt", "ws", "release", "unloaded", "exit"}]

TypeOK ==
  /\ rows \in [Ids -> Topics \cup {None}] /\ unused \subseteq Ids
  /\ devices \subseteq Ids /\ deleted \subseteq Ids
  /\ config \in [Ids -> Subscriber \cup {None}] /\ built \in [Ids -> Nat]
  /\ subscribers \subseteq Subscriber /\ broker \subseteq Topics
  /\ connected \in BOOLEAN
  /\ batch \subseteq Subscriber /\ queue \in Seq(Subscriber \cup {Stop})
  /\ msg \in Subscriber \cup {None}
  /\ \A w \in Workers : pc[w] \in WorkerSteps \cup {"down", "aborted"}
  /\ \A t \in DOMAIN Steps : pc[t] \in Steps[t] \cup {"down", "aborted"}
  /\ DOMAIN pc = Threads
  /\ refs \in [Threads -> SUBSET Ids] /\ job \in [Workers -> Job]
  /\ todo \subseteq Ids /\ held \in Subscriber \cup {None}
  /\ orders \in 0..MaxOrders /\ faults \in 0..MaxFaults

Up == pc["main"] \notin {"down", "aborted"}
At(t, step) == pc[t] = step
Goto(t, step) == pc' = [pc EXCEPT ![t] = step]

\* mutex_w: Delete holds it alone until its own pointer is gone.
Unlocked == \A w \in Workers : ~ At(w, "deleting")

\* Device::lock is held from Prepare to the switch of configuration.
Free(d) == \A w \in Workers : ~ (At(w, "store") /\ job[w].device = d)

\* The pointers to an object other than thread t's.
Shared(t, d) == d \in devices \/ \E u \in Threads \ {t} : d \in refs[u]

-----------------------------------------------------------------------------
(* mqtt::Client: subscriptions. *)

\* Without client (see Overrun) nobody can subscribe.
Subscribe(s) ==
  /\ ~ At("main", "exit")
  /\ subscribers' = subscribers \cup {s}
  /\ broker' = IF connected /\ \A o \in subscribers : o.topic # s.topic
                 THEN broker \cup {s.topic} ELSE broker
  /\ UNCHANGED connected

\* Mutant: the topic is unsubscribed although others listen to it.
UnsubscribeTopic(s) ==
  /\ subscribers' = subscribers \ {s}
  /\ broker' = broker \ {s.topic}
  /\ UNCHANGED connected

Unsubscribe(s) ==
  /\ subscribers' = subscribers \ {s}
  /\ broker' = IF \A o \in subscribers \ {s} : o.topic # s.topic
                 THEN broker \ {s.topic} ELSE broker
  /\ UNCHANGED connected

\* The connection is lost: the session is a clean one, the server forgets it.
Disconnect ==
  /\ connected /\ faults < MaxFaults /\ faults' = faults + 1
  /\ connected' = FALSE /\ broker' = {}
  /\ UNCHANGED <<database, objects, subscribers, messages, pc, refs, job, polling, orders>>

\* Mutant: a reconnection does not subscribe again.
ConnectOnly ==
  /\ ~ connected /\ pc["main"] \in {"run", "threads"}
  /\ connected' = TRUE
  /\ UNCHANGED <<database, objects, subscribers, broker, messages, pc, refs, job,
                 polling, bounds>>

\* connect_callback
Connect ==
  /\ ~ connected /\ pc["main"] \in {"run", "threads"}
  /\ connected' = TRUE /\ broker' = {s.topic : s \in subscribers}
  /\ UNCHANGED <<database, objects, subscribers, messages, pc, refs, job, polling, bounds>>

\* message_callback, under the lock: who is concerned by a message.
Arrive(topic) ==
  /\ topic \in broker /\ batch = {} /\ Len(queue) < MaxQueue
  /\ batch' = {s \in subscribers : s.topic = topic}
  /\ UNCHANGED <<database, objects, mqtt, queue, msg, pc, refs, job, polling, bounds>>

\* message_callback, without it: one message for each.
Push(s) ==
  /\ s \in batch /\ batch' = batch \ {s}
  /\ queue' = Append(queue, s)
  /\ UNCHANGED <<database, objects, mqtt, msg, pc, refs, job, polling, bounds>>

-----------------------------------------------------------------------------
(* Letting go of devices. *)

\* Where a worker goes when it holds nothing any more: setprio goes on to the next
\* device and then to the reload, and a reload to the next row.
Onward(w) ==
  CASE At(w, "written") -> IF job[w].left = {} THEN "select" ELSE "prio"
    [] At(w, "reloaded") -> IF job[w].todo = {} THEN "idle" ELSE "next"
    [] OTHER -> "idle"

After(t) ==
  CASE t \in Workers -> Onward(t)
    [] t \in {"poller", "syncer"} -> "idle"
    [] t = "dispatcher" -> "pop"
    [] t = "main" -> "unloaded"

LeaveRef(t, d) ==
  /\ refs' = [refs EXCEPT ![t] = @ \ {d}]
  /\ IF refs[t] = {d} THEN Goto(t, After(t)) ELSE UNCHANGED pc
  /\ IF At(t, "reloaded") /\ After(t) = "idle"
       THEN job' = [job EXCEPT ![t] = NoJob] ELSE UNCHANGED job

\* A pointer that is not the last one.
LetGo(t, d) ==
  /\ d \in refs[t] /\ Shared(t, d)
  /\ LeaveRef(t, d)
  /\ UNCHANGED <<database, objects, mqtt, messages, polling, bounds>>

\* ~Device: a deleted device removes its rows.
EraseRows(t, d) ==
  /\ d \in refs[t] /\ ~ Shared(t, d)
  /\ d \in deleted /\ rows[d] # None
  /\ rows' = [rows EXCEPT ![d] = None]
  /\ UNCHANGED <<unused, objects, mqtt, messages, pc, refs, job, polling, bounds>>

\* Mutant: a deleted object goes without its rows.
DestroyOnly(t, d) ==
  /\ d \in refs[t] /\ ~ Shared(t, d)
  /\ LeaveRef(t, d)
  /\ deleted' = deleted \ {d} /\ config' = [config EXCEPT ![d] = None]
  /\ Unsubscribe(config[d])
  /\ UNCHANGED <<database, devices, built, messages, polling, bounds>>

\* Mutant: ~Sensor does not unsubscribe.
DestroySubscribed(t, d) ==
  /\ d \in refs[t] /\ ~ Shared(t, d) /\ (d \in deleted => rows[d] = None)
  /\ LeaveRef(t, d)
  /\ deleted' = deleted \ {d} /\ config' = [config EXCEPT ![d] = None]
  /\ UNCHANGED <<database, devices, built, mqtt, messages, polling, bounds>>

\* Then the members go: the configuration and ~Sensor, which unsubscribes.
Destroy(t, d) ==
  /\ d \in refs[t] /\ ~ Shared(t, d) /\ (d \in deleted => rows[d] = None)
  /\ LeaveRef(t, d)
  /\ deleted' = deleted \ {d} /\ config' = [config EXCEPT ![d] = None]
  /\ Unsubscribe(config[d])
  /\ UNCHANGED <<database, devices, built, messages, polling, bounds>>

Release(t) ==
  /\ pc[t] \in {"release", "deleting", "reloaded", "written"}
  /\ \E d \in Ids : LetGo(t, d) \/ EraseRows(t, d) \/ Destroy(t, d)

-----------------------------------------------------------------------------
(* API commands. *)

\* The server takes commands until it is shut down.
Command(w) ==
  /\ At(w, "idle") /\ pc["main"] \in {"run", "threads", "mqtt"}
  /\ orders < MaxOrders /\ orders' = orders + 1
  /\ UNCHANGED faults

\* insert_device: the row is stored first.
Create(w, d, topic) ==
  /\ Command(w) /\ d \in unused
  /\ unused' = unused \ {d} /\ rows' = [rows EXCEPT ![d] = topic]
  /\ job' = [job EXCEPT ![w] = [NoJob EXCEPT !.device = d, !.topic = topic]]
  /\ Goto(w, "load")
  /\ UNCHANGED <<objects, mqtt, messages, refs, polling>>

NewSubscriber(d, topic) == [topic |-> topic, device |-> d, sensor |-> built[d] + 1]

\* DeviceFactory::Get: the object is made and its sensor subscribed.
Load(w) ==
  LET d == job[w].device  s == NewSubscriber(d, job[w].topic) IN
  /\ At(w, "load")
  /\ config' = [config EXCEPT ![d] = s] /\ built' = [built EXCEPT ![d] = @ + 1]
  /\ Subscribe(s)
  /\ refs' = [refs EXCEPT ![w] = {d}] /\ Goto(w, "insert")
  /\ UNCHANGED <<database, devices, deleted, messages, job, polling, bounds>>

\* It throws, before or after the sensor is subscribed: the row stays.
LoadFails(w) ==
  /\ pc[w] \in {"load", "insert"}
  /\ job' = [job EXCEPT ![w] = NoJob]
  /\ Goto(w, IF At(w, "load") THEN "idle" ELSE "release")
  /\ UNCHANGED <<database, objects, mqtt, messages, refs, polling, bounds>>

\* Devices::Load: only now the others can find it.
Insert(w) ==
  /\ At(w, "insert") /\ Unlocked
  /\ devices' = devices \cup {job[w].device}
  /\ job' = [job EXCEPT ![w] = NoJob] /\ Goto(w, "release")
  /\ UNCHANGED <<database, deleted, config, built, mqtt, messages, refs, polling, bounds>>

\* set, whose device must exist when the command is checked, and setenabled, whose
\* need not.
Set(w, d, topic) ==
  /\ Command(w)
  /\ job' = [job EXCEPT ![w] = [NoJob EXCEPT !.device = d, !.topic = topic]]
  /\ Goto(w, "update")
  /\ UNCHANGED <<database, objects, mqtt, messages, refs, polling>>

\* Mutant: the row is replaced, and so comes back when it was deleted meanwhile.
ReplaceDevice(w) ==
  /\ At(w, "update")
  /\ rows' = [rows EXCEPT ![job[w].device] = job[w].topic]
  /\ Goto(w, "select")
  /\ UNCHANGED <<unused, objects, mqtt, messages, refs, job, polling, bounds>>

\* update_device: without effect when the row is gone.
UpdateDevice(w) ==
  LET d == job[w].device IN
  /\ At(w, "update")
  /\ rows' = [rows EXCEPT ![d] = IF @ = None THEN None ELSE job[w].topic]
  /\ Goto(w, "select")
  /\ UNCHANGED <<unused, objects, mqtt, messages, refs, job, polling, bounds>>

SetPrio(w, S) ==
  /\ Command(w)
  /\ job' = [job EXCEPT ![w] = [NoJob EXCEPT !.left = S]] /\ Goto(w, "prio")
  /\ UNCHANGED <<database, objects, mqtt, messages, refs, polling>>

\* update_prio, GetByID: an unknown device, or one without a priority, ends the
\* command without any reload.
FindPrio(w, d) ==
  /\ At(w, "prio") /\ Unlocked /\ d \in job[w].left
  /\ \/ /\ d \in devices /\ refs' = [refs EXCEPT ![w] = {d}]
        /\ job' = [job EXCEPT ![w].device = d, ![w].left = @ \ {d}] /\ Goto(w, "read")
     \/ job' = [job EXCEPT ![w] = NoJob] /\ Goto(w, "idle") /\ UNCHANGED refs
  /\ UNCHANGED <<database, objects, mqtt, messages, polling, bounds>>

\* The configuration in memory is read,
ReadPrio(w) ==
  /\ At(w, "read")
  /\ job' = [job EXCEPT ![w].topic = config[job[w].device].topic] /\ Goto(w, "write")
  /\ UNCHANGED <<database, objects, mqtt, messages, refs, polling, bounds>>

\* and written back with another priority, if the row still exists.
WritePrio(w) ==
  LET d == job[w].device IN
  /\ At(w, "write")
  /\ rows' = [rows EXCEPT ![d] = IF @ = None THEN None ELSE job[w].topic]
  /\ job' = [job EXCEPT ![w].device = None, ![w].topic = None] /\ Goto(w, "written")
  /\ UNCHANGED <<unused, objects, mqtt, messages, refs, polling, bounds>>

-----------------------------------------------------------------------------
(* Devices::Reload, of the device of the command or of all. *)

\* The rows are read once.
Select(w) ==
  LET wanted == IF job[w].device = None THEN Ids ELSE {job[w].device}
      found  == {[device |-> d, topic |-> rows[d]] : d \in {e \in wanted : rows[e] # None}} IN
  /\ At(w, "select")
  /\ IF found = {}
       THEN job' = [job EXCEPT ![w] = NoJob] /\ Goto(w, "idle")
       ELSE job' = [job EXCEPT ![w].todo = found] /\ Goto(w, "next")
  /\ UNCHANGED <<database, objects, mqtt, messages, refs, polling, bounds>>

\* GetByID: an unknown device ends the whole reload.
Get(w, row) ==
  /\ At(w, "next") /\ Unlocked /\ row \in job[w].todo
  /\ IF row.device \in devices
       THEN /\ refs' = [refs EXCEPT ![w] = {row.device}]
            /\ job' = [job EXCEPT ![w].device = row.device, ![w].topic = row.topic,
                                  ![w].todo = @ \ {row}]
            /\ Goto(w, "prepare")
       ELSE /\ job' = [job EXCEPT ![w] = NoJob] /\ Goto(w, "idle")
            /\ UNCHANGED refs
  /\ UNCHANGED <<database, objects, mqtt, messages, polling, bounds>>

\* Device::Reload takes the device's lock and prepares the new configuration.
Prepare(w) ==
  LET d == job[w].device  s == NewSubscriber(d, job[w].topic) IN
  /\ At(w, "prepare") /\ Free(d)
  /\ built' = [built EXCEPT ![d] = @ + 1] /\ Subscribe(s)
  /\ job' = [job EXCEPT ![w].new = s] /\ Goto(w, "store")
  /\ UNCHANGED <<database, devices, deleted, config, messages, refs, polling, bounds>>

\* config.store: the former configuration is destroyed, unless the poller reads it.
Store(w) ==
  LET d == job[w].device IN
  /\ At(w, "store")
  /\ config' = [config EXCEPT ![d] = job[w].new]
  /\ IF held = config[d] THEN UNCHANGED mqtt ELSE Unsubscribe(config[d])
  /\ job' = [job EXCEPT ![w].new = None] /\ Goto(w, "reloaded")
  /\ UNCHANGED <<database, devices, deleted, built, messages, refs, polling, bounds>>

\* Prepare throws after the sensors are subscribed (Battery's does when its relay
\* cannot be reached): the new configuration is destroyed, the reload is over.
Abandon(w) ==
  /\ At(w, "store")
  /\ Unsubscribe(job[w].new)
  /\ job' = [job EXCEPT ![w] = NoJob] /\ Goto(w, "release")
  /\ UNCHANGED <<database, objects, messages, refs, polling, bounds>>

\* Devices::Delete: flagged and taken out of the map, under mutex_w.
Delete(w, d) ==
  /\ Command(w) /\ Unlocked /\ d \in devices
  /\ deleted' = deleted \cup {d} /\ devices' = devices \ {d}
  /\ refs' = [refs EXCEPT ![w] = {d}] /\ Goto(w, "deleting")
  /\ UNCHANGED <<database, config, built, mqtt, messages, job, polling>>

Work(w) ==
  \/ Load(w) \/ LoadFails(w) \/ Insert(w) \/ UpdateDevice(w) \/ Select(w)
  \/ Prepare(w) \/ Store(w) \/ Abandon(w)
  \/ (\E d \in Ids : FindPrio(w, d)) \/ ReadPrio(w) \/ WritePrio(w)
  \/ \E row \in job[w].todo : Get(w, row)

Order(w) ==
  \/ \E d \in Ids : Delete(w, d)
  \/ \E d \in Ids, topic \in Topics : Create(w, d, topic) \/ Set(w, d, topic)
  \/ \E S \in SUBSET Ids \ {{}} : SetPrio(w, S)

-----------------------------------------------------------------------------
(* The dispatcher. *)

\* A crash, or an exception that nobody catches.
Halt(step) ==
  /\ pc' = [t \in Threads |-> step]
  /\ devices' = {} /\ deleted' = {} /\ config' = [d \in Ids |-> None]
  /\ built' = [d \in Ids |-> 0]
  /\ subscribers' = {} /\ broker' = {} /\ connected' = FALSE
  /\ batch' = {} /\ queue' = <<>> /\ msg' = None
  /\ refs' = [t \in Threads |-> {}] /\ job' = [w \in Workers |-> NoJob]
  /\ todo' = {} /\ held' = None

\* The message that tells the dispatcher to end.
PopStop ==
  /\ At("dispatcher", "pop") /\ queue # <<>> /\ Head(queue) = Stop
  /\ queue' = Tail(queue) /\ Goto("dispatcher", "ended")
  /\ UNCHANGED <<database, objects, mqtt, batch, msg, refs, job, polling, bounds>>

\* Another one is taken to its device, MQTTSubscriber::Get.
Pop ==
  /\ At("dispatcher", "pop") /\ queue # <<>> /\ Head(queue) # Stop
  /\ Unlocked /\ Head(queue).device \in devices
  /\ queue' = Tail(queue) /\ msg' = Head(queue)
  /\ refs' = [refs EXCEPT !["dispatcher"] = {msg'.device}]
  /\ Goto("dispatcher", "dispatch")
  /\ UNCHANGED <<database, objects, mqtt, batch, job, polling, bounds>>

\* out_of_range: there is no handler in the dispatcher's thread.
PopUnknown ==
  /\ At("dispatcher", "pop") /\ queue # <<>> /\ Head(queue) # Stop
  /\ Unlocked /\ Head(queue).device \notin devices
  /\ Halt("aborted")
  /\ UNCHANGED <<database, bounds>>

\* Device::DispatchMQTTMessage, under the device's lock; sensors that are no
\* longer in the configuration get nothing.
DispatchMQTTMessage ==
  /\ At("dispatcher", "dispatch") /\ Free(msg.device)
  /\ msg' = None /\ Goto("dispatcher", "release")
  /\ UNCHANGED <<database, objects, mqtt, batch, queue, refs, job, polling, bounds>>

-----------------------------------------------------------------------------
(* The threads that go through all devices. *)

Collect(t, step) ==
  /\ Unlocked
  /\ refs' = [refs EXCEPT ![t] = devices]
  /\ Goto(t, IF devices = {} THEN pc[t] ELSE step)

Poll ==
  /\ "poller" \in Rounds /\ At("poller", "idle") /\ At("main", "run") /\ devices # {}
  /\ Collect("poller", "poll") /\ todo' = devices
  /\ UNCHANGED <<database, objects, mqtt, messages, job, held, bounds>>

\* SensorsForceUpdate keeps the configuration while it asks the sensors.
Ask(d) ==
  /\ At("poller", "poll") /\ d \in todo
  /\ todo' = todo \ {d} /\ held' = config[d] /\ Goto("poller", "polling")
  /\ UNCHANGED <<database, objects, mqtt, messages, refs, job, bounds>>

\* The answer is there, or the request has failed; a configuration that is no
\* longer in force is destroyed.
Answered ==
  /\ At("poller", "polling")
  /\ held' = None /\ Goto("poller", IF todo = {} THEN "release" ELSE "poll")
  /\ IF config[held.device] = held THEN UNCHANGED mqtt ELSE Unsubscribe(held)
  /\ UNCHANGED <<database, objects, messages, refs, job, todo, bounds>>

Ended ==
  /\ At("poller", "idle") /\ At("main", "threads")
  /\ Goto("poller", "ended")
  /\ UNCHANGED <<database, objects, mqtt, messages, refs, job, polling, bounds>>

\* HistorySync: not asked to stop before the end of main.
Sync ==
  /\ "syncer" \in Rounds /\ At("syncer", "idle") /\ ~ At("main", "exit") /\ devices # {}
  /\ Collect("syncer", "release")
  /\ UNCHANGED <<database, objects, mqtt, messages, job, polling, bounds>>

-----------------------------------------------------------------------------
(* main. *)

\* SIGTERM: the manager, the statistics and the sensors manager are to end.
Signal ==
  /\ At("main", "run") /\ Goto("main", "threads")
  /\ UNCHANGED <<database, objects, mqtt, messages, refs, job, polling, bounds>>

\* Mutant: the message that tells the dispatcher to end is not sent.
ShutdownSilently ==
  /\ At("main", "threads") /\ At("poller", "ended") /\ Goto("main", "mqtt")
  /\ connected' = FALSE /\ broker' = {}
  /\ UNCHANGED <<database, objects, subscribers, messages, refs, job, polling, bounds>>

\* They have; mqtt.Shutdown disconnects and tells the dispatcher.
ShutdownMqtt ==
  /\ At("main", "threads") /\ At("poller", "ended") /\ Goto("main", "mqtt")
  /\ connected' = FALSE /\ broker' = {} /\ queue' = Append(queue, Stop)
  /\ UNCHANGED <<database, objects, subscribers, batch, msg, refs, job, polling, bounds>>

\* Both threads of the client have ended; ws.Shutdown takes no more commands.
ShutdownServer ==
  /\ At("main", "mqtt") /\ At("dispatcher", "ended") /\ batch = {}
  /\ Goto("main", "ws")
  /\ UNCHANGED <<database, objects, mqtt, messages, refs, job, polling, bounds>>

\* Its workers have ended, but for those of connections that were closed (orphans);
\* Unload takes the map apart, without its lock.
Unload ==
  /\ At("main", "ws")
  /\ devices' = {} /\ refs' = [refs EXCEPT !["main"] = devices]
  /\ Goto("main", IF devices = {} THEN "unloaded" ELSE "release")
  /\ UNCHANGED <<database, deleted, config, built, mqtt, messages, job, polling, bounds>>

\* ~Client, at the end of main.
DestroyClient ==
  /\ At("main", "unloaded") /\ Goto("main", "exit")
  /\ subscribers' = {}
  /\ UNCHANGED <<database, objects, broker, connected, messages, refs, job, polling, bounds>>

\* A worker that is still under way, or the history thread, meets the unlocked walk of
\* Unload; and an orphan, the server and the client that are destroyed after it.  What
\* comes of it is undefined: the program may end.
Overrun ==
  /\ pc["main"] \in {"ws", "release", "unloaded", "exit"}
  /\ (\E w \in Workers : ~ At(w, "idle")) \/ (At("main", "ws") /\ "syncer" \in Rounds)
  /\ Halt("down")
  /\ UNCHANGED <<database, bounds>>

\* ~HistorySync joins its thread, and the program ends.
Exit ==
  /\ At("main", "exit") /\ At("syncer", "idle")
  /\ Halt("down")
  /\ UNCHANGED <<database, bounds>>

Crash ==
  /\ Up /\ faults < MaxFaults /\ faults' = faults + 1
  /\ Halt("down")
  /\ UNCHANGED <<database, orders>>

\* What Devices() makes of a row.
Loaded(d) == [topic |-> rows[d], device |-> d, sensor |-> 1]

FirstStep == [t \in Threads |-> CASE t \in Workers -> "idle"
                                  [] t = "dispatcher" -> "pop"
                                  [] t = "main" -> "run"
                                  [] OTHER -> "idle"]

\* The devices are loaded before any thread is started.  One whose configuration
\* throws is left out; its row stays.
Start ==
  /\ ~ Up /\ pc' = FirstStep
  /\ devices' \in SUBSET {d \in Ids : rows[d] # None}
  /\ config' = [d \in Ids |-> IF d \in devices' THEN Loaded(d) ELSE None]
  /\ built' = [d \in Ids |-> IF d \in devices' THEN 1 ELSE 0]
  /\ subscribers' = {Loaded(d) : d \in devices'}
  /\ connected' = TRUE /\ broker' = {s.topic : s \in subscribers'}
  /\ UNCHANGED <<database, deleted, messages, refs, job, polling, bounds>>

Init ==
  /\ rows = Installed /\ unused = {d \in Ids : Installed[d] = None}
  /\ devices = {} /\ deleted = {} /\ config = [d \in Ids |-> None]
  /\ built = [d \in Ids |-> 0]
  /\ subscribers = {} /\ broker = {} /\ connected = FALSE
  /\ batch = {} /\ queue = <<>> /\ msg = None
  /\ pc = [t \in Threads |-> "down"]
  /\ refs = [t \in Threads |-> {}] /\ job = [w \in Workers |-> NoJob]
  /\ todo = {} /\ held = None /\ orders = 0 /\ faults = 0

PollerStep == Release("poller") \/ (\E d \in todo : Ask(d)) \/ Answered \/ Ended
DispatcherStep ==
  Release("dispatcher") \/ PopStop \/ Pop \/ PopUnknown \/ DispatchMQTTMessage
MainStep ==
  Release("main") \/ ShutdownMqtt \/ ShutdownServer \/ Unload \/ DestroyClient \/ Exit

Next ==
  \/ Disconnect \/ Connect
  \/ \E topic \in Topics : Arrive(topic)
  \/ \E s \in batch : Push(s)
  \/ \E w \in Workers : Order(w) \/ Work(w) \/ Release(w)
  \/ DispatcherStep
  \/ Poll \/ PollerStep
  \/ Sync \/ Release("syncer")
  \/ Signal \/ MainStep \/ Overrun
  \/ Crash \/ Start

\* Every thread that can go on does.  A lock is given in the end to a thread
\* that waits for it: the devices' locks and mutex_w are free again and again.
Fairness ==
  /\ \A w \in Workers : SF_vars(Release(w) \/ Work(w))
  /\ SF_vars(PollerStep) /\ SF_vars(DispatcherStep)
  /\ WF_vars(Release("syncer")) /\ WF_vars(\E s \in batch : Push(s))
  /\ WF_vars(MainStep)

Spec == Init /\ [][Next]_vars /\ Fairness

-----------------------------------------------------------------------------
(* Properties. *)

\* While there is a connection, every device that can be found is subscribed
\* with its present sensor, and the server sends its topic: a reload, another
\* device's removal or a reconnection never leaves it deaf.
LoadedDevicesAreHeard ==
  connected =>
    \A d \in devices : config[d] \in subscribers /\ config[d].topic \in broker

\* Whoever is subscribed is looked at by someone: the sensor of an object that
\* exists, of one being reloaded, or of a configuration the poller still reads.
NoStraySubscriber ==
  \A s \in subscribers :
    \/ config[s.device] = s \/ held = s
    \/ \E w \in Workers : job[w].new = s

\* The server sends the topics that somebody subscribes to, and no others.
BrokerFollowsSubscribers ==
  broker = IF connected THEN {s.topic : s \in subscribers} ELSE {}

\* Every device that can be found is in the database, so that it is there after a
\* restart.
RowsFollowDevices == \A d \in devices : rows[d] # None

\* A deleted device leaves the database, whoever works with it meanwhile,
\* unless the program ends before.
DeletedLeavesDatabase ==
  \A d \in Ids : (d \in deleted) ~> (rows[d] = None \/ ~ Up)

\* The program ends when it is told to.
ShutdownEnds == At("main", "threads") ~> ~ Up

\* A message whose device is not in the map is dropped, as one for a former sensor
\* is (Sensors.cpp:72: "Sensor not found, message is probably outdated"); it does
\* not end the program.
DispatcherSurvives == ~ At("dispatcher", "aborted")

-----------------------------------------------------------------------------
(***************************************************************************)
(* What the registry promises.  A device can be found once it is in the    *)
(* map; it is in deletion until its row is gone.  A worker that reloads    *)
(* has read the rows it still has to do and the one it is preparing.       *)
(***************************************************************************)
inForceOf  == [d \in Ids |-> IF d \in devices THEN config[d].topic ELSE None]
Making(w) == pc[w] \in {"load", "insert"}
makingOf   == {[device |-> job[w].device, topic |-> job[w].topic] :
                 w \in {v \in Workers : Making(v)}}
deletingOf == {d \in deleted : rows[d] # None}
Reading(w) ==
  job[w].todo \cup
    CASE At(w, "prepare") -> {[device |-> job[w].device, topic |-> job[w].topic]}
      [] At(w, "store") -> {[device |-> job[w].new.device, topic |-> job[w].new.topic]}
      [] OTHER -> {}
readsOf == UNION {Reading(w) : w \in Workers}

Table == INSTANCE DeviceTable WITH
  up <- Up, inForce <- inForceOf, making <- makingOf, deleting <- deletingOf, reads <- readsOf

\* Whatever commands, reloads and destructors do at once: a device is found with
\* what was stored for it, a configuration comes into force only if a reload read
\* it, and a row that has been removed never comes back.
KeepsTable == Table!Spec

=============================================================================
