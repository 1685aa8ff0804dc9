--------------------------- MODULE RegistryProofs ---------------------------
(***************************************************************************)
(* Theorems about the registry, for any identifiers, topics, workers and   *)
(* bounds.                                                                 *)
(***************************************************************************)
EXTENDS Registry, TLAPS

-----------------------------------------------------------------------------
(* The invariant. *)

\* Somebody has a pointer to the object of device d.
Pointed(d) == d \in devices \/ \E t \in Threads : d \in refs[t]

\* An object somebody points to has a configuration, its own and no newer than
\* the last one built.
ObjectsFit ==
  \A d \in Ids :
    /\ Pointed(d) => config[d] # None
    /\ config[d] # None => config[d].device = d /\ config[d].sensor <= built[d]

\* What a worker knows of its command at each step.
JobFits(w) ==
  /\ pc[w] \in {"load", "insert", "update", "read", "write", "prepare", "store"} =>
       job[w].device \in Ids
  /\ pc[w] \in {"load", "insert", "update", "write", "prepare"} => job[w].topic \in Topics
  /\ pc[w] \in {"insert", "read", "write", "prepare", "store"} => job[w].device \in refs[w]
  /\ At(w, "store") <=> job[w].new # None

\* A prepared subscriber is newer than the one in force, and one worker at a time
\* prepares one for a device.
NewFits(w) ==
  At(w, "store") =>
    /\ job[w].new.device = job[w].device
    /\ job[w].new.sensor <= built[job[w].device]
    /\ job[w].new # config[job[w].device]
    /\ job[w].new \in subscribers \/ At("main", "exit")
    /\ \A v \in Workers : At(v, "store") /\ job[v].device = job[w].device => v = w

\* The device that is made has no object yet and is nobody else's.
LoadFits(w) ==
  At(w, "load") =>
    /\ config[job[w].device] = None /\ job[w].device \notin unused
    /\ \A v \in Workers : At(v, "load") /\ job[v].device = job[w].device => v = w

UnusedFits == \A d \in unused : rows[d] = None /\ config[d] = None

PollerFits ==
  /\ todo \subseteq refs["poller"]
  /\ pc["poller"] \in {"poll", "polling"} \/ todo = {}
  /\ At("poller", "polling") <=> held # None
  /\ held # None => /\ held.sensor <= built[held.device]
                    /\ \A w \in Workers : job[w].new # held

\* How main begins and ends.
MainFits ==
  /\ connected => pc["main"] \in {"run", "threads"}
  /\ At("main", "exit") => subscribers = {}
  /\ ~ Up => \A t \in Threads : refs[t] = {} /\ pc[t] = pc["main"]

ObjectsSubscribed ==
  ~ At("main", "exit") => \A d \in Ids : Pointed(d) => config[d] \in subscribers

\* Everything about pointers and subscriptions.
PointersFit ==
  /\ ObjectsFit
  /\ \A w \in Workers : JobFits(w)
  /\ \A w \in Workers : NewFits(w)
  /\ \A w \in Workers : LoadFits(w)
  /\ UnusedFits
  /\ PollerFits
  /\ ObjectsSubscribed
  /\ NoStraySubscriber

IInv == TypeOK /\ MainFits /\ BrokerFollowsSubscribers /\ PointersFit

-----------------------------------------------------------------------------
(* Types. *)

LEMMA ThreadFacts ==
  /\ Workers \subseteq Threads
  /\ {"poller", "syncer", "dispatcher", "main"} \subseteq Threads
  /\ \A w \in Workers : w \notin {"poller", "syncer", "dispatcher", "main"}
  BY RegistryAssumption DEF Threads

LEMMA StepsFacts ==
  /\ DOMAIN Steps = {"poller", "syncer", "dispatcher", "main"}
  /\ Steps["poller"] = {"idle", "poll", "polling", "release", "ended"}
  /\ Steps["syncer"] = {"idle", "release"}
  /\ Steps["dispatcher"] = {"pop", "dispatch", "release", "ended"}
  /\ Steps["main"] = {"run", "threads", "mqtt", "ws", "release", "unloaded", "exit"}
  BY DEF Steps

\* A thread goes to another of its steps.
StepsOK ==
  /\ \A w \in Workers : pc[w] \in WorkerSteps \cup {"down", "aborted"}
  /\ \A t \in DOMAIN Steps : pc[t] \in Steps[t] \cup {"down", "aborted"}
  /\ DOMAIN pc = Threads

LEMMA GotoType ==
  ASSUME StepsOK, NEW t \in Threads, NEW step, Goto(t, step),
         t \in Workers => step \in WorkerSteps,
         t \in DOMAIN Steps => step \in Steps[t]
  PROVE  StepsOK'
  BY ThreadFacts, StepsFacts DEF StepsOK, Goto

LEMMA WorkerGoto ==
  ASSUME StepsOK, NEW w \in Workers, NEW step \in WorkerSteps, Goto(w, step)
  PROVE  StepsOK'
  BY GotoType, ThreadFacts, StepsFacts

LEMMA SubscriptionTypes ==
  ASSUME subscribers \subseteq Subscriber, broker \subseteq Topics, connected \in BOOLEAN, NEW s
  PROVE  /\ s \in Subscriber /\ Subscribe(s) =>
              subscribers' \subseteq Subscriber /\ broker' \subseteq Topics /\ connected' \in BOOLEAN
         /\ Unsubscribe(s) =>
              subscribers' \subseteq Subscriber /\ broker' \subseteq Topics /\ connected' \in BOOLEAN
  BY DEF Subscribe, Unsubscribe, Subscriber

LEMMA LeaveRefTypes ==
  ASSUME StepsOK, refs \in [Threads -> SUBSET Ids], job \in [Workers -> Job], NoJob \in Job,
         NEW t \in Threads, NEW d \in Ids,
         pc[t] \in {"release", "deleting", "reloaded", "written"}, LeaveRef(t, d)
  PROVE  StepsOK' /\ refs' \in [Threads -> SUBSET Ids] /\ job' \in [Workers -> Job]
<1>1. refs' \in [Threads -> SUBSET Ids]
  BY DEF LeaveRef
<1>2. job' \in [Workers -> Job]
  BY DEF LeaveRef
<1>3. StepsOK'
  <2>1. CASE refs[t] = {d}
    <3>1. Goto(t, After(t))
      BY <2>1 DEF LeaveRef
    <3>2. t \in Workers => After(t) \in WorkerSteps
      BY ThreadFacts DEF After, Onward, WorkerSteps
    <3>3. t \in DOMAIN Steps => After(t) \in Steps[t]
      BY ThreadFacts, StepsFacts DEF After
    <3> QED
      BY <3>1, <3>2, <3>3, GotoType
  <2>2. CASE refs[t] # {d}
    BY <2>2 DEF LeaveRef, StepsOK
  <2> QED
    BY <2>1, <2>2
<1> QED
  BY <1>1, <1>2, <1>3

LEMMA NoJobType == NoJob \in Job /\ NoJob.new = None
  BY DEF NoJob, Job

LEMMA LetGoTypes ==
  ASSUME TypeOK, NEW t \in Threads, NEW d \in Ids,
         pc[t] \in {"release", "deleting", "reloaded", "written"},
         LetGo(t, d) \/ EraseRows(t, d) \/ Destroy(t, d)
  PROVE  TypeOK'
<1>0. StepsOK
  BY DEF TypeOK, StepsOK
<1>1. CASE LetGo(t, d)
  <2>1. StepsOK' /\ refs' \in [Threads -> SUBSET Ids] /\ job' \in [Workers -> Job]
    BY <1>0, <1>1, LeaveRefTypes, NoJobType DEF LetGo, TypeOK
  <2> QED
    BY <1>1, <2>1 DEF LetGo, TypeOK, StepsOK, database, objects, mqtt, messages, polling, bounds
<1>2. CASE EraseRows(t, d)
  <2>1. rows' \in [Ids -> Topics \cup {None}]
    BY <1>2 DEF EraseRows, TypeOK
  <2> QED
    BY <1>2, <2>1 DEF EraseRows, TypeOK, objects, mqtt, messages, polling, bounds
<1>3. CASE Destroy(t, d)
  <2>1. StepsOK' /\ refs' \in [Threads -> SUBSET Ids] /\ job' \in [Workers -> Job]
    BY <1>0, <1>3, LeaveRefTypes, NoJobType DEF Destroy, TypeOK
  <2>2. subscribers' \subseteq Subscriber /\ broker' \subseteq Topics /\ connected' \in BOOLEAN
    BY <1>3, SubscriptionTypes DEF Destroy, TypeOK
  <2>3. deleted' \subseteq Ids /\ config' \in [Ids -> Subscriber \cup {None}]
    BY <1>3 DEF Destroy, TypeOK
  <2> QED
    BY <1>3, <2>1, <2>2, <2>3 DEF Destroy, TypeOK, StepsOK, database, messages, polling, bounds
<1> QED
  BY <1>1, <1>2, <1>3

\* What a worker's action needs to know of its command.
TypeInv ==
  /\ TypeOK
  /\ \A w \in Workers : JobFits(w)
  /\ \A d \in Ids : Pointed(d) => config[d] # None

LEMMA NewSubscriberType ==
  ASSUME TypeOK, NEW d \in Ids, NEW topic \in Topics
  PROVE  NewSubscriber(d, topic) \in Subscriber
  BY DEF NewSubscriber, Subscriber, TypeOK

\* Creation and commands.
LEMMA CommandTypes ==
  ASSUME TypeInv, NEW w \in Workers, Order(w)
  PROVE  TypeOK'
<1>0. StepsOK /\ orders < MaxOrders /\ orders' = orders + 1 /\ faults' = faults
  BY DEF TypeInv, TypeOK, StepsOK, Order, Delete, Create, Set, SetPrio, Command
<1>1. orders' \in 0..MaxOrders
  BY <1>0, RegistryAssumption DEF TypeInv, TypeOK
<1>2. CASE \E d \in Ids : Delete(w, d)
  <2>1. PICK d \in Ids : Delete(w, d)
    BY <1>2
  <2>2. StepsOK'
    BY <1>0, <2>1, WorkerGoto DEF Delete, WorkerSteps
  <2> QED
    BY <1>0, <1>1, <2>1, <2>2, ThreadFacts
       DEF Delete, TypeInv, TypeOK, StepsOK, database, mqtt, messages, polling
<1>3. CASE \E d \in Ids, topic \in Topics : Create(w, d, topic) \/ Set(w, d, topic)
  <2>1. PICK d \in Ids, topic \in Topics : Create(w, d, topic) \/ Set(w, d, topic)
    BY <1>3
  <2>2. StepsOK'
    BY <1>0, <2>1, WorkerGoto DEF Create, Set, WorkerSteps
  <2>3. [NoJob EXCEPT !.device = d, !.topic = topic] \in Job
    BY DEF NoJob, Job
  <2>4. job' \in [Workers -> Job]
    BY <2>1, <2>3 DEF Create, Set, TypeInv, TypeOK
  <2>5. rows' \in [Ids -> Topics \cup {None}] /\ unused' \subseteq Ids
    <3>1. rows \in [Ids -> Topics \cup {None}] /\ unused \subseteq Ids
      BY DEF TypeInv, TypeOK
    <3>2. \/ rows' = [rows EXCEPT ![d] = topic] /\ unused' = unused \ {d}
          \/ rows' = rows /\ unused' = unused
      BY <2>1 DEF Create, Set, database
    <3> QED  BY <3>1, <3>2
  <2> QED
    BY <1>0, <1>1, <2>1, <2>2, <2>4, <2>5
       DEF Create, Set, TypeInv, TypeOK, StepsOK, objects, mqtt, messages, polling
<1>4. CASE \E S \in SUBSET Ids \ {{}} : SetPrio(w, S)
  <2>1. PICK S \in SUBSET Ids : SetPrio(w, S)
    BY <1>4
  <2>2. StepsOK'
    BY <1>0, <2>1, WorkerGoto DEF SetPrio, WorkerSteps
  <2>3. [NoJob EXCEPT !.left = S] \in Job
    BY DEF NoJob, Job
  <2>4. job' \in [Workers -> Job]
    BY <2>1, <2>3 DEF SetPrio, TypeInv, TypeOK
  <2> QED
    BY <1>0, <1>1, <2>1, <2>2, <2>4
       DEF SetPrio, TypeInv, TypeOK, StepsOK, database, objects, mqtt, messages, polling
<1> QED
  BY <1>2, <1>3, <1>4 DEF Order

\* The steps of a command.
LEMMA WorkTypes ==
  ASSUME TypeInv, NEW w \in Workers, Work(w)
  PROVE  TypeOK'
<1>0. StepsOK /\ w \in Threads /\ NoJob \in Job /\ job[w] \in Job
  BY ThreadFacts, NoJobType DEF TypeInv, TypeOK, StepsOK
<1>1. CASE Load(w)
  <2>1. job[w].device \in Ids /\ job[w].topic \in Topics
    BY <1>1 DEF Load, TypeInv, JobFits, At
  <2>2. NewSubscriber(job[w].device, job[w].topic) \in Subscriber
    BY <2>1, NewSubscriberType DEF TypeInv
  <2>3. StepsOK'
    BY <1>0, <1>1, WorkerGoto DEF Load, WorkerSteps
  <2>4. subscribers' \subseteq Subscriber /\ broker' \subseteq Topics /\ connected' \in BOOLEAN
    BY <1>1, <2>2, SubscriptionTypes DEF Load, TypeInv, TypeOK
  <2>5. config' \in [Ids -> Subscriber \cup {None}] /\ built' \in [Ids -> Nat]
    BY <1>1, <2>1, <2>2 DEF Load, TypeInv, TypeOK
  <2>6. refs' \in [Threads -> SUBSET Ids]
    BY <1>1, <2>1 DEF Load, TypeInv, TypeOK
  <2> QED
    BY <1>1, <2>3, <2>4, <2>5, <2>6
       DEF Load, TypeInv, TypeOK, StepsOK, database, messages, polling, bounds
<1>2. CASE Insert(w)
  <2>1. StepsOK'
    BY <1>0, <1>2, WorkerGoto DEF Insert, WorkerSteps
  <2>2. job[w].device \in Ids
    BY <1>2 DEF Insert, TypeInv, JobFits, At
  <2> QED
    BY <1>0, <1>2, <2>1, <2>2
       DEF Insert, TypeInv, TypeOK, StepsOK, database, mqtt, messages, polling, bounds
<1>3. CASE UpdateDevice(w)
  <2>1. StepsOK'
    BY <1>0, <1>3, WorkerGoto DEF UpdateDevice, WorkerSteps
  <2>2. job[w].topic \in Topics \cup {None}
    BY <1>0 DEF Job
  <2>3. rows' \in [Ids -> Topics \cup {None}]
    BY <1>3, <2>2 DEF UpdateDevice, TypeInv, TypeOK
  <2> QED
    BY <1>3, <2>1, <2>3
       DEF UpdateDevice, TypeInv, TypeOK, StepsOK, objects, mqtt, messages, polling, bounds
<1>4. CASE Select(w)
  <2> DEFINE wanted == IF job[w].device = None THEN Ids ELSE {job[w].device}
             found  == {[device |-> d, topic |-> rows[d]] : d \in {e \in wanted : rows[e] # None}}
  <2>1. found \subseteq Row
    BY <1>0 DEF Row, Job, TypeInv, TypeOK
  <2>2. StepsOK'
    BY <1>0, <1>4, WorkerGoto DEF Select, WorkerSteps
  <2>3. [job[w] EXCEPT !.todo = found] \in Job
    BY <1>0, <2>1 DEF Job
  <2>4. job' = [job EXCEPT ![w] = NoJob] \/ job' = [job EXCEPT ![w] = [job[w] EXCEPT !.todo = found]]
    BY <1>4 DEF Select
  <2>5. job' \in [Workers -> Job]
    BY <1>0, <2>3, <2>4 DEF TypeInv, TypeOK
  <2> QED
    BY <1>4, <2>2, <2>5
       DEF Select, TypeInv, TypeOK, StepsOK, database, objects, mqtt, messages, polling, bounds
<1>5. CASE Prepare(w)
  <2> DEFINE s == NewSubscriber(job[w].device, job[w].topic)
  <2>1. job[w].device \in Ids /\ job[w].topic \in Topics
    BY <1>5 DEF Prepare, TypeInv, JobFits, At
  <2>2. s \in Subscriber
    BY <2>1, NewSubscriberType DEF TypeInv
  <2>3. StepsOK'
    BY <1>0, <1>5, WorkerGoto DEF Prepare, WorkerSteps
  <2>4. subscribers' \subseteq Subscriber /\ broker' \subseteq Topics /\ connected' \in BOOLEAN
    BY <1>5, <2>2, SubscriptionTypes DEF Prepare, TypeInv, TypeOK
  <2>5. built' \in [Ids -> Nat]
    BY <1>5, <2>1 DEF Prepare, TypeInv, TypeOK
  <2>6. [job[w] EXCEPT !.new = s] \in Job
    BY <1>0, <2>2 DEF Job
  <2>7. job' \in [Workers -> Job]
    BY <1>5, <2>6 DEF Prepare, TypeInv, TypeOK
  <2> QED
    BY <1>5, <2>3, <2>4, <2>5, <2>7
       DEF Prepare, TypeInv, TypeOK, StepsOK, database, messages, polling, bounds
<1>6. CASE Store(w)
  <2>1. StepsOK'
    BY <1>0, <1>6, WorkerGoto DEF Store, WorkerSteps
  <2>2. subscribers' \subseteq Subscriber /\ broker' \subseteq Topics /\ connected' \in BOOLEAN
    BY <1>6, SubscriptionTypes DEF Store, TypeInv, TypeOK, mqtt
  <2>3. [job[w] EXCEPT !.new = None] \in Job /\ job[w].new \in Subscriber \cup {None}
    BY <1>0 DEF Job
  <2>4. config' \in [Ids -> Subscriber \cup {None}] /\ job' \in [Workers -> Job]
    BY <1>6, <2>3 DEF Store, TypeInv, TypeOK
  <2> QED
    BY <1>6, <2>1, <2>2, <2>4
       DEF Store, TypeInv, TypeOK, StepsOK, database, messages, polling, bounds
<1>7. CASE Abandon(w)
  <2>1. StepsOK'
    BY <1>0, <1>7, WorkerGoto DEF Abandon, WorkerSteps
  <2>2. subscribers' \subseteq Subscriber /\ broker' \subseteq Topics /\ connected' \in BOOLEAN
    BY <1>7, SubscriptionTypes DEF Abandon, TypeInv, TypeOK
  <2> QED
    BY <1>0, <1>7, <2>1, <2>2
       DEF Abandon, TypeInv, TypeOK, StepsOK, database, objects, messages, polling, bounds
<1>8. CASE \E d \in Ids : FindPrio(w, d)
  <2>1. PICK d \in Ids : FindPrio(w, d)
    BY <1>8
  <2>2. StepsOK'
    BY <1>0, <2>1, WorkerGoto DEF FindPrio, WorkerSteps
  <2>3. refs' \in [Threads -> SUBSET Ids]
    BY <2>1 DEF FindPrio, TypeInv, TypeOK
  <2> DEFINE j == [job[w] EXCEPT !.device = d, !.left = job[w].left \ {d}]
  <2>4. j \in Job
    BY <1>0 DEF Job
  <2>5. job' = [job EXCEPT ![w] = NoJob] \/ job' = [job EXCEPT ![w] = j]
    BY <2>1, <1>0 DEF FindPrio, TypeInv, TypeOK, Job
  <2>6. job' \in [Workers -> Job]
    BY <1>0, <2>4, <2>5 DEF TypeInv, TypeOK
  <2> QED
    BY <2>1, <2>2, <2>3, <2>6
       DEF FindPrio, TypeInv, TypeOK, StepsOK, database, objects, mqtt, messages, polling, bounds
<1>10. CASE ReadPrio(w)
  <2>1. StepsOK'
    BY <1>0, <1>10, WorkerGoto DEF ReadPrio, WorkerSteps
  <2>2. job[w].device \in Ids /\ Pointed(job[w].device)
    BY <1>0, <1>10 DEF ReadPrio, TypeInv, JobFits, At, Pointed
  <2>3. config[job[w].device].topic \in Topics
    BY <2>2 DEF TypeInv, TypeOK, Subscriber
  <2>4. [job[w] EXCEPT !.topic = config[job[w].device].topic] \in Job
    BY <1>0, <2>3 DEF Job
  <2>5. job' \in [Workers -> Job]
    BY <1>10, <2>4 DEF ReadPrio, TypeInv, TypeOK
  <2> QED
    BY <1>10, <2>1, <2>5
       DEF ReadPrio, TypeInv, TypeOK, StepsOK, database, objects, mqtt, messages, polling, bounds
<1>11. CASE WritePrio(w)
  <2>1. StepsOK'
    BY <1>0, <1>11, WorkerGoto DEF WritePrio, WorkerSteps
  <2>2. job[w].topic \in Topics \cup {None}
    BY <1>0 DEF Job
  <2>3. rows' \in [Ids -> Topics \cup {None}]
    BY <1>11, <2>2 DEF WritePrio, TypeInv, TypeOK
  <2> DEFINE j == [job[w] EXCEPT !.device = None, !.topic = None]
  <2>4. j \in Job
    BY <1>0 DEF Job
  <2>5. job' = [job EXCEPT ![w] = j]
    BY <1>0, <1>11 DEF WritePrio, TypeInv, TypeOK, Job
  <2>6. job' \in [Workers -> Job]
    BY <2>4, <2>5 DEF TypeInv, TypeOK
  <2> QED
    BY <1>11, <2>1, <2>3, <2>6
       DEF WritePrio, TypeInv, TypeOK, StepsOK, objects, mqtt, messages, polling, bounds
<1>12. CASE LoadFails(w)
  <2>1. Goto(w, "idle") \/ Goto(w, "release")
    BY <1>12 DEF LoadFails
  <2>2. StepsOK'
    BY <1>0, <2>1, WorkerGoto DEF WorkerSteps
  <2> QED
    BY <1>0, <1>12, <2>2
       DEF LoadFails, TypeInv, TypeOK, StepsOK, database, objects, mqtt, messages, polling, bounds
<1>9. CASE \E row \in job[w].todo : Get(w, row)
  <2>1. PICK row \in Row : Get(w, row)
    BY <1>0, <1>9 DEF Job
  <2>2. row.device \in Ids /\ row.topic \in Topics
    BY DEF Row
  <2>3. StepsOK'
    BY <1>0, <2>1, WorkerGoto DEF Get, WorkerSteps
  <2>4. refs' \in [Threads -> SUBSET Ids]
    <3>1. refs' = refs \/ refs' = [refs EXCEPT ![w] = {row.device}]
      BY <2>1 DEF Get
    <3>2. {row.device} \in SUBSET Ids /\ refs \in [Threads -> SUBSET Ids]
      BY <2>2 DEF TypeInv, TypeOK
    <3> QED
      BY <1>0, <3>1, <3>2
  <2> DEFINE found == [job[w] EXCEPT !.device = row.device, !.topic = row.topic,
                                     !.todo = job[w].todo \ {row}]
  <2>5. found \in Job
    BY <1>0, <2>2 DEF Job
  <2>6. job' = [job EXCEPT ![w] = NoJob] \/ job' = [job EXCEPT ![w] = found]
    BY <2>1, <1>0 DEF Get, TypeInv, TypeOK, Job
  <2>7. job' \in [Workers -> Job]
    BY <1>0, <2>5, <2>6 DEF TypeInv, TypeOK
  <2> QED
    BY <2>1, <2>3, <2>4, <2>7
       DEF Get, TypeInv, TypeOK, StepsOK, database, objects, mqtt, messages, polling, bounds
<1> QED
  BY <1>1, <1>2, <1>3, <1>4, <1>5, <1>6, <1>7, <1>8, <1>9, <1>10, <1>11, <1>12 DEF Work

\* The end of the process.
LEMMA HaltTypes ==
  ASSUME TypeInv, NEW step \in {"down", "aborted"}, Halt(step), UNCHANGED database,
         orders' \in 0..MaxOrders, faults' \in 0..MaxFaults
  PROVE  TypeOK'
<1>1. pc' = [t \in Threads |-> step]
  BY DEF Halt
<1>2. StepsOK'
  BY <1>1, ThreadFacts, StepsFacts DEF StepsOK
<1>3. /\ devices' = {} /\ deleted' = {} /\ config' = [d \in Ids |-> None]
      /\ built' = [d \in Ids |-> 0]
      /\ subscribers' = {} /\ broker' = {} /\ connected' = FALSE
      /\ batch' = {} /\ queue' = <<>> /\ msg' = None
      /\ refs' = [t \in Threads |-> {}] /\ job' = [w \in Workers |-> NoJob]
      /\ todo' = {} /\ held' = None
  BY DEF Halt
<1>4. refs' \in [Threads -> SUBSET Ids] /\ job' \in [Workers -> Job]
  BY <1>3, NoJobType
<1>5. config' \in [Ids -> Subscriber \cup {None}] /\ built' \in [Ids -> Nat]
  BY <1>3
<1>6. /\ devices' \subseteq Ids /\ deleted' \subseteq Ids
      /\ subscribers' \subseteq Subscriber /\ broker' \subseteq Topics /\ connected' \in BOOLEAN
      /\ batch' \subseteq Subscriber /\ msg' \in Subscriber \cup {None}
      /\ todo' \subseteq Ids /\ held' \in Subscriber \cup {None}
  BY <1>3
<1>7. queue' \in Seq(Subscriber \cup {Stop})
  BY <1>3
<1>8. rows' \in [Ids -> Topics \cup {None}] /\ unused' \subseteq Ids
  BY DEF TypeInv, TypeOK, database
<1> QED
  BY <1>2, <1>4, <1>5, <1>6, <1>7, <1>8 DEF TypeOK, StepsOK

\* A step that changes pc alone, or with what is given apart.
LEMMA DispatcherTypes ==
  ASSUME TypeInv, PopStop \/ Pop \/ PopUnknown \/ DispatchMQTTMessage
  PROVE  TypeOK'
<1>0. /\ StepsOK /\ "dispatcher" \in Threads /\ "dispatcher" \in DOMAIN Steps
      /\ Steps["dispatcher"] = {"pop", "dispatch", "release", "ended"}
      /\ "dispatcher" \notin Workers
  BY ThreadFacts, StepsFacts DEF TypeInv, TypeOK, StepsOK
<1>1. CASE PopStop
  <2>1. StepsOK'
    BY <1>0, <1>1, GotoType DEF PopStop
  <2>2. queue' \in Seq(Subscriber \cup {Stop})
    BY <1>1 DEF PopStop, TypeInv, TypeOK
  <2> QED
    BY <1>1, <2>1, <2>2
       DEF PopStop, TypeInv, TypeOK, StepsOK, database, objects, mqtt, polling, bounds
<1>2. CASE Pop
  <2>1. StepsOK'
    BY <1>0, <1>2, GotoType DEF Pop
  <2>2. queue' \in Seq(Subscriber \cup {Stop}) /\ Head(queue) \in Subscriber
    BY <1>2 DEF Pop, TypeInv, TypeOK
  <2>3. msg' \in Subscriber /\ msg'.device \in Ids
    BY <1>2, <2>2 DEF Pop, Subscriber
  <2>4. refs' \in [Threads -> SUBSET Ids]
    BY <1>2, <2>3 DEF Pop, TypeInv, TypeOK
  <2> QED
    BY <1>2, <2>1, <2>2, <2>3, <2>4
       DEF Pop, TypeInv, TypeOK, StepsOK, database, objects, mqtt, polling, bounds
<1>3. CASE PopUnknown
  BY <1>3, HaltTypes DEF PopUnknown, bounds, TypeInv, TypeOK
<1>4. CASE DispatchMQTTMessage
  <2>1. StepsOK'
    BY <1>0, <1>4, GotoType DEF DispatchMQTTMessage
  <2> QED
    BY <1>4, <2>1
       DEF DispatchMQTTMessage, TypeInv, TypeOK, StepsOK, database, objects, mqtt, polling, bounds
<1> QED
  BY <1>1, <1>2, <1>3, <1>4

LEMMA RoundTypes ==
  ASSUME TypeInv, Poll \/ (\E d \in todo : Ask(d)) \/ Answered \/ Ended \/ Sync
  PROVE  TypeOK'
<1>0. /\ StepsOK /\ {"poller", "syncer"} \subseteq Threads \cap DOMAIN Steps
      /\ Steps["poller"] = {"idle", "poll", "polling", "release", "ended"}
      /\ Steps["syncer"] = {"idle", "release"}
      /\ "poller" \notin Workers /\ "syncer" \notin Workers
  BY ThreadFacts, StepsFacts DEF TypeInv, TypeOK, StepsOK
<1>1. CASE Poll
  <2>1. StepsOK'
    BY <1>0, <1>1, GotoType DEF Poll, Collect
  <2> QED
    BY <1>0, <1>1, <2>1
       DEF Poll, Collect, TypeInv, TypeOK, StepsOK, database, objects, mqtt, messages, bounds
<1>2. CASE \E d \in todo : Ask(d)
  <2>1. PICK d \in todo : Ask(d)
    BY <1>2
  <2>2. StepsOK'
    BY <1>0, <2>1, GotoType DEF Ask
  <2>3. held' \in Subscriber \cup {None} /\ todo' \subseteq Ids
    BY <2>1 DEF Ask, TypeInv, TypeOK
  <2> QED
    BY <2>1, <2>2, <2>3
       DEF Ask, TypeInv, TypeOK, StepsOK, database, objects, mqtt, messages, bounds
<1>3. CASE Answered
  <2>1. StepsOK'
    BY <1>0, <1>3, GotoType DEF Answered
  <2>2. subscribers' \subseteq Subscriber /\ broker' \subseteq Topics /\ connected' \in BOOLEAN
    BY <1>3, SubscriptionTypes DEF Answered, TypeInv, TypeOK, mqtt
  <2> QED
    BY <1>3, <2>1, <2>2
       DEF Answered, TypeInv, TypeOK, StepsOK, database, objects, messages, bounds
<1>4. CASE Ended
  <2>1. StepsOK'
    BY <1>0, <1>4, GotoType DEF Ended
  <2> QED
    BY <1>4, <2>1
       DEF Ended, TypeInv, TypeOK, StepsOK, database, objects, mqtt, messages, polling, bounds
<1>5. CASE Sync
  <2>1. StepsOK'
    BY <1>0, <1>5, GotoType DEF Sync, Collect
  <2> QED
    BY <1>0, <1>5, <2>1
       DEF Sync, Collect, TypeInv, TypeOK, StepsOK, database, objects, mqtt, messages, polling, bounds
<1> QED
  BY <1>1, <1>2, <1>3, <1>4, <1>5

LEMMA MainTypes ==
  ASSUME TypeInv,
         \/ Signal \/ ShutdownMqtt \/ ShutdownServer \/ Unload \/ DestroyClient
         \/ Overrun \/ Exit \/ Crash \/ Start
  PROVE  TypeOK'
<1>0. /\ StepsOK /\ "main" \in Threads /\ "main" \in DOMAIN Steps /\ "main" \notin Workers
      /\ Steps["main"] = {"run", "threads", "mqtt", "ws", "release", "unloaded", "exit"}
  BY ThreadFacts, StepsFacts DEF TypeInv, TypeOK, StepsOK
<1>1. CASE Signal \/ ShutdownServer
  <2>1. StepsOK'
    BY <1>0, <1>1, GotoType DEF Signal, ShutdownServer
  <2> QED
    BY <1>1, <2>1 DEF Signal, ShutdownServer, TypeInv, TypeOK, StepsOK, database, objects,
                      mqtt, messages, polling, bounds
<1>2. CASE ShutdownMqtt
  <2>1. StepsOK'
    BY <1>0, <1>2, GotoType DEF ShutdownMqtt
  <2>2. queue' \in Seq(Subscriber \cup {Stop})
    BY <1>2 DEF ShutdownMqtt, TypeInv, TypeOK
  <2> QED
    BY <1>2, <2>1, <2>2 DEF ShutdownMqtt, TypeInv, TypeOK, StepsOK, database, objects, polling, bounds
<1>3. CASE Unload
  <2>1. StepsOK'
    BY <1>0, <1>3, GotoType DEF Unload
  <2> QED
    BY <1>0, <1>3, <2>1
       DEF Unload, TypeInv, TypeOK, StepsOK, database, mqtt, messages, polling, bounds
<1>4. CASE DestroyClient
  <2>1. StepsOK'
    BY <1>0, <1>4, GotoType DEF DestroyClient
  <2> QED
    BY <1>4, <2>1
       DEF DestroyClient, TypeInv, TypeOK, StepsOK, database, objects, messages, polling, bounds
<1>5. CASE Exit \/ Overrun
  BY <1>5, HaltTypes DEF Exit, Overrun, bounds, TypeInv, TypeOK
<1>6. CASE Crash
  <2>1. faults' \in 0..MaxFaults
    BY <1>6, RegistryAssumption DEF Crash, TypeInv, TypeOK
  <2> QED
    BY <1>6, <2>1, HaltTypes DEF Crash, TypeInv, TypeOK
<1>7. CASE Start
  <2>1. pc' = FirstStep
    BY <1>7 DEF Start
  <2>2. StepsOK'
    BY <2>1, ThreadFacts, StepsFacts DEF StepsOK, FirstStep, WorkerSteps
  <2>3. devices' \subseteq Ids /\ \A d \in devices' : Loaded(d) \in Subscriber
    BY <1>7 DEF Start, Loaded, Subscriber, TypeInv, TypeOK
  <2>4. config' \in [Ids -> Subscriber \cup {None}] /\ built' \in [Ids -> Nat]
    BY <1>7, <2>3 DEF Start
  <2>5. subscribers' \subseteq Subscriber
    BY <1>7, <2>3 DEF Start
  <2>6. broker' \subseteq Topics /\ connected' \in BOOLEAN
    BY <1>7, <2>5 DEF Start, Subscriber
  <2> QED
    BY <1>7, <2>2, <2>3, <2>4, <2>5, <2>6
       DEF Start, TypeInv, TypeOK, StepsOK, database, messages, polling, bounds
<1> QED
  BY <1>1, <1>2, <1>3, <1>4, <1>5, <1>6, <1>7

LEMMA NetworkTypes ==
  ASSUME TypeInv,
         \/ Disconnect \/ Connect
         \/ \E topic \in Topics : Arrive(topic)
         \/ \E s \in batch : Push(s)
  PROVE  TypeOK'
<1>1. CASE Disconnect
  <2>1. faults' \in 0..MaxFaults
    BY <1>1, RegistryAssumption DEF Disconnect, TypeInv, TypeOK
  <2> QED
    BY <1>1, <2>1 DEF Disconnect, TypeInv, TypeOK, database, objects, messages, polling
<1>2. CASE Connect
  BY <1>2 DEF Connect, TypeInv, TypeOK, Subscriber, database, objects, messages, polling, bounds
<1>3. CASE \E topic \in Topics : Arrive(topic)
  BY <1>3 DEF Arrive, TypeInv, TypeOK, database, objects, mqtt, polling, bounds
<1>4. CASE \E s \in batch : Push(s)
  <2>1. PICK s \in batch : Push(s)
    BY <1>4
  <2>2. queue' \in Seq(Subscriber \cup {Stop})
    BY <2>1 DEF Push, TypeInv, TypeOK
  <2> QED
    BY <2>1, <2>2 DEF Push, TypeInv, TypeOK, database, objects, mqtt, polling, bounds
<1> QED
  BY <1>1, <1>2, <1>3, <1>4

LEMMA ReleaseTypes ==
  ASSUME TypeInv, NEW t \in Threads, Release(t)
  PROVE  TypeOK'
  BY LetGoTypes DEF TypeInv, Release

\* Every step keeps the types.
LEMMA TypeStep ==
  ASSUME TypeInv, [Next]_vars
  PROVE  TypeOK'
<1>1. CASE UNCHANGED vars
  BY <1>1 DEF TypeInv, TypeOK, vars, database, objects, mqtt, messages, polling, bounds
<1>2. CASE \E w \in Workers : Order(w) \/ Work(w) \/ Release(w)
  BY <1>2, CommandTypes, WorkTypes, ReleaseTypes, ThreadFacts
<1>3. CASE DispatcherStep
  BY <1>3, DispatcherTypes, ReleaseTypes, ThreadFacts DEF DispatcherStep
<1>4. CASE Poll \/ PollerStep \/ Sync \/ Release("syncer")
  BY <1>4, RoundTypes, ReleaseTypes, ThreadFacts DEF PollerStep
<1>5. CASE Signal \/ MainStep \/ Overrun \/ Crash \/ Start
  BY <1>5, MainTypes, ReleaseTypes, ThreadFacts DEF MainStep
<1>6. CASE \/ Disconnect \/ Connect
           \/ \E topic \in Topics : Arrive(topic)
           \/ \E s \in batch : Push(s)
  BY <1>6, NetworkTypes
<1> QED
  BY <1>1, <1>2, <1>3, <1>4, <1>5, <1>6 DEF Next

-----------------------------------------------------------------------------
(* Pointers and subscriptions. *)

LEMMA TypesOfIInv == IInv => TypeInv
  BY DEF IInv, TypeInv, TypeOK, PointersFit, ObjectsFit, Pointed

\* A step that changes no configuration and no subscriber, and makes no pointer to
\* an object that had none.
LEMMA PointerStep ==
  ASSUME IInv, UNCHANGED <<unused, config, built, subscribers, held>>, UnusedFits',
         \A e \in Ids : Pointed(e)' => Pointed(e),
         \A w \in Workers :
           /\ JobFits(w)' /\ job'[w].new = job[w].new
           /\ pc'[w] \in {"store", "load"} => pc'[w] = pc[w] /\ job'[w] = job[w],
         todo' \subseteq refs'["poller"],
         pc'["poller"] \in {"poll", "polling"} \/ todo' = {},
         At("poller", "polling")' <=> At("poller", "polling"),
         At("main", "exit") => At("main", "exit")'
  PROVE  PointersFit'
<1> USE DEF IInv, PointersFit, At
<1>1. ObjectsFit'
  BY DEF ObjectsFit
<1>2. ASSUME NEW w \in Workers PROVE NewFits(w)'
  BY DEF NewFits
<1>3. ASSUME NEW w \in Workers PROVE LoadFits(w)'
  BY DEF LoadFits
<1>4. PollerFits'
  BY DEF PollerFits
<1>5. ObjectsSubscribed'
  BY DEF ObjectsSubscribed
<1>6. NoStraySubscriber'
  BY DEF NoStraySubscriber
<1> QED
  BY <1>1, <1>2, <1>3, <1>4, <1>5, <1>6

\* A step that changes no pointer, no command and no subscriber.
LEMMA QuietStep ==
  ASSUME IInv,
         UNCHANGED <<unused, devices, config, built, subscribers, refs, job, polling>>, UnusedFits',
         \A w \in Workers : pc'[w] = pc[w],
         pc'["poller"] = pc["poller"] \/ (At("poller", "idle") /\ At("poller", "ended")'),
         At("main", "exit") => At("main", "exit")'
  PROVE  PointersFit'
<1>1. \A e \in Ids : Pointed(e)' => Pointed(e)
  BY DEF Pointed
<1>2. ASSUME NEW w \in Workers PROVE JobFits(w)'
  BY DEF IInv, PointersFit, JobFits, At
<1>3. PollerFits
  BY DEF IInv, PointersFit
<1> QED
  BY <1>1, <1>2, <1>3, PointerStep DEF PollerFits, polling, At

LEMMA GotoFacts ==
  ASSUME TypeOK, NEW t \in Threads, NEW step, Goto(t, step)
  PROVE  pc'[t] = step /\ \A u \in Threads \ {t} : pc'[u] = pc[u]
  BY DEF Goto, TypeOK

LEMMA JobFacts ==
  ASSUME TypeOK, NEW w \in Workers, NEW j, job' = [job EXCEPT ![w] = j]
  PROVE  job'[w] = j /\ \A v \in Workers \ {w} : job'[v] = job[v]
  BY DEF TypeOK

\* A worker goes on with its command, without any device at hand.
LEMMA WorkerStep ==
  ASSUME IInv, NEW w \in Workers, NEW j \in Job,
         NEW step \in {"idle", "update", "prio", "written", "select", "next"},
         UNCHANGED <<unused, objects, mqtt, refs, polling>>, UnusedFits',
         ~ At(w, "store"), Goto(w, step), job' = [job EXCEPT ![w] = j],
         j.new = None, step = "update" => j.device \in Ids /\ j.topic \in Topics
  PROVE  PointersFit'
<1>1. pc'[w] = step /\ \A t \in Threads \ {w} : pc'[t] = pc[t]
  BY GotoFacts, ThreadFacts DEF IInv
<1>2. job'[w] = j /\ \A v \in Workers \ {w} : job'[v] = job[v]
  BY JobFacts DEF IInv
<1>3. Workers \subseteq Threads /\ "poller" \in Threads \ {w} /\ "main" \in Threads \ {w}
  BY ThreadFacts
<1>4. \A e \in Ids : Pointed(e)' => Pointed(e)
  BY DEF Pointed, objects
<1>5. \A v \in Workers : JobFits(v)
  BY DEF IInv, PointersFit
<1>6. ASSUME NEW v \in Workers PROVE JobFits(v)'
  BY <1>1, <1>2, <1>3, <1>5 DEF JobFits, At
<1>7. job[w].new = None
  BY <1>5 DEF JobFits
<1>8. PollerFits
  BY DEF IInv, PointersFit
<1>9. \A v \in Workers :
        /\ job'[v].new = job[v].new
        /\ pc'[v] \in {"store", "load"} => pc'[v] = pc[v] /\ job'[v] = job[v]
  BY <1>1, <1>2, <1>3, <1>7
<1> QED
  BY <1>1, <1>3, <1>4, <1>6, <1>8, <1>9, PointerStep DEF PollerFits, objects, mqtt, polling, At

LEMMA CreateStep ==
  ASSUME IInv, NEW w \in Workers, NEW d \in Ids, NEW topic \in Topics, Create(w, d, topic)
  PROVE  PointersFit'
<1> USE DEF IInv, PointersFit, objects, mqtt, polling, At
<1>0. /\ d \in unused /\ unused' = unused \ {d} /\ rows' = [rows EXCEPT ![d] = topic]
      /\ job' = [job EXCEPT ![w] = [NoJob EXCEPT !.device = d, !.topic = topic]]
      /\ Goto(w, "load") /\ pc[w] = "idle"
      /\ UNCHANGED <<devices, config, built, subscribers, refs, todo, held>>
  BY DEF Create, Command
<1>1. pc'[w] = "load" /\ \A t \in Threads \ {w} : pc'[t] = pc[t]
  BY <1>0, GotoFacts, ThreadFacts
<1>2. /\ job'[w].device = d /\ job'[w].topic = topic /\ job'[w].new = None
      /\ \A v \in Workers \ {w} : job'[v] = job[v]
  <2> DEFINE j == [NoJob EXCEPT !.device = d, !.topic = topic]
  <2>1. j.device = d /\ j.topic = topic /\ j.new = None
    BY DEF NoJob
  <2>2. job'[w] = j /\ \A v \in Workers \ {w} : job'[v] = job[v]
    BY <1>0, JobFacts
  <2> QED
    BY <2>1, <2>2
<1>3. Workers \subseteq Threads /\ "poller" \in Threads \ {w} /\ "main" \in Threads \ {w}
  BY ThreadFacts
<1>4. config[d] = None /\ \A v \in Workers : At(v, "load") => job[v].device # d
  BY <1>0 DEF UnusedFits, LoadFits
<1>5. ObjectsFit'
  BY <1>0 DEF ObjectsFit, Pointed
<1>6. UnusedFits'
  BY <1>0 DEF UnusedFits, TypeOK
<1>7. ASSUME NEW v \in Workers PROVE JobFits(v)' /\ NewFits(v)' /\ LoadFits(v)'
  <2>1. CASE v = w
    <3>1. JobFits(v)'
      BY <1>1, <1>2, <2>1 DEF JobFits
    <3>2. NewFits(v)'
      BY <1>1, <2>1 DEF NewFits
    <3>3. LoadFits(v)'
      BY <1>0, <1>1, <1>2, <1>3, <1>4, <2>1 DEF LoadFits
    <3> QED
      BY <3>1, <3>2, <3>3
  <2>2. CASE v # w
    <3>1. pc'[v] = pc[v] /\ job'[v] = job[v]
      BY <1>1, <1>2, <1>3, <2>2
    <3>2. JobFits(v)'
      <4>1. JobFits(v)
        OBVIOUS
      <4> QED
        BY <1>0, <3>1, <4>1 DEF JobFits
    <3>3. NewFits(v)'
      <4>1. NewFits(v)
        OBVIOUS
      <4> QED
        BY <1>0, <1>1, <1>2, <1>3, <3>1, <4>1 DEF NewFits
    <3>4. LoadFits(v)'
      <4>1. LoadFits(v)
        OBVIOUS
      <4> QED
        BY <1>0, <1>1, <1>2, <1>3, <1>4, <3>1, <4>1 DEF LoadFits
    <3> QED
      BY <3>2, <3>3, <3>4
  <2> QED
    BY <2>1, <2>2
<1>8. JobFits(w) /\ None \notin Subscriber
  BY RegistryAssumption
<1>9. job[w].new = None
  BY <1>0, <1>8 DEF JobFits
<1>10. PollerFits'
  BY <1>0, <1>1, <1>2, <1>3 DEF PollerFits
<1>11. ObjectsSubscribed'
  BY <1>0, <1>1, <1>3 DEF ObjectsSubscribed, Pointed
<1>12. NoStraySubscriber'
  BY <1>0, <1>2, <1>8, <1>9 DEF NoStraySubscriber, TypeOK
<1> QED
  BY <1>5, <1>6, <1>7, <1>10, <1>11, <1>12

LEMMA LoadStep ==
  ASSUME IInv, NEW w \in Workers, Load(w)
  PROVE  PointersFit'
<1> USE DEF IInv, PointersFit, polling, At
<1> DEFINE d == job[w].device  s == NewSubscriber(d, job[w].topic)
<1>0. /\ pc[w] = "load" /\ config' = [config EXCEPT ![d] = s] /\ built' = [built EXCEPT ![d] = @ + 1]
      /\ subscribers' = subscribers \cup {s} /\ refs' = [refs EXCEPT ![w] = {d}]
      /\ Goto(w, "insert") /\ UNCHANGED <<database, devices, job, todo, held>>
  BY DEF Load, Subscribe
<1>1. pc'[w] = "insert" /\ \A t \in Threads \ {w} : pc'[t] = pc[t]
  BY <1>0, GotoFacts, ThreadFacts
<1>3. Workers \subseteq Threads /\ "poller" \in Threads \ {w} /\ "main" \in Threads \ {w}
  BY ThreadFacts
<1>4. JobFits(w) /\ LoadFits(w)
  OBVIOUS
<1>5. d \in Ids /\ job[w].topic \in Topics /\ config[d] = None /\ ~ Pointed(d) /\ d \notin unused
  BY <1>0, <1>4 DEF JobFits, LoadFits, ObjectsFit
<1>6. s \in Subscriber /\ s.device = d /\ s.sensor = built[d] + 1 /\ built[d] \in Nat
  BY <1>5, NewSubscriberType DEF NewSubscriber, TypeOK
<1>7. /\ config'[d] = s /\ built'[d] = built[d] + 1
      /\ \A e \in Ids \ {d} : config'[e] = config[e] /\ built'[e] = built[e]
      /\ refs'[w] = {d} /\ \A t \in Threads \ {w} : refs'[t] = refs[t]
  BY <1>0, <1>3, <1>5 DEF TypeOK
<1>8. \A e \in Ids \ {d} : Pointed(e)' => Pointed(e)
  BY <1>0, <1>3, <1>7 DEF Pointed
<1>9. None \notin Subscriber /\ built \in [Ids -> Nat]
  BY RegistryAssumption DEF TypeOK
<1>10. ObjectsFit'
  <2> SUFFICES ASSUME NEW e \in Ids
               PROVE  /\ Pointed(e)' => config'[e] # None
                      /\ config'[e] # None => config'[e].device = e /\ config'[e].sensor <= built'[e]
    BY DEF ObjectsFit
  <2>1. CASE e = d
    BY <1>6, <1>7, <1>9, <2>1
  <2>2. CASE e # d
    BY <1>7, <1>8, <2>2 DEF ObjectsFit
  <2> QED
    BY <2>1, <2>2
<1>11. UnusedFits'
  BY <1>0, <1>5, <1>7 DEF UnusedFits, database, TypeOK
<1>12. ASSUME NEW v \in Workers PROVE JobFits(v)'
  <2>1. JobFits(v)
    OBVIOUS
  <2>2. CASE v = w
    BY <1>0, <1>1, <1>5, <1>7, <2>1, <2>2 DEF JobFits
  <2>3. CASE v # w
    BY <1>0, <1>1, <1>3, <1>7, <2>1, <2>3 DEF JobFits
  <2> QED
    BY <2>2, <2>3
<1>13. ASSUME NEW v \in Workers PROVE NewFits(v)'
  <2>0. SUFFICES ASSUME At(v, "store")' PROVE NewFits(v)'
    BY DEF NewFits
  <2>1. v # w /\ pc[v] = "store" /\ NewFits(v) /\ JobFits(v)
    BY <1>1, <1>3, <2>0
  <2>2. job[v].device \in Ids /\ Pointed(job[v].device)
    BY <1>3, <2>1 DEF JobFits, Pointed
  <2>3. job[v].device # d
    BY <1>5, <2>2
  <2> QED
    BY <1>0, <1>1, <1>3, <1>7, <2>1, <2>2, <2>3 DEF NewFits
<1>14. ASSUME NEW v \in Workers PROVE LoadFits(v)'
  <2>0. SUFFICES ASSUME At(v, "load")' PROVE LoadFits(v)'
    BY DEF LoadFits
  <2>1. v # w /\ pc[v] = "load" /\ LoadFits(v) /\ JobFits(v)
    BY <1>1, <1>3, <2>0
  <2>2. job[v].device # d /\ job[v].device \in Ids
    BY <1>0, <1>4, <2>1 DEF LoadFits, JobFits
  <2> QED
    BY <1>0, <1>1, <1>3, <1>7, <2>1, <2>2 DEF LoadFits, database
<1>15. PollerFits'
  <2>1. held # None => held.sensor \in Nat /\ held.device \in Ids
    BY DEF TypeOK, Subscriber
  <2>2. held # None => held.sensor <= built'[held.device]
    BY <1>6, <1>7, <1>9, <2>1 DEF PollerFits
  <2> QED
    BY <1>0, <1>1, <1>3, <1>7, <2>2 DEF PollerFits
<1>16. ObjectsSubscribed'
  BY <1>0, <1>1, <1>3, <1>7, <1>8 DEF ObjectsSubscribed
<1>17. NoStraySubscriber'
  <2> SUFFICES ASSUME NEW o \in subscribers'
               PROVE  \/ config'[o.device] = o \/ held' = o
                      \/ \E v \in Workers : job'[v].new = o
    BY DEF NoStraySubscriber
  <2>1. CASE o = s
    BY <1>6, <1>7, <2>1
  <2>2. CASE o # s
    <3>1. o \in subscribers /\ o \in Subscriber /\ o.device \in Ids
      BY <1>0, <2>2 DEF TypeOK, Subscriber
    <3>2. config[o.device] = o => o.device # d
      BY <1>5, <1>9, <3>1
    <3> QED
      BY <1>0, <1>7, <3>1, <3>2 DEF NoStraySubscriber
  <2> QED
    BY <2>1, <2>2
<1> QED
  BY <1>10, <1>11, <1>12, <1>13, <1>14, <1>15, <1>16, <1>17

LEMMA OrderStep ==
  ASSUME IInv, NEW w \in Workers, Order(w)
  PROVE  PointersFit'
<1> USE DEF IInv, At
<1>0. UnusedFits /\ Workers \subseteq Threads /\ NoJob \in Job /\ NoJob.new = None
  BY ThreadFacts, NoJobType DEF PointersFit
<1>1. ASSUME NEW d \in Ids, NEW topic \in Topics, Create(w, d, topic) PROVE PointersFit'
  BY <1>1, CreateStep
<1>2. ASSUME NEW d \in Ids, NEW topic \in Topics, Set(w, d, topic) PROVE PointersFit'
  <2> DEFINE j == [NoJob EXCEPT !.device = d, !.topic = topic]
  <2>1. j \in Job /\ j.device = d /\ j.topic = topic /\ j.new = None
    BY DEF NoJob, Job
  <2>2. /\ job' = [job EXCEPT ![w] = j] /\ Goto(w, "update") /\ pc[w] = "idle"
        /\ UNCHANGED <<database, objects, mqtt, refs, polling>>
    BY <1>2 DEF Set, Command
  <2>3. UnusedFits'
    BY <1>0, <2>2 DEF UnusedFits, database, objects
  <2> QED
    BY <2>1, <2>2, <2>3, WorkerStep DEF database
<1>3. ASSUME NEW S \in SUBSET Ids, SetPrio(w, S) PROVE PointersFit'
  <2> DEFINE j == [NoJob EXCEPT !.left = S]
  <2>1. j \in Job /\ j.new = None
    BY DEF NoJob, Job
  <2>2. /\ job' = [job EXCEPT ![w] = j] /\ Goto(w, "prio") /\ pc[w] = "idle"
        /\ UNCHANGED <<database, objects, mqtt, refs, polling>>
    BY <1>3 DEF SetPrio, Command
  <2>3. UnusedFits'
    BY <1>0, <2>2 DEF UnusedFits, database, objects
  <2> QED
    BY <2>1, <2>2, <2>3, WorkerStep DEF database
<1>4. ASSUME NEW d \in Ids, Delete(w, d) PROVE PointersFit'
  <2>1. /\ d \in devices /\ devices' = devices \ {d} /\ refs' = [refs EXCEPT ![w] = {d}]
        /\ Goto(w, "deleting") /\ pc[w] = "idle"
        /\ UNCHANGED <<database, config, built, mqtt, job, polling>>
    BY <1>4 DEF Delete, Command
  <2>2. pc'[w] = "deleting" /\ \A t \in Threads \ {w} : pc'[t] = pc[t]
    BY <1>0, <2>1, GotoFacts
  <2>3. refs'[w] = {d} /\ \A t \in Threads \ {w} : refs'[t] = refs[t]
    BY <1>0, <2>1 DEF TypeOK
  <2>4. \A e \in Ids : Pointed(e)' => Pointed(e)
    BY <1>0, <2>1, <2>3 DEF Pointed
  <2>5. ASSUME NEW v \in Workers PROVE JobFits(v)'
    <3>1. JobFits(v)
      BY DEF PointersFit
    <3> QED
      BY <1>0, <2>1, <2>2, <2>3, <3>1 DEF JobFits
  <2>6. \A v \in Workers : pc'[v] \in {"store", "load"} => pc'[v] = pc[v]
    BY <1>0, <2>2
  <2>7. PollerFits /\ UnusedFits' /\ "poller" \in Threads \ {w} /\ "main" \in Threads \ {w}
    BY <1>0, <2>1, ThreadFacts DEF PointersFit, UnusedFits, database
  <2> QED
    BY <2>1, <2>2, <2>3, <2>4, <2>5, <2>6, <2>7, PointerStep
       DEF PollerFits, polling, mqtt, database
<1> QED
  BY <1>1, <1>2, <1>3, <1>4 DEF Order

\* A worker takes a pointer to a device that is to be found.
LEMMA TakeStep ==
  ASSUME IInv, NEW w \in Workers, NEW d \in devices, NEW step \in {"read", "prepare"},
         UNCHANGED <<database, objects, mqtt, polling>>, UnusedFits',
         refs' = [refs EXCEPT ![w] = {d}], ~ At(w, "store"),
         pc'[w] = step, \A t \in Threads \ {w} : pc'[t] = pc[t],
         job'[w].device = d, job'[w].new = None, step = "prepare" => job'[w].topic \in Topics,
         \A v \in Workers \ {w} : job'[v] = job[v]
  PROVE  PointersFit'
<1> USE DEF IInv, At
<1>0. /\ PollerFits /\ w \in Threads /\ d \in Ids /\ JobFits(w)
      /\ "poller" \in Threads \ {w} /\ "main" \in Threads \ {w}
  BY ThreadFacts DEF PointersFit, TypeOK
<1>1. refs'[w] = {d} /\ \A t \in Threads \ {w} : refs'[t] = refs[t]
  BY <1>0 DEF TypeOK
<1>2. \A e \in Ids : Pointed(e)' => Pointed(e)
  BY <1>0, <1>1 DEF Pointed, objects
<1>3. ASSUME NEW v \in Workers PROVE JobFits(v)'
  <2>1. JobFits(v) /\ v \in Threads
    BY ThreadFacts DEF PointersFit
  <2>2. CASE v = w
    BY <1>0, <1>1, <2>2 DEF JobFits
  <2>3. CASE v # w
    BY <1>1, <2>1, <2>3 DEF JobFits
  <2> QED
    BY <2>2, <2>3
<1>4. job[w].new = None
  BY <1>0 DEF JobFits
<1>5. \A v \in Workers : /\ job'[v].new = job[v].new
                         /\ pc'[v] \in {"store", "load"} => pc'[v] = pc[v] /\ job'[v] = job[v]
  BY <1>4, ThreadFacts
<1> QED
  BY <1>0, <1>1, <1>2, <1>3, <1>5, PointerStep
     DEF PollerFits, polling, mqtt, database, objects

\* The steps of a command that leave objects and subscribers alone.
LEMMA CalmWorkStep ==
  ASSUME IInv, NEW w \in Workers,
         \/ UpdateDevice(w) \/ Select(w) \/ LoadFails(w) \/ Insert(w)
         \/ (\E d \in Ids : FindPrio(w, d)) \/ ReadPrio(w) \/ WritePrio(w)
         \/ \E row \in job[w].todo : Get(w, row)
  PROVE  PointersFit'
<1> USE DEF IInv, At
<1>0. /\ UnusedFits /\ PollerFits /\ w \in Threads /\ NoJob \in Job /\ NoJob.new = None
      /\ job[w] \in Job /\ JobFits(w) /\ "poller" \in Threads \ {w} /\ "main" \in Threads \ {w}
  BY ThreadFacts, NoJobType DEF PointersFit, TypeOK
<1>1. CASE UpdateDevice(w)
  <2>1. /\ rows' = [rows EXCEPT ![job[w].device] = IF @ = None THEN None ELSE job[w].topic]
        /\ Goto(w, "select") /\ pc[w] = "update"
        /\ UNCHANGED <<unused, objects, mqtt, refs, job, polling>>
    BY <1>1 DEF UpdateDevice
  <2>2. job' = [job EXCEPT ![w] = job[w]] /\ job[w].new = None
    BY <1>0, <2>1 DEF JobFits, TypeOK
  <2>3. UnusedFits'
    BY <1>0, <2>1 DEF UnusedFits, TypeOK, objects
  <2> QED
    BY <1>0, <2>1, <2>2, <2>3, WorkerStep
<1>2. CASE Select(w)
  <2> DEFINE wanted == IF job[w].device = None THEN Ids ELSE {job[w].device}
             found  == {[device |-> d, topic |-> rows[d]] : d \in {e \in wanted : rows[e] # None}}
             j      == [job[w] EXCEPT !.todo = found]
  <2>1. found \subseteq Row
    BY <1>0 DEF Row, Job, TypeOK
  <2>2. /\ \/ job' = [job EXCEPT ![w] = NoJob] /\ Goto(w, "idle")
           \/ job' = [job EXCEPT ![w] = j] /\ Goto(w, "next")
        /\ pc[w] = "select" /\ UNCHANGED <<database, objects, mqtt, refs, polling>>
    BY <1>2 DEF Select
  <2>3. j \in Job /\ j.new = None
    <3>1. j.new = job[w].new
      BY <1>0 DEF Job
    <3>2. j \in Job
      BY <1>0, <2>1 DEF Job
    <3> QED
      BY <1>0, <2>2, <3>1, <3>2 DEF JobFits
  <2>4. UnusedFits'
    BY <1>0, <2>2 DEF UnusedFits, objects, database
  <2> HIDE DEF j
  <2>5. CASE job' = [job EXCEPT ![w] = NoJob] /\ Goto(w, "idle")
    BY <1>0, <2>2, <2>4, <2>5, WorkerStep DEF database
  <2>6. CASE job' = [job EXCEPT ![w] = j] /\ Goto(w, "next")
    BY <1>0, <2>2, <2>3, <2>4, <2>6, WorkerStep DEF database
  <2> QED
    BY <2>2, <2>5, <2>6
<1>3. CASE \E d \in Ids : FindPrio(w, d)
  <2>1. PICK d \in Ids : FindPrio(w, d)
    BY <1>3
  <2>2. pc[w] = "prio" /\ UNCHANGED <<database, objects, mqtt, polling>>
    BY <2>1 DEF FindPrio
  <2>3. UnusedFits' /\ job[w].new = None
    BY <1>0, <2>2 DEF UnusedFits, objects, database, JobFits
  <2>4. CASE job' = [job EXCEPT ![w] = NoJob] /\ Goto(w, "idle") /\ UNCHANGED refs
    BY <1>0, <2>2, <2>3, <2>4, WorkerStep DEF database
  <2>5. CASE d \in devices /\ refs' = [refs EXCEPT ![w] = {d}] /\ Goto(w, "read")
             /\ job' = [job EXCEPT ![w].device = d, ![w].left = @ \ {d}]
    <3> DEFINE j == [job[w] EXCEPT !.device = d, !.left = job[w].left \ {d}]
    <3>1. job' = [job EXCEPT ![w] = j]
      BY <2>5 DEF TypeOK, Job
    <3>2. j.device = d /\ j.new = None
      BY <1>0, <2>3 DEF Job
    <3> HIDE DEF j
    <3>3. pc'[w] = "read" /\ \A t \in Threads \ {w} : pc'[t] = pc[t]
      BY <1>0, <2>5, GotoFacts
    <3>4. job'[w] = j /\ \A v \in Workers \ {w} : job'[v] = job[v]
      BY <3>1, JobFacts
    <3> QED
      BY <2>2, <2>3, <2>5, <3>2, <3>3, <3>4, TakeStep
  <2> QED
    BY <2>1, <2>4, <2>5 DEF FindPrio
<1>6. CASE ReadPrio(w)
  <2> DEFINE j == [job[w] EXCEPT !.topic = config[job[w].device].topic]
  <2>1. /\ pc[w] = "read" /\ UNCHANGED <<database, objects, mqtt, refs, polling>>
        /\ Goto(w, "write") /\ job' = [job EXCEPT ![w] = j]
    BY <1>6 DEF ReadPrio
  <2>2. UnusedFits' /\ job[w].new = None /\ job[w].device \in refs[w] /\ job[w].device \in Ids
    BY <1>0, <2>1 DEF UnusedFits, objects, database, JobFits
  <2>3. config[job[w].device].topic \in Topics
    BY <1>0, <2>2 DEF PointersFit, ObjectsFit, Pointed, TypeOK, Subscriber
  <2>4. j.device = job[w].device /\ j.topic \in Topics /\ j.new = None
    BY <1>0, <2>2, <2>3 DEF Job
  <2> HIDE DEF j
  <2>5. pc'[w] = "write" /\ \A t \in Threads \ {w} : pc'[t] = pc[t]
    BY <1>0, <2>1, GotoFacts
  <2>6. job'[w] = j /\ \A v \in Workers \ {w} : job'[v] = job[v]
    BY <2>1, JobFacts
  <2>7. \A e \in Ids : Pointed(e)' => Pointed(e)
    BY <2>1 DEF Pointed, objects
  <2>8. ASSUME NEW v \in Workers PROVE JobFits(v)'
    <3>1. JobFits(v) /\ v \in Threads
      BY ThreadFacts DEF PointersFit
    <3> QED
      BY <2>1, <2>2, <2>4, <2>5, <2>6, <3>1 DEF JobFits
  <2>9. \A v \in Workers : /\ job'[v].new = job[v].new
                           /\ pc'[v] \in {"store", "load"} => pc'[v] = pc[v] /\ job'[v] = job[v]
    BY <2>2, <2>4, <2>5, <2>6, ThreadFacts
  <2> QED
    BY <1>0, <2>1, <2>2, <2>5, <2>7, <2>8, <2>9, PointerStep
       DEF PollerFits, polling, mqtt, database, objects
<1>7. CASE WritePrio(w)
  <2> DEFINE j == [job[w] EXCEPT !.device = None, !.topic = None]
  <2>1. /\ rows' = [rows EXCEPT ![job[w].device] = IF @ = None THEN None ELSE job[w].topic]
        /\ Goto(w, "written") /\ pc[w] = "write"
        /\ UNCHANGED <<unused, objects, mqtt, refs, polling>>
    BY <1>7 DEF WritePrio
  <2>2. job' = [job EXCEPT ![w] = j]
    <3>1. job' = [job EXCEPT ![w].device = None, ![w].topic = None]
      BY <1>7 DEF WritePrio
    <3> QED
      BY <1>0, <3>1 DEF TypeOK, Job
  <2>3. j \in Job /\ j.new = None
    <3>1. j.new = job[w].new /\ j \in Job
      BY <1>0 DEF Job
    <3> QED
      BY <1>0, <2>1, <3>1 DEF JobFits
  <2>4. UnusedFits'
    BY <1>0, <2>1 DEF UnusedFits, TypeOK, objects
  <2> HIDE DEF j
  <2> QED
    BY <1>0, <2>1, <2>2, <2>3, <2>4, WorkerStep
<1>8. CASE LoadFails(w)
  <2>1. /\ pc[w] \in {"load", "insert"} /\ job' = [job EXCEPT ![w] = NoJob]
        /\ Goto(w, "idle") \/ Goto(w, "release")
        /\ UNCHANGED <<database, objects, mqtt, refs, polling>>
    BY <1>8 DEF LoadFails
  <2>2. pc'[w] \in {"idle", "release"} /\ \A t \in Threads \ {w} : pc'[t] = pc[t]
    BY <1>0, <2>1, GotoFacts
  <2>3. job'[w] = NoJob /\ \A v \in Workers \ {w} : job'[v] = job[v]
    BY <2>1, JobFacts
  <2>4. job[w].new = None
    BY <1>0, <2>1 DEF JobFits
  <2>5. \A e \in Ids : Pointed(e)' => Pointed(e)
    BY <2>1 DEF Pointed, objects
  <2>6. ASSUME NEW v \in Workers PROVE JobFits(v)'
    <3>1. JobFits(v) /\ v \in Threads
      BY ThreadFacts DEF PointersFit
    <3> QED
      BY <1>0, <2>1, <2>2, <2>3, <3>1 DEF JobFits
  <2>7. \A v \in Workers : /\ job'[v].new = job[v].new
                           /\ pc'[v] \in {"store", "load"} => pc'[v] = pc[v] /\ job'[v] = job[v]
    BY <1>0, <2>2, <2>3, <2>4, ThreadFacts
  <2>8. UnusedFits'
    BY <1>0, <2>1 DEF UnusedFits, database, objects
  <2> QED
    BY <1>0, <2>1, <2>2, <2>5, <2>6, <2>7, <2>8, PointerStep
       DEF PollerFits, polling, mqtt, database, objects
<1>4. CASE Insert(w)
  <2> DEFINE d == job[w].device
  <2>1. /\ devices' = devices \cup {d} /\ job' = [job EXCEPT ![w] = NoJob]
        /\ Goto(w, "release") /\ pc[w] = "insert"
        /\ UNCHANGED <<database, config, built, mqtt, refs, polling>>
    BY <1>4 DEF Insert
  <2>2. pc'[w] = "release" /\ \A t \in Threads \ {w} : pc'[t] = pc[t]
    BY <1>0, <2>1, GotoFacts
  <2>3. job'[w] = NoJob /\ \A v \in Workers \ {w} : job'[v] = job[v]
    BY <2>1, JobFacts
  <2>4. d \in refs[w] /\ job[w].new = None
    BY <1>0, <2>1 DEF JobFits
  <2>5. \A e \in Ids : Pointed(e)' => Pointed(e)
    BY <1>0, <2>1, <2>4 DEF Pointed
  <2>6. ASSUME NEW v \in Workers PROVE JobFits(v)'
    <3>1. JobFits(v) /\ v \in Threads
      BY ThreadFacts DEF PointersFit
    <3> QED
      BY <1>0, <2>1, <2>2, <2>3, <3>1 DEF JobFits
  <2>7. \A v \in Workers : /\ job'[v].new = job[v].new
                           /\ pc'[v] \in {"store", "load"} => pc'[v] = pc[v] /\ job'[v] = job[v]
    BY <1>0, <2>2, <2>3, <2>4, ThreadFacts
  <2>8. UnusedFits'
    BY <1>0, <2>1 DEF UnusedFits, database
  <2> QED
    BY <1>0, <2>1, <2>2, <2>5, <2>6, <2>7, <2>8, PointerStep DEF PollerFits, polling, mqtt, database
<1>5. CASE \E row \in job[w].todo : Get(w, row)
  <2>1. PICK row \in job[w].todo : Get(w, row)
    BY <1>5
  <2>2. row.device \in Ids /\ row.topic \in Topics
    BY <1>0 DEF Job, Row
  <2> DEFINE j == [job[w] EXCEPT !.device = row.device, !.topic = row.topic,
                                 !.todo = job[w].todo \ {row}]
  <2>3. pc[w] = "next" /\ UNCHANGED <<database, objects, mqtt, polling>>
    BY <2>1 DEF Get
  <2>4. UnusedFits' /\ job[w].new = None
    BY <1>0, <2>3 DEF UnusedFits, objects, database, JobFits
  <2>5. j.device = row.device /\ j.topic = row.topic /\ j.new = None
    BY <1>0, <2>4 DEF Job
  <2>7. CASE row.device \notin devices
    <3>1. job' = [job EXCEPT ![w] = NoJob] /\ Goto(w, "idle") /\ UNCHANGED refs
      BY <2>1, <2>7 DEF Get
    <3> QED
      BY <1>0, <2>3, <2>4, <3>1, WorkerStep DEF database
  <2>6. CASE row.device \in devices
    <3>1. refs' = [refs EXCEPT ![w] = {row.device}] /\ Goto(w, "prepare")
      BY <2>1, <2>6 DEF Get
    <3>2. job' = [job EXCEPT ![w] = j]
      <4>1. job' = [job EXCEPT ![w].device = row.device, ![w].topic = row.topic, ![w].todo = @ \ {row}]
        BY <2>1, <2>6 DEF Get
      <4> QED
        BY <4>1 DEF TypeOK, Job
    <3> HIDE DEF j
    <3>3. pc'[w] = "prepare" /\ \A t \in Threads \ {w} : pc'[t] = pc[t]
      BY <1>0, <3>1, GotoFacts
    <3>4. job'[w] = j /\ \A v \in Workers \ {w} : job'[v] = job[v]
      BY <3>2, JobFacts
    <3> QED
      BY <2>2, <2>3, <2>4, <2>5, <2>6, <3>1, <3>3, <3>4, TakeStep
  <2> QED
    BY <2>7, <2>6
<1> QED
  BY <1>1, <1>2, <1>3, <1>4, <1>5, <1>6, <1>7, <1>8

LEMMA PrepareStep ==
  ASSUME IInv, NEW w \in Workers, Prepare(w)
  PROVE  PointersFit'
<1> USE DEF IInv, PointersFit, polling, At
<1> DEFINE d == job[w].device  s == NewSubscriber(d, job[w].topic)
<1>0. /\ pc[w] = "prepare" /\ Free(d) /\ built' = [built EXCEPT ![d] = @ + 1]
      /\ subscribers' = subscribers \cup {s} /\ job' = [job EXCEPT ![w].new = s]
      /\ Goto(w, "store") /\ UNCHANGED <<database, devices, config, refs, todo, held>>
  BY DEF Prepare, Subscribe
<1>1. pc'[w] = "store" /\ \A t \in Threads \ {w} : pc'[t] = pc[t]
  BY <1>0, GotoFacts, ThreadFacts
<1>2. /\ job'[w].device = d /\ job'[w].topic = job[w].topic /\ job'[w].new = s
      /\ \A v \in Workers \ {w} : job'[v] = job[v]
  BY <1>0 DEF TypeOK, Job
<1>3. Workers \subseteq Threads /\ "poller" \in Threads \ {w} /\ "main" \in Threads \ {w}
  BY ThreadFacts
<1>4. JobFits(w)
  OBVIOUS
<1>5. d \in Ids /\ job[w].topic \in Topics /\ d \in refs[w] /\ job[w].new = None
  BY <1>0, <1>4 DEF JobFits
<1>6. s \in Subscriber /\ s.device = d /\ s.sensor = built[d] + 1 /\ built[d] \in Nat
  BY <1>5, NewSubscriberType DEF NewSubscriber, TypeOK
<1>7. built'[d] = built[d] + 1 /\ \A e \in Ids \ {d} : built'[e] = built[e]
  BY <1>0, <1>5 DEF TypeOK
<1>8. None \notin Subscriber /\ built \in [Ids -> Nat] /\ config \in [Ids -> Subscriber \cup {None}]
  BY RegistryAssumption DEF TypeOK
<1>9. Pointed(d)
  BY <1>3, <1>5 DEF Pointed
<1>10. config[d] # None /\ config[d].device = d /\ config[d].sensor <= built[d] /\ config[d].sensor \in Nat
  BY <1>5, <1>8, <1>9 DEF ObjectsFit, Subscriber
<1>11. \A v \in Workers : pc[v] = "store" => job[v].device # d
  BY <1>0 DEF Free
<1>12. \A e \in Ids, n \in Nat : n <= built[e] => n <= built'[e]
  BY <1>6, <1>7, <1>8
<1>13. ObjectsFit'
  <2> SUFFICES ASSUME NEW e \in Ids
               PROVE  /\ Pointed(e)' => config'[e] # None
                      /\ config'[e] # None => config'[e].device = e /\ config'[e].sensor <= built'[e]
    BY DEF ObjectsFit
  <2>1. Pointed(e)' => Pointed(e)
    BY <1>0 DEF Pointed
  <2>2. config[e] # None => config[e].sensor \in Nat
    BY <1>8 DEF Subscriber
  <2> QED
    BY <1>0, <1>12, <2>1, <2>2 DEF ObjectsFit
<1>14. UnusedFits'
  BY <1>0 DEF UnusedFits, database
<1>15. ASSUME NEW v \in Workers PROVE JobFits(v)'
  <2>1. JobFits(v)
    OBVIOUS
  <2>2. CASE v = w
    BY <1>0, <1>1, <1>2, <1>5, <1>6, <1>8, <2>2 DEF JobFits
  <2>3. CASE v # w
    BY <1>0, <1>1, <1>2, <1>3, <2>1, <2>3 DEF JobFits
  <2> QED
    BY <2>2, <2>3
<1>16. ASSUME NEW v \in Workers PROVE NewFits(v)'
  <2>1. CASE v = w
    <3>1. s # config[d]
      BY <1>6, <1>10
    <3> QED
      BY <1>0, <1>1, <1>2, <1>3, <1>6, <1>7, <1>11, <2>1, <3>1 DEF NewFits
  <2>2. CASE v # w
    <3>0. SUFFICES ASSUME At(v, "store")' PROVE NewFits(v)'
      BY DEF NewFits
    <3>1. pc[v] = "store" /\ job'[v] = job[v] /\ NewFits(v) /\ JobFits(v)
      BY <1>1, <1>2, <1>3, <2>2, <3>0
    <3>2. job[v].device # d /\ job[v].device \in Ids
      BY <1>11, <3>1 DEF JobFits
    <3> QED
      BY <1>0, <1>1, <1>2, <1>3, <1>7, <3>1, <3>2 DEF NewFits
  <2> QED
    BY <2>1, <2>2
<1>17. ASSUME NEW v \in Workers PROVE LoadFits(v)'
  <2>0. SUFFICES ASSUME At(v, "load")' PROVE LoadFits(v)'
    BY DEF LoadFits
  <2>1. v # w /\ pc[v] = "load" /\ job'[v] = job[v] /\ LoadFits(v)
    BY <1>1, <1>2, <1>3, <2>0
  <2> QED
    BY <1>0, <1>1, <1>2, <1>3, <2>1 DEF LoadFits, database
<1>18. PollerFits'
  <2>1. held # None => held.sensor \in Nat /\ held.device \in Ids
    BY DEF TypeOK, Subscriber
  <2>2. held # None => held.sensor <= built'[held.device] /\ held # s
    BY <1>6, <1>12, <2>1 DEF PollerFits
  <2> QED
    BY <1>0, <1>1, <1>2, <1>3, <2>2 DEF PollerFits
<1>19. ObjectsSubscribed'
  BY <1>0, <1>1, <1>3 DEF ObjectsSubscribed, Pointed
<1>20. NoStraySubscriber'
  BY <1>0, <1>2, <1>5, <1>8 DEF NoStraySubscriber, TypeOK
<1> QED
  BY <1>13, <1>14, <1>15, <1>16, <1>17, <1>18, <1>19, <1>20

LEMMA StoreStep ==
  ASSUME IInv, NEW w \in Workers, Store(w)
  PROVE  PointersFit'
<1> USE DEF IInv, PointersFit, polling, At
<1> DEFINE d == job[w].device  n == job[w].new
<1>0. /\ pc[w] = "store" /\ config' = [config EXCEPT ![d] = n]
      /\ subscribers' = IF held = config[d] THEN subscribers ELSE subscribers \ {config[d]}
      /\ job' = [job EXCEPT ![w].new = None]
      /\ Goto(w, "reloaded") /\ UNCHANGED <<database, devices, built, refs, todo, held>>
  BY DEF Store, Unsubscribe, mqtt
<1>1. pc'[w] = "reloaded" /\ \A t \in Threads \ {w} : pc'[t] = pc[t]
  BY <1>0, GotoFacts, ThreadFacts
<1>2. job'[w].new = None /\ \A v \in Workers \ {w} : job'[v] = job[v]
  BY <1>0 DEF TypeOK, Job
<1>3. Workers \subseteq Threads /\ "poller" \in Threads \ {w} /\ "main" \in Threads \ {w}
  BY ThreadFacts
<1>4. JobFits(w) /\ NewFits(w)
  OBVIOUS
<1>5. /\ d \in Ids /\ d \in refs[w] /\ n # None /\ n.device = d /\ n.sensor <= built[d]
      /\ n # config[d]
      /\ n \in subscribers \/ At("main", "exit")
  BY <1>0, <1>4 DEF JobFits, NewFits
<1>6. Pointed(d)
  BY <1>3, <1>5 DEF Pointed
<1>7. config[d] # None /\ config[d].device = d
  BY <1>5, <1>6 DEF ObjectsFit
<1>8. config'[d] = n /\ \A e \in Ids \ {d} : config'[e] = config[e]
  BY <1>0, <1>5 DEF TypeOK
<1>9. \A v \in Workers \ {w} : pc[v] = "store" => job[v].device # d
  BY <1>0, <1>4 DEF NewFits
<1>10. \A e \in Ids : Pointed(e)' => Pointed(e)
  BY <1>0 DEF Pointed
<1>11. ObjectsFit'
  BY <1>0, <1>5, <1>8, <1>10 DEF ObjectsFit
<1>12. UnusedFits'
  BY <1>0, <1>7, <1>8 DEF UnusedFits, database, TypeOK
<1>13. ASSUME NEW v \in Workers PROVE JobFits(v)'
  <2>1. JobFits(v)
    OBVIOUS
  <2>2. CASE v = w
    BY <1>1, <1>2, <2>2 DEF JobFits
  <2>3. CASE v # w
    BY <1>0, <1>1, <1>2, <1>3, <2>1, <2>3 DEF JobFits
  <2> QED
    BY <2>2, <2>3
<1>14. ASSUME NEW v \in Workers PROVE NewFits(v)'
  <2>0. SUFFICES ASSUME At(v, "store")' PROVE NewFits(v)'
    BY DEF NewFits
  <2>1. v # w /\ pc[v] = "store" /\ job'[v] = job[v] /\ NewFits(v) /\ JobFits(v)
    BY <1>1, <1>2, <1>3, <2>0
  <2>2. job[v].device # d /\ job[v].device \in Ids
    BY <1>9, <2>1 DEF JobFits
  <2>3. job[v].new.device # d
    BY <2>1, <2>2 DEF NewFits
  <2>4. job[v].new \in subscribers' \/ At("main", "exit")'
    BY <1>0, <1>1, <1>3, <1>7, <2>1, <2>3 DEF NewFits
  <2> QED
    BY <1>0, <1>1, <1>2, <1>3, <1>8, <2>1, <2>2, <2>4 DEF NewFits
<1>15. ASSUME NEW v \in Workers PROVE LoadFits(v)'
  <2>0. SUFFICES ASSUME At(v, "load")' PROVE LoadFits(v)'
    BY DEF LoadFits
  <2>1. v # w /\ pc[v] = "load" /\ job'[v] = job[v] /\ LoadFits(v) /\ JobFits(v)
    BY <1>1, <1>2, <1>3, <2>0
  <2>2. job[v].device # d /\ job[v].device \in Ids
    BY <1>7, <2>1 DEF LoadFits, JobFits
  <2> QED
    BY <1>0, <1>1, <1>2, <1>3, <1>8, <2>1, <2>2 DEF LoadFits, database
<1>16. PollerFits'
  BY <1>0, <1>1, <1>2, <1>3 DEF PollerFits
<1>17. ObjectsSubscribed'
  <2> SUFFICES ASSUME ~ At("main", "exit"), NEW e \in Ids, Pointed(e) PROVE config'[e] \in subscribers'
    BY <1>1, <1>3, <1>10 DEF ObjectsSubscribed
  <2>1. CASE e = d
    BY <1>0, <1>5, <1>8, <2>1
  <2>2. CASE e # d
    <3>1. config[e] \in subscribers /\ config[e].device = e
      BY DEF ObjectsSubscribed, ObjectsFit
    <3> QED
      BY <1>0, <1>7, <1>8, <2>2, <3>1
  <2> QED
    BY <2>1, <2>2
<1>18. NoStraySubscriber'
  <2> SUFFICES ASSUME NEW o \in subscribers'
               PROVE  \/ config'[o.device] = o \/ held' = o
                      \/ \E v \in Workers : job'[v].new = o
    BY DEF NoStraySubscriber
  <2>1. o \in subscribers /\ o.device \in Ids
    BY <1>0 DEF TypeOK, Subscriber
  <2>2. CASE config[o.device] = o
    <3>1. CASE o.device = d
      BY <1>0, <2>2, <3>1
    <3>2. CASE o.device # d
      BY <1>8, <2>1, <2>2, <3>2
    <3> QED
      BY <3>1, <3>2
  <2>3. CASE \E v \in Workers : job[v].new = o
    BY <1>2, <1>5, <1>8, <2>3
  <2> QED
    BY <1>0, <2>1, <2>2, <2>3 DEF NoStraySubscriber
<1> QED
  BY <1>11, <1>12, <1>13, <1>14, <1>15, <1>16, <1>17, <1>18

LEMMA AbandonStep ==
  ASSUME IInv, NEW w \in Workers, Abandon(w)
  PROVE  PointersFit'
<1> USE DEF IInv, PointersFit, polling, objects, At
<1> DEFINE d == job[w].device  n == job[w].new
<1>0. /\ pc[w] = "store" /\ subscribers' = subscribers \ {n}
      /\ job' = [job EXCEPT ![w] = NoJob] /\ Goto(w, "release")
      /\ UNCHANGED <<database, objects, refs, todo, held>>
  BY DEF Abandon, Unsubscribe
<1>1. pc'[w] = "release" /\ \A t \in Threads \ {w} : pc'[t] = pc[t]
  BY <1>0, GotoFacts, ThreadFacts
<1>2. job'[w].new = None /\ \A v \in Workers \ {w} : job'[v] = job[v]
  BY <1>0, JobFacts, NoJobType
<1>3. Workers \subseteq Threads /\ "poller" \in Threads \ {w} /\ "main" \in Threads \ {w}
  BY ThreadFacts
<1>4. JobFits(w) /\ NewFits(w)
  OBVIOUS
<1>5. d \in Ids /\ n # None /\ n.device = d /\ n # config[d]
  BY <1>0, <1>4 DEF JobFits, NewFits
<1>6. \A v \in Workers \ {w} : pc[v] = "store" => job[v].device # d
  BY <1>0, <1>4 DEF NewFits
<1>7. ObjectsFit' /\ UnusedFits'
  BY <1>0 DEF ObjectsFit, UnusedFits, Pointed, database
<1>8. ASSUME NEW v \in Workers PROVE JobFits(v)'
  <2>1. JobFits(v)
    OBVIOUS
  <2>2. CASE v = w
    BY <1>1, <1>2, <2>2 DEF JobFits
  <2>3. CASE v # w
    BY <1>0, <1>1, <1>2, <1>3, <2>1, <2>3 DEF JobFits
  <2> QED
    BY <2>2, <2>3
<1>9. ASSUME NEW v \in Workers PROVE NewFits(v)'
  <2>0. SUFFICES ASSUME At(v, "store")' PROVE NewFits(v)'
    BY DEF NewFits
  <2>1. v # w /\ pc[v] = "store" /\ job'[v] = job[v] /\ NewFits(v)
    BY <1>1, <1>2, <1>3, <2>0
  <2>2. job[v].new # n
    BY <1>5, <1>6, <2>1 DEF NewFits
  <2> QED
    BY <1>0, <1>1, <1>2, <1>3, <2>1, <2>2 DEF NewFits
<1>10. ASSUME NEW v \in Workers PROVE LoadFits(v)'
  <2>0. SUFFICES ASSUME At(v, "load")' PROVE LoadFits(v)'
    BY DEF LoadFits
  <2>1. v # w /\ pc[v] = "load" /\ job'[v] = job[v] /\ LoadFits(v)
    BY <1>1, <1>2, <1>3, <2>0
  <2> QED
    BY <1>0, <1>1, <1>2, <1>3, <2>1 DEF LoadFits, database
<1>11. PollerFits'
  BY <1>0, <1>1, <1>2, <1>3 DEF PollerFits
<1>12. ObjectsSubscribed'
  <2> SUFFICES ASSUME ~ At("main", "exit"), NEW e \in Ids, Pointed(e) PROVE config[e] \in subscribers'
    BY <1>0, <1>1, <1>3 DEF ObjectsSubscribed, Pointed
  <2>1. config[e] \in subscribers /\ config[e].device = e
    BY DEF ObjectsSubscribed, ObjectsFit
  <2> QED
    BY <1>0, <1>5, <2>1
<1>13. NoStraySubscriber'
  BY <1>0, <1>2 DEF NoStraySubscriber
<1> QED
  BY <1>7, <1>8, <1>9, <1>10, <1>11, <1>12, <1>13

LEMMA WorkStep ==
  ASSUME IInv, NEW w \in Workers, Work(w)
  PROVE  PointersFit'
  BY CalmWorkStep, LoadStep, PrepareStep, StoreStep, AbandonStep DEF Work

\* The end of a pointer's scope.
LEMMA LeaveRefFacts ==
  ASSUME IInv, NEW t \in Threads, NEW d \in Ids, LeaveRef(t, d),
         pc[t] \in {"release", "deleting", "reloaded", "written"}
  PROVE  /\ refs'[t] = refs[t] \ {d} /\ \A u \in Threads \ {t} : refs'[u] = refs[u] /\ pc'[u] = pc[u]
         /\ t \in Workers => pc'[t] \in {pc[t], "select", "prio", "next", "idle"}
         /\ t = "poller" => pc'[t] \in {pc[t], "idle"}
         /\ t = "main" => pc'[t] \in {pc[t], "unloaded"}
         /\ \A w \in Workers : JobFits(w)' /\ job'[w].new = job[w].new
         /\ \A w \in Workers \ {t} : job'[w] = job[w]
<1> USE DEF IInv, PointersFit, At
<1>1. refs' = [refs EXCEPT ![t] = refs[t] \ {d}]
  BY DEF LeaveRef
<1>2. refs'[t] = refs[t] \ {d} /\ \A u \in Threads \ {t} : refs'[u] = refs[u]
  BY <1>1 DEF TypeOK
<1>3. Goto(t, After(t)) \/ UNCHANGED pc
  BY DEF LeaveRef
<1>4. pc'[t] \in {pc[t], After(t)} /\ \A u \in Threads \ {t} : pc'[u] = pc[u]
  BY <1>3, GotoFacts
<1>5. /\ t \in Workers => After(t) \in {"select", "prio", "next", "idle"}
      /\ t = "poller" => After(t) = "idle"
      /\ t = "main" => After(t) = "unloaded"
  BY ThreadFacts DEF After, Onward
<1>6. UNCHANGED job \/ job' = [job EXCEPT ![t] = NoJob]
  BY DEF LeaveRef
<1>7. ASSUME NEW w \in Workers
      PROVE  /\ job'[w] = job[w] \/ (w = t /\ job'[w] = NoJob)
             /\ job'[w].new = job[w].new /\ JobFits(w)'
  <2>1. job'[w] = job[w] \/ (w = t /\ job'[w] = NoJob)
    BY <1>6 DEF TypeOK
  <2>2. JobFits(w) /\ w \in Threads
    BY ThreadFacts
  <2>3. job'[w].new = job[w].new
    BY <2>1, <2>2, NoJobType DEF JobFits
  <2>4. CASE w = t
    <3>1. pc'[w] \notin {"load", "insert", "update", "read", "write", "prepare", "store"}
      BY <1>4, <1>5, <2>4
    <3>2. job'[w].new = None
      BY <2>2, <2>3, <2>4 DEF JobFits
    <3>3. JobFits(w)'
      BY <3>1, <3>2 DEF JobFits
    <3> QED
      BY <2>1, <2>3, <3>3
  <2>5. CASE w # t
    BY <1>2, <1>4, <2>1, <2>2, <2>5 DEF JobFits
  <2> QED
    BY <2>1, <2>3, <2>4, <2>5
<1> QED
  BY <1>2, <1>4, <1>5, <1>7

LEMMA DestroyStep ==
  ASSUME IInv, NEW t \in Threads, NEW d \in Ids, Destroy(t, d),
         pc[t] \in {"release", "deleting", "reloaded", "written"}
  PROVE  PointersFit'
<1> USE DEF IInv, PointersFit, polling, At
<1>0. /\ d \in refs[t] /\ ~ Shared(t, d) /\ LeaveRef(t, d) /\ config' = [config EXCEPT ![d] = None]
      /\ UNCHANGED <<database, devices, built, todo, held>>
      /\ subscribers' = subscribers \ {config[d]}
  BY DEF Destroy, Unsubscribe
<1>1. /\ refs'[t] = refs[t] \ {d} /\ \A u \in Threads \ {t} : refs'[u] = refs[u] /\ pc'[u] = pc[u]
      /\ t \in Workers => pc'[t] \in {pc[t], "select", "prio", "next", "idle"}
      /\ t = "poller" => pc'[t] \in {pc[t], "idle"}
      /\ t = "main" => pc'[t] \in {pc[t], "unloaded"}
      /\ \A w \in Workers : JobFits(w)' /\ job'[w].new = job[w].new
      /\ \A w \in Workers \ {t} : job'[w] = job[w]
  BY <1>0, LeaveRefFacts
<1>2. d \notin devices /\ \A u \in Threads \ {t} : d \notin refs[u]
  BY <1>0 DEF Shared
<1>3. ~ Pointed(d)' /\ Pointed(d) /\ \A e \in Ids : Pointed(e)' => Pointed(e)
  BY <1>0, <1>1, <1>2 DEF Pointed
<1>4. config'[d] = None /\ \A e \in Ids \ {d} : config'[e] = config[e]
  BY <1>0 DEF TypeOK
<1>5. config[d] # None /\ config[d].device = d
  BY <1>3 DEF ObjectsFit
<1>6. Workers \subseteq Threads /\ {"poller", "main"} \subseteq Threads
  BY ThreadFacts
<1>7. \A w \in Workers : pc'[w] \in {"store", "load"} => w # t /\ pc'[w] = pc[w] /\ job'[w] = job[w]
  BY <1>1, <1>6
<1>8. ObjectsFit'
  BY <1>0, <1>3, <1>4 DEF ObjectsFit
<1>9. UnusedFits'
  BY <1>0, <1>4 DEF UnusedFits, database, TypeOK
<1>10. ASSUME NEW w \in Workers PROVE NewFits(w)'
  <2>0. SUFFICES ASSUME At(w, "store")' PROVE NewFits(w)'
    BY DEF NewFits
  <2>1. w # t /\ pc[w] = "store" /\ job'[w] = job[w] /\ NewFits(w) /\ JobFits(w)
    BY <1>7, <2>0
  <2>2. job[w].device # d /\ job[w].device \in Ids
    BY <1>2, <1>6, <2>1 DEF JobFits
  <2>3. job[w].new \in subscribers' \/ At("main", "exit")'
    BY <1>0, <1>1, <1>5, <1>6, <2>1, <2>2 DEF NewFits
  <2> QED
    BY <1>0, <1>4, <1>7, <2>1, <2>2, <2>3 DEF NewFits
<1>11. ASSUME NEW w \in Workers PROVE LoadFits(w)'
  <2>0. SUFFICES ASSUME At(w, "load")' PROVE LoadFits(w)'
    BY DEF LoadFits
  <2>1. w # t /\ pc[w] = "load" /\ job'[w] = job[w] /\ LoadFits(w) /\ JobFits(w)
    BY <1>7, <2>0
  <2>2. job[w].device \in Ids
    BY <2>1 DEF JobFits
  <2> QED
    BY <1>0, <1>4, <1>7, <2>1, <2>2 DEF LoadFits, database
<1>12. PollerFits'
  <2>1. CASE t = "poller"
    <3>1. todo = {} /\ held = None /\ pc'["poller"] # "polling"
      BY <1>1, <2>1 DEF PollerFits
    <3> QED
      BY <1>0, <3>1 DEF PollerFits
  <2>2. CASE t # "poller"
    <3>1. pc'["poller"] = pc["poller"] /\ refs'["poller"] = refs["poller"]
      BY <1>1, <1>6, <2>2
    <3> QED
      BY <1>0, <1>1, <3>1 DEF PollerFits
  <2> QED
    BY <2>1, <2>2
<1>13. At("main", "exit") => At("main", "exit")'
  BY <1>1, <1>6
<1>14. ObjectsSubscribed'
  <2> SUFFICES ASSUME ~ At("main", "exit"), NEW e \in Ids, Pointed(e)' PROVE config'[e] \in subscribers'
    BY <1>13 DEF ObjectsSubscribed
  <2>1. e # d /\ Pointed(e)
    BY <1>3
  <2>2. config[e] \in subscribers /\ config[e] # config[d]
    BY <1>5, <2>1 DEF ObjectsSubscribed, ObjectsFit
  <2> QED
    BY <1>0, <1>4, <2>1, <2>2
<1>15. NoStraySubscriber'
  <2> SUFFICES ASSUME NEW o \in subscribers'
               PROVE  \/ config'[o.device] = o \/ held' = o
                      \/ \E w \in Workers : job'[w].new = o
    BY DEF NoStraySubscriber
  <2>1. o \in subscribers /\ o # config[d] /\ o.device \in Ids
    BY <1>0 DEF MainFits, TypeOK, Subscriber
  <2>2. config[o.device] = o => config'[o.device] = o
    BY <1>4, <2>1
  <2> QED
    BY <1>0, <1>1, <2>1, <2>2 DEF NoStraySubscriber
<1> QED
  BY <1>1, <1>8, <1>9, <1>10, <1>11, <1>12, <1>14, <1>15

LEMMA ReleaseStep ==
  ASSUME IInv, NEW t \in Threads, Release(t)
  PROVE  PointersFit'
<1> USE DEF IInv, At
<1>0. /\ pc[t] \in {"release", "deleting", "reloaded", "written"} /\ Workers \subseteq Threads
      /\ {"poller", "main"} \subseteq Threads
  BY ThreadFacts DEF Release
<1>1. PICK d \in Ids : LetGo(t, d) \/ EraseRows(t, d) \/ Destroy(t, d)
  BY DEF Release
<1>2. CASE LetGo(t, d)
  <2>0. LeaveRef(t, d) /\ UNCHANGED <<database, objects, mqtt, polling>>
    BY <1>2 DEF LetGo
  <2>1. /\ refs'[t] = refs[t] \ {d} /\ \A u \in Threads \ {t} : refs'[u] = refs[u] /\ pc'[u] = pc[u]
        /\ t \in Workers => pc'[t] \in {pc[t], "select", "prio", "next", "idle"}
        /\ t = "poller" => pc'[t] \in {pc[t], "idle"}
        /\ t = "main" => pc'[t] \in {pc[t], "unloaded"}
        /\ \A w \in Workers : JobFits(w)' /\ job'[w].new = job[w].new
        /\ \A w \in Workers \ {t} : job'[w] = job[w]
    BY <1>0, <2>0, LeaveRefFacts
  <2>2. \A e \in Ids : Pointed(e)' => Pointed(e)
    BY <2>0, <2>1 DEF Pointed, objects
  <2>3. UnusedFits'
    BY <2>0 DEF PointersFit, UnusedFits, database, objects
  <2>4. \A w \in Workers : pc'[w] \in {"store", "load"} => pc'[w] = pc[w] /\ job'[w] = job[w]
    BY <1>0, <2>1
  <2>5. /\ todo' \subseteq refs'["poller"] /\ (pc'["poller"] \in {"poll", "polling"} \/ todo' = {})
        /\ At("poller", "polling")' <=> At("poller", "polling")
    <3>1. PollerFits
      BY DEF PointersFit
    <3>2. CASE t = "poller"
      BY <1>0, <2>0, <2>1, <3>1, <3>2 DEF PollerFits, polling
    <3>3. CASE t # "poller"
      BY <1>0, <2>0, <2>1, <3>1, <3>3 DEF PollerFits, polling
    <3> QED
      BY <3>2, <3>3
  <2> QED
    BY <1>0, <2>0, <2>1, <2>2, <2>3, <2>4, <2>5, PointerStep DEF database, objects, mqtt, polling
<1>3. CASE EraseRows(t, d)
  <2>1. UnusedFits'
    BY <1>3 DEF EraseRows, PointersFit, UnusedFits, objects, TypeOK
  <2> QED
    BY <1>3, <2>1, QuietStep DEF EraseRows, objects, mqtt, polling
<1>4. CASE Destroy(t, d)
  BY <1>0, <1>4, DestroyStep
<1> QED
  BY <1>1, <1>2, <1>3, <1>4

LEMMA DispatcherFits ==
  ASSUME IInv, PopStop \/ Pop \/ DispatchMQTTMessage
  PROVE  PointersFit'
<1> USE DEF IInv, At
<1>0. /\ UnusedFits /\ PollerFits /\ Workers \subseteq Threads \ {"dispatcher"}
      /\ "dispatcher" \in Threads /\ {"poller", "main"} \subseteq Threads \ {"dispatcher"}
  BY ThreadFacts DEF PointersFit
<1>1. CASE PopStop \/ DispatchMQTTMessage
  <2>1. /\ Goto("dispatcher", "ended") \/ Goto("dispatcher", "release")
        /\ UNCHANGED <<database, objects, mqtt, refs, job, polling>>
    BY <1>1 DEF PopStop, DispatchMQTTMessage
  <2>2. \A t \in Threads \ {"dispatcher"} : pc'[t] = pc[t]
    BY <1>0, <2>1, GotoFacts
  <2>3. UnusedFits'
    BY <1>0, <2>1 DEF UnusedFits, database, objects
  <2> QED
    BY <1>0, <2>1, <2>2, <2>3, QuietStep DEF database, objects, mqtt
<1>2. CASE Pop
  <2>1. /\ Head(queue).device \in devices /\ msg' = Head(queue) /\ Goto("dispatcher", "dispatch")
        /\ refs' = [refs EXCEPT !["dispatcher"] = {msg'.device}]
        /\ UNCHANGED <<database, objects, mqtt, job, polling>>
    BY <1>2 DEF Pop
  <2>2. \A t \in Threads \ {"dispatcher"} : pc'[t] = pc[t]
    BY <1>0, <2>1, GotoFacts
  <2>3. /\ refs'["dispatcher"] \subseteq devices
        /\ \A t \in Threads \ {"dispatcher"} : refs'[t] = refs[t]
    BY <1>0, <2>1 DEF TypeOK
  <2>4. \A e \in Ids : Pointed(e)' => Pointed(e)
    BY <2>1, <2>3 DEF Pointed, objects
  <2>5. UnusedFits'
    BY <1>0, <2>1 DEF UnusedFits, database, objects
  <2>6. ASSUME NEW w \in Workers PROVE JobFits(w)'
    BY <1>0, <2>1, <2>2, <2>3 DEF PointersFit, JobFits
  <2> QED
    BY <1>0, <2>1, <2>2, <2>3, <2>4, <2>5, <2>6, PointerStep
       DEF PollerFits, database, objects, mqtt, polling
<1> QED
  BY <1>1, <1>2

\* The history thread, and the sensors manager when it sets out or ends.
LEMMA RoundStep ==
  ASSUME IInv, Poll \/ Ended \/ Sync
  PROVE  PointersFit'
<1> USE DEF IInv, At
<1>0. /\ UnusedFits /\ PollerFits /\ Workers \subseteq Threads \ {"poller", "syncer"}
      /\ {"poller", "syncer", "main"} \subseteq Threads
  BY ThreadFacts DEF PointersFit
<1>1. CASE Ended
  <2>1. pc'["poller"] = "ended" /\ \A t \in Threads \ {"poller"} : pc'[t] = pc[t]
    BY <1>0, <1>1, GotoFacts DEF Ended
  <2>2. UnusedFits'
    BY <1>0, <1>1 DEF Ended, UnusedFits, database, objects
  <2> QED
    BY <1>0, <1>1, <2>1, <2>2, QuietStep DEF Ended, database, objects, mqtt
<1>2. ASSUME NEW t \in {"poller", "syncer"}, NEW step, Collect(t, step), devices # {},
             UNCHANGED <<database, objects, mqtt, job, held>>,
             pc[t] = "idle",
             t = "poller" => step = "poll" /\ todo' = devices,
             t = "syncer" => todo' = todo
      PROVE  PointersFit'
  <2>1. refs' = [refs EXCEPT ![t] = devices] /\ Goto(t, step)
    BY <1>2 DEF Collect
  <2>2. pc'[t] = step /\ \A u \in Threads \ {t} : pc'[u] = pc[u]
    BY <1>0, <2>1, GotoFacts
  <2>3. refs'[t] = devices /\ \A u \in Threads \ {t} : refs'[u] = refs[u]
    BY <1>0, <2>1 DEF TypeOK
  <2>4. \A e \in Ids : Pointed(e)' => Pointed(e)
    BY <1>2, <2>3 DEF Pointed, objects
  <2>5. UnusedFits'
    BY <1>0, <1>2 DEF UnusedFits, database, objects
  <2>6. ASSUME NEW w \in Workers PROVE JobFits(w)'
    BY <1>0, <1>2, <2>2, <2>3 DEF PointersFit, JobFits
  <2>7. /\ todo' \subseteq refs'["poller"] /\ (pc'["poller"] \in {"poll", "polling"} \/ todo' = {})
        /\ At("poller", "polling")' <=> At("poller", "polling")
    <3>1. CASE t = "poller"
      BY <1>2, <2>2, <2>3, <3>1
    <3>2. CASE t = "syncer"
      BY <1>0, <1>2, <2>2, <2>3, <3>2 DEF PollerFits
    <3> QED
      BY <3>1, <3>2
  <2> QED
    BY <1>0, <1>2, <2>2, <2>4, <2>5, <2>6, <2>7, PointerStep DEF database, objects, mqtt
<1>3. CASE Poll
  BY <1>2, <1>3 DEF Poll, Collect, polling
<1>4. CASE Sync
  BY <1>2, <1>4 DEF Sync, Collect, polling
<1> QED
  BY <1>1, <1>3, <1>4

LEMMA AskStep ==
  ASSUME IInv, NEW d \in todo, Ask(d)
  PROVE  PointersFit'
<1> USE DEF IInv, PointersFit, objects, mqtt, At
<1>0. /\ pc["poller"] = "poll" /\ todo' = todo \ {d} /\ held' = config[d] /\ Goto("poller", "polling")
      /\ UNCHANGED <<database, objects, mqtt, refs, job>>
  BY DEF Ask
<1>1. Workers \subseteq Threads \ {"poller"} /\ "poller" \in Threads /\ "main" \in Threads \ {"poller"}
  BY ThreadFacts
<1>2. pc'["poller"] = "polling" /\ \A t \in Threads \ {"poller"} : pc'[t] = pc[t]
  BY <1>0, <1>1, GotoFacts
<1>3. d \in Ids /\ Pointed(d) /\ held = None
  BY <1>0, <1>1 DEF PollerFits, Pointed, TypeOK
<1>4. config[d] # None /\ config[d].device = d /\ config[d].sensor <= built[d]
  BY <1>3 DEF ObjectsFit
<1>5. \A w \in Workers : job[w].new # config[d]
  <2> SUFFICES ASSUME NEW w \in Workers PROVE job[w].new # config[d]
    OBVIOUS
  <2>1. JobFits(w) /\ NewFits(w)
    OBVIOUS
  <2>2. CASE pc[w] = "store"
    BY <1>4, <2>1, <2>2 DEF NewFits
  <2>3. CASE pc[w] # "store"
    BY <1>4, <2>1, <2>3 DEF JobFits
  <2> QED
    BY <2>2, <2>3
<1>6. ObjectsFit' /\ UnusedFits' /\ ObjectsSubscribed'
  BY <1>0, <1>1, <1>2 DEF ObjectsFit, UnusedFits, ObjectsSubscribed, Pointed, database
<1>7. ASSUME NEW w \in Workers PROVE JobFits(w)'
  <2>1. JobFits(w)
    OBVIOUS
  <2> QED
    BY <1>0, <1>1, <1>2, <2>1 DEF JobFits
<1>8. ASSUME NEW w \in Workers PROVE NewFits(w)' /\ LoadFits(w)'
  <2>1. NewFits(w) /\ LoadFits(w)
    OBVIOUS
  <2>2. NewFits(w)'
    BY <1>0, <1>1, <1>2, <2>1 DEF NewFits
  <2>3. LoadFits(w)'
    BY <1>0, <1>1, <1>2, <2>1 DEF LoadFits, database
  <2> QED
    BY <2>2, <2>3
<1>9. PollerFits'
  BY <1>0, <1>2, <1>4, <1>5 DEF PollerFits
<1>10. NoStraySubscriber'
  <2>1. UNCHANGED <<subscribers, config, job>>
    BY <1>0 DEF mqtt, objects
  <2>2. NoStraySubscriber /\ held = None
    BY <1>3
  <2>3. \A s \in subscribers : s # None
    BY RegistryAssumption DEF TypeOK
  <2> QED
    BY <2>1, <2>2, <2>3 DEF NoStraySubscriber
<1> QED
  BY <1>6, <1>7, <1>8, <1>9, <1>10

LEMMA AnsweredStep ==
  ASSUME IInv, Answered
  PROVE  PointersFit'
<1> USE DEF IInv, PointersFit, objects, At
<1>0. /\ pc["poller"] = "polling" /\ held' = None
      /\ Goto("poller", IF todo = {} THEN "release" ELSE "poll")
      /\ subscribers' = IF config[held.device] = held THEN subscribers ELSE subscribers \ {held}
      /\ UNCHANGED <<database, objects, refs, job, todo>>
  BY DEF Answered, Unsubscribe, mqtt
<1>1. Workers \subseteq Threads \ {"poller"} /\ "poller" \in Threads /\ "main" \in Threads \ {"poller"}
  BY ThreadFacts
<1>2. /\ pc'["poller"] = IF todo = {} THEN "release" ELSE "poll"
      /\ \A t \in Threads \ {"poller"} : pc'[t] = pc[t]
  BY <1>0, <1>1, GotoFacts
<1>3. held # None /\ held.device \in Ids /\ \A w \in Workers : job[w].new # held
  BY <1>0 DEF PollerFits, TypeOK, Subscriber
<1>4. ObjectsFit' /\ UnusedFits'
  BY <1>0 DEF ObjectsFit, UnusedFits, Pointed, database
<1>5. ASSUME NEW w \in Workers PROVE JobFits(w)'
  <2>1. JobFits(w)
    OBVIOUS
  <2> QED
    BY <1>0, <1>1, <1>2, <2>1 DEF JobFits
<1>6. ASSUME NEW w \in Workers PROVE NewFits(w)' /\ LoadFits(w)'
  <2>1. NewFits(w) /\ LoadFits(w)
    OBVIOUS
  <2>2. NewFits(w)'
    BY <1>0, <1>1, <1>2, <1>3, <2>1 DEF NewFits
  <2>3. LoadFits(w)'
    BY <1>0, <1>1, <1>2, <2>1 DEF LoadFits, database
  <2> QED
    BY <2>2, <2>3
<1>7. PollerFits'
  BY <1>0, <1>2 DEF PollerFits
<1>8. ObjectsSubscribed'
  <2> SUFFICES ASSUME ~ At("main", "exit"), NEW e \in Ids, Pointed(e) PROVE config[e] \in subscribers'
    BY <1>0, <1>1, <1>2 DEF ObjectsSubscribed, Pointed
  <2>1. config[e] \in subscribers /\ config[e].device = e
    BY DEF ObjectsSubscribed, ObjectsFit
  <2> QED
    BY <1>0, <2>1
<1>9. NoStraySubscriber'
  BY <1>0 DEF NoStraySubscriber
<1> QED
  BY <1>4, <1>5, <1>6, <1>7, <1>8, <1>9

LEMMA NetworkStep ==
  ASSUME IInv,
         \/ Disconnect \/ Connect
         \/ \E topic \in Topics : Arrive(topic)
         \/ \E s \in batch : Push(s)
  PROVE  PointersFit'
<1>1. UNCHANGED <<database, objects, subscribers, pc, refs, job, polling>>
  BY DEF Disconnect, Connect, Arrive, Push, mqtt
<1>2. UnusedFits'
  BY <1>1 DEF IInv, PointersFit, UnusedFits, database, objects
<1> QED
  BY <1>1, <1>2, QuietStep DEF database, objects, At

LEMMA HaltStep ==
  ASSUME IInv, NEW step \in {"down", "aborted"}, Halt(step), UNCHANGED database
  PROVE  PointersFit'
<1>1. /\ \A t \in Threads : pc'[t] = step /\ refs'[t] = {}
      /\ \A d \in Ids : config'[d] = None
      /\ devices' = {} /\ subscribers' = {} /\ todo' = {} /\ held' = None
      /\ \A w \in Workers : job'[w] = NoJob
  BY DEF Halt
<1>2. Workers \subseteq Threads /\ {"poller", "main"} \subseteq Threads /\ NoJob.new = None
  BY ThreadFacts, NoJobType
<1>3. ObjectsFit' /\ ObjectsSubscribed'
  BY <1>1 DEF ObjectsFit, ObjectsSubscribed, Pointed
<1>4. UnusedFits'
  BY <1>1 DEF UnusedFits, IInv, PointersFit, TypeOK, database
<1>5. ASSUME NEW w \in Workers PROVE JobFits(w)' /\ NewFits(w)' /\ LoadFits(w)'
  BY <1>1, <1>2 DEF JobFits, NewFits, LoadFits, At
<1>6. PollerFits' /\ NoStraySubscriber'
  BY <1>1, <1>2 DEF PollerFits, NoStraySubscriber, At
<1> QED
  BY <1>3, <1>4, <1>5, <1>6 DEF PointersFit

LEMMA StartStep ==
  ASSUME IInv, Start
  PROVE  PointersFit'
<1> USE DEF IInv, At
<1>1. /\ ~ Up /\ pc' = FirstStep
      /\ devices' \subseteq {d \in Ids : rows[d] # None}
      /\ config' = [d \in Ids |-> IF d \in devices' THEN Loaded(d) ELSE None]
      /\ built' = [d \in Ids |-> IF d \in devices' THEN 1 ELSE 0]
      /\ subscribers' = {Loaded(d) : d \in devices'}
      /\ UNCHANGED <<database, refs, job, polling>>
  BY DEF Start
<1>2. \A t \in Threads : refs[t] = {} /\ pc[t] \in {"down", "aborted"}
  BY <1>1 DEF MainFits, Up
<1>3. Workers \subseteq Threads /\ {"poller", "main"} \subseteq Threads
  BY ThreadFacts
<1>4. (\A w \in Workers : pc'[w] = "idle") /\ pc'["poller"] = "idle" /\ pc'["main"] = "run"
  BY <1>1, <1>3, ThreadFacts DEF FirstStep
<1>5. \A w \in Workers : job'[w].new = None
  <2> SUFFICES ASSUME NEW w \in Workers PROVE job'[w].new = None
    OBVIOUS
  <2>1. JobFits(w) /\ pc[w] # "store"
    BY <1>2, <1>3 DEF PointersFit
  <2> QED
    BY <1>1, <2>1 DEF JobFits
<1>6. held' = None /\ todo' = {}
  BY <1>1, <1>2, <1>3 DEF PointersFit, PollerFits, polling
<1>7. \A d \in Ids : Pointed(d)' <=> d \in devices'
  BY <1>1, <1>2 DEF Pointed
<1>8. \A d \in Ids :
        /\ d \notin devices' => config'[d] = None
        /\ rows[d] = None => d \notin devices'
        /\ d \in devices' => /\ config'[d] = Loaded(d) /\ Loaded(d) \in Subscriber /\ built'[d] = 1
                              /\ Loaded(d).device = d /\ Loaded(d).sensor = 1
  BY <1>1 DEF Loaded, Subscriber, TypeOK
<1>9. None \notin Subscriber
  BY RegistryAssumption
<1>10. ObjectsFit'
  BY <1>7, <1>8, <1>9 DEF ObjectsFit
<1>11. UnusedFits'
  BY <1>1, <1>8 DEF UnusedFits, PointersFit, TypeOK, database
<1>12. ASSUME NEW w \in Workers PROVE JobFits(w)' /\ NewFits(w)' /\ LoadFits(w)'
  BY <1>4, <1>5 DEF JobFits, NewFits, LoadFits
<1>13. PollerFits'
  BY <1>4, <1>6 DEF PollerFits
<1>14. ObjectsSubscribed'
  BY <1>1, <1>7, <1>8 DEF ObjectsSubscribed
<1>15. NoStraySubscriber'
  BY <1>1, <1>8 DEF NoStraySubscriber
<1> QED
  BY <1>10, <1>11, <1>12, <1>13, <1>14, <1>15 DEF PointersFit

LEMMA MainThreadStep ==
  ASSUME IInv, Signal \/ ShutdownMqtt \/ ShutdownServer \/ Unload \/ DestroyClient
  PROVE  PointersFit'
<1> USE DEF IInv, At
<1>0. /\ UnusedFits /\ PollerFits /\ "main" \in Threads /\ "poller" \in Threads \ {"main"}
      /\ Workers \subseteq Threads \ {"main"}
  BY ThreadFacts DEF PointersFit
<1>1. CASE Signal \/ ShutdownMqtt \/ ShutdownServer
  <2>1. /\ Goto("main", "threads") \/ Goto("main", "mqtt") \/ Goto("main", "ws")
        /\ pc["main"] # "exit" /\ UNCHANGED <<database, objects, subscribers, refs, job, polling>>
    BY <1>1 DEF Signal, ShutdownMqtt, ShutdownServer, mqtt
  <2>2. \A t \in Threads \ {"main"} : pc'[t] = pc[t]
    BY <1>0, <2>1, GotoFacts
  <2>3. UnusedFits'
    BY <1>0, <2>1 DEF UnusedFits, database, objects
  <2> QED
    BY <1>0, <2>1, <2>2, <2>3, QuietStep DEF database, objects
<1>2. CASE Unload
  <2>1. /\ devices' = {} /\ refs' = [refs EXCEPT !["main"] = devices] /\ pc["main"] = "ws"
        /\ Goto("main", IF devices = {} THEN "unloaded" ELSE "release")
        /\ UNCHANGED <<database, config, built, mqtt, job, polling>>
    BY <1>2 DEF Unload
  <2>2. \A t \in Threads \ {"main"} : pc'[t] = pc[t]
    BY <1>0, <2>1, GotoFacts
  <2>3. refs'["main"] = devices /\ \A t \in Threads \ {"main"} : refs'[t] = refs[t]
    BY <1>0, <2>1 DEF TypeOK
  <2>4. \A e \in Ids : Pointed(e)' => Pointed(e)
    BY <2>1, <2>3 DEF Pointed
  <2>5. UnusedFits'
    BY <1>0, <2>1 DEF UnusedFits, database
  <2>6. ASSUME NEW w \in Workers PROVE JobFits(w)'
    BY <1>0, <2>1, <2>2, <2>3 DEF PointersFit, JobFits
  <2> QED
    BY <1>0, <2>1, <2>2, <2>3, <2>4, <2>5, <2>6, PointerStep DEF PollerFits, database, mqtt, polling
<1>3. CASE DestroyClient
  <2>1. /\ pc["main"] = "unloaded" /\ Goto("main", "exit") /\ subscribers' = {}
        /\ UNCHANGED <<database, objects, refs, job, polling>>
    BY <1>3 DEF DestroyClient
  <2>2. pc'["main"] = "exit" /\ \A t \in Threads \ {"main"} : pc'[t] = pc[t]
    BY <1>0, <2>1, GotoFacts
  <2>3. \A w \in Workers : pc'[w] = pc[w]
    BY <1>0, <2>2
  <2>4. ObjectsFit' /\ UnusedFits' /\ ObjectsSubscribed' /\ NoStraySubscriber'
    BY <2>1, <2>2 DEF PointersFit, ObjectsFit, UnusedFits, ObjectsSubscribed, NoStraySubscriber,
                      Pointed, database, objects
  <2>5. ASSUME NEW w \in Workers PROVE JobFits(w)' /\ NewFits(w)' /\ LoadFits(w)'
    <3>1. JobFits(w) /\ NewFits(w) /\ LoadFits(w)
      BY DEF PointersFit
    <3> QED
      BY <2>1, <2>2, <2>3, <3>1 DEF JobFits, NewFits, LoadFits, objects, database
  <2>6. PollerFits'
    BY <1>0, <2>1, <2>2 DEF PollerFits, polling, objects
  <2> QED
    BY <2>4, <2>5, <2>6 DEF PointersFit
<1> QED
  BY <1>1, <1>2, <1>3

\* Every step keeps pointers and subscriptions in order.
LEMMA PointersStep ==
  ASSUME IInv, [Next]_vars
  PROVE  PointersFit'
<1>1. CASE UNCHANGED vars
  BY <1>1 DEF vars, database, objects, mqtt, polling, IInv, PointersFit, ObjectsFit, JobFits, NewFits,
              LoadFits, UnusedFits, PollerFits, ObjectsSubscribed, NoStraySubscriber, Pointed, At
<1>2. CASE \E w \in Workers : Order(w) \/ Work(w) \/ Release(w)
  BY <1>2, OrderStep, WorkStep, ReleaseStep, ThreadFacts
<1>3. CASE DispatcherStep
  BY <1>3, DispatcherFits, HaltStep, ReleaseStep, ThreadFacts DEF DispatcherStep, PopUnknown
<1>4. CASE Poll \/ PollerStep \/ Sync \/ Release("syncer")
  BY <1>4, RoundStep, AskStep, AnsweredStep, ReleaseStep, ThreadFacts DEF PollerStep
<1>5. CASE Signal \/ MainStep \/ Overrun \/ Crash \/ Start
  BY <1>5, MainThreadStep, StartStep, HaltStep, ReleaseStep, ThreadFacts
     DEF MainStep, Overrun, Exit, Crash
<1>6. CASE \/ Disconnect \/ Connect
           \/ \E topic \in Topics : Arrive(topic)
           \/ \E s \in batch : Push(s)
  BY <1>6, NetworkStep
<1> QED
  BY <1>1, <1>2, <1>3, <1>4, <1>5, <1>6 DEF Next

-----------------------------------------------------------------------------
(* main, and the broker. *)

\* A step of another thread leaves main and the connection alone.
LEMMA OtherThread ==
  ASSUME TypeOK, NEW t \in Threads \ {"main"}, NEW step, Goto(t, step)
  PROVE  pc'["main"] = pc["main"]
  BY GotoFacts, ThreadFacts

LEMMA ReleaseKeepsMain ==
  ASSUME TypeOK, NEW t \in Threads, Release(t)
  PROVE  /\ connected' = connected /\ subscribers' \subseteq subscribers
         /\ pc[t] \in {"release", "deleting", "reloaded", "written"}
         /\ \A u \in Threads \ {t} : pc'[u] = pc[u]
         /\ t = "main" => pc'["main"] \in {pc["main"], "unloaded"}
<1>1. PICK d \in Ids : LetGo(t, d) \/ EraseRows(t, d) \/ Destroy(t, d)
  BY DEF Release
<1>2. LeaveRef(t, d) \/ UNCHANGED pc
  BY <1>1 DEF LetGo, EraseRows, Destroy
<1>3. Goto(t, After(t)) \/ UNCHANGED pc
  BY <1>2 DEF LeaveRef
<1>4. t = "main" => After(t) = "unloaded"
  BY ThreadFacts DEF After
<1>5. connected' = connected /\ subscribers' \subseteq subscribers
  BY <1>1 DEF LetGo, EraseRows, Destroy, mqtt, Unsubscribe
<1> QED
  BY <1>3, <1>4, <1>5, GotoFacts DEF Release

LEMMA WorkKeepsMain ==
  ASSUME TypeOK, NEW w \in Workers, Work(w) \/ Order(w)
  PROVE  /\ connected' = connected /\ pc'["main"] = pc["main"]
         /\ pc[w] \in WorkerSteps \/ pc["main"] \in {"run", "threads", "mqtt"}
         /\ At("main", "exit") => subscribers' \subseteq subscribers
<1>0. w \in Threads \ {"main"}
  BY ThreadFacts
<1>1. CASE Work(w)
  <2>1. \E step \in WorkerSteps : Goto(w, step)
    BY <1>1 DEF Work, Load, LoadFails, Insert, UpdateDevice, Select, Prepare, Store, Abandon,
                FindPrio, ReadPrio, WritePrio, Get, WorkerSteps
  <2>2. pc[w] \in WorkerSteps
    BY <1>1 DEF Work, Load, LoadFails, Insert, UpdateDevice, Select, Prepare, Store, Abandon,
                FindPrio, ReadPrio, WritePrio, Get, At, WorkerSteps
  <2>3. UNCHANGED mqtt \/ (\E s : Subscribe(s) \/ Unsubscribe(s))
    BY <1>1 DEF Work, Load, LoadFails, Insert, UpdateDevice, Select, Prepare, Store, Abandon,
                FindPrio, ReadPrio, WritePrio, Get
  <2>4. connected' = connected /\ (At("main", "exit") => subscribers' \subseteq subscribers)
    BY <2>3 DEF mqtt, Subscribe, Unsubscribe
  <2> QED
    BY <1>0, <2>1, <2>2, <2>4, OtherThread
<1>2. CASE Order(w)
  <2>1. Goto(w, "load") \/ Goto(w, "update") \/ Goto(w, "prio") \/ Goto(w, "deleting")
    BY <1>2 DEF Order, Create, Set, SetPrio, Delete
  <2>2. /\ connected' = connected /\ subscribers' = subscribers
        /\ pc["main"] \in {"run", "threads", "mqtt"}
    BY <1>2 DEF Order, Create, Set, SetPrio, Delete, Command, mqtt
  <2> QED
    BY <1>0, <2>1, <2>2, OtherThread
<1> QED
  BY <1>1, <1>2

LEMMA MainStepFits ==
  ASSUME IInv, [Next]_vars
  PROVE  MainFits'
<1> USE DEF IInv, At, Up
<1>0. /\ MainFits /\ Workers \subseteq Threads \ {"poller", "syncer", "dispatcher", "main"}
      /\ {"poller", "syncer", "dispatcher", "main"} \subseteq Threads
  BY ThreadFacts
<1>1. CASE UNCHANGED vars
  BY <1>0, <1>1 DEF MainFits, vars, mqtt
<1>3. ASSUME Up, pc'["main"] = pc["main"], connected' = connected,
             At("main", "exit") => subscribers' \subseteq subscribers
      PROVE  MainFits'
  BY <1>0, <1>3 DEF MainFits
<1>4. CASE \E w \in Workers : Order(w) \/ Work(w) \/ Release(w)
  <2>1. PICK w \in Workers : Order(w) \/ Work(w) \/ Release(w)
    BY <1>4
  <2>2. /\ connected' = connected /\ pc'["main"] = pc["main"]
        /\ At("main", "exit") => subscribers' \subseteq subscribers
        /\ pc[w] \in WorkerSteps \/ pc["main"] \in {"run", "threads", "mqtt"}
    BY <1>0, <2>1, WorkKeepsMain, ReleaseKeepsMain DEF WorkerSteps
  <2>3. Up
    BY <1>0, <2>2 DEF MainFits, WorkerSteps
  <2> QED
    BY <1>3, <2>2, <2>3
<1>5. ASSUME NEW t \in {"poller", "syncer", "dispatcher"}, Release(t) PROVE MainFits'
  <2>1. Up
    BY <1>0, <1>5, ReleaseKeepsMain DEF MainFits
  <2> QED
    BY <1>0, <1>3, <1>5, <2>1, ReleaseKeepsMain
<1>6. ASSUME NEW t \in {"poller", "syncer", "dispatcher"}, NEW step, Goto(t, step),
             pc[t] \notin {"down", "aborted"}, connected' = connected, subscribers' \subseteq subscribers
      PROVE  MainFits'
  <2>1. Up
    BY <1>0, <1>6 DEF MainFits
  <2>2. \A u \in Threads \ {t} : pc'[u] = pc[u]
    BY <1>0, <1>6, GotoFacts
  <2> QED
    BY <1>0, <1>3, <1>6, <2>1, <2>2
<1>7. ASSUME NEW step \in {"down", "aborted"}, Halt(step) PROVE MainFits'
  BY <1>0, <1>7 DEF MainFits, Halt
<1>8. CASE DispatcherStep
  <2>1. CASE PopStop
    BY <1>6, <2>1 DEF PopStop, mqtt
  <2>2. CASE Pop
    BY <1>6, <2>2 DEF Pop, mqtt
  <2>3. CASE DispatchMQTTMessage
    BY <1>6, <2>3 DEF DispatchMQTTMessage, mqtt
  <2> QED
    BY <1>5, <1>7, <1>8, <2>1, <2>2, <2>3 DEF DispatcherStep, PopUnknown
<1>9. CASE Poll \/ PollerStep \/ Sync \/ Release("syncer")
  <2>1. CASE Poll \/ Sync
    BY <1>6, <2>1 DEF Poll, Sync, Collect, mqtt
  <2>2. CASE \E d \in todo : Ask(d)
    BY <1>6, <2>2 DEF Ask, mqtt
  <2>3. CASE Answered \/ Ended
    BY <1>6, <2>3 DEF Answered, Ended, Unsubscribe, mqtt
  <2> QED
    BY <1>5, <1>9, <2>1, <2>2, <2>3 DEF PollerStep
<1>10. CASE Signal \/ ShutdownMqtt \/ ShutdownServer
  <2>1. /\ \/ Goto("main", "threads") /\ pc["main"] = "run" /\ UNCHANGED mqtt
           \/ Goto("main", "mqtt") /\ connected' = FALSE
           \/ Goto("main", "ws") /\ pc["main"] = "mqtt" /\ UNCHANGED mqtt
    BY <1>10 DEF Signal, ShutdownMqtt, ShutdownServer
  <2>2. pc'["main"] \in {"threads", "mqtt", "ws"} /\ (pc'["main"] # "threads" => ~ connected')
    BY <1>0, <2>1, GotoFacts DEF MainFits, mqtt
  <2> QED
    BY <2>2 DEF MainFits
<1>11. CASE Unload
  <2>1. /\ Goto("main", IF devices = {} THEN "unloaded" ELSE "release") /\ UNCHANGED mqtt
        /\ pc["main"] = "ws"
    BY <1>11 DEF Unload
  <2>2. pc'["main"] \in {"unloaded", "release"}
    BY <1>0, <2>1, GotoFacts
  <2> QED
    BY <1>0, <2>1, <2>2 DEF MainFits, mqtt
<1>12. CASE DestroyClient
  <2>1. /\ Goto("main", "exit") /\ pc["main"] = "unloaded" /\ subscribers' = {} /\ connected' = connected
    BY <1>12 DEF DestroyClient
  <2>2. pc'["main"] = "exit"
    BY <1>0, <2>1, GotoFacts
  <2> QED
    BY <1>0, <2>1, <2>2 DEF MainFits
<1>13. CASE Release("main")
  <2>1. /\ connected' = connected /\ subscribers' \subseteq subscribers
        /\ pc["main"] \in {"release", "deleting", "reloaded", "written"}
        /\ pc'["main"] \in {pc["main"], "unloaded"}
    BY <1>0, <1>13, ReleaseKeepsMain
  <2>2. pc["main"] = "release"
    BY <2>1, StepsFacts DEF TypeOK
  <2> QED
    BY <1>0, <2>1, <2>2 DEF MainFits
<1>14. CASE Start
  <2>1. pc'["main"] = "run"
    BY <1>0, <1>14 DEF Start, FirstStep
  <2> QED
    BY <2>1 DEF MainFits
<1>15. CASE \/ Disconnect \/ Connect
            \/ \E topic \in Topics : Arrive(topic)
            \/ \E s \in batch : Push(s)
  <2>1. /\ UNCHANGED <<pc, subscribers, refs>>
        /\ connected' => connected \/ pc["main"] \in {"run", "threads"}
    BY <1>15 DEF Disconnect, Connect, Arrive, Push, mqtt
  <2> QED
    BY <1>0, <2>1 DEF MainFits
<1> QED
  BY <1>1, <1>4, <1>5, <1>7, <1>8, <1>9, <1>10, <1>11, <1>12, <1>13, <1>14, <1>15
     DEF Next, MainStep, Overrun, Exit, Crash

-----------------------------------------------------------------------------
(* The server and the subscribers. *)

LEMMA SubscriptionKeepsBroker ==
  ASSUME BrokerFollowsSubscribers, NEW s, Subscribe(s) \/ Unsubscribe(s) \/ UNCHANGED mqtt
  PROVE  BrokerFollowsSubscribers'
<1>1. CASE Subscribe(s)
  BY <1>1 DEF Subscribe, BrokerFollowsSubscribers
<1>2. CASE Unsubscribe(s)
  BY <1>2 DEF Unsubscribe, BrokerFollowsSubscribers
<1>3. CASE UNCHANGED mqtt
  BY <1>3 DEF mqtt, BrokerFollowsSubscribers
<1> QED
  BY <1>1, <1>2, <1>3

\* A thread that lets go of a device, or that works for a command, leaves the
\* connection alone.
LEMMA ThreadsKeepBroker ==
  ASSUME BrokerFollowsSubscribers, NEW t, Release(t) \/ Work(t) \/ Order(t)
  PROVE  BrokerFollowsSubscribers'
<1>1. CASE Release(t)
  <2>1. PICK d \in Ids : LetGo(t, d) \/ EraseRows(t, d) \/ Destroy(t, d)
    BY <1>1 DEF Release
  <2>2. UNCHANGED mqtt \/ Unsubscribe(config[d])
    BY <2>1 DEF LetGo, EraseRows, Destroy
  <2> QED
    BY <2>2, SubscriptionKeepsBroker
<1>2. CASE Work(t)
  <2>1. \/ UNCHANGED mqtt
        \/ \E s : Subscribe(s) \/ Unsubscribe(s)
    BY <1>2 DEF Work, Load, LoadFails, Insert, UpdateDevice, Select, Prepare, Store, Abandon,
                FindPrio, ReadPrio, WritePrio, Get
  <2> QED
    BY <2>1, SubscriptionKeepsBroker
<1>3. CASE Order(t)
  <2>1. UNCHANGED mqtt
    BY <1>3 DEF Order, Delete, Create, Set, SetPrio
  <2> QED
    BY <2>1, SubscriptionKeepsBroker
<1> QED
  BY <1>1, <1>2, <1>3

LEMMA BrokerStep ==
  ASSUME IInv, [Next]_vars
  PROVE  BrokerFollowsSubscribers'
<1>0. BrokerFollowsSubscribers /\ MainFits
  BY DEF IInv
<1>1. CASE UNCHANGED vars
  BY <1>0, <1>1, SubscriptionKeepsBroker DEF vars
<1>2. CASE Disconnect \/ ShutdownMqtt
  BY <1>2 DEF Disconnect, ShutdownMqtt, BrokerFollowsSubscribers
<1>3. CASE Connect
  BY <1>3 DEF Connect, BrokerFollowsSubscribers
<1>4. CASE Start
  BY <1>4 DEF Start, BrokerFollowsSubscribers
<1>5. CASE PopUnknown \/ Overrun \/ Exit \/ Crash
  BY <1>5 DEF PopUnknown, Overrun, Exit, Crash, Halt, BrokerFollowsSubscribers
<1>6. CASE DestroyClient
  \* There is no connection left.
  <2>1. ~ connected
    BY <1>0, <1>6 DEF DestroyClient, MainFits, At
  <2> QED
    BY <1>0, <1>6, <2>1 DEF DestroyClient, BrokerFollowsSubscribers
<1>7. CASE Answered
  <2>1. UNCHANGED mqtt \/ Unsubscribe(held)
    BY <1>7 DEF Answered
  <2> QED
    BY <1>0, <2>1, SubscriptionKeepsBroker
<1>8. CASE \E t : Release(t) \/ Work(t) \/ Order(t)
  BY <1>0, <1>8, ThreadsKeepBroker
<1>9. CASE \/ \E topic \in Topics : Arrive(topic)
           \/ \E s \in batch : Push(s)
           \/ PopStop \/ Pop \/ DispatchMQTTMessage
           \/ Poll \/ (\E d \in todo : Ask(d)) \/ Ended \/ Sync
           \/ Signal \/ ShutdownServer \/ Unload
  <2>1. UNCHANGED mqtt
    BY <1>9 DEF Arrive, Push, PopStop, Pop, DispatchMQTTMessage, Poll, Ask, Ended, Sync,
                Signal, ShutdownServer, Unload
  <2> QED
    BY <1>0, <2>1, SubscriptionKeepsBroker
<1> QED
  BY <1>1, <1>2, <1>3, <1>4, <1>5, <1>6, <1>7, <1>8, <1>9
     DEF Next, DispatcherStep, PollerStep, MainStep

-----------------------------------------------------------------------------
(* Theorems. *)

LEMMA InitFits == Init => IInv
<1> SUFFICES ASSUME Init PROVE IInv
  OBVIOUS
<1> USE DEF Init, At, Up
<1>1. TypeOK
  <2>1. unused \subseteq Ids /\ rows \in [Ids -> Topics \cup {None}]
    BY RegistryAssumption
  <2>2. job \in [Workers -> Job] /\ orders \in 0..MaxOrders /\ faults \in 0..MaxFaults
    BY NoJobType, RegistryAssumption
  <2>3. StepsOK
    BY ThreadFacts, StepsFacts DEF StepsOK
  <2>4. queue \in Seq(Subscriber \cup {Stop})
    OBVIOUS
  <2> QED
    BY <2>1, <2>2, <2>3, <2>4 DEF TypeOK, StepsOK
<1>2. MainFits /\ BrokerFollowsSubscribers
  BY ThreadFacts DEF MainFits, BrokerFollowsSubscribers
<1>3. PointersFit
  <2>1. ObjectsFit /\ ObjectsSubscribed /\ NoStraySubscriber /\ UnusedFits
    BY DEF ObjectsFit, ObjectsSubscribed, Pointed, NoStraySubscriber, UnusedFits
  <2>2. \A w \in Workers : JobFits(w) /\ NewFits(w) /\ LoadFits(w)
    BY ThreadFacts, NoJobType DEF JobFits, NewFits, LoadFits
  <2>3. PollerFits
    BY ThreadFacts DEF PollerFits
  <2> QED
    BY <2>1, <2>2, <2>3 DEF PointersFit
<1> QED
  BY <1>1, <1>2, <1>3 DEF IInv

\* The inductive invariant holds in every state, whatever the threads do, when
\* the connection is lost or the program crashes.
THEOREM Invariant == Spec => []IInv
<1>1. ASSUME IInv, [Next]_vars PROVE IInv'
  <2>1. TypeOK'
    BY <1>1, TypesOfIInv, TypeStep
  <2> QED
    BY <1>1, <2>1, MainStepFits, BrokerStep, PointersStep DEF IInv
<1> QED
  BY <1>1, InitFits, PTL DEF Spec

\* Type correctness: the queue holds subscribers and the message to stop only, no
\* thread is at another thread's step, and sensors are made with a stored topic.
THEOREM TypeCorrect == Spec => []TypeOK
<1>1. IInv => TypeOK
  BY DEF IInv
<1> QED
  BY <1>1, Invariant, PTL

\* The server sends exactly the topics somebody subscribes to, whichever sensors
\* share a topic and in whichever order they come and go.
THEOREM BrokerFollows == Spec => []BrokerFollowsSubscribers
<1>1. IInv => BrokerFollowsSubscribers
  BY DEF IInv
<1> QED
  BY <1>1, Invariant, PTL

\* A device that can be found gets its messages while there is a connection:
\* reloads by several workers, deletions and reconnections leave it subscribed.
THEOREM DevicesAreHeard == Spec => []LoadedDevicesAreHeard
<1>1. ASSUME IInv, connected, NEW d \in devices
      PROVE  config[d] \in subscribers /\ config[d].topic \in broker
  <2>1. d \in Ids /\ ~ At("main", "exit")
    BY <1>1 DEF IInv, TypeOK, MainFits, At
  <2>2. config[d] \in subscribers
    BY <1>1, <2>1 DEF IInv, PointersFit, ObjectsSubscribed, Pointed
  <2> QED
    BY <1>1, <2>2 DEF IInv, BrokerFollowsSubscribers
<1>2. IInv => LoadedDevicesAreHeard
  BY <1>1 DEF LoadedDevicesAreHeard
<1> QED
  BY <1>2, Invariant, PTL

\* No sensor stays subscribed that nobody can reach: one destroyed with its
\* configuration, or whose reload was abandoned, has unsubscribed.
THEOREM NoneIsStray == Spec => []NoStraySubscriber
<1>1. IInv => NoStraySubscriber
  BY DEF IInv, PointersFit
<1> QED
  BY <1>1, Invariant, PTL

-----------------------------------------------------------------------------
(* Rows and devices. *)

\* A worker that has stored the row of a device that is not in the map yet is the
\* only one to know of it, and it is not an old one.
MakingFits(w) ==
  Making(w) =>
    /\ rows[job[w].device] # None
    /\ job[w].device \notin unused \cup devices \cup deleted
    /\ \A v \in Workers : Making(v) /\ job[v].device = job[w].device => v = w

\* An identifier that was not given has no row and no device; a device that can be
\* found has its row and is not deleted; a start finds no object of the last run.
RowsFit ==
  /\ \A d \in unused : rows[d] = None /\ d \notin devices \cup deleted
  /\ \A d \in devices : rows[d] # None /\ d \notin deleted
  /\ \A w \in Workers : MakingFits(w)
  /\ ~ Up => deleted = {}

\* A step that makes, finds and deletes no device: rows may change, but neither
\* come nor go.
LEMMA SameRows ==
  ASSUME IInv, RowsFit, UNCHANGED <<unused, devices, deleted>>,
         \A d \in Ids : rows'[d] = None <=> rows[d] = None,
         \A w \in Workers : Making(w)' => Making(w) /\ job'[w].device = job[w].device,
         ~ Up' => ~ Up
  PROVE  RowsFit'
<1>0. unused \subseteq Ids /\ devices \subseteq Ids
  BY DEF IInv, TypeOK
<1>1. ASSUME NEW w \in Workers, Making(w)' PROVE MakingFits(w)'
  <2>1. job[w].device \in Ids /\ Making(w) /\ MakingFits(w) /\ job'[w].device = job[w].device
    BY <1>1 DEF IInv, PointersFit, JobFits, Making, RowsFit
  <2>2. rows'[job'[w].device] # None
    BY <2>1 DEF MakingFits
  <2> QED
    BY <2>1, <2>2 DEF MakingFits
<1>2. (~ Up => deleted = {})'
  BY DEF RowsFit
<1>3. \A w \in Workers : MakingFits(w)'
  BY <1>1 DEF MakingFits
<1>4. /\ \A d \in unused' : rows'[d] = None /\ d \notin devices' \cup deleted'
      /\ \A d \in devices' : rows'[d] # None /\ d \notin deleted'
  BY <1>0 DEF RowsFit
<1> QED
  BY <1>2, <1>3, <1>4 DEF RowsFit

\* The steps of an API worker.
LEMMA CommandRows ==
  ASSUME IInv, RowsFit, NEW w \in Workers, Order(w)
  PROVE  RowsFit'
<1>0. /\ w \in Threads /\ Workers \subseteq Threads \ {"main"} /\ "main" \in Threads
      /\ At(w, "idle") /\ w # "main"
  <2>1. At(w, "idle")
    BY DEF Order, Delete, Create, Set, SetPrio, Command
  <2> QED
    BY <2>1, ThreadFacts
<1>1. ASSUME NEW step, Goto(w, step)
      PROVE  /\ pc'[w] = step /\ \A t \in Threads \ {w} : pc'[t] = pc[t]
             /\ pc'["main"] = pc["main"]
  BY <1>0, <1>1, GotoFacts DEF IInv
<1>2. CASE \E d \in Ids : Delete(w, d)
  <2>1. PICK d \in Ids : Delete(w, d)
    BY <1>2
  <2>2. /\ d \in devices /\ deleted' = deleted \cup {d} /\ devices' = devices \ {d}
        /\ UNCHANGED <<rows, unused, job>>
        /\ pc'[w] = "deleting" /\ \A t \in Threads \ {w} : pc'[t] = pc[t]
        /\ pc'["main"] = pc["main"]
    BY <1>1, <2>1 DEF Delete, database
  <2>3. ASSUME NEW v \in Workers, Making(v)' PROVE Making(v) /\ MakingFits(v)'
    <3>1. Making(v) /\ MakingFits(v) /\ v # w
      BY <1>0, <2>2, <2>3 DEF Making, At, RowsFit
    <3>2. job[v].device # d
      BY <2>2, <3>1 DEF MakingFits
    <3> QED
      BY <1>0, <2>2, <3>1, <3>2 DEF MakingFits, Making, At
  <2>4. Up
    BY <1>2 DEF Delete, Command, Up
  <2>5. Up'
    BY <2>2, <2>4 DEF Up
  <2> QED
    BY <2>2, <2>3, <2>5 DEF RowsFit, MakingFits
<1>3. ASSUME NEW d \in Ids, NEW topic \in Topics, Create(w, d, topic) PROVE RowsFit'
  <2>1. /\ d \in unused /\ unused' = unused \ {d} /\ rows' = [rows EXCEPT ![d] = topic]
        /\ job' = [job EXCEPT ![w] = [NoJob EXCEPT !.device = d, !.topic = topic]]
        /\ pc'[w] = "load" /\ (\A t \in Threads \ {w} : pc'[t] = pc[t])
        /\ pc'["main"] = pc["main"] /\ UNCHANGED <<devices, deleted>>
    BY <1>1, <1>3 DEF Create, objects
  <2>2. /\ job'[w].device = d /\ \A v \in Workers \ {w} : job'[v] = job[v]
    BY <2>1 DEF NoJob, IInv, TypeOK
  <2>3. /\ rows'[d] = topic /\ topic # None /\ \A e \in Ids \ {d} : rows'[e] = rows[e]
    BY <2>1, RegistryAssumption DEF IInv, TypeOK
  <2>4. d \notin devices \cup deleted /\ rows[d] = None
    BY <2>1 DEF RowsFit
  <2>5. ASSUME NEW v \in Workers, Making(v), v # w
        PROVE  /\ job[v].device # d /\ job[v].device \in Ids /\ job'[v] = job[v] /\ MakingFits(v)
    BY <2>1, <2>2, <2>5 DEF RowsFit, MakingFits, IInv, PointersFit, JobFits, Making
  <2>6. \A v \in Workers \ {w} : Making(v)' <=> Making(v)
    BY <1>0, <2>1 DEF Making
  <2>7. ASSUME NEW v \in Workers, Making(v)' PROVE MakingFits(v)'
    <3>1. CASE v = w
      BY <2>1, <2>2, <2>3, <2>4, <2>5, <2>6, <3>1 DEF MakingFits
    <3>2. CASE v # w
      BY <2>1, <2>2, <2>3, <2>5, <2>6, <2>7, <3>2 DEF MakingFits
    <3> QED
      BY <3>1, <3>2
  <2>10. (~ Up => deleted = {})'
    BY <2>1 DEF RowsFit, Up
  <2>11. /\ \A e \in unused' : rows'[e] = None /\ e \notin devices' \cup deleted'
         /\ \A e \in devices' : rows'[e] # None /\ e \notin deleted'
    BY <2>1, <2>3, <2>4 DEF RowsFit, IInv, TypeOK
  <2> QED
    BY <2>7, <2>10, <2>11 DEF RowsFit, MakingFits
<1>4. ASSUME NEW step, Goto(w, step), step \in {"update", "prio"},
             NEW j, job' = [job EXCEPT ![w] = j], UNCHANGED <<database, objects>>
      PROVE  RowsFit'
  <2>1. /\ \A v \in Workers \ {w} : pc'[v] = pc[v] /\ job'[v] = job[v]
        /\ pc'["main"] = pc["main"] /\ pc'[w] = step /\ job'[w] = j
    BY <1>0, <1>1, <1>4 DEF IInv, TypeOK
  <2>2. \A v \in Workers : Making(v)' => Making(v) /\ job'[v].device = job[v].device
    BY <1>0, <1>4, <2>1 DEF Making
  <2> QED
    BY <1>4, <2>1, <2>2, SameRows DEF database, objects, Up
<1>5. ASSUME NEW d \in Ids, NEW topic \in Topics, Set(w, d, topic) PROVE RowsFit'
  BY <1>4, <1>5 DEF Set
<1>6. ASSUME NEW S \in SUBSET Ids, SetPrio(w, S) PROVE RowsFit'
  BY <1>4, <1>6 DEF SetPrio
<1> QED
  BY <1>2, <1>3, <1>5, <1>6 DEF Order

\* A worker goes on with its command.
LEMMA WorkerRows ==
  ASSUME IInv, RowsFit, NEW w \in Workers, NEW step, Goto(w, step),
         NEW j, job' = [job EXCEPT ![w] = j],
         step \notin {"load", "insert"},
         UNCHANGED <<unused, devices, deleted>>,
         \A d \in Ids : rows'[d] = None <=> rows[d] = None
  PROVE  RowsFit'
<1>1. /\ w \in Threads /\ Workers \subseteq Threads /\ "main" \in Threads \ {w}
  BY ThreadFacts
<1>2. pc'[w] = step /\ pc'["main"] = pc["main"] /\ \A v \in Workers \ {w} : pc'[v] = pc[v]
  BY <1>1, GotoFacts DEF IInv
<1>3. \A v \in Workers \ {w} : job'[v] = job[v]
  BY JobFacts DEF IInv
<1>4. \A v \in Workers : Making(v)' => Making(v) /\ job'[v].device = job[v].device
  BY <1>2, <1>3 DEF Making
<1> QED
  BY <1>2, <1>4, SameRows DEF Up

LEMMA WorkRows ==
  ASSUME IInv, RowsFit, NEW w \in Workers, Work(w)
  PROVE  RowsFit'
<1>0. /\ w \in Threads /\ Workers \subseteq Threads /\ "main" \in Threads \ {w} /\ TypeOK
      /\ JobFits(w) /\ job = [job EXCEPT ![w] = job[w]]
  BY ThreadFacts DEF IInv, PointersFit, TypeOK
<1>1. CASE Load(w)
  <2>1. pc[w] = "load" /\ Goto(w, "insert") /\ UNCHANGED <<database, devices, deleted, job>>
    BY <1>1 DEF Load, At
  <2>2. pc'[w] = "insert" /\ pc'["main"] = pc["main"] /\ \A v \in Workers \ {w} : pc'[v] = pc[v]
    BY <1>0, <2>1, GotoFacts
  <2>3. \A v \in Workers : Making(v)' => Making(v)
    BY <2>1, <2>2 DEF Making
  <2> QED
    BY <2>1, <2>2, <2>3, SameRows DEF Up, database
<1>2. CASE Insert(w)
  <2> DEFINE d == job[w].device
  <2>1. /\ pc[w] = "insert" /\ Goto(w, "release") /\ devices' = devices \cup {d}
        /\ job' = [job EXCEPT ![w] = NoJob] /\ UNCHANGED <<rows, unused, deleted>>
    BY <1>2 DEF Insert, At, database
  <2>2. pc'[w] = "release" /\ pc'["main"] = pc["main"] /\ \A v \in Workers \ {w} : pc'[v] = pc[v]
    BY <1>0, <2>1, GotoFacts
  <2>3. \A v \in Workers \ {w} : job'[v] = job[v]
    BY <1>0, <2>1, JobFacts
  <2>4. Making(w) /\ MakingFits(w)
    BY <2>1 DEF Making, RowsFit
  <2>5. /\ rows[d] # None /\ d \notin unused \cup deleted
        /\ \A v \in Workers \ {w} : Making(v) => job[v].device # d
    BY <2>4 DEF MakingFits
  <2>6. ASSUME NEW v \in Workers, Making(v)' PROVE MakingFits(v)'
    <3>1. v # w /\ Making(v) /\ MakingFits(v)
      BY <2>2, <2>6 DEF Making, RowsFit
    <3> QED
      BY <2>1, <2>2, <2>3, <2>5, <3>1 DEF MakingFits, Making
  <2>9. ~ Up' => deleted' = {}
    BY <2>1, <2>2 DEF RowsFit, Up
  <2> QED
    BY <2>1, <2>5, <2>6, <2>9 DEF RowsFit, MakingFits
<1>3. CASE UpdateDevice(w)
  <2>1. pc[w] = "update" /\ job[w].topic \in Topics
    BY <1>0, <1>3 DEF UpdateDevice, At, JobFits
  <2>2. \A d \in Ids : rows'[d] = None <=> rows[d] = None
    BY <1>0, <1>3, <2>1, RegistryAssumption DEF UpdateDevice, TypeOK
  <2> QED
    BY <1>0, <1>3, <2>1, <2>2, WorkerRows DEF UpdateDevice, objects
<1>4. CASE (\E d \in Ids : FindPrio(w, d)) \/ ReadPrio(w) \/ LoadFails(w)
  <2>1. UNCHANGED <<database, objects>>
    BY <1>4 DEF FindPrio, ReadPrio, LoadFails
  <2>2. PICK step \in {"idle", "read", "write", "release"} : Goto(w, step)
    BY <1>4 DEF FindPrio, ReadPrio, LoadFails
  <2>3. PICK j : job' = [job EXCEPT ![w] = j]
    BY <1>4 DEF FindPrio, ReadPrio, LoadFails
  <2> QED
    BY <2>1, <2>2, <2>3, WorkerRows DEF database, objects
<1>8. CASE WritePrio(w)
  <2>1. pc[w] = "write" /\ job[w].topic \in Topics
    BY <1>0, <1>8 DEF WritePrio, At, JobFits
  <2>2. \A d \in Ids : rows'[d] = None <=> rows[d] = None
    BY <1>0, <1>8, <2>1, RegistryAssumption DEF WritePrio, TypeOK
  <2>3. PICK j : job' = [job EXCEPT ![w] = j]
    BY <1>8 DEF WritePrio
  <2> QED
    <3>1. UNCHANGED <<unused, devices, deleted>>
      BY <1>8 DEF WritePrio, objects
    <3>2. PICK step \in {"written"} : Goto(w, step)
      BY <1>8 DEF WritePrio
    <3> QED  BY <2>2, <2>3, <3>1, <3>2, WorkerRows
<1>5. CASE Select(w)
  <2>1. pc[w] = "select" /\ UNCHANGED <<database, objects>>
    BY <1>5 DEF Select, At
  <2>2. \/ job' = [job EXCEPT ![w] = NoJob] /\ Goto(w, "idle")
        \/ /\ \E found : job' = [job EXCEPT ![w] = [job[w] EXCEPT !.todo = found]]
           /\ Goto(w, "next")
    BY <1>5 DEF Select
  <2>3. PICK step \in {"idle", "next"} :
          Goto(w, step) /\ \E j : job' = [job EXCEPT ![w] = j]
    BY <2>2
  <2>4. UNCHANGED <<unused, devices, deleted, rows>>
    BY <2>1 DEF database, objects
  <2>5. PICK j : job' = [job EXCEPT ![w] = j]
    BY <2>3
  <2> QED
    BY <2>3, <2>4, <2>5, WorkerRows
<1>6. ASSUME NEW row \in job[w].todo, Get(w, row) PROVE RowsFit'
  <2>1. pc[w] = "next" /\ UNCHANGED <<database, objects>>
    BY <1>6 DEF Get, At
  <2>2. \/ job' = [job EXCEPT ![w] = NoJob] /\ Goto(w, "idle")
        \/ /\ job' = [job EXCEPT ![w] = [job[w] EXCEPT !.device = row.device, !.topic = row.topic,
                                                       !.todo = @ \ {row}]]
           /\ Goto(w, "prepare")
    BY <1>6 DEF Get
  <2>3. PICK j : job' = [job EXCEPT ![w] = j]
    BY <2>2
  <2>4. /\ UNCHANGED <<unused, devices, deleted>>
        /\ \A d \in Ids : rows'[d] = None <=> rows[d] = None
    BY <2>1 DEF database, objects
  <2>5. PICK step \in {"idle", "prepare"} : Goto(w, step)
    BY <2>2
  <2>6. step \notin {"load", "insert"}
    OBVIOUS
  <2> HIDE <2>2
  <2> QED
    BY <2>3, <2>4, <2>5, <2>6, WorkerRows
<1>7. CASE Prepare(w) \/ Store(w) \/ Abandon(w)
  <2>1. pc[w] \in {"prepare", "store"} /\ UNCHANGED <<database, devices, deleted>>
    BY <1>7 DEF Prepare, Store, Abandon, At, objects
  <2>2. \/ /\ \E s : job' = [job EXCEPT ![w] = [job[w] EXCEPT !.new = s]]
           /\ Goto(w, "store") \/ Goto(w, "reloaded")
        \/ job' = [job EXCEPT ![w] = NoJob] /\ Goto(w, "release")
    BY <1>7 DEF Prepare, Store, Abandon
  <2> QED
    BY <2>1, <2>2, WorkerRows DEF database
<1> QED
  BY <1>1, <1>2, <1>3, <1>4, <1>5, <1>6, <1>7, <1>8 DEF Work

\* A pointer's scope ends, and maybe the device.
LEMMA ReleaseRows ==
  ASSUME IInv, RowsFit, NEW t \in Threads, Release(t)
  PROVE  RowsFit'
<1>1. PICK d \in Ids : LetGo(t, d) \/ EraseRows(t, d) \/ Destroy(t, d)
  BY DEF Release
<1>2. pc[t] \in {"release", "deleting", "reloaded", "written"} /\ Workers \subseteq Threads /\ TypeOK
  BY ThreadFacts DEF Release, IInv
<1>3. CASE EraseRows(t, d)
  <2>1. /\ d \in deleted /\ rows' = [rows EXCEPT ![d] = None]
        /\ UNCHANGED <<unused, devices, deleted, pc, job>>
    BY <1>3 DEF EraseRows, objects
  <2>2. rows'[d] = None /\ \A e \in Ids \ {d} : rows'[e] = rows[e]
    BY <1>2, <2>1 DEF TypeOK
  <2>3. d \notin devices /\ \A w \in Workers : Making(w) => job[w].device \in Ids \ {d}
    BY <2>1 DEF RowsFit, MakingFits, IInv, PointersFit, JobFits, Making
  <2>4. \A w \in Workers : MakingFits(w)'
    BY <2>1, <2>2, <2>3 DEF RowsFit, MakingFits, Making
  <2>6. /\ \A e \in unused' : rows'[e] = None /\ e \notin devices' \cup deleted'
        /\ \A e \in devices' : rows'[e] # None /\ e \notin deleted'
    BY <1>2, <2>1, <2>2, <2>3 DEF RowsFit, TypeOK
  <2> QED
    BY <2>1, <2>4, <2>6 DEF RowsFit, Up
<1>4. ASSUME LeaveRef(t, d), UNCHANGED <<rows, unused, devices>>,
             deleted' \in {deleted, deleted \ {d}}, d \in deleted => deleted' = deleted \/ rows[d] = None
      PROVE  RowsFit'
  <2>1. /\ \A u \in Threads \ {t} : pc'[u] = pc[u]
        /\ t \in Workers => pc'[t] \in {pc[t], "select", "prio", "next", "idle"}
        /\ t = "main" => pc'[t] \in {pc[t], "unloaded"}
        /\ \A w \in Workers \ {t} : job'[w] = job[w]
    BY <1>2, <1>4, LeaveRefFacts
  <2>2. \A w \in Workers : (Making(w)' <=> Making(w)) /\ (Making(w) => job'[w] = job[w])
    BY <1>2, <2>1 DEF Making
  <2>4. ~ Up' => ~ Up
    BY <1>2, <2>1, ThreadFacts DEF Up
  <2>5. \A w \in Workers : MakingFits(w)'
    BY <1>4, <2>2 DEF RowsFit, MakingFits
  <2> QED
    BY <1>4, <2>2, <2>4, <2>5 DEF RowsFit
<1>5. CASE LetGo(t, d)
  BY <1>4, <1>5 DEF LetGo, database, objects
<1>6. CASE Destroy(t, d)
  BY <1>4, <1>6 DEF Destroy, database
<1> QED
  BY <1>1, <1>3, <1>5, <1>6

\* A step of another thread, which neither makes nor finds devices.
LEMMA OtherRows ==
  ASSUME IInv, RowsFit, UNCHANGED <<rows, unused, devices, deleted, job>>,
         \A w \in Workers : pc'[w] = pc[w], ~ Up' => ~ Up
  PROVE  RowsFit'
<1>1. \A w \in Workers : Making(w)' => Making(w)
  BY DEF Making
<1> QED
  BY <1>1, SameRows

\* The program ends, whatever it was at, or starts with what the rows hold.
LEMMA HaltRows ==
  ASSUME IInv, RowsFit, NEW step \in {"down", "aborted"}, Halt(step), UNCHANGED database
  PROVE  RowsFit'
<1>1. /\ \A t \in Threads : pc'[t] = step
      /\ devices' = {} /\ deleted' = {} /\ UNCHANGED <<rows, unused>>
  BY DEF Halt, database
<1>2. Workers \subseteq Threads /\ "main" \in Threads
  BY ThreadFacts
<1> QED
  BY <1>1, <1>2 DEF RowsFit, MakingFits, Making

LEMMA StartRows ==
  ASSUME IInv, RowsFit, Start
  PROVE  RowsFit'
<1>1. /\ ~ Up /\ pc' = FirstStep /\ devices' \subseteq {d \in Ids : rows[d] # None}
      /\ UNCHANGED <<rows, unused, deleted>>
  BY DEF Start, database
<1>2. deleted = {}
  BY <1>1 DEF RowsFit
<1>3. (\A w \in Workers : pc'[w] = "idle") /\ pc'["main"] = "run"
  BY <1>1, ThreadFacts DEF FirstStep
<1>4. \A d \in unused : rows[d] = None
  BY DEF RowsFit
<1> QED
  BY <1>1, <1>2, <1>3, <1>4 DEF RowsFit, MakingFits, Making, Up

\* Every step keeps rows and devices in order.
LEMMA RowsStep ==
  ASSUME IInv, RowsFit, [Next]_vars
  PROVE  RowsFit'
<1>0. /\ Workers \subseteq Threads \ {"poller", "syncer", "dispatcher", "main"}
      /\ {"poller", "syncer", "dispatcher", "main"} \subseteq Threads /\ TypeOK
  BY ThreadFacts DEF IInv
<1>1. ASSUME UNCHANGED <<database, objects, job, pc>> PROVE RowsFit'
  BY <1>1, OtherRows DEF database, objects, Up
<1>2. ASSUME NEW t \in {"poller", "syncer", "dispatcher"}, NEW step, Goto(t, step),
             UNCHANGED <<database, objects, job>>
      PROVE  RowsFit'
  <2>1. \A u \in Threads \ {t} : pc'[u] = pc[u]
    BY <1>0, <1>2, GotoFacts
  <2>2. pc'["main"] = pc["main"] /\ \A w \in Workers : pc'[w] = pc[w]
    BY <1>0, <2>1
  <2> QED
    BY <1>2, <2>2, OtherRows DEF database, objects, Up
<1>3. ASSUME NEW step \in {"threads", "mqtt", "ws", "release", "unloaded", "exit"}, Goto("main", step),
             Up, UNCHANGED <<database, deleted, job>>, devices' = devices \/ devices' = {}
      PROVE  RowsFit'
  <2>1. pc'["main"] = step /\ \A w \in Workers : pc'[w] = pc[w]
    BY <1>0, <1>3, GotoFacts
  <2>2. CASE devices' = devices
    BY <1>3, <2>1, <2>2, OtherRows DEF database, Up
  <2>3. CASE devices' = {}
    <3>1. \A w \in Workers : MakingFits(w)'
      BY <1>3, <2>1, <2>3 DEF RowsFit, MakingFits, Making, database
    <3> QED
      BY <1>3, <2>1, <2>3, <3>1 DEF RowsFit, Up, database
  <2> QED
    BY <1>3, <2>2, <2>3
<1>4. CASE \E w \in Workers : Order(w) \/ Work(w) \/ Release(w)
  BY <1>0, <1>4, CommandRows, WorkRows, ReleaseRows
<1>5. CASE DispatcherStep
  BY <1>0, <1>2, <1>5, ReleaseRows, HaltRows
     DEF DispatcherStep, PopStop, Pop, PopUnknown, DispatchMQTTMessage
<1>6. CASE Poll \/ PollerStep \/ Sync \/ Release("syncer")
  BY <1>0, <1>2, <1>6, ReleaseRows DEF PollerStep, Poll, Ask, Answered, Ended, Sync, Collect
<1>7. CASE Signal \/ ShutdownMqtt \/ ShutdownServer
  <2>1. /\ Up /\ UNCHANGED <<database, deleted, job>> /\ devices' = devices
        /\ Goto("main", "threads") \/ Goto("main", "mqtt") \/ Goto("main", "ws")
    BY <1>7 DEF Signal, ShutdownMqtt, ShutdownServer, At, Up, objects
  <2> QED
    BY <1>3, <2>1
<1>8. CASE Unload
  <2>1. /\ Up /\ devices' = {} /\ UNCHANGED <<database, deleted, job>>
        /\ Goto("main", "unloaded") \/ Goto("main", "release")
    BY <1>8 DEF Unload, At, Up
  <2> QED
    BY <1>3, <2>1
<1>9. CASE DestroyClient
  <2>1. Up /\ Goto("main", "exit") /\ UNCHANGED <<database, deleted, job>> /\ devices' = devices
    BY <1>9 DEF DestroyClient, At, Up, objects
  <2> QED
    BY <1>3, <2>1
<1>10. CASE Overrun \/ Exit \/ Crash \/ Start \/ Release("main")
  BY <1>0, <1>10, HaltRows, StartRows, ReleaseRows DEF Overrun, Exit, Crash
<1>11. CASE \/ Disconnect \/ Connect \/ UNCHANGED vars
            \/ \E topic \in Topics : Arrive(topic)
            \/ \E s \in batch : Push(s)
  BY <1>1, <1>11 DEF Disconnect, Connect, Arrive, Push, vars
<1> QED
  BY <1>4, <1>5, <1>6, <1>7, <1>8, <1>9, <1>10, <1>11 DEF Next, MainStep

LEMMA InitRows == Init => RowsFit
  BY ThreadFacts, RegistryAssumption DEF Init, RowsFit, MakingFits, Making, Up

\* What can be found is in the database: no interleaving of creations, reloads, changes
\* of priority and deletions, no configuration that cannot be loaded, no worker that
\* outlives the server and no crash takes the row of a device that is still in the map.
THEOREM RowsAgree == Spec => []RowsFollowDevices
<1>1. Init => IInv /\ RowsFit
  BY InitFits, InitRows
<1>2. IInv /\ RowsFit /\ [Next]_vars => RowsFit'
  BY RowsStep
<1>3. RowsFit => RowsFollowDevices
  BY DEF RowsFit, RowsFollowDevices
<1> QED
  BY <1>1, <1>2, <1>3, Invariant, PTL DEF Spec

-----------------------------------------------------------------------------
(* The registry implements its table. *)

\* A new device is made of what was stored for it; what is reloaded is none of the
\* new devices; only a reload has rows to do.
StoredFits(w) ==
  /\ At(w, "insert") => config[job[w].device].topic = job[w].topic
  /\ pc[w] \in {"prepare", "store"} =>
       /\ job[w].device \notin unused
       /\ \A v \in Workers : Making(v) => job[v].device # job[w].device
  /\ pc[w] \notin {"next", "prepare", "store", "reloaded"} => job[w].todo = {}

StoredFit == \A w \in Workers : StoredFits(w)

TableInv == IInv /\ RowsFit /\ StoredFit

\* A step of a worker, or of nobody, that leaves alone the devices being made by
\* others.
LEMMA StoredKept ==
  ASSUME TableInv, NEW w \in Workers,
         \A v \in Workers \ {w} : pc'[v] = pc[v] /\ job'[v] = job[v],
         unused' \subseteq unused,
         \A v \in Workers \ {w} : At(v, "insert") =>
           config'[job[v].device] = config[job[v].device],
         StoredFits(w)',
         Making(w)' => \A v \in Workers \ {w} :
           pc[v] \in {"prepare", "store"} => job[v].device # job'[w].device
  PROVE  StoredFit'
<1>1. ASSUME NEW v \in Workers \ {w} PROVE StoredFits(v)'
  <2>1. StoredFits(v) /\ pc'[v] = pc[v] /\ job'[v] = job[v]
    BY <1>1 DEF TableInv, StoredFit
  <2>3. (At(v, "insert") => config[job[v].device].topic = job[v].topic)'
    BY <2>1 DEF StoredFits, At
  <2>4. ASSUME pc'[v] \in {"prepare", "store"}
        PROVE  /\ job'[v].device \notin unused'
               /\ \A u \in Workers : Making(u)' => job'[u].device # job'[v].device
    <3>1. ASSUME NEW u \in Workers, Making(u)' PROVE job'[u].device # job'[v].device
      <4>1. CASE u = w
        BY <2>1, <2>4, <3>1, <4>1
      <4>2. CASE u # w
        BY <2>1, <2>4, <3>1, <4>2 DEF StoredFits, Making
      <4> QED  BY <4>1, <4>2
    <3> QED  BY <2>1, <2>4, <3>1 DEF StoredFits
  <2>5. (pc[v] \notin {"next", "prepare", "store", "reloaded"} => job[v].todo = {})'
    BY <2>1 DEF StoredFits
  <2> QED  BY <2>3, <2>4, <2>5 DEF StoredFits
<1> QED  BY <1>1 DEF StoredFit

\* A worker's step that makes nothing.
LEMMA WorkerStored ==
  ASSUME TableInv, NEW w \in Workers, ~ Making(w)',
         \A v \in Workers \ {w} : pc'[v] = pc[v] /\ job'[v] = job[v],
         unused' = unused,
         \A v \in Workers : At(v, "insert") => config'[job[v].device] = config[job[v].device],
         pc'[w] \in {"prepare", "store"} =>
           /\ job'[w].device \notin unused
           /\ \A v \in Workers : Making(v) => job[v].device # job'[w].device,
         pc'[w] \notin {"next", "prepare", "store", "reloaded"} => job'[w].todo = {}
  PROVE  StoredFit'
<1>1. \A v \in Workers : Making(v)' => Making(v) /\ job'[v] = job[v]
  BY DEF Making
<1>2. StoredFits(w)'
  BY <1>1 DEF StoredFits, At, Making
<1> QED  BY <1>2, StoredKept

\* Devices being made are none of those that can be found, are deleted, or were
\* found by a command.
LEMMA NewDevices ==
  ASSUME TableInv, NEW w \in Workers, Making(w)
  PROVE  /\ job[w].device \in Ids /\ job[w].device \notin unused \cup devices \cup deleted
         /\ rows[job[w].device] # None
         /\ \A v \in Workers : Making(v) /\ job[v].device = job[w].device => v = w
  BY DEF TableInv, RowsFit, MakingFits, IInv, PointersFit, JobFits, Making

\* Where a worker goes, with what.
LEMMA WorkerMoves ==
  ASSUME TypeOK, NEW w \in Workers, NEW step, NEW j, Goto(w, step), job' = [job EXCEPT ![w] = j]
  PROVE  /\ pc'[w] = step /\ job'[w] = j
         /\ \A v \in Workers \ {w} : pc'[v] = pc[v] /\ job'[v] = job[v]
  BY ThreadFacts, GotoFacts, JobFacts

LEMMA OrderStored ==
  ASSUME TableInv, NEW w \in Workers, Order(w)
  PROVE  StoredFit'
<1>1. /\ At(w, "idle") /\ StoredFits(w) /\ TypeOK
      /\ job = [job EXCEPT ![w] = job[w]] /\ job[w].todo = {}
  <2>1. At(w, "idle") /\ StoredFits(w)
    BY DEF Order, Delete, Create, Set, SetPrio, Command, TableInv, StoredFit
  <2> QED  BY <2>1 DEF StoredFits, At, TableInv, IInv, TypeOK
<1>2. ASSUME NEW d \in Ids, Delete(w, d) PROVE StoredFit'
  <2>1. Goto(w, "deleting") /\ UNCHANGED <<rows, unused, config>> /\ job' = job
    BY <1>2 DEF Delete, database
  <2>2. /\ pc'[w] = "deleting" /\ job'[w] = job[w]
        /\ \A v \in Workers \ {w} : pc'[v] = pc[v] /\ job'[v] = job[v]
    BY <1>1, <2>1, WorkerMoves
  <2> QED  BY <1>1, <2>1, <2>2, WorkerStored DEF Making
<1>3. ASSUME NEW d \in Ids, NEW topic \in Topics, Create(w, d, topic) PROVE StoredFit'
  <2> DEFINE j == [NoJob EXCEPT !.device = d, !.topic = topic]
  <2>1. /\ d \in unused /\ unused' = unused \ {d} /\ rows' = [rows EXCEPT ![d] = topic]
        /\ job' = [job EXCEPT ![w] = j] /\ Goto(w, "load") /\ config' = config
    BY <1>3 DEF Create, objects
  <2>2. j.device = d /\ j.topic = topic /\ j.todo = {}
    BY DEF NoJob
  <2> HIDE DEF j
  <2>3. /\ pc'[w] = "load" /\ job'[w] = j
        /\ \A v \in Workers \ {w} : pc'[v] = pc[v] /\ job'[v] = job[v]
    BY <1>1, <2>1, WorkerMoves
  <2>6. \A v \in Workers : pc[v] \in {"prepare", "store"} => job[v].device # d
    BY <2>1 DEF TableInv, StoredFit, StoredFits
  <2>7. StoredFits(w)'
    BY <2>2, <2>3 DEF StoredFits, At
  <2> QED  BY <2>1, <2>2, <2>3, <2>6, <2>7, StoredKept
<1>4. ASSUME NEW d \in Ids, NEW topic \in Topics, Set(w, d, topic) PROVE StoredFit'
  <2> DEFINE j == [NoJob EXCEPT !.device = d, !.topic = topic]
  <2>1. /\ Goto(w, "update") /\ job' = [job EXCEPT ![w] = j]
        /\ UNCHANGED <<rows, unused, config>>
    BY <1>4 DEF Set, database, objects
  <2>2. j.todo = {}
    BY DEF NoJob
  <2> HIDE DEF j
  <2>4. /\ pc'[w] = "update" /\ job'[w] = j
        /\ \A v \in Workers \ {w} : pc'[v] = pc[v] /\ job'[v] = job[v]
    BY <1>1, <2>1, WorkerMoves
  <2> QED  BY <2>1, <2>2, <2>4, WorkerStored DEF Making
<1>5. ASSUME NEW S, SetPrio(w, S) PROVE StoredFit'
  <2> DEFINE j == [NoJob EXCEPT !.left = S]
  <2>1. /\ Goto(w, "prio") /\ job' = [job EXCEPT ![w] = j] /\ UNCHANGED <<rows, unused, config>>
    BY <1>5 DEF SetPrio, database, objects
  <2>2. j.todo = {}
    BY DEF NoJob
  <2> HIDE DEF j
  <2>3. /\ pc'[w] = "prio" /\ job'[w] = j
        /\ \A v \in Workers \ {w} : pc'[v] = pc[v] /\ job'[v] = job[v]
    BY <1>1, <2>1, WorkerMoves
  <2> QED  BY <2>1, <2>2, <2>3, WorkerStored DEF Making
<1> QED  BY <1>2, <1>3, <1>4, <1>5 DEF Order

LEMMA WorkStored ==
  ASSUME TableInv, NEW w \in Workers, Work(w)
  PROVE  StoredFit'
<1>1. /\ StoredFits(w) /\ TypeOK /\ JobFits(w)
      /\ job = [job EXCEPT ![w] = job[w]] /\ NoJob.todo = {}
  BY DEF TableInv, StoredFit, IInv, PointersFit, TypeOK, NoJob
\* A step that writes no configuration, and after which the worker has nothing to
\* prepare.
<1>2. ASSUME NEW step, Goto(w, step), NEW j, job' = [job EXCEPT ![w] = j],
             UNCHANGED <<unused, config>>,
             step \notin {"load", "insert", "prepare", "store"},
             step \in {"next", "reloaded"} \/ j.todo = {}
      PROVE  StoredFit'
  <2>1. /\ pc'[w] = step /\ job'[w] = j
        /\ \A v \in Workers \ {w} : pc'[v] = pc[v] /\ job'[v] = job[v]
    BY <1>1, <1>2, WorkerMoves
  <2> QED  BY <1>2, <2>1, WorkerStored DEF Making
<1>3. CASE Load(w)
  <2> DEFINE d == job[w].device
             s == NewSubscriber(d, job[w].topic)
  <2>1. /\ pc[w] = "load" /\ config' = [config EXCEPT ![d] = s] /\ Goto(w, "insert")
        /\ UNCHANGED <<rows, unused, job>>
    BY <1>3 DEF Load, At, database
  <2>2. pc'[w] = "insert" /\ \A v \in Workers \ {w} : pc'[v] = pc[v]
    BY <1>1, <2>1, WorkerMoves
  <2>3. Making(w) /\ d \in Ids /\ job[w].todo = {}
    BY <1>1, <2>1 DEF Making, StoredFits, JobFits, At
  <2>4. config'[d] = s /\ s.topic = job[w].topic /\ \A e \in Ids \ {d} : config'[e] = config[e]
    BY <1>1, <2>1, <2>3 DEF TypeOK, NewSubscriber
  <2>5. \A v \in Workers \ {w} : Making(v) => job[v].device \in Ids \ {d}
    BY <2>3, NewDevices
  <2>6. StoredFits(w)'
    BY <2>1, <2>2, <2>3, <2>4 DEF StoredFits, At
  <2>7. \A v \in Workers \ {w} :
           pc[v] \in {"prepare", "store"} => job[v].device # job'[w].device
    BY <2>1, <2>3 DEF TableInv, StoredFit, StoredFits
  <2> QED  BY <2>1, <2>2, <2>4, <2>5, <2>6, <2>7, StoredKept DEF Making, At
<1>4. CASE Insert(w) \/ LoadFails(w) \/ Abandon(w)
  <2>1. UNCHANGED <<unused, config>> /\ job' = [job EXCEPT ![w] = NoJob]
    BY <1>4 DEF Insert, LoadFails, Abandon, database, objects
  <2>2. PICK step \in {"idle", "release"} : Goto(w, step)
    BY <1>4 DEF Insert, LoadFails, Abandon
  <2> QED  BY <1>1, <1>2, <2>1, <2>2
<1>5. CASE UpdateDevice(w) \/ ReadPrio(w)
  <2>1. /\ UNCHANGED <<unused, config>> /\ pc[w] \in {"update", "read"}
        /\ \/ job' = [job EXCEPT ![w] = job[w]]
           \/ \E topic : job' = [job EXCEPT ![w] = [job[w] EXCEPT !.topic = topic]]
    BY <1>1, <1>5 DEF UpdateDevice, ReadPrio, At, database, objects
  <2>2. PICK step \in {"select", "write"} : Goto(w, step)
    BY <1>5 DEF UpdateDevice, ReadPrio
  <2>3. job[w].todo = {}
    BY <1>1, <2>1 DEF StoredFits
  <2>4. \A topic : [job[w] EXCEPT !.topic = topic].todo = {}
    BY <1>1, <2>3 DEF TypeOK, Job
  <2>5. PICK j : job' = [job EXCEPT ![w] = j] /\ j.todo = {}
    BY <2>1, <2>3, <2>4
  <2> QED  BY <1>2, <2>1, <2>2, <2>5
<1>15. CASE WritePrio(w)
  <2> DEFINE j == [job[w] EXCEPT !.device = None, !.topic = None]
  <2>1. /\ UNCHANGED <<unused, config>> /\ pc[w] = "write" /\ Goto(w, "written")
        /\ job' = [job EXCEPT ![w].device = None, ![w].topic = None]
    BY <1>15 DEF WritePrio, At, objects
  <2>2. job \in [Workers -> Job] /\ job[w] \in Job /\ job[w].todo = {}
    BY <1>1, <2>1 DEF TypeOK, StoredFits
  <2>3. job' = [job EXCEPT ![w] = j]
    BY <2>1, <2>2 DEF Job
  <2>4. j.todo = {}
    BY <2>2 DEF Job
  <2>5. PICK step \in {"written"} : Goto(w, step)
    BY <2>1
  <2> HIDE DEF j
  <2> QED  BY <1>2, <2>1, <2>3, <2>4, <2>5
<1>6. ASSUME NEW d \in Ids, FindPrio(w, d) PROVE StoredFit'
  <2>1. pc[w] = "prio" /\ UNCHANGED <<unused, config>> /\ job[w].todo = {}
    BY <1>1, <1>6 DEF FindPrio, At, objects, database, StoredFits
  <2> DEFINE j == [job[w] EXCEPT !.device = d, !.left = job[w].left \ {d}]
  <2>2. \/ Goto(w, "read") /\ job' = [job EXCEPT ![w] = j]
        \/ Goto(w, "idle") /\ job' = [job EXCEPT ![w] = NoJob]
    BY <1>1, <1>6 DEF FindPrio, TypeOK, Job
  <2>3. j.todo = {}
    BY <1>1, <2>1 DEF TypeOK, Job
  <2> HIDE DEF j
  <2>4. PICK step \in {"read", "idle"}, k \in {j, NoJob} :
          Goto(w, step) /\ job' = [job EXCEPT ![w] = k]
    BY <2>2
  <2>5. k.todo = {}
    BY <1>1, <2>3
  <2> QED  BY <1>2, <2>1, <2>4, <2>5
<1>7. CASE Select(w)
  <2>1. /\ UNCHANGED <<rows, unused, config>>
        /\ \/ job' = [job EXCEPT ![w] = NoJob] /\ Goto(w, "idle")
           \/ \E j : job' = [job EXCEPT ![w] = j] /\ Goto(w, "next")
    BY <1>7 DEF Select, database, objects
  <2> QED  BY <1>1, <1>2, <2>1
<1>8. ASSUME NEW row \in job[w].todo, Get(w, row) PROVE StoredFit'
  <2>1. UNCHANGED <<rows, unused, config>>
    BY <1>8 DEF Get, database, objects
  <2>2. CASE row.device \in devices
    <3> DEFINE j == [job[w] EXCEPT !.device = row.device, !.topic = row.topic, !.todo = @ \ {row}]
    <3>1. job' = [job EXCEPT ![w] = j] /\ Goto(w, "prepare")
      BY <1>8, <2>2 DEF Get
    <3>2. j.device = row.device
      BY <1>1 DEF TypeOK, Job
    <3>3. row.device \notin unused /\ \A v \in Workers : Making(v) => job[v].device # row.device
      BY <2>2, NewDevices DEF TableInv, RowsFit
    <3> HIDE DEF j
    <3>4. /\ pc'[w] = "prepare" /\ job'[w] = j
          /\ \A v \in Workers \ {w} : pc'[v] = pc[v] /\ job'[v] = job[v]
      BY <1>1, <3>1, WorkerMoves
    <3> QED  BY <2>1, <3>2, <3>3, <3>4, WorkerStored DEF Making
  <2>3. CASE row.device \notin devices
    BY <1>1, <1>2, <1>8, <2>1, <2>3 DEF Get
  <2> QED  BY <2>2, <2>3
<1>9. CASE Prepare(w)
  <2> DEFINE j == [job[w] EXCEPT !.new = NewSubscriber(job[w].device, job[w].topic)]
  <2>1. /\ pc[w] = "prepare" /\ job' = [job EXCEPT ![w] = j] /\ Goto(w, "store")
        /\ UNCHANGED <<rows, unused, config>>
    BY <1>9 DEF Prepare, At, database
  <2>2. j.device = job[w].device
    BY <1>1 DEF TypeOK, Job
  <2>3. /\ job[w].device \notin unused
        /\ \A v \in Workers : Making(v) => job[v].device # job[w].device
    BY <1>1, <2>1 DEF StoredFits
  <2> HIDE DEF j
  <2>4. /\ pc'[w] = "store" /\ job'[w] = j
        /\ \A v \in Workers \ {w} : pc'[v] = pc[v] /\ job'[v] = job[v]
    BY <1>1, <2>1, WorkerMoves
  <2> QED  BY <2>1, <2>2, <2>3, <2>4, WorkerStored DEF Making
<1>10. CASE Store(w)
  <2> DEFINE j == [job[w] EXCEPT !.new = None]
  <2>1. /\ pc[w] = "store" /\ Goto(w, "reloaded") /\ UNCHANGED <<rows, unused>>
        /\ job' = [job EXCEPT ![w] = j]
        /\ config' = [config EXCEPT ![job[w].device] = job[w].new]
    BY <1>10 DEF Store, At, database
  <2>2. \A v \in Workers : At(v, "insert") => config'[job[v].device] = config[job[v].device]
    BY <1>1, <2>1, NewDevices DEF StoredFits, TypeOK, Making, At
  <2> HIDE DEF j
  <2>3. /\ pc'[w] = "reloaded" /\ job'[w] = j
        /\ \A v \in Workers \ {w} : pc'[v] = pc[v] /\ job'[v] = job[v]
    BY <1>1, <2>1, WorkerMoves
  <2> QED  BY <2>1, <2>2, <2>3, WorkerStored DEF Making
<1> QED
  BY <1>3, <1>4, <1>5, <1>15, <1>6, <1>7, <1>8, <1>9, <1>10 DEF Work

\* A step that no worker takes.
LEMMA OthersStored ==
  ASSUME TableInv, \A v \in Workers : pc'[v] = pc[v] /\ job'[v] = job[v],
         unused' = unused,
         \A v \in Workers : At(v, "insert") => config'[job[v].device] = config[job[v].device]
  PROVE  StoredFit'
<1> SUFFICES ASSUME NEW w \in Workers PROVE StoredFits(w)'
  BY DEF StoredFit
<1>1. StoredFits(w)
  BY DEF TableInv, StoredFit
<1>2. (At(w, "insert") => config[job[w].device].topic = job[w].topic)'
  BY <1>1 DEF StoredFits, At
<1> QED  BY <1>1, <1>2 DEF StoredFits, Making

LEMMA ReleaseStored ==
  ASSUME TableInv, NEW t \in Threads, Release(t)
  PROVE  StoredFit'
<1>1. PICK d \in Ids : LetGo(t, d) \/ EraseRows(t, d) \/ Destroy(t, d)
  BY DEF Release
<1>2. /\ pc[t] \in {"release", "deleting", "reloaded", "written"}
      /\ Workers \subseteq Threads /\ TypeOK /\ IInv
  BY ThreadFacts DEF Release, TableInv, IInv
<1>3. CASE EraseRows(t, d)
  <2>1. UNCHANGED <<unused, config, pc, job>>
    BY <1>3 DEF EraseRows, objects
  <2> QED  BY <2>1, OthersStored
<1>4. ASSUME LeaveRef(t, d), unused' = unused,
             \A v \in Workers \ {t} : At(v, "insert") =>
               config'[job[v].device] = config[job[v].device]
      PROVE  StoredFit'
  <2>1. /\ \A u \in Threads \ {t} : pc'[u] = pc[u]
        /\ t \in Workers => pc'[t] \in {pc[t], "select", "prio", "next", "idle"}
        /\ \A w \in Workers \ {t} : job'[w] = job[w]
    BY <1>2, <1>4, LeaveRefFacts
  <2>2. \A v \in Workers : At(v, "insert") => config'[job[v].device] = config[job[v].device]
    BY <1>2, <1>4 DEF At
  <2>3. CASE t \notin Workers
    BY <1>2, <1>4, <2>1, <2>2, <2>3, OthersStored
  <2>4. CASE t \in Workers
    <3>1. ~ Making(t)' /\ pc'[t] \notin {"prepare", "store"}
      BY <1>2, <2>1, <2>4 DEF Making
    <3>2. ASSUME pc'[t] \notin {"next", "prepare", "store", "reloaded"} PROVE job'[t].todo = {}
      <4>1. /\ pc' = [pc EXCEPT ![t] = After(t)] \/ pc' = pc
            /\ job' = [job EXCEPT ![t] = NoJob] \/ job' = job
        BY <1>4 DEF LeaveRef, Goto
      <4>2. job'[t] = NoJob \/ job'[t] = job[t]
        BY <1>2, <2>4, <4>1 DEF TypeOK
      <4>3. CASE At(t, "reloaded")
        <5>1. pc'[t] = After(t)
          BY <1>2, <3>2, <4>1, <4>3 DEF TypeOK, At
        <5>2. job[t].todo = {}
          BY <2>4, <3>2, <4>3, <5>1, ThreadFacts DEF After, Onward, At
        <5> QED  BY <4>2, <5>2 DEF NoJob
      <4>4. CASE ~ At(t, "reloaded")
        <5>1. StoredFits(t)
          BY <2>4 DEF TableInv, StoredFit
        <5>2. job[t].todo = {}
          BY <1>2, <4>4, <5>1 DEF StoredFits, At
        <5> QED  BY <4>2, <5>2 DEF NoJob
      <4> QED  BY <4>3, <4>4
    <3> QED  BY <1>2, <1>4, <2>1, <2>2, <2>4, <3>1, <3>2, WorkerStored
  <2> QED  BY <2>3, <2>4
<1>5. CASE LetGo(t, d)
  BY <1>4, <1>5 DEF LetGo, database, objects
<1>6. CASE Destroy(t, d)
  <2>1. /\ LeaveRef(t, d) /\ unused' = unused /\ ~ Shared(t, d)
        /\ config' = [config EXCEPT ![d] = None]
    BY <1>6 DEF Destroy, database
  <2>2. ASSUME NEW v \in Workers \ {t}, At(v, "insert")
        PROVE  config'[job[v].device] = config[job[v].device]
    <3>1. job[v].device \in refs[v] /\ job[v].device \in Ids
      BY <2>2 DEF TableInv, IInv, PointersFit, JobFits, At
    <3>2. job[v].device # d
      BY <1>2, <2>1, <3>1 DEF Shared
    <3> QED  BY <1>2, <2>1, <3>1, <3>2 DEF TypeOK
  <2> QED  BY <1>4, <2>1, <2>2
<1> QED  BY <1>1, <1>3, <1>5, <1>6

LEMMA HaltStored ==
  ASSUME NEW step \in {"down", "aborted"}, Halt(step)
  PROVE  StoredFit'
<1>1. \A w \in Workers : pc'[w] = step /\ job'[w] = NoJob
  BY ThreadFacts DEF Halt
<1> QED  BY <1>1 DEF StoredFit, StoredFits, At, NoJob

LEMMA StartStored ==
  ASSUME TableInv, Start
  PROVE  StoredFit'
<1>1. \A w \in Workers : pc[w] \in {"down", "aborted"} /\ pc'[w] = "idle" /\ job'[w] = job[w]
  BY ThreadFacts DEF Start, FirstStep, Up, TableInv, IInv, MainFits
<1>2. \A w \in Workers : job[w].todo = {}
  BY <1>1 DEF TableInv, StoredFit, StoredFits
<1> QED  BY <1>1, <1>2 DEF StoredFit, StoredFits, At

\* Every step keeps what is stored in order.
LEMMA StoredStep ==
  ASSUME TableInv, [Next]_vars
  PROVE  StoredFit'
<1>0. /\ Workers \subseteq Threads \ {"poller", "syncer", "dispatcher", "main"}
      /\ {"poller", "syncer", "dispatcher", "main"} \subseteq Threads /\ TypeOK
  BY ThreadFacts DEF TableInv, IInv
<1>1. ASSUME UNCHANGED <<database, config, job, pc>> PROVE StoredFit'
  BY <1>1, OthersStored DEF database
<1>2. ASSUME NEW t \in {"poller", "syncer", "dispatcher", "main"}, NEW step, Goto(t, step),
             UNCHANGED <<database, config, job>>
      PROVE  StoredFit'
  <2>1. \A w \in Workers : pc'[w] = pc[w]
    BY <1>0, <1>2, GotoFacts
  <2> QED  BY <1>2, <2>1, OthersStored DEF database
<1>3. CASE \E w \in Workers : Order(w) \/ Work(w) \/ Release(w)
  BY <1>0, <1>3, OrderStored, WorkStored, ReleaseStored
<1>4. CASE DispatcherStep
  BY <1>0, <1>2, <1>4, ReleaseStored, HaltStored
     DEF DispatcherStep, PopStop, Pop, PopUnknown, DispatchMQTTMessage, objects
<1>5. CASE Poll \/ PollerStep \/ Sync \/ Release("syncer")
  BY <1>0, <1>2, <1>5, ReleaseStored DEF PollerStep, Poll, Ask, Answered, Ended, Sync, Collect, objects
<1>6. CASE Signal \/ ShutdownMqtt \/ ShutdownServer \/ Unload \/ DestroyClient
  BY <1>0, <1>2, <1>6 DEF Signal, ShutdownMqtt, ShutdownServer, Unload, DestroyClient, objects
<1>7. CASE Overrun \/ Exit \/ Crash \/ Start \/ Release("main")
  BY <1>0, <1>7, HaltStored, StartStored, ReleaseStored DEF Overrun, Exit, Crash
<1>8. CASE \/ Disconnect \/ Connect \/ UNCHANGED vars
           \/ \E topic \in Topics : Arrive(topic)
           \/ \E s \in batch : Push(s)
  BY <1>1, <1>8 DEF Disconnect, Connect, Arrive, Push, vars, objects
<1> QED
  BY <1>3, <1>4, <1>5, <1>6, <1>7, <1>8 DEF Next, MainStep

LEMMA InitTable == Init => TableInv
<1> SUFFICES ASSUME Init PROVE TableInv
  OBVIOUS
<1>1. \A w \in Workers : pc[w] = "down" /\ job[w] = NoJob
  BY ThreadFacts DEF Init
<1>2. StoredFit
  BY <1>1 DEF StoredFit, StoredFits, At, NoJob
<1> QED  BY <1>2, InitFits, InitRows DEF TableInv

(* Steps of the table.  What of it others than worker w make. *)

\* A step that changes nothing of the devices that can be found.
LEMMA ForceKept ==
  ASSUME devices' = devices, \A d \in devices : config'[d] = config[d]
  PROVE  inForceOf' = inForceOf
  BY DEF inForceOf

LEMMA DeletingKept ==
  ASSUME \A d : d \in deleted' /\ rows'[d] # None <=> d \in deleted /\ rows[d] # None
  PROVE  deletingOf' = deletingOf
  BY DEF deletingOf

LEMMA ReadingIs ==
  ASSUME NEW w \in Workers
  PROVE  /\ At(w, "prepare") => Reading(w) =
              job[w].todo \cup {[device |-> job[w].device, topic |-> job[w].topic]}
         /\ At(w, "store") => Reading(w) =
              job[w].todo \cup {[device |-> job[w].new.device, topic |-> job[w].new.topic]}
         /\ ~ At(w, "prepare") /\ ~ At(w, "store") => Reading(w) = job[w].todo
         /\ (At(w, "prepare") => Reading(w) =
               job[w].todo \cup {[device |-> job[w].device, topic |-> job[w].topic]})'
         /\ (At(w, "store") => Reading(w) =
               job[w].todo \cup {[device |-> job[w].new.device, topic |-> job[w].new.topic]})'
         /\ (~ At(w, "prepare") /\ ~ At(w, "store") => Reading(w) = job[w].todo)'
  BY DEF Reading, At

\* The row a worker has stored for a new device.
Made(w) == [device |-> job[w].device, topic |-> job[w].topic]

\* A step of worker w only: what the others make and read stays.
LEMMA OneWorker ==
  ASSUME NEW w \in Workers, \A v \in Workers \ {w} : pc'[v] = pc[v] /\ job'[v] = job[v]
  PROVE  /\ \E M : /\ makingOf = M \cup (IF Making(w) THEN {Made(w)} ELSE {})
                   /\ makingOf' = M \cup (IF Making(w)' THEN {Made(w)'} ELSE {})
                   /\ M = {Made(v) : v \in {u \in Workers \ {w} : Making(u)}}
         /\ \E R : readsOf = R \cup Reading(w) /\ readsOf' = R \cup Reading(w)'
<1> DEFINE M == {Made(v) : v \in {u \in Workers \ {w} : Making(u)}}
           R == UNION {Reading(v) : v \in Workers \ {w}}
<1>1. makingOf = M \cup (IF Making(w) THEN {Made(w)} ELSE {})
  BY DEF makingOf, Made
<1>2. \A v \in Workers \ {w} :
        (Making(v)' <=> Making(v)) /\ Made(v)' = Made(v) /\ Reading(v)' = Reading(v)
  BY DEF Making, Made, Reading, At
<1>3. makingOf' = M \cup (IF Making(w)' THEN {Made(w)'} ELSE {})
  <2>1. makingOf' = {Made(v)' : v \in {u \in Workers : Making(u)'}}
    BY DEF makingOf, Made
  <2> QED  BY <1>2, <2>1
<1>4. readsOf = R \cup Reading(w)
  BY DEF readsOf
<1>5. readsOf' = UNION {Reading(v)' : v \in Workers}
  BY DEF readsOf
<1>6. readsOf' = R \cup Reading(w)'
  BY <1>2, <1>5
<1> QED  BY <1>1, <1>3, <1>4, <1>6

\* A step that no worker takes.
LEMMA NoWorker ==
  ASSUME \A v \in Workers : pc'[v] = pc[v] /\ job'[v] = job[v]
  PROVE  makingOf' = makingOf /\ readsOf' = readsOf
<1>1. \A v \in Workers :
        (Making(v)' <=> Making(v)) /\ Made(v)' = Made(v) /\ Reading(v)' = Reading(v)
  BY DEF Making, Made, Reading, At
<1>2. makingOf' = {Made(v)' : v \in {u \in Workers : Making(u)'}}
  BY DEF makingOf, Made
<1>3. readsOf' = UNION {Reading(v)' : v \in Workers}
  BY DEF readsOf
<1>4. makingOf = {Made(v) : v \in {u \in Workers : Making(u)}}
  BY DEF makingOf, Made
<1> QED  BY <1>1, <1>2, <1>3, <1>4 DEF readsOf

\* Nothing runs when the program does not, and it does when something runs.
LEMMA RunsIfUp ==
  ASSUME IInv, NEW t \in Threads, pc[t] \notin {"down", "aborted"}
  PROVE  Up
  BY DEF IInv, MainFits, Up

\* A step of a worker that makes nothing, and may read rows or give up.
LEMMA ReadsOnly ==
  ASSUME NEW w \in Workers, Up, Up', ~ Making(w), ~ Making(w)',
         \A v \in Workers \ {w} : pc'[v] = pc[v] /\ job'[v] = job[v],
         Reading(w)' \subseteq Reading(w) \cup Table!Stored,
         UNCHANGED <<rows, unused>>, inForceOf' = inForceOf, deletingOf' = deletingOf
  PROVE  Table!Next
<1>1. /\ \E M : makingOf = M /\ makingOf' = M
      /\ \E R : readsOf = R \cup Reading(w) /\ readsOf' = R \cup Reading(w)'
  BY OneWorker
<1>2. readsOf' \subseteq readsOf \cup Table!Stored
  BY <1>1
<1>3. (Up)' = Up
  OBVIOUS
<1>4. Table!Read
  BY <1>1, <1>2, <1>3 DEF Table!Read
<1> QED  BY <1>4 DEF Table!Next

\* A step of a worker that neither makes nor reads anything.
LEMMA ReadsSame ==
  ASSUME NEW w \in Workers, ~ Making(w), ~ Making(w)', Reading(w)' = Reading(w),
         \A v \in Workers \ {w} : pc'[v] = pc[v] /\ job'[v] = job[v]
  PROVE  makingOf' = makingOf /\ readsOf' = readsOf
  BY OneWorker

LEMMA OrderTabled ==
  ASSUME TableInv, NEW w \in Workers, Order(w)
  PROVE  [Table!Next]_(Table!vars)
<1>1. /\ At(w, "idle") /\ StoredFits(w) /\ TypeOK /\ Up
      /\ job = [job EXCEPT ![w] = job[w]] /\ job[w].todo = {}
      /\ w \in Threads /\ "main" \in Threads \ {w} /\ ~ Making(w)
  <2>1. At(w, "idle") /\ StoredFits(w)
    BY DEF Order, Delete, Create, Set, SetPrio, Command, TableInv, StoredFit
  <2>2. w \in Threads /\ "main" \in Threads \ {w}
    BY ThreadFacts
  <2> QED  BY <2>1, <2>2, RunsIfUp DEF StoredFits, At, TableInv, IInv, TypeOK, Making
<1>2. Reading(w) = {}
  BY <1>1, ReadingIs DEF At
<1>3. ASSUME NEW step, Goto(w, step)
      PROVE  (Up)' = Up
  BY <1>1, <1>3, GotoFacts DEF Up
<1>4. ASSUME NEW d \in Ids, Delete(w, d) PROVE Table!Next
  <2>1. /\ d \in devices /\ deleted' = deleted \cup {d} /\ devices' = devices \ {d}
        /\ Goto(w, "deleting") /\ UNCHANGED <<rows, unused, config>> /\ job' = job
    BY <1>4 DEF Delete, database
  <2>2. /\ pc'[w] = "deleting" /\ job'[w] = job[w]
        /\ \A v \in Workers \ {w} : pc'[v] = pc[v] /\ job'[v] = job[v]
    BY <1>1, <2>1, WorkerMoves
  <2>3. Reading(w)' = Reading(w) /\ ~ Making(w)'
    BY <1>1, <1>2, <2>2, ReadingIs DEF At, Making
  <2>4. makingOf' = makingOf /\ readsOf' = readsOf
    BY <1>1, <2>2, <2>3, ReadsSame
  <2>5. inForceOf[d] # None
    BY <2>1, RegistryAssumption DEF inForceOf, TableInv, IInv, TypeOK, PointersFit, ObjectsFit, Pointed,
       Subscriber
  <2>6. inForceOf' = [inForceOf EXCEPT ![d] = None]
    BY <2>1 DEF inForceOf
  <2>7. deletingOf' = deletingOf \cup {d}
    BY <2>1 DEF deletingOf, TableInv, RowsFit
  <2>8. Table!Delete(d)
    BY <1>3, <2>1, <2>4, <2>5, <2>6, <2>7 DEF Table!Delete
  <2> QED  BY <1>1, <2>8 DEF Table!Next
<1>5. ASSUME NEW d \in Ids, NEW topic \in Topics, Create(w, d, topic) PROVE Table!Next
  <2> DEFINE j == [NoJob EXCEPT !.device = d, !.topic = topic]
  <2>1. /\ d \in unused /\ unused' = unused \ {d} /\ rows' = [rows EXCEPT ![d] = topic]
        /\ job' = [job EXCEPT ![w] = j] /\ Goto(w, "load") /\ UNCHANGED <<devices, deleted, config>>
    BY <1>5 DEF Create, objects
  <2>2. j.device = d /\ j.topic = topic /\ j.todo = {}
    BY DEF NoJob
  <2> HIDE DEF j
  <2>3. /\ pc'[w] = "load" /\ job'[w] = j
        /\ \A v \in Workers \ {w} : pc'[v] = pc[v] /\ job'[v] = job[v]
    BY <1>1, <2>1, WorkerMoves
  <2>4. Reading(w)' = {} /\ Making(w)' /\ Made(w)' = [device |-> d, topic |-> topic]
    BY <2>2, <2>3, ReadingIs DEF At, Making, Made
  <2>5. makingOf' = makingOf \cup {[device |-> d, topic |-> topic]} /\ readsOf' = readsOf
    BY <1>1, <1>2, <2>2, <2>3, <2>4, OneWorker
  <2>6. inForceOf' = inForceOf
    BY <2>1, ForceKept
  <2>7. deletingOf' = deletingOf
    <3>1. d \notin deleted
      BY <2>1 DEF TableInv, RowsFit
    <3>2. \A e \in deleted : rows'[e] = rows[e]
      BY <1>1, <2>1, <3>1 DEF TypeOK
    <3> QED  BY <2>1, <3>2, DeletingKept
  <2>8. Table!Make(d, topic)
    BY <1>3, <2>1, <2>5, <2>6, <2>7 DEF Table!Make
  <2> QED  BY <1>1, <2>8 DEF Table!Next
\* Commands that only begin.
<1>6. ASSUME NEW step \in {"update", "prio"}, Goto(w, step), NEW j, job' = [job EXCEPT ![w] = j],
             j.todo = {}, UNCHANGED <<database, objects>>
      PROVE  UNCHANGED Table!vars
  <2>1. /\ pc'[w] = step /\ job'[w] = j
        /\ \A v \in Workers \ {w} : pc'[v] = pc[v] /\ job'[v] = job[v]
    BY <1>1, <1>6, WorkerMoves
  <2>2. Reading(w)' = Reading(w) /\ ~ Making(w)'
    BY <1>2, <1>6, <2>1, ReadingIs DEF At, Making
  <2>3. makingOf' = makingOf /\ readsOf' = readsOf
    BY <1>1, <2>1, <2>2, ReadsSame
  <2>4. inForceOf' = inForceOf /\ deletingOf' = deletingOf
    BY <1>6, ForceKept, DeletingKept DEF objects, database
  <2> QED  BY <1>3, <1>6, <2>3, <2>4 DEF Table!vars, database
<1>7. ASSUME NEW d \in Ids, NEW topic \in Topics, Set(w, d, topic) PROVE UNCHANGED Table!vars
  <2> DEFINE j == [NoJob EXCEPT !.device = d, !.topic = topic]
  <2>1. Goto(w, "update") /\ job' = [job EXCEPT ![w] = j] /\ UNCHANGED <<database, objects>>
    BY <1>7 DEF Set
  <2>2. j.todo = {}
    BY DEF NoJob
  <2> HIDE DEF j
  <2> QED  BY <1>6, <2>1, <2>2
<1>8. ASSUME NEW S, SetPrio(w, S) PROVE UNCHANGED Table!vars
  <2> DEFINE j == [NoJob EXCEPT !.left = S]
  <2>1. Goto(w, "prio") /\ job' = [job EXCEPT ![w] = j] /\ UNCHANGED <<database, objects>>
    BY <1>8 DEF SetPrio
  <2>2. j.todo = {}
    BY DEF NoJob
  <2> HIDE DEF j
  <2> QED  BY <1>6, <2>1, <2>2
<1> QED  BY <1>4, <1>5, <1>7, <1>8 DEF Order

LEMMA WorkFacts ==
  ASSUME TableInv, NEW w \in Workers, Work(w)
  PROVE  /\ StoredFits(w) /\ TypeOK /\ JobFits(w) /\ NewFits(w) /\ Up
         /\ job = [job EXCEPT ![w] = job[w]] /\ job[w] \in Job
<1>1. pc[w] \notin {"down", "aborted"}
  BY DEF Work, Load, LoadFails, Insert, UpdateDevice, FindPrio, ReadPrio, WritePrio, Select, Get,
         Prepare, Store, Abandon, At
<1> QED
  BY <1>1, ThreadFacts, RunsIfUp DEF TableInv, StoredFit, IInv, PointersFit, TypeOK

LEMMA WorkerLeavesUp ==
  ASSUME TypeOK, NEW w \in Workers, NEW step, Goto(w, step)
  PROVE  (Up)' = Up
<1>1. w \in Threads /\ "main" \in Threads \ {w}
  BY ThreadFacts
<1> QED  BY <1>1, GotoFacts DEF Up

\* A command gives up, or is over: what it has read is forgotten.
LEMMA OverTabled ==
  ASSUME TableInv, NEW w \in Workers, ~ Making(w), Up,
         NEW step \in {"idle", "release"}, Goto(w, step), job' = [job EXCEPT ![w] = NoJob],
         UNCHANGED <<database, objects>>
  PROVE  Table!Next
<1>1. TypeOK
  BY DEF TableInv, IInv
<1>2. /\ pc'[w] = step /\ job'[w] = NoJob
      /\ \A v \in Workers \ {w} : pc'[v] = pc[v] /\ job'[v] = job[v]
  BY <1>1, WorkerMoves
<1>3. Reading(w)' = {} /\ ~ Making(w)'
  BY <1>2, ReadingIs DEF At, Making, NoJob
<1>4. inForceOf' = inForceOf /\ deletingOf' = deletingOf
  BY ForceKept, DeletingKept DEF objects, database
<1>5. (Up)' = Up
  BY <1>1, WorkerLeavesUp
<1> QED  BY <1>2, <1>3, <1>4, <1>5, ReadsOnly DEF database

\* Devices are made, and rows written.
LEMMA StoringTabled ==
  ASSUME TableInv, NEW w \in Workers, Work(w)
  PROVE  \/ Load(w) \/ LoadFails(w) \/ Insert(w) \/ UpdateDevice(w)
         \/ (\E d \in Ids : FindPrio(w, d)) \/ ReadPrio(w) \/ WritePrio(w)
         => [Table!Next]_(Table!vars)
<1>1. /\ StoredFits(w) /\ TypeOK /\ JobFits(w) /\ NewFits(w) /\ Up
      /\ job = [job EXCEPT ![w] = job[w]] /\ job[w] \in Job
  BY WorkFacts
<1>2. ASSUME NEW step, Goto(w, step) PROVE (Up)' = Up
  BY <1>1, <1>2, WorkerLeavesUp
<1>3. CASE Load(w)
  <2> DEFINE d == job[w].device
             s == NewSubscriber(d, job[w].topic)
  <2>1. /\ pc[w] = "load" /\ config' = [config EXCEPT ![d] = s] /\ Goto(w, "insert")
        /\ UNCHANGED <<rows, unused, devices, deleted, job>>
    BY <1>3 DEF Load, At, database
  <2>2. pc'[w] = "insert" /\ \A v \in Workers \ {w} : pc'[v] = pc[v]
    BY <1>1, <2>1, WorkerMoves
  <2>3. Making(w) /\ Making(w)' /\ Made(w)' = Made(w) /\ Reading(w)' = Reading(w)
    BY <2>1, <2>2, ReadingIs DEF At, Making, Made
  <2>4. makingOf' = makingOf /\ readsOf' = readsOf
    BY <2>1, <2>2, <2>3, OneWorker
  <2>5. \A e \in devices : config'[e] = config[e]
    BY <1>1, <2>1, <2>3, NewDevices DEF TypeOK
  <2>6. inForceOf' = inForceOf /\ deletingOf' = deletingOf
    BY <2>1, <2>5, ForceKept, DeletingKept
  <2> QED  BY <1>2, <2>1, <2>4, <2>6 DEF Table!vars
\* What was stored for a device is no longer waiting.
<1>8. ASSUME pc[w] \in {"load", "insert"}, NEW step \in {"idle", "release"}, Goto(w, step),
             job' = [job EXCEPT ![w] = NoJob]
      PROVE  Made(w) \in makingOf /\ makingOf' = makingOf \ {Made(w)} /\ readsOf' = readsOf
  <2>2. /\ pc'[w] = step /\ job'[w] = NoJob
        /\ \A v \in Workers \ {w} : pc'[v] = pc[v] /\ job'[v] = job[v]
    BY <1>1, <1>8, WorkerMoves
  <2>3. Making(w) /\ ~ Making(w)' /\ Reading(w)' = Reading(w)
    <3>1. Reading(w) = {}
      BY <1>1, <1>8, ReadingIs DEF At, StoredFits
    <3>2. Reading(w)' = {}
      BY <2>2, ReadingIs DEF At, NoJob
    <3> QED  BY <1>8, <2>2, <3>1, <3>2 DEF Making
  <2>4. \A v \in Workers \ {w} : Making(v) => Made(v) # Made(w)
    <3>1. ASSUME NEW v \in Workers \ {w}, Made(v) = Made(w) PROVE job[v].device = job[w].device
      <4>1. Made(v).device = job[v].device /\ Made(w).device = job[w].device
        BY DEF Made
      <4> QED  BY <3>1, <4>1
    <3> QED  BY <2>3, <3>1, NewDevices
  <2>5. PICK M : /\ makingOf = M \cup {Made(w)} /\ makingOf' = M
                 /\ M = {Made(v) : v \in {u \in Workers \ {w} : Making(u)}}
    BY <2>2, <2>3, OneWorker
  <2>6. Made(w) \notin M
    BY <2>4, <2>5
  <2>7. readsOf' = readsOf
    BY <2>2, <2>3, OneWorker
  <2> QED  BY <2>5, <2>6, <2>7
<1>4. CASE Insert(w)
  <2> DEFINE d == job[w].device
  <2>1. /\ pc[w] = "insert" /\ Goto(w, "release") /\ devices' = devices \cup {d}
        /\ job' = [job EXCEPT ![w] = NoJob] /\ UNCHANGED <<rows, unused, deleted, config>>
    BY <1>4 DEF Insert, At, database
  <2>5. Made(w) \in makingOf /\ makingOf' = makingOf \ {Made(w)} /\ readsOf' = readsOf
    BY <1>8, <2>1
  <2>6. d \in Ids /\ config[d].topic = job[w].topic
    BY <1>1, <2>1 DEF StoredFits, JobFits, At
  <2>7. inForceOf' = [inForceOf EXCEPT ![Made(w).device] = Made(w).topic]
    BY <2>1, <2>6 DEF inForceOf, Made
  <2>8. deletingOf' = deletingOf
    BY <2>1, DeletingKept
  <2>9. Table!Find(Made(w))
    BY <1>2, <2>1, <2>5, <2>7, <2>8 DEF Table!Find
  <2> QED  BY <1>1, <2>5, <2>9 DEF Table!Next
<1>9. CASE LoadFails(w)
  <2>1. /\ pc[w] \in {"load", "insert"} /\ job' = [job EXCEPT ![w] = NoJob]
        /\ UNCHANGED <<database, objects>>
    BY <1>9 DEF LoadFails
  <2>2. PICK step \in {"idle", "release"} : Goto(w, step)
    BY <1>9 DEF LoadFails
  <2>3. Made(w) \in makingOf /\ makingOf' = makingOf \ {Made(w)} /\ readsOf' = readsOf
    BY <1>8, <2>1, <2>2
  <2>4. inForceOf' = inForceOf /\ deletingOf' = deletingOf
    BY <2>1, ForceKept, DeletingKept DEF objects, database
  <2>5. Table!GiveUp(Made(w))
    BY <1>2, <2>1, <2>2, <2>3, <2>4 DEF Table!GiveUp, database
  <2> QED  BY <1>1, <2>3, <2>5 DEF Table!Next
\* The row of a device is written again, if it is there.
<1>5. ASSUME NEW d \in Ids, NEW topic \in Topics,
             rows' = [rows EXCEPT ![d] = IF @ = None THEN None ELSE topic],
             NEW step, Goto(w, step), UNCHANGED <<unused, objects>>,
             makingOf' = makingOf, readsOf' = readsOf
      PROVE  [Table!Next]_(Table!vars)
  <2>1. inForceOf' = inForceOf
    BY <1>5, ForceKept DEF objects
  <2>2. \A e \in Ids : rows'[e] # None <=> rows[e] # None
    BY <1>1, <1>5, RegistryAssumption DEF TypeOK
  <2>3. deletingOf' = deletingOf
    BY <1>1, <1>5, <2>2, DeletingKept DEF objects, TypeOK
  <2>4. CASE rows[d] = None
    <3>1. rows' = rows
      BY <1>1, <1>5, <2>4 DEF TypeOK
    <3> QED  BY <1>2, <1>5, <2>1, <2>3, <3>1 DEF Table!vars
  <2>5. CASE rows[d] # None
    <3>1. rows' = [rows EXCEPT ![d] = topic]
      BY <1>1, <1>5, <2>5 DEF TypeOK
    <3>2. Table!Update(d, topic)
      BY <1>2, <1>5, <2>1, <2>3, <2>5, <3>1 DEF Table!Update
    <3> QED  BY <1>1, <3>2 DEF Table!Next
  <2> QED  BY <2>4, <2>5
<1>6. CASE UpdateDevice(w)
  <2> DEFINE d == job[w].device
  <2>1. /\ pc[w] = "update" /\ Goto(w, "select") /\ UNCHANGED <<unused, objects, job>>
        /\ rows' = [rows EXCEPT ![d] = IF @ = None THEN None ELSE job[w].topic]
    BY <1>6 DEF UpdateDevice, At
  <2>2. pc'[w] = "select" /\ \A v \in Workers \ {w} : pc'[v] = pc[v]
    BY <1>1, <2>1, WorkerMoves
  <2>3. ~ Making(w) /\ ~ Making(w)' /\ Reading(w)' = Reading(w)
    BY <2>1, <2>2, ReadingIs DEF At, Making
  <2>4. makingOf' = makingOf /\ readsOf' = readsOf
    BY <2>1, <2>2, <2>3, ReadsSame
  <2>5. d \in Ids /\ job[w].topic \in Topics
    BY <1>1, <2>1 DEF JobFits
  <2> HIDE DEF d
  <2> QED  BY <1>5, <2>1, <2>4, <2>5
\* A command goes on that has read nothing.
<1>10. ASSUME NEW step \in {"read", "write", "written"}, Goto(w, step),
              pc[w] \in {"prio", "read", "write"},
              NEW j, job' = [job EXCEPT ![w] = j], j.todo = {}
       PROVE  makingOf' = makingOf /\ readsOf' = readsOf
  <2>1. job[w].todo = {}
    BY <1>1, <1>10 DEF StoredFits
  <2>2. /\ pc'[w] = step /\ job'[w] = j
        /\ \A v \in Workers \ {w} : pc'[v] = pc[v] /\ job'[v] = job[v]
    BY <1>1, <1>10, WorkerMoves
  <2>3. ~ Making(w) /\ ~ Making(w)' /\ Reading(w)' = Reading(w)
    <3>1. ~ Making(w) /\ ~ Making(w)' /\ Reading(w) = job[w].todo
      BY <1>10, <2>2, ReadingIs DEF At, Making
    <3>2. Reading(w)' = job'[w].todo
      BY <1>10, <2>2, ReadingIs DEF At
    <3> QED  BY <1>10, <2>1, <2>2, <3>1, <3>2
  <2> QED  BY <2>2, <2>3, ReadsSame
<1>7. ASSUME NEW d \in Ids, FindPrio(w, d) PROVE [Table!Next]_(Table!vars)
  <2>1. /\ pc[w] = "prio" /\ UNCHANGED <<database, objects>> /\ job[w].todo = {}
        /\ ~ Making(w)
    BY <1>1, <1>7 DEF FindPrio, At, StoredFits, Making
  <2> DEFINE j == [job[w] EXCEPT !.device = d, !.left = job[w].left \ {d}]
  <2>2. \/ Goto(w, "read") /\ job' = [job EXCEPT ![w] = j]
        \/ Goto(w, "idle") /\ job' = [job EXCEPT ![w] = NoJob]
    BY <1>1, <1>7 DEF FindPrio, TypeOK, Job
  <2>3. j.todo = {}
    BY <1>1, <2>1 DEF Job
  <2> HIDE DEF j
  <2>4. CASE Goto(w, "read") /\ job' = [job EXCEPT ![w] = j]
    <3>1. makingOf' = makingOf /\ readsOf' = readsOf
      BY <1>10, <2>1, <2>3, <2>4
    <3>2. inForceOf' = inForceOf /\ deletingOf' = deletingOf
      BY <2>1, ForceKept, DeletingKept DEF objects, database
    <3> QED  BY <1>2, <2>1, <2>4, <3>1, <3>2 DEF Table!vars, database
  <2>5. CASE Goto(w, "idle") /\ job' = [job EXCEPT ![w] = NoJob]
    BY <1>1, <2>1, <2>5, OverTabled
  <2> QED  BY <2>2, <2>4, <2>5
<1>11. CASE ReadPrio(w)
  <2> DEFINE j == [job[w] EXCEPT !.topic = config[job[w].device].topic]
  <2>1. /\ pc[w] = "read" /\ UNCHANGED <<database, objects>>
        /\ Goto(w, "write") /\ job' = [job EXCEPT ![w] = j]
    BY <1>11 DEF ReadPrio, At
  <2>2. j.todo = {}
    BY <1>1, <2>1 DEF Job, StoredFits
  <2> HIDE DEF j
  <2>3. makingOf' = makingOf /\ readsOf' = readsOf
    BY <1>10, <2>1, <2>2
  <2>4. inForceOf' = inForceOf /\ deletingOf' = deletingOf
    BY <2>1, ForceKept, DeletingKept DEF objects, database
  <2> QED  BY <1>2, <2>1, <2>3, <2>4 DEF Table!vars, database
<1>12. CASE WritePrio(w)
  <2> DEFINE d == job[w].device
             j == [job[w] EXCEPT !.device = None, !.topic = None]
  <2>1. /\ pc[w] = "write" /\ Goto(w, "written") /\ UNCHANGED <<unused, objects>>
        /\ rows' = [rows EXCEPT ![d] = IF @ = None THEN None ELSE job[w].topic]
    BY <1>12 DEF WritePrio, At
  <2>2. job' = [job EXCEPT ![w] = j] /\ j.todo = {}
    <3>1. job' = [job EXCEPT ![w].device = None, ![w].topic = None]
      BY <1>12 DEF WritePrio
    <3>2. job' = [job EXCEPT ![w] = j] /\ j.todo = job[w].todo
      BY <1>1, <3>1 DEF TypeOK, Job
    <3> QED  BY <1>1, <2>1, <3>2 DEF StoredFits
  <2> HIDE DEF j
  <2>3. makingOf' = makingOf /\ readsOf' = readsOf
    BY <1>10, <2>1, <2>2
  <2>4. d \in Ids /\ job[w].topic \in Topics
    BY <1>1, <2>1 DEF JobFits
  <2> HIDE DEF d
  <2> QED  BY <1>5, <2>1, <2>3, <2>4
<1> QED  BY <1>3, <1>4, <1>6, <1>7, <1>9, <1>11, <1>12

\* Reloads.
LEMMA ReloadTabled ==
  ASSUME TableInv, NEW w \in Workers, Work(w)
  PROVE  Select(w) \/ Prepare(w) \/ Store(w) \/ Abandon(w) \/ (\E row \in job[w].todo : Get(w, row))
         => [Table!Next]_(Table!vars)
<1>1. /\ StoredFits(w) /\ TypeOK /\ JobFits(w) /\ NewFits(w) /\ Up
      /\ job = [job EXCEPT ![w] = job[w]] /\ job[w] \in Job
  BY WorkFacts
<1>2. ASSUME NEW step, Goto(w, step) PROVE (Up)' = Up
  BY <1>1, <1>2, WorkerLeavesUp
<1>3. CASE Select(w)
  <2> DEFINE wanted == IF job[w].device = None THEN Ids ELSE {job[w].device}
             found == {[device |-> d, topic |-> rows[d]] : d \in {e \in wanted : rows[e] # None}}
             j == [job[w] EXCEPT !.todo = found]
  <2>1. pc[w] = "select" /\ UNCHANGED <<database, objects>> /\ ~ Making(w)
    BY <1>3 DEF Select, At, Making
  <2>2. \/ Goto(w, "idle") /\ job' = [job EXCEPT ![w] = NoJob]
        \/ Goto(w, "next") /\ job' = [job EXCEPT ![w] = j]
    BY <1>3 DEF Select
  <2>3. CASE Goto(w, "next") /\ job' = [job EXCEPT ![w] = j]
    <3>1. found \subseteq Table!Stored /\ j.todo = found
      BY <1>1 DEF Table!Stored, Job
    <3> HIDE DEF found, j
    <3>2. /\ pc'[w] = "next" /\ job'[w] = j
          /\ \A v \in Workers \ {w} : pc'[v] = pc[v] /\ job'[v] = job[v]
      BY <1>1, <2>3, WorkerMoves
    <3>3. ~ Making(w)' /\ Reading(w)' = found
      BY <3>1, <3>2, ReadingIs DEF At, Making
    <3>4. inForceOf' = inForceOf /\ deletingOf' = deletingOf
      BY <2>1, ForceKept, DeletingKept DEF objects, database
    <3> QED  BY <1>1, <1>2, <2>1, <2>3, <3>1, <3>2, <3>3, <3>4, ReadsOnly DEF database
  <2>4. CASE Goto(w, "idle") /\ job' = [job EXCEPT ![w] = NoJob]
    BY <1>1, <2>1, <2>4, OverTabled
  <2> QED  BY <2>2, <2>3, <2>4
<1>4. ASSUME NEW row \in job[w].todo, Get(w, row) PROVE [Table!Next]_(Table!vars)
  <2>1. pc[w] = "next" /\ UNCHANGED <<database, objects>> /\ ~ Making(w)
    BY <1>4 DEF Get, At, Making
  <2>2. CASE row.device \in devices
    <3> DEFINE j == [job[w] EXCEPT !.device = row.device, !.topic = row.topic, !.todo = @ \ {row}]
    <3>1. job' = [job EXCEPT ![w] = j] /\ Goto(w, "prepare")
      BY <1>4, <2>2 DEF Get
    <3>2. j.device = row.device /\ j.topic = row.topic /\ j.todo = job[w].todo \ {row}
      BY <1>1 DEF Job
    <3> HIDE DEF j
    <3>3. /\ pc'[w] = "prepare" /\ job'[w] = j
          /\ \A v \in Workers \ {w} : pc'[v] = pc[v] /\ job'[v] = job[v]
      BY <1>1, <3>1, WorkerMoves
    <3>4. row = [device |-> row.device, topic |-> row.topic]
      BY <1>1 DEF Job, Row
    <3>5. Reading(w) = job[w].todo
      BY <2>1, ReadingIs DEF At
    <3>6. ~ Making(w)' /\ Reading(w)' = (job[w].todo \ {row}) \cup {row}
      BY <3>2, <3>3, <3>4, ReadingIs DEF At, Making
    <3>7. inForceOf' = inForceOf /\ deletingOf' = deletingOf
      BY <2>1, ForceKept, DeletingKept DEF objects, database
    <3> QED  BY <1>1, <1>2, <2>1, <3>1, <3>3, <3>5, <3>6, <3>7, ReadsOnly DEF database
  <2>3. CASE row.device \notin devices
    <3>1. Goto(w, "idle") /\ job' = [job EXCEPT ![w] = NoJob]
      BY <1>4, <2>3 DEF Get
    <3> QED  BY <1>1, <2>1, <3>1, OverTabled
  <2> QED  BY <2>2, <2>3
<1>5. CASE Prepare(w)
  <2> DEFINE s == NewSubscriber(job[w].device, job[w].topic)
             j == [job[w] EXCEPT !.new = s]
  <2>1. /\ pc[w] = "prepare" /\ job' = [job EXCEPT ![w] = j] /\ Goto(w, "store")
        /\ UNCHANGED <<database, devices, deleted, config>>
    BY <1>5 DEF Prepare, At
  <2>2. j.todo = job[w].todo /\ j.new.device = job[w].device /\ j.new.topic = job[w].topic
    BY <1>1 DEF Job, NewSubscriber
  <2> HIDE DEF j
  <2>3. /\ pc'[w] = "store" /\ job'[w] = j
        /\ \A v \in Workers \ {w} : pc'[v] = pc[v] /\ job'[v] = job[v]
    BY <1>1, <2>1, WorkerMoves
  <2>4. ~ Making(w) /\ ~ Making(w)' /\ Reading(w)' = Reading(w)
    <3>1. Reading(w) = job[w].todo \cup {[device |-> job[w].device, topic |-> job[w].topic]}
      BY <2>1, ReadingIs DEF At
    <3>2. Reading(w)' = j.todo \cup {[device |-> j.new.device, topic |-> j.new.topic]}
      BY <2>3, ReadingIs DEF At
    <3> QED  BY <2>1, <2>2, <2>3, <3>1, <3>2 DEF Making
  <2>5. makingOf' = makingOf /\ readsOf' = readsOf
    BY <2>3, <2>4, ReadsSame
  <2>6. inForceOf' = inForceOf /\ deletingOf' = deletingOf
    BY <2>1, ForceKept, DeletingKept DEF database
  <2> QED  BY <1>2, <2>1, <2>5, <2>6 DEF Table!vars, database
<1>6. CASE Store(w)
  <2> DEFINE d == job[w].device
             row == [device |-> job[w].new.device, topic |-> job[w].new.topic]
             j == [job[w] EXCEPT !.new = None]
  <2>1. /\ pc[w] = "store" /\ Goto(w, "reloaded") /\ UNCHANGED <<rows, unused, devices, deleted>>
        /\ job' = [job EXCEPT ![w] = j] /\ config' = [config EXCEPT ![d] = job[w].new]
    BY <1>6 DEF Store, At, database
  <2>2. j.todo = job[w].todo /\ d \in Ids /\ job[w].new.device = d
    BY <1>1, <2>1 DEF Job, JobFits, NewFits, At
  <2> HIDE DEF j
  <2>3. /\ pc'[w] = "reloaded" /\ job'[w] = j
        /\ \A v \in Workers \ {w} : pc'[v] = pc[v] /\ job'[v] = job[v]
    BY <1>1, <2>1, WorkerMoves
  <2>4. ~ Making(w) /\ ~ Making(w)'
    BY <2>1, <2>3 DEF Making
  <2>5. Reading(w) = job[w].todo \cup {row} /\ Reading(w)' = job[w].todo
    BY <2>1, <2>2, <2>3, ReadingIs DEF At
  <2>6. deletingOf' = deletingOf
    BY <2>1, DeletingKept
  <2>7. CASE d \in devices
    <3>1. /\ row.device = d /\ row.topic = job[w].new.topic
      BY <2>2
    <3> HIDE DEF row
    <3>2. row \in readsOf /\ readsOf' \in {readsOf, readsOf \ {row}} /\ makingOf' = makingOf
      <4>1. PICK R : readsOf = R \cup Reading(w) /\ readsOf' = R \cup Reading(w)'
        BY <2>3, OneWorker
      <4>2. makingOf' = makingOf
        BY <2>3, <2>4, OneWorker
      <4> QED  BY <2>5, <4>1, <4>2
    <3>3. inForceOf[d] # None
      BY <1>1, <2>7, RegistryAssumption
         DEF inForceOf, TableInv, IInv, TypeOK, PointersFit, ObjectsFit, Pointed, Subscriber
    <3>4. inForceOf' = [inForceOf EXCEPT ![d] = row.topic]
      BY <1>1, <2>1, <2>2, <2>7, <3>1 DEF inForceOf, TypeOK
    <3>5. Table!Reload(row)
      BY <1>2, <2>1, <2>6, <3>1, <3>2, <3>3, <3>4 DEF Table!Reload
    <3> QED  BY <1>1, <3>2, <3>5 DEF Table!Next
  <2>8. CASE d \notin devices
    <3>1. inForceOf' = inForceOf
      BY <1>1, <2>1, <2>8, ForceKept DEF TypeOK
    <3> QED  BY <1>1, <1>2, <2>1, <2>3, <2>4, <2>5, <2>6, <3>1, ReadsOnly
  <2> QED  BY <2>7, <2>8
<1>7. CASE Abandon(w)
  <2>1. /\ ~ Making(w) /\ Goto(w, "release") /\ job' = [job EXCEPT ![w] = NoJob]
        /\ UNCHANGED <<database, objects>>
    BY <1>7 DEF Abandon, At, Making
  <2> QED  BY <1>1, <2>1, OverTabled
<1> QED  BY <1>3, <1>4, <1>5, <1>6, <1>7

\* The last pointer to a deleted device removes its row; otherwise a thread that
\* lets go of a device at most forgets what it has read.
LEMMA ReleaseTabled ==
  ASSUME TableInv, NEW t \in Threads, Release(t)
  PROVE  [Table!Next]_(Table!vars)
<1>1. PICK d \in Ids : LetGo(t, d) \/ EraseRows(t, d) \/ Destroy(t, d)
  BY DEF Release
<1>2. /\ pc[t] \in {"release", "deleting", "reloaded", "written"}
      /\ Workers \subseteq Threads /\ TypeOK /\ IInv
      /\ "main" \in Threads
  BY ThreadFacts DEF Release, TableInv, IInv
<1>3. Up
  BY <1>2, RunsIfUp
<1>4. CASE EraseRows(t, d)
  <2>1. /\ d \in deleted /\ rows[d] # None /\ rows' = [rows EXCEPT ![d] = None]
        /\ UNCHANGED <<unused, devices, deleted, config, pc, job>>
    BY <1>4 DEF EraseRows, objects
  <2>2. inForceOf' = inForceOf
    BY <2>1, ForceKept
  <2>3. makingOf' = makingOf /\ readsOf' = readsOf
    BY <2>1, NoWorker
  <2>4. rows'[d] = None /\ \A e \in Ids \ {d} : rows'[e] = rows[e]
    BY <1>2, <2>1 DEF TypeOK
  <2>5. d \in deletingOf /\ deletingOf' = deletingOf \ {d}
    BY <1>2, <2>1, <2>4 DEF deletingOf, TypeOK
  <2>6. Table!Erase(d)
    BY <2>1, <2>2, <2>3, <2>5 DEF Table!Erase, Up
  <2> QED  BY <1>3, <2>6 DEF Table!Next
<1>5. ASSUME LeaveRef(t, d), UNCHANGED <<rows, unused>>,
             inForceOf' = inForceOf, deletingOf' = deletingOf
      PROVE  [Table!Next]_(Table!vars)
  <2>1. /\ \A u \in Threads \ {t} : pc'[u] = pc[u]
        /\ t \in Workers => pc'[t] \in {pc[t], "select", "prio", "next", "idle"}
        /\ t = "main" => pc'[t] \in {pc[t], "unloaded"}
        /\ \A w \in Workers \ {t} : job'[w] = job[w]
    BY <1>2, <1>5, LeaveRefFacts
  <2>2. (Up)' = Up
    BY <1>2, <2>1, ThreadFacts DEF Up
  <2>3. CASE t \notin Workers
    <3>1. makingOf' = makingOf /\ readsOf' = readsOf
      BY <1>2, <2>1, <2>3, NoWorker
    <3> QED  BY <1>5, <2>2, <3>1 DEF Table!vars
  <2>4. CASE t \in Workers
    <3>1. ~ Making(t) /\ ~ Making(t)'
      BY <1>2, <2>1, <2>4 DEF Making
    <3>2. job' = [job EXCEPT ![t] = NoJob] \/ job' = job
      BY <1>5 DEF LeaveRef
    <3>3. job'[t].todo \subseteq job[t].todo
      BY <1>2, <2>4, <3>2 DEF TypeOK, NoJob
    <3>4. Reading(t) = job[t].todo
      BY <1>2, <2>4, ReadingIs DEF At
    <3>5. Reading(t)' = job'[t].todo
      BY <1>2, <2>1, <2>4, ReadingIs DEF At
    <3>6. \A v \in Workers \ {t} : pc'[v] = pc[v] /\ job'[v] = job[v]
      BY <1>2, <2>1
    <3> QED  BY <1>3, <1>5, <2>2, <2>4, <3>1, <3>3, <3>4, <3>5, <3>6, ReadsOnly
  <2> QED  BY <2>3, <2>4
<1>6. CASE LetGo(t, d)
  <2>1. LeaveRef(t, d) /\ UNCHANGED <<rows, unused, devices, deleted, config>>
    BY <1>6 DEF LetGo, database, objects
  <2> QED  BY <1>5, <2>1, ForceKept, DeletingKept
<1>7. CASE Destroy(t, d)
  <2>1. /\ LeaveRef(t, d) /\ UNCHANGED <<rows, unused, devices>> /\ d \notin devices
        /\ deleted' = deleted \ {d} /\ (d \in deleted => rows[d] = None)
        /\ config' = [config EXCEPT ![d] = None]
    BY <1>7 DEF Destroy, database, Shared
  <2>2. inForceOf' = inForceOf
    BY <1>2, <2>1, ForceKept DEF TypeOK
  <2>3. deletingOf' = deletingOf
    BY <2>1, DeletingKept
  <2> QED  BY <1>5, <2>1, <2>2, <2>3
<1> QED  BY <1>1, <1>4, <1>6, <1>7

\* A step of another thread or of the network.
LEMMA OthersTabled ==
  ASSUME \A w \in Workers : pc'[w] = pc[w] /\ job'[w] = job[w],
         UNCHANGED <<rows, unused, devices, deleted, config>>, Up' <=> Up
  PROVE  UNCHANGED Table!vars
<1>1. (Up)' = Up
  BY DEF Up
<1>2. inForceOf' = inForceOf /\ deletingOf' = deletingOf
  BY ForceKept, DeletingKept
<1>3. makingOf' = makingOf /\ readsOf' = readsOf
  BY NoWorker
<1> QED  BY <1>1, <1>2, <1>3 DEF Table!vars

LEMMA UnloadTabled ==
  ASSUME TableInv, Unload
  PROVE  Table!Next
<1>1. /\ At("main", "ws") /\ devices' = {}
      /\ Goto("main", "unloaded") \/ Goto("main", "release")
      /\ UNCHANGED <<rows, unused, deleted, job>>
  BY DEF Unload, database
<1>2. /\ \A w \in Workers : pc'[w] = pc[w] /\ job'[w] = job[w]
      /\ Up /\ (Up)' = Up
  BY <1>1, GotoFacts, ThreadFacts DEF Up, At, TableInv, IInv
<1>3. makingOf' = makingOf /\ readsOf' = readsOf
  BY <1>2, NoWorker
<1>4. deletingOf' = deletingOf /\ inForceOf' = Table!Nowhere
  BY <1>1, DeletingKept DEF inForceOf, Table!Nowhere
<1>5. Table!PutAway
  BY <1>1, <1>2, <1>3, <1>4 DEF Table!PutAway
<1> QED  BY <1>2, <1>5 DEF Table!Next

LEMMA HaltTabled ==
  ASSUME Up, NEW step \in {"down", "aborted"}, Halt(step), UNCHANGED database
  PROVE  Table!Next
<1>1. /\ \A w \in Workers : pc'[w] = step /\ job'[w] = NoJob
      /\ devices' = {} /\ deleted' = {} /\ UNCHANGED <<rows, unused>> /\ ~ Up'
  BY ThreadFacts DEF Halt, database, Up
<1>2. \A w \in Workers : ~ Making(w)' /\ Reading(w)' = {}
  BY <1>1, ReadingIs DEF Making, At, NoJob
<1>3. makingOf' = {} /\ readsOf' = {}
  <2>1. makingOf' = {Made(w)' : w \in {v \in Workers : Making(v)'}}
    BY DEF makingOf, Made
  <2>2. readsOf' = UNION {Reading(w)' : w \in Workers}
    BY DEF readsOf
  <2> QED  BY <1>2, <2>1, <2>2
<1>4. inForceOf' = Table!Nowhere /\ deletingOf' = {}
  BY <1>1 DEF inForceOf, deletingOf, Table!Nowhere
<1>5. Table!End
  BY <1>1, <1>3, <1>4 DEF Table!End
<1> QED  BY <1>5 DEF Table!Next

LEMMA StartTabled ==
  ASSUME TableInv, Start
  PROVE  Table!Next
<1>1. /\ ~ Up /\ Up' /\ devices' \in SUBSET Ids
      /\ config' = [d \in Ids |-> IF d \in devices' THEN Loaded(d) ELSE None]
      /\ UNCHANGED <<rows, unused, deleted, job>>
      /\ \A w \in Workers : pc'[w] = "idle"
  BY ThreadFacts DEF Start, FirstStep, Up, database
<1>2. \A w \in Workers : pc[w] \in {"down", "aborted"}
  BY <1>1, ThreadFacts DEF TableInv, IInv, MainFits, Up
<1>3. \A w \in Workers : ~ Making(w) /\ ~ Making(w)' /\ Reading(w)' = Reading(w)
  BY <1>1, <1>2, ReadingIs DEF Making, At
<1>4. makingOf' = makingOf /\ readsOf' = readsOf
  <2>1. makingOf' = {Made(w)' : w \in {v \in Workers : Making(v)'}}
    BY DEF makingOf, Made
  <2>2. readsOf' = UNION {Reading(w)' : w \in Workers}
    BY DEF readsOf
  <2>3. makingOf' = {} /\ makingOf = {}
    BY <1>3, <2>1 DEF makingOf
  <2>4. readsOf' = readsOf
    BY <1>3, <2>2 DEF readsOf
  <2> QED  BY <2>3, <2>4
<1>5. deletingOf' = deletingOf
  BY <1>1, DeletingKept
<1>6. inForceOf' = [d \in Ids |-> IF d \in devices' THEN rows[d] ELSE None]
  <2>1. \A d \in devices' : config'[d].topic = rows[d]
    BY <1>1 DEF Loaded
  <2> QED  BY <1>1, <2>1 DEF inForceOf
<1>7. Table!Start
  BY <1>1, <1>4, <1>5, <1>6 DEF Table!Start
<1> QED  BY <1>7 DEF Table!Next

LEMMA TableStep ==
  ASSUME TableInv, [Next]_vars
  PROVE  [Table!Next]_(Table!vars)
<1>0. /\ Workers \subseteq Threads \ {"poller", "syncer", "dispatcher", "main"}
      /\ {"poller", "syncer", "dispatcher", "main"} \subseteq Threads /\ TypeOK /\ IInv
  BY ThreadFacts DEF TableInv, IInv
<1>1. ASSUME UNCHANGED <<database, objects, job, pc>> PROVE UNCHANGED Table!vars
  BY <1>1, OthersTabled DEF database, objects, Up
<1>2. ASSUME NEW t \in {"poller", "syncer", "dispatcher"}, NEW step, Goto(t, step),
             UNCHANGED <<database, objects, job>>
      PROVE  UNCHANGED Table!vars
  <2>1. (\A w \in Workers : pc'[w] = pc[w]) /\ pc'["main"] = pc["main"]
    BY <1>0, <1>2, GotoFacts
  <2> QED  BY <1>2, <2>1, OthersTabled DEF database, objects, Up
<1>3. ASSUME NEW step \in {"threads", "mqtt", "ws", "exit"}, Goto("main", step), Up,
             UNCHANGED <<database, objects, job>>
      PROVE  UNCHANGED Table!vars
  <2>1. (\A w \in Workers : pc'[w] = pc[w]) /\ pc'["main"] = step
    BY <1>0, <1>3, GotoFacts
  <2>2. Up' <=> Up
    BY <1>3, <2>1 DEF Up
  <2> QED  BY <1>3, <2>1, <2>2, OthersTabled DEF database, objects
<1>4. CASE \E w \in Workers : Order(w) \/ Work(w) \/ Release(w)
  <2>1. PICK w \in Workers : Order(w) \/ Work(w) \/ Release(w)
    BY <1>4
  <2>2. CASE Work(w)
    BY <2>2, StoringTabled, ReloadTabled DEF Work
  <2> QED  BY <1>0, <2>1, <2>2, OrderTabled, ReleaseTabled
<1>5. CASE DispatcherStep
  <2>1. CASE PopUnknown
    <3>1. Up /\ Halt("aborted") /\ UNCHANGED database
      BY <1>0, <2>1, RunsIfUp DEF PopUnknown, At
    <3> QED  BY <3>1, HaltTabled
  <2> QED
    BY <1>0, <1>2, <1>5, <2>1, ReleaseTabled DEF DispatcherStep, PopStop, Pop, DispatchMQTTMessage
<1>6. CASE Poll \/ PollerStep \/ Sync \/ Release("syncer")
  BY <1>0, <1>2, <1>6, ReleaseTabled DEF PollerStep, Poll, Ask, Answered, Ended, Sync, Collect
<1>7. CASE Signal \/ ShutdownMqtt \/ ShutdownServer \/ DestroyClient
  <2>1. Up
    BY <1>7 DEF Signal, ShutdownMqtt, ShutdownServer, DestroyClient, At, Up
  <2> QED
    BY <1>3, <1>7, <2>1 DEF Signal, ShutdownMqtt, ShutdownServer, DestroyClient
<1>8. CASE Overrun \/ Exit \/ Crash
  <2>1. Up /\ Halt("down") /\ UNCHANGED database
    BY <1>8 DEF Overrun, Exit, Crash, At, Up
  <2> QED  BY <2>1, HaltTabled
<1>9. CASE Unload \/ Start \/ Release("main")
  BY <1>0, <1>9, UnloadTabled, StartTabled, ReleaseTabled
<1>10. CASE \/ Disconnect \/ Connect \/ UNCHANGED vars
            \/ \E topic \in Topics : Arrive(topic)
            \/ \E s \in batch : Push(s)
  BY <1>1, <1>10 DEF Disconnect, Connect, Arrive, Push, vars
<1> QED
  BY <1>4, <1>5, <1>6, <1>7, <1>8, <1>9, <1>10 DEF Next, MainStep

LEMMA InitTabled == Init => Table!Init
<1> SUFFICES ASSUME Init PROVE Table!Init
  OBVIOUS
<1>1. /\ \A w \in Workers : pc[w] = "down" /\ job[w] = NoJob
      /\ devices = {} /\ deleted = {} /\ ~ Up
      /\ rows = Installed /\ unused = {d \in Ids : Installed[d] = None}
  BY ThreadFacts DEF Init, Up
<1>2. \A w \in Workers : ~ Making(w) /\ Reading(w) = {}
  BY <1>1, ReadingIs DEF Making, At, NoJob
<1>3. makingOf = {} /\ readsOf = {} /\ deletingOf = {} /\ inForceOf = Table!Nowhere
  BY <1>1, <1>2 DEF makingOf, readsOf, deletingOf, inForceOf, Table!Nowhere
<1> QED  BY <1>1, <1>3 DEF Table!Init

\* The registry implements its table: whatever creations, changes, reloads,
\* deletions and destructors are under way at once, and wherever the program ends
\* or is ended, a device is found with what was stored for it, a configuration
\* comes into force only if a reload read it from the device's row, a row goes
\* only when its device was deleted and does not come back, and a start finds
\* devices whose rows are there, and no others.
THEOREM TableIsKept == Spec => KeepsTable
<1>1. Init => TableInv /\ Table!Init
  BY InitTable, InitTabled
<1>2. IInv /\ RowsFit /\ StoredFit /\ [Next]_vars => RowsFit' /\ StoredFit'
  BY RowsStep, StoredStep DEF TableInv
<1>3. IInv /\ RowsFit /\ StoredFit /\ [Next]_vars => [Table!Next]_(Table!vars)
  BY TableStep DEF TableInv
<1>4. TableInv => IInv /\ RowsFit /\ StoredFit
  BY DEF TableInv
<1> QED
  BY <1>1, <1>2, <1>3, <1>4, Invariant, PTL DEF Spec, KeepsTable, Table!Spec
=============================================================================
