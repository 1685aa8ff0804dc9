----------------------------- MODULE ApiServer ------------------------------
(***************************************************************************)
(* The API protocol of the websocket server (websocket::Server and         *)
(* websocket::SolarControl): its event loop, whose callbacks libwebsockets *)
(* runs one at a time, the thread that carries out a connection's request, *)
(* the context they share, and the server's shutdown.                      *)
(*                                                                         *)
(* The program's std::thread object of a context is joinable from the      *)
(* start of its worker to the join: the event loop joins it in order to    *)
(* send the answer, or when the connection is closed; an orphan, whose     *)
(* connection was closed meanwhile, detaches itself.                       *)
(*                                                                         *)
(* What a command does is the subject of other modules.  A request is its  *)
(* number and what the dispatcher makes of it.  It is received whole (a    *)
(* message in several packets is put together first).                      *)
(***************************************************************************)
EXTENDS Naturals, Sequences

CONSTANTS Conns,     \* connections to the API, each used once
          Hasty,     \* those whose client may send while the server is busy
          MaxFrames, \* bound: requests of a behaviour
          None       \* the empty string; no connection

Kinds == {"command", "refused", "keepalive"}
Message == [number : 1..MaxFrames, kind : Kinds]

ASSUME ServerAssumption ==
  /\ Hasty \subseteq Conns
  /\ MaxFrames \in Nat
  /\ None \notin Message \cup Conns

VARIABLES conn,             \* the connection
          frames, sent,     \* requests on their way, number of requests sent
          answers,          \* what the client was sent
          context,          \* whether the st_api_context exists
          worker_alive, is_orphaned, message, response,  \* its fields
          thread,           \* its field worker: is it joinable?
          worker,           \* where the thread is
          notified_clients, \* Server::notified_clients
          writable,         \* connections lws will call back
          joined,           \* whose worker the callback waits for, or None
          stage,            \* how far main's Shutdown is
          handled,          \* commands whose handler has run
          crashed           \* whether std::terminate was called

client  == <<conn, frames, sent, answers>>
fields  == <<worker_alive, is_orphaned, message, response, thread>>
loop    == <<notified_clients, writable, joined>>
vars == <<client, context, fields, worker, loop, stage, handled, crashed>>

WorkerSteps == {"none", "dispatching", "locking", "leaving", "freed",
                "ended"}

TypeOK ==
  /\ conn \in [Conns -> {"new", "open", "lost", "closing", "closed"}]
  /\ frames \in [Conns -> Seq(Message)] /\ sent \in Nat
  /\ answers \in [Conns -> Seq(Message)]
  /\ context \in [Conns -> {"none", "live", "freed"}]
  /\ worker_alive \in [Conns -> BOOLEAN] /\ is_orphaned \in [Conns -> BOOLEAN]
  /\ message \in [Conns -> Message \cup {None}]
  /\ response \in [Conns -> Message \cup {None}]
  /\ thread \in [Conns -> BOOLEAN] /\ worker \in [Conns -> WorkerSteps]
  /\ notified_clients \subseteq Conns /\ writable \subseteq Conns
  /\ joined \in Conns \cup {None}
  /\ stage \in {"run", "stopping", "destroy", "done", "exit"}
  /\ handled \in [Conns -> SUBSET Message] /\ crashed \in BOOLEAN

Init ==
  /\ conn = [c \in Conns |-> "new"]
  /\ frames = [c \in Conns |-> <<>>] /\ sent = 0
  /\ answers = [c \in Conns |-> <<>>]
  /\ context = [c \in Conns |-> "none"]
  /\ worker_alive = [c \in Conns |-> FALSE] /\ is_orphaned = [c \in Conns |-> FALSE]
  /\ message = [c \in Conns |-> None] /\ response = [c \in Conns |-> None]
  /\ thread = [c \in Conns |-> FALSE] /\ worker = [c \in Conns |-> "none"]
  /\ notified_clients = {} /\ writable = {} /\ joined = None
  /\ stage = "run" /\ handled = [c \in Conns |-> {}] /\ crashed = FALSE

Cancelling == stage # "run"

\* The event loop is between two callbacks, or main in lws_context_destroy is.
Serving    == stage \in {"run", "stopping"} /\ joined = None
Destroying == stage = "destroy" /\ joined = None

\* The worker of c holds worker_lock.  (The event loop holds it within one
\* callback, which waits for nothing then: that is one step.)
Locked(c) == worker[c] = "leaving"

-----------------------------------------------------------------------------
(* The client. *)

\* A client that is not hasty sends when the server has done with its last
\* request: a command's answer tells it so, the others' must be waited for.
Quiet(c) == frames[c] = <<>> /\ ~ thread[c]

Send(c, kind) ==
  /\ conn[c] = "open" /\ sent < MaxFrames
  /\ c \in Hasty \/ Quiet(c)
  /\ sent' = sent + 1
  /\ frames' = [frames EXCEPT ![c] = Append(@, [number |-> sent + 1, kind |-> kind])]
  /\ UNCHANGED <<conn, answers, context, fields, worker, loop, stage, handled, crashed>>

\* The client closes its connection or is lost.
Disconnect(c) ==
  /\ conn[c] = "open"
  /\ conn' = [conn EXCEPT ![c] = "lost"]
  /\ UNCHANGED <<frames, sent, answers, context, fields, worker, loop, stage, handled, crashed>>

-----------------------------------------------------------------------------
(* The callbacks of the event loop. *)

Established(c) ==
  /\ Serving /\ conn[c] = "new"
  /\ conn' = [conn EXCEPT ![c] = "open"]
  /\ context' = [context EXCEPT ![c] = "live"]
  /\ UNCHANGED <<frames, sent, answers, fields, worker, loop, stage, handled, crashed>>

\* A request comes while the worker is alive: it is ignored.
Ignore(c) ==
  /\ worker_alive[c]
  /\ UNCHANGED <<worker_alive, message, thread, worker, crashed>>

\* The worker has ended but was not joined: assigning to it ends the program.
Terminate(c) ==
  /\ ~ worker_alive[c] /\ thread[c]
  /\ crashed' = TRUE
  /\ UNCHANGED <<worker_alive, message, thread, worker>>

StartWorker(c) ==
  /\ ~ worker_alive[c] /\ ~ thread[c]
  /\ message' = [message EXCEPT ![c] = Head(frames[c])]
  /\ worker_alive' = [worker_alive EXCEPT ![c] = TRUE]
  /\ thread' = [thread EXCEPT ![c] = TRUE]
  /\ worker' = [worker EXCEPT ![c] = "dispatching"]
  /\ UNCHANGED crashed

Receive(c) ==
  /\ Serving /\ conn[c] \in {"open", "lost"} /\ frames[c] # <<>> /\ ~ Locked(c)
  /\ frames' = [frames EXCEPT ![c] = Tail(@)]
  /\ Ignore(c) \/ Terminate(c) \/ StartWorker(c)
  /\ UNCHANGED <<conn, sent, answers, context, is_orphaned, response, loop, stage, handled>>

\* lws_service has returned and the server goes on: who was notified is to be
\* called back.
Turn ==
  /\ Serving /\ ~ Cancelling /\ notified_clients # {}
  /\ writable' = writable \cup notified_clients
  /\ notified_clients' = {}
  /\ UNCHANGED <<client, context, fields, worker, joined, stage, handled, crashed>>

\* The writable callback, which joins the worker of c if there is one ...
Writable(c) ==
  /\ Serving /\ c \in writable /\ conn[c] \in {"open", "lost"}
  /\ writable' = writable \ {c}
  /\ joined' = IF thread[c] THEN c ELSE None
  /\ UNCHANGED <<client, context, fields, worker, notified_clients, stage, handled, crashed>>

\* ... and sends what it has answered, if anything.
Answer(c) ==
  /\ joined = c /\ conn[c] # "closing" /\ worker[c] = "ended"
  /\ joined' = None
  /\ thread' = [thread EXCEPT ![c] = FALSE]
  /\ worker_alive' = [worker_alive EXCEPT ![c] = FALSE]
  /\ worker' = [worker EXCEPT ![c] = "none"]
  /\ answers' = [answers EXCEPT ![c] = IF response[c] = None THEN @ ELSE Append(@, response[c])]
  /\ UNCHANGED <<conn, frames, sent, context, is_orphaned, message, response,
                 notified_clients, writable, stage, handled, crashed>>

\* The end of the closed callback: libwebsockets forgets the connection.
Forget(c) ==
  /\ conn' = [conn EXCEPT ![c] = "closed"]
  /\ frames' = [frames EXCEPT ![c] = <<>>]
  /\ notified_clients' = notified_clients \ {c}
  /\ writable' = writable \ {c}

\* Its worker is alive: it will delete the context.
LeaveOrphan(c) ==
  /\ worker_alive[c] /\ ~ Cancelling
  /\ is_orphaned' = [is_orphaned EXCEPT ![c] = TRUE]
  /\ Forget(c)
  /\ UNCHANGED <<context, joined>>

\* Its worker has ended, or the server stops: it is waited for.
AwaitWorker(c) ==
  /\ IF worker_alive[c] THEN Cancelling ELSE thread[c]
  /\ conn' = [conn EXCEPT ![c] = "closing"]
  /\ joined' = c
  /\ UNCHANGED <<frames, notified_clients, writable, context, is_orphaned>>

\* Mutant: the context is deleted under its worker.
DeleteAlive(c) ==
  /\ ~ Cancelling
  /\ context' = [context EXCEPT ![c] = "freed"]
  /\ Forget(c)
  /\ UNCHANGED <<is_orphaned, joined>>

DeleteIdle(c) ==
  /\ ~ worker_alive[c] /\ ~ thread[c]
  /\ context' = [context EXCEPT ![c] = "freed"]
  /\ Forget(c)
  /\ UNCHANGED <<is_orphaned, joined>>

\* The closed callback, when the client is lost or the server is destroyed.
Closed(c) ==
  /\ \/ Serving /\ conn[c] = "lost"
     \/ Destroying /\ conn[c] \in {"open", "lost"}
  /\ ~ Locked(c)
  /\ LeaveOrphan(c) \/ AwaitWorker(c) \/ DeleteIdle(c)
  /\ UNCHANGED <<sent, answers, worker_alive, message, response, thread, worker,
                 stage, handled, crashed>>

DeleteJoined(c) ==
  /\ joined = c /\ conn[c] = "closing" /\ worker[c] = "ended"
  /\ joined' = None
  /\ thread' = [thread EXCEPT ![c] = FALSE]
  /\ worker' = [worker EXCEPT ![c] = "none"]
  /\ context' = [context EXCEPT ![c] = "freed"]
  /\ Forget(c)
  /\ UNCHANGED <<sent, answers, worker_alive, is_orphaned, message, response,
                 stage, handled, crashed>>

-----------------------------------------------------------------------------
(* The worker. *)

\* Mutant: a keepalive leaves the response of an earlier command.
DispatchStale(c) ==
  /\ worker[c] = "dispatching"
  /\ \/ /\ message[c].kind = "command"
        /\ handled' = [handled EXCEPT ![c] = @ \cup {message[c]}]
        /\ response' = [response EXCEPT ![c] = message[c]]
     \/ /\ message[c].kind # "command"
        /\ UNCHANGED <<handled, response>>
  /\ worker' = [worker EXCEPT ![c] = IF Cancelling THEN "ended" ELSE "locking"]
  /\ UNCHANGED <<client, context, worker_alive, is_orphaned, message, thread, loop,
                 stage, crashed>>

\* The dispatcher throws for a request it refuses, and the context keeps the
\* response of an earlier command.  While the server stops, the worker ends after
\* that: it will be joined.
Dispatch(c) ==
  /\ worker[c] = "dispatching"
  /\ \/ /\ message[c].kind = "command"
        /\ handled' = [handled EXCEPT ![c] = @ \cup {message[c]}]
        /\ response' = [response EXCEPT ![c] = message[c]]
        /\ message' = [message EXCEPT ![c] = None]
     \/ /\ message[c].kind = "keepalive"
        /\ response' = [response EXCEPT ![c] = None]
        /\ message' = [message EXCEPT ![c] = None]
        /\ UNCHANGED handled
     \/ /\ message[c].kind = "refused"
        /\ UNCHANGED <<handled, response, message>>
  /\ worker' = [worker EXCEPT ![c] = IF Cancelling THEN "ended" ELSE "locking"]
  /\ UNCHANGED <<client, context, worker_alive, is_orphaned, thread, loop, stage, crashed>>

\* Mutant: nobody is told that there is an answer.
NotifyNobody(c) ==
  /\ worker[c] = "locking" /\ ~ is_orphaned[c]
  /\ worker_alive' = [worker_alive EXCEPT ![c] = FALSE]
  /\ worker' = [worker EXCEPT ![c] = "leaving"]
  /\ UNCHANGED <<client, context, is_orphaned, message, response, thread,
                 notified_clients, writable, joined, stage, handled, crashed>>

\* Mutant: the closed callback still holds the lock while it joins.
NotifyIfUnlocked(c) ==
  /\ worker[c] = "locking" /\ ~ is_orphaned[c] /\ joined # c
  /\ worker_alive' = [worker_alive EXCEPT ![c] = FALSE]
  /\ notified_clients' = notified_clients \cup {c}
  /\ worker' = [worker EXCEPT ![c] = "leaving"]
  /\ UNCHANGED <<client, context, is_orphaned, message, response, thread, writable,
                 joined, stage, handled, crashed>>

\* Under worker_lock: somebody will join the worker and send the answer ...
Notify(c) ==
  /\ worker[c] = "locking" /\ ~ is_orphaned[c]
  /\ worker_alive' = [worker_alive EXCEPT ![c] = FALSE]
  /\ notified_clients' = notified_clients \cup {c}
  /\ worker' = [worker EXCEPT ![c] = "leaving"]
  /\ UNCHANGED <<client, context, is_orphaned, message, response, thread, writable,
                 joined, stage, handled, crashed>>

\* ... or nobody will.  (The lock is released after its mutex was freed.)
FreeOrphan(c) ==
  /\ worker[c] = "locking" /\ is_orphaned[c]
  /\ worker_alive' = [worker_alive EXCEPT ![c] = FALSE]
  /\ thread' = [thread EXCEPT ![c] = FALSE]
  /\ context' = [context EXCEPT ![c] = "freed"]
  /\ worker' = [worker EXCEPT ![c] = "freed"]
  /\ UNCHANGED <<client, is_orphaned, message, response, loop, stage, handled, crashed>>

\* The lock is released, the thread ends.
End(c) ==
  /\ worker[c] \in {"leaving", "freed"}
  /\ worker' = [worker EXCEPT ![c] = "ended"]
  /\ UNCHANGED <<client, context, fields, loop, stage, handled, crashed>>

Worker(c) ==
  Dispatch(c) \/ Notify(c) \/ FreeOrphan(c) \/ End(c)

-----------------------------------------------------------------------------
(* main. *)

Shutdown ==
  /\ stage = "run"
  /\ stage' = "stopping"
  /\ UNCHANGED <<client, context, fields, worker, loop, handled, crashed>>

\* The event loop ends; main, which has waited for it, goes on.
LoopEnds ==
  /\ stage = "stopping" /\ joined = None
  /\ stage' = "destroy"
  /\ UNCHANGED <<client, context, fields, worker, loop, handled, crashed>>

\* Every connection was closed: Shutdown returns.
ShutdownEnds ==
  /\ Destroying /\ \A c \in Conns : conn[c] \in {"new", "closed"}
  /\ stage' = "done"
  /\ UNCHANGED <<client, context, fields, worker, loop, handled, crashed>>

\* main returns, which ends every thread that is left.
Exit ==
  /\ stage = "done"
  /\ stage' = "exit"
  /\ UNCHANGED <<client, context, fields, worker, loop, handled, crashed>>

-----------------------------------------------------------------------------
Up == stage # "exit" /\ ~ crashed

Callback(c) ==
  Established(c) \/ Receive(c) \/ Writable(c) \/ Answer(c) \/ Closed(c) \/ DeleteJoined(c)

Next ==
  /\ Up
  /\ \/ \E c \in Conns : (\E kind \in Kinds : Send(c, kind)) \/ Disconnect(c)
     \/ \E c \in Conns : Callback(c)
     \/ \E c \in Conns : Worker(c)
     \/ Turn
     \/ Shutdown \/ LoopEnds \/ ShutdownEnds \/ Exit

\* A worker goes on, the event loop serves whatever is there to be served, and
\* main does not stop within Shutdown.  Nobody has to connect, send, leave or
\* shut the program down.
Fairness ==
  /\ \A c \in Conns : /\ WF_vars(Up /\ Worker(c))
                      /\ WF_vars(Up /\ (Receive(c) \/ Answer(c) \/ DeleteJoined(c)))
                      /\ WF_vars(Up /\ Writable(c))
                      /\ WF_vars(Up /\ Closed(c))
  /\ WF_vars(Up /\ Turn)
  /\ WF_vars(Up /\ (LoopEnds \/ ShutdownEnds))

Spec == Init /\ [][Next]_vars /\ Fairness

-----------------------------------------------------------------------------
(* Properties. *)

\* Neither a worker, nor the event loop, nor main uses the context of a
\* connection after it was deleted, whoever deletes it: the closed callback,
\* the orphan, or the shutdown.  The unlocking of the orphan's own lock, which
\* is inside the context it has just deleted (SolarControl.cpp:107-108), is the
\* exception and undefined behaviour.
ContextIsSafe ==
  \A c \in Conns :
    \/ worker[c] \in {"dispatching", "locking", "leaving"}
    \/ conn[c] \in {"open", "lost", "closing"}
    \/ joined = c \/ c \in writable \cup notified_clients
    => context[c] = "live"

\* The command of a client that is not hasty is answered, unless the connection
\* or the program ends before: no end of a worker is missed by the event loop.
CommandsAreAnswered ==
  \A c \in Conns \ Hasty : \A n \in 1..MaxFrames :
    (\E i \in DOMAIN frames[c] : frames[c][i] = [number |-> n, kind |-> "command"])
    ~> \/ \E i \in DOMAIN answers[c] : answers[c][i].number = n
       \/ conn[c] # "open" \/ Cancelling \/ crashed

\* Shutdown returns: no callback waits for ever for a worker, no worker for the
\* lock of a context (unless a hasty client makes the program terminate).
ServerStops == Cancelling ~> stage \in {"done", "exit"} \/ crashed

-----------------------------------------------------------------------------
(* The service the server implements. *)

phaseOf(c) ==
  CASE conn[c] = "closed" -> IF worker[c] = "dispatching" THEN "orphan" ELSE "left"
    [] conn[c] # "closed" /\ ~ thread[c] -> "idle"
    [] conn[c] # "closed" /\ thread[c] ->
         IF worker[c] = "dispatching" THEN "accepted" ELSE "executed"

requestOf(c) == IF worker[c] = "dispatching" THEN message[c] ELSE None
replyOf(c)   == IF phaseOf(c) = "executed" THEN response[c] ELSE None

Service == INSTANCE ApiService WITH
  up      <- Up,
  phase   <- [c \in Conns |-> phaseOf(c)],
  request <- [c \in Conns |-> requestOf(c)],
  reply   <- [c \in Conns |-> replyOf(c)]

\* Every request is carried out at most once, in order, and a command answered
\* with its own answer, by every interleaving of loop, workers and shutdown.
ServesEachOnce == Service!Spec

=============================================================================
