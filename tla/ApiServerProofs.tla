-------------------------- MODULE ApiServerProofs ---------------------------
(***************************************************************************)
(* Proofs about the API protocol of the websocket server (ApiServer), for  *)
(* any connections, clients and bounds.                                    *)
(***************************************************************************)
EXTENDS ApiServer, TLAPS

-----------------------------------------------------------------------------
(* Type correctness. *)

\* A worker that is dispatching has a message: without that, the response it
\* makes of it has no type.
TypeInv == TypeOK /\ \A c \in Conns : worker[c] = "dispatching" => message[c] \in Message

LEMMA InitType == ASSUME Init PROVE TypeInv
<1>1. <<>> \in Seq(Message) /\ {} \in SUBSET Message
  OBVIOUS
<1> QED
  BY <1>1 DEF Init, TypeInv, TypeOK, WorkerSteps

LEMMA NextType == ASSUME TypeInv, [Next]_vars PROVE TypeInv'
<1> USE DEF TypeInv, TypeOK, WorkerSteps, client, fields, loop
<1>1. CASE UNCHANGED vars  BY <1>1 DEF vars
<1>2. ASSUME NEW c \in Conns, NEW kind \in Kinds, Send(c, kind) PROVE TypeInv'
  <2>1. sent + 1 \in 1..MaxFrames /\ sent' \in Nat  BY <1>2, ServerAssumption DEF Send
  <2>2. [number |-> sent + 1, kind |-> kind] \in Message  BY <2>1 DEF Message
  <2>3. frames' \in [Conns -> Seq(Message)]  BY <1>2, <2>2 DEF Send
  <2> QED  BY <1>2, <2>1, <2>3 DEF Send
<1>3. ASSUME NEW c \in Conns, Disconnect(c) PROVE TypeInv'  BY <1>3 DEF Disconnect
<1>4. ASSUME NEW c \in Conns, Established(c) PROVE TypeInv'  BY <1>4 DEF Established
<1>5. ASSUME NEW c \in Conns, Receive(c) PROVE TypeInv'
  <2>1. Head(frames[c]) \in Message /\ frames' \in [Conns -> Seq(Message)]
    BY <1>5 DEF Receive
  <2>2. UNCHANGED <<conn, sent, answers, context, is_orphaned, response, loop, stage, handled>>
    BY <1>5 DEF Receive
  <2>3. CASE Ignore(c)  BY <2>1, <2>2, <2>3 DEF Ignore
  <2>4. CASE Terminate(c)  BY <2>1, <2>2, <2>4 DEF Terminate
  <2>5. CASE StartWorker(c)  BY <2>1, <2>2, <2>5 DEF StartWorker
  <2> QED  BY <1>5, <2>3, <2>4, <2>5 DEF Receive
<1>6. ASSUME NEW c \in Conns, Writable(c) PROVE TypeInv'  BY <1>6 DEF Writable
<1>7. ASSUME NEW c \in Conns, Answer(c) PROVE TypeInv'
  <2>1. answers' \in [Conns -> Seq(Message)]  BY <1>7, ServerAssumption DEF Answer
  <2> QED  BY <1>7, <2>1 DEF Answer
<1>8. ASSUME NEW c \in Conns, Closed(c) PROVE TypeInv'
  <2>1. UNCHANGED <<sent, answers, worker_alive, message, response, thread, worker,
                    stage, handled, crashed>>
    BY <1>8 DEF Closed
  <2>2. CASE LeaveOrphan(c)  BY <2>1, <2>2 DEF LeaveOrphan, Forget
  <2>3. CASE AwaitWorker(c)  BY <2>1, <2>3 DEF AwaitWorker
  <2>4. CASE DeleteIdle(c)  BY <2>1, <2>4 DEF DeleteIdle, Forget
  <2> QED  BY <1>8, <2>2, <2>3, <2>4 DEF Closed
<1>9. ASSUME NEW c \in Conns, DeleteJoined(c) PROVE TypeInv'  BY <1>9 DEF DeleteJoined, Forget
<1>10. ASSUME NEW c \in Conns, Dispatch(c) PROVE TypeInv'
  <2>1. message[c] \in Message /\ message[c] # None
    BY ServerAssumption, <1>10 DEF Dispatch
  <2>2. handled' \in [Conns -> SUBSET Message]
    <3>1. handled[c] \cup {message[c]} \in SUBSET Message  BY <2>1
    <3>2. \/ handled' = [handled EXCEPT ![c] = handled[c] \cup {message[c]}]
          \/ handled' = handled
      BY <1>10 DEF Dispatch
    <3> QED  BY <3>1, <3>2
  <2>3. response' \in [Conns -> Message \cup {None}]  BY <1>10, <2>1 DEF Dispatch
  <2>4. message' \in [Conns -> Message \cup {None}]  BY <1>10, <2>1 DEF Dispatch
  <2>5. worker' \in [Conns -> WorkerSteps] /\ worker'[c] # "dispatching"
    BY <1>10 DEF Dispatch
  <2>6. \A d \in Conns : d # c => worker'[d] = worker[d] /\ message'[d] = message[d]
    BY <1>10 DEF Dispatch
  <2>7. UNCHANGED <<client, context, worker_alive, is_orphaned, thread, loop, stage, crashed>>
    BY <1>10 DEF Dispatch
  <2> QED  BY <2>2, <2>3, <2>4, <2>5, <2>6, <2>7
<1>11. ASSUME NEW c \in Conns, Notify(c) PROVE TypeInv'  BY <1>11 DEF Notify
<1>12. ASSUME NEW c \in Conns, FreeOrphan(c) PROVE TypeInv'  BY <1>12 DEF FreeOrphan
<1>13. ASSUME NEW c \in Conns, End(c) PROVE TypeInv'  BY <1>13 DEF End
<1>14. ASSUME Turn PROVE TypeInv'  BY <1>14 DEF Turn
<1>15. ASSUME Shutdown \/ LoopEnds \/ ShutdownEnds \/ Exit PROVE TypeInv'
  BY <1>15 DEF Shutdown, LoopEnds, ShutdownEnds, Exit
<1> QED
  BY <1>1, <1>2, <1>3, <1>4, <1>5, <1>6, <1>7, <1>8, <1>9, <1>10, <1>11, <1>12, <1>13,
     <1>14, <1>15 DEF Next, Callback, Worker

\* The variables keep their types.
THEOREM TypeCorrect == Spec => []TypeOK
<1>1. TypeInv => TypeOK
  BY DEF TypeInv
<1> QED
  BY <1>1, InitType, NextType, PTL DEF Spec

-----------------------------------------------------------------------------
(* Who may use a context, and who must delete it. *)

Connected == {"open", "lost", "closing"}

\* Connection c, its context and its worker.
ConnInv(c) ==
  /\ conn[c] = "new" => ~ thread[c] /\ ~ worker_alive[c] /\ worker[c] = "none" /\ ~ is_orphaned[c]
  /\ conn[c] \in Connected => context[c] = "live" /\ ~ is_orphaned[c]
  /\ conn[c] \in Connected /\ worker_alive[c] => thread[c]
  /\ joined = c => thread[c] /\ conn[c] \in Connected
  /\ conn[c] = "closing" => joined = c
  /\ thread[c] => worker[c] \in {"dispatching", "locking", "leaving", "ended"}
  /\ ~ thread[c] => worker[c] \in {"none", "freed", "ended"}
  /\ worker[c] \in {"dispatching", "locking"} =>
       /\ thread[c] /\ worker_alive[c] /\ context[c] = "live"
       /\ conn[c] = "closed" => is_orphaned[c]
  /\ worker[c] = "leaving" => context[c] = "live" /\ conn[c] \in Connected
  /\ worker[c] = "freed" => conn[c] = "closed"
  /\ conn[c] # "closed" /\ worker[c] \in {"leaving", "ended"} /\ worker_alive[c] => Cancelling
  /\ c \in notified_clients \cup writable => conn[c] \in Connected

ContextInv == \A c \in Conns : ConnInv(c)

LEMMA InitContext == ASSUME Init PROVE ContextInv
BY ServerAssumption DEF Init, ContextInv, ConnInv, Connected

LEMMA NextContext ==
  ASSUME TypeOK, TypeOK', ContextInv, [Next]_vars PROVE ContextInv'
<1> SUFFICES ASSUME NEW d \in Conns PROVE ConnInv(d)'
  BY DEF ContextInv
<1>0. ConnInv(d) /\ None # d
  BY ServerAssumption DEF ContextInv
<1> USE <1>0 DEF ConnInv, Connected, TypeOK, WorkerSteps, client, fields, loop, Cancelling
<1>1. CASE UNCHANGED vars  BY <1>1 DEF vars
<1>2. ASSUME NEW c \in Conns, NEW kind \in Kinds, Send(c, kind) PROVE ConnInv(d)'
  BY <1>2 DEF Send
<1>3. ASSUME NEW c \in Conns, Disconnect(c) PROVE ConnInv(d)'  BY <1>3 DEF Disconnect
<1>4. ASSUME NEW c \in Conns, Established(c) PROVE ConnInv(d)'
  BY <1>4 DEF Established
<1>5. ASSUME NEW c \in Conns, Receive(c) PROVE ConnInv(d)'
  <2>1. /\ conn[c] \in {"open", "lost"} /\ ConnInv(c)
        /\ UNCHANGED <<conn, sent, answers, context, is_orphaned, response, loop, stage, handled>>
    BY <1>5 DEF Receive, ContextInv
  <2>2. CASE Ignore(c)  BY <2>1, <2>2 DEF Ignore
  <2>3. CASE Terminate(c)  BY <2>1, <2>3 DEF Terminate
  <2>4. CASE StartWorker(c)  BY <2>1, <2>4 DEF StartWorker
  <2> QED  BY <1>5, <2>2, <2>3, <2>4 DEF Receive
<1>6. ASSUME NEW c \in Conns, Writable(c) PROVE ConnInv(d)'
  BY <1>6 DEF Writable, Serving
<1>7. ASSUME NEW c \in Conns, Answer(c) PROVE ConnInv(d)'  BY <1>7 DEF Answer
<1>8. ASSUME NEW c \in Conns, Closed(c) PROVE ConnInv(d)'
  <2>1. /\ joined = None /\ conn[c] \in {"open", "lost"} /\ worker[c] # "leaving" /\ ConnInv(c)
        /\ UNCHANGED <<sent, answers, worker_alive, message, response, thread, worker,
                       stage, handled, crashed>>
    BY <1>8 DEF Closed, Serving, Destroying, Locked, ContextInv
  <2>2. CASE LeaveOrphan(c)  BY <2>1, <2>2 DEF LeaveOrphan, Forget
  <2>3. CASE AwaitWorker(c)  BY <2>1, <2>3 DEF AwaitWorker
  <2>4. CASE DeleteIdle(c)  BY <2>1, <2>4 DEF DeleteIdle, Forget
  <2> QED  BY <1>8, <2>2, <2>3, <2>4 DEF Closed
<1>9. ASSUME NEW c \in Conns, DeleteJoined(c) PROVE ConnInv(d)'
  BY <1>9 DEF DeleteJoined, Forget
<1>10. ASSUME NEW c \in Conns, Dispatch(c) PROVE ConnInv(d)'
  <2>1. /\ worker[c] = "dispatching"
        /\ worker' = [worker EXCEPT ![c] = IF Cancelling THEN "ended" ELSE "locking"]
        /\ UNCHANGED <<client, context, worker_alive, is_orphaned, thread, loop, stage, crashed>>
    BY <1>10 DEF Dispatch
  <2> QED  BY <2>1
<1>11. ASSUME NEW c \in Conns, Notify(c) PROVE ConnInv(d)'
  <2>1. ConnInv(c)  BY DEF ContextInv
  <2>2. conn[c] \in Connected  BY <1>11, <2>1 DEF Notify
  <2> QED  BY <1>11, <2>1, <2>2 DEF Notify
<1>12. ASSUME NEW c \in Conns, FreeOrphan(c) PROVE ConnInv(d)'
  <2>1. ConnInv(c)  BY DEF ContextInv
  <2> QED  BY <1>12, <2>1 DEF FreeOrphan
<1>13. ASSUME NEW c \in Conns, End(c) PROVE ConnInv(d)'  BY <1>13 DEF End
<1>14. ASSUME Turn PROVE ConnInv(d)'  BY <1>14 DEF Turn
<1>15. ASSUME Shutdown \/ LoopEnds \/ ShutdownEnds \/ Exit PROVE ConnInv(d)'
  BY <1>15 DEF Shutdown, LoopEnds, ShutdownEnds, Exit
<1> QED
  BY <1>1, <1>2, <1>3, <1>4, <1>5, <1>6, <1>7, <1>8, <1>9, <1>10, <1>11, <1>12, <1>13,
     <1>14, <1>15 DEF Next, Callback, Worker

\* No context is used after it was deleted.
THEOREM ContextIsNeverFreedInUse == Spec => []ContextIsSafe
<1>1. TypeOK /\ ContextInv => ContextIsSafe
  BY ServerAssumption DEF TypeOK, ContextInv, ConnInv, Connected, ContextIsSafe
<1> QED
  BY <1>1, TypeCorrect, InitContext, NextContext, PTL DEF Spec

-----------------------------------------------------------------------------
(* The server implements the service. *)

\* Requests are numbered in the order they are sent; those that are still to be
\* carried out come after all that were, and an old response is the latest.
OrderInv(c) ==
  /\ \A i \in DOMAIN frames[c] : frames[c][i].number <= sent
  /\ \A i, j \in DOMAIN frames[c] : i < j => frames[c][i].number < frames[c][j].number
  /\ \A i \in DOMAIN frames[c] : \A h \in handled[c] : h.number < frames[c][i].number
  /\ worker[c] = "dispatching" =>
       /\ message[c].number <= sent
       /\ \A i \in DOMAIN frames[c] : message[c].number < frames[c][i].number
       /\ \A h \in handled[c] : h.number < message[c].number
  /\ \A h \in handled[c] : h.number <= sent
  /\ response[c] = None \/ response[c] \in Service!Latest(handled[c])

Ordered == \A c \in Conns : OrderInv(c)

LEMMA MessageNumber == \A m \in Message : m.number \in Nat
BY ServerAssumption DEF Message

LEMMA NextOrder ==
  ASSUME TypeInv, TypeInv', Ordered, [Next]_vars PROVE Ordered'
<1> SUFFICES ASSUME NEW d \in Conns PROVE OrderInv(d)'
  BY DEF Ordered
<1>0. OrderInv(d)
  BY DEF Ordered
<1>t. /\ frames \in [Conns -> Seq(Message)] /\ sent \in Nat /\ sent' \in Nat
      /\ handled \in [Conns -> SUBSET Message] /\ message \in [Conns -> Message \cup {None}]
      /\ response \in [Conns -> Message \cup {None}] /\ worker \in [Conns -> WorkerSteps]
      /\ \A c \in Conns : worker[c] = "dispatching" => message[c] \in Message
  BY DEF TypeInv, TypeOK
<1>same. ASSUME UNCHANGED <<frames[d], sent, handled[d], response[d], worker[d], message[d]>>
         PROVE  OrderInv(d)'
  BY <1>0, <1>same DEF OrderInv, Service!Latest
<1>idle. ASSUME UNCHANGED <<frames[d], sent, handled[d], response[d]>>, worker'[d] # "dispatching"
         PROVE  OrderInv(d)'
  BY <1>0, <1>idle DEF OrderInv, Service!Latest
<1>1. CASE UNCHANGED vars
  BY <1>1, <1>same DEF vars, client, fields
<1>2. ASSUME NEW c \in Conns, NEW kind \in Kinds, Send(c, kind) PROVE OrderInv(d)'
  <2>1. UNCHANGED <<handled, response, worker, message>> /\ sent' = sent + 1
    BY <1>2 DEF Send, fields
  <2>2. CASE d # c
    <3>1. frames'[d] = frames[d]  BY <1>2, <1>t, <2>2 DEF Send
    <3> QED  BY <1>0, <1>t, <2>1, <3>1, MessageNumber DEF OrderInv, Service!Latest
  <2>3. CASE d = c
    <3> DEFINE m == [number |-> sent + 1, kind |-> kind]
    <3>1. frames'[d] = Append(frames[d], m) /\ m.number = sent + 1
      BY <1>2, <1>t, <2>3 DEF Send
    <3>2. /\ DOMAIN frames'[d] = 1..(Len(frames[d]) + 1) /\ DOMAIN frames[d] = 1..Len(frames[d])
          /\ \A i \in DOMAIN frames[d] : frames'[d][i] = frames[d][i] /\ frames[d][i] \in Message
          /\ frames'[d][Len(frames[d]) + 1] = m /\ Len(frames[d]) \in Nat
      BY <1>t, <3>1
    <3> HIDE DEF m
    <3>3. /\ \A i \in DOMAIN frames'[d] : frames'[d][i].number <= sent + 1
          /\ \A i, j \in DOMAIN frames'[d] : i < j => frames'[d][i].number < frames'[d][j].number
      BY <1>0, <1>t, <3>1, <3>2, MessageNumber DEF OrderInv
    <3>4. \A i \in DOMAIN frames'[d] : \A h \in handled[d] : h.number < frames'[d][i].number
      BY <1>0, <1>t, <3>1, <3>2, MessageNumber DEF OrderInv
    <3>5. worker[d] = "dispatching" =>
            \A i \in DOMAIN frames'[d] : message[d].number < frames'[d][i].number
      BY <1>0, <1>t, <3>1, <3>2, MessageNumber DEF OrderInv
    <3>6. /\ \A h \in handled[d] : h.number <= sent + 1
          /\ worker[d] = "dispatching" => message[d].number <= sent + 1
      BY <1>0, <1>t, MessageNumber DEF OrderInv
    <3> QED  BY <1>0, <2>1, <3>3, <3>4, <3>5, <3>6 DEF OrderInv, Service!Latest
  <2> QED  BY <2>2, <2>3
<1>3. ASSUME NEW c \in Conns, Receive(c) PROVE OrderInv(d)'
  <2>1. /\ frames[c] # <<>> /\ frames' = [frames EXCEPT ![c] = Tail(@)]
        /\ UNCHANGED <<sent, handled, response>>
        /\ \/ UNCHANGED <<worker, message>>
           \/ StartWorker(c)
    BY <1>3 DEF Receive, Ignore, Terminate
  <2>2. CASE d # c
    BY <1>same, <1>t, <2>1, <2>2 DEF StartWorker
  <2>3. CASE d = c
    <3>1. /\ DOMAIN frames'[d] = 1..(Len(frames[d]) - 1) /\ DOMAIN frames[d] = 1..Len(frames[d])
          /\ Len(frames[d]) \in Nat \ {0} /\ Head(frames[d]) = frames[d][1]
          /\ \A i \in DOMAIN frames'[d] : frames'[d][i] = frames[d][i + 1]
          /\ \A i \in DOMAIN frames[d] : frames[d][i] \in Message
      BY <1>t, <2>1, <2>3
    <3>2. \A i \in DOMAIN frames'[d] : i + 1 \in DOMAIN frames[d] /\ 1 < i + 1 /\ i \in Nat
      BY <3>1
    <3>3. /\ \A i \in DOMAIN frames'[d] : frames'[d][i].number <= sent
          /\ \A i, j \in DOMAIN frames'[d] : i < j => frames'[d][i].number < frames'[d][j].number
          /\ \A i \in DOMAIN frames'[d] : \A h \in handled[d] : h.number < frames'[d][i].number
          /\ \A i \in DOMAIN frames'[d] : Head(frames[d]).number < frames'[d][i].number
          /\ worker[d] = "dispatching" =>
               \A i \in DOMAIN frames'[d] : message[d].number < frames'[d][i].number
      <4>1. \A i, j \in DOMAIN frames[d] : i < j => frames[d][i].number < frames[d][j].number
        BY <1>0 DEF OrderInv
      <4>2. \A i, j \in DOMAIN frames'[d] : i < j => i + 1 < j + 1
        BY <3>2
      <4>3. \A i, j \in DOMAIN frames'[d] : i < j => frames'[d][i].number < frames'[d][j].number
        BY <3>1, <3>2, <4>1, <4>2
      <4>4. 1 \in DOMAIN frames[d]
        BY <3>1
      <4>5. \A i \in DOMAIN frames'[d] : Head(frames[d]).number < frames'[d][i].number
        BY <3>1, <3>2, <4>1, <4>4
      <4>6. /\ \A i \in DOMAIN frames'[d] : frames'[d][i].number <= sent
            /\ \A i \in DOMAIN frames'[d] : \A h \in handled[d] : h.number < frames'[d][i].number
        BY <1>0, <3>1, <3>2 DEF OrderInv
      <4>7. worker[d] = "dispatching" =>
               \A i \in DOMAIN frames'[d] : message[d].number < frames'[d][i].number
        BY <1>0, <3>1, <3>2 DEF OrderInv
      <4> QED  BY <4>3, <4>5, <4>6, <4>7
    <3>4. /\ Head(frames[d]).number <= sent
          /\ \A h \in handled[d] : h.number < Head(frames[d]).number
      BY <1>0, <3>1 DEF OrderInv
    <3>5. CASE UNCHANGED <<worker, message>>
      BY <1>0, <2>1, <3>3, <3>5 DEF OrderInv, Service!Latest
    <3>6. CASE StartWorker(c)
      <4>1. message'[d] = Head(frames[d])  BY <1>t, <2>3, <3>6 DEF StartWorker
      <4> QED  BY <1>0, <2>1, <3>3, <3>4, <4>1 DEF OrderInv, Service!Latest
    <3> QED  BY <2>1, <3>5, <3>6
  <2> QED  BY <2>2, <2>3
<1>4. ASSUME NEW c \in Conns, Dispatch(c) PROVE OrderInv(d)'
  <2>1. /\ worker[c] = "dispatching" /\ message[c] \in Message
        /\ worker' = [worker EXCEPT ![c] = IF Cancelling THEN "ended" ELSE "locking"]
        /\ UNCHANGED <<frames, sent>>
    BY <1>4, <1>t DEF Dispatch, client
  <2>2. CASE d # c
    <3>1. UNCHANGED <<handled[d], response[d], worker[d], message[d]>>
      BY <1>4, <1>t, <2>2 DEF Dispatch
    <3> QED  BY <1>same, <2>1, <3>1
  <2>3. CASE d = c
    <3>1. worker'[d] # "dispatching"  BY <1>t, <2>1, <2>3
    <3>2. CASE message[c].kind = "command"
      <4>1. handled'[d] = handled[d] \cup {message[d]} /\ response'[d] = message[d]
        BY <1>4, <1>t, <2>3, <3>2 DEF Dispatch
      <4>2. response'[d] \in Service!Latest(handled'[d])
        BY <1>0, <1>t, <2>1, <2>3, <4>1, MessageNumber DEF OrderInv, Service!Latest
      <4> QED  BY <1>0, <1>t, <2>1, <2>3, <3>1, <4>1, <4>2 DEF OrderInv
    <3>3. CASE message[c].kind = "keepalive"
      <4>1. handled'[d] = handled[d] /\ response'[d] = None
        BY <1>4, <1>t, <2>3, <3>3 DEF Dispatch
      <4> QED  BY <1>0, <2>1, <3>1, <4>1 DEF OrderInv
    <3>4. CASE message[c].kind = "refused"
      <4>1. handled'[d] = handled[d] /\ response'[d] = response[d]
        BY <1>4, <1>t, <2>3, <3>4 DEF Dispatch
      <4> QED  BY <1>idle, <2>1, <3>1, <4>1
    <3> QED  BY <1>4, <3>2, <3>3, <3>4 DEF Dispatch
  <2> QED  BY <2>2, <2>3
<1>5. ASSUME NEW c \in Conns, Forget(c), UNCHANGED <<sent, handled, response, message>>,
             worker' = worker \/ worker' = [worker EXCEPT ![c] = "none"]
      PROVE  OrderInv(d)'
  <2>1. CASE d # c
    BY <1>5, <1>same, <1>t, <2>1 DEF Forget
  <2>2. CASE d = c
    <3>1. frames'[d] = <<>> /\ DOMAIN frames'[d] = {}
      BY <1>5, <1>t, <2>2 DEF Forget
    <3>2. worker'[d] = "dispatching" => worker[d] = "dispatching"
      BY <1>5, <1>t, <2>2
    <3> QED  BY <1>0, <1>5, <3>1, <3>2 DEF OrderInv, Service!Latest
  <2> QED  BY <2>1, <2>2
<1>6. ASSUME NEW c \in Conns, Closed(c) PROVE OrderInv(d)'
  <2>1. UNCHANGED <<sent, handled, response, message, worker>>
    BY <1>6 DEF Closed
  <2>2. CASE Forget(c)  BY <1>5, <2>1, <2>2
  <2>3. CASE AwaitWorker(c)  BY <1>same, <2>1, <2>3 DEF AwaitWorker
  <2> QED  BY <1>6, <2>2, <2>3 DEF Closed, LeaveOrphan, DeleteIdle
<1>7. ASSUME NEW c \in Conns, DeleteJoined(c) PROVE OrderInv(d)'
  <2>1. Forget(c) /\ UNCHANGED <<sent, handled, response, message>>
    BY <1>7 DEF DeleteJoined
  <2>2. worker' = [worker EXCEPT ![c] = "none"]
    BY <1>7 DEF DeleteJoined
  <2> QED  BY <1>5, <2>1, <2>2
<1>8. ASSUME NEW c \in Conns, Answer(c) \/ Notify(c) \/ FreeOrphan(c) \/ End(c) PROVE OrderInv(d)'
  <2>1. UNCHANGED <<frames, sent, handled, response, message>>
    BY <1>8 DEF Answer, Notify, FreeOrphan, End, client, fields
  <2>2. worker'[d] = worker[d] \/ worker'[d] # "dispatching"
    BY <1>8, <1>t DEF Answer, Notify, FreeOrphan, End
  <2> QED  BY <1>same, <1>idle, <2>1, <2>2
<1>9. ASSUME NEW c \in Conns, Disconnect(c) \/ Established(c) \/ Writable(c) PROVE OrderInv(d)'
  BY <1>9, <1>same DEF Disconnect, Established, Writable, client, fields
<1>10. CASE Turn \/ Shutdown \/ LoopEnds \/ ShutdownEnds \/ Exit
  BY <1>10, <1>same DEF Turn, Shutdown, LoopEnds, ShutdownEnds, Exit, client, fields
<1> QED
  BY <1>1, <1>2, <1>3, <1>4, <1>6, <1>7, <1>8, <1>9, <1>10 DEF Next, Callback, Worker

LEMMA InitService == ASSUME Init PROVE Service!Init /\ Ordered
<1>1. Service!Init
  BY DEF Init, Service!Init, phaseOf, requestOf, replyOf, Up
<1>2. ASSUME NEW c \in Conns PROVE OrderInv(c)
  <2>1. /\ frames[c] = <<>> /\ DOMAIN frames[c] = {} /\ handled[c] = {}
        /\ response[c] = None /\ worker[c] = "none"
    BY DEF Init
  <2> QED  BY <2>1 DEF OrderInv
<1> QED
  BY <1>1, <1>2 DEF Ordered

\* What the service sees of connection c.
Same(c) ==
  /\ phaseOf(c)' = phaseOf(c) /\ requestOf(c)' = requestOf(c) /\ replyOf(c)' = replyOf(c)

LEMMA Stutter ==
  ASSUME Up' = Up, UNCHANGED <<handled, answers>>, \A d \in Conns : Same(d)
  PROVE  UNCHANGED Service!vars
BY DEF Same, Service!vars

LEMMA Unseen ==
  ASSUME NEW d \in Conns, UNCHANGED <<conn[d], thread[d], worker[d], message[d], response[d]>>
  PROVE  Same(d)
BY DEF Same, phaseOf, requestOf, replyOf

\* A step that changes connection c only, for the service.
LEMMA OneConnection ==
  ASSUME NEW c \in Conns, \A d \in Conns \ {c} : Same(d)
  PROVE  /\ [d \in Conns |-> phaseOf(d)]' = [[d \in Conns |-> phaseOf(d)] EXCEPT ![c] = phaseOf(c)']
         /\ [d \in Conns |-> requestOf(d)]' = [[d \in Conns |-> requestOf(d)] EXCEPT ![c] = requestOf(c)']
         /\ [d \in Conns |-> replyOf(d)]' = [[d \in Conns |-> replyOf(d)] EXCEPT ![c] = replyOf(c)']
BY DEF Same

LEMMA NextService ==
  ASSUME TypeInv, TypeInv', ContextInv, Ordered, [Next]_vars
  PROVE  [Service!Next]_(Service!vars)
<1> DEFINE phases == [d \in Conns |-> phaseOf(d)]
           requests == [d \in Conns |-> requestOf(d)]
           replies == [d \in Conns |-> replyOf(d)]
<1>t. /\ frames \in [Conns -> Seq(Message)] /\ answers \in [Conns -> Seq(Message)]
      /\ handled \in [Conns -> SUBSET Message] /\ message \in [Conns -> Message \cup {None}]
      /\ response \in [Conns -> Message \cup {None}] /\ worker \in [Conns -> WorkerSteps]
      /\ thread \in [Conns -> BOOLEAN]
      /\ conn \in [Conns -> {"new", "open", "lost", "closing", "closed"}]
      /\ \A c \in Conns : worker[c] = "dispatching" => message[c] \in Message
  BY DEF TypeInv, TypeOK
<1>c. \A c \in Conns : ConnInv(c) /\ OrderInv(c)
  BY DEF ContextInv, Ordered
<1>m. Service!Message = Message
  BY DEF Message, Kinds, Service!Message, Service!Kinds
<1>0. CASE UNCHANGED vars
  BY <1>0, Stutter, Unseen DEF vars, client, fields, Up
<1>u. CASE Up /\ ~ Up' /\ UNCHANGED <<handled, answers>> /\ \A d \in Conns : Same(d)
  BY <1>u DEF Service!Next, Service!Stop, Same
<1>1. ASSUME Up, NEW c \in Conns, NEW kind \in Kinds, Send(c, kind)
      PROVE  UNCHANGED Service!vars
  BY <1>1, Stutter, Unseen DEF Send, fields, Up
<1>2. ASSUME Up, NEW c \in Conns, Disconnect(c) \/ Established(c)
      PROVE  UNCHANGED Service!vars
  <2>1. UNCHANGED <<answers, handled, thread, worker, message, response, stage, crashed>>
    BY <1>2 DEF Disconnect, Established, fields
  <2>2. \A d \in Conns : conn[d] # "closed" <=> conn'[d] # "closed"
    BY <1>2, <1>t DEF Disconnect, Established
  <2>3. \A d \in Conns : (conn[d] = "closed") = (conn'[d] = "closed")
    BY <2>2
  <2>4. \A d \in Conns : Same(d)
    BY <1>t, <2>1, <2>3 DEF Same, phaseOf, requestOf, replyOf
  <2> QED  BY <2>1, <2>4, Stutter DEF Up
<1>3. ASSUME Up, NEW c \in Conns, Receive(c)
      PROVE  Service!Next \/ UNCHANGED Service!vars
  <2>1. /\ conn[c] \in {"open", "lost"} /\ frames[c] # <<>>
        /\ UNCHANGED <<conn, answers, response, handled, stage>>
    BY <1>3 DEF Receive
  <2>2. CASE Ignore(c)
    BY <2>1, <2>2, Stutter, Unseen DEF Ignore, Up
  <2>3. CASE Terminate(c)
    <3>1. UNCHANGED <<message, thread, worker>> /\ ~ Up'  BY <2>3 DEF Terminate, Up
    <3> QED  BY <1>3, <1>u, <2>1, <3>1, Unseen
  <2>4. CASE StartWorker(c)
    <3> DEFINE m == Head(frames[c])
    <3>1. m \in Message /\ 1 \in DOMAIN frames[c] /\ frames[c][1] = m
      BY <1>t, <2>1
    <3>2. Service!After(m, handled[c])
      BY <1>c, <3>1 DEF OrderInv, Service!After
    <3>3. phaseOf(c) = "idle" /\ phaseOf(c)' = "accepted"
      BY <1>t, <2>1, <2>4 DEF StartWorker, phaseOf
    <3>4. requestOf(c)' = m /\ replyOf(c) = None /\ replyOf(c)' = None
      BY <1>t, <2>1, <2>4, <3>3 DEF StartWorker, requestOf, replyOf
    <3>5. \A d \in Conns \ {c} : Same(d)
      BY <1>t, <2>1, <2>4, Unseen DEF StartWorker
    <3>6. phases' = [phases EXCEPT ![c] = "accepted"]  BY <3>3, <3>5, OneConnection
    <3>7. requests' = [requests EXCEPT ![c] = m]  BY <3>4, <3>5, OneConnection
    <3>8. replies' = replies  BY <3>4, <3>5 DEF Same
    <3>9. Up'  BY <1>3, <2>1, <2>4 DEF StartWorker, Up
    <3>10. Service!Accept(c, m)
      BY <1>3, <2>1, <3>2, <3>3, <3>6, <3>7, <3>8, <3>9 DEF Service!Accept
    <3> QED  BY <1>3, <1>m, <3>1, <3>10 DEF Service!Next
  <2> QED  BY <1>3, <2>2, <2>3, <2>4 DEF Receive
<1>4. ASSUME Up, NEW c \in Conns, Writable(c) PROVE UNCHANGED Service!vars
  BY <1>4, Stutter, Unseen DEF Writable, client, fields, Up
<1>5. ASSUME Up, NEW c \in Conns, Answer(c) PROVE Service!Next
  <2>1. /\ conn[c] # "closed" /\ thread[c] /\ worker[c] = "ended"
    BY <1>5, <1>c DEF Answer, ConnInv, Connected
  <2>2. phaseOf(c) = "executed" /\ phaseOf(c)' = "idle"
    BY <1>5, <1>t, <2>1 DEF Answer, phaseOf
  <2>3. /\ replyOf(c) = response[c] /\ replyOf(c)' = None
        /\ requestOf(c) = None /\ requestOf(c)' = None
    BY <1>5, <1>t, <2>1, <2>2 DEF Answer, requestOf, replyOf
  <2>4. \A d \in Conns \ {c} : Same(d)
    BY <1>5, <1>t, Unseen DEF Answer
  <2>5. phases' = [phases EXCEPT ![c] = "idle"]  BY <2>2, <2>4, OneConnection
  <2>6. replies' = [replies EXCEPT ![c] = None]  BY <2>3, <2>4, OneConnection
  <2>7. requests' = requests  BY <2>3, <2>4 DEF Same
  <2>8. answers' = [answers EXCEPT ![c] = IF replies[c] = None THEN @ ELSE Append(@, replies[c])]
    BY <1>5, <2>3 DEF Answer
  <2>9. Up' /\ UNCHANGED handled  BY <1>5 DEF Answer, Up
  <2>10. Service!Answer(c)
    BY <1>5, <2>2, <2>5, <2>6, <2>7, <2>8, <2>9 DEF Service!Answer
  <2> QED  BY <1>5, <2>10 DEF Service!Next
<1>leave. ASSUME Up, Up', NEW c \in Conns, conn[c] # "closed", conn'[c] = "closed",
                 UNCHANGED <<answers, handled>>, \A d \in Conns \ {c} : Same(d),
                 worker[c] = "dispatching" => thread[c],
                 (worker'[c] = "dispatching") = (worker[c] = "dispatching"),
                 message'[c] = message[c]
          PROVE  Service!Next
  <2>1. phaseOf(c) \in {"idle", "accepted", "executed"}
    BY <1>leave, <1>t DEF phaseOf
  <2>2. phaseOf(c)' = IF phaseOf(c) = "accepted" THEN "orphan" ELSE "left"
    BY <1>leave, <1>t DEF phaseOf
  <2>3. requestOf(c)' = requestOf(c) /\ replyOf(c)' = None
    BY <1>leave, <2>2 DEF requestOf, replyOf
  <2>4. phases' = [phases EXCEPT ![c] = IF @ = "accepted" THEN "orphan" ELSE "left"]
    BY <1>leave, <2>2, OneConnection
  <2>5. replies' = [replies EXCEPT ![c] = None]  BY <1>leave, <2>3, OneConnection
  <2>6. requests' = requests  BY <1>leave, <2>3 DEF Same
  <2>7. Service!Leave(c)
    BY <1>leave, <2>1, <2>4, <2>5, <2>6 DEF Service!Leave
  <2> QED  BY <1>leave, <2>7 DEF Service!Next
<1>6. ASSUME Up, NEW c \in Conns, Closed(c) PROVE Service!Next \/ UNCHANGED Service!vars
  <2>1. /\ UNCHANGED <<answers, message, response, thread, worker, stage, handled, crashed>>
        /\ conn[c] \in {"open", "lost"}
    BY <1>6 DEF Closed
  <2>2. CASE Forget(c)
    <3>1. conn'[c] = "closed" /\ \A d \in Conns \ {c} : conn'[d] = conn[d]
      BY <1>t, <2>2 DEF Forget
    <3>2. \A d \in Conns \ {c} : Same(d)  BY <2>1, <3>1, Unseen
    <3>3. worker[c] = "dispatching" => thread[c]  BY <1>c DEF ConnInv
    <3>4. Up'  BY <1>6, <2>1 DEF Up
    <3> QED  BY <1>6, <1>leave, <2>1, <3>1, <3>2, <3>3, <3>4
  <2>3. CASE AwaitWorker(c)
    <3>1. \A d \in Conns : (conn[d] = "closed") = (conn'[d] = "closed")
      BY <1>t, <2>1, <2>3 DEF AwaitWorker
    <3>2. \A d \in Conns : Same(d)
      BY <1>t, <2>1, <3>1 DEF Same, phaseOf, requestOf, replyOf
    <3> QED  BY <1>6, <2>1, <3>2, Stutter DEF Up
  <2> QED  BY <1>6, <2>2, <2>3 DEF Closed, LeaveOrphan, DeleteIdle
<1>7. ASSUME Up, NEW c \in Conns, DeleteJoined(c) PROVE Service!Next
  <2>1. /\ conn[c] # "closed" /\ conn'[c] = "closed"
        /\ worker[c] # "dispatching" /\ worker'[c] # "dispatching"
        /\ UNCHANGED <<answers, handled, message, response, stage, crashed>>
    BY <1>7, <1>t DEF DeleteJoined, Forget
  <2>2. \A d \in Conns \ {c} : Same(d)
    BY <1>7, <1>t, Unseen DEF DeleteJoined, Forget
  <2>3. Up'  BY <1>7, <2>1 DEF Up
  <2> QED  BY <1>7, <1>leave, <2>1, <2>2, <2>3
<1>8. ASSUME Up, NEW c \in Conns, Dispatch(c) PROVE Service!Next
  <2> DEFINE m == message[c]
  <2>1. /\ worker[c] = "dispatching" /\ m \in Message /\ thread[c]
        /\ worker' = [worker EXCEPT ![c] = IF Cancelling THEN "ended" ELSE "locking"]
        /\ UNCHANGED <<conn, answers, thread, stage, crashed>>
    BY <1>8, <1>t, <1>c DEF Dispatch, client, ConnInv
  <2>2. requestOf(c) = m /\ requestOf(c)' = None
    BY <1>t, <2>1 DEF requestOf
  <2>3. \A d \in Conns \ {c} : Same(d)
    BY <1>8, <1>t, <2>1, Unseen DEF Dispatch
  <2>4. requests' = [requests EXCEPT ![c] = None]  BY <2>2, <2>3, OneConnection
  <2>5. handled' = [handled EXCEPT ![c] = @ \cup {r \in {m} : r.kind = "command"}]
    <3>1. CASE m.kind = "command"  BY <1>8, <1>t, <3>1 DEF Dispatch
    <3>2. CASE m.kind # "command"
      <4>1. handled' = handled  BY <1>8, <3>2 DEF Dispatch
      <4>2. {r \in {m} : r.kind = "command"} = {}  BY <3>2
      <4> QED  BY <1>t, <4>1, <4>2
    <3> QED  BY <3>1, <3>2
  <2>6. Service!Carry(c)
    BY <2>2, <2>4, <2>5 DEF Service!Carry
  <2>7. Up'  BY <1>8, <2>1 DEF Up
  <2>8. CASE conn[c] = "closed"
    <3>1. phaseOf(c) = "orphan" /\ phaseOf(c)' = "left"
      BY <1>t, <2>1, <2>8 DEF phaseOf
    <3>2. replyOf(c) = None /\ replyOf(c)' = None  BY <3>1 DEF replyOf
    <3>3. phases' = [phases EXCEPT ![c] = "left"]  BY <2>3, <3>1, OneConnection
    <3>4. replies' = replies  BY <2>3, <3>2 DEF Same
    <3>5. Service!ExecuteOrphan(c)
      BY <1>8, <2>1, <2>6, <2>7, <3>1, <3>3, <3>4 DEF Service!ExecuteOrphan
    <3> QED  BY <1>8, <3>5 DEF Service!Next
  <2>9. CASE conn[c] # "closed"
    <3>1. phaseOf(c) = "accepted" /\ phaseOf(c)' = "executed"
      BY <1>t, <2>1, <2>9 DEF phaseOf
    <3>2. replyOf(c)' = response'[c]  BY <3>1 DEF replyOf
    <3>3. phases' = [phases EXCEPT ![c] = "executed"]  BY <2>3, <3>1, OneConnection
    <3>4. replies' = [replies EXCEPT ![c] = response'[c]]  BY <2>3, <3>2, OneConnection
    <3>5. response'[c] \in Service!Replies(c, m)
      <4>1. CASE m.kind = "command"  BY <1>8, <1>t, <4>1 DEF Dispatch, Service!Replies
      <4>2. CASE m.kind = "keepalive"  BY <1>8, <1>t, <4>2 DEF Dispatch, Service!Replies
      <4>3. CASE m.kind = "refused"
        <5>1. response'[c] = response[c]  BY <1>8, <4>3 DEF Dispatch
        <5> QED  BY <1>c, <4>3, <5>1 DEF OrderInv, Service!Replies
      <4> QED  BY <1>8, <4>1, <4>2, <4>3 DEF Dispatch
    <3>6. Service!Execute(c)
      BY <1>8, <2>1, <2>2, <2>6, <2>7, <3>1, <3>3, <3>4, <3>5 DEF Service!Execute
    <3> QED  BY <1>8, <3>6 DEF Service!Next
  <2> QED  BY <2>8, <2>9
<1>9. ASSUME Up, NEW c \in Conns, Notify(c) \/ FreeOrphan(c) \/ End(c)
      PROVE  UNCHANGED Service!vars
  <2>1. UNCHANGED <<conn, answers, handled, message, response, stage, crashed>>
    BY <1>9 DEF Notify, FreeOrphan, End, client, fields
  <2>2. \A d \in Conns :
          /\ worker[d] = worker'[d] \/ (worker[d] # "dispatching" /\ worker'[d] # "dispatching")
          /\ thread'[d] = thread[d] \/ conn[d] = "closed"
    BY <1>9, <1>t, <1>c DEF Notify, FreeOrphan, End, fields, ConnInv, Connected
  <2>3. \A d \in Conns : Same(d)
    BY <1>t, <2>1, <2>2 DEF Same, phaseOf, requestOf, replyOf
  <2> QED  BY <2>1, <2>3, Stutter DEF Up
<1>10. ASSUME Up, Turn \/ Shutdown \/ LoopEnds \/ ShutdownEnds
       PROVE  UNCHANGED Service!vars
  <2>1. UNCHANGED <<conn, answers, handled, thread, worker, message, response, crashed>>
    BY <1>10 DEF Turn, Shutdown, LoopEnds, ShutdownEnds, client, fields
  <2>2. Up'
    BY <1>10 DEF Turn, Shutdown, LoopEnds, ShutdownEnds, Up
  <2> QED  BY <1>10, <2>1, <2>2, Stutter, Unseen
<1>11. ASSUME Up, Exit PROVE Service!Next
  <2>1. UNCHANGED <<conn, answers, handled, thread, worker, message, response>> /\ ~ Up'
    BY <1>11 DEF Exit, client, fields, Up
  <2>2. \A d \in Conns : Same(d)  BY <2>1, Unseen
  <2>3. UNCHANGED <<phases, requests, replies>>  BY <2>2 DEF Same
  <2>4. Service!Stop  BY <2>1, <2>3 DEF Service!Stop
  <2> QED  BY <1>11, <2>4 DEF Service!Next
<1> QED
  BY <1>0, <1>1, <1>2, <1>3, <1>4, <1>5, <1>6, <1>7, <1>8, <1>9, <1>10, <1>11
  DEF Next, Callback, Worker

\* The server implements the service, but for what must happen in the end.
THEOREM ServerImplementsService == Spec => Service!Safety
<1>1. Spec => Service!Init /\ [](TypeInv /\ ContextInv /\ Ordered)
  <2>1. TypeInv => TypeOK
    BY DEF TypeInv
  <2> QED
    BY <2>1, InitService, InitType, InitContext, NextType, NextContext, NextOrder, PTL DEF Spec
<1> QED
  BY <1>1, NextService, PTL DEF Spec, Service!Safety

-----------------------------------------------------------------------------
(* What a client is sent. *)

\* The answers to connection c are those of commands, in their order.
InOrder(c) ==
  /\ \A i \in DOMAIN answers[c] : answers[c][i] \in handled[c]
  /\ \A i, j \in DOMAIN answers[c] : i < j => answers[c][i].number <= answers[c][j].number

LEMMA NextAnswers ==
  ASSUME TypeInv, Ordered, NEW d \in Conns, InOrder(d), [Next]_vars
  PROVE  InOrder(d)'
<1>t. /\ answers \in [Conns -> Seq(Message)] /\ handled \in [Conns -> SUBSET Message]
      /\ response \in [Conns -> Message \cup {None}]
  BY DEF TypeInv, TypeOK
<1>1. ASSUME answers'[d] = answers[d], handled[d] \subseteq handled'[d] PROVE InOrder(d)'
  BY <1>1 DEF InOrder
<1>2. ASSUME NEW c \in Conns, Answer(c) PROVE InOrder(d)'
  <2>1. /\ handled' = handled
        /\ answers' = [answers EXCEPT ![c] = IF response[c] = None THEN @ ELSE Append(@, response[c])]
    BY <1>2 DEF Answer
  <2>2. CASE d = c /\ response[c] # None
    <3>1. answers'[d] = Append(answers[d], response[d]) /\ response[d] \in Message
      BY <1>t, <2>1, <2>2
    <3>2. /\ DOMAIN answers'[d] = 1..(Len(answers[d]) + 1) /\ DOMAIN answers[d] = 1..Len(answers[d])
          /\ \A i \in DOMAIN answers[d] : answers'[d][i] = answers[d][i]
          /\ answers'[d][Len(answers[d]) + 1] = response[d] /\ Len(answers[d]) \in Nat
      BY <1>t, <3>1
    <3>3. response[d] \in handled[d] /\ \A h \in handled[d] : h.number <= response[d].number
      BY <2>2 DEF Ordered, OrderInv, Service!Latest
    <3>4. \A i \in DOMAIN answers'[d] : i \in DOMAIN answers[d] \/ i = Len(answers[d]) + 1
      BY <3>2
    <3>5. \A i \in DOMAIN answers'[d] : answers'[d][i] \in handled'[d]
      BY <2>1, <3>2, <3>3, <3>4 DEF InOrder
    <3>6. ASSUME NEW i \in DOMAIN answers'[d], NEW j \in DOMAIN answers'[d], i < j
          PROVE  answers'[d][i].number <= answers'[d][j].number
      <4>1. i \in DOMAIN answers[d]  BY <3>2, <3>6
      <4>2. CASE j \in DOMAIN answers[d]  BY <3>2, <3>6, <4>1, <4>2 DEF InOrder
      <4>3. CASE j = Len(answers[d]) + 1  BY <3>2, <3>3, <4>1, <4>3 DEF InOrder
      <4> QED  BY <3>4, <4>2, <4>3
    <3> QED  BY <3>5, <3>6 DEF InOrder
  <2>3. CASE ~ (d = c /\ response[c] # None)
    <3>1. answers'[d] = answers[d]  BY <1>t, <2>1, <2>3
    <3> QED  BY <1>1, <2>1, <3>1
  <2> QED  BY <2>2, <2>3
<1>3. ASSUME NEW c \in Conns, Dispatch(c) PROVE InOrder(d)'
  <2>1. answers' = answers /\ handled[d] \subseteq handled'[d]
    BY <1>3, <1>t DEF Dispatch, client
  <2> QED  BY <1>1, <2>1
<1>4. ASSUME UNCHANGED <<answers, handled>> PROVE InOrder(d)'
  BY <1>1, <1>4
<1>5. ASSUME NEW c \in Conns,
             \/ \E kind \in Kinds : Send(c, kind)
             \/ Disconnect(c) \/ Established(c) \/ Receive(c) \/ Writable(c) \/ Closed(c)
             \/ DeleteJoined(c) \/ Notify(c) \/ FreeOrphan(c) \/ End(c)
      PROVE  UNCHANGED <<answers, handled>>
  BY <1>5 DEF Send, Disconnect, Established, Receive, Writable, Closed, DeleteJoined, Notify,
     FreeOrphan, End, client
<1>6. ASSUME Turn \/ Shutdown \/ LoopEnds \/ ShutdownEnds \/ Exit \/ UNCHANGED vars
      PROVE  UNCHANGED <<answers, handled>>
  BY <1>6 DEF Turn, Shutdown, LoopEnds, ShutdownEnds, Exit, vars, client
<1> QED
  BY <1>2, <1>3, <1>4, <1>5, <1>6 DEF Next, Callback, Worker

\* Whatever is refused, ignored or left, a client is sent answers to its commands
\* only, in the order of the commands.
THEOREM AnswersAreInOrder == Spec => []Service!AnswersInOrder
<1> DEFINE AllInOrder == \A c \in Conns : InOrder(c)
<1>1. Init => AllInOrder
  <2>1. ASSUME Init, NEW c \in Conns PROVE InOrder(c)
    <3>1. answers[c] = <<>> /\ DOMAIN answers[c] = {}  BY <2>1 DEF Init
    <3> QED  BY <3>1 DEF InOrder
  <2> QED  BY <2>1
<1>2. TypeInv /\ Ordered /\ AllInOrder /\ [Next]_vars => AllInOrder'
  BY NextAnswers
<1>3. AllInOrder => Service!AnswersInOrder
  BY DEF InOrder, Service!AnswersInOrder
<1>4. TypeInv => TypeOK
  BY DEF TypeInv
<1> HIDE DEF AllInOrder
<1> QED
  BY <1>1, <1>2, <1>3, <1>4, InitService, InitType, NextType, NextOrder, PTL DEF Spec

=============================================================================
