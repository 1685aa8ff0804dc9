----------------------------- MODULE ApiService -----------------------------
(***************************************************************************)
(* What the websocket server promises to a client of its API, without the  *)
(* threads, contexts and callbacks that keep the promise (ApiServer):      *)
(* requests of a connection are carried out one at a time, in the order in *)
(* which they were sent and each at most once; a command that was carried  *)
(* out is answered with its own answer, once.                              *)
(*                                                                         *)
(* A request the dispatcher refuses (no JSON, an unknown module) has no    *)
(* answer of its own: the client gets none, or the last answer again.  A   *)
(* request may be ignored, and a client may leave while the server is busy *)
(* with its request, which is carried out all the same.                    *)
(***************************************************************************)
EXTENDS Naturals, Sequences

CONSTANTS Conns,     \* connections, each used once
          MaxFrames, \* requests of a behaviour
          None       \* no request, no answer

Kinds == {"command", "refused", "keepalive"}
Message == [number : 1..MaxFrames, kind : Kinds]

VARIABLES up,      \* whether the program runs
          phase,   \* of each connection, what is done for it
          request, \* the request that waits to be carried out
          reply,   \* its answer, when it was carried out
          handled, \* the commands whose handler has run
          answers  \* what the client was sent

vars == <<up, phase, request, reply, handled, answers>>

Phases == {"idle", "accepted", "executed", "orphan", "left"}

TypeOK ==
  /\ up \in BOOLEAN
  /\ phase \in [Conns -> Phases]
  /\ request \in [Conns -> Message \cup {None}]
  /\ reply \in [Conns -> Message \cup {None}]
  /\ handled \in [Conns -> SUBSET Message]
  /\ answers \in [Conns -> Seq(Message)]

Init ==
  /\ up = TRUE
  /\ phase = [c \in Conns |-> "idle"]
  /\ request = [c \in Conns |-> None] /\ reply = [c \in Conns |-> None]
  /\ handled = [c \in Conns |-> {}] /\ answers = [c \in Conns |-> <<>>]

\* m was sent after every command in set S.
After(m, S) == \A h \in S : h.number < m.number

Accept(c, m) ==
  /\ phase[c] = "idle" /\ After(m, handled[c])
  /\ phase' = [phase EXCEPT ![c] = "accepted"]
  /\ request' = [request EXCEPT ![c] = m]
  /\ UNCHANGED <<up, reply, handled, answers>>

\* The latest commands of set S, none if it is empty.
Latest(S) == {h \in S : \A g \in S : g.number <= h.number}

\* What may be answered to m.
Replies(c, m) == CASE m.kind = "command"   -> {m}
                   [] m.kind = "keepalive" -> {None}
                   [] m.kind = "refused"   -> {None} \cup Latest(handled[c])

Carry(c) ==
  /\ handled' = [handled EXCEPT ![c] = @ \cup {m \in {request[c]} : m.kind = "command"}]
  /\ request' = [request EXCEPT ![c] = None]

Execute(c) ==
  /\ phase[c] = "accepted"
  /\ Carry(c)
  /\ phase' = [phase EXCEPT ![c] = "executed"]
  /\ \E r \in Replies(c, request[c]) : reply' = [reply EXCEPT ![c] = r]
  /\ UNCHANGED <<up, answers>>

ExecuteOrphan(c) ==
  /\ phase[c] = "orphan"
  /\ Carry(c)
  /\ phase' = [phase EXCEPT ![c] = "left"]
  /\ UNCHANGED <<up, reply, answers>>

Answer(c) ==
  /\ phase[c] = "executed"
  /\ phase' = [phase EXCEPT ![c] = "idle"]
  /\ answers' = [answers EXCEPT ![c] = IF reply[c] = None THEN @ ELSE Append(@, reply[c])]
  /\ reply' = [reply EXCEPT ![c] = None]
  /\ UNCHANGED <<up, request, handled>>

Leave(c) ==
  /\ phase[c] \in {"idle", "accepted", "executed"}
  /\ phase' = [phase EXCEPT ![c] = IF @ = "accepted" THEN "orphan" ELSE "left"]
  /\ reply' = [reply EXCEPT ![c] = None]
  /\ UNCHANGED <<up, request, handled, answers>>

\* The program ends, by itself or because it must.
Stop == up' = FALSE /\ UNCHANGED <<phase, request, reply, handled, answers>>

Next ==
  /\ up
  /\ \/ \E c \in Conns : \E m \in Message : Accept(c, m)
     \/ \E c \in Conns : Execute(c)
     \/ \E c \in Conns : ExecuteOrphan(c)
     \/ \E c \in Conns : Answer(c)
     \/ \E c \in Conns : Leave(c)
     \/ Stop

Safety == Init /\ [][Next]_vars

\* What was accepted is carried out, and answered unless its client leaves.
Fairness ==
  \A c \in Conns : /\ WF_vars(up /\ Execute(c))
                   /\ WF_vars(up /\ ExecuteOrphan(c))
                   /\ WF_vars(up /\ phase[c] = "executed" /\ (Answer(c) \/ Leave(c)))

Spec == Safety /\ Fairness

-----------------------------------------------------------------------------
\* A client is sent answers to commands that were carried out only, in the
\* order of the commands, whatever is refused or ignored in between.
AnswersInOrder ==
  \A c \in Conns :
    /\ \A i \in DOMAIN answers[c] : answers[c][i] \in handled[c]
    /\ \A i, j \in DOMAIN answers[c] :
         i < j => answers[c][i].number <= answers[c][j].number

=============================================================================
