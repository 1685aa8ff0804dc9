---------------------------- MODULE WaiterThread ----------------------------
(***************************************************************************)
(* thread::WaiterThread: a thread that works, waits for some time and      *)
(* works again, until it is told to shut down, and that may be told to     *)
(* work at once.  The wait is a std::condition_variable's: it releases     *)
(* wait_lock while it lasts, and ends for a notification, by the time, or  *)
(* for no reason.  Neither Signal nor Shutdown is remembered by the        *)
(* condition variable: a notification nobody waits for is lost, its flag   *)
(* is not.                                                                 *)
(*                                                                         *)
(* Only the actions of the thread and those others take with it are here;  *)
(* when they are taken is the matter of the module that uses the thread.   *)
(***************************************************************************)

CONSTANTS Intervals   \* the times it may be told to wait

VARIABLES at,               \* where the thread is
          seconds,          \* the argument of wait
          notified,         \* shutdown_requested was notified during the wait
          timeout,          \* the wait has ended by its time
          is_signaled, is_shutting_down

vars == <<at, seconds, notified, timeout, is_signaled, is_shutting_down>>

TypeOK ==
  /\ at \in {"work", "calling", "locked", "waiting", "woken", "ended"}
  /\ seconds \in Intervals /\ notified \in BOOLEAN /\ timeout \in BOOLEAN
  /\ is_signaled \in BOOLEAN /\ is_shutting_down \in BOOLEAN

Init(s) ==
  /\ at = "work" /\ seconds = s /\ notified = FALSE /\ timeout = FALSE
  /\ is_signaled = FALSE /\ is_shutting_down = FALSE

\* Between locking wait_lock and waiting, and after the wait, the thread holds
\* wait_lock.  (Others hold it for one step.)
Locked == at \in {"locked", "woken"}

\* main evaluates the argument of wait ...
Call(s) ==
  /\ at = "work"
  /\ at' = "calling" /\ seconds' = s
  /\ UNCHANGED <<notified, timeout, is_signaled, is_shutting_down>>

\* ... and wait takes the lock.
Lock ==
  /\ at = "calling"
  /\ at' = "locked"
  /\ UNCHANGED <<seconds, notified, timeout, is_signaled, is_shutting_down>>

\* Mutant: a shutdown that came before the wait is not looked at.
WaitAnyway ==
  /\ at = "locked"
  /\ at' = "waiting"
  /\ UNCHANGED <<seconds, notified, timeout, is_signaled, is_shutting_down>>

\* Whether is_signaled is set already does not matter.
Wait ==
  /\ at = "locked"
  /\ at' = IF is_shutting_down THEN "woken" ELSE "waiting"
  /\ UNCHANGED <<seconds, notified, timeout, is_signaled, is_shutting_down>>

WakeNotified ==
  /\ at = "waiting" /\ notified
  /\ at' = "woken"
  /\ UNCHANGED <<seconds, notified, timeout, is_signaled, is_shutting_down>>

WakeTimeout ==
  /\ at = "waiting"
  /\ at' = "woken" /\ timeout' = TRUE
  /\ UNCHANGED <<seconds, notified, is_signaled, is_shutting_down>>

WakeSpurious ==
  /\ at = "waiting"
  /\ at' = "woken"
  /\ UNCHANGED <<seconds, notified, timeout, is_signaled, is_shutting_down>>

\* A signal comes before a shutdown; without either, a wait that was not long
\* enough begins again.
Return ==
  /\ at = "woken"
  /\ at' = CASE is_signaled -> "work"
             [] ~ is_signaled /\ is_shutting_down -> "ended"
             [] ~ is_signaled /\ ~ is_shutting_down /\ timeout -> "work"
             [] OTHER -> "calling"
  /\ is_signaled' = FALSE /\ notified' = FALSE /\ timeout' = FALSE
  /\ UNCHANGED <<seconds, is_shutting_down>>

\* notify_one: only a wait in progress is notified.
Notify == notified' = (notified \/ at = "waiting")

Signal ==
  /\ ~ Locked
  /\ is_signaled' = TRUE /\ Notify
  /\ UNCHANGED <<at, seconds, timeout, is_shutting_down>>

Shutdown ==
  /\ ~ Locked
  /\ is_shutting_down' = TRUE /\ Notify
  /\ UNCHANGED <<at, seconds, timeout, is_signaled>>

\* What the thread does within wait, but for the passing of time.
Step == Lock \/ Wait \/ WakeNotified \/ Return

=============================================================================
