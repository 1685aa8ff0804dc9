------------------------------ MODULE MCOnOff ------------------------------
(***************************************************************************)
(* OnOff for TLC: the commands its clients may give.  Every client may     *)
(* also return the device to automatic mode.                               *)
(***************************************************************************)
EXTENDS OnOff

CONSTANT Commander  \* the client that commands

\* The commander switches the device on for a while; the others do not command.
TimedOrders ==
  [c \in Clients |-> IF c = Commander THEN {[on |-> TRUE, for |-> 1]} ELSE {}]

\* Every client switches it on or off, for a while or for good.
AnyOrders == [c \in Clients |-> [on : BOOLEAN, for : 0..MaxTimeout]]
=============================================================================
