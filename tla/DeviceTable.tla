---------------------------- MODULE DeviceTable ----------------------------
(***************************************************************************)
(* What the registry of devices promises, without objects, pointers, locks *)
(* and sensors (Registry): a table of devices, each with the configuration *)
(* that is stored and the one in force.  The two are written one after the *)
(* other, and by any number of commands at once; this is all that comes of *)
(* it.                                                                     *)
(*                                                                         *)
(* A device is found with what was stored for it.  A configuration comes   *)
(* into force only if it was read from the device's row, though the row    *)
(* may have changed since.  A row that has been removed never comes back,  *)
(* and until it is removed a start may find the device again.              *)
(***************************************************************************)
CONSTANTS Ids, Topics,  \* the devices, and what may be stored for one
          Installed,    \* the rows of the first start
          None

VARIABLES up,       \* whether the program runs
          rows,     \* of each device, the configuration that is stored, or None
          unused,   \* identifiers not given yet
          inForce,  \* the configuration of each device that can be found, or None
          making,   \* what was stored for devices that are not to be found yet
          deleting, \* those no longer to be found but still stored
          reads     \* what the reloads in progress have read

vars == <<up, rows, unused, inForce, making, deleting, reads>>

Nowhere == [d \in Ids |-> None]
Stored  == {[device |-> d, topic |-> rows[d]] : d \in {e \in Ids : rows[e] # None}}

Init ==
  /\ ~ up
  /\ rows = Installed /\ unused = {d \in Ids : Installed[d] = None}
  /\ inForce = Nowhere /\ making = {} /\ deleting = {} /\ reads = {}

\* A device is made in two steps: it is stored, then it can be found.
Make(d, topic) ==
  /\ d \in unused /\ unused' = unused \ {d}
  /\ rows' = [rows EXCEPT ![d] = topic]
  /\ making' = making \cup {[device |-> d, topic |-> topic]}
  /\ UNCHANGED <<up, inForce, deleting, reads>>

Find(row) ==
  /\ row \in making /\ making' = making \ {row}
  /\ inForce' = [inForce EXCEPT ![row.device] = row.topic]
  /\ UNCHANGED <<up, rows, unused, deleting, reads>>

\* It cannot be made: its row stays.
GiveUp(row) ==
  /\ row \in making /\ making' = making \ {row}
  /\ UNCHANGED <<up, rows, unused, inForce, deleting, reads>>

\* The row of a device, which may be in deletion, or not to be found, is changed.
Update(d, topic) ==
  /\ rows[d] # None
  /\ rows' = [rows EXCEPT ![d] = topic]
  /\ UNCHANGED <<up, unused, inForce, making, deleting, reads>>

\* Reloads read rows, and may give up.
Read ==
  /\ UNCHANGED <<up, rows, unused, inForce, making, deleting>>
  /\ reads' \subseteq reads \cup Stored

\* What was read comes into force.
Reload(row) ==
  /\ row \in reads /\ inForce[row.device] # None
  /\ inForce' = [inForce EXCEPT ![row.device] = row.topic]
  /\ reads' \in {reads, reads \ {row}}
  /\ UNCHANGED <<up, rows, unused, making, deleting>>

\* A device is deleted in two steps: nobody finds it any more, then its row goes.
Delete(d) ==
  /\ inForce[d] # None /\ inForce' = [inForce EXCEPT ![d] = None]
  /\ deleting' = deleting \cup {d}
  /\ UNCHANGED <<up, rows, unused, making, reads>>

Erase(d) ==
  /\ d \in deleting /\ deleting' = deleting \ {d}
  /\ rows' = [rows EXCEPT ![d] = None]
  /\ UNCHANGED <<up, unused, inForce, making, reads>>

\* The program puts its devices away, ends (or is ended) and starts again.
PutAway ==
  /\ inForce' = Nowhere
  /\ UNCHANGED <<up, rows, unused, making, deleting, reads>>

End ==
  /\ ~ up' /\ inForce' = Nowhere /\ making' = {} /\ deleting' = {} /\ reads' = {}
  /\ UNCHANGED <<rows, unused>>

\* A start finds what is stored, but for what it cannot load.
Start ==
  /\ ~ up /\ up'
  /\ \E found \in SUBSET Ids : inForce' = [d \in Ids |-> IF d \in found THEN rows[d] ELSE None]
  /\ UNCHANGED <<rows, unused, making, deleting, reads>>

Next ==
  \/ /\ up
     /\ \/ Read \/ \E row \in reads : Reload(row)
        \/ \E row \in making : Find(row) \/ GiveUp(row)
        \/ \E d \in Ids, topic \in Topics : Make(d, topic) \/ Update(d, topic)
        \/ \E d \in Ids : Delete(d) \/ Erase(d)
        \/ PutAway \/ End
  \/ Start

Spec == Init /\ [][Next]_vars
=============================================================================
