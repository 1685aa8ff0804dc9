-------------------------- MODULE MCDevicesManager --------------------------
(***************************************************************************)
(* Instances of the devices manager for TLC: two devices, the more         *)
(* demanding one first; powers in units of about a kilowatt.               *)
(***************************************************************************)
EXTENDS DevicesManager

MCExpected == <<3, 2>>

\* The first one has a meter, and may draw less or more than expected.
MCLoads == {<<2, 2>>, <<4, 2>>}

\* No power; power for either device; power for both if the first draws less; power
\* that has been there on average only.
MCWeathers == {[avg |-> 0, steady |-> 0], [avg |-> 3, steady |-> 3],
               [avg |-> 4, steady |-> 4], [avg |-> 4, steady |-> 0]}

\* The first device is a heat pump behind BSB-LAN or has no control at all; the
\* second one a Shelly relay.
MCOutcomes    == <<{"ok", "passive", "other"}, {"ok", "shelly"}>>
=============================================================================
