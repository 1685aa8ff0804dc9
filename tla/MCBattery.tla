----------------------------- MODULE MCBattery -----------------------------
(***************************************************************************)
(* Instances of the battery for TLC: four levels of charge, one of *)
(* them at least below, inside and above the thresholds of each band.      *)
(***************************************************************************)
EXTENDS Battery

NoBand == [on |-> FALSE, low |-> 0, high |-> 0]
With(policy, reverted, offload, charged) ==
  [policy |-> policy, reverted |-> reverted, low |-> 1, high |-> 2,
   offload |-> offload, charge |-> charged]

\* Policy "battery" with a charge from the grid, the relay reversed; and policy
\* "offload", which others may offload to.
Charging   == With("BATTERY", TRUE, NoBand, [on |-> TRUE, low |-> 2, high |-> 3])
Offloading == With("OFFLOAD", FALSE, [on |-> TRUE, low |-> 2, high |-> 3], NoBand)
MCConfigs  == {Charging, Offloading}
=============================================================================
