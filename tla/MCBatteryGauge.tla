---------------------------- MODULE MCBatteryGauge ----------------------------
(* Instances of BatteryGauge for TLC. *)
EXTENDS BatteryGauge, TLC

CONSTANTS t1, t2

TwoThreads == {t1, t2}
Symmetry == Permutations(TwoThreads)

\* All but the two calls that leave the chip awake.
Sleepers == (Readings \cup Configs) \ {"advancedSendControlWord", "advancedGet"}
================================================================================
