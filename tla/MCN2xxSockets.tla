----------------------------- MODULE MCN2xxSockets -----------------------------
(* Instances of N2xxSockets for TLC. *)
EXTENDS N2xxSockets, TLC

CONSTANTS t1, t2

TwoThreads == {t1, t2}
OneHandle == {0}
TwoHandles == {0, 1}

AllOps == {"open", "close", "attach", "sendto", "recvfrom"}
RecvOps == {"open", "recvfrom", "close"}
================================================================================
