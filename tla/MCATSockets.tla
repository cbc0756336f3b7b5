------------------------------ MODULE MCATSockets ------------------------------
(* Instances of ATSockets for TLC. *)
EXTENDS ATSockets, TLC

CONSTANTS t1, t2

OneThread == {t1}
TwoThreads == {t1, t2}
ThreadSymmetry == Permutations(TwoThreads)

OneHandle == {0}
TwoHandles == {0, 1}

LifeOps == {"open", "connect", "attach", "detach", "send", "close"}
BindOps == {"open", "bind", "close"}
RecvOps == {"open", "connect", "recv", "recvfrom", "close"}
SlotOps == {"open", "bind", "recv", "close"}

NoEvents == {}
DataOnly == {"data"}
LossEvents == {"data", "context"}
AllEvents == {"data", "close", "context"}
================================================================================
