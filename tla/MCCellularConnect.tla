--------------------------- MODULE MCCellularConnect ---------------------------
(* Instances of CellularConnect for TLC. *)
EXTENDS CellularConnect

CONSTANTS p1, p2

Nothing == {}
Psd == {"psd"}
PsdEps == {"psd", "eps"}

OnePin == {p1}
TwoPins == {p1, p2}
NewPin == {p2}

OpenAndLogin == {"open", "login"}
LoginOnly == {"login"}
TwoTable == <<"open", "login">>

\* A login tried with all protocols, an access point without one, a login that
\* is then tried with none.
ThreeApns == {"first", "open", "login"}
TwoLogins == {"first", "login"}
ThreeTable == <<"first", "open", "login">>

Unknown == {"UNKNOWN"}
AcceptsThree == {<<"first", "PAP">>, <<"open", "NONE">>, <<"login", "CHAP">>}
AcceptsBoth == {<<"open", "NONE">>, <<"login", "CHAP">>}

ConnectOnly == {"connect"}
ConnectCalls == {"connect", "disconnect", "deinit"}
SimCalls == {"init", "connect", "pinCheck", "newPin", "pinCheckLater", "newPinLater", "deinit"}
AllCalls == SimCalls \cup ConnectCalls
================================================================================
