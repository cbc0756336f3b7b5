------------------------------ MODULE MCLwM2MApp -------------------------------
(* Instances of LwM2MApp for TLC. *)
EXTENDS LwM2MApp

Nothing == {}
Psd == {"psd"}
OpenOnly == {"open"}
OpenTable == <<"open">>
AcceptsOpen == {<<"open", "NONE">>}

\* An access point without a login, and one with a login.
OpenAndLogin == {"open", "login"}
LoginOnly == {"login"}
TwoTable == <<"open", "login">>
AcceptsBoth == {<<"open", "NONE">>, <<"login", "CHAP">>}
================================================================================
