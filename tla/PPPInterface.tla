----------------------------- MODULE PPPInterface ------------------------------
(***************************************************************************)
(* The PPP interface,                                                      *)
(* ublox-ppp-cellular-interface/UbloxPPPCellularInterface.cpp: the modem   *)
(* is registered, told to dial, and from then on its serial line carries   *)
(* PPP frames and no AT commands, until the link is closed.                *)
(*                                                                         *)
(* One thread makes the calls.  init() and nwk_registration() of the base  *)
(* class, which CellularConnect follows step by step, are one step each    *)
(* here.  PPP and the network are external.                                *)
(***************************************************************************)
EXTENDS Naturals

CONSTANTS
  TableLen,     \* access points apnconfig() lists for the SIM
  MaxRefusals,  \* bound: dials and PPP connections the network refuses
  MaxFaults,    \* bound: exchanges that fail
  MaxDrops      \* bound: links the network drops

VARIABLES
  initialised,  \* _modem_initialised
  up,           \* _ppp_connection_up
  apnSet,       \* _apn is not NULL
  config,       \* position in the table, 0 for a NULL config
  job,          \* the call in progress, or the last one
  pc,           \* where it is
  ret,          \* what the last call returned
  power,        \* the modem is on
  attached,     \* it is registered
  mode,         \* it takes AT commands, or its line carries data
  link,         \* the PPP link is up
  faults, refusals, drops

callVars == <<job, pc, ret>>
driverVars == <<initialised, up, apnSet, config>>
modemVars == <<power, attached, mode, link>>
boundVars == <<faults, refusals, drops>>
vars == <<driverVars, callVars, modemVars, boundVars>>

\* An exchange goes as it should, fails, or is refused.  In data mode a command
\* is sent to the network and never answered.
Answered == mode = "command" /\ UNCHANGED <<faults, refusals>>
Unheard == mode = "data" /\ UNCHANGED <<faults, refusals>>
Fault == faults > 0 /\ faults' = faults - 1 /\ UNCHANGED refusals
Refused == refusals > 0 /\ refusals' = refusals - 1 /\ UNCHANGED faults

Goto(l) == pc' = l /\ UNCHANGED <<job, ret>>
Return(r) == pc' = "idle" /\ ret' = r /\ UNCHANGED job

Begin(j, l) == pc = "idle" /\ job' = j /\ ret' = "none" /\ pc' = l

set_credentials(apn) ==
  /\ pc = "idle"
  /\ apnSet' = apn
  /\ UNCHANGED <<initialised, up, config, callVars, modemVars, boundVars>>

(***************************************************************************)
(* init() and connect().                                                   *)
(***************************************************************************)

InitCall ==
  /\ Begin("init", IF initialised THEN "ready" ELSE "powerUp")
  /\ UNCHANGED <<driverVars, modemVars, boundVars>>

\* A link that is up is not looked at.
AlreadyUp ==
  /\ pc = "idle"
  /\ up
  /\ job' = "connect" /\ ret' = "IS_CONNECTED" /\ UNCHANGED pc
  /\ UNCHANGED <<driverVars, modemVars, boundVars>>

connect ==
  /\ ~up
  /\ Begin("connect", IF initialised THEN "ready" ELSE "powerUp")
  /\ UNCHANGED <<driverVars, modemVars, boundVars>>

\* The rest of init().  A modem that was on may be in data mode.
InitModem ==
  /\ pc = "powerUp"
  /\ power' = TRUE
  /\ \/ /\ Answered
        /\ initialised' = TRUE
        /\ Goto("ready")
     \/ /\ Unheard \/ Fault
        /\ Return(IF job = "init" THEN "false" ELSE "DEVICE_ERROR")
        /\ UNCHANGED initialised
  /\ UNCHANGED <<up, apnSet, config, attached, mode, link, drops>>

Ready ==
  /\ pc = "ready"
  /\ \/ job = "init" /\ Return("true")
     \/ job = "connect" /\ Goto("register")
  /\ UNCHANGED <<driverVars, modemVars, boundVars>>

\* Three calls of nwk_registration(), which asks the modem nothing once it is
\* registered, and the table if no APN was entered.
Register ==
  /\ pc = "register"
  /\ \/ /\ attached' = TRUE
        /\ Answered \/ (attached /\ UNCHANGED <<faults, refusals>>)
        /\ config' = IF ~apnSet /\ TableLen > 0 THEN 1 ELSE 0
        /\ Goto("context")
     \/ /\ ~attached
        /\ Unheard \/ Fault \/ Refused
        /\ Return("NO_CONNECTION")
        /\ UNCHANGED <<attached, config>>
  /\ UNCHANGED <<initialised, up, apnSet, power, mode, link, drops>>

MoreCredentials == config > 0 /\ config <= TableLen

\* The loop goes on with the next access point, or connect() returns r.
AttemptFails(r) ==
  \/ MoreCredentials /\ Goto("context")
  \/ ~MoreCredentials /\ Return(r)

\* get_next_credentials(), which stores them, and
\* setup_context_and_credentials().
SetContext ==
  /\ pc = "context"
  /\ apnSet' = TRUE
  /\ config' = IF config > 0 THEN config + 1 ELSE 0
  /\ \/ Answered /\ Goto("dial")
     \/ /\ Unheard \/ Fault
        /\ \/ config' \in 1..TableLen /\ Goto("context")
           \/ config' \notin 1..TableLen /\ Return("PARAMETER")
  /\ UNCHANGED <<initialised, up, modemVars, drops>>

\* set_atd(): the error code stays what it was, whatever comes of it.
Dial ==
  /\ pc = "dial"
  /\ \/ Answered /\ mode' = "data" /\ Goto("ppp")
     \/ (Refused \/ Unheard) /\ AttemptFails("OK") /\ UNCHANGED mode
     \/ Fault /\ mode' \in {"data", mode} /\ AttemptFails("OK")
  /\ UNCHANGED <<driverVars, power, attached, link, drops>>

\* Mutant: a failed PPP connection goes on without the escape sequence.
PppConnectStays ==
  /\ pc = "ppp"
  /\ \/ /\ link' = TRUE /\ up' = TRUE
        /\ Return("OK")
        /\ UNCHANGED <<mode, faults, refusals>>
     \/ /\ Refused
        /\ mode' \in {"data", "command"}
        /\ AttemptFails("NO_CONNECTION")
        /\ UNCHANGED <<link, up>>
  /\ UNCHANGED <<initialised, apnSet, config, power, attached, drops>>

\* nsapi_ppp_connect() makes the link, or fails in either mode.
PppConnect ==
  /\ pc = "ppp"
  /\ \/ /\ link' = TRUE /\ up' = TRUE
        /\ Return("OK")
        /\ UNCHANGED <<mode, faults, refusals>>
     \/ /\ Refused
        /\ mode' \in {"data", "command"}
        /\ Goto("escape")
        /\ UNCHANGED <<link, up>>
  /\ UNCHANGED <<initialised, apnSet, config, power, attached, drops>>

\* "~+++" ends the data mode, or in command mode is answered by a timeout.
Escape ==
  /\ pc = "escape"
  /\ \/ mode' = "command" /\ UNCHANGED <<faults, refusals>>
     \/ Fault /\ UNCHANGED mode
  /\ AttemptFails("NO_CONNECTION")
  /\ UNCHANGED <<driverVars, power, attached, link, drops>>

(***************************************************************************)
(* disconnect() and deinit().                                              *)
(***************************************************************************)

\* nsapi_ppp_disconnect() closes a link that is up; without one it may return
\* either result.
Closed == mode' = (IF link THEN "command" ELSE mode) /\ UNCHANGED <<faults, refusals>>
NotClosed == UNCHANGED mode /\ (Fault \/ (~link /\ UNCHANGED <<faults, refusals>>))

\* Mutant: the flag is cleared before the result is known.
DisconnectForgets ==
  /\ up' = FALSE
  /\ \/ Closed /\ link' = FALSE /\ Begin("disconnect", "drain")
     \/ /\ NotClosed
        /\ pc = "idle" /\ job' = "disconnect" /\ ret' = "DEVICE_ERROR"
        /\ UNCHANGED <<pc, link>>
  /\ UNCHANGED <<initialised, apnSet, config, power, attached, drops>>

disconnect ==
  /\ \/ /\ Closed /\ link' = FALSE /\ up' = FALSE
        /\ Begin("disconnect", "drain")
     \/ /\ NotClosed
        /\ pc = "idle" /\ job' = "disconnect" /\ ret' = "DEVICE_ERROR"
        /\ UNCHANGED <<pc, up, link>>
  /\ UNCHANGED <<initialised, apnSet, config, power, attached, drops>>

\* AT, which takes NO CARRIER off the line.
Drain ==
  /\ pc = "drain"
  /\ Goto("deregister")
  /\ UNCHANGED <<driverVars, modemVars, boundVars>>

nwk_deregistration ==
  /\ pc = "deregister"
  /\ \/ Answered /\ attached' = FALSE /\ Return("OK")
     \/ Unheard /\ UNCHANGED attached /\ Return("DEVICE_ERROR")
     \/ Fault /\ attached' \in {FALSE, attached} /\ Return("DEVICE_ERROR")
  /\ UNCHANGED <<driverVars, power, mode, link, drops>>

\* power_down() asks a modem that was initialised to switch off, and cuts its
\* power after that.
deinit ==
  /\ Begin("deinit", IF initialised THEN "softOff" ELSE "hardOff")
  /\ UNCHANGED <<driverVars, modemVars, boundVars>>

SoftOff ==
  /\ pc = "softOff"
  /\ Goto("hardOff")
  /\ UNCHANGED <<driverVars, modemVars, boundVars>>

\* _ppp_connection_up is a member of the class below and is left alone.
HardOff ==
  /\ pc = "hardOff"
  /\ initialised' = FALSE
  /\ power' = FALSE /\ attached' = FALSE /\ mode' = "command" /\ link' = FALSE
  /\ Return("none")
  /\ UNCHANGED <<up, apnSet, config, boundVars>>

\* The network ends the connection; the modem is back in command mode.
LinkDrops ==
  /\ drops > 0 /\ drops' = drops - 1
  /\ link
  /\ link' = FALSE /\ mode' = "command"
  /\ UNCHANGED <<driverVars, callVars, power, attached, faults, refusals>>

\* A modem in data mode that sees no PPP frames gives up.
DataModeEnds ==
  /\ mode = "data" /\ ~link /\ pc # "ppp"
  /\ mode' = "command"
  /\ UNCHANGED <<driverVars, callVars, power, attached, link, boundVars>>

(***************************************************************************)
(* The interface on its own, called in any order.                          *)
(***************************************************************************)

Init ==
  /\ initialised = FALSE /\ up = FALSE
  /\ apnSet \in BOOLEAN /\ config = 0
  /\ job = "none" /\ pc = "idle" /\ ret = "none"
  /\ power = FALSE /\ attached = FALSE
  /\ mode = "command" /\ link = FALSE
  /\ faults = MaxFaults /\ refusals = MaxRefusals /\ drops = MaxDrops

StartCall ==
  \/ \E apn \in BOOLEAN : set_credentials(apn)
  \/ InitCall \/ AlreadyUp \/ connect \/ disconnect \/ deinit

ContinueCall ==
  \/ InitModem \/ Ready \/ Register \/ SetContext \/ Dial \/ PppConnect \/ Escape
  \/ Drain \/ nwk_deregistration \/ SoftOff \/ HardOff

Next == StartCall \/ ContinueCall \/ LinkDrops \/ DataModeEnds

Spec == Init /\ [][Next]_vars

(***************************************************************************)
(* Properties.                                                             *)
(***************************************************************************)

PCs == {"idle", "powerUp", "ready", "register", "context", "dial", "ppp", "escape", "drain",
        "deregister", "softOff", "hardOff"}
Results == {"none", "true", "false", "OK", "IS_CONNECTED", "DEVICE_ERROR", "NO_CONNECTION",
            "PARAMETER"}

\* Every variable keeps its type.
TypeOK ==
  /\ {initialised, up, apnSet, power, attached, link} \subseteq BOOLEAN
  /\ config \in 0..TableLen + 1
  /\ job \in {"none", "init", "connect", "disconnect", "deinit"}
  /\ pc \in PCs /\ ret \in Results
  /\ mode \in {"command", "data"}
  /\ faults \in 0..MaxFaults /\ refusals \in 0..MaxRefusals /\ drops \in 0..MaxDrops

\* Where an AT command is sent: to set the modem up, register, store
\* credentials, dial, deregister and switch off.
Commanding == {"powerUp", "register", "context", "dial", "drain", "deregister", "softOff"}

\* Whatever the network refuses or drops, no AT command is sent as data, until
\* an exchange fails: so for an application that calls deinit() only after a
\* disconnect(), as main() does.
CommandsInCommandMode == faults = MaxFaults /\ pc \in Commanding => mode = "command"

\* In any order of calls, the one command that can be sent as data before an
\* exchange fails is the AT+CPWROFF of a deinit() that finds the link up.
OnlyOffAsData ==
  faults = MaxFaults /\ pc \in Commanding /\ mode = "data" => pc = "softOff" /\ link

\* No live link is forgotten: a link that is up is one that the driver knows
\* of, through failures of every call, so that connect() never dials over it.
LinkIsKnown == link => up

\* UbloxPPPCellularInterface.h:119: connect() returns 0 on success, that is,
\* with the link up.
OkMeansLink ==
  [][job = "connect" /\ pc # "idle" /\ pc' = "idle" /\ ret' = "OK" => up']_vars
================================================================================
