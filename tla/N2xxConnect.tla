------------------------------ MODULE N2xxConnect -------------------------------
(***************************************************************************)
(* Connecting with the NB-IoT modem: connect() and disconnect() of         *)
(* ublox-at-cellular-interface-n2xx/UbloxATCellularInterfaceN2xx.cpp on    *)
(* init(), nwk_registration(), nwk_deregistration() and deinit() of        *)
(* ublox-cellular-base-n2xx/UbloxCellularBaseN2xx.cpp.                     *)
(*                                                                         *)
(* One thread makes the calls.  An exchange is one step: recv() runs the   *)
(* handlers of the URCs that came before the answer.  The statuses of the  *)
(* circuit and packet switched domains are never set from the line, and a *)
(* status of the EPS domain is abstracted to whether it counts as          *)
(* registered.                                                             *)
(***************************************************************************)
EXTENDS Naturals

CONSTANTS
  Retries,      \* registrations that one connect() attempts
  MaxFaults,    \* bound: exchanges that fail
  MaxDrops      \* bound: registrations the network drops

VARIABLES
  initialised,  \* _modem_initialised
  eps,          \* is_registered_eps(), from reg_status_eps
  tries,        \* registrations this connect() has attempted
  job,          \* the call in progress, or the last one
  pc,           \* where it is
  ret,          \* what the last call returned
  power,        \* the modem is on
  searching,    \* it is in automatic mode and looks for a network
  attached,     \* it is registered
  cereg,        \* it reports registrations
  urc,          \* the last status of it that waits on the line, or "none"
  faults, drops

driverVars == <<initialised, eps, tries>>
callVars == <<job, pc, ret>>
modemVars == <<power, searching, attached, cereg, urc>>
boundVars == <<faults, drops>>
vars == <<driverVars, callVars, modemVars, boundVars>>

Statuses == {"registered", "searching"}

is_registered_eps(status) == status = "registered"

\* An exchange that succeeds, and one that is refused or never answered; what
\* the modem did in the latter case is up to the action.
Answered == UNCHANGED faults
Fault == faults > 0 /\ faults' = faults - 1

\* What CEREG_URC() makes of what waits, by the end of an exchange.
Handled == (urc = "none" /\ eps) \/ is_registered_eps(urc)

HandleURC == eps' = Handled /\ urc' = "none"

\* The modem reports a change, if told to, after whatever it reported before.
Report(status) == urc' = IF cereg THEN status ELSE urc

Goto(l) == pc' = l /\ UNCHANGED <<job, ret>>
Return(r) == pc' = "idle" /\ ret' = r /\ UNCHANGED job
Begin(j, l) == pc = "idle" /\ job' = j /\ ret' = "none" /\ pc' = l

(***************************************************************************)
(* init() and connect().                                                   *)
(***************************************************************************)

InitCall ==
  /\ Begin("init", IF initialised THEN "ready" ELSE "powerUp")
  /\ UNCHANGED <<driverVars, modemVars, boundVars>>

connect ==
  /\ Begin("connect", IF initialised THEN "ready" ELSE "powerUp")
  /\ UNCHANGED <<driverVars, modemVars, boundVars>>

InitFails == Return(IF job = "init" THEN "false" ELSE "DEVICE_ERROR")

\* power_up(): what waits on the line is thrown away.  A modem that was off
\* looks for a network if its autoconnect setting says so.
PowerUp ==
  /\ pc = "powerUp"
  /\ power' = TRUE /\ urc' = "none"
  /\ \/ power /\ UNCHANGED searching
     \/ ~power /\ searching' \in BOOLEAN
  /\ \/ Answered /\ Goto("setUp")
     \/ Fault /\ InitFails
  /\ UNCHANGED <<driverVars, attached, cereg, drops>>

\* AT+CMEE=1 and the commands that identify the device.
SetUp ==
  /\ pc = "setUp"
  /\ HandleURC
  /\ \/ Answered /\ initialised' = TRUE /\ Goto("ready")
     \/ Fault /\ InitFails /\ UNCHANGED initialised
  /\ UNCHANGED <<tries, power, searching, attached, cereg, drops>>

\* Mutant: a status that says registered is enough, as in UbloxCellularBase.
ReadyShortcut ==
  /\ pc = "ready"
  /\ tries' = 0
  /\ \/ job = "init" /\ Return("true")
     \/ job = "connect" /\ eps /\ Return("OK")
     \/ job = "connect" /\ ~eps /\ Goto("enable")
  /\ UNCHANGED <<initialised, eps, modemVars, boundVars>>

Ready ==
  /\ pc = "ready"
  /\ tries' = 0
  /\ \/ job = "init" /\ Return("true")
     \/ job = "connect" /\ Goto("enable")
  /\ UNCHANGED <<initialised, eps, modemVars, boundVars>>

\* Mutant: the counter is tested before it is raised.
AttemptFailsLate ==
  /\ tries' = tries + 1
  /\ \/ tries < Retries /\ Goto("enable")
     \/ tries = Retries /\ Return("NO_CONNECTION")

\* nwk_registration() has returned false.
AttemptFails ==
  /\ tries' = tries + 1
  /\ \/ tries + 1 < Retries /\ Goto("enable")
     \/ tries + 1 = Retries /\ Return("NO_CONNECTION")

\* AT+CEREG=1
EnableURC ==
  /\ pc = "enable"
  /\ HandleURC
  /\ \/ Answered /\ cereg' = TRUE /\ Goto("automatic") /\ UNCHANGED tries
     \/ Fault /\ cereg' \in {cereg, TRUE} /\ AttemptFails
  /\ UNCHANGED <<initialised, power, searching, attached, drops>>

\* Mutant: the modem is left in the mode it is in.
SetAutomaticLeftOut ==
  /\ pc = "automatic"
  /\ HandleURC /\ Answered
  /\ Goto("query")
  /\ UNCHANGED <<initialised, tries, power, searching, attached, cereg, drops>>

\* AT+COPS? and, unless the modem is in automatic mode, AT+COPS=0, whose
\* results do not matter.
SetAutomatic ==
  /\ pc = "automatic"
  /\ HandleURC
  /\ \/ Answered /\ searching' = TRUE
     \/ Fault /\ searching' \in {searching, TRUE}
  /\ Goto("query")
  /\ UNCHANGED <<initialised, tries, power, attached, cereg, drops>>

\* Mutant: the status is not asked for, "just in case".
QueryLeftOut ==
  /\ pc = "query"
  /\ HandleURC /\ Answered
  /\ \/ eps' /\ Return("OK")
     \/ ~eps' /\ Goto("wait")
  /\ UNCHANGED <<initialised, tries, power, searching, attached, cereg, drops>>

\* get_cereg(): CEREG_URC() handles the answer too.
QueryStatus ==
  /\ pc = "query"
  /\ urc' = "none"
  /\ \/ Answered /\ eps' = attached
     \/ Fault /\ eps' \in {Handled, attached}
  /\ \/ eps' /\ Return("OK")
     \/ ~eps' /\ Goto("wait")
  /\ UNCHANGED <<initialised, tries, power, searching, attached, cereg, drops>>

\* Seconds of the waiting loop, the 180th of which ends the attempt.
WaitSeconds ==
  /\ pc = "wait"
  /\ HandleURC /\ UNCHANGED faults
  /\ \/ eps' /\ Return("OK") /\ UNCHANGED tries
     \/ ~eps' /\ AttemptFails
  /\ UNCHANGED <<initialised, power, searching, attached, cereg, drops>>

(***************************************************************************)
(* disconnect() and deinit().                                              *)
(***************************************************************************)

\* AT+COPS=2: the modem leaves the network and stays off it.
disconnect ==
  /\ pc = "idle" /\ job' = "disconnect"
  /\ eps' = Handled
  /\ \/ ~power /\ Answered /\ pc' = pc /\ ret' = "DEVICE_ERROR" /\ UNCHANGED <<searching, attached>>
     \/ /\ power /\ Answered /\ pc' = "settle" /\ ret' = "none"
        /\ searching' = FALSE /\ attached' = FALSE
     \/ /\ power /\ Fault /\ pc' = pc /\ ret' = "DEVICE_ERROR"
        /\ \/ searching' = FALSE /\ attached' = FALSE
           \/ UNCHANGED <<searching, attached>>
  /\ urc' = IF cereg /\ attached /\ ~attached' THEN "searching" ELSE "none"
  /\ UNCHANGED <<initialised, tries, power, cereg, drops>>

\* nwk_deregistration(), a second later and without the mutex.
Settle ==
  /\ pc = "settle"
  /\ eps' = FALSE
  /\ Return("OK")
  /\ UNCHANGED <<initialised, tries, modemVars, boundVars>>

deinit ==
  /\ Begin("deinit", "hardOff")
  /\ UNCHANGED <<driverVars, modemVars, boundVars>>

\* power_down() cuts the power; what the modem had sent stays on the line.
HardOff ==
  /\ pc = "hardOff"
  /\ initialised' = FALSE /\ eps' = FALSE
  /\ power' = FALSE /\ searching' = FALSE /\ attached' = FALSE /\ cereg' = FALSE
  /\ Return("none")
  /\ UNCHANGED <<tries, urc, boundVars>>

(***************************************************************************)
(* The network, and the event thread, which reads the line while           *)
(* nwk_registration() does not hold the mutex, of a modem that is off too. *)
(***************************************************************************)

EventThread ==
  /\ urc # "none" /\ pc \notin {"automatic", "query", "wait"}
  /\ HandleURC
  /\ UNCHANGED <<initialised, tries, callVars, power, searching, attached, cereg, boundVars>>

Registers ==
  /\ power /\ searching /\ ~attached
  /\ attached' = TRUE /\ Report("registered")
  /\ UNCHANGED <<driverVars, callVars, power, searching, cereg, boundVars>>

Unregisters ==
  /\ drops > 0 /\ drops' = drops - 1
  /\ attached
  /\ attached' = FALSE /\ Report("searching")
  /\ UNCHANGED <<driverVars, callVars, power, searching, cereg, faults>>

(***************************************************************************)
(* The interface on its own, called in any order.                          *)
(***************************************************************************)

Init ==
  /\ initialised = FALSE /\ eps = FALSE /\ tries = 0
  /\ job = "none" /\ pc = "idle" /\ ret = "none"
  /\ power = FALSE /\ searching = FALSE /\ attached = FALSE /\ cereg = FALSE
  /\ urc = "none"
  /\ faults = MaxFaults /\ drops = MaxDrops

StartCall == InitCall \/ connect \/ disconnect \/ deinit

ContinueCall ==
  \/ PowerUp \/ SetUp \/ Ready
  \/ EnableURC \/ SetAutomatic \/ QueryStatus \/ WaitSeconds
  \/ Settle \/ HardOff

Next == StartCall \/ ContinueCall \/ EventThread \/ Registers \/ Unregisters

Spec == Init /\ [][Next]_vars

(***************************************************************************)
(* Properties.                                                             *)
(***************************************************************************)

PCs == {"idle", "powerUp", "setUp", "ready", "enable", "automatic", "query", "wait", "settle",
        "hardOff"}
Results == {"none", "true", "false", "OK", "DEVICE_ERROR", "NO_CONNECTION"}

\* Every variable keeps its type.
TypeOK ==
  /\ {initialised, eps, power, searching, attached, cereg} \subseteq BOOLEAN
  /\ tries \in 0..Retries
  /\ job \in {"none", "init", "connect", "disconnect", "deinit"}
  /\ pc \in PCs /\ ret \in Results
  /\ urc \in Statuses \cup {"none"}
  /\ faults \in 0..MaxFaults /\ drops \in 0..MaxDrops

\* From the end of a connect() to the next power cycle the driver takes the
\* modem for registered exactly while it is, or a URC that says otherwise waits
\* to be read, whatever is called and dropped, until an exchange fails.
BeliefFollowsNetwork ==
  faults = MaxFaults /\ cereg /\ pc \notin {"automatic", "query"} =>
    (eps <=> attached) \/ urc # "none"

\* connect() returns OK only at a moment when the modem is registered, until an
\* exchange fails.
OkMeansRegistered ==
  [][faults' = MaxFaults /\ job = "connect" /\ pc # "idle" /\ pc' = "idle" /\ ret' = "OK" =>
       attached]_vars
================================================================================
