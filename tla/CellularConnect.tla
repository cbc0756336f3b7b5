---------------------------- MODULE CellularConnect ----------------------------
(***************************************************************************)
(* Bringing the modem up and down: init(), nwk_registration() and deinit() *)
(* of ublox-cellular-base/UbloxCellularBase.cpp and connect(),             *)
(* disconnect() and the SIM operations of                                  *)
(* ublox-at-cellular-interface/UbloxATCellularInterface.cpp.               *)
(*                                                                         *)
(* One application thread makes the calls.  An exchange of AT commands is  *)
(* one step that finds the line drained, because recv() runs the handlers  *)
(* of all that came before the answer; between exchanges the modem and the *)
(* network go on, and HandleURC stands for whoever reads a URC, the thread *)
(* inside a recv() or the event thread.                                    *)
(***************************************************************************)
EXTENDS Integers, Sequences

CONSTANTS
  Domains,      \* registration domains: csd, psd, eps
  Pins,         \* PIN codes
  NoPin,        \* a NULL pin
  Unset,        \* no argument, no deferred call
  SimPins,      \* PINs the SIM may have at first
  SetPins,      \* what set_sim_pin() was given at first, NoPin for nothing
  GivenPins,    \* the pins the application gives to init()
  NewPins,      \* the pins it changes to
  Apns,         \* access points, as values of _apn
  Table,        \* sequence of the access points apnconfig() lists
  AppApns,      \* access points the application sets itself
  WithLogin,    \* access points that come with a user name and a password
  AppAuths,     \* what the application passes to set_authentication()
  Accepts,      \* <<access point, authentication>> pairs the network accepts
  IsL2,         \* the modem is a TOBY-L2 or MPCI-L2
  Calls,        \* the calls the application makes
  SimTries,     \* turns of the loop in initialise_sim_card() (10)
  RegTries,     \* calls of nwk_registration() in connect() (3)
  WaitTurns,    \* turns of its waiting loop (180)
  MaxLeft,      \* attempts before the SIM blocks (3)
  MaxLine,      \* bound: URCs waiting on the line
  MaxDrops,     \* bound: times the network drops a registration or context
  MaxFaults     \* bound: exchanges that fail

ASSUME ConnectAssumption ==
  /\ NoPin \notin Pins
  /\ GivenPins \cup NewPins \cup SimPins \subseteq Pins
  /\ SetPins \subseteq Pins \cup {NoPin}
  /\ Unset \notin Pins \cup {NoPin} \cup BOOLEAN
  /\ Table \in Seq(Apns)
  /\ AppApns \subseteq Apns
  /\ AppAuths \subseteq {"NONE", "PAP", "CHAP", "UNKNOWN"}
  /\ "context" \notin Domains
  /\ "NULL" \notin Apns /\ "" \notin Apns
  /\ IsL2 \in BOOLEAN
  /\ {SimTries, RegTries, WaitTurns, MaxLeft} \subseteq Nat \ {0}
  /\ {MaxLine, MaxDrops, MaxFaults} \subseteq Nat

VARIABLES
  initialised,   \* _modem_initialised
  pin,           \* _pin
  check,         \* _sim_pin_check_enabled
  reg,           \* the domains whose reg_status says registered
  apn, login,    \* _apn, and whether _uname and _pwd are both non-empty
  auth,          \* _auth
  pendingCheck,  \* the deferred set_sim_pin_check()
  pendingPin,    \* the deferred set_new_sim_pin()
  job, arg,      \* the call in progress, or the last one, and its argument
  pc,            \* where it is
  count,         \* the loop counter of the loop it is in
  registrations, \* calls of nwk_registration() made by this connect()
  ok,            \* the local success flag
  config,        \* position in Table, 0 for a NULL config
  ret,           \* what the last call returned
  told,          \* the connection callback was called since connect() began
  power, sim, automatic, net, urcs, active,   \* the modem
  line,          \* URCs nobody has read
  faults, drops

driverVars == <<initialised, pin, check, reg>>
profileVars == <<apn, login, auth, config>>
pendingVars == <<pendingCheck, pendingPin>>
callVars == <<job, arg, pc, count, registrations, ok, ret>>
modemVars == <<power, sim, automatic, net, urcs, active>>
boundVars == <<faults, drops>>
vars == <<driverVars, profileVars, pendingVars, callVars, told, modemVars, line,
          boundVars>>

Auths == {"NONE", "PAP", "CHAP"}
ProtocolAuth == <<"NONE", "PAP", "CHAP">>   \* nsapi_security_to_modem_security()

(***************************************************************************)
(* Exchanges.                                                              *)
(***************************************************************************)

\* The thread at l makes an exchange that goes as it should, or does not.
At(l) == pc = l /\ line = << >>
Answered == UNCHANGED faults
Fault == faults > 0 /\ faults' = faults - 1

Goto(l) == pc' = l

Return(r) ==
  /\ pc' = "idle"
  /\ ret' = r
  /\ arg' = Unset
  /\ count' = 0
  /\ registrations' = 0
  /\ ok' = FALSE
  /\ UNCHANGED job

UnchangedCall == UNCHANGED <<job, arg, registrations, ok, ret>>

(***************************************************************************)
(* init()                                                                  *)
(***************************************************************************)

\* Every call that needs the modem starts with init().
BeginWithInit(j, a) ==
  /\ j \in Calls
  /\ pc = "idle"
  /\ job' = j
  /\ arg' = a
  /\ ret' = "none"
  /\ Goto(IF initialised THEN "ready" ELSE "powerUp")
  /\ UNCHANGED <<count, registrations, ok, driverVars, pendingVars, modemVars, line,
                 boundVars>>

InitCall ==
  /\ \E p \in GivenPins \cup {NoPin} : BeginWithInit("init", p)
  /\ UNCHANGED <<profileVars, told>>

LockedSim == [sim EXCEPT !.unlocked = ~sim.check]

\* power_up(): the line is flushed; a modem that was off starts afresh.
PowerUp ==
  /\ pc = "powerUp"
  /\ line' = << >>
  /\ power' = TRUE
  /\ IF power THEN UNCHANGED <<sim, automatic, net, urcs, active>>
     ELSE /\ sim' = LockedSim
          /\ automatic' = TRUE
          /\ net' = {} /\ urcs' = {} /\ active' = FALSE
  /\ \/ /\ Answered
        /\ pin' = IF arg \in Pins /\ job = "init" THEN arg ELSE pin
        /\ Goto("sim")
     \/ Fault /\ Goto("notReady") /\ UNCHANGED pin
  /\ count' = 0
  /\ UnchangedCall
  /\ UNCHANGED <<initialised, check, reg, profileVars, pendingVars, told, drops>>

\* What the SIM does with a PIN: a right one restores the attempts.
SimAccepts(p) == p = sim.pin /\ sim.left > 0
Tried(p) == [sim EXCEPT !.left = IF sim.left = 0 THEN 0
                                 ELSE IF p = sim.pin THEN MaxLeft ELSE @ - 1]

SimStep ==
  /\ UnchangedCall
  /\ UNCHANGED <<initialised, pin, reg, profileVars, pendingVars, told, power, automatic,
                 net, urcs, active, line, drops>>

\* A turn of initialise_sim_card() whose question is not answered.
SimNotReady ==
  /\ At("sim")
  /\ Fault
  /\ count' = count + 1
  /\ Goto(IF count' = SimTries THEN "notReady" ELSE "sim")
  /\ UNCHANGED <<check, sim>>
  /\ SimStep

\* +CPIN: READY, or a state the driver does not expect (the SIM is blocked).
SimReady ==
  /\ At("sim")
  /\ sim.unlocked \/ sim.left = 0
  /\ Answered
  /\ check' = IF sim.unlocked THEN FALSE ELSE check
  /\ Goto(IF sim.unlocked THEN "setUp" ELSE "notReady")
  /\ count' = 0
  /\ UNCHANGED sim
  /\ SimStep

\* Mutant: the answer to the PIN is not looked at.
SimPinUnchecked ==
  /\ At("sim")
  /\ ~sim.unlocked /\ sim.left > 0
  /\ check' = TRUE
  /\ sim' = [Tried(pin) EXCEPT !.unlocked = SimAccepts(pin)]
  /\ Answered
  /\ Goto("setUp")
  /\ count' = 0
  /\ SimStep

\* +CPIN: SIM PIN: the PIN is sent once, right or wrong.  A NULL _pin is
\* formatted as no PIN is, which may or may not cost an attempt.
SimPin ==
  /\ At("sim")
  /\ ~sim.unlocked /\ sim.left > 0
  /\ check' = TRUE
  /\ LET after == [Tried(pin) EXCEPT !.unlocked = SimAccepts(pin)]
     IN  \/ /\ SimAccepts(pin) /\ Answered
            /\ sim' = after
            /\ Goto("setUp")
         \/ /\ ~SimAccepts(pin) /\ Answered
            /\ sim' \in IF pin = NoPin THEN {sim, after} ELSE {after}
            /\ Goto("notReady")
         \/ Fault /\ sim' \in {sim, after} /\ Goto("notReady")
  /\ count' = 0
  /\ SimStep

\* set_device_identity(), device_init(), get_iccid(), get_imsi(), get_imei(),
\* get_meid() and set_sms().
SetUp ==
  /\ At("setUp")
  /\ \/ Answered /\ initialised' = TRUE /\ Goto("ready")
     \/ Fault /\ UNCHANGED initialised /\ Goto("notReady")
  /\ UnchangedCall
  /\ UNCHANGED <<count, pin, check, reg, profileVars, pendingVars, told, modemVars, line,
                 drops>>

InitFails ==
  /\ pc = "notReady"
  /\ Return(IF job = "init" THEN "false" ELSE "DEVICE_ERROR")
  /\ UNCHANGED <<driverVars, profileVars, pendingVars, told, modemVars, line, boundVars>>

InitDone ==
  /\ pc = "ready"
  /\ \/ job = "init" /\ Return("true")
     \/ job = "connect" /\ Goto("pendingCheck") /\ UnchangedCall /\ UNCHANGED count
     \/ job \in {"pinCheck", "newPin"} /\ Goto(job) /\ UnchangedCall /\ UNCHANGED count
  /\ UNCHANGED <<driverVars, profileVars, pendingVars, told, modemVars, line, boundVars>>

(***************************************************************************)
(* SIM operations: sim_pin_check_enable() and change_sim_pin(), made at    *)
(* once or left for connect().                                             *)
(***************************************************************************)

\* sim_pin_check_enable(e) and whether it returns true.
sim_pin_check_enable(e, success) ==
  \/ /\ pin = NoPin /\ ~success
     /\ UNCHANGED <<check, sim, faults>>
  \/ /\ pin # NoPin /\ check = e /\ success
     /\ UNCHANGED <<check, sim, faults>>
  \/ /\ pin # NoPin /\ check # e
     /\ \/ /\ Answered
           /\ success = SimAccepts(pin)
           /\ sim' = IF success THEN [Tried(pin) EXCEPT !.check = e] ELSE Tried(pin)
           /\ check' = IF success THEN e ELSE check
        \/ /\ Fault /\ ~success
           /\ UNCHANGED check
           /\ sim' \in {sim, IF SimAccepts(pin) THEN [Tried(pin) EXCEPT !.check = e]
                             ELSE Tried(pin)}

\* change_sim_pin(new): the SIM changes its PIN only while the check is on.
Changed(new) ==
  IF ~sim.check THEN sim
  ELSE IF SimAccepts(pin) THEN [Tried(pin) EXCEPT !.pin = new] ELSE Tried(pin)

change_sim_pin(new, success) ==
  \/ pin = NoPin /\ ~success /\ UNCHANGED <<pin, sim, faults>>
  \/ /\ pin # NoPin /\ Answered
     /\ success = (sim.check /\ SimAccepts(pin))
     /\ sim' = Changed(new)
     /\ pin' = IF success THEN new ELSE pin
  \/ /\ pin # NoPin /\ Fault /\ ~success
     /\ sim' \in {sim, Changed(new)}
     /\ UNCHANGED pin

\* set_sim_pin_check() and set_new_sim_pin() with immediate set.
SimOperationNow ==
  /\ \/ \E e \in BOOLEAN : BeginWithInit("pinCheck", e)
     \/ \E p \in NewPins : BeginWithInit("newPin", p)
  /\ UNCHANGED <<profileVars, told>>

\* Mutant: the new PIN is kept whether the SIM took it or not.
NewPinBelieved ==
  /\ \E success \in BOOLEAN :
       /\ \/ At("pinCheck") /\ sim_pin_check_enable(arg, success) /\ UNCHANGED pin
          \/ /\ At("newPin") /\ pin' = arg /\ Answered
             /\ sim' = Changed(arg)
             /\ UNCHANGED check
       /\ Return(IF success THEN "OK" ELSE "AUTH_FAILURE")
  /\ UNCHANGED <<initialised, reg, profileVars, pendingVars, told, power, automatic, net,
                 urcs, active, line, drops>>

SimOperationDone ==
  /\ \E success \in BOOLEAN :
       /\ \/ At("pinCheck") /\ sim_pin_check_enable(arg, success) /\ UNCHANGED pin
          \/ At("newPin") /\ change_sim_pin(arg, success) /\ UNCHANGED check
       /\ Return(IF success THEN "OK" ELSE "AUTH_FAILURE")
  /\ UNCHANGED <<initialised, reg, profileVars, pendingVars, told, power, automatic, net,
                 urcs, active, line, drops>>

\* The same calls without: a flag for connect().
SimOperationLater ==
  /\ pc = "idle"
  /\ \/ /\ "pinCheckLater" \in Calls
        /\ \E e \in BOOLEAN : pendingCheck' = e
        /\ UNCHANGED pendingPin
     \/ /\ "newPinLater" \in Calls
        /\ \E p \in NewPins : pendingPin' = p
        /\ UNCHANGED pendingCheck
  /\ UNCHANGED <<driverVars, profileVars, callVars, told, modemVars, line, boundVars>>

\* connect(): the deferred check first, then the deferred PIN, each tried
\* once.  ok says whether the error is still NO_CONNECTION.
PendingCheck ==
  /\ At("pendingCheck")
  /\ \E success \in BOOLEAN :
       /\ \/ pendingCheck = Unset /\ success /\ UNCHANGED <<check, sim, faults>>
          \/ pendingCheck # Unset /\ sim_pin_check_enable(pendingCheck, success)
       /\ ok' = success
  /\ pendingCheck' = Unset
  /\ Goto("pendingPin")
  /\ UNCHANGED <<initialised, pin, reg, profileVars, pendingPin, job, arg, count,
                 registrations, ret, told, power, automatic, net, urcs, active, line,
                 drops>>

\* Mutant: connect() overlooks that the deferred change of the PIN failed.
PendingPinOverlooked ==
  /\ At("pendingPin")
  /\ \E success \in BOOLEAN :
       \/ pendingPin = NoPin /\ success /\ UNCHANGED <<pin, sim, faults>>
       \/ pendingPin # NoPin /\ change_sim_pin(pendingPin, success)
  /\ IF ok THEN Goto("register") /\ UnchangedCall /\ UNCHANGED count ELSE Return("AUTH_FAILURE")
  /\ pendingPin' = NoPin
  /\ UNCHANGED <<initialised, check, reg, profileVars, pendingCheck, told, power,
                 automatic, net, urcs, active, line, drops>>

PendingPin ==
  /\ At("pendingPin")
  /\ \E success \in BOOLEAN :
       /\ \/ pendingPin = NoPin /\ success /\ UNCHANGED <<pin, sim, faults>>
          \/ pendingPin # NoPin /\ change_sim_pin(pendingPin, success)
       /\ IF ok /\ success
            THEN Goto("register") /\ UnchangedCall /\ UNCHANGED count
            ELSE Return("AUTH_FAILURE")
  /\ pendingPin' = NoPin
  /\ UNCHANGED <<initialised, check, reg, profileVars, pendingCheck, told, power,
                 automatic, net, urcs, active, line, drops>>

(***************************************************************************)
(* nwk_registration()                                                      *)
(***************************************************************************)

connect ==
  /\ BeginWithInit("connect", Unset)
  /\ told' = FALSE
  /\ UNCHANGED profileVars

\* connect(sim_pin, apn, uname, pwd), after set_sim_pin() for its first: an
\* access point left out stays as it is, a login left out is forgotten.
connectWith ==
  /\ BeginWithInit("connect", Unset)
  /\ told' = FALSE
  /\ apn' \in AppApns \cup {apn}
  /\ login' \in {FALSE, apn' \in AppApns \cap WithLogin}
  /\ UNCHANGED <<auth, config>>

RegStep ==
  /\ UNCHANGED <<initialised, pin, check, profileVars, pendingVars, job, arg, ret, told,
                 power, sim, net, active, line, drops>>

AlreadyRegistered ==
  /\ pc = "register"
  /\ reg # {}
  /\ Goto("stack")
  /\ UNCHANGED <<reg, count, registrations, ok, automatic, urcs, faults>>
  /\ RegStep

\* CREG=1, CGREG=1 and CEREG=1: after a refusal the thread only waits, but
\* that of CEREG=1 is overlooked.
EnableURCs ==
  /\ At("register")
  /\ reg = {}
  /\ \/ Answered /\ urcs' = Domains /\ Goto("cops")
     \/ Fault /\ Goto("wait") /\ \E d \in SUBSET Domains : urcs' = urcs \cup d
     \/ Fault /\ Goto("cops") /\ urcs' = urcs \cup (Domains \ {"eps"})
  /\ count' = 0
  /\ ok' = FALSE
  /\ UNCHANGED <<reg, registrations, automatic>>
  /\ RegStep

\* COPS=0 brings back the automatic mode that disconnect() leaves.
SetAutomatic ==
  /\ At("cops")
  /\ \/ Answered /\ automatic' = TRUE
     \/ Fault /\ UNCHANGED automatic
  /\ Goto("query")
  /\ UNCHANGED <<reg, count, registrations, ok, urcs>>
  /\ RegStep

\* Mutant: the status is not asked for.
QueryLeftOut ==
  /\ At("query")
  /\ Answered
  /\ Goto("wait")
  /\ UNCHANGED <<reg, count, registrations, ok, automatic, urcs>>
  /\ RegStep

\* CREG?, CGREG? and CEREG?: the answers go through the URC handlers.
QueryStatus ==
  /\ At("query")
  /\ \/ Answered /\ reg' = net
     \/ Fault /\ \E d \in SUBSET Domains : reg' = (reg \ d) \cup (net \cap d)
  /\ Goto("wait")
  /\ UNCHANGED <<count, registrations, ok, automatic, urcs>>
  /\ RegStep

\* A turn of the loop tests first and reads the line after.
WaitTest ==
  /\ pc = "wait"
  /\ ~ok /\ count < WaitTurns
  /\ ok' = (reg # {})
  /\ count' = count + 1
  /\ Goto("waitRead")
  /\ UNCHANGED <<reg, registrations, automatic, urcs, faults>>
  /\ RegStep

WaitRead ==
  /\ At("waitRead")
  /\ Goto("wait")
  /\ UNCHANGED <<reg, count, registrations, ok, automatic, urcs, faults>>
  /\ RegStep

\* Mutant: one registration too many.
WaitEndsLate ==
  /\ pc = "wait"
  /\ ok \/ count = WaitTurns
  /\ UNCHANGED <<driverVars, profileVars, pendingVars, told, modemVars, line, boundVars>>
  /\ \/ ok /\ Goto("stack") /\ UNCHANGED <<job, arg, count, registrations, ok, ret>>
     \/ /\ ~ok /\ registrations + 1 <= RegTries
        /\ registrations' = registrations + 1
        /\ Goto("register")
        /\ UNCHANGED <<job, arg, count, ok, ret>>
     \/ ~ok /\ registrations = RegTries /\ Return("NO_CONNECTION")

WaitEnds ==
  /\ pc = "wait"
  /\ ok \/ count = WaitTurns
  /\ UNCHANGED <<driverVars, profileVars, pendingVars, told, modemVars, line, boundVars>>
  /\ \/ /\ ok
        /\ Goto("stack")
        /\ UNCHANGED <<job, arg, count, registrations, ok, ret>>
     \/ /\ ~ok /\ registrations + 1 < RegTries
        /\ registrations' = registrations + 1
        /\ Goto("register")
        /\ UNCHANGED <<job, arg, count, ok, ret>>
     \/ ~ok /\ registrations + 1 = RegTries /\ Return("NO_CONNECTION")

(***************************************************************************)
(* connect_modem_stack()                                                   *)
(***************************************************************************)

StackStep ==
  /\ UNCHANGED <<driverVars, pendingVars, told, power, sim, automatic, net, urcs, line,
                 drops>>

\* Is the profile active already?  If not, where do credentials come from?
CheckProfile ==
  /\ At("stack")
  /\ \/ Answered /\ active /\ Return("OK") /\ UNCHANGED config
     \/ Fault /\ Return("NO_CONNECTION") /\ UNCHANGED config
     \/ /\ Answered /\ ~active
        /\ config' = IF apn = "NULL" /\ Table # << >> THEN 1 ELSE 0
        /\ Goto("credentials")
        /\ UnchangedCall /\ UNCHANGED count
  /\ UNCHANGED <<apn, login, auth, active>>
  /\ StackStep

\* get_next_credentials() and the choice of the authentication.
NextCredentials ==
  /\ pc = "credentials"
  /\ \/ /\ config > 0
        /\ apn' = Table[config]
        /\ login' = (Table[config] \in WithLogin)
        /\ config' = config + 1
     \/ /\ config = 0
        /\ apn' = IF apn = "NULL" THEN "" ELSE apn
        /\ UNCHANGED <<login, config>>
  /\ auth' = IF login' THEN auth ELSE "NONE"
  /\ Goto(IF IsL2 THEN "external" ELSE "profile")
  /\ ok' = FALSE
  /\ count' = 1
  /\ UNCHANGED <<job, arg, registrations, ret, active, faults>>
  /\ StackStep

MoreCredentials == config > 0 /\ config <= Len(Table)

\* The attempt with these credentials is over.
AttemptEnds(success) ==
  \/ success /\ Return("OK")
  \/ ~success /\ MoreCredentials /\ Goto("credentials") /\ UnchangedCall /\ UNCHANGED count
  \/ ~success /\ ~MoreCredentials /\ Return("NO_CONNECTION")

\* activate_profile(): store the credentials, unless there is no APN.
StoreProfile ==
  /\ At("profile")
  /\ \/ apn # "" /\ Answered /\ Goto("activate") /\ UnchangedCall /\ UNCHANGED count
     \/ apn # "" /\ Fault /\ AttemptEnds(FALSE)
     \/ apn = "" /\ AttemptEnds(FALSE) /\ UNCHANGED faults
  /\ UNCHANGED <<profileVars, active>>
  /\ StackStep

\* AT+UPSDA=0,3 with authentication a: the network lets the modem in or not.
\* Activating an active profile may be answered either way.
Activation(a, success) ==
  \/ Answered /\ success /\ active' = TRUE /\ net # {} /\ <<apn, a>> \in Accepts
  \/ /\ Answered /\ ~success /\ UNCHANGED active
     /\ active \/ net = {} \/ <<apn, a>> \notin Accepts
  \/ Fault /\ ~success /\ active' \in {active, active \/ (net # {} /\ <<apn, a>> \in Accepts)}

\* The protocols the loop tries; it does not stop at a success, and the last
\* protocol that the modem stored decides.  ok is the local activated.
Protocols == IF auth = "UNKNOWN" THEN ProtocolAuth ELSE <<auth>>

\* Mutant: an activation that was sent counts as one that succeeded.
TryProtocolUnchecked ==
  /\ At("activate")
  /\ \E success \in BOOLEAN : Activation(Protocols[count], success)
  /\ AttemptEnds(TRUE)
  /\ UNCHANGED <<apn, login, auth, config>>
  /\ StackStep

TryProtocol ==
  /\ At("activate")
  /\ \E success \in BOOLEAN :
       /\ \/ Activation(Protocols[count], success)
          \/ Fault /\ success = ok /\ UNCHANGED active
       /\ \/ count = Len(Protocols) /\ AttemptEnds(success)
          \/ /\ count < Len(Protocols)
             /\ count' = count + 1
             /\ ok' = success
             /\ UNCHANGED <<pc, job, arg, registrations, ret>>
  /\ UNCHANGED <<apn, login, auth, config>>
  /\ StackStep

\* activate_profile_reuse_external(): the modem may have a context already.
ReuseExternal ==
  /\ At("external")
  /\ \/ Answered /\ net # {} /\ active' = TRUE /\ AttemptEnds(TRUE)
     \/ /\ UNCHANGED <<active, faults>>
        /\ Goto("cid") /\ UnchangedCall /\ UNCHANGED count
  /\ UNCHANGED profileVars
  /\ StackStep

\* activate_profile_by_cid()
ActivateByCid ==
  /\ At("cid")
  /\ \E success \in BOOLEAN : Activation(auth, success) /\ AttemptEnds(success)
  /\ UNCHANGED <<apn, login, auth, config>>
  /\ StackStep

(***************************************************************************)
(* The other calls.                                                        *)
(***************************************************************************)

set_sim_pin ==
  /\ pc = "idle"
  /\ pin' \in GivenPins
  /\ UNCHANGED <<initialised, check, reg, profileVars, pendingVars, callVars, told, modemVars,
                 line, boundVars>>

set_credentials ==
  /\ pc = "idle"
  /\ \E a \in AppApns : apn' = a /\ login' = (a \in WithLogin)
  /\ UNCHANGED <<driverVars, auth, config, pendingVars, callVars, told, modemVars,
                 line, boundVars>>

set_authentication ==
  /\ pc = "idle"
  /\ \E a \in AppAuths : auth # a /\ auth' = a
  /\ UNCHANGED <<driverVars, apn, login, config, pendingVars, callVars, told,
                 modemVars, line, boundVars>>

\* disconnect(): disconnect_modem_stack(), which asks for the IP address
\* first, and nwk_deregistration().
disconnect ==
  /\ "disconnect" \in Calls
  /\ At("idle")
  /\ job' = "disconnect"
  /\ \/ Answered /\ active /\ Goto("deactivate") /\ ret' = "none"
     \/ Answered /\ ~active /\ ret' = "DEVICE_ERROR" /\ UNCHANGED pc
     \/ Fault /\ ret' = "DEVICE_ERROR" /\ UNCHANGED pc
  /\ UNCHANGED <<driverVars, profileVars, pendingVars, arg, count, registrations, ok, told,
                 modemVars, line, drops>>

Deactivate ==
  /\ At("deactivate")
  /\ \/ /\ Answered /\ active' = FALSE /\ told' = TRUE
        /\ Goto("deregister") /\ UnchangedCall /\ UNCHANGED count
     \/ /\ Fault /\ active' \in {FALSE, active} /\ UNCHANGED told
        /\ Return("DEVICE_ERROR")
  /\ UNCHANGED <<driverVars, profileVars, pendingVars, power, sim, automatic, net, urcs, line,
                 drops>>

nwk_deregistration ==
  /\ At("deregister")
  /\ \/ Answered /\ net' = {} /\ automatic' = FALSE /\ reg' = {} /\ Return("OK")
     \/ /\ Fault /\ Return("DEVICE_ERROR")
        /\ \/ net' = {} /\ automatic' = FALSE /\ reg' = reg \ (net \cap urcs)
           \/ UNCHANGED <<net, automatic, reg>>
  /\ UNCHANGED <<initialised, pin, check, profileVars, pendingVars, told, power, sim, urcs,
                 active, line, drops>>

\* deinit(): power_down(), softly if the modem was initialised, then hard.
SwitchedOff ==
  /\ power' = FALSE
  /\ net' = {} /\ urcs' = {} /\ active' = FALSE
  /\ sim' = LockedSim
  /\ automatic' = TRUE

deinit ==
  /\ "deinit" \in Calls
  /\ pc = "idle"
  /\ ret' = "none"
  /\ job' = "deinit"
  /\ \/ ~initialised /\ UNCHANGED <<modemVars, faults>>
     \/ initialised /\ line = << >> /\ Answered /\ SwitchedOff
     \/ initialised /\ line = << >> /\ Fault /\ UNCHANGED modemVars
  /\ Goto("hardOff")
  /\ UNCHANGED <<driverVars, profileVars, pendingVars, arg, count, registrations, ok, told,
                 line, drops>>

\* Mutant: power_down() leaves the registration status alone.
HardOffKeepsStatus ==
  /\ pc = "hardOff"
  /\ SwitchedOff
  /\ initialised' = FALSE
  /\ Return("none")
  /\ UNCHANGED <<reg, pin, check, profileVars, pendingVars, told, line, boundVars>>

HardOff ==
  /\ pc = "hardOff"
  /\ SwitchedOff
  /\ reg' = {}
  /\ initialised' = FALSE
  /\ Return("none")
  /\ UNCHANGED <<pin, check, profileVars, pendingVars, told, line, boundVars>>

(***************************************************************************)
(* URCs, the modem and the network.                                        *)
(***************************************************************************)

\* Mutant: the loss of the context is not passed on.
ContextLossDropped ==
  /\ line # << >>
  /\ line' = Tail(line)
  /\ LET u == Head(line)
     IN  reg' = IF u.on THEN reg \cup {u.domain} ELSE reg \ {u.domain}
  /\ UNCHANGED <<initialised, pin, check, profileVars, pendingVars, callVars, told, modemVars,
                 boundVars>>

\* CREG_URC(), CGREG_URC(), CEREG_URC() and UUPSDD_URC().
HandleURC ==
  /\ line # << >>
  /\ line' = Tail(line)
  /\ LET u == Head(line)
     IN  \/ u.on /\ reg' = reg \cup {u.domain} /\ UNCHANGED told
         \/ ~u.on /\ u.domain \in Domains /\ reg' = reg \ {u.domain} /\ UNCHANGED told
         \/ u.domain \notin Domains /\ told' = TRUE /\ UNCHANGED reg
  /\ UNCHANGED <<initialised, pin, check, profileVars, pendingVars, callVars, modemVars,
                 boundVars>>

Emit(d, on) == line' = Append(line, [domain |-> d, on |-> on])

NetworkStep ==
  /\ power
  /\ Len(line) < MaxLine
  /\ UNCHANGED <<driverVars, profileVars, pendingVars, callVars, told, power, sim,
                 automatic, urcs, faults>>

Registers(d) ==
  /\ automatic /\ sim.unlocked /\ d \notin net
  /\ net' = net \cup {d}
  /\ IF d \in urcs THEN Emit(d, TRUE) ELSE UNCHANGED line
  /\ UNCHANGED <<active, drops>>
  /\ NetworkStep

Unregisters(d) ==
  /\ drops > 0 /\ drops' = drops - 1
  /\ d \in net
  /\ net' = net \ {d}
  /\ IF d \in urcs THEN Emit(d, FALSE) ELSE UNCHANGED line
  /\ UNCHANGED active
  /\ NetworkStep

ContextDropped ==
  /\ drops > 0 /\ drops' = drops - 1
  /\ active
  /\ active' = FALSE
  /\ Emit("context", FALSE)
  /\ UNCHANGED net
  /\ NetworkStep

(***************************************************************************)
(* The system.                                                             *)
(***************************************************************************)

Init ==
  /\ initialised = FALSE
  /\ pin \in SetPins
  /\ check = FALSE
  /\ reg = {}
  /\ apn = "NULL" /\ login = FALSE
  /\ auth = "UNKNOWN"
  /\ config = 0
  /\ pendingCheck = Unset /\ pendingPin = NoPin
  /\ job = "none" /\ arg = Unset /\ pc = "idle"
  /\ count = 0 /\ registrations = 0 /\ ok = FALSE
  /\ ret = "none" /\ told = FALSE
  /\ power = FALSE
  /\ \E p \in SimPins, c \in BOOLEAN :
       sim = [check |-> c, pin |-> p, unlocked |-> ~c, left |-> MaxLeft]
  /\ automatic = TRUE
  /\ net = {} /\ urcs = {} /\ active = FALSE
  /\ line = << >>
  /\ faults = MaxFaults /\ drops = MaxDrops

StartCall ==
  \/ InitCall \/ SimOperationNow \/ SimOperationLater \/ connect \/ connectWith
  \/ set_sim_pin \/ set_credentials \/ set_authentication \/ disconnect \/ deinit

ContinueCall ==
  \/ PowerUp \/ SimNotReady \/ SimReady \/ SimPin \/ SetUp \/ InitFails \/ InitDone
  \/ SimOperationDone \/ PendingCheck \/ PendingPin
  \/ AlreadyRegistered \/ EnableURCs \/ SetAutomatic \/ QueryStatus
  \/ WaitTest \/ WaitRead \/ WaitEnds
  \/ CheckProfile \/ NextCredentials \/ StoreProfile \/ TryProtocol
  \/ ReuseExternal \/ ActivateByCid \/ Deactivate \/ nwk_deregistration \/ HardOff

Next ==
  \/ StartCall
  \/ ContinueCall
  \/ HandleURC
  \/ \E d \in Domains : Registers(d) \/ Unregisters(d)
  \/ ContextDropped

Spec == Init /\ [][Next]_vars

\* The thread runs, URCs are read, the application calls connect() again and
\* again (main.cpp), and a network that is searched for is found.
Fairness ==
  /\ WF_vars(ContinueCall)
  /\ WF_vars(HandleURC)
  /\ WF_vars(connect)
  /\ \A d \in Domains : WF_vars(Registers(d))

FairSpec == Spec /\ Fairness

(***************************************************************************)
(* Properties.                                                             *)
(***************************************************************************)

PCs == {"idle", "powerUp", "notReady", "ready", "sim", "setUp", "pinCheck", "newPin",
        "pendingCheck", "pendingPin", "register", "cops", "query", "wait", "waitRead",
        "stack", "credentials", "profile", "activate", "external", "cid", "deactivate",
        "deregister", "hardOff"}
Jobs == {"none", "init", "connect", "pinCheck", "newPin", "disconnect", "deinit"}
Results == {"none", "true", "false", "OK", "DEVICE_ERROR", "AUTH_FAILURE", "NO_CONNECTION"}
Counts == 0..SimTries + WaitTurns + Len(ProtocolAuth)
ApnValues == Apns \cup {"NULL", ""}
Sim == [check : BOOLEAN, pin : Pins, unlocked : BOOLEAN, left : 0..MaxLeft]
URC == [domain : Domains, on : BOOLEAN] \cup [domain : {"context"}, on : {FALSE}]

\* Every variable keeps its type; the loop counters stay within their loops.
TypeOK ==
  /\ initialised \in BOOLEAN
  /\ pin \in Pins \cup {NoPin}
  /\ check \in BOOLEAN
  /\ reg \in SUBSET Domains
  /\ apn \in ApnValues /\ login \in BOOLEAN
  /\ auth \in Auths \cup {"UNKNOWN"}
  /\ config \in 0..Len(Table) + 1
  /\ pendingCheck \in BOOLEAN \cup {Unset}
  /\ pendingPin \in Pins \cup {NoPin}
  /\ job \in Jobs /\ arg \in BOOLEAN \cup Pins \cup {NoPin, Unset}
  /\ pc \in PCs
  /\ count \in Counts /\ registrations \in 0..RegTries - 1
  /\ ok \in BOOLEAN
  /\ ret \in Results
  /\ told \in BOOLEAN
  /\ power \in BOOLEAN /\ automatic \in BOOLEAN /\ active \in BOOLEAN
  /\ sim \in Sim
  /\ net \in SUBSET Domains /\ urcs \in SUBSET Domains
  /\ line \in Seq(URC)
  /\ faults \in 0..MaxFaults /\ drops \in 0..MaxDrops

LossInTransit == \E i \in 1..Len(line) : line[i].domain = "context"

\* connect() returns OK only for an active profile, and from then on the
\* application hears of a loss through its callback.
ConnectionKnown ==
  pc = "idle" /\ job = "connect" /\ ret = "OK" => active \/ told \/ LossInTransit

\* Between calls, with nothing unread and until an exchange fails, the driver
\* believes what the network says, through every registration, loss,
\* deregistration and power cycle.
BeliefMatchesNetwork ==
  pc = "idle" /\ line = << >> /\ faults = MaxFaults =>
    /\ urcs = Domains => reg = net
    /\ ~power => reg = {}

\* A modem that is ready for use is powered and its SIM lets it register.
ReadyModemIsUp == initialised /\ pc # "hardOff" => power /\ sim.unlocked

\* An application that gives the right PIN once never wastes an attempt, however
\* it switches the check, changes the PIN and power-cycles the modem.
NoAttemptWasted ==
  faults = MaxFaults /\ GivenPins = {} /\ (\E p \in Pins : SetPins = {p} /\ SimPins = {p}) =>
    sim.left = MaxLeft

\* A deferred SIM operation is dropped only by a connect() that reached it.  One
\* that goes on has carried it out: a new PIN is in the SIM and in the driver,
\* and the check is as asked for, in the driver and in the SIM too if the driver
\* had to change it or no exchange ever failed.  (After an init() that failed
\* with the SIM unlocked the driver takes a check that is on for one that is
\* off, line 662, and then has nothing to change.)
DeferredCarriedOut ==
  [][/\ pendingPin # NoPin /\ pendingPin' = NoPin /\ pc' = "register" =>
          pin' = pendingPin /\ sim'.pin = pendingPin
     /\ pendingCheck # Unset /\ pendingCheck' = Unset /\ ok' =>
          /\ check' = pendingCheck
          /\ check # pendingCheck \/ faults = MaxFaults => sim'.check = pendingCheck]_vars

\* The access point that the driver holds on to is one the network refuses
\* with every protocol the driver would try.
CredentialsRefused ==
  /\ apn # "NULL"
  /\ \A a \in Auths : (IF login THEN auth ELSE "NONE") \in {a, "UNKNOWN"} =>
       <<apn, a>> \notin Accepts

\* An application that keeps calling connect() gets connected, unless a failed
\* exchange leaves the driver for good with credentials that are refused.
EventuallyConnected ==
  <>(pc = "idle" /\ job = "connect" /\ ret = "OK") \/ <>[]CredentialsRefused
================================================================================
