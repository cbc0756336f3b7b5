---------------------------- MODULE LwM2MAppProofs -----------------------------
(***************************************************************************)
(* Theorems about LwM2MApp: the program calls its interface the way the    *)
(* interface's own module allows, so that what was proved of the interface *)
(* for any order of calls holds through the whole program.                 *)
(***************************************************************************)
EXTENDS LwM2MApp, TLAPS

\* The instances of LwM2MApp, with what was proved of their modules.
PP == INSTANCE PPPInterfaceProofs WITH TableLen <- Len(Table)
NP == INSTANCE N2xxConnectProofs
CP == INSTANCE CellularConnectProofs WITH
        Pins <- {Pin}, SimPins <- {Pin}, GivenPins <- {Pin}, SetPins <- {NoPin}, NewPins <- {},
        AppApns <- {}, AppAuths <- {}, RegTries <- Retries,
        Calls <- {"init", "connect", "disconnect", "deinit"}

LEMMA SamePPP == [P!Next]_(P!vars) <=> [PP!Next]_(PP!vars)
  BY DEF P!set_credentials, PP!set_credentials, P!InitCall, PP!InitCall, P!AlreadyUp, PP!AlreadyUp,
         P!connect, PP!connect, P!InitModem, PP!InitModem, P!Ready, PP!Ready, P!Register,
         PP!Register, P!MoreCredentials, PP!MoreCredentials, P!AttemptFails, PP!AttemptFails,
         P!SetContext, PP!SetContext, P!Dial, PP!Dial, P!PppConnect, PP!PppConnect, P!Escape,
         PP!Escape, P!Closed, PP!Closed, P!NotClosed, PP!NotClosed, P!disconnect, PP!disconnect,
         P!Drain, PP!Drain, P!nwk_deregistration, PP!nwk_deregistration, P!deinit, PP!deinit,
         P!SoftOff, PP!SoftOff, P!HardOff, PP!HardOff, P!LinkDrops, PP!LinkDrops, P!DataModeEnds,
         PP!DataModeEnds, P!StartCall, PP!StartCall, P!ContinueCall, PP!ContinueCall, P!Next,
         PP!Next, P!Answered, PP!Answered, P!Unheard, PP!Unheard, P!Fault, PP!Fault, P!Refused,
         PP!Refused, P!Goto, PP!Goto, P!Return, PP!Return, P!Begin, PP!Begin, P!callVars,
         PP!callVars, P!driverVars, PP!driverVars, P!modemVars, PP!modemVars, P!boundVars,
         PP!boundVars, P!vars, PP!vars

LEMMA SameN2xx == [N!Next]_(N!vars) <=> [NP!Next]_(NP!vars)
  BY DEF N!is_registered_eps, NP!is_registered_eps, N!Answered, NP!Answered, N!Fault, NP!Fault,
         N!Handled, NP!Handled, N!HandleURC, NP!HandleURC, N!Report, NP!Report, N!Goto, NP!Goto,
         N!Return, NP!Return, N!Begin, NP!Begin, N!InitCall, NP!InitCall, N!connect, NP!connect,
         N!InitFails, NP!InitFails, N!PowerUp, NP!PowerUp, N!SetUp, NP!SetUp, N!Ready, NP!Ready,
         N!AttemptFails, NP!AttemptFails, N!EnableURC, NP!EnableURC, N!SetAutomatic,
         NP!SetAutomatic, N!QueryStatus, NP!QueryStatus, N!WaitSeconds, NP!WaitSeconds,
         N!disconnect, NP!disconnect, N!Settle, NP!Settle, N!deinit, NP!deinit, N!HardOff,
         NP!HardOff, N!EventThread, NP!EventThread, N!Registers, NP!Registers, N!Unregisters,
         NP!Unregisters, N!StartCall, NP!StartCall, N!ContinueCall, NP!ContinueCall, N!Next,
         NP!Next, N!driverVars, NP!driverVars, N!callVars, NP!callVars, N!modemVars, NP!modemVars,
         N!boundVars, NP!boundVars, N!vars, NP!vars

(* The constants the program gives to CellularConnect are such as that module
   assumes, so its lemmas hold here. *)
LEMMA CellularAssumed == CP!ConnectAssumption
BY AppAssumption DEF CP!ConnectAssumption

LEMMA SameCellular == [C!Next]_(C!vars) <=> [CP!Next]_(CP!vars)
  BY DEF C!driverVars, CP!driverVars, C!profileVars, CP!profileVars, C!pendingVars,
         CP!pendingVars, C!callVars, CP!callVars, C!modemVars, CP!modemVars, C!boundVars,
         CP!boundVars, C!vars, CP!vars, C!Auths, CP!Auths, C!ProtocolAuth,
         CP!ProtocolAuth, C!At, CP!At, C!Answered, CP!Answered, C!Fault, CP!Fault,
         C!Goto, CP!Goto, C!Return, CP!Return, C!UnchangedCall, CP!UnchangedCall,
         C!BeginWithInit, CP!BeginWithInit, C!InitCall, CP!InitCall, C!LockedSim,
         CP!LockedSim, C!PowerUp, CP!PowerUp, C!SimAccepts, CP!SimAccepts, C!Tried,
         CP!Tried, C!SimStep, CP!SimStep, C!SimNotReady, CP!SimNotReady, C!SimReady,
         CP!SimReady, C!SimPin, CP!SimPin, C!SetUp, CP!SetUp, C!InitFails, CP!InitFails,
         C!InitDone, CP!InitDone, C!sim_pin_check_enable, CP!sim_pin_check_enable,
         C!Changed, CP!Changed, C!change_sim_pin, CP!change_sim_pin, C!SimOperationNow,
         CP!SimOperationNow, C!SimOperationDone, CP!SimOperationDone,
         C!SimOperationLater, CP!SimOperationLater, C!PendingCheck, CP!PendingCheck,
         C!PendingPin, CP!PendingPin, C!connect, CP!connect, C!connectWith,
         CP!connectWith, C!RegStep, CP!RegStep, C!AlreadyRegistered,
         CP!AlreadyRegistered, C!EnableURCs, CP!EnableURCs, C!SetAutomatic,
         CP!SetAutomatic, C!QueryStatus, CP!QueryStatus, C!WaitTest, CP!WaitTest,
         C!WaitRead, CP!WaitRead, C!WaitEnds, CP!WaitEnds, C!StackStep, CP!StackStep,
         C!CheckProfile, CP!CheckProfile, C!NextCredentials, CP!NextCredentials,
         C!MoreCredentials, CP!MoreCredentials, C!AttemptEnds, CP!AttemptEnds,
         C!StoreProfile, CP!StoreProfile, C!Activation, CP!Activation, C!Protocols,
         CP!Protocols, C!TryProtocol, CP!TryProtocol, C!ReuseExternal, CP!ReuseExternal,
         C!ActivateByCid, CP!ActivateByCid, C!set_sim_pin, CP!set_sim_pin,
         C!set_credentials, CP!set_credentials, C!set_authentication,
         CP!set_authentication, C!disconnect, CP!disconnect, C!Deactivate, CP!Deactivate,
         C!nwk_deregistration, CP!nwk_deregistration, C!SwitchedOff, CP!SwitchedOff,
         C!deinit, CP!deinit, C!HardOff, CP!HardOff, C!HandleURC, CP!HandleURC, C!Emit,
         CP!Emit, C!NetworkStep, CP!NetworkStep, C!Registers, CP!Registers,
         C!Unregisters, CP!Unregisters, C!ContextDropped, CP!ContextDropped, C!StartCall,
         CP!StartCall, C!ContinueCall, CP!ContinueCall, C!Next, CP!Next

(***************************************************************************)
(* A step of the program is one of its interface, or none of it.           *)
(***************************************************************************)

LEMMA PPPStep ==
  ASSUME interface = "PPP", [Next]_vars
  PROVE  interface' = "PPP" /\ [P!Next]_(P!vars)
<1> USE DEF appVars, mainVars, clientVars, interfaceVars, sharedVars, pVars,
            P!vars, P!callVars, P!driverVars, P!modemVars, P!boundVars
<1>1. CASE Start \/ Connect \/ Disconnect \/ Deinit
  BY <1>1 DEF Start, Connect, Disconnect, Deinit, Call, P!Next, P!StartCall
<1>2. CASE InCall
  BY <1>2 DEF InCall, Call, P!Next
<1>3. CASE InitReturned \/ ConnectReturned \/ test_register \/ batteryPercentage
           \/ test_update_register \/ test_unregister \/ Stopped
  BY <1>3 DEF InitReturned, ConnectReturned, test_register, batteryPercentage,
              test_update_register, test_unregister, Stopped
<1>4. CASE cbButton \/ Client
  BY <1>4 DEF cbButton, Client, object_registered, object_unregistered, registration_updated, error
<1>5. CASE ReadURC \/ Network \/ \E d \in Domains : Cellular(d)
  BY <1>5 DEF ReadURC, Network, Cellular, Call, P!Next
<1>6. CASE UNCHANGED vars
  BY <1>6 DEF vars
<1>7. QED
  BY <1>1, <1>2, <1>3, <1>4, <1>5, <1>6 DEF Next, Main

LEMMA N2xxStep ==
  ASSUME interface = "N2xx", [Next]_vars
  PROVE  interface' = "N2xx" /\ [N!Next]_(N!vars)
<1> USE DEF appVars, mainVars, clientVars, interfaceVars, sharedVars, nVars,
            N!vars, N!callVars, N!driverVars, N!modemVars, N!boundVars
<1>1. CASE Start \/ Connect \/ Disconnect \/ Deinit
  BY <1>1 DEF Start, Connect, Disconnect, Deinit, Call, N!Next, N!StartCall
<1>2. CASE InCall
  BY <1>2 DEF InCall, Call, N!Next
<1>3. CASE InitReturned \/ ConnectReturned \/ test_register \/ batteryPercentage
           \/ test_update_register \/ test_unregister \/ Stopped
  BY <1>3 DEF InitReturned, ConnectReturned, test_register, batteryPercentage,
              test_update_register, test_unregister, Stopped
<1>4. CASE cbButton \/ Client
  BY <1>4 DEF cbButton, Client, object_registered, object_unregistered, registration_updated, error
<1>5. CASE ReadURC \/ Network \/ \E d \in Domains : Cellular(d)
  BY <1>5 DEF ReadURC, Network, Cellular, Call, N!Next
<1>6. CASE UNCHANGED vars
  BY <1>6 DEF vars
<1>7. QED
  BY <1>1, <1>2, <1>3, <1>4, <1>5, <1>6 DEF Next, Main

LEMMA CellularStep ==
  ASSUME interface = "AT", [Next]_vars
  PROVE  interface' = "AT" /\ [C!Next]_(C!vars)
<1> USE DEF appVars, mainVars, clientVars, interfaceVars, sharedVars, cVars, C!vars, C!driverVars,
            C!profileVars, C!pendingVars, C!callVars, C!modemVars, C!boundVars
<1>1. CASE Start \/ Connect \/ Disconnect \/ Deinit
  BY <1>1 DEF Start, Connect, Disconnect, Deinit, Call, C!Next, C!StartCall
<1>2. CASE InCall
  BY <1>2 DEF InCall, Call, C!Next
<1>3. CASE InitReturned \/ ConnectReturned \/ test_register \/ batteryPercentage
           \/ test_update_register \/ test_unregister \/ Stopped
  BY <1>3 DEF InitReturned, ConnectReturned, test_register, batteryPercentage,
              test_update_register, test_unregister, Stopped
<1>4. CASE cbButton \/ Client
  BY <1>4 DEF cbButton, Client, object_registered, object_unregistered, registration_updated, error
<1>5. CASE ReadURC \/ Network \/ \E d \in Domains : Cellular(d)
  BY <1>5 DEF ReadURC, Network, Cellular, Call, C!Next
<1>6. CASE UNCHANGED vars
  BY <1>6 DEF vars
<1>7. QED
  BY <1>1, <1>2, <1>3, <1>4, <1>5, <1>6 DEF Next, Main

\* The variables of an interface that is not in use stay as they are.
LEMMA OtherUntouched ==
  ASSUME [Next]_vars
  PROVE  /\ interface' = interface
         /\ interface # "PPP" => UNCHANGED <<link, mode>>
         /\ interface = "N2xx" \/ UNCHANGED cereg
<1> USE DEF appVars, mainVars, clientVars, interfaceVars, pVars, nVars
<1>1. CASE Start \/ Connect \/ Disconnect \/ Deinit
  BY <1>1 DEF Start, Connect, Disconnect, Deinit, Call
<1>2. CASE InCall
  BY <1>2 DEF InCall, Call
<1>3. CASE InitReturned \/ ConnectReturned \/ test_register \/ batteryPercentage
           \/ test_update_register \/ test_unregister \/ Stopped
  BY <1>3 DEF InitReturned, ConnectReturned, test_register, batteryPercentage,
              test_update_register, test_unregister, Stopped
<1>4. CASE cbButton \/ Client
  BY <1>4 DEF cbButton, Client, object_registered, object_unregistered, registration_updated, error
<1>5. CASE ReadURC \/ Network \/ \E d \in Domains : Cellular(d)
  BY <1>5 DEF ReadURC, Network, Cellular, Call
<1>6. CASE UNCHANGED vars
  BY <1>6 DEF vars
<1>7. QED
  BY <1>1, <1>2, <1>3, <1>4, <1>5, <1>6 DEF Next, Main

(***************************************************************************)
(* The invariant: that of the interface in use, and for those that are not *)
(* in use the state their modem is left in.                                *)
(***************************************************************************)

\* main() disconnects before it calls deinit(): unless an exchange failed, the
\* link is down by then and stays so.
DownByDeinit ==
  /\ pc = "softOff" => at = "deinit"
  /\ at = "disconnect" => pc \in {"idle", "drain", "deregister"}
  /\ at = "deinit" => pc \in {"idle", "softOff", "hardOff"}
  /\ at \in {"disconnect", "deinit"} /\ faults = MaxFaults => ~link

AppInv ==
  /\ interface = "PPP" => PP!ModeInv /\ DownByDeinit
  /\ interface # "PPP" => ~link /\ mode = "command"
  /\ interface = "N2xx" => NP!BeliefInv
  /\ interface # "N2xx" => ~cereg

LEMMA BoundIsNat == MaxFaults \in Nat
  BY AppAssumption

LEMMA AppInit == Init => AppInv
<1> SUFFICES ASSUME Init
             PROVE  AppInv
  OBVIOUS
<1>1. PP!Init
  BY DEF Init, P!Init, PP!Init
<1>2. NP!Init
  BY DEF Init, N!Init, NP!Init
<1>3. PP!ModeInv /\ NP!BeliefInv
  BY <1>1, <1>2, BoundIsNat, PP!ModeInit, NP!BeliefInit
<1>4. ~link /\ mode = "command" /\ ~cereg /\ DownByDeinit
  BY DEF Init, P!Init, N!Init, DownByDeinit
<1>5. QED
  BY <1>3, <1>4 DEF AppInv

LEMMA DownByDeinitStep ==
  ASSUME PP!ModeInv, DownByDeinit, interface = "PPP", [Next]_vars
  PROVE  DownByDeinit'
<1> USE DEF appVars, mainVars, clientVars, interfaceVars, sharedVars, pVars, Goto, Returned,
            DownByDeinit, P!Goto, P!Return, P!Begin, P!callVars, P!driverVars, P!modemVars,
            P!boundVars
<1>0. faults \in 0..MaxFaults
  BY DEF PP!ModeInv
<1>1. CASE Start \/ Connect
  BY <1>1 DEF Start, Connect, Call, P!InitCall, P!AlreadyUp, P!connect
<1>2. CASE Disconnect
  <2>1. /\ at' = "disconnect" /\ pc = "idle" /\ pc' \in {"idle", "drain"}
        /\ \/ link' = FALSE
           \/ link' = link /\ ~link
           \/ faults > 0 /\ faults' = faults - 1
    BY <1>2 DEF Disconnect, Call, P!disconnect, P!Closed, P!NotClosed, P!Fault
  <2>2. QED
    BY <1>0, <2>1, BoundIsNat
<1>3. CASE Deinit
  BY <1>3 DEF Deinit, Call, P!deinit
<1>4. CASE InCall
  <2>1. at' = at /\ P!ContinueCall
    BY <1>4 DEF InCall, Call
  <2>2. faults' = faults \/ (faults > 0 /\ faults' = faults - 1)
    BY <2>1 DEF P!ContinueCall, P!InitModem, P!Ready, P!Register, P!SetContext, P!Dial, P!PppConnect,
       P!Escape, P!Drain, P!nwk_deregistration, P!SoftOff, P!HardOff, P!Answered, P!Unheard, P!Fault,
       P!Refused
  <2>3. faults' = MaxFaults => faults = MaxFaults
    BY <1>0, <2>2, BoundIsNat
  <2>4. CASE P!InitModem \/ P!Ready \/ P!Register \/ P!SetContext \/ P!Dial
    BY <2>1, <2>4 DEF P!InitModem, P!Ready, P!Register, P!SetContext, P!Dial, P!AttemptFails
  <2>5. CASE P!PppConnect \/ P!Escape
    BY <2>1, <2>5 DEF P!PppConnect, P!Escape, P!AttemptFails
  <2>6. CASE P!Drain \/ P!nwk_deregistration \/ P!SoftOff \/ P!HardOff
    <3>1. /\ pc \in {"drain", "deregister", "softOff", "hardOff"}
          /\ pc = "drain" => pc' = "deregister"
          /\ pc = "softOff" => pc' = "hardOff"
          /\ pc \in {"deregister", "hardOff"} => pc' = "idle"
      BY <2>6 DEF P!Drain, P!nwk_deregistration, P!SoftOff, P!HardOff
    <3>2. link' = link \/ link' = FALSE
      BY <2>6 DEF P!Drain, P!nwk_deregistration, P!SoftOff, P!HardOff
    <3>3. QED
      BY <2>1, <2>3, <3>1, <3>2
  <2>7. QED
    BY <2>1, <2>4, <2>5, <2>6 DEF P!ContinueCall
<1>5. CASE InitReturned \/ ConnectReturned \/ test_register \/ batteryPercentage
           \/ test_update_register \/ test_unregister \/ Stopped
  BY <1>5 DEF InitReturned, ConnectReturned, test_register, batteryPercentage,
              test_update_register, test_unregister, Stopped
<1>6. CASE cbButton \/ Client
  BY <1>6 DEF cbButton, Client, object_registered, object_unregistered, registration_updated, error
<1>7. CASE ReadURC \/ Network \/ \E d \in Domains : Cellular(d)
  BY <1>7 DEF ReadURC, Network, Cellular, Call, P!LinkDrops, P!DataModeEnds
<1>8. CASE UNCHANGED vars
  BY <1>8 DEF vars
<1>9. QED
  BY <1>1, <1>2, <1>3, <1>4, <1>5, <1>6, <1>7, <1>8 DEF Next, Main

LEMMA AppStep ==
  ASSUME AppInv, [Next]_vars
  PROVE  AppInv'
<1>1. interface' = interface
  BY OtherUntouched
<1>2. interface = "PPP" => PP!ModeInv' /\ DownByDeinit'
  BY BoundIsNat, PPPStep, SamePPP, PP!ModeStep, DownByDeinitStep DEF AppInv
<1>3. interface # "PPP" => (~link /\ mode = "command")'
  BY OtherUntouched DEF AppInv
<1>4. interface = "N2xx" => NP!BeliefInv'
  BY BoundIsNat, N2xxStep, SameN2xx, NP!BeliefStep DEF AppInv
<1>5. interface # "N2xx" => ~cereg'
  BY OtherUntouched DEF AppInv
<1>6. QED
  BY <1>1, <1>2, <1>3, <1>4, <1>5 DEF AppInv

LEMMA AppAlways == Spec => []AppInv
<1>1. AppInv /\ [Next]_vars => AppInv'
  BY AppStep
<1>2. QED
  BY <1>1, AppInit, PTL DEF Spec

\* Whatever the program does and the network refuses, PPP carries no AT command
\* as data until an exchange fails, that of deinit() included.
THEOREM AppKeepsCommandsOffTheLink == Spec => []CommandsInCommandMode
<1>1. AppInv => CommandsInCommandMode
  <2> SUFFICES ASSUME AppInv
               PROVE  CommandsInCommandMode
    OBVIOUS
  <2>1. CASE interface = "PPP"
    <3>1. PP!OnlyOffAsData /\ DownByDeinit /\ mode \in {"command", "data"}
      BY <2>1, PP!ModeMeans DEF AppInv, PP!ModeInv
    <3>2. QED
      BY <3>1 DEF CommandsInCommandMode, P!CommandsInCommandMode, PP!OnlyOffAsData, DownByDeinit,
                  P!Commanding, PP!Commanding
  <2>2. CASE interface # "PPP"
    BY <2>2 DEF AppInv, CommandsInCommandMode, P!CommandsInCommandMode
  <2>3. QED
    BY <2>1, <2>2
<1>2. QED
  BY <1>1, AppAlways, PTL

\* Whatever the program does and whatever fails, it never forgets a link that
\* is up.
THEOREM AppKnowsItsLink == Spec => []LinkIsKnown
<1>1. AppInv => LinkIsKnown
  <2> SUFFICES ASSUME AppInv
               PROVE  LinkIsKnown
    OBVIOUS
  <2>1. CASE interface = "PPP"
    BY <2>1, PP!ModeMeans DEF AppInv, LinkIsKnown, P!LinkIsKnown, PP!LinkIsKnown
  <2>2. CASE interface # "PPP"
    BY <2>2 DEF AppInv, LinkIsKnown, P!LinkIsKnown
  <2>3. QED
    BY <2>1, <2>2
<1>2. QED
  BY <1>1, AppAlways, PTL

\* Whatever the program does and the network drops, the NB-IoT driver's
\* registration status follows the network until an exchange fails.
THEOREM AppBelievesTheNetwork == Spec => []BeliefFollowsNetwork
<1>1. AppInv => BeliefFollowsNetwork
  <2> SUFFICES ASSUME AppInv
               PROVE  BeliefFollowsNetwork
    OBVIOUS
  <2>1. CASE interface = "N2xx"
    BY <2>1 DEF AppInv, BeliefFollowsNetwork, N!BeliefFollowsNetwork, NP!BeliefInv, NP!Faultless
  <2>2. CASE interface # "N2xx"
    BY <2>2 DEF AppInv, BeliefFollowsNetwork, N!BeliefFollowsNetwork
  <2>3. QED
    BY <2>1, <2>2
<1>2. QED
  BY <1>1, AppAlways, PTL

(***************************************************************************)
(* The whole program: the type invariants of the three interfaces, and     *)
(* what their OK means whatever fails.                                     *)
(***************************************************************************)

\* deinit() is the last call that main() makes.
LastCall == interface = "N2xx" /\ job = "deinit" => at \in {"deinit", "stopped"}

LEMMA LastCallStep ==
  ASSUME LastCall, interface = "N2xx", [Next]_vars
  PROVE  LastCall' /\ (job = "deinit" => job' = "deinit")
<1> USE DEF appVars, mainVars, clientVars, interfaceVars, sharedVars, N!callVars, Goto, LastCall
<1>1. CASE Start \/ Connect \/ Disconnect
  BY <1>1 DEF Start, Connect, Disconnect, Call, N!InitCall, N!connect, N!disconnect, N!Begin
<1>2. CASE Deinit
  BY <1>2 DEF Deinit, Call, N!deinit, N!Begin
<1>3. CASE InCall
  <2>1. job' = job
    BY <1>3 DEF InCall, Call, N!ContinueCall, N!PowerUp, N!SetUp, N!Ready, N!EnableURC,
       N!SetAutomatic, N!QueryStatus, N!WaitSeconds, N!Settle, N!HardOff, N!InitFails,
       N!AttemptFails, N!Goto, N!Return
  <2>2. QED
    BY <1>3, <2>1 DEF InCall
<1>4. CASE InitReturned \/ ConnectReturned \/ test_register \/ batteryPercentage
           \/ test_update_register \/ test_unregister \/ Stopped
  BY <1>4 DEF InitReturned, ConnectReturned, test_register, batteryPercentage,
              test_update_register, test_unregister, Stopped
<1>5. CASE cbButton \/ Client
  BY <1>5 DEF cbButton, Client, object_registered, object_unregistered, registration_updated, error
<1>6. CASE ReadURC \/ Network \/ \E d \in Domains : Cellular(d)
  BY <1>6 DEF ReadURC, Network, Cellular, Call, N!EventThread, N!Registers, N!Unregisters
<1>7. CASE UNCHANGED vars
  BY <1>7 DEF vars
<1>8. QED
  BY <1>1, <1>2, <1>3, <1>4, <1>5, <1>6, <1>7 DEF Next, Main

(***************************************************************************)
(* Every variable keeps its type.                                          *)
(***************************************************************************)

MainTypes ==
  /\ interface \in Interfaces
  /\ at \in {"start", "init", "failed", "loop", "connect", "register", "battery", "update",
             "unregistered", "disconnect", "deinit", "stopped"}
  /\ buttonPressed \in BOOLEAN /\ registered \in BOOLEAN
  /\ requests \in SUBSET {"register", "update", "unregister"}
  /\ errors \in 0..MaxErrors /\ unread \in 0..MaxUnread

LEMMA BoundsGiven ==
  /\ MaxErrors \in Nat /\ MaxUnread \in Nat /\ MaxFaults \in Nat
  /\ PP!Sizes /\ NP!Sizes
<1>1. Len(Table) \in Nat
  <2>1. Table \in Seq(Apns)
    BY AppAssumption
  <2>2. QED
    BY <2>1
<1>2. {MaxErrors, MaxUnread, MaxFaults, MaxRefusals, MaxDrops} \subseteq Nat /\ Retries \in Nat \ {0}
  BY AppAssumption
<1>3. QED
  BY <1>1, <1>2 DEF PP!Sizes, NP!Sizes

LEMMA MainTypesStep ==
  ASSUME MainTypes, [Next]_vars
  PROVE  MainTypes'
<1> USE DEF MainTypes, Goto, mainVars, clientVars, appVars
<1>1. CASE Start \/ InitReturned \/ Connect \/ ConnectReturned \/ Disconnect \/ Deinit \/ Stopped
  BY <1>1 DEF Start, InitReturned, Connect, ConnectReturned, Disconnect, Deinit, Stopped
<1>2. CASE test_register \/ test_update_register \/ test_unregister
  BY <1>2 DEF test_register, test_update_register, test_unregister
<1>3. CASE batteryPercentage
  BY <1>3, BoundsGiven DEF batteryPercentage
<1>4. CASE InCall \/ ReadURC \/ Network \/ \E d \in Domains : Cellular(d)
  BY <1>4 DEF InCall, ReadURC, Network, Cellular
<1>5. CASE cbButton
  BY <1>5 DEF cbButton
<1>6. CASE Client
  <2>1. /\ interface' = interface /\ at' = at /\ unread' = unread /\ buttonPressed' = buttonPressed
        /\ requests' \subseteq requests
        /\ errors' = errors \/ (errors > 0 /\ errors' = errors - 1)
    BY <1>6 DEF Client, object_registered, object_unregistered, registration_updated, error
  <2>2. registered' \in BOOLEAN
    BY <1>6 DEF Client, object_registered, object_unregistered, registration_updated, error
  <2>3. errors' \in 0..MaxErrors
    BY <2>1, BoundsGiven
  <2>4. QED
    BY <2>1, <2>2, <2>3
<1>7. CASE UNCHANGED vars
  BY <1>7 DEF vars
<1>8. QED
  BY <1>1, <1>2, <1>3, <1>4, <1>5, <1>6, <1>7 DEF Next, Main

\* The invariants of all three interfaces, and what the program adds to them.
WholeInv ==
  /\ AppInv /\ MainTypes /\ LastCall
  /\ interface = "AT" => CP!KnownInv /\ CP!TypeInv
  /\ interface = "N2xx" => NP!TypeInv /\ NP!Believed
  /\ interface = "PPP" => PP!TypeInv

LEMMA WholeInit == Init => WholeInv
<1> SUFFICES ASSUME Init
             PROVE  WholeInv
  OBVIOUS
<1>1. PP!Init
  BY DEF Init, P!Init, PP!Init
<1>2. NP!Init
  BY DEF Init, N!Init, NP!Init
<1>3. CP!Init
  BY DEF Init, C!Init, CP!Init
<1>4. MainTypes /\ LastCall
  <2>1. errors \in 0..MaxErrors /\ unread \in 0..MaxUnread
    BY BoundsGiven DEF Init
  <2>2. job # "deinit"
    BY DEF Init, N!Init
  <2>3. QED
    BY <2>1, <2>2 DEF Init, MainTypes, LastCall
<1>5. CP!KnownInv /\ CP!TypeInv
  BY <1>3, CellularAssumed, CP!KnownInvInit, CP!TypeInit DEF CP!KnownInvInit, CP!TypeInit
<1>6. NP!TypeInv /\ NP!Believed
  BY <1>2, BoundsGiven, NP!TypeInit, NP!BelievedInit DEF NP!BelievedInit
<1>7. PP!TypeInv
  BY <1>1, BoundsGiven, PP!TypeInit
<1>8. QED
  BY AppInit, <1>4, <1>5, <1>6, <1>7 DEF WholeInv

LEMMA WholeStep ==
  ASSUME WholeInv, [Next]_vars
  PROVE  WholeInv'
<1>1. interface' = interface
  BY OtherUntouched
<1>2. AppInv' /\ MainTypes'
  BY AppStep, MainTypesStep DEF WholeInv
<1>3. LastCall'
  BY <1>1, LastCallStep DEF WholeInv, LastCall
<1>4. CASE interface = "AT"
  <2>1. [CP!Next]_(CP!vars)
    BY <1>4, CellularStep, SameCellular
  <2>2. CP!KnownInv /\ CP!TypeInv
    BY <1>4 DEF WholeInv
  <2>3. CP!KnownInv' /\ CP!TypeInv'
    BY <2>1, <2>2, CellularAssumed, CP!KnownInvStep, CP!TypeStep DEF CP!KnownInvStep, CP!TypeStep
  <2>4. QED
    BY <1>1, <1>2, <1>3, <1>4, <2>3 DEF WholeInv
<1>5. CASE interface = "N2xx"
  <2>1. [NP!Next]_(NP!vars)
    BY <1>5, N2xxStep, SameN2xx
  <2>2. NP!BeliefInv /\ NP!TypeInv /\ NP!Believed
    BY <1>5 DEF WholeInv, AppInv
  <2>3. NP!TypeInv'
    BY <2>1, <2>2, BoundsGiven, NP!TypeStep
  <2>4. NP!Believed'
    BY <1>5, <2>1, <2>2, LastCallStep, NP!BelievedStep DEF WholeInv
  <2>5. QED
    BY <1>1, <1>2, <1>3, <1>5, <2>3, <2>4 DEF WholeInv
<1>6. CASE interface = "PPP"
  <2>1. [PP!Next]_(PP!vars)
    BY <1>6, PPPStep, SamePPP
  <2>2. PP!TypeInv'
    BY <1>6, <2>1, BoundsGiven, PP!TypeStep DEF WholeInv
  <2>3. QED
    BY <1>1, <1>2, <1>3, <1>6, <2>2 DEF WholeInv
<1>7. interface \in {"AT", "N2xx", "PPP"}
  BY AppAssumption DEF WholeInv, MainTypes
<1>8. QED
  BY <1>4, <1>5, <1>6, <1>7

LEMMA WholeAlways == Spec => []WholeInv
<1>1. WholeInv /\ [Next]_vars => WholeInv'
  BY WholeStep
<1>2. QED
  BY <1>1, WholeInit, PTL DEF Spec

\* TypeOK: through the whole program, on any of the three interfaces, every
\* variable keeps its type: main() makes only calls that the interface's module
\* allows, and its loops stay within their bounds.
THEOREM TypeCorrect == Spec => []TypeOK
<1>1. WholeInv => TypeOK
  <2> SUFFICES ASSUME WholeInv
               PROVE  TypeOK
    OBVIOUS
  <2>1. interface = "AT" => C!TypeOK
    <3>1. interface = "AT" => CP!TypeOK
      BY CellularAssumed, CP!TypeInvMeans DEF WholeInv, CP!TypeInvMeans
    <3>2. CP!TypeOK <=> C!TypeOK
      BY DEF CP!TypeOK, C!TypeOK, CP!ApnValues, C!ApnValues, CP!Auths, C!Auths, CP!Jobs, C!Jobs,
             CP!PCs, C!PCs, CP!Counts, C!Counts, CP!ProtocolAuth, C!ProtocolAuth, CP!Results,
             C!Results, CP!Sim, C!Sim, CP!URC, C!URC
    <3>3. QED
      BY <3>1, <3>2
  <2>2. interface = "N2xx" => N!TypeOK
    BY DEF WholeInv, NP!TypeInv, NP!TypeOK, N!TypeOK, NP!PCs, N!PCs, NP!Results, N!Results,
           NP!Statuses, N!Statuses
  <2>3. interface = "PPP" => P!TypeOK
    BY DEF WholeInv, PP!TypeInv, PP!TypeOK, P!TypeOK, PP!PCs, P!PCs, PP!Results, P!Results
  <2>4. MainTypes
    BY DEF WholeInv
  <2>5. QED
    BY <2>1, <2>2, <2>3, <2>4 DEF TypeOK, MainTypes
<1>2. QED
  BY <1>1, WholeAlways, PTL

LEMMA OkStep ==
  ASSUME WholeInv, [Next]_vars, job = "connect", pc # "idle", pc' = "idle", ret' = "OK"
  PROVE  /\ interface = "N2xx" => attached'
         /\ interface = "AT" => (active \/ told \/ C!LossInTransit)'
<1>1. interface' = interface
  BY OtherUntouched
<1>2. CASE interface = "AT"
  <2>1. [CP!Next]_(CP!vars)
    BY <1>2, CellularStep, SameCellular
  <2>2. job' = "connect"
    BY <2>1, CellularAssumed, CP!JobStays
  <2>3. CP!KnownInv'
    BY <1>1, <1>2, WholeStep DEF WholeInv
  <2>4. (active \/ told \/ CP!LossInTransit)'
    BY <2>2, <2>3 DEF CP!KnownInv, CP!Known
  <2>5. QED
    BY <1>2, <2>4 DEF CP!LossInTransit, C!LossInTransit
<1>3. CASE interface = "N2xx"
  <2>1. [NP!Next]_(NP!vars)
    BY <1>3, N2xxStep, SameN2xx
  <2>2. NP!BeliefInv /\ NP!Believed
    BY <1>3 DEF WholeInv, AppInv
  <2>3. attached'
    BY <2>1, <2>2, NP!BelievedOk
  <2>4. QED
    BY <1>3, <2>3
<1>4. QED
  BY <1>2, <1>3

\* OkMeansConnected: whatever exchanges have failed, the N2xx driver returns OK
\* only while the modem is registered, and the AT driver only while the profile
\* is active or its loss has been or will be reported; of PPP nothing is said.
THEOREM OkIsConnected == Spec => OkMeansConnected
<1> DEFINE Ok == job = "connect" /\ pc # "idle" /\ pc' = "idle" /\ ret' = "OK" =>
                   /\ interface = "N2xx" => attached'
                   /\ interface = "AT" => (active \/ told \/ C!LossInTransit)'
<1>1. WholeInv /\ [Next]_vars => Ok
  BY OkStep
<1>2. QED
  BY <1>1, WholeAlways, PTL DEF Spec, OkMeansConnected
================================================================================
