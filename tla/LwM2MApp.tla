------------------------------- MODULE LwM2MApp --------------------------------
(***************************************************************************)
(* The program: main() of main.cpp with MbedClient of simpleclient.h, on   *)
(* the interface it was built for, the AT interface of a cellular modem    *)
(* (CellularConnect), that of the NB-IoT modem (N2xxConnect) or the PPP    *)
(* interface (PPPInterface).                                               *)
(*                                                                         *)
(* The calls of main() take the steps of the interface's module; the       *)
(* button, the network and the callbacks of mbed-client, which runs its    *)
(* own thread, come between any two of them.  mbed-client is external: it  *)
(* answers a request when the connection works, or reports an error.       *)
(***************************************************************************)
EXTENDS Integers, Sequences

CONSTANTS
  Interfaces,   \* classes the program is built for: INTERFACE_CLASS
  Pin, NoPin,   \* PIN, which main() gives to init(), and a NULL
  Unset, Domains, Apns, Table, WithLogin, Accepts, IsL2,
  SimTries, Retries, WaitTurns, MaxLeft, MaxLine,
  MaxFaults, MaxRefusals, MaxDrops,
  MaxErrors,    \* bound: requests the server refuses
  MaxUnread     \* bound: battery readings that fail

ASSUME AppAssumption ==
  /\ Interfaces \subseteq {"AT", "N2xx", "PPP"}
  /\ NoPin # Pin /\ Unset \notin {Pin, NoPin} \cup BOOLEAN
  /\ Table \in Seq(Apns) /\ "NULL" \notin Apns /\ "" \notin Apns
  /\ "context" \notin Domains
  /\ IsL2 \in BOOLEAN
  /\ {SimTries, Retries, WaitTurns, MaxLeft} \subseteq Nat \ {0}
  /\ {MaxLine, MaxFaults, MaxRefusals, MaxDrops, MaxErrors, MaxUnread} \subseteq Nat

VARIABLES
  interface,    \* the class in use
  at,           \* where main() is
  buttonPressed,
  requests,     \* what mbed-client was asked and has not answered
  registered,   \* _registered
  errors, unread,
  \* of all interfaces
  initialised, job, pc, ret, power, faults, drops,
  \* of CellularConnect
  pin, check, reg, apn, login, auth, pendingCheck, pendingPin,
  arg, count, registrations, ok, told, sim, automatic, net, urcs, active, line,
  \* of N2xxConnect
  eps, tries, searching, cereg, urc,
  \* of PPPInterface
  up, apnSet, mode, link, refusals,
  \* of two of them
  config, attached

\* main() sets neither the PIN nor the access point before it connects.
C == INSTANCE CellularConnect WITH
       Pins <- {Pin}, SimPins <- {Pin}, GivenPins <- {Pin}, SetPins <- {NoPin}, NewPins <- {},
       AppApns <- {}, AppAuths <- {}, RegTries <- Retries,
       Calls <- {"init", "connect", "disconnect", "deinit"}
N == INSTANCE N2xxConnect
P == INSTANCE PPPInterface WITH TableLen <- Len(Table)

mainVars == <<at, unread>>
clientVars == <<requests, registered, errors>>
appVars == <<interface, mainVars, buttonPressed, clientVars>>
sharedVars == <<initialised, job, pc, ret, power, faults, drops>>
cVars == <<pin, check, reg, apn, login, auth, pendingCheck, pendingPin, arg, count,
           registrations, ok, told, sim, automatic, net, urcs, active, line>>
nVars == <<eps, tries, searching, cereg, urc>>
pVars == <<up, apnSet, mode, link, refusals>>
interfaceVars == <<sharedVars, cVars, nVars, pVars, config, attached>>
vars == <<appVars, interfaceVars>>

Goto(l) == at' = l /\ UNCHANGED unread

\* A step of the interface's class.
Call(cStep, nStep, pStep) ==
  \/ interface = "AT" /\ cStep /\ UNCHANGED <<nVars, pVars, attached>>
  \/ interface = "N2xx" /\ nStep /\ UNCHANGED <<cVars, pVars, config>>
  \/ interface = "PPP" /\ pStep /\ UNCHANGED <<cVars, nVars>>

Returned == pc = "idle"

(***************************************************************************)
(* main()                                                                  *)
(***************************************************************************)

Start ==
  /\ at = "start"
  /\ Call(C!InitCall /\ arg' = Pin, N!InitCall, P!InitCall)
  /\ Goto("init")
  /\ UNCHANGED <<interface, buttonPressed, clientVars>>

\* set_credentials(), which stores the NULLs that the constructor has, and the
\* objects, or the end.
InitReturned ==
  /\ at = "init" /\ Returned
  /\ \/ ret = "true" /\ Goto("loop")
     \/ ret # "true" /\ Goto("failed")
  /\ UNCHANGED <<interface, buttonPressed, clientVars, interfaceVars>>

Connect ==
  /\ at = "loop" /\ ~buttonPressed
  /\ Call(C!connect, N!connect, P!AlreadyUp \/ P!connect)
  /\ Goto("connect")
  /\ UNCHANGED <<interface, buttonPressed, clientVars>>

\* Thread::wait(30000) ends this turn of the loop.
ConnectReturned ==
  /\ at = "connect" /\ Returned
  /\ \/ ret = "OK" /\ registered /\ Goto("battery")
     \/ ret = "OK" /\ ~registered /\ Goto("register")
     \/ ret # "OK" /\ Goto("loop")
  /\ UNCHANGED <<interface, buttonPressed, clientVars, interfaceVars>>

test_register ==
  /\ at = "register"
  /\ requests' = requests \cup {"register"}
  /\ Goto("loop")
  /\ UNCHANGED <<interface, buttonPressed, registered, errors, interfaceVars>>

\* It repeats a reading that fails, without bound.
batteryPercentage ==
  /\ at = "battery"
  /\ \/ Goto("update")
     \/ unread > 0 /\ unread' = unread - 1 /\ UNCHANGED at
  /\ UNCHANGED <<interface, buttonPressed, clientVars, interfaceVars>>

test_update_register ==
  /\ at = "update"
  /\ requests' = IF registered THEN requests \cup {"update"} ELSE requests
  /\ Goto("loop")
  /\ UNCHANGED <<interface, buttonPressed, registered, errors, interfaceVars>>

test_unregister ==
  /\ at = "loop" /\ buttonPressed
  /\ requests' = requests \cup {"unregister"}
  /\ Goto("unregistered")
  /\ UNCHANGED <<interface, buttonPressed, registered, errors, interfaceVars>>

\* The answer to the request is not waited for.
Disconnect ==
  /\ at = "unregistered"
  /\ Call(C!disconnect, N!disconnect, P!disconnect)
  /\ Goto("disconnect")
  /\ UNCHANGED <<interface, buttonPressed, clientVars>>

\* Mutant: what failed to disconnect is not switched off.
DeinitIfDisconnected ==
  /\ at = "disconnect" /\ Returned
  /\ \/ ret = "OK" /\ Call(C!deinit, N!deinit, P!deinit) /\ Goto("deinit")
     \/ ret # "OK" /\ Goto("stopped") /\ UNCHANGED interfaceVars
  /\ UNCHANGED <<interface, buttonPressed, clientVars>>

Deinit ==
  /\ at = "disconnect" /\ Returned
  /\ Call(C!deinit, N!deinit, P!deinit)
  /\ Goto("deinit")
  /\ UNCHANGED <<interface, buttonPressed, clientVars>>

Stopped ==
  /\ at = "deinit" /\ Returned
  /\ Goto("stopped")
  /\ UNCHANGED <<interface, buttonPressed, clientVars, interfaceVars>>

InCall ==
  /\ Call(C!ContinueCall, N!ContinueCall, P!ContinueCall)
  /\ UNCHANGED appVars

cbButton ==
  /\ ~buttonPressed
  /\ buttonPressed' = TRUE
  /\ UNCHANGED <<interface, mainVars, clientVars, interfaceVars>>

(***************************************************************************)
(* The callbacks of mbed-client.                                           *)
(***************************************************************************)

Connected ==
  \/ interface = "AT" /\ active
  \/ interface = "N2xx" /\ attached
  \/ interface = "PPP" /\ link

object_registered ==
  /\ Connected /\ "register" \in requests
  /\ requests' = requests \ {"register"} /\ registered' = TRUE
  /\ UNCHANGED <<interface, mainVars, buttonPressed, errors, interfaceVars>>

object_unregistered ==
  /\ Connected /\ "unregister" \in requests
  /\ requests' = requests \ {"unregister"} /\ registered' = FALSE
  /\ UNCHANGED <<interface, mainVars, buttonPressed, errors, interfaceVars>>

registration_updated ==
  /\ Connected /\ "update" \in requests
  /\ requests' = requests \ {"update"}
  /\ UNCHANGED <<interface, mainVars, buttonPressed, registered, errors, interfaceVars>>

\* A request that is refused or gets no answer; the registration stays as it was.
error ==
  \E request \in requests :
    /\ \/ ~Connected /\ UNCHANGED errors
       \/ errors > 0 /\ errors' = errors - 1
    /\ requests' = requests \ {request}
    /\ UNCHANGED <<interface, mainVars, buttonPressed, registered, interfaceVars>>

(***************************************************************************)
(* The modem and the network.                                              *)
(***************************************************************************)

Cellular(d) == Call(C!Registers(d) \/ C!Unregisters(d), FALSE, FALSE) /\ UNCHANGED appVars

ReadURC == Call(C!HandleURC, N!EventThread, FALSE) /\ UNCHANGED appVars

Network ==
  /\ Call(C!ContextDropped, N!Registers \/ N!Unregisters, P!LinkDrops \/ P!DataModeEnds)
  /\ UNCHANGED appVars

Init ==
  /\ interface \in Interfaces
  /\ at = "start" /\ buttonPressed = FALSE
  /\ requests = {} /\ registered = FALSE
  /\ errors = MaxErrors /\ unread = MaxUnread
  /\ C!Init /\ (interface # "AT" => ~sim.check)
  /\ N!Init
  /\ P!Init /\ ~apnSet

Main ==
  \/ Start \/ InitReturned \/ Connect \/ ConnectReturned
  \/ test_register \/ batteryPercentage \/ test_update_register
  \/ test_unregister \/ Disconnect \/ Deinit \/ Stopped
  \/ InCall

Client == object_registered \/ object_unregistered \/ registration_updated \/ error

Next ==
  \/ Main \/ cbButton \/ Client
  \/ ReadURC \/ Network
  \/ \E d \in Domains : Cellular(d)

Spec == Init /\ [][Next]_vars

Found(d) == Call(C!Registers(d), N!Registers, FALSE) /\ UNCHANGED appVars

\* main() runs, the client answers, URCs are read, and a modem that looks for a
\* network finds one.
Fairness ==
  /\ WF_vars(Main)
  /\ WF_vars(object_registered)
  /\ WF_vars(ReadURC)
  /\ \A d \in Domains : WF_vars(Found(d))

FairSpec == Spec /\ Fairness

(***************************************************************************)
(* Properties.                                                             *)
(***************************************************************************)

\* Every variable keeps its type.
TypeOK ==
  /\ interface \in Interfaces
  /\ at \in {"start", "init", "failed", "loop", "connect", "register", "battery", "update",
             "unregistered", "disconnect", "deinit", "stopped"}
  /\ {buttonPressed, registered} \subseteq BOOLEAN
  /\ requests \in SUBSET {"register", "update", "unregister"}
  /\ errors \in 0..MaxErrors /\ unread \in 0..MaxUnread
  /\ interface = "AT" => C!TypeOK
  /\ interface = "N2xx" => N!TypeOK
  /\ interface = "PPP" => P!TypeOK

\* Through the whole life of the program, until an exchange fails, PPP carries
\* no AT command as data: not that of deinit() either, since main() disconnects
\* first.
CommandsInCommandMode == P!CommandsInCommandMode

\* No live PPP link is forgotten.
LinkIsKnown == P!LinkIsKnown

\* The registration status of the N2xx driver follows the network.
BeliefFollowsNetwork == N!BeliefFollowsNetwork

\* Whatever exchanges have failed, an OK of connect(), on which main() registers
\* with its server, comes from the N2xx driver only while the modem is registered,
\* and from the AT driver only while the profile is active or its loss has been
\* or will be reported.  Nothing is said of PPP: its OK may come without a link
\* (OkMeansLink in PPPInterface).
OkMeansConnected ==
  [][(job = "connect" /\ pc # "idle" /\ pc' = "idle" /\ ret' = "OK") =>
       /\ interface = "N2xx" => attached'
       /\ interface = "AT" => (active \/ told \/ C!LossInTransit)']_vars

\* Once the button is pressed the program stops with the modem off, whatever
\* call it is in and whatever fails on the way, unless init() has failed.
StopsWhenPressed == buttonPressed ~> (at = "failed" \/ (at = "stopped" /\ ~power /\ ~initialised))

Over == buttonPressed \/ at = "failed"

\* main.cpp:304: the registration is updated in a loop until the button is
\* pressed.
UpdatesGoOn == []<>(at = "update" \/ Over)

\* The same of the AT interfaces, whose connect() may be repeated: the updates go
\* on, unless a failed exchange leaves the cellular driver for good with
\* credentials of its table that the network refuses.
ATUpdatesGoOn ==
  \/ []<>(interface # "PPP" => at = "update" \/ Over)
  \/ <>[](interface = "AT" /\ C!CredentialsRefused)
================================================================================
