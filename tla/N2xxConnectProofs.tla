--------------------------- MODULE N2xxConnectProofs ---------------------------
(***************************************************************************)
(* Theorems about N2xxConnect: its calls come in any order, with any       *)
(* number of attempts, and the network registers and drops the modem at    *)
(* any moment.                                                             *)
(***************************************************************************)
EXTENDS N2xxConnect, TLAPS

Faultless == faults = MaxFaults

\* What waits on the line is the last change, what was read before it is the
\* change before; a modem reports from the first nwk_registration() on.
BeliefInv ==
  /\ faults \in 0..MaxFaults
  /\ eps \in BOOLEAN /\ attached \in BOOLEAN
  /\ pc \in PCs
  /\ urc \in Statuses \cup {"none"}
  /\ ~initialised => ~cereg
  /\ pc \in {"powerUp", "setUp"} => ~initialised
  /\ pc \in {"ready", "enable", "automatic", "query", "wait"} => initialised
  /\ pc \in {"automatic", "query", "wait"} => cereg
  /\ pc = "settle" => job = "disconnect" /\ ~attached /\ ~searching
  /\ cereg /\ urc # "none" => (urc = "registered" <=> attached)
  /\ Faultless /\ cereg /\ pc \notin {"automatic", "query"} => (eps <=> attached) \/ urc # "none"

LEMMA BeliefInit == ASSUME MaxFaults \in Nat PROVE Init => BeliefInv
<1> SUFFICES ASSUME MaxFaults \in Nat, Init
             PROVE  BeliefInv
  OBVIOUS
<1>1. pc = "idle" /\ urc = "none" /\ faults \in 0..MaxFaults
  BY DEF Init
<1>2. ~eps /\ ~attached /\ ~cereg /\ eps \in BOOLEAN /\ attached \in BOOLEAN
  BY DEF Init
<1>3. QED
  BY <1>1, <1>2 DEF BeliefInv, Faultless, PCs, Statuses

\* The status after the handlers have run is the network's, if it was before
\* or something waited.
LEMMA HandledRight ==
  ASSUME BeliefInv
  PROVE  /\ Handled \in BOOLEAN
         /\ cereg /\ urc # "none" => (Handled <=> attached)
         /\ urc = "none" => (Handled <=> eps)
  BY DEF BeliefInv, Handled, is_registered_eps, Statuses

LEMMA CallKeeps ==
  ASSUME MaxFaults \in Nat, BeliefInv, StartCall
  PROVE  BeliefInv'
<1> USE DEF BeliefInv, Faultless, PCs, Statuses, driverVars, callVars, modemVars, boundVars, Begin
<1>1. CASE InitCall
  BY <1>1 DEF InitCall
<1>2. CASE connect
  BY <1>2 DEF connect
<1>3. CASE disconnect
  <2>1. faults' \in 0..MaxFaults /\ (faults' = faults \/ faults' # MaxFaults)
    BY <1>3 DEF disconnect, Answered, Fault
  <2>2. /\ pc' \in {"idle", "settle"} /\ pc = "idle" /\ job' = "disconnect"
        /\ UNCHANGED <<initialised, cereg>>
        /\ eps' = Handled
    BY <1>3 DEF disconnect
  <2>3. \/ attached' = FALSE /\ searching' = FALSE
        \/ UNCHANGED <<attached, searching>> /\ pc' = "idle"
    BY <1>3 DEF disconnect
  <2>4. \/ urc' = "searching" /\ ~attached'
        \/ urc' = "none" /\ (cereg /\ attached => attached')
    BY <1>3 DEF disconnect
  <2>5. eps' \in BOOLEAN /\ attached' \in BOOLEAN
    BY <2>2, <2>3, HandledRight
  <2>6. urc' = "none" /\ cereg' /\ Faultless' => (eps' <=> attached')
    <3>1. SUFFICES ASSUME urc' = "none", cereg', Faultless'
                   PROVE  eps' <=> attached'
      OBVIOUS
    <3>2. Handled <=> attached
      BY <2>1, <2>2, <3>1, HandledRight
    <3>3. attached' <=> attached
      BY <2>2, <2>3, <2>4, <3>1
    <3>4. QED
      BY <2>2, <3>2, <3>3
  <2>7. QED
    BY <2>1, <2>2, <2>3, <2>4, <2>5, <2>6
<1>4. CASE deinit
  BY <1>4 DEF deinit
<1>5. QED
  BY <1>1, <1>2, <1>3, <1>4 DEF StartCall

LEMMA InitKeeps ==
  ASSUME MaxFaults \in Nat, BeliefInv, PowerUp \/ SetUp \/ Ready
  PROVE  BeliefInv'
<1> USE DEF BeliefInv, Faultless, PCs, Statuses, driverVars, callVars, modemVars, boundVars,
            Goto, Return, InitFails, Answered, Fault
<1>1. CASE PowerUp
  <2>1. pc = "powerUp" /\ pc' \in {"setUp", "idle"} /\ UNCHANGED <<initialised, eps, attached, cereg>>
    BY <1>1 DEF PowerUp
  <2>2. faults' \in 0..MaxFaults /\ urc' = "none"
    BY <1>1 DEF PowerUp
  <2>3. QED
    BY <2>1, <2>2
<1>2. CASE SetUp
  <2>1. pc = "setUp" /\ UNCHANGED <<attached, cereg>> /\ eps' = Handled /\ urc' = "none"
    BY <1>2 DEF SetUp, HandleURC
  <2>2. faults' \in 0..MaxFaults
    BY <1>2 DEF SetUp
  <2>3. (initialised' = TRUE /\ pc' = "ready") \/ pc' = "idle"
    BY <1>2 DEF SetUp
  <2>4. ~cereg' /\ eps' \in BOOLEAN /\ attached' \in BOOLEAN
    BY <2>1, HandledRight
  <2>5. QED
    BY <2>1, <2>2, <2>3, <2>4
<1>3. CASE Ready
  BY <1>3 DEF Ready
<1>4. QED
  BY <1>1, <1>2, <1>3

LEMMA RegistrationKeeps ==
  ASSUME MaxFaults \in Nat, BeliefInv, EnableURC \/ SetAutomatic \/ QueryStatus \/ WaitSeconds
  PROVE  BeliefInv'
<1> USE DEF BeliefInv, Faultless, PCs, Statuses, driverVars, callVars, modemVars, boundVars,
            Goto, Return, AttemptFails, Answered, Fault
<1>1. CASE EnableURC
  <2>1. /\ pc = "enable" /\ UNCHANGED <<attached, initialised>> /\ eps' = Handled /\ urc' = "none"
        /\ (cereg' = TRUE \/ UNCHANGED cereg)
    BY <1>1 DEF EnableURC, HandleURC
  <2>2. \/ pc' = "automatic" /\ cereg' = TRUE /\ faults' = faults
        \/ pc' \in {"enable", "idle"} /\ faults > 0 /\ faults' = faults - 1
    BY <1>1 DEF EnableURC
  <2>3. QED
    BY <2>1, <2>2, HandledRight
<1>2. CASE SetAutomatic
  <2>1. /\ pc = "automatic" /\ pc' = "query" /\ UNCHANGED <<attached, initialised, cereg>>
        /\ eps' = Handled /\ urc' = "none"
    BY <1>2 DEF SetAutomatic, HandleURC
  <2>2. faults' \in 0..MaxFaults
    <3>1. Answered \/ Fault
      BY <1>2, Zenon DEF SetAutomatic
    <3>2. QED
      BY <3>1
  <2>3. QED
    BY <2>1, <2>2, HandledRight
<1>3. CASE QueryStatus
  BY <1>3, HandledRight DEF QueryStatus
<1>4. CASE WaitSeconds
  BY <1>4, HandledRight DEF WaitSeconds, HandleURC
<1>5. QED
  BY <1>1, <1>2, <1>3, <1>4

LEMMA EndKeeps ==
  ASSUME MaxFaults \in Nat, BeliefInv, Settle \/ HardOff
  PROVE  BeliefInv'
<1> USE DEF BeliefInv, Faultless, PCs, Statuses, driverVars, callVars, modemVars, boundVars, Return
<1>1. CASE Settle
  BY <1>1 DEF Settle
<1>2. CASE HardOff
  <2>1. ~eps' /\ ~attached' /\ ~cereg' /\ eps' \in BOOLEAN /\ attached' \in BOOLEAN
    BY <1>2 DEF HardOff
  <2>2. pc' = "idle" /\ UNCHANGED <<urc, faults>>
    BY <1>2 DEF HardOff
  <2>3. QED
    BY <2>1, <2>2
<1>3. QED
  BY <1>1, <1>2

LEMMA OutsideKeeps ==
  ASSUME MaxFaults \in Nat, BeliefInv, EventThread \/ Registers \/ Unregisters
  PROVE  BeliefInv'
<1> USE DEF BeliefInv, Faultless, PCs, Statuses, driverVars, callVars, modemVars, boundVars, Report
<1>1. CASE EventThread
  BY <1>1, HandledRight DEF EventThread, HandleURC
<1>2. CASE Registers
  BY <1>2 DEF Registers
<1>3. CASE Unregisters
  BY <1>3 DEF Unregisters
<1>4. QED
  BY <1>1, <1>2, <1>3

LEMMA BeliefStep ==
  ASSUME MaxFaults \in Nat, BeliefInv, [Next]_vars
  PROVE  BeliefInv'
<1>1. CASE UNCHANGED vars
  BY <1>1 DEF vars, BeliefInv, Faultless, driverVars, callVars, modemVars, boundVars
<1>2. QED
  BY <1>1, CallKeeps, InitKeeps, RegistrationKeeps, EndKeeps, OutsideKeeps DEF Next, ContinueCall

LEMMA BeliefAlways == ASSUME MaxFaults \in Nat PROVE Spec => []BeliefInv
<1>1. BeliefInv /\ [Next]_vars => BeliefInv'
  BY BeliefStep
<1>2. QED
  BY <1>1, BeliefInit, PTL DEF Spec

\* The driver's registration status is the network's, or a URC that corrects it
\* waits to be read, whatever is called and whatever the network does.
THEOREM BeliefStaysRight == ASSUME MaxFaults \in Nat PROVE Spec => []BeliefFollowsNetwork
<1>1. BeliefInv => BeliefFollowsNetwork
  BY DEF BeliefInv, BeliefFollowsNetwork, Faultless
<1>2. QED
  BY <1>1, BeliefAlways, PTL

\* connect() ends with OK in two places: on the answer to AT+CEREG? and on a URC.
LEMMA OkStep ==
  ASSUME MaxFaults \in Nat, BeliefInv, [Next]_vars,
         faults' = MaxFaults, job = "connect", pc # "idle", pc' = "idle", ret' = "OK"
  PROVE  attached
<1> USE DEF BeliefInv, Faultless, driverVars, callVars, modemVars, boundVars
<1>1. CASE QueryStatus
  <2>1. eps'
    BY <1>1 DEF QueryStatus, Goto
  <2>2. (Answered /\ eps' = attached) \/ Fault
    BY <1>1, Zenon DEF QueryStatus
  <2>3. ~Fault
    BY DEF Fault
  <2>4. QED
    BY <2>1, <2>2, <2>3, Zenon
<1>2. CASE WaitSeconds
  BY <1>2, HandledRight DEF WaitSeconds, HandleURC, AttemptFails, Goto, Return
<1>3. CASE PowerUp \/ SetUp \/ Ready
  BY <1>3 DEF PowerUp, SetUp, Ready, InitFails, Goto, Return
<1>4. CASE EnableURC \/ SetAutomatic
  BY <1>4 DEF EnableURC, SetAutomatic, AttemptFails, Goto, Return
<1>5. CASE Settle \/ HardOff
  BY <1>5 DEF Settle, HardOff, Return
<1>6. CASE StartCall
  BY <1>6 DEF StartCall, InitCall, connect, disconnect, deinit, Begin
<1>7. CASE EventThread \/ Registers \/ Unregisters \/ UNCHANGED vars
  BY <1>7 DEF EventThread, Registers, Unregisters, vars
<1>8. QED
  BY <1>1, <1>2, <1>3, <1>4, <1>5, <1>6, <1>7 DEF Next, ContinueCall

\* connect() reports success only at a moment when the modem is registered,
\* until an exchange fails.
THEOREM OkIsRegistered == ASSUME MaxFaults \in Nat PROVE Spec => OkMeansRegistered
<1>1. BeliefInv /\ [Next]_vars =>
        [faults' = MaxFaults /\ job = "connect" /\ pc # "idle" /\ pc' = "idle" /\ ret' = "OK" =>
           attached]_vars
  BY OkStep
<1>2. QED
  BY <1>1, BeliefAlways, PTL DEF Spec, OkMeansRegistered

(***************************************************************************)
(* Every variable keeps its type.                                          *)
(***************************************************************************)

Sizes == Retries \in Nat \ {0} /\ MaxFaults \in Nat /\ MaxDrops \in Nat

Jobs == {"none", "init", "connect", "disconnect", "deinit"}

\* An attempt is under way only while there is one left.
TypeInv == TypeOK /\ (pc \in {"enable", "automatic", "query", "wait"} => tries < Retries)

\* TypeOK without the bounds, which count down.
Kept ==
  /\ initialised \in BOOLEAN /\ eps \in BOOLEAN /\ power \in BOOLEAN
  /\ searching \in BOOLEAN /\ attached \in BOOLEAN /\ cereg \in BOOLEAN
  /\ job \in Jobs /\ pc \in PCs /\ ret \in Results
  /\ urc \in Statuses \cup {"none"}

Counted ==
  /\ tries \in 0..Retries
  /\ pc \in {"enable", "automatic", "query", "wait"} => tries < Retries
  /\ faults \in 0..MaxFaults /\ drops \in 0..MaxDrops

LEMMA TypeParts == TypeInv <=> Kept /\ Counted
BY DEF TypeInv, TypeOK, Kept, Counted, Jobs

LEMMA TypeInit == ASSUME Sizes PROVE Init => TypeInv
<1> SUFFICES ASSUME Init
             PROVE  TypeInv
  OBVIOUS
<1>1. Kept
  BY DEF Init, Kept, Jobs, PCs, Results, Statuses
<1>2. Counted
  BY DEF Init, Sizes, Counted
<1>3. QED
  BY <1>1, <1>2, TypeParts

LEMMA HandledIsBoolean == ASSUME Kept PROVE Handled \in BOOLEAN
BY DEF Kept, Handled, is_registered_eps

LEMMA KeptByCalls ==
  ASSUME Kept, StartCall
  PROVE  Kept'
<1> USE DEF driverVars, callVars, modemVars, boundVars, Kept
<1>1. CASE InitCall \/ connect \/ deinit
  BY <1>1 DEF InitCall, connect, deinit, Begin, Jobs, PCs, Results
<1>2. CASE disconnect
  <2>1. /\ initialised' = initialised /\ power' = power /\ cereg' = cereg
        /\ job' = "disconnect" /\ pc' \in {pc, "settle"} /\ ret' \in {"DEVICE_ERROR", "none"}
        /\ urc' \in {"searching", "none"}
    BY <1>2 DEF disconnect
  <2>2. /\ eps' = Handled
        /\ (searching' = FALSE /\ attached' = FALSE) \/ (searching' = searching /\ attached' = attached)
    BY <1>2, Zenon DEF disconnect
  <2>3. eps' \in BOOLEAN
    BY <2>2, HandledIsBoolean
  <2>4. searching' \in BOOLEAN /\ attached' \in BOOLEAN
    BY <2>2
  <2>5. QED
    BY <2>1, <2>3, <2>4 DEF Jobs, PCs, Results, Statuses
<1>3. QED
  BY <1>1, <1>2 DEF StartCall

LEMMA KeptByContinue ==
  ASSUME Kept, ContinueCall
  PROVE  Kept'
<1> USE DEF driverVars, callVars, modemVars, boundVars
<1>1. job' = job /\ pc' \in PCs /\ ret' \in Results
  BY DEF Kept, ContinueCall, PowerUp, SetUp, Ready, EnableURC, SetAutomatic, QueryStatus, WaitSeconds,
         Settle, HardOff, InitFails, AttemptFails, Goto, Return, PCs, Results
<1>2. urc' = urc \/ urc' = "none"
  BY DEF ContinueCall, PowerUp, SetUp, Ready, EnableURC, SetAutomatic, QueryStatus, WaitSeconds,
         Settle, HardOff, HandleURC
<1>3. eps' \in BOOLEAN /\ initialised' \in BOOLEAN
  BY HandledIsBoolean, Zenon
     DEF Kept, ContinueCall, PowerUp, SetUp, Ready, EnableURC, SetAutomatic, QueryStatus, WaitSeconds,
         Settle, HardOff, HandleURC
<1>4. power' \in BOOLEAN /\ searching' \in BOOLEAN /\ attached' \in BOOLEAN /\ cereg' \in BOOLEAN
  BY Zenon
     DEF Kept, ContinueCall, PowerUp, SetUp, Ready, EnableURC, SetAutomatic, QueryStatus, WaitSeconds,
         Settle, HardOff
<1>5. QED
  BY <1>1, <1>2, <1>3, <1>4 DEF Kept, Statuses

LEMMA KeptByNetwork ==
  ASSUME Kept, EventThread \/ Registers \/ Unregisters \/ UNCHANGED vars
  PROVE  Kept'
<1> USE DEF driverVars, callVars, modemVars, boundVars, Kept
<1>1. CASE EventThread
  BY <1>1, HandledIsBoolean DEF EventThread, HandleURC
<1>2. CASE Registers \/ Unregisters
  BY <1>2 DEF Registers, Unregisters, Report, Statuses
<1>3. CASE UNCHANGED vars
  BY <1>3 DEF vars
<1>4. QED
  BY <1>1, <1>2, <1>3

\* What a step does to the counters.
LEMMA CountsStep ==
  ASSUME [Next]_vars
  PROVE  /\ faults' = faults \/ Fault
         /\ drops' = drops \/ (drops > 0 /\ drops' = drops - 1)
         /\ \/ tries' = tries /\ (pc' \in {"enable", "automatic", "query", "wait"} =>
                                    pc \in {"enable", "automatic", "query", "wait"})
            \/ tries' = 0
            \/ pc \in {"enable", "wait"} /\ AttemptFails
<1> USE DEF driverVars, callVars, modemVars, boundVars
<1>1. CASE StartCall
  BY <1>1 DEF StartCall, InitCall, connect, disconnect, deinit, Begin, Answered, Fault
<1>2. CASE PowerUp \/ SetUp \/ Ready \/ Settle \/ HardOff
  BY <1>2 DEF PowerUp, SetUp, Ready, Settle, HardOff, InitFails, Answered, Fault, Goto, Return
<1>3. CASE SetAutomatic \/ QueryStatus
  BY <1>3 DEF SetAutomatic, QueryStatus, Answered, Fault, Goto, Return
<1>4. CASE EnableURC \/ WaitSeconds
  BY <1>4 DEF EnableURC, WaitSeconds, Answered, Fault, Goto, Return
<1>5. CASE EventThread \/ Registers \/ Unregisters \/ UNCHANGED vars
  BY <1>5 DEF EventThread, Registers, Unregisters, vars
<1>6. QED
  BY <1>1, <1>2, <1>3, <1>4, <1>5 DEF Next, ContinueCall

LEMMA TypeStep ==
  ASSUME Sizes, TypeInv, [Next]_vars
  PROVE  TypeInv'
<1>1. Kept /\ Counted
  BY TypeParts
<1>2. Kept'
  BY <1>1, KeptByCalls, KeptByContinue, KeptByNetwork DEF Next
<1>3. faults' \in 0..MaxFaults /\ drops' \in 0..MaxDrops
  BY <1>1, CountsStep DEF Counted, Fault, Sizes
<1>4. tries' \in 0..Retries /\ (pc' \in {"enable", "automatic", "query", "wait"} => tries' < Retries)
  <2>1. CASE tries' = tries /\ (pc' \in {"enable", "automatic", "query", "wait"} =>
                                  pc \in {"enable", "automatic", "query", "wait"})
    BY <1>1, <2>1 DEF Counted
  <2>2. CASE tries' = 0
    BY <2>2 DEF Sizes
  <2>3. CASE pc \in {"enable", "wait"} /\ AttemptFails
    BY <1>1, <2>3 DEF Counted, AttemptFails, Goto, Return, Sizes
  <2>4. QED
    BY <2>1, <2>2, <2>3, CountsStep
<1>5. Counted'
  BY <1>3, <1>4 DEF Counted
<1>6. TypeInv' <=> Kept' /\ Counted'
  BY DEF TypeInv, TypeOK, Kept, Counted, Jobs
<1>7. QED
  BY <1>2, <1>5, <1>6

\* TypeOK: for any number of attempts, failures and drops the variables keep
\* their types, and a connect() makes no more attempts than Retries.
THEOREM TypeCorrect == ASSUME Sizes PROVE Spec => []TypeOK
<1>1. TypeInv /\ [Next]_vars => TypeInv'
  BY TypeStep
<1>2. TypeInv => TypeOK
  BY DEF TypeInv
<1>3. QED
  BY <1>1, <1>2, TypeInit, PTL DEF Spec

(***************************************************************************)
(* Whatever fails, until the modem is switched off: the driver takes it    *)
(* for registered only while it is.  Its status may lag behind the other   *)
(* way, and a report that outlives the modem is read after deinit().       *)
(***************************************************************************)

Believed ==
  /\ pc = "hardOff" => job = "deinit"
  /\ job # "deinit" => (Handled => attached /\ cereg) /\ (urc # "none" => cereg)

LEMMA BelievedInit == Init => Believed
BY DEF Init, Believed, Handled, is_registered_eps

\* What is read is the last report; what is reported is a loss or a registration.
LEMMA ReadOrReport ==
  /\ HandleURC => (Handled' <=> Handled)
  /\ Report("searching") /\ cereg => ~Handled'
BY DEF HandleURC, Handled, Report, is_registered_eps

LEMMA BelievedStep ==
  ASSUME BeliefInv, Believed, [Next]_vars, job = "deinit" => job' = "deinit"
  PROVE  Believed'
<1> USE DEF driverVars, callVars, modemVars, boundVars
<1>1. CASE InitCall \/ connect \/ deinit
  BY <1>1 DEF InitCall, connect, deinit, Begin, Believed, Handled
<1>2. CASE disconnect
  <2>1. pc' # "hardOff" /\ job' = "disconnect" /\ job # "deinit" /\ cereg' = cereg
    BY <1>2 DEF disconnect, Believed
  <2>2. /\ eps' = Handled /\ (attached' = FALSE \/ attached' = attached)
        /\ urc' = IF cereg /\ attached /\ ~attached' THEN "searching" ELSE "none"
    BY <1>2, Zenon DEF disconnect
  <2>3. Handled' => Handled /\ attached' = attached
    BY <2>1, <2>2 DEF Handled, is_registered_eps, Believed
  <2>4. QED
    BY <2>1, <2>2, <2>3 DEF Believed
<1>3. CASE PowerUp
  <2>1. /\ urc' = "none" /\ eps' = eps /\ attached' = attached /\ cereg' = cereg
        /\ job' = job /\ pc' # "hardOff" /\ ~cereg
    BY <1>3 DEF PowerUp, BeliefInv, Goto, Return, InitFails
  <2>2. job # "deinit" => urc = "none"
    BY <2>1 DEF Believed
  <2>3. job # "deinit" => (Handled' => Handled)
    BY <2>1, <2>2 DEF Handled, is_registered_eps
  <2>4. QED
    BY <2>1, <2>3 DEF Believed
<1>4. CASE SetUp
  <2>1. /\ HandleURC /\ urc' = "none" /\ attached' = attached /\ cereg' = cereg
        /\ job' = job /\ pc' # "hardOff"
    BY <1>4 DEF SetUp, Goto, Return, InitFails, HandleURC
  <2>2. QED
    BY <2>1, ReadOrReport DEF Believed
<1>5. CASE Ready
  BY <1>5 DEF Ready, Believed, Handled, Goto, Return
<1>6. CASE EnableURC \/ SetAutomatic \/ WaitSeconds
  <2>1. /\ HandleURC /\ urc' = "none" /\ attached' = attached /\ job' = job /\ pc' # "hardOff"
    BY <1>6 DEF EnableURC, SetAutomatic, WaitSeconds, AttemptFails, Goto, Return, HandleURC
  <2>2. cereg' = cereg \/ cereg' = TRUE
    BY <1>6, Zenon DEF EnableURC, SetAutomatic, WaitSeconds
  <2>3. QED
    BY <2>1, <2>2, ReadOrReport DEF Believed
<1>7. CASE QueryStatus
  <2>1. /\ urc' = "none" /\ attached' = attached /\ cereg' = cereg /\ cereg
        /\ job' = job /\ pc' # "hardOff"
    BY <1>7 DEF QueryStatus, BeliefInv, Goto, Return
  <2>2. eps' = attached \/ eps' = Handled
    BY <1>7, Zenon DEF QueryStatus
  <2>3. Handled' => eps'
    BY <2>1 DEF Handled, is_registered_eps
  <2>4. job # "deinit" => (eps' => attached)
    BY <2>2 DEF Believed
  <2>5. QED
    BY <2>1, <2>3, <2>4 DEF Believed
<1>8. CASE Settle \/ HardOff
  BY <1>8 DEF Settle, HardOff, Believed, Handled, is_registered_eps, Return, BeliefInv
<1>9. CASE EventThread
  BY <1>9, ReadOrReport DEF EventThread, Believed
<1>10. CASE Registers
  BY <1>10 DEF Registers, Believed, Handled, Report, is_registered_eps, BeliefInv
<1>11. CASE Unregisters
  BY <1>11 DEF Unregisters, Believed, Handled, Report, is_registered_eps, BeliefInv
<1>12. CASE UNCHANGED vars
  BY <1>12 DEF vars, Believed, Handled
<1>13. QED
  BY <1>1, <1>2, <1>3, <1>4, <1>5, <1>6, <1>7, <1>8, <1>9, <1>10, <1>11, <1>12
     DEF Next, StartCall, ContinueCall

\* An OK of connect() is said of a modem that is registered.
LEMMA BelievedOk ==
  ASSUME BeliefInv, Believed, [Next]_vars,
         job = "connect", pc # "idle", pc' = "idle", ret' = "OK"
  PROVE  attached'
<1> USE DEF driverVars, callVars, modemVars, boundVars
<1>1. CASE QueryStatus
  <2>1. eps' /\ attached' = attached
    BY <1>1 DEF QueryStatus, Goto
  <2>2. eps' = attached \/ eps' = Handled
    BY <1>1, Zenon DEF QueryStatus
  <2>3. QED
    BY <2>1, <2>2 DEF Believed
<1>2. CASE WaitSeconds
  BY <1>2 DEF WaitSeconds, HandleURC, AttemptFails, Goto, Return, Believed
<1>3. CASE PowerUp \/ SetUp \/ Ready
  BY <1>3 DEF PowerUp, SetUp, Ready, InitFails, Goto, Return
<1>4. CASE EnableURC \/ SetAutomatic
  BY <1>4 DEF EnableURC, SetAutomatic, AttemptFails, Goto, Return
<1>5. CASE Settle \/ HardOff
  BY <1>5 DEF Settle, HardOff, Return, BeliefInv
<1>6. CASE StartCall
  BY <1>6 DEF StartCall, InitCall, connect, disconnect, deinit, Begin
<1>7. CASE EventThread \/ Registers \/ Unregisters \/ UNCHANGED vars
  BY <1>7 DEF EventThread, Registers, Unregisters, vars
<1>8. QED
  BY <1>1, <1>2, <1>3, <1>4, <1>5, <1>6, <1>7 DEF Next, ContinueCall
================================================================================
