-------------------------- MODULE PPPInterfaceProofs ---------------------------
(***************************************************************************)
(* Theorems about PPPInterface: its calls come in any order, any number of *)
(* times, and the network refuses and drops what it likes.                 *)
(***************************************************************************)
EXTENDS PPPInterface, TLAPS

Faultless == faults = MaxFaults

\* The pcs of connect() after init(), and those at which the modem is set up.
Connecting == {"register", "context", "dial", "ppp", "escape"}
SetUp == {"ready"} \cup Connecting

\* Why no command is sent as data: data mode has a link or a dial in progress,
\* a link is known, and connect() goes on only without one.
ModeInv ==
  /\ faults \in 0..MaxFaults
  /\ pc \in PCs
  /\ mode \in {"command", "data"}
  /\ link => up /\ initialised
  /\ pc \in SetUp => initialised
  /\ pc = "powerUp" => ~initialised
  /\ pc \in Connecting \/ (pc \in {"powerUp", "ready"} /\ job = "connect") => ~up
  /\ pc \in {"drain", "deregister"} => ~link
  /\ Faultless /\ mode = "data" => link \/ pc \in {"ppp", "escape"}

LEMMA ModeInit == ASSUME MaxFaults \in Nat PROVE Init => ModeInv
  BY DEF Init, ModeInv, Faultless, PCs, SetUp, Connecting

LEMMA StartKeeps ==
  ASSUME MaxFaults \in Nat, ModeInv, StartCall
  PROVE  ModeInv'
<1> USE DEF ModeInv, Faultless, PCs, SetUp, Connecting, callVars, driverVars, modemVars, boundVars,
            Begin
<1>1. CASE \E apn \in BOOLEAN : set_credentials(apn)
  BY <1>1 DEF set_credentials
<1>2. CASE InitCall
  BY <1>2 DEF InitCall
<1>3. CASE AlreadyUp
  BY <1>3 DEF AlreadyUp
<1>4. CASE connect
  BY <1>4 DEF connect
<1>5. CASE disconnect
  BY <1>5 DEF disconnect, Closed, NotClosed, Fault
<1>6. CASE deinit
  BY <1>6 DEF deinit
<1>7. QED
  BY <1>1, <1>2, <1>3, <1>4, <1>5, <1>6 DEF StartCall

LEMMA ContinueKeeps ==
  ASSUME MaxFaults \in Nat, ModeInv, ContinueCall
  PROVE  ModeInv'
<1> USE DEF ModeInv, Faultless, PCs, SetUp, Connecting, callVars, driverVars, modemVars, boundVars,
            Goto, Return, Answered, Unheard, Fault, Refused
<1>1. CASE InitModem
  BY <1>1 DEF InitModem
<1>2. CASE Ready
  BY <1>2 DEF Ready
<1>3. CASE Register
  BY <1>3 DEF Register
<1>4. CASE SetContext
  BY <1>4 DEF SetContext
<1>5. CASE Dial
  BY <1>5 DEF Dial, AttemptFails
<1>6. CASE PppConnect
  BY <1>6 DEF PppConnect
<1>7. CASE Escape
  BY <1>7 DEF Escape, AttemptFails
<1>8. CASE Drain
  BY <1>8 DEF Drain
<1>9. CASE nwk_deregistration
  <2>1. /\ pc = "deregister" /\ pc' = "idle" /\ UNCHANGED <<job, initialised, up, mode, link>>
        /\ UNCHANGED faults \/ (faults > 0 /\ faults' = faults - 1)
    BY <1>9 DEF nwk_deregistration
  <2>2. QED
    BY <2>1
<1>10. CASE SoftOff \/ HardOff
  BY <1>10 DEF SoftOff, HardOff
<1>11. QED
  BY <1>1, <1>2, <1>3, <1>4, <1>5, <1>6, <1>7, <1>8, <1>9, <1>10 DEF ContinueCall

LEMMA NetworkKeeps ==
  ASSUME MaxFaults \in Nat, ModeInv, LinkDrops \/ DataModeEnds
  PROVE  ModeInv'
  BY DEF LinkDrops, DataModeEnds, ModeInv, Faultless, PCs, SetUp, Connecting, callVars, driverVars,
         boundVars

LEMMA ModeStep ==
  ASSUME MaxFaults \in Nat, ModeInv, [Next]_vars
  PROVE  ModeInv'
<1>1. CASE UNCHANGED vars
  BY <1>1 DEF vars, ModeInv, Faultless, callVars, driverVars, modemVars, boundVars
<1>2. QED
  BY <1>1, StartKeeps, ContinueKeeps, NetworkKeeps DEF Next

LEMMA ModeMeans ==
  ASSUME ModeInv
  PROVE  OnlyOffAsData /\ LinkIsKnown
  BY DEF ModeInv, OnlyOffAsData, LinkIsKnown, Commanding, Faultless, Connecting, SetUp

LEMMA ModeAlways == ASSUME MaxFaults \in Nat PROVE Spec => []ModeInv
<1>1. ModeInv /\ [Next]_vars => ModeInv'
  BY ModeStep
<1>2. QED
  BY <1>1, ModeInit, PTL DEF Spec

\* OnlyOffAsData: whatever is called, refused and dropped, until an exchange
\* fails the one AT command that can be sent on a line that carries data is the
\* AT+CPWROFF of a deinit() called with the link up.
THEOREM CommandsStayOffTheLink == ASSUME MaxFaults \in Nat PROVE Spec => []OnlyOffAsData
  BY ModeAlways, ModeMeans, PTL

\* Whatever fails, the driver never forgets a link that is up.
THEOREM LinkStaysKnown == ASSUME MaxFaults \in Nat PROVE Spec => []LinkIsKnown
  BY ModeAlways, ModeMeans, PTL

(***************************************************************************)
(* Every variable keeps its type.                                          *)
(***************************************************************************)

Sizes == {TableLen, MaxRefusals, MaxFaults, MaxDrops} \subseteq Nat

Jobs == {"none", "init", "connect", "disconnect", "deinit"}

\* The loop over the access points turns only on one of the table.
TypeInv == TypeOK /\ (pc = "context" => config <= TableLen)

LEMMA TypeInit == ASSUME Sizes PROVE Init => TypeInv
<1> SUFFICES ASSUME Init
             PROVE  TypeInv
  OBVIOUS
<1>1. {initialised, up, apnSet, power, attached, link} \subseteq BOOLEAN
  BY DEF Init
<1>2. /\ faults \in 0..MaxFaults /\ refusals \in 0..MaxRefusals /\ drops \in 0..MaxDrops
      /\ config \in 0..TableLen + 1 /\ pc # "context"
  BY DEF Init, Sizes
<1>3. QED
  BY <1>1, <1>2 DEF Init, TypeInv, TypeOK, PCs, Results

\* What a step counts down stays within its bound.
LEMMA CountedDown ==
  ASSUME NEW n, NEW m, NEW max \in Nat, n \in 0..max, m = n \/ (n > 0 /\ m = n - 1)
  PROVE  m \in 0..max
OBVIOUS

LEMMA BoundsStay ==
  ASSUME Sizes, TypeInv,
         \/ UNCHANGED <<faults, refusals>> \/ Fault \/ Refused
  PROVE  faults' \in 0..MaxFaults /\ refusals' \in 0..MaxRefusals
BY DEF Sizes, TypeInv, TypeOK, Fault, Refused

LEMMA StartTypes ==
  ASSUME Sizes, TypeInv, StartCall
  PROVE  TypeInv'
<1> USE DEF callVars, driverVars, modemVars, boundVars
<1>1. /\ {initialised, up, apnSet, power, attached, link} \subseteq BOOLEAN
      /\ config \in 0..TableLen + 1 /\ job \in Jobs /\ pc \in PCs /\ ret \in Results
      /\ mode \in {"command", "data"} /\ drops \in 0..MaxDrops
      /\ (pc = "context" => config <= TableLen)
  BY DEF TypeInv, TypeOK, Jobs
<1>2. /\ faults' \in 0..MaxFaults /\ refusals' \in 0..MaxRefusals
      /\ drops' = drops
  <2>1. drops' = drops /\ (UNCHANGED <<faults, refusals>> \/ Fault)
    BY DEF StartCall, set_credentials, InitCall, AlreadyUp, connect, disconnect, deinit, Closed,
           NotClosed
  <2>2. QED
    BY <2>1, BoundsStay
<1>3. /\ job' \in Jobs /\ pc' \in PCs /\ (pc' = "context" => pc = "context") /\ ret' \in Results
      /\ config' = config
  <2>1. CASE \E apn \in BOOLEAN : set_credentials(apn)
    BY <1>1, <2>1 DEF set_credentials
  <2>2. CASE InitCall \/ connect \/ deinit
    BY <1>1, <2>2 DEF InitCall, connect, deinit, Begin, Jobs, PCs, Results
  <2>3. CASE AlreadyUp \/ disconnect
    BY <1>1, <2>3 DEF AlreadyUp, disconnect, Begin, Jobs, PCs, Results
  <2>4. QED
    BY <2>1, <2>2, <2>3 DEF StartCall
<1>4. mode' \in {"command", "data"}
  BY <1>1 DEF StartCall, set_credentials, InitCall, AlreadyUp, connect, disconnect, deinit, Begin,
              Closed, NotClosed
<1>5. {initialised, up, apnSet, power, attached, link}' \subseteq BOOLEAN
  <2>1. CASE \E apn \in BOOLEAN : set_credentials(apn)
    BY <1>1, <2>1 DEF set_credentials
  <2>2. CASE disconnect
    <3>1. /\ initialised' = initialised /\ apnSet' = apnSet /\ power' = power /\ attached' = attached
          /\ (link' = FALSE /\ up' = FALSE) \/ (link' = link /\ up' = up)
      BY <2>2 DEF disconnect
    <3>2. QED
      BY <1>1, <3>1
  <2>3. CASE InitCall \/ AlreadyUp \/ connect \/ deinit
    BY <1>1, <2>3 DEF InitCall, AlreadyUp, connect, deinit
  <2>4. QED
    BY <2>1, <2>2, <2>3 DEF StartCall
<1>6. QED
  BY <1>1, <1>2, <1>3, <1>4, <1>5 DEF TypeInv, TypeOK, Jobs

LEMMA ContinueTypes ==
  ASSUME Sizes, TypeInv, ContinueCall
  PROVE  TypeInv'
<1> USE DEF callVars, driverVars, modemVars, boundVars
<1>1. /\ {initialised, up, apnSet, power, attached, link} \subseteq BOOLEAN
      /\ config \in 0..TableLen + 1 /\ job \in Jobs /\ pc \in PCs /\ ret \in Results
      /\ mode \in {"command", "data"} /\ drops \in 0..MaxDrops
      /\ (pc = "context" => config <= TableLen) /\ TableLen \in Nat
  BY DEF TypeInv, TypeOK, Jobs, Sizes
<1>2. faults' \in 0..MaxFaults /\ refusals' \in 0..MaxRefusals /\ drops' = drops
  <2>1. drops' = drops /\ (UNCHANGED <<faults, refusals>> \/ Fault \/ Refused)
    BY DEF ContinueCall, InitModem, Ready, Register, SetContext, Dial, PppConnect, Escape, Drain,
           nwk_deregistration, SoftOff, HardOff, Answered, Unheard
  <2>2. QED
    BY <2>1, BoundsStay
<1>3. job' = job /\ pc' \in PCs /\ ret' \in Results
  BY <1>1 DEF ContinueCall, InitModem, Ready, Register, SetContext, Dial, PppConnect, Escape, Drain,
              nwk_deregistration, SoftOff, HardOff, Goto, Return, AttemptFails, PCs, Results
<1>4. config' \in 0..TableLen + 1 /\ (pc' = "context" => config' <= TableLen)
  <2>1. CASE SetContext
    <3>1. config <= TableLen /\ config' = (IF config > 0 THEN config + 1 ELSE 0)
          /\ (pc' = "context" => config' \in 1..TableLen)
      BY <1>1, <2>1 DEF SetContext, Goto, Return
    <3>2. QED
      BY <1>1, <3>1
  <2>2. CASE Register
    <3>1. /\ config' = config \/ config' = (IF ~apnSet /\ TableLen > 0 THEN 1 ELSE 0)
          /\ pc' = "context" => config' = (IF ~apnSet /\ TableLen > 0 THEN 1 ELSE 0)
      BY <2>2 DEF Register, Goto, Return
    <3>2. QED
      BY <1>1, <3>1
  <2>3. CASE Dial \/ PppConnect \/ Escape
    <3>1. config' = config /\ (pc' = "context" => MoreCredentials)
      BY <2>3 DEF Dial, PppConnect, Escape, AttemptFails, Goto, Return
    <3>2. QED
      BY <1>1, <3>1 DEF MoreCredentials
  <2>4. CASE InitModem \/ Ready \/ Drain \/ nwk_deregistration \/ SoftOff \/ HardOff
    <3>1. config' = config /\ pc' # "context"
      BY <2>4 DEF InitModem, Ready, Drain, nwk_deregistration, SoftOff, HardOff, Goto, Return
    <3>2. QED
      BY <1>1, <3>1
  <2>5. QED
    BY <2>1, <2>2, <2>3, <2>4 DEF ContinueCall
<1>5. mode' \in {"command", "data"}
  BY <1>1 DEF ContinueCall, InitModem, Ready, Register, SetContext, Dial, PppConnect, Escape, Drain,
              nwk_deregistration, SoftOff, HardOff
<1>6. {initialised, up, apnSet, power, attached, link}' \subseteq BOOLEAN
  <2>1. /\ initialised' \in BOOLEAN /\ up' \in BOOLEAN /\ apnSet' \in BOOLEAN
        /\ power' \in BOOLEAN /\ attached' \in BOOLEAN /\ link' \in BOOLEAN
    <3>1. CASE InitModem \/ Register \/ SetContext
      BY <1>1, <3>1, Zenon DEF InitModem, Register, SetContext
    <3>2. CASE Dial \/ PppConnect \/ Escape
      BY <1>1, <3>2, Zenon DEF Dial, PppConnect, Escape
    <3>3. CASE Ready \/ Drain \/ nwk_deregistration \/ SoftOff \/ HardOff
      BY <1>1, <3>3, Zenon DEF Ready, Drain, nwk_deregistration, SoftOff, HardOff
    <3>4. QED
      BY <3>1, <3>2, <3>3 DEF ContinueCall
  <2>2. QED
    BY <2>1
<1>7. QED
  BY <1>1, <1>2, <1>3, <1>4, <1>5, <1>6 DEF TypeInv, TypeOK, Jobs

LEMMA NetworkTypes ==
  ASSUME Sizes, TypeInv, LinkDrops \/ DataModeEnds
  PROVE  TypeInv'
<1>1. /\ initialised' = initialised /\ up' = up /\ apnSet' = apnSet /\ config' = config
      /\ job' = job /\ pc' = pc /\ ret' = ret /\ power' = power /\ attached' = attached
      /\ faults' = faults /\ refusals' = refusals
      /\ (link' = FALSE \/ link' = link) /\ mode' = "command"
  BY DEF LinkDrops, DataModeEnds, callVars, driverVars, boundVars
<1>2. drops' \in 0..MaxDrops
  <2>1. drops' = drops \/ (drops > 0 /\ drops' = drops - 1)
    BY DEF LinkDrops, DataModeEnds, boundVars
  <2>2. QED
    BY <2>1, CountedDown DEF Sizes, TypeInv, TypeOK
<1>3. link' \in BOOLEAN
  BY <1>1 DEF TypeInv, TypeOK
<1>4. QED
  BY <1>1, <1>2, <1>3 DEF TypeInv, TypeOK

LEMMA TypeStep ==
  ASSUME Sizes, TypeInv, [Next]_vars
  PROVE  TypeInv'
<1>1. CASE UNCHANGED vars
  BY <1>1 DEF vars, TypeInv, TypeOK, callVars, driverVars, modemVars, boundVars
<1>2. QED
  BY <1>1, StartTypes, ContinueTypes, NetworkTypes DEF Next

\* TypeOK: for any table and any number of refusals, drops and failures the
\* variables keep their types, and the position in the table stays within it.
THEOREM TypeCorrect == ASSUME Sizes PROVE Spec => []TypeOK
<1>1. TypeInv /\ [Next]_vars => TypeInv'
  BY TypeStep
<1>2. TypeInv => TypeOK
  BY DEF TypeInv
<1>3. QED
  BY <1>1, <1>2, TypeInit, PTL DEF Spec
================================================================================
