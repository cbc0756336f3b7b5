------------------------- MODULE CellularConnectProofs -------------------------
(***************************************************************************)
(* Theorems about CellularConnect, for every set of domains, PINs and      *)
(* access points and any number of retries, losses and failing exchanges.  *)
(***************************************************************************)
EXTENDS CellularConnect, TLAPS

(***************************************************************************)
(* A modem that is ready is powered and its SIM unlocked.  init() makes    *)
(* that true step by step and only deinit() takes it back.                 *)
(***************************************************************************)

\* The SIM stays a record with its four fields.
SimIsRecord ==
  sim = [check |-> sim.check, pin |-> sim.pin, unlocked |-> sim.unlocked, left |-> sim.left]

ReadyInv ==
  /\ SimIsRecord
  /\ pc \in {"powerUp", "sim", "setUp", "notReady"} => ~initialised
  /\ pc \in {"sim", "setUp"} => power
  /\ pc = "setUp" => sim.unlocked
  /\ initialised /\ pc # "hardOff" => power /\ sim.unlocked

LEMMA ReadyInvInit == Init => ReadyInv
<1> SUFFICES ASSUME Init
             PROVE  ReadyInv
  OBVIOUS
<1>1. PICK p \in SimPins, c \in BOOLEAN :
        sim = [check |-> c, pin |-> p, unlocked |-> ~c, left |-> MaxLeft]
  BY DEF Init
<1>2. SimIsRecord
  BY <1>1 DEF SimIsRecord
<1>3. QED
  BY <1>2 DEF Init, ReadyInv

\* A tried PIN changes the attempts left and nothing else.
LEMMA TriedKeeps ==
  ASSUME SimIsRecord, NEW p
  PROVE  /\ Tried(p) = [check |-> sim.check, pin |-> sim.pin, unlocked |-> sim.unlocked,
                        left |-> Tried(p).left]
BY DEF SimIsRecord, Tried

\* Switching the check and changing the PIN leave the SIM as unlocked as it was.
LEMMA SimOperationsKeep ==
  ASSUME SimIsRecord, NEW e, NEW success \in BOOLEAN,
         \/ sim_pin_check_enable(e, success)
         \/ change_sim_pin(e, success)
  PROVE  SimIsRecord' /\ sim'.unlocked = sim.unlocked
<1>1. Tried(pin) = [check |-> sim.check, pin |-> sim.pin, unlocked |-> sim.unlocked,
                    left |-> Tried(pin).left]
  BY TriedKeeps
<1>2. \/ sim' = sim
      \/ sim' = Tried(pin)
      \/ sim' = [Tried(pin) EXCEPT !.check = e]
      \/ sim' = [Tried(pin) EXCEPT !.pin = e]
  BY DEF sim_pin_check_enable, change_sim_pin, Changed
<1>3. CASE sim' = sim
  BY <1>3 DEF SimIsRecord
<1>4. CASE sim' = Tried(pin)
  BY <1>1, <1>4 DEF SimIsRecord
<1>5. CASE sim' = [Tried(pin) EXCEPT !.check = e]
  <2> DEFINE l == Tried(pin).left
  <2>1. sim' = [check |-> e, pin |-> sim.pin, unlocked |-> sim.unlocked, left |-> l]
    BY <1>1, <1>5
  <2> HIDE DEF l
  <2>2. QED
    BY <2>1 DEF SimIsRecord
<1>6. CASE sim' = [Tried(pin) EXCEPT !.pin = e]
  <2> DEFINE l == Tried(pin).left
  <2>1. sim' = [check |-> sim.check, pin |-> e, unlocked |-> sim.unlocked, left |-> l]
    BY <1>1, <1>6
  <2> HIDE DEF l
  <2>2. QED
    BY <2>1 DEF SimIsRecord
<1>7. QED
  BY <1>2, <1>3, <1>4, <1>5, <1>6

LEMMA LockedSimIsRecord ==
  ASSUME SimIsRecord, sim' = LockedSim
  PROVE  SimIsRecord'
<1>1. sim' = [check |-> sim.check, pin |-> sim.pin, unlocked |-> ~sim.check, left |-> sim.left]
  BY DEF SimIsRecord, LockedSim
<1>2. QED
  BY <1>1 DEF SimIsRecord

\* A step of a call that keeps the SIM as unlocked as it was, does not switch
\* the modem, and does not go where init() is.
LEMMA ReadyKept ==
  ASSUME ReadyInv, SimIsRecord', sim'.unlocked = sim.unlocked, power' = power,
         initialised' = initialised,
         pc' = pc \/ pc' \notin {"powerUp", "sim", "setUp", "notReady"},
         pc = "hardOff" => pc' = "hardOff"
  PROVE  ReadyInv'
BY DEF ReadyInv

LEMMA ReadyInvStep == ReadyInv /\ [Next]_vars => ReadyInv'
<1> SUFFICES ASSUME ReadyInv, [Next]_vars
             PROVE  ReadyInv'
  OBVIOUS
<1> USE DEF driverVars, modemVars, callVars, Goto, At, UnchangedCall
<1>0. SimIsRecord
  BY DEF ReadyInv
<1>1. ASSUME NEW j, NEW a, BeginWithInit(j, a)
      PROVE  ReadyInv'
  BY <1>0, <1>1 DEF BeginWithInit, ReadyInv, SimIsRecord
<1>2. CASE PowerUp
  <2>1. SimIsRecord'
    BY <1>0, <1>2, LockedSimIsRecord DEF PowerUp, SimIsRecord
  <2>2. QED
    BY <2>1, <1>2 DEF PowerUp, ReadyInv
<1>3. CASE SimNotReady
  BY <1>0, <1>3 DEF SimNotReady, SimStep, ReadyInv, SimIsRecord
<1>4. CASE SimReady
  BY <1>0, <1>4 DEF SimReady, SimStep, ReadyInv, SimIsRecord
<1>5. CASE SimPin
  <2> DEFINE after == [Tried(pin) EXCEPT !.unlocked = SimAccepts(pin)]
             l == Tried(pin).left
  <2>1. after = [check |-> sim.check, pin |-> sim.pin, unlocked |-> SimAccepts(pin), left |-> l]
    BY <1>0, TriedKeeps
  <2>2. /\ sim' \in {sim, after}
        /\ pc' = "setUp" => sim' = after /\ SimAccepts(pin)
        /\ pc' \in {"setUp", "notReady"}
    BY <1>5 DEF SimPin
  <2> HIDE DEF after, l
  <2>3. SimIsRecord' /\ (sim' = after => sim'.unlocked = SimAccepts(pin))
    BY <2>1, <2>2, <1>0 DEF SimIsRecord
  <2>4. power /\ power' = power /\ ~initialised /\ initialised' = initialised
    BY <1>5 DEF SimPin, SimStep, ReadyInv
  <2>5. QED
    BY <2>2, <2>3, <2>4 DEF ReadyInv
<1>6. CASE SetUp
  BY <1>0, <1>6 DEF SetUp, ReadyInv, SimIsRecord
<1>7. CASE InitFails
  BY <1>0, <1>7 DEF InitFails, Return, ReadyInv, SimIsRecord
<1>8. CASE InitDone
  BY <1>0, <1>8 DEF InitDone, Return, ReadyInv, SimIsRecord
<1>9. CASE SimOperationDone
  <2>1. PICK success \in BOOLEAN :
          \/ sim_pin_check_enable(arg, success)
          \/ change_sim_pin(arg, success)
    BY <1>9 DEF SimOperationDone
  <2>2. SimIsRecord' /\ sim'.unlocked = sim.unlocked
    BY <1>0, <2>1, SimOperationsKeep
  <2>3. pc # "hardOff" /\ pc' = "idle" /\ power' = power /\ initialised' = initialised
    BY <1>9 DEF SimOperationDone, Return
  <2>4. QED
    BY <2>2, <2>3, ReadyKept
<1>10. CASE PendingCheck
  <2>1. SimIsRecord' /\ sim'.unlocked = sim.unlocked
    <3>1. PICK success \in BOOLEAN :
            UNCHANGED sim \/ sim_pin_check_enable(pendingCheck, success)
      BY <1>10 DEF PendingCheck
    <3>2. QED
      BY <1>0, <3>1, SimOperationsKeep DEF SimIsRecord
  <2>2. /\ pc # "hardOff" /\ pc' = "pendingPin"
        /\ power' = power /\ initialised' = initialised
    BY <1>10 DEF PendingCheck
  <2>3. QED
    BY <2>1, <2>2, ReadyKept
<1>11. CASE PendingPin
  <2>1. SimIsRecord' /\ sim'.unlocked = sim.unlocked
    <3>1. PICK success \in BOOLEAN :
            UNCHANGED sim \/ change_sim_pin(pendingPin, success)
      BY <1>11 DEF PendingPin
    <3>2. QED
      BY <1>0, <3>1, SimOperationsKeep DEF SimIsRecord
  <2>2. /\ pc # "hardOff" /\ pc' \in {"register", "idle"}
        /\ power' = power /\ initialised' = initialised
    BY <1>11 DEF PendingPin, Return
  <2>3. QED
    BY <2>1, <2>2, ReadyKept
<1>12. CASE deinit
  BY <1>0, <1>12, LockedSimIsRecord DEF deinit, SwitchedOff, ReadyInv, SimIsRecord
<1>13. CASE HardOff
  BY <1>0, <1>13, LockedSimIsRecord DEF HardOff, SwitchedOff, Return, ReadyInv
<1>14. ASSUME UNCHANGED <<sim, power, initialised>>,
              pc' = pc \/ pc' \notin {"powerUp", "sim", "setUp", "notReady"},
              pc # "hardOff"
       PROVE  ReadyInv'
  BY <1>0, <1>14, ReadyKept DEF SimIsRecord
<1>15. CASE connect \/ connectWith \/ InitCall \/ SimOperationNow
  BY <1>1, <1>15 DEF connect, connectWith, InitCall, SimOperationNow
<1>16. CASE SimOperationLater \/ set_sim_pin \/ set_credentials \/ set_authentication
  BY <1>14, <1>16 DEF SimOperationLater, set_sim_pin, set_credentials, set_authentication
<1>17. CASE AlreadyRegistered \/ EnableURCs \/ SetAutomatic \/ QueryStatus
  BY <1>14, <1>17 DEF AlreadyRegistered, EnableURCs, SetAutomatic, QueryStatus, RegStep
<1>18. CASE WaitTest \/ WaitRead \/ WaitEnds
  BY <1>14, <1>18 DEF WaitTest, WaitRead, WaitEnds, RegStep, Return
<1>19. CASE CheckProfile \/ NextCredentials \/ StoreProfile
  BY <1>14, <1>19 DEF CheckProfile, NextCredentials, StoreProfile, StackStep, AttemptEnds, Return
<1>20. CASE TryProtocol \/ ReuseExternal \/ ActivateByCid
  BY <1>14, <1>20 DEF TryProtocol, ReuseExternal, ActivateByCid, StackStep, AttemptEnds, Return
<1>21. CASE disconnect \/ Deactivate \/ nwk_deregistration
  BY <1>14, <1>21 DEF disconnect, Deactivate, nwk_deregistration, Return
<1>22. CASE HandleURC
  BY <1>0, <1>22, ReadyKept DEF HandleURC, SimIsRecord
<1>23. CASE ContextDropped \/ \E d \in Domains : Registers(d) \/ Unregisters(d)
  BY <1>0, <1>23, ReadyKept DEF ContextDropped, Registers, Unregisters, NetworkStep, SimIsRecord
<1>24. CASE UNCHANGED vars
  BY <1>0, <1>24, ReadyKept DEF vars, SimIsRecord
<1>25. QED
  BY <1>2, <1>3, <1>4, <1>5, <1>6, <1>7, <1>8, <1>9, <1>10, <1>11, <1>12, <1>13, <1>15,
     <1>16, <1>17, <1>18, <1>19, <1>20, <1>21, <1>22, <1>23, <1>24
     DEF Next, StartCall, ContinueCall

\* ReadyModemIsUp: whatever fails, and whatever PIN is given, a modem marked as
\* initialised is powered and its SIM unlocked, until deinit() turns it off.
THEOREM ReadyModemStaysUp == Spec => []ReadyModemIsUp
<1>1. ReadyInv => ReadyModemIsUp
  BY DEF ReadyInv, ReadyModemIsUp
<1>2. QED
  BY <1>1, ReadyInvInit, ReadyInvStep, PTL DEF Spec

(***************************************************************************)
(* After connect() has returned OK the profile is active, or its loss has  *)
(* been reported, or the report is on the line.                            *)
(***************************************************************************)

Known == active \/ told \/ LossInTransit

KnownInv ==
  /\ line \in Seq(URC)
  /\ pc = "idle" /\ job = "connect" /\ ret = "OK" => Known
  /\ pc = "activate" /\ ok = TRUE => Known
  /\ pc = "profile" => ok = FALSE
  /\ pc \in {"pinCheck", "newPin"} => job = pc
  /\ pc \in {"deactivate", "deregister"} => job = "disconnect"

LEMMA KnownInvInit == Init => KnownInv
BY DEF Init, KnownInv

\* A report is lost from the line only by being read.
LEMMA LossStays ==
  ASSUME line \in Seq(URC), NEW u \in URC, line' = Append(line, u)
  PROVE  /\ line' \in Seq(URC)
         /\ LossInTransit \/ u.domain = "context" => LossInTransit'
BY DEF LossInTransit

LEMMA LossIsRead ==
  ASSUME line \in Seq(URC), line # << >>, line' = Tail(line)
  PROVE  /\ Head(line) \in URC
         /\ line' \in Seq(URC)
         /\ LossInTransit /\ Head(line).domain # "context" => LossInTransit'
<1>1. Head(line) \in URC /\ line' \in Seq(URC) /\ Len(line') = Len(line) - 1
  OBVIOUS
<1>2. ASSUME LossInTransit, Head(line).domain # "context"
      PROVE  LossInTransit'
  <2>1. PICK i \in 1..Len(line) : line[i].domain = "context"
    BY <1>2 DEF LossInTransit
  <2>2. i # 1
    BY <1>2, <2>1
  <2>3. i - 1 \in 1..Len(line') /\ line'[i - 1] = line[i]
    BY <1>1, <2>1, <2>2
  <2>4. QED
    BY <2>1, <2>3 DEF LossInTransit
<1>3. QED
  BY <1>1, <1>2

\* A report of the domain "context" is always one of a loss.
LEMMA ContextURC ==
  ASSUME NEW u \in URC, u.domain = "context"
  PROVE  u.on = FALSE /\ u.domain \notin Domains
BY ConnectAssumption DEF URC

\* A successful activation leaves the profile active.
LEMMA ActivationActive ==
  ASSUME NEW a, NEW success \in BOOLEAN, Activation(a, success)
  PROVE  success => active'
BY DEF Activation

\* A step within a call that neither ends it with OK nor touches what is
\* known, from and to a place the invariant does not speak of.
LEMMA KnownKept ==
  ASSUME KnownInv, line' \in Seq(URC),
         pc' = "idle" => ret' # "OK" \/ job' # "connect",
         pc' \notin {"profile", "activate", "deactivate", "deregister"},
         pc' \in {"pinCheck", "newPin"} => job' = pc'
  PROVE  KnownInv'
BY DEF KnownInv

\* A step that leaves the call where it is.
LEMMA KnownCarried ==
  ASSUME KnownInv, line' \in Seq(URC), UNCHANGED <<pc, job, ret, ok>>, Known => Known'
  PROVE  KnownInv'
BY DEF KnownInv

LEMMA KnownInvStep == KnownInv /\ [Next]_vars => KnownInv'
<1> SUFFICES ASSUME KnownInv, [Next]_vars
             PROVE  KnownInv'
  OBVIOUS
<1> USE DEF callVars, modemVars, Goto, At, UnchangedCall
<1>0. line \in Seq(URC) /\ << >> \in Seq(URC) /\ (UNCHANGED line => line' \in Seq(URC))
  BY DEF KnownInv
<1>1. ASSUME NEW j \in {"init", "connect", "pinCheck", "newPin"}, NEW a, BeginWithInit(j, a)
      PROVE  KnownInv'
  BY <1>0, <1>1, KnownKept DEF BeginWithInit
<1>2. CASE connect \/ connectWith \/ InitCall \/ SimOperationNow
  BY <1>1, <1>2 DEF connect, connectWith, InitCall, SimOperationNow
<1>3. CASE PowerUp \/ SimNotReady \/ SimReady \/ SimPin \/ SetUp
  BY <1>0, <1>3, KnownKept DEF PowerUp, SimNotReady, SimReady, SimPin, SetUp, SimStep
<1>4. CASE InitFails \/ InitDone
  BY <1>0, <1>4, KnownKept DEF InitFails, InitDone, Return
<1>5. CASE SimOperationDone
  <2>1. pc \in {"pinCheck", "newPin"} /\ pc' = "idle" /\ job' = job /\ line' = line
    BY <1>5 DEF SimOperationDone, Return
  <2>2. QED
    BY <1>0, <2>1, KnownKept DEF KnownInv
<1>6. CASE PendingCheck \/ PendingPin
  BY <1>0, <1>6, KnownKept DEF PendingCheck, PendingPin, Return
<1>7. CASE AlreadyRegistered \/ EnableURCs \/ SetAutomatic \/ QueryStatus
  BY <1>0, <1>7, KnownKept DEF AlreadyRegistered, EnableURCs, SetAutomatic, QueryStatus, RegStep
<1>8. CASE WaitTest \/ WaitRead \/ WaitEnds
  BY <1>0, <1>8, KnownKept DEF WaitTest, WaitRead, WaitEnds, RegStep, Return
<1>9. CASE CheckProfile
  <2>1. CASE pc' = "idle" /\ ret' = "OK"
    <3>1. active' = active /\ active /\ line' = line
      BY <1>9, <2>1 DEF CheckProfile, StackStep, Return
    <3>2. QED
      BY <1>0, <2>1, <3>1 DEF KnownInv, Known
  <2>2. CASE ~(pc' = "idle" /\ ret' = "OK")
    BY <1>0, <1>9, <2>2, KnownKept DEF CheckProfile, StackStep, Return
  <2>3. QED
    BY <2>1, <2>2
<1>10. CASE NextCredentials
  BY <1>0, <1>10 DEF NextCredentials, StackStep, KnownInv
<1>11. ASSUME NEW success \in BOOLEAN, AttemptEnds(success), success => Known',
              line' = line
       PROVE  KnownInv'
  BY <1>0, <1>11 DEF AttemptEnds, Return, KnownInv
<1>12. CASE StoreProfile
  <2>1. line' = line
    BY <1>12 DEF StoreProfile, StackStep
  <2>2. CASE AttemptEnds(FALSE)
    BY <1>11, <2>1, <2>2
  <2>3. CASE pc = "profile" /\ pc' = "activate" /\ ok' = ok
    BY <1>0, <2>1, <2>3 DEF KnownInv
  <2>4. QED
    BY <1>12, <2>2, <2>3 DEF StoreProfile
<1>13. CASE TryProtocol
  <2>1. PICK success \in BOOLEAN :
          /\ \/ Activation(Protocols[count], success)
             \/ success = ok /\ UNCHANGED active
          /\ \/ AttemptEnds(success)
             \/ ok' = success /\ UNCHANGED <<pc, job, ret>>
    BY <1>13 DEF TryProtocol
  <2>2. pc = "activate" /\ line' = line /\ told' = told
    BY <1>13 DEF TryProtocol, StackStep
  <2>3. success => Known'
    <3>1. CASE Activation(Protocols[count], success)
      BY <3>1, ActivationActive DEF Known
    <3>2. CASE success = ok /\ UNCHANGED active
      BY <2>2, <3>2 DEF KnownInv, Known, LossInTransit
    <3>3. QED
      BY <2>1, <3>1, <3>2
  <2>4. CASE AttemptEnds(success)
    BY <1>11, <2>2, <2>3, <2>4
  <2>5. CASE ok' = success /\ UNCHANGED <<pc, job, ret>>
    BY <1>0, <2>2, <2>3, <2>5 DEF KnownInv
  <2>6. QED
    BY <2>1, <2>4, <2>5
<1>14. CASE ReuseExternal
  <2>1. line' = line
    BY <1>14 DEF ReuseExternal, StackStep
  <2>2. CASE active' = TRUE /\ AttemptEnds(TRUE)
    BY <1>11, <2>1, <2>2 DEF Known
  <2>3. CASE pc' = "cid"
    BY <1>0, <2>1, <2>3, KnownKept
  <2>4. QED
    BY <1>14, <2>2, <2>3 DEF ReuseExternal
<1>15. CASE ActivateByCid
  <2>1. PICK success \in BOOLEAN : Activation(auth, success) /\ AttemptEnds(success)
    BY <1>15 DEF ActivateByCid
  <2>2. line' = line
    BY <1>15 DEF ActivateByCid, StackStep
  <2>3. success => Known'
    BY <2>1, ActivationActive DEF Known
  <2>4. QED
    BY <1>11, <2>1, <2>2, <2>3
<1>16. CASE disconnect
  BY <1>0, <1>16 DEF disconnect, KnownInv
<1>17. CASE Deactivate \/ nwk_deregistration
  BY <1>0, <1>17 DEF Deactivate, nwk_deregistration, Return, KnownInv
<1>18. CASE deinit \/ HardOff
  BY <1>0, <1>18, KnownKept DEF deinit, HardOff, Return
<1>19. CASE SimOperationLater \/ set_sim_pin \/ set_credentials \/ set_authentication
  <2>1. UNCHANGED <<pc, job, ret, ok, line, active, told>>
    BY <1>19 DEF SimOperationLater, set_sim_pin, set_credentials, set_authentication
  <2>2. QED
    BY <1>0, <2>1, KnownCarried DEF Known, LossInTransit
<1>20. CASE HandleURC
  <2>1. /\ line # << >> /\ line' = Tail(line)
        /\ UNCHANGED <<pc, job, ret, ok, active>>
    BY <1>20 DEF HandleURC
  <2>2. Head(line).domain = "context" => told' = TRUE
    BY <1>0, <1>20, <2>1, LossIsRead, ContextURC DEF HandleURC
  <2>3. told => told'
    BY <1>20 DEF HandleURC
  <2>4. Known => Known'
    BY <1>0, <2>1, <2>2, <2>3, LossIsRead DEF Known
  <2>5. QED
    BY <1>0, <2>1, <2>4, KnownCarried, LossIsRead
<1>21. ASSUME NEW u \in URC, line' = Append(line, u) \/ line' = line,
              UNCHANGED <<pc, job, ret, ok, told>>,
              active' = active \/ (u.domain = "context" /\ line' = Append(line, u))
       PROVE  KnownInv'
  <2>1. line' \in Seq(URC) /\ (Known => Known')
    BY <1>0, <1>21, LossStays DEF Known, LossInTransit
  <2>2. QED
    BY <1>21, <2>1, KnownCarried
<1>22. CASE ContextDropped
  <2> DEFINE u == [domain |-> "context", on |-> FALSE]
  <2>1. u \in URC /\ u.domain = "context"
    BY DEF URC
  <2>2. line' = Append(line, u) /\ UNCHANGED <<pc, job, ret, ok, told>>
    BY <1>22 DEF ContextDropped, Emit, NetworkStep
  <2> HIDE DEF u
  <2>3. QED
    BY <1>21, <2>1, <2>2
<1>23. ASSUME NEW d \in Domains, Registers(d) \/ Unregisters(d)
       PROVE  KnownInv'
  <2>1. PICK b \in BOOLEAN : line' = Append(line, [domain |-> d, on |-> b]) \/ line' = line
    BY <1>23 DEF Registers, Unregisters, Emit
  <2> DEFINE u == [domain |-> d, on |-> b]
  <2>2. u \in URC
    BY DEF URC
  <2>3. UNCHANGED <<pc, job, ret, ok, told, active>>
    BY <1>23 DEF Registers, Unregisters, NetworkStep
  <2> HIDE DEF u
  <2>4. QED
    BY <1>21, <2>1, <2>2, <2>3 DEF u
<1>24. CASE UNCHANGED vars
  BY <1>0, <1>24, KnownCarried DEF vars, Known, LossInTransit
<1>25. QED
  BY <1>2, <1>3, <1>4, <1>5, <1>6, <1>7, <1>8, <1>9, <1>10, <1>12, <1>13, <1>14, <1>15,
     <1>16, <1>17, <1>18, <1>19, <1>20, <1>22, <1>23, <1>24
     DEF Next, StartCall, ContinueCall

\* ConnectionKnown: an OK of connect() is never the last word on a lost profile.
THEOREM ConnectionStaysKnown == Spec => []ConnectionKnown
<1>1. KnownInv => ConnectionKnown
  BY DEF KnownInv, Known, ConnectionKnown
<1>2. QED
  BY <1>1, KnownInvInit, KnownInvStep, PTL DEF Spec

LEMMA BoundsAreNat ==
  /\ SimTries \in Nat /\ SimTries > 0 /\ RegTries \in Nat /\ RegTries > 0
  /\ WaitTurns \in Nat /\ MaxLeft \in Nat /\ MaxLeft > 0
  /\ MaxLine \in Nat /\ MaxDrops \in Nat /\ MaxFaults \in Nat
<1>1. {SimTries, RegTries, WaitTurns, MaxLeft} \subseteq Nat \ {0}
      /\ {MaxLine, MaxDrops, MaxFaults} \subseteq Nat
  BY ConnectAssumption
<1>2. QED
  BY <1>1

LEMMA PinsGiven ==
  /\ NoPin \notin Pins /\ Unset \notin Pins /\ Unset # NoPin
  /\ Unset \notin BOOLEAN
  /\ GivenPins \subseteq Pins /\ NewPins \subseteq Pins /\ SimPins \subseteq Pins
  /\ SetPins \subseteq Pins \cup {NoPin}
BY ConnectAssumption

LEMMA ApnsGiven ==
  /\ Table \in Seq(Apns) /\ Len(Table) \in Nat
  /\ \A i \in 1..Len(Table) : Table[i] \in Apns
  /\ AppApns \subseteq Apns
  /\ AppAuths \subseteq Auths \cup {"UNKNOWN"}
<1>1. Table \in Seq(Apns)
  BY ConnectAssumption
<1>2. AppApns \subseteq Apns /\ AppAuths \subseteq Auths \cup {"UNKNOWN"}
  BY ConnectAssumption DEF Auths
<1>3. QED
  BY <1>1, <1>2

LEMMA CountsAre == Counts = 0..SimTries + WaitTurns + 3
BY DEF Counts, ProtocolAuth

(***************************************************************************)
(* Every variable keeps its type.                                          *)
(***************************************************************************)

DriverTypes ==
  /\ initialised \in BOOLEAN /\ pin \in Pins \cup {NoPin} /\ check \in BOOLEAN
  /\ reg \in SUBSET Domains
  /\ apn \in ApnValues /\ login \in BOOLEAN /\ auth \in Auths \cup {"UNKNOWN"}
  /\ config \in 0..Len(Table) + 1
  /\ pendingCheck \in BOOLEAN \cup {Unset} /\ pendingPin \in Pins \cup {NoPin}

CallTypes ==
  /\ job \in Jobs /\ arg \in BOOLEAN \cup Pins \cup {NoPin, Unset}
  /\ pc \in PCs /\ count \in Counts /\ registrations \in 0..RegTries - 1
  /\ ok \in BOOLEAN /\ ret \in Results /\ told \in BOOLEAN

ModemTypes ==
  /\ power \in BOOLEAN /\ automatic \in BOOLEAN /\ active \in BOOLEAN
  /\ sim \in Sim /\ net \in SUBSET Domains /\ urcs \in SUBSET Domains
  /\ line \in Seq(URC) /\ faults \in 0..MaxFaults /\ drops \in 0..MaxDrops

\* The argument is one that the call in progress was given, the counters are
\* within their loops and the position within the table.
CallFits ==
  /\ pc # "idle" =>
       /\ job = "init" => arg \in GivenPins \cup {NoPin}
       /\ job = "pinCheck" => arg \in BOOLEAN
       /\ job = "newPin" => arg \in NewPins
  /\ pc \in {"pinCheck", "newPin"} => job = pc
  /\ pc = "sim" => count < SimTries
  /\ pc = "credentials" => config <= Len(Table)

TypeInv == DriverTypes /\ CallTypes /\ ModemTypes /\ CallFits

LEMMA TypeInvMeans == TypeInv => TypeOK
BY DEF TypeInv, DriverTypes, CallTypes, ModemTypes, TypeOK

LEMMA TypeInit == Init => TypeInv
<1> SUFFICES ASSUME Init
             PROVE  TypeInv
  OBVIOUS
<1>1. PICK p \in SimPins, c \in BOOLEAN :
        sim = [check |-> c, pin |-> p, unlocked |-> ~c, left |-> MaxLeft]
  BY DEF Init
<1>2. sim \in Sim
  BY <1>1, BoundsAreNat, PinsGiven DEF Sim
<1>3. count \in Counts /\ registrations \in 0..RegTries - 1 /\ config \in 0..Len(Table) + 1
  BY BoundsAreNat, ApnsGiven, CountsAre DEF Init
<1>4. faults \in 0..MaxFaults /\ drops \in 0..MaxDrops
  BY BoundsAreNat DEF Init
<1>5. line \in Seq(URC) /\ pin \in Pins \cup {NoPin}
  BY PinsGiven DEF Init
<1>6. QED
  BY <1>2, <1>3, <1>4, <1>5
     DEF Init, TypeInv, DriverTypes, CallTypes, ModemTypes, CallFits, ApnValues, Auths, Jobs, PCs,
         Results

\* What a SIM may become.
LEMMA SimTypes ==
  ASSUME sim \in Sim
  PROVE  /\ LockedSim \in Sim
         /\ \A p : Tried(p) \in Sim
         /\ \A p : \A b \in BOOLEAN : [Tried(p) EXCEPT !.unlocked = b] \in Sim
         /\ \A p : \A b \in BOOLEAN : [Tried(p) EXCEPT !.check = b] \in Sim
         /\ \A p : \A new \in Pins : [Tried(p) EXCEPT !.pin = new] \in Sim
<1>1. \A p : Tried(p) \in Sim
  <2> TAKE p
  <2> DEFINE l == IF sim.left = 0 THEN 0 ELSE IF p = sim.pin THEN MaxLeft ELSE sim.left - 1
  <2>1. Tried(p) = [sim EXCEPT !.left = l]
    BY DEF Tried, Sim
  <2>2. l \in 0..MaxLeft
    BY BoundsAreNat, PinsGiven DEF Sim
  <2>3. QED
    BY <2>1, <2>2 DEF Sim
<1>2. LockedSim \in Sim
  BY DEF LockedSim, Sim
<1>3. QED
  BY <1>1, <1>2 DEF Sim

LEMMA PinCheckTypes ==
  ASSUME sim \in Sim, check \in BOOLEAN, NEW e \in BOOLEAN, NEW success \in BOOLEAN, sim_pin_check_enable(e, success)
  PROVE  sim' \in Sim /\ check' \in BOOLEAN
BY SimTypes DEF sim_pin_check_enable

LEMMA ChangePinTypes ==
  ASSUME sim \in Sim, pin \in Pins \cup {NoPin}, NEW new \in Pins, NEW success \in BOOLEAN, change_sim_pin(new, success)
  PROVE  sim' \in Sim /\ pin' \in Pins \cup {NoPin}
BY SimTypes DEF change_sim_pin, Changed

LEMMA FaultTypes ==
  ASSUME faults \in 0..MaxFaults, Answered \/ Fault
  PROVE  faults' \in 0..MaxFaults
BY BoundsAreNat DEF Answered, Fault

LEMMA ReturnTypes ==
  ASSUME NEW r \in Results, Return(r)
  PROVE  /\ pc' = "idle" /\ ret' \in Results /\ job' = job /\ ok' = FALSE
         /\ arg' = Unset /\ count' = 0 /\ registrations' = 0
         /\ count' \in Counts /\ registrations' \in 0..RegTries - 1
BY BoundsAreNat, CountsAre DEF Return

\* The counters alone, for steps that calculate with them.
LEMMA NumbersFit ==
  ASSUME TypeInv
  PROVE  /\ config \in 0..Len(Table) + 1 /\ registrations \in 0..RegTries - 1
         /\ count \in 0..SimTries + WaitTurns + 3 /\ drops \in 0..MaxDrops
         /\ pc = "credentials" => config <= Len(Table)
BY CountsAre DEF TypeInv, DriverTypes, CallTypes, ModemTypes, CallFits

LEMMA InitTypes ==
  ASSUME TypeInv, InitCall \/ PowerUp \/ SimNotReady \/ SimReady \/ SimPin \/ SetUp \/ InitFails \/ InitDone
  PROVE  TypeInv'
<1> USE DEF Goto, At, UnchangedCall, driverVars, profileVars, pendingVars, modemVars, boundVars,
            callVars
<1>0. DriverTypes /\ CallTypes /\ ModemTypes /\ CallFits
  BY DEF TypeInv
<1>1. CASE InitCall
  BY <1>0, <1>1, PinsGiven DEF InitCall, CallTypes, PCs, Jobs, BeginWithInit, Results, DriverTypes, ModemTypes, CallFits, TypeInv
<1>2. CASE PowerUp
  <2>1. sim' \in Sim
    BY <1>0, <1>2, SimTypes DEF PowerUp, ModemTypes
  <2>2. faults' \in 0..MaxFaults
    BY <1>0, <1>2, FaultTypes DEF PowerUp, ModemTypes
  <2>3. automatic' \in BOOLEAN /\ active' \in BOOLEAN /\ net' \in SUBSET Domains
          /\ urcs' \in SUBSET Domains
    BY <1>0, <1>2 DEF PowerUp, ModemTypes
  <2>4. QED
    BY <1>0, <1>2, <2>1, <2>2, <2>3, BoundsAreNat, CountsAre DEF PowerUp, CallTypes, PCs, Jobs, DriverTypes, ModemTypes, CallFits, TypeInv
<1>3. CASE SimNotReady
  <2>1. count \in Nat /\ count < SimTries
    BY <1>0, <1>3, BoundsAreNat, CountsAre DEF SimNotReady, CallTypes, CallFits
  <2>2. QED
    BY <1>0, <1>3, <2>1, BoundsAreNat, CountsAre, FaultTypes DEF SimNotReady, CallTypes, PCs, Jobs, SimStep, DriverTypes, ModemTypes, CallFits, TypeInv
<1>4. CASE SimReady
  <2>1. CallTypes' /\ CallFits'
    BY <1>0, <1>4, BoundsAreNat, CountsAre DEF SimReady, CallTypes, PCs, Jobs, SimStep, CallFits
  <2>2. DriverTypes' /\ ModemTypes'
    BY <1>0, <1>4, FaultTypes DEF SimReady, DriverTypes, SimStep, ModemTypes
  <2>3. QED
    BY <2>1, <2>2 DEF TypeInv
<1>5. CASE SimPin
  <2>1. sim' \in Sim
    BY <1>0, <1>5, SimTypes DEF SimPin, SimAccepts, ModemTypes
  <2>2. QED
    BY <1>0, <1>5, <2>1, BoundsAreNat, CountsAre, FaultTypes DEF SimPin, CallTypes, PCs, Jobs, SimStep, DriverTypes, ModemTypes, CallFits, TypeInv
<1>6. CASE SetUp
  <2>1. CallTypes' /\ CallFits'
    BY <1>0, <1>6 DEF SetUp, CallTypes, PCs, Jobs, CallFits
  <2>2. DriverTypes' /\ ModemTypes'
    BY <1>0, <1>6, FaultTypes DEF SetUp, DriverTypes, ModemTypes
  <2>3. QED
    BY <2>1, <2>2 DEF TypeInv
<1>7. CASE InitFails
  <2>1. PICK r \in Results : Return(r)
    BY <1>0, <1>7 DEF InitFails, Results
  <2>2. CallTypes' /\ CallFits'
    BY <1>0, <1>7, <2>1, ReturnTypes DEF InitFails, CallTypes, PCs, Jobs, CallFits
  <2>3. DriverTypes' /\ ModemTypes'
    BY <1>0, <1>7, <2>1 DEF InitFails, DriverTypes, ModemTypes
  <2>4. QED
    BY <2>2, <2>3 DEF TypeInv
<1>8. CASE InitDone
  <2>1. \/ \E r \in Results : Return(r)
        \/ UnchangedCall /\ count' = count /\ pc' \in {"pendingCheck", "pinCheck", "newPin"}
           /\ (pc' # "pendingCheck" => job = pc')
    BY <1>0, <1>8 DEF InitDone, Results
  <2>2. CallTypes' /\ CallFits'
    BY <1>0, <1>8, <2>1, ReturnTypes DEF InitDone, CallTypes, PCs, Jobs, CallFits
  <2>3. DriverTypes' /\ ModemTypes'
    BY <1>0, <1>8, <2>1 DEF InitDone, DriverTypes, ModemTypes
  <2>4. QED
    BY <2>2, <2>3 DEF TypeInv
<1>9. QED
  BY <1>1, <1>2, <1>3, <1>4, <1>5, <1>6, <1>7, <1>8

LEMMA SimOperationTypes ==
  ASSUME TypeInv, SimOperationNow \/ SimOperationLater \/ SimOperationDone \/ PendingCheck \/ PendingPin
  PROVE  TypeInv'
<1> USE DEF Goto, At, UnchangedCall, driverVars, profileVars, pendingVars, modemVars, boundVars,
            callVars
<1>0. DriverTypes /\ CallTypes /\ ModemTypes /\ CallFits
  BY DEF TypeInv
<1>1. CASE SimOperationNow
  BY <1>0, <1>1, PinsGiven DEF SimOperationNow, CallTypes, PCs, Jobs, BeginWithInit, Results, DriverTypes, ModemTypes, CallFits, TypeInv
<1>2. CASE SimOperationLater
  BY <1>0, <1>2, PinsGiven DEF SimOperationLater, CallTypes, PCs, Jobs, DriverTypes, ModemTypes, CallFits, TypeInv
<1>3. CASE SimOperationDone
  <2>1. PICK success \in BOOLEAN :
          /\ \/ At("pinCheck") /\ sim_pin_check_enable(arg, success) /\ UNCHANGED pin
             \/ At("newPin") /\ change_sim_pin(arg, success) /\ UNCHANGED check
          /\ Return(IF success THEN "OK" ELSE "AUTH_FAILURE")
    BY <1>0, <1>3 DEF SimOperationDone
  <2>2. PICK r \in Results : Return(r)
    BY <2>1 DEF Results
  <2>3. sim' \in Sim /\ check' \in BOOLEAN /\ pin' \in Pins \cup {NoPin}
    BY <1>0, <1>3, <2>1, PinsGiven, PinCheckTypes, ChangePinTypes DEF CallFits, DriverTypes, ModemTypes
  <2>4. faults' \in 0..MaxFaults
    BY <1>0, <1>3, <2>1, FaultTypes DEF sim_pin_check_enable, change_sim_pin, ModemTypes, Answered
  <2>5. CallTypes' /\ CallFits'
    BY <1>0, <1>3, <2>1, <2>2, <2>3, <2>4, ReturnTypes DEF SimOperationDone, CallTypes, PCs, Jobs, CallFits
  <2>6. DriverTypes' /\ ModemTypes'
    BY <1>0, <1>3, <2>1, <2>2, <2>3, <2>4 DEF SimOperationDone, DriverTypes, ModemTypes
  <2>7. QED
    BY <2>5, <2>6 DEF TypeInv
<1>4. CASE PendingCheck
  <2>1. PICK success \in BOOLEAN :
          /\ \/ pendingCheck = Unset /\ success /\ UNCHANGED <<check, sim, faults>>
             \/ pendingCheck # Unset /\ sim_pin_check_enable(pendingCheck, success)
          /\ ok' = success
    BY <1>0, <1>4 DEF PendingCheck
  <2>2. sim' \in Sim /\ check' \in BOOLEAN
    BY <1>0, <1>4, <2>1, PinCheckTypes DEF DriverTypes, ModemTypes
  <2>3. faults' \in 0..MaxFaults
    BY <1>0, <1>4, <2>1, FaultTypes DEF sim_pin_check_enable, ModemTypes, Answered
  <2>4. QED
    BY <1>0, <1>4, <2>1, <2>2, <2>3 DEF PendingCheck, CallTypes, PCs, Jobs, DriverTypes, ModemTypes, CallFits, TypeInv
<1>5. CASE PendingPin
  <2>1. PICK success \in BOOLEAN :
          /\ \/ pendingPin = NoPin /\ success /\ UNCHANGED <<pin, sim, faults>>
             \/ pendingPin # NoPin /\ change_sim_pin(pendingPin, success)
          /\ IF ok /\ success
               THEN Goto("register") /\ UnchangedCall /\ UNCHANGED count
               ELSE Return("AUTH_FAILURE")
    BY <1>0, <1>5 DEF PendingPin
  <2>2. sim' \in Sim /\ pin' \in Pins \cup {NoPin}
    BY <1>0, <1>5, <2>1, ChangePinTypes DEF DriverTypes, ModemTypes
  <2>3. faults' \in 0..MaxFaults
    BY <1>0, <1>5, <2>1, FaultTypes DEF change_sim_pin, ModemTypes, Answered
  <2>4. \/ \E r \in Results : Return(r)
        \/ UnchangedCall /\ count' = count /\ pc' = "register"
    BY <1>0, <1>5, <2>1 DEF Results
  <2>5. CallTypes' /\ CallFits'
    BY <1>0, <1>5, <2>1, <2>2, <2>3, <2>4, ReturnTypes DEF PendingPin, CallTypes, PCs, Jobs, CallFits
  <2>6. DriverTypes' /\ ModemTypes'
    BY <1>0, <1>5, <2>1, <2>2, <2>3, <2>4 DEF PendingPin, DriverTypes, ModemTypes
  <2>7. QED
    BY <2>5, <2>6 DEF TypeInv
<1>6. QED
  BY <1>1, <1>2, <1>3, <1>4, <1>5

LEMMA RegistrationTypes ==
  ASSUME TypeInv, connect \/ connectWith \/ AlreadyRegistered \/ EnableURCs \/ SetAutomatic \/ QueryStatus \/ WaitTest \/ WaitRead \/ WaitEnds
  PROVE  TypeInv'
<1> USE DEF Goto, At, UnchangedCall, driverVars, profileVars, pendingVars, modemVars, boundVars,
            callVars
<1>0. DriverTypes /\ CallTypes /\ ModemTypes /\ CallFits
  BY DEF TypeInv
<1>1. CASE connect
  <2>1. CallTypes' /\ CallFits'
    BY <1>0, <1>1 DEF connect, CallTypes, PCs, Jobs, BeginWithInit, Results, CallFits
  <2>2. DriverTypes' /\ ModemTypes'
    BY <1>0, <1>1 DEF connect, DriverTypes, BeginWithInit, Results, ModemTypes
  <2>3. QED
    BY <2>1, <2>2 DEF TypeInv
<1>2. CASE connectWith
  <2>1. apn' \in ApnValues
    BY <1>0, <1>2, ApnsGiven DEF connectWith, DriverTypes, ApnValues
  <2>2. login' \in BOOLEAN
    <3>1. login' = FALSE \/ login' = (apn' \in AppApns \cap WithLogin)
      BY <1>2 DEF connectWith
    <3>2. CASE login' = FALSE
      BY <3>2
    <3>3. CASE login' = (apn' \in AppApns \cap WithLogin)
      BY <3>3
    <3>4. QED
      BY <3>1, <3>2, <3>3
  <2>3. CallTypes' /\ CallFits'
    BY <1>0, <1>2, <2>1, <2>2 DEF connectWith, CallTypes, PCs, Jobs, BeginWithInit, Results, CallFits
  <2>4. DriverTypes' /\ ModemTypes'
    BY <1>0, <1>2, <2>1, <2>2, ApnsGiven DEF connectWith, DriverTypes, BeginWithInit, Results, ModemTypes
  <2>5. QED
    BY <2>3, <2>4 DEF TypeInv
<1>3. CASE AlreadyRegistered
  BY <1>0, <1>3 DEF AlreadyRegistered, CallTypes, PCs, Jobs, RegStep, DriverTypes, ModemTypes, CallFits, TypeInv
<1>4. CASE EnableURCs
  <2>1. urcs' \in SUBSET Domains
    BY <1>0, <1>4 DEF EnableURCs, ModemTypes
  <2>2. /\ pc' \in {"cops", "wait"} /\ count' = 0 /\ ok' = FALSE
        /\ UNCHANGED <<job, arg, registrations, ret, told>>
    BY <1>4 DEF EnableURCs, RegStep
  <2>2a. count' \in Counts
    BY <2>2, BoundsAreNat, CountsAre
  <2>3. CallTypes' /\ CallFits'
    BY <1>0, <2>2, <2>2a, <1>4, <2>1 DEF CallTypes, PCs, EnableURCs, CallFits, RegStep
  <2>4. DriverTypes' /\ ModemTypes'
    BY <1>0, <1>4, <2>1, <2>2, FaultTypes DEF EnableURCs, DriverTypes, RegStep, ModemTypes
  <2>5. QED
    BY <2>3, <2>4 DEF TypeInv
<1>5. CASE SetAutomatic
  <2>1. CallTypes' /\ CallFits'
    BY <1>0, <1>5 DEF SetAutomatic, CallTypes, PCs, Jobs, RegStep, CallFits
  <2>2. DriverTypes' /\ ModemTypes'
    BY <1>0, <1>5, FaultTypes DEF SetAutomatic, DriverTypes, RegStep, ModemTypes
  <2>3. QED
    BY <2>1, <2>2 DEF TypeInv
<1>6. CASE QueryStatus
  <2>1. reg' \in SUBSET Domains
    BY <1>0, <1>6 DEF QueryStatus, DriverTypes, ModemTypes
  <2>2. QED
    BY <1>0, <1>6, <2>1, FaultTypes DEF QueryStatus, CallTypes, PCs, Jobs, RegStep, DriverTypes, ModemTypes, CallFits, TypeInv
<1>7. CASE WaitTest
  BY <1>0, <1>7, BoundsAreNat, CountsAre DEF WaitTest, CallTypes, PCs, Jobs, RegStep, DriverTypes, ModemTypes, CallFits, TypeInv
<1>8. CASE WaitRead
  BY <1>0, <1>8 DEF WaitRead, CallTypes, PCs, Jobs, RegStep, DriverTypes, ModemTypes, CallFits, TypeInv
<1>9. CASE WaitEnds
  <2>1. \/ \E r \in Results : Return(r)
        \/ UNCHANGED <<job, arg, count, ok, ret, registrations>> /\ pc' = "stack"
        \/ /\ UNCHANGED <<job, arg, count, ok, ret>> /\ pc' = "register"
           /\ registrations' = registrations + 1 /\ registrations + 1 < RegTries
    BY <1>0, <1>9 DEF WaitEnds, Results
  <2>2. registrations' \in 0..RegTries - 1
    <3>1. \/ registrations' \in {0, registrations}
          \/ registrations' = registrations + 1 /\ registrations + 1 < RegTries
      BY <2>1, ReturnTypes
    <3>2. QED
      BY <3>1, NumbersFit, BoundsAreNat
  <2>3. CallTypes' /\ CallFits'
    BY <1>0, <1>9, <2>1, <2>2, ReturnTypes DEF WaitEnds, CallTypes, PCs, Jobs, CallFits
  <2>4. DriverTypes' /\ ModemTypes'
    BY <1>0, <1>9, <2>1, <2>2 DEF WaitEnds, DriverTypes, ModemTypes
  <2>5. QED
    BY <2>3, <2>4 DEF TypeInv
<1>10. QED
  BY <1>1, <1>2, <1>3, <1>4, <1>5, <1>6, <1>7, <1>8, <1>9

LEMMA StackTypes ==
  ASSUME TypeInv, CheckProfile \/ NextCredentials \/ StoreProfile \/ TryProtocol \/ ReuseExternal \/ ActivateByCid
  PROVE  TypeInv'
<1> USE DEF Goto, At, UnchangedCall, driverVars, profileVars, pendingVars, modemVars, boundVars,
            callVars
<1>0. DriverTypes /\ CallTypes /\ ModemTypes /\ CallFits
  BY DEF TypeInv
<1>1. CASE CheckProfile
  <2>0. pc = "stack"
    BY <1>1 DEF CheckProfile
  <2>1. \/ \E r \in Results : Return(r) /\ UNCHANGED config
        \/ UnchangedCall /\ count' = count /\ pc' = "credentials" /\ config' \in 0..Len(Table)
    BY <1>0, <1>1, ApnsGiven DEF CheckProfile, Results
  <2>2. config' \in 0..Len(Table) + 1
    BY <1>0, <1>1, <2>1, ApnsGiven DEF DriverTypes
  <2>2a. pc' = "credentials" => config' <= Len(Table)
    <3>1. pc' = "idle" \/ config' \in 0..Len(Table)
      BY <2>1, ReturnTypes
    <3>2. QED
      BY <3>1, ApnsGiven
  <2>3. CallTypes' /\ CallFits'
    BY <1>0, <1>1, <2>1, <2>2, ReturnTypes, <2>0, <2>2a DEF CheckProfile, CallTypes, PCs, Jobs, StackStep, CallFits
  <2>4. DriverTypes' /\ ModemTypes'
    BY <1>0, <1>1, <2>1, <2>2, FaultTypes DEF CheckProfile, DriverTypes, StackStep, ModemTypes
  <2>5. QED
    BY <2>3, <2>4 DEF TypeInv
<1>2. CASE NextCredentials
  <2>0. /\ pc = "credentials"
        /\ \/ config > 0 /\ apn' = Table[config] /\ config' = config + 1
           \/ config = 0 /\ apn' \in {"", apn} /\ config' = config
        /\ login' = login \/ login' = (Table[config] \in WithLogin)
        /\ pc' \in {"external", "profile"} /\ count' = 1 /\ ok' = FALSE
        /\ UNCHANGED <<job, arg, registrations, ret, told>>
    BY <1>2 DEF NextCredentials, StackStep
  <2>1. config \in 0..Len(Table) /\ config' \in 0..Len(Table) + 1 /\ (config > 0 => config \in 1..Len(Table))
    <3>1. /\ pc = "credentials"
          /\ (config = 0 /\ config' = config) \/ (config > 0 /\ config' = config + 1)
      BY <2>0
    <3>2. QED
      BY <3>1, NumbersFit, ApnsGiven
  <2>2. apn' \in ApnValues
    <3>1. \/ apn' \in {"", apn}
          \/ config \in 1..Len(Table) /\ apn' = Table[config]
      BY <2>0, <2>1
    <3>2. apn \in ApnValues
      BY <1>0 DEF DriverTypes
    <3>3. QED
      BY <3>1, <3>2, ApnsGiven DEF ApnValues
  <2>3. login' \in BOOLEAN
    <3>1. CASE login' = login
      BY <1>0, <3>1 DEF DriverTypes
    <3>2. CASE login' = (Table[config] \in WithLogin)
      BY <3>2
    <3>3. QED
      BY <2>0, <3>1, <3>2
  <2>4. auth' \in Auths \cup {"UNKNOWN"}
    BY <1>0, <1>2 DEF NextCredentials, DriverTypes, Auths
  <2>5a. count' \in Counts
    <3>1. count' = 1
      BY <2>0
    <3>2. QED
      BY <3>1, BoundsAreNat, CountsAre
  <2>5. CallTypes' /\ CallFits'
    BY <1>0, <2>0, <2>5a, <1>2, <2>1, <2>2, <2>3, <2>4 DEF CallTypes, PCs, NextCredentials, CallFits, StackStep
  <2>6. DriverTypes' /\ ModemTypes'
    BY <1>0, <1>2, <2>1, <2>2, <2>3, <2>4 DEF NextCredentials, DriverTypes, StackStep, ModemTypes
  <2>7. QED
    BY <2>5, <2>6 DEF TypeInv
<1>3. CASE StoreProfile
  <2>1. \/ \E r \in Results : Return(r)
        \/ UnchangedCall /\ count' = count /\ pc' = "credentials" /\ config <= Len(Table)
        \/ UnchangedCall /\ count' = count /\ pc' = "activate"
    BY <1>0, <1>3 DEF StoreProfile, AttemptEnds, MoreCredentials, Results
  <2>2. CallTypes'
    BY <1>0, <1>3, <2>1, ReturnTypes DEF StoreProfile, CallTypes, PCs, Jobs, StackStep
  <2>3. DriverTypes'
    BY <1>0, <1>3, <2>1 DEF StoreProfile, DriverTypes, StackStep
  <2>4. ModemTypes'
    BY <1>0, <1>3, <2>1, FaultTypes DEF StoreProfile, ModemTypes, StackStep
  <2>5. CallFits'
    BY <1>0, <1>3, <2>1, ReturnTypes DEF StoreProfile, CallFits, StackStep
  <2>6. QED
    BY <2>2, <2>3, <2>4, <2>5 DEF TypeInv
<1>4. CASE TryProtocol
  <2>1. Len(Protocols) <= 3 /\ Len(Protocols) \in Nat
    BY DEF Protocols, ProtocolAuth
  <2>2. \/ \E r \in Results : Return(r)
        \/ UnchangedCall /\ count' = count /\ pc' = "credentials" /\ config <= Len(Table)
        \/ /\ count' = count + 1 /\ count < Len(Protocols) /\ ok' \in BOOLEAN
           /\ UNCHANGED <<pc, job, arg, registrations, ret>>
    BY <1>0, <1>4 DEF TryProtocol, AttemptEnds, MoreCredentials, Results
  <2>3. count' \in Counts
    <3>1. \/ count' \in {0, count}
          \/ count' = count + 1 /\ count < Len(Protocols)
      BY <2>2, ReturnTypes
    <3>2. QED
      BY <2>1, <3>1, NumbersFit, BoundsAreNat, CountsAre
  <2>4. active' \in BOOLEAN /\ faults' \in 0..MaxFaults
    BY <1>0, <1>4, FaultTypes DEF TryProtocol, Activation, ModemTypes
  <2>5. CallTypes' /\ CallFits'
    BY <1>0, <1>4, <2>1, <2>2, <2>3, <2>4, ReturnTypes DEF TryProtocol, CallTypes, PCs, Jobs, StackStep, CallFits
  <2>6. DriverTypes' /\ ModemTypes'
    BY <1>0, <1>4, <2>1, <2>2, <2>3, <2>4 DEF TryProtocol, DriverTypes, StackStep, ModemTypes
  <2>7. QED
    BY <2>5, <2>6 DEF TypeInv
<1>5. CASE ReuseExternal
  <2>1. \/ \E r \in Results : Return(r)
        \/ UnchangedCall /\ count' = count /\ pc' = "credentials" /\ config <= Len(Table)
        \/ UnchangedCall /\ count' = count /\ pc' = "cid"
    BY <1>0, <1>5 DEF ReuseExternal, AttemptEnds, MoreCredentials, Results
  <2>2. CallTypes'
    BY <1>0, <1>5, <2>1, ReturnTypes DEF ReuseExternal, CallTypes, PCs, Jobs, StackStep
  <2>3. DriverTypes'
    BY <1>0, <1>5, <2>1 DEF ReuseExternal, DriverTypes, StackStep
  <2>4. ModemTypes'
    BY <1>0, <1>5, <2>1, FaultTypes DEF ReuseExternal, ModemTypes, StackStep
  <2>5. CallFits'
    BY <1>0, <1>5, <2>1, ReturnTypes DEF ReuseExternal, CallFits, StackStep
  <2>6. QED
    BY <2>2, <2>3, <2>4, <2>5 DEF TypeInv
<1>6. CASE ActivateByCid
  <2>1. \/ \E r \in Results : Return(r)
        \/ UnchangedCall /\ count' = count /\ pc' = "credentials" /\ config <= Len(Table)
    BY <1>0, <1>6 DEF ActivateByCid, AttemptEnds, MoreCredentials, Results
  <2>2. active' \in BOOLEAN /\ faults' \in 0..MaxFaults
    BY <1>0, <1>6, FaultTypes DEF ActivateByCid, Activation, ModemTypes
  <2>3. CallTypes' /\ CallFits'
    BY <1>0, <1>6, <2>1, <2>2, ReturnTypes DEF ActivateByCid, CallTypes, PCs, Jobs, StackStep, CallFits
  <2>4. DriverTypes' /\ ModemTypes'
    BY <1>0, <1>6, <2>1, <2>2 DEF ActivateByCid, DriverTypes, StackStep, ModemTypes
  <2>5. QED
    BY <2>3, <2>4 DEF TypeInv
<1>7. QED
  BY <1>1, <1>2, <1>3, <1>4, <1>5, <1>6

LEMMA OtherCallTypes ==
  ASSUME TypeInv, set_sim_pin \/ set_credentials \/ set_authentication \/ disconnect \/ Deactivate \/ nwk_deregistration \/ deinit \/ HardOff
  PROVE  TypeInv'
<1> USE DEF Goto, At, UnchangedCall, driverVars, profileVars, pendingVars, modemVars, boundVars,
            callVars
<1>0. DriverTypes /\ CallTypes /\ ModemTypes /\ CallFits
  BY DEF TypeInv
<1>1. CASE set_sim_pin
  BY <1>0, <1>1, PinsGiven DEF set_sim_pin, CallTypes, PCs, Jobs, DriverTypes, ModemTypes, CallFits, TypeInv
<1>2. CASE set_credentials
  <2>1. apn' \in ApnValues
    BY <1>0, <1>2, ApnsGiven DEF set_credentials, DriverTypes, ApnValues
  <2>2. login' \in BOOLEAN
    BY <1>0, <1>2 DEF set_credentials
  <2>3. QED
    BY <1>0, <1>2, <2>1, <2>2 DEF set_credentials, CallTypes, PCs, Jobs, DriverTypes, ModemTypes, CallFits, TypeInv
<1>3. CASE set_authentication
  BY <1>0, <1>3, ApnsGiven DEF set_authentication, CallTypes, PCs, Jobs, DriverTypes, ModemTypes, CallFits, TypeInv
<1>4. CASE disconnect
  BY <1>0, <1>4, FaultTypes DEF disconnect, CallTypes, PCs, Jobs, Results, DriverTypes, ModemTypes, CallFits, TypeInv
<1>5. CASE Deactivate
  <2>1. \/ \E r \in Results : Return(r)
        \/ UnchangedCall /\ count' = count /\ pc' = "deregister"
    BY <1>0, <1>5 DEF Deactivate, Results
  <2>2. told' \in BOOLEAN
    BY <1>0, <1>5 DEF Deactivate, CallTypes
  <2>3. CallTypes' /\ CallFits'
    BY <1>0, <1>5, <2>1, <2>2, ReturnTypes DEF Deactivate, CallTypes, PCs, Jobs, CallFits
  <2>4. DriverTypes'
    BY <1>0, <1>5 DEF Deactivate, DriverTypes
  <2>5. ModemTypes'
    <3>1. faults' \in 0..MaxFaults /\ active' \in BOOLEAN
      BY <1>0, <1>5, FaultTypes DEF Deactivate, ModemTypes
    <3>2. QED
      BY <1>0, <1>5, <3>1 DEF Deactivate, ModemTypes
  <2>6. QED
    BY <2>3, <2>4, <2>5 DEF TypeInv
<1>6. CASE nwk_deregistration
  <2>1. PICK r \in Results : Return(r)
    BY <1>0, <1>6 DEF nwk_deregistration, Results
  <2>2. reg' \in SUBSET Domains
    BY <1>0, <1>6 DEF nwk_deregistration, DriverTypes, ModemTypes
  <2>3. CallTypes' /\ CallFits'
    BY <1>0, <1>6, <2>1, <2>2, ReturnTypes DEF nwk_deregistration, CallTypes, PCs, Jobs, CallFits
  <2>4. DriverTypes'
    BY <1>0, <1>6, <2>2 DEF nwk_deregistration, DriverTypes
  <2>5. ModemTypes'
    <3>1. faults' \in 0..MaxFaults
      BY <1>0, <1>6, FaultTypes DEF nwk_deregistration, ModemTypes
    <3>2. QED
      BY <1>0, <1>6, <3>1 DEF nwk_deregistration, ModemTypes
  <2>6. QED
    BY <2>3, <2>4, <2>5 DEF TypeInv
<1>7. CASE deinit
  <2>1. sim' \in Sim
    BY <1>0, <1>7, SimTypes DEF deinit, SwitchedOff, ModemTypes
  <2>2. faults' \in 0..MaxFaults
    BY <1>0, <1>7, FaultTypes DEF deinit, ModemTypes, Answered
  <2>3. power' \in BOOLEAN /\ automatic' \in BOOLEAN /\ active' \in BOOLEAN /\ net' \in SUBSET Domains
          /\ urcs' \in SUBSET Domains
    BY <1>0, <1>7 DEF deinit, SwitchedOff, ModemTypes
  <2>4. QED
    BY <1>0, <1>7, <2>1, <2>2, <2>3 DEF deinit, CallTypes, PCs, Jobs, Results, DriverTypes, ModemTypes, CallFits, TypeInv
<1>8. CASE HardOff
  <2>1. PICK r \in Results : Return(r)
    BY <1>0, <1>8 DEF HardOff, Results
  <2>2. CallTypes' /\ CallFits'
    BY <1>0, <1>8, <2>1, ReturnTypes DEF HardOff, CallTypes, PCs, Jobs, SwitchedOff, CallFits
  <2>3. DriverTypes' /\ ModemTypes'
    BY <1>0, <1>8, <2>1, SimTypes DEF HardOff, DriverTypes, SwitchedOff, ModemTypes
  <2>4. QED
    BY <2>2, <2>3 DEF TypeInv
<1>9. QED
  BY <1>1, <1>2, <1>3, <1>4, <1>5, <1>6, <1>7, <1>8

LEMMA NetworkTypes ==
  ASSUME TypeInv, KnownInv', HandleURC \/ ContextDropped \/ (\E d \in Domains : Registers(d) \/ Unregisters(d)) \/ UNCHANGED vars
  PROVE  TypeInv'
<1> USE DEF Goto, At, UnchangedCall, driverVars, profileVars, pendingVars, modemVars, boundVars,
            callVars
<1>0. DriverTypes /\ CallTypes /\ ModemTypes /\ CallFits
  BY DEF TypeInv
<1>1. CASE HandleURC
  <2>1. line' \in Seq(URC) /\ Head(line) \in URC
    BY <1>0, <1>1 DEF HandleURC, ModemTypes
  <2>2. reg' \in SUBSET Domains
    BY <1>0, <1>1, <2>1 DEF HandleURC, DriverTypes, URC
  <2>3. told' \in BOOLEAN
    BY <1>0, <1>1 DEF HandleURC, CallTypes
  <2>4. QED
    BY <1>0, <1>1, <2>1, <2>2, <2>3 DEF HandleURC, CallTypes, PCs, Jobs, DriverTypes, ModemTypes, CallFits, TypeInv
<1>2. CASE ContextDropped
  <2>1. line' \in Seq(URC)
    BY DEF KnownInv
  <2>2. drops' \in 0..MaxDrops
    BY <1>0, <1>2, BoundsAreNat DEF ContextDropped, ModemTypes
  <2>3. CallTypes' /\ CallFits'
    BY <1>0, <1>2, <2>1, <2>2 DEF ContextDropped, CallTypes, PCs, Jobs, NetworkStep, CallFits
  <2>4. DriverTypes' /\ ModemTypes'
    BY <1>0, <1>2, <2>1, <2>2, BoundsAreNat DEF ContextDropped, DriverTypes, NetworkStep, ModemTypes
  <2>5. QED
    BY <2>3, <2>4 DEF TypeInv
<1>3. CASE (\E d \in Domains : Registers(d) \/ Unregisters(d))
  <2>1. PICK d \in Domains : Registers(d) \/ Unregisters(d)
    BY <1>0, <1>3
  <2>2. line' \in Seq(URC)
    BY DEF KnownInv
  <2>3. drops' \in 0..MaxDrops
    <3>1. drops' = drops \/ (drops > 0 /\ drops' = drops - 1)
      BY <2>1 DEF Registers, Unregisters
    <3>2. QED
      BY <3>1, NumbersFit, BoundsAreNat
  <2>4. net' \in SUBSET Domains
    BY <1>0, <1>3, <2>1 DEF Registers, Unregisters, ModemTypes
  <2>5. CallTypes'
    <3>1. UNCHANGED <<job, arg, pc, count, registrations, ok, ret, told>>
      BY <2>1 DEF Registers, Unregisters, NetworkStep
    <3>2. QED
      BY <1>0, <3>1 DEF CallTypes
  <2>6. DriverTypes'
    BY <1>0, <1>3, <2>1, <2>2, <2>3, <2>4 DEF Registers, Unregisters, DriverTypes, NetworkStep
  <2>7. ModemTypes'
    BY <1>0, <1>3, <2>1, <2>2, <2>3, <2>4, BoundsAreNat DEF Registers, Unregisters, ModemTypes, NetworkStep
  <2>8. CallFits'
    BY <1>0, <1>3, <2>1, <2>2, <2>3, <2>4 DEF Registers, Unregisters, CallFits, NetworkStep
  <2>9. QED
    BY <2>5, <2>6, <2>7, <2>8 DEF TypeInv
<1>4. CASE UNCHANGED vars
  BY <1>0, <1>4 DEF CallTypes, PCs, Jobs, vars, DriverTypes, ModemTypes, CallFits, TypeInv
<1>5. QED
  BY <1>1, <1>2, <1>3, <1>4

LEMMA TypeStep == KnownInv /\ TypeInv /\ [Next]_vars => TypeInv'
BY KnownInvStep, InitTypes, SimOperationTypes, RegistrationTypes, StackTypes, OtherCallTypes, NetworkTypes
   DEF Next, StartCall, ContinueCall

\* TypeOK: for any SIM, tables, bounds and failures the variables keep their
\* types and the loop counters stay within their loops.
THEOREM TypeCorrect == Spec => []TypeOK
<1>1. QED
  BY KnownInvInit, KnownInvStep, TypeInit, TypeStep, TypeInvMeans, PTL DEF Spec

(***************************************************************************)
(* Until an exchange fails the driver believes what the network says: the  *)
(* status it will have when the line has been read is the network's.       *)
(***************************************************************************)

\* The status of d when everything on the line has been read.
Final(d) ==
  \/ \E i \in 1..Len(line) :
       line[i].domain = d /\ line[i].on /\ \A j \in i+1..Len(line) : line[j].domain # d
  \/ d \in reg /\ \A i \in 1..Len(line) : line[i].domain # d

\* A modem that was not set up since it was switched on has nothing to report,
\* and neither has one that is about to be switched off.
Silent == urcs = {} /\ ~active /\ line = << >>

ReadyPCs == {"ready", "pinCheck", "newPin", "pendingCheck", "pendingPin", "register", "cops",
             "query", "wait", "waitRead", "stack", "credentials", "profile", "activate",
             "external", "cid", "deactivate", "deregister"}

Believed ==
  /\ ~initialised => Silent /\ reg = {}
  /\ pc = "hardOff" => Silent
  /\ pc \in ReadyPCs => initialised
  /\ pc \notin {"cops", "query"} => \A d \in urcs : Final(d) <=> d \in net

BeliefInv == faults = MaxFaults => Believed

LEMMA BeliefInit == Init => BeliefInv
BY DEF Init, BeliefInv, Believed, Silent, ReadyPCs

\* Without lines the status is final.
LEMMA FinalWhenRead ==
  ASSUME line = << >>
  PROVE  \A d : Final(d) <=> d \in reg
BY DEF Final

LEMMA FinalAfterEmit ==
  ASSUME line \in Seq(URC), NEW u \in URC, line' = Append(line, u), reg' = reg
  PROVE  \A d : Final(d)' <=> IF d = u.domain THEN u.on ELSE Final(d)
<1> TAKE d
<1>1. /\ Len(line') = Len(line) + 1 /\ Len(line) \in Nat
      /\ line'[Len(line) + 1] = u
      /\ \A i \in 1..Len(line) : line'[i] = line[i]
  OBVIOUS
<1>2. CASE d = u.domain
  <2>1. ~(d \in reg' /\ \A i \in 1..Len(line') : line'[i].domain # d)
    BY <1>1, <1>2
  <2>2. ASSUME u.on
        PROVE  Final(d)'
    BY <1>1, <1>2, <2>2 DEF Final
  <2>3. ASSUME Final(d)'
        PROVE  u.on
    <3>1. PICK i \in 1..Len(line') :
            line'[i].domain = d /\ line'[i].on /\ \A j \in i+1..Len(line') : line'[j].domain # d
      BY <2>1, <2>3 DEF Final
    <3>2. i = Len(line) + 1
      BY <1>1, <1>2, <3>1
    <3>3. QED
      BY <1>1, <3>1, <3>2
  <2>4. QED
    BY <1>2, <2>2, <2>3
<1>3. CASE d # u.domain
  <2>1. ASSUME Final(d)'
        PROVE  Final(d)
    <3>1. CASE d \in reg' /\ \A i \in 1..Len(line') : line'[i].domain # d
      BY <1>1, <3>1 DEF Final
    <3>2. CASE ~(d \in reg' /\ \A i \in 1..Len(line') : line'[i].domain # d)
      <4>1. PICK i \in 1..Len(line') :
              line'[i].domain = d /\ line'[i].on /\ \A j \in i+1..Len(line') : line'[j].domain # d
        BY <2>1, <3>2 DEF Final
      <4>2. i \in 1..Len(line)
        BY <1>1, <1>3, <4>1
      <4>3. \A j \in i+1..Len(line) : line[j].domain # d
        BY <1>1, <4>1, <4>2
      <4>4. QED
        BY <1>1, <4>1, <4>2, <4>3 DEF Final
    <3>3. QED
      BY <3>1, <3>2
  <2>2. ASSUME Final(d)
        PROVE  Final(d)'
    <3>1. CASE d \in reg /\ \A i \in 1..Len(line) : line[i].domain # d
      BY <1>1, <1>3, <3>1 DEF Final
    <3>2. CASE ~(d \in reg /\ \A i \in 1..Len(line) : line[i].domain # d)
      <4>1. PICK i \in 1..Len(line) :
              line[i].domain = d /\ line[i].on /\ \A j \in i+1..Len(line) : line[j].domain # d
        BY <2>2, <3>2 DEF Final
      <4>2. i \in 1..Len(line') /\ line'[i] = line[i]
        BY <1>1
      <4>3. \A j \in i+1..Len(line') : line'[j].domain # d
        BY <1>1, <1>3, <4>1
      <4>4. QED
        BY <4>1, <4>2, <4>3 DEF Final
    <3>3. QED
      BY <3>1, <3>2
  <2>3. QED
    BY <1>3, <2>1, <2>2
<1>4. QED
  BY <1>2, <1>3

\* Reading the head changes no final status.
LEMMA FinalAfterRead ==
  ASSUME line \in Seq(URC), HandleURC
  PROVE  \A d \in Domains : Final(d)' <=> Final(d)
<1> TAKE d \in Domains
<1> DEFINE u == Head(line)
<1>1. /\ line # << >> /\ u \in URC /\ Len(line) \in Nat /\ Len(line') = Len(line) - 1
      /\ u = line[1]
      /\ \A i \in 1..Len(line') : line'[i] = line[i + 1]
  BY DEF HandleURC
<1>2. /\ u.domain = d /\ u.on => d \in reg'
      /\ u.domain = d /\ ~u.on => d \notin reg'
      /\ u.domain # d => (d \in reg' <=> d \in reg)
  BY DEF HandleURC
<1>3. u.on \in BOOLEAN
  BY <1>1 DEF URC
<1> HIDE DEF u
<1>4. ASSUME Final(d)'
      PROVE  Final(d)
  <2>1. CASE d \in reg' /\ \A i \in 1..Len(line') : line'[i].domain # d
    <3>1. \A j \in 2..Len(line) : line[j].domain # d
      <4>1. ASSUME NEW j \in 2..Len(line)
            PROVE  line[j].domain # d
        <5>1. j - 1 \in 1..Len(line') /\ line'[j - 1] = line[j]
          BY <1>1, <4>1
        <5>2. QED
          BY <2>1, <5>1
      <4>2. QED
        BY <4>1
    <3>2. CASE u.domain = d
      <4>1. u.on
        BY <1>2, <1>3, <2>1, <3>2
      <4>2. 1 \in 1..Len(line) /\ 1 + 1 = 2
        BY <1>1
      <4>3. QED
        BY <1>1, <3>1, <3>2, <4>1, <4>2 DEF Final
    <3>3. CASE u.domain # d
      <4>1. \A i \in 1..Len(line) : line[i].domain # d
        BY <1>1, <3>1, <3>3
      <4>2. QED
        BY <1>2, <2>1, <3>3, <4>1 DEF Final
    <3>4. QED
      BY <3>2, <3>3
  <2>2. CASE ~(d \in reg' /\ \A i \in 1..Len(line') : line'[i].domain # d)
    <3>1. PICK i \in 1..Len(line') :
            line'[i].domain = d /\ line'[i].on /\ \A j \in i+1..Len(line') : line'[j].domain # d
      BY <1>4, <2>2 DEF Final
    <3>2. i + 1 \in 1..Len(line) /\ line[i + 1] = line'[i]
      BY <1>1
    <3>3. ASSUME NEW j \in i+1+1..Len(line)
          PROVE  line[j].domain # d
      <4>1. j - 1 \in i+1..Len(line') /\ line'[j - 1] = line[j]
        BY <1>1, <3>3
      <4>2. QED
        BY <3>1, <4>1
    <3>4. QED
      BY <3>1, <3>2, <3>3 DEF Final
  <2>3. QED
    BY <2>1, <2>2
<1>5. ASSUME Final(d)
      PROVE  Final(d)'
  <2>1. CASE d \in reg /\ \A i \in 1..Len(line) : line[i].domain # d
    <3>1. u.domain # d
      BY <1>1, <2>1
    <3>2. \A i \in 1..Len(line') : line'[i].domain # d
      BY <1>1, <2>1
    <3>3. QED
      BY <1>2, <2>1, <3>1, <3>2 DEF Final
  <2>2. CASE ~(d \in reg /\ \A i \in 1..Len(line) : line[i].domain # d)
    <3>1. PICK i \in 1..Len(line) :
            line[i].domain = d /\ line[i].on /\ \A j \in i+1..Len(line) : line[j].domain # d
      BY <1>5, <2>2 DEF Final
    <3>2. \A k \in 1..Len(line') : k >= i => line'[k].domain # d
      BY <1>1, <3>1
    <3>3. CASE i = 1
      <4>1. \A k \in 1..Len(line') : line'[k].domain # d
        BY <3>2, <3>3
      <4>2. d \in reg'
        BY <1>1, <1>2, <3>1, <3>3
      <4>3. QED
        BY <4>1, <4>2 DEF Final
    <3>4. CASE i # 1
      <4>1. i - 1 \in 1..Len(line') /\ line'[i - 1] = line[i]
        BY <1>1, <3>4
      <4>2. \A j \in (i-1)+1..Len(line') : line'[j].domain # d
        BY <1>1, <3>2
      <4>3. QED
        BY <3>1, <4>1, <4>2 DEF Final
    <3>5. QED
      BY <3>3, <3>4
  <2>3. QED
    BY <2>1, <2>2
<1>6. QED
  BY <1>4, <1>5

\* No exchange fails twice.
LEMMA FaultsFall ==
  ASSUME TypeInv, [Next]_vars
  PROVE  faults' = faults \/ Fault
<1> USE DEF Answered, boundVars
<1>1. CASE InitCall \/ connect \/ connectWith \/ SimOperationNow
  BY <1>1 DEF InitCall, connect, connectWith, SimOperationNow, BeginWithInit
<1>2. CASE PowerUp \/ SimNotReady \/ SimReady \/ SimPin \/ SetUp \/ InitFails \/ InitDone
  BY <1>2 DEF PowerUp, SimNotReady, SimReady, SimPin, SetUp, InitFails, InitDone
<1>3. CASE SimOperationDone \/ PendingCheck \/ PendingPin
  BY <1>3 DEF SimOperationDone, PendingCheck, PendingPin, sim_pin_check_enable, change_sim_pin
<1>4. CASE AlreadyRegistered \/ EnableURCs \/ SetAutomatic \/ QueryStatus \/ WaitTest \/ WaitRead
           \/ WaitEnds
  BY <1>4 DEF AlreadyRegistered, EnableURCs, SetAutomatic, QueryStatus, WaitTest, WaitRead, WaitEnds
<1>5. CASE CheckProfile \/ NextCredentials \/ StoreProfile \/ TryProtocol \/ ReuseExternal
           \/ ActivateByCid
  BY <1>5 DEF CheckProfile, NextCredentials, StoreProfile, TryProtocol, ReuseExternal,
              ActivateByCid, Activation
<1>6. CASE SimOperationLater \/ set_sim_pin \/ set_credentials \/ set_authentication \/ disconnect
           \/ Deactivate \/ nwk_deregistration \/ deinit \/ HardOff
  BY <1>6 DEF SimOperationLater, set_sim_pin, set_credentials, set_authentication, disconnect,
              Deactivate, nwk_deregistration, deinit, HardOff
<1>7. CASE HandleURC \/ ContextDropped \/ (\E d \in Domains : Registers(d) \/ Unregisters(d))
  BY <1>7 DEF HandleURC, ContextDropped, Registers, Unregisters, NetworkStep
<1>8. CASE UNCHANGED vars
  BY <1>8 DEF vars
<1>9. QED
  BY <1>1, <1>2, <1>3, <1>4, <1>5, <1>6, <1>7, <1>8 DEF Next, StartCall, ContinueCall

\* A step that neither the modem nor the line takes part in.
LEMMA BelievedKept ==
  ASSUME Believed,
         UNCHANGED <<initialised, reg, net, urcs, active, line>>,
         pc' = "hardOff" => pc = "hardOff",
         pc' \in ReadyPCs => initialised,
         pc \in {"cops", "query"} => pc' \in {"cops", "query"}
  PROVE  Believed'
<1>1. \A d : Final(d)' <=> Final(d)
  BY DEF Final
<1>2. QED
  BY <1>1 DEF Believed, Silent

LEMMA BeliefStep ==
  ASSUME TypeInv, KnownInv, ReadyInv, BeliefInv, [Next]_vars
  PROVE  BeliefInv'
<1> SUFFICES ASSUME faults' = MaxFaults
             PROVE  Believed'
  BY DEF BeliefInv
<1> USE DEF driverVars, profileVars, pendingVars, modemVars, callVars, boundVars, Goto, At,
            UnchangedCall, Answered
<1>1. ~Fault /\ faults' = faults
  <2>1. faults \in 0..MaxFaults
    BY DEF TypeInv, ModemTypes
  <2>2. QED
    BY <2>1, FaultsFall, BoundsAreNat DEF Fault
<1>2. Believed
  BY <1>1 DEF BeliefInv
<1>3. /\ pc \in {"powerUp", "sim", "setUp", "notReady"} => ~initialised
      /\ pc \in ReadyPCs => initialised
      /\ ~initialised => Silent /\ reg = {}
      /\ urcs \in SUBSET Domains
  BY <1>2 DEF ReadyInv, Believed, TypeInv, ModemTypes
<1>4. ASSUME UNCHANGED <<initialised, reg, net, urcs, active, line>>,
             pc \in ReadyPCs, pc' \in ReadyPCs \cup {"idle"},
             pc \in {"cops", "query"} => pc' \in {"cops", "query"}
      PROVE  Believed'
  BY <1>2, <1>3, <1>4, BelievedKept DEF ReadyPCs
<1>5. ASSUME NEW j, NEW a, BeginWithInit(j, a)
      PROVE  Believed'
  BY <1>2, <1>5, BelievedKept DEF BeginWithInit, ReadyPCs
<1>6. CASE InitCall \/ SimOperationNow \/ connect \/ connectWith
  BY <1>5, <1>6 DEF InitCall, SimOperationNow, connect, connectWith
<1>7. CASE PowerUp
  BY <1>1, <1>2, <1>3, <1>7 DEF PowerUp, Believed, Silent, ReadyPCs
<1>8. CASE SimNotReady \/ SimReady \/ SimPin \/ InitFails
  BY <1>2, <1>8, BelievedKept
     DEF SimNotReady, SimReady, SimPin, InitFails, SimStep, Return, ReadyPCs
<1>9. CASE SetUp
  BY <1>1, <1>2, <1>3, <1>9 DEF SetUp, Believed, Silent, ReadyPCs
<1>10. CASE InitDone
  BY <1>4, <1>10 DEF InitDone, Return, ReadyPCs
<1>11. CASE SimOperationDone \/ PendingCheck \/ PendingPin
  BY <1>4, <1>11 DEF SimOperationDone, PendingCheck, PendingPin, Return, ReadyPCs
<1>12. CASE AlreadyRegistered \/ SetAutomatic \/ WaitTest \/ WaitRead \/ WaitEnds
  BY <1>4, <1>12 DEF AlreadyRegistered, SetAutomatic, WaitTest, WaitRead, WaitEnds, RegStep, Return,
                     ReadyPCs
<1>13. CASE EnableURCs
  BY <1>1, <1>3, <1>13 DEF EnableURCs, RegStep, Believed, ReadyPCs
<1>14. CASE QueryStatus
  <2>1. line' = << >> /\ reg' = net' /\ pc' = "wait" /\ initialised'
    BY <1>1, <1>3, <1>14 DEF QueryStatus, RegStep, ReadyPCs
  <2>2. \A d : Final(d)' <=> d \in reg'
    BY <2>1 DEF Final
  <2>3. QED
    BY <2>1, <2>2 DEF Believed
<1>15. CASE CheckProfile \/ NextCredentials \/ StoreProfile
  BY <1>4, <1>15 DEF CheckProfile, NextCredentials, StoreProfile, StackStep, AttemptEnds, Return,
                     ReadyPCs
<1>16. ASSUME UNCHANGED <<initialised, reg, net, urcs, line>>,
              pc \in ReadyPCs \ {"cops", "query"}, pc' \in ReadyPCs \cup {"idle"}
       PROVE  Believed'
  <2>1. \A d : Final(d)' <=> Final(d)
    BY <1>16 DEF Final
  <2>2. QED
    BY <1>2, <1>3, <1>16, <2>1 DEF Believed, ReadyPCs
<1>17. CASE TryProtocol \/ ReuseExternal \/ ActivateByCid
  BY <1>16, <1>17 DEF TryProtocol, ReuseExternal, ActivateByCid, StackStep, AttemptEnds, Return,
                      ReadyPCs
<1>18. CASE Deactivate
  BY <1>16, <1>18 DEF Deactivate, Return, ReadyPCs
<1>19. CASE nwk_deregistration
  <2>1. line' = << >> /\ reg' = {} /\ net' = {} /\ pc' = "idle" /\ initialised'
    BY <1>1, <1>3, <1>19 DEF nwk_deregistration, Return, ReadyPCs
  <2>2. \A d : Final(d)' <=> d \in reg'
    BY <2>1 DEF Final
  <2>3. QED
    BY <2>1, <2>2 DEF Believed, ReadyPCs
<1>20. CASE SimOperationLater \/ set_sim_pin \/ set_credentials \/ set_authentication
  BY <1>2, <1>20, BelievedKept
     DEF SimOperationLater, set_sim_pin, set_credentials, set_authentication, Believed
<1>21. CASE disconnect
  <2>1. CASE active
    BY <1>2, <1>3, <1>21, <2>1, BelievedKept DEF disconnect, Silent, ReadyPCs
  <2>2. CASE ~active
    BY <1>1, <1>2, <1>21, <2>2, BelievedKept DEF disconnect, ReadyPCs
  <2>3. QED
    BY <2>1, <2>2
<1>22. CASE deinit
  BY <1>1, <1>2, <1>3, <1>22 DEF deinit, SwitchedOff, Believed, Silent, ReadyPCs
<1>23. CASE HardOff
  BY <1>2, <1>23 DEF HardOff, SwitchedOff, Return, Believed, Silent, ReadyPCs
<1>24. CASE HandleURC
  <2>1. /\ line # << >> /\ UNCHANGED <<pc, initialised, net, urcs, active>>
    BY <1>24 DEF HandleURC
  <2>2. \A d \in urcs : Final(d)' <=> Final(d)
    BY <1>3, <1>24, FinalAfterRead DEF KnownInv
  <2>3. initialised /\ pc # "hardOff"
    BY <1>2, <2>1 DEF Believed, Silent
  <2>4. QED
    BY <1>2, <2>1, <2>2, <2>3 DEF Believed
<1>25. ASSUME NEW d \in Domains, NEW b \in BOOLEAN, (b /\ Registers(d)) \/ (~b /\ Unregisters(d))
       PROVE  Believed'
  <2> DEFINE u == [domain |-> d, on |-> b]
  <2>1. /\ UNCHANGED <<pc, initialised, reg, urcs, active>>
        /\ net' = IF b THEN net \cup {d} ELSE net \ {d}
        /\ line' = IF d \in urcs THEN Append(line, u) ELSE line
    BY <1>25 DEF Registers, Unregisters, NetworkStep, Emit
  <2>2. u \in URC /\ u.domain = d /\ u.on = b
    BY DEF URC
  <2> HIDE DEF u
  <2>3. CASE d \in urcs
    <3>1. \A e : Final(e)' <=> IF e = d THEN b ELSE Final(e)
      BY <2>1, <2>2, <2>3, FinalAfterEmit DEF KnownInv
    <3>2. initialised /\ pc # "hardOff"
      BY <1>2, <2>3 DEF Believed, Silent
    <3>3. QED
      BY <1>2, <2>1, <3>1, <3>2 DEF Believed
  <2>4. CASE d \notin urcs
    <3>1. \A e : Final(e)' <=> Final(e)
      BY <2>1, <2>4 DEF Final
    <3>2. QED
      BY <1>2, <2>1, <2>4, <3>1 DEF Believed, Silent
  <2>5. QED
    BY <2>3, <2>4
<1>26. CASE ContextDropped
  <2> DEFINE u == [domain |-> "context", on |-> FALSE]
  <2>1. u \in URC /\ u.domain = "context" /\ "context" \notin Domains
    BY ConnectAssumption DEF URC
  <2>2. line' = Append(line, u) /\ active /\ UNCHANGED <<pc, initialised, reg, urcs, net>>
    BY <1>26 DEF ContextDropped, NetworkStep, Emit
  <2> HIDE DEF u
  <2>3. \A d \in urcs : Final(d)' <=> Final(d)
    BY <1>3, <2>1, <2>2, FinalAfterEmit DEF KnownInv
  <2>4. initialised /\ pc # "hardOff"
    BY <1>2, <2>2 DEF Believed, Silent
  <2>5. QED
    BY <1>2, <2>2, <2>3, <2>4 DEF Believed
<1>27. CASE UNCHANGED vars
  <2>1. UNCHANGED <<initialised, reg, net, urcs, active, line>> /\ pc' = pc
    BY <1>27 DEF vars
  <2>2. pc \in ReadyPCs => initialised
    BY <1>3
  <2>3. QED
    BY <1>2, <2>1, <2>2, BelievedKept
<1>28. CASE \E d \in Domains : Registers(d) \/ Unregisters(d)
  <2>1. PICK d \in Domains : Registers(d) \/ Unregisters(d)
    BY <1>28
  <2>2. \E b \in BOOLEAN : (b /\ Registers(d)) \/ (~b /\ Unregisters(d))
    BY <2>1
  <2>3. QED
    BY <2>2, <1>25
<1>29. QED
  BY <1>6, <1>7, <1>8, <1>9, <1>10, <1>11, <1>12, <1>13, <1>14, <1>15, <1>17, <1>18, <1>19, <1>20,
     <1>21, <1>22, <1>23, <1>24, <1>28, <1>26, <1>27
     DEF Next, StartCall, ContinueCall

\* BeliefMatchesNetwork: through every registration, loss, deregistration and
\* power cycle, and any number of URCs on the line, the driver's registration
\* status is the network's once they have been read, until an exchange fails.
THEOREM BeliefFollowsTheNetwork == Spec => []BeliefMatchesNetwork
<1>1. TypeInv /\ ReadyInv /\ BeliefInv => BeliefMatchesNetwork
  <2> SUFFICES ASSUME TypeInv, ReadyInv, BeliefInv, pc = "idle", line = << >>, faults = MaxFaults
               PROVE  (urcs = Domains => reg = net) /\ (~power => reg = {})
    BY DEF BeliefMatchesNetwork
  <2>1. Believed
    BY DEF BeliefInv
  <2>2. \A d \in urcs : d \in reg <=> d \in net
    BY <2>1, FinalWhenRead DEF Believed
  <2>3. reg \in SUBSET Domains /\ net \in SUBSET Domains
    BY DEF TypeInv, DriverTypes, ModemTypes
  <2>4. QED
    BY <2>1, <2>2, <2>3 DEF Believed, ReadyInv
<1>2. /\ TypeInv /\ KnownInv /\ ReadyInv /\ BeliefInv /\ [Next]_vars => BeliefInv'
      /\ Init => TypeInv /\ KnownInv /\ ReadyInv /\ BeliefInv
  BY BeliefStep, TypeInit, KnownInvInit, ReadyInvInit, BeliefInit
<1>3. QED
  BY <1>1, <1>2, KnownInvStep, TypeStep, ReadyInvStep, PTL DEF Spec

(***************************************************************************)
(* The PIN the driver holds is the SIM's, and the SIM was never given      *)
(* another, as long as the application gave the right one and no exchange  *)
(* failed.                                                                 *)
(***************************************************************************)

RightPinGiven ==
  faults = MaxFaults /\ GivenPins = {} /\ (\E p \in Pins : SetPins = {p} /\ SimPins = {p})

PinInv == RightPinGiven => pin = sim.pin /\ sim.left = MaxLeft

LEMMA PinInvInit == Init => PinInv
BY DEF Init, PinInv, RightPinGiven

\* The steps that deal with the PIN.
LEMMA PinSteps ==
  ASSUME [Next]_vars
  PROVE  \/ UNCHANGED <<pin, sim>>
         \/ PowerUp \/ SimPin \/ SimOperationDone \/ PendingCheck \/ PendingPin \/ set_sim_pin
         \/ deinit \/ HardOff
<1> USE DEF driverVars, modemVars, RegStep, StackStep
<1>1. CASE InitCall \/ connect \/ connectWith \/ SimOperationNow
  BY <1>1 DEF InitCall, connect, connectWith, SimOperationNow, BeginWithInit
<1>2. CASE SimNotReady \/ SimReady \/ SetUp \/ InitFails \/ InitDone
  BY <1>2 DEF SimNotReady, SimReady, SetUp, InitFails, InitDone, SimStep
<1>3. CASE AlreadyRegistered \/ EnableURCs \/ SetAutomatic \/ QueryStatus \/ WaitTest \/ WaitRead
           \/ WaitEnds
  BY <1>3 DEF AlreadyRegistered, EnableURCs, SetAutomatic, QueryStatus, WaitTest, WaitRead, WaitEnds
<1>4. CASE CheckProfile \/ NextCredentials \/ StoreProfile \/ TryProtocol \/ ReuseExternal
           \/ ActivateByCid
  BY <1>4 DEF CheckProfile, NextCredentials, StoreProfile, TryProtocol, ReuseExternal, ActivateByCid
<1>5. CASE SimOperationLater \/ set_credentials \/ set_authentication \/ disconnect \/ Deactivate
           \/ nwk_deregistration
  BY <1>5 DEF SimOperationLater, set_credentials, set_authentication, disconnect, Deactivate,
              nwk_deregistration
<1>6. CASE HandleURC \/ ContextDropped \/ (\E d \in Domains : Registers(d) \/ Unregisters(d))
  BY <1>6 DEF HandleURC, ContextDropped, Registers, Unregisters, NetworkStep
<1>7. CASE UNCHANGED vars
  BY <1>7 DEF vars
<1>8. QED
  BY <1>1, <1>2, <1>3, <1>4, <1>5, <1>6, <1>7 DEF Next, StartCall, ContinueCall

\* A right PIN that is sent keeps the attempts and says what the driver
\* believes: that of the SIM if the answer comes.
LEMMA PinCheckRight ==
  ASSUME SimIsRecord, NEW e, NEW success \in BOOLEAN, sim_pin_check_enable(e, success), ~Fault,
         pin = sim.pin, sim.left = MaxLeft
  PROVE  sim'.pin = sim.pin /\ sim'.left = MaxLeft
<1>1. Tried(pin) = sim
  <2>1. Tried(pin) = [sim EXCEPT !.left = MaxLeft]
    BY DEF Tried
  <2>2. QED
    BY <2>1 DEF SimIsRecord
<1>2. \/ sim' = sim
      \/ sim' = [sim EXCEPT !.check = e]
  BY <1>1 DEF sim_pin_check_enable
<1>3. QED
  BY <1>2 DEF SimIsRecord

LEMMA ChangePinRight ==
  ASSUME SimIsRecord, NEW new, NEW success \in BOOLEAN, change_sim_pin(new, success), ~Fault,
         pin = sim.pin, sim.left = MaxLeft
  PROVE  pin' = sim'.pin /\ sim'.left = MaxLeft
<1>1. Tried(pin) = sim
  <2>1. Tried(pin) = [sim EXCEPT !.left = MaxLeft]
    BY DEF Tried
  <2>2. QED
    BY <2>1 DEF SimIsRecord
<1>2. SimAccepts(pin)
  BY BoundsAreNat DEF SimAccepts
<1>3. CASE pin = NoPin
  BY <1>3 DEF change_sim_pin
<1>4. CASE pin # NoPin /\ ~sim.check
  <2>1. sim' = sim /\ ~success /\ pin' = pin
    BY <1>4 DEF change_sim_pin, Changed
  <2>2. QED
    BY <2>1
<1>5. CASE pin # NoPin /\ sim.check
  <2>1. sim' = [sim EXCEPT !.pin = new] /\ pin' = new
    BY <1>1, <1>2, <1>5 DEF change_sim_pin, Changed
  <2>2. QED
    BY <2>1 DEF SimIsRecord
<1>6. QED
  BY <1>3, <1>4, <1>5

LEMMA PinInvStep ==
  ASSUME TypeInv, ReadyInv, PinInv, [Next]_vars
  PROVE  PinInv'
<1> SUFFICES ASSUME RightPinGiven'
             PROVE  pin' = sim'.pin /\ sim'.left = MaxLeft
  BY DEF PinInv
<1>1. /\ faults' = MaxFaults
      /\ GivenPins = {}
      /\ \E p \in Pins : SetPins = {p} /\ SimPins = {p}
  BY DEF RightPinGiven
<1>2. ~Fault /\ faults = MaxFaults
  <2>1. faults \in 0..MaxFaults
    BY DEF TypeInv, ModemTypes
  <2>2. QED
    BY <1>1, <2>1, FaultsFall, BoundsAreNat DEF Fault
<1>3. pin = sim.pin /\ sim.left = MaxLeft
  BY <1>1, <1>2 DEF PinInv, RightPinGiven
<1>4. SimIsRecord /\ sim.pin \in Pins /\ pin # NoPin
  <2>1. SimIsRecord /\ sim.pin \in Pins
    BY DEF ReadyInv, TypeInv, ModemTypes, Sim
  <2>2. QED
    BY <1>3, <2>1, PinsGiven
<1>5. LockedSim.pin = sim.pin /\ LockedSim.left = sim.left
  BY <1>4 DEF LockedSim, SimIsRecord
<1>6. CASE UNCHANGED <<pin, sim>>
  BY <1>3, <1>6
<1>7. CASE PowerUp
  <2>1. pin' = pin
    <3>1. arg \in Pins /\ job = "init" => arg \in GivenPins \cup {NoPin}
      BY <1>7 DEF PowerUp, TypeInv, CallFits
    <3>2. ~(arg \in Pins /\ job = "init")
      BY <1>1, <3>1, PinsGiven
    <3>3. QED
      BY <1>7, <3>2 DEF PowerUp
  <2>2. sim' = sim \/ sim' = LockedSim
    BY <1>7 DEF PowerUp
  <2>3. QED
    BY <1>3, <1>5, <2>1, <2>2
<1>8. CASE SimPin
  <2>1. SimAccepts(pin)
    BY <1>3, BoundsAreNat DEF SimAccepts
  <2>2. /\ pin' = pin
        /\ sim' = [Tried(pin) EXCEPT !.unlocked = TRUE]
    BY <1>2, <1>8, <2>1 DEF SimPin, SimStep
  <2>3. Tried(pin) = [sim EXCEPT !.left = MaxLeft]
    BY <1>3 DEF Tried
  <2>4. QED
    BY <1>3, <1>4, <2>2, <2>3 DEF SimIsRecord
<1>9. CASE SimOperationDone
  <2>1. PICK success \in BOOLEAN :
          \/ sim_pin_check_enable(arg, success) /\ UNCHANGED pin
          \/ change_sim_pin(arg, success)
    BY <1>9 DEF SimOperationDone
  <2>2. QED
    BY <1>2, <1>3, <1>4, <2>1, PinCheckRight, ChangePinRight
<1>10. CASE PendingCheck
  <2>1. PICK success \in BOOLEAN :
          \/ UNCHANGED sim
          \/ sim_pin_check_enable(pendingCheck, success)
    BY <1>10 DEF PendingCheck
  <2>2. pin' = pin
    BY <1>10 DEF PendingCheck
  <2>3. QED
    BY <1>2, <1>3, <1>4, <2>1, <2>2, PinCheckRight
<1>11. CASE PendingPin
  <2>1. PICK success \in BOOLEAN :
          \/ UNCHANGED <<pin, sim>>
          \/ change_sim_pin(pendingPin, success)
    BY <1>11 DEF PendingPin
  <2>2. QED
    BY <1>2, <1>3, <1>4, <2>1, ChangePinRight
<1>12. CASE set_sim_pin
  BY <1>1, <1>12 DEF set_sim_pin
<1>13. CASE deinit \/ HardOff
  <2>1. pin' = pin /\ (sim' = sim \/ sim' = LockedSim)
    BY <1>13 DEF deinit, HardOff, SwitchedOff, driverVars, modemVars
  <2>2. QED
    BY <1>3, <1>5, <2>1
<1>14. QED
  BY <1>6, <1>7, <1>8, <1>9, <1>10, <1>11, <1>12, <1>13, PinSteps

\* NoAttemptWasted: with the right PIN given once, whatever the application
\* then switches, changes or power-cycles, the SIM keeps all its attempts
\* until an exchange fails.
THEOREM NoAttemptIsWasted == Spec => []NoAttemptWasted
<1>1. PinInv => NoAttemptWasted
  BY DEF PinInv, RightPinGiven, NoAttemptWasted
<1>2. QED
  BY <1>1, KnownInvInit, KnownInvStep, TypeInit, TypeStep, ReadyInvInit, ReadyInvStep, PinInvInit,
     PinInvStep, PTL DEF Spec

(***************************************************************************)
(* The deferred SIM operations.                                            *)
(***************************************************************************)

LEMMA PendingSteps ==
  ASSUME [Next]_vars
  PROVE  UNCHANGED pendingVars \/ SimOperationLater \/ PendingCheck \/ PendingPin
<1> USE DEF pendingVars, RegStep, StackStep
<1>1. CASE InitCall \/ connect \/ connectWith \/ SimOperationNow
  BY <1>1 DEF InitCall, connect, connectWith, SimOperationNow, BeginWithInit
<1>2. CASE PowerUp \/ SimNotReady \/ SimReady \/ SimPin \/ SetUp \/ InitFails \/ InitDone
           \/ SimOperationDone
  BY <1>2 DEF PowerUp, SimNotReady, SimReady, SimPin, SetUp, InitFails, InitDone, SimStep,
              SimOperationDone
<1>3. CASE AlreadyRegistered \/ EnableURCs \/ SetAutomatic \/ QueryStatus \/ WaitTest \/ WaitRead
           \/ WaitEnds
  BY <1>3 DEF AlreadyRegistered, EnableURCs, SetAutomatic, QueryStatus, WaitTest, WaitRead, WaitEnds
<1>4. CASE CheckProfile \/ NextCredentials \/ StoreProfile \/ TryProtocol \/ ReuseExternal
           \/ ActivateByCid
  BY <1>4 DEF CheckProfile, NextCredentials, StoreProfile, TryProtocol, ReuseExternal, ActivateByCid
<1>5. CASE set_sim_pin \/ set_credentials \/ set_authentication \/ disconnect \/ Deactivate
           \/ nwk_deregistration \/ deinit \/ HardOff
  BY <1>5 DEF set_sim_pin, set_credentials, set_authentication, disconnect, Deactivate,
              nwk_deregistration, deinit, HardOff
<1>6. CASE HandleURC \/ ContextDropped \/ (\E d \in Domains : Registers(d) \/ Unregisters(d))
  BY <1>6 DEF HandleURC, ContextDropped, Registers, Unregisters, NetworkStep
<1>7. CASE UNCHANGED vars
  BY <1>7 DEF vars
<1>8. QED
  BY <1>1, <1>2, <1>3, <1>4, <1>5, <1>6, <1>7 DEF Next, StartCall, ContinueCall

\* A change of the PIN that succeeds changes both copies of it.
LEMMA ChangedBoth ==
  ASSUME SimIsRecord, NEW new, change_sim_pin(new, TRUE)
  PROVE  pin' = new /\ sim'.pin = new
<1>1. sim' = [Tried(pin) EXCEPT !.pin = new] /\ pin' = new
  BY DEF change_sim_pin, Changed
<1>2. Tried(pin) = [check |-> sim.check, pin |-> sim.pin, unlocked |-> sim.unlocked,
                    left |-> Tried(pin).left]
  BY TriedKeeps
<1>3. QED
  BY <1>1, <1>2

\* Until an exchange fails, the driver of a modem that is up knows whether the
\* SIM checks the PIN: the SIM of one that is not is unlocked if it does not.
CheckInv ==
  faults = MaxFaults =>
    IF initialised \/ pc = "setUp" THEN check = sim.check ELSE sim.unlocked = ~sim.check

LEMMA CheckInit == Init => CheckInv
<1> SUFFICES ASSUME Init
             PROVE  CheckInv
  OBVIOUS
<1>1. PICK p \in SimPins, c \in BOOLEAN :
        sim = [check |-> c, pin |-> p, unlocked |-> ~c, left |-> MaxLeft]
  BY DEF Init
<1>2. sim.unlocked = ~sim.check
  BY <1>1
<1>3. QED
  BY <1>2 DEF Init, CheckInv

\* The steps that deal with the check.
LEMMA CheckSteps ==
  ASSUME [Next]_vars
  PROVE  \/ UNCHANGED <<check, sim, initialised>> /\ (pc' = "setUp" <=> pc = "setUp")
         \/ PowerUp \/ SimReady \/ SimPin \/ SetUp \/ SimOperationDone \/ PendingCheck
         \/ PendingPin \/ deinit \/ HardOff
<1> USE DEF driverVars, modemVars, callVars, RegStep, StackStep, At, Goto, Return, UnchangedCall
<1>1. CASE InitCall \/ connect \/ connectWith \/ SimOperationNow
  BY <1>1 DEF InitCall, connect, connectWith, SimOperationNow, BeginWithInit
<1>2. CASE SimNotReady \/ InitFails \/ InitDone
  BY <1>2 DEF SimNotReady, InitFails, InitDone, SimStep
<1>3. CASE AlreadyRegistered \/ EnableURCs \/ SetAutomatic \/ QueryStatus \/ WaitTest \/ WaitRead
           \/ WaitEnds
  BY <1>3 DEF AlreadyRegistered, EnableURCs, SetAutomatic, QueryStatus, WaitTest, WaitRead, WaitEnds
<1>4. CASE CheckProfile \/ NextCredentials \/ StoreProfile \/ TryProtocol \/ ReuseExternal
           \/ ActivateByCid
  BY <1>4 DEF CheckProfile, NextCredentials, StoreProfile, TryProtocol, ReuseExternal, ActivateByCid,
              AttemptEnds
<1>5. CASE SimOperationLater \/ set_sim_pin \/ set_credentials \/ set_authentication \/ disconnect
           \/ Deactivate \/ nwk_deregistration
  BY <1>5 DEF SimOperationLater, set_sim_pin, set_credentials, set_authentication, disconnect,
              Deactivate, nwk_deregistration
<1>6. CASE HandleURC \/ ContextDropped \/ (\E d \in Domains : Registers(d) \/ Unregisters(d))
  BY <1>6 DEF HandleURC, ContextDropped, Registers, Unregisters, NetworkStep
<1>7. CASE UNCHANGED vars
  BY <1>7 DEF vars
<1>8. QED
  BY <1>1, <1>2, <1>3, <1>4, <1>5, <1>6, <1>7 DEF Next, StartCall, ContinueCall

\* A switch of the check that is answered leaves the driver and the SIM agreed.
LEMMA CheckSwitched ==
  ASSUME SimIsRecord, NEW e, NEW success \in BOOLEAN, sim_pin_check_enable(e, success)
  PROVE  /\ success => check' = e
         /\ success /\ check # e => sim'.check = e
         /\ check = sim.check => check' = sim'.check \/ Fault
<1>1. Tried(pin) = [check |-> sim.check, pin |-> sim.pin, unlocked |-> sim.unlocked,
                    left |-> Tried(pin).left]
  BY TriedKeeps
<1>2. Tried(pin).check = sim.check /\ [Tried(pin) EXCEPT !.check = e].check = e
  <2> DEFINE l == Tried(pin).left
  <2>1. Tried(pin) = [check |-> sim.check, pin |-> sim.pin, unlocked |-> sim.unlocked, left |-> l]
    BY <1>1
  <2> HIDE DEF l
  <2>2. QED
    BY <2>1
<1>3. CASE UNCHANGED <<check, sim>> /\ (success => check = e)
  BY <1>3
<1>4. CASE /\ check # e /\ success = SimAccepts(pin)
           /\ sim' = IF success THEN [Tried(pin) EXCEPT !.check = e] ELSE Tried(pin)
           /\ check' = IF success THEN e ELSE check
  BY <1>2, <1>4
<1>5. CASE Fault /\ ~success
  BY <1>5
<1>6. QED
  BY <1>3, <1>4, <1>5 DEF sim_pin_check_enable

\* A change of the PIN leaves the check as it was.
LEMMA ChangeKeepsCheck ==
  ASSUME SimIsRecord, NEW new, NEW success \in BOOLEAN, change_sim_pin(new, success)
  PROVE  sim'.check = sim.check
<1> DEFINE l == Tried(pin).left
<1>1. Tried(pin) = [check |-> sim.check, pin |-> sim.pin, unlocked |-> sim.unlocked, left |-> l]
  BY TriedKeeps
<1> HIDE DEF l
<1>2. \/ sim' = sim
      \/ sim' = Tried(pin)
      \/ sim' = [Tried(pin) EXCEPT !.pin = new]
  BY DEF change_sim_pin, Changed
<1>3. QED
  BY <1>1, <1>2

LEMMA CheckStep ==
  ASSUME TypeInv, ReadyInv, BeliefInv, CheckInv, [Next]_vars
  PROVE  CheckInv'
<1> SUFFICES ASSUME faults' = MaxFaults
             PROVE  (IF initialised \/ pc = "setUp" THEN check = sim.check
                     ELSE sim.unlocked = ~sim.check)'
  BY DEF CheckInv
<1>1. ~Fault /\ faults = MaxFaults
  <2>1. faults \in 0..MaxFaults
    BY DEF TypeInv, ModemTypes
  <2>2. QED
    BY <2>1, FaultsFall, BoundsAreNat DEF Fault
<1>2. IF initialised \/ pc = "setUp" THEN check = sim.check ELSE sim.unlocked = ~sim.check
  BY <1>1 DEF CheckInv
<1>3. /\ SimIsRecord
      /\ check \in BOOLEAN /\ sim.check \in BOOLEAN /\ sim.unlocked \in BOOLEAN
  BY DEF ReadyInv, TypeInv, ModemTypes, DriverTypes, Sim
<1>4. /\ pc \in {"powerUp", "sim", "setUp", "notReady"} => ~initialised
      /\ pc \in {"pinCheck", "newPin", "pendingCheck", "pendingPin"} => initialised
  BY <1>1 DEF ReadyInv, BeliefInv, Believed, ReadyPCs
<1>5. /\ LockedSim.check = sim.check
      /\ LockedSim.unlocked = ~sim.check
  BY <1>3 DEF LockedSim, SimIsRecord
<1>6. CASE UNCHANGED <<check, sim, initialised>> /\ (pc' = "setUp" <=> pc = "setUp")
  BY <1>2, <1>6
<1>7. CASE PowerUp
  <2>1. /\ ~initialised /\ initialised' = initialised /\ pc = "powerUp"
        /\ pc' # "setUp" /\ (sim' = sim \/ sim' = LockedSim)
    BY <1>4, <1>7 DEF PowerUp, Goto
  <2>2. QED
    BY <1>2, <1>5, <2>1
<1>8. CASE SimReady
  <2>1. /\ ~initialised /\ initialised' = initialised /\ pc = "sim" /\ sim' = sim
        /\ pc' = IF sim.unlocked THEN "setUp" ELSE "notReady"
        /\ check' = IF sim.unlocked THEN FALSE ELSE check
    BY <1>4, <1>8 DEF SimReady, SimStep, At, Goto
  <2>2. QED
    BY <1>2, <1>3, <2>1
<1>9. CASE SimPin
  <2> DEFINE after == [Tried(pin) EXCEPT !.unlocked = SimAccepts(pin)]
             l == Tried(pin).left
  <2>1. after = [check |-> sim.check, pin |-> sim.pin, unlocked |-> SimAccepts(pin), left |-> l]
    BY <1>3, TriedKeeps
  <2>2. /\ ~initialised /\ initialised' = initialised /\ pc = "sim" /\ ~sim.unlocked
        /\ check' = TRUE
        /\ \/ sim' = after /\ pc' = "setUp"
           \/ ~SimAccepts(pin) /\ sim' \in {sim, after} /\ pc' = "notReady"
    BY <1>1, <1>4, <1>9 DEF SimPin, SimStep, At, Goto
  <2> HIDE DEF after, l
  <2>3. sim.check = TRUE /\ after.check = TRUE /\ after.unlocked = SimAccepts(pin)
    BY <1>2, <1>3, <2>1, <2>2
  <2>4. CASE sim' = after /\ pc' = "setUp"
    BY <2>2, <2>3, <2>4
  <2>5. CASE ~SimAccepts(pin) /\ sim' \in {sim, after} /\ pc' = "notReady"
    <3>1. sim'.unlocked = FALSE /\ sim'.check = TRUE
      BY <1>3, <2>2, <2>3, <2>5
    <3>2. QED
      BY <2>2, <2>5, <3>1
  <2>6. QED
    BY <2>2, <2>4, <2>5
<1>10. CASE SetUp
  <2>1. pc = "setUp" /\ pc' # "setUp" /\ initialised' = TRUE /\ UNCHANGED <<check, sim>>
    BY <1>1, <1>10 DEF SetUp, At, Goto, modemVars
  <2>2. QED
    BY <1>2, <2>1
<1>11. CASE SimOperationDone
  <2>1. PICK success \in BOOLEAN :
          \/ pc = "pinCheck" /\ sim_pin_check_enable(arg, success)
          \/ pc = "newPin" /\ change_sim_pin(arg, success) /\ UNCHANGED check
    BY <1>11 DEF SimOperationDone, At
  <2>2. initialised /\ initialised' = initialised
    BY <1>4, <1>11 DEF SimOperationDone, At
  <2>3. QED
    BY <1>1, <1>2, <1>3, <2>1, <2>2, CheckSwitched, ChangeKeepsCheck
<1>12. CASE PendingCheck
  <2>1. PICK success \in BOOLEAN :
          UNCHANGED <<check, sim>> \/ sim_pin_check_enable(pendingCheck, success)
    BY <1>12 DEF PendingCheck
  <2>2. initialised /\ initialised' = initialised
    BY <1>4, <1>12 DEF PendingCheck, At
  <2>3. QED
    BY <1>1, <1>2, <1>3, <2>1, <2>2, CheckSwitched
<1>13. CASE PendingPin
  <2>1. PICK success \in BOOLEAN :
          UNCHANGED sim \/ change_sim_pin(pendingPin, success)
    BY <1>13 DEF PendingPin
  <2>2. initialised /\ initialised' = initialised /\ check' = check
    BY <1>4, <1>13 DEF PendingPin, At
  <2>3. QED
    BY <1>2, <1>3, <2>1, <2>2, ChangeKeepsCheck
<1>14. CASE deinit
  <2>1. /\ pc' = "hardOff" /\ pc = "idle" /\ UNCHANGED <<check, initialised>>
        /\ sim' = sim \/ (initialised /\ sim' = LockedSim)
    BY <1>14 DEF deinit, SwitchedOff, Goto, modemVars, driverVars
  <2>2. QED
    BY <1>2, <1>5, <2>1
<1>15. CASE HardOff
  <2>1. pc' = "idle" /\ initialised' = FALSE /\ sim' = LockedSim
    BY <1>15 DEF HardOff, SwitchedOff, Return
  <2>2. QED
    BY <1>5, <2>1
<1>16. QED
  BY <1>6, <1>7, <1>8, <1>9, <1>10, <1>11, <1>12, <1>13, <1>14, <1>15, CheckSteps

CarriedOut ==
  /\ pendingPin # NoPin /\ pendingPin' = NoPin /\ pc' = "register" =>
       pin' = pendingPin /\ sim'.pin = pendingPin
  /\ pendingCheck # Unset /\ pendingCheck' = Unset /\ ok' =>
       /\ check' = pendingCheck
       /\ check # pendingCheck \/ faults = MaxFaults => sim'.check = pendingCheck

LEMMA CarriedOutStep ==
  ASSUME ReadyInv, BeliefInv, CheckInv, [Next]_vars
  PROVE  CarriedOut
<1>1. CASE UNCHANGED pendingVars
  BY <1>1 DEF CarriedOut, pendingVars
<1>2. CASE SimOperationLater
  BY <1>2, PinsGiven DEF SimOperationLater, CarriedOut
<1>3. CASE PendingCheck
  <2>1. PICK success \in BOOLEAN :
          /\ \/ pendingCheck = Unset
             \/ sim_pin_check_enable(pendingCheck, success)
          /\ ok' = success
    BY <1>3 DEF PendingCheck
  <2>2. ASSUME pendingCheck # Unset, ok'
        PROVE  /\ check' = pendingCheck
               /\ check # pendingCheck => sim'.check = pendingCheck
    BY <2>1, <2>2, CheckSwitched DEF ReadyInv
  <2>3. ASSUME pendingCheck # Unset, ok', check = pendingCheck, faults = MaxFaults
        PROVE  sim'.check = pendingCheck
    <3>1. sim' = sim
      BY <2>1, <2>3 DEF sim_pin_check_enable
    <3>2. initialised
      BY <1>3, <2>3 DEF BeliefInv, Believed, ReadyPCs, PendingCheck, At
    <3>3. QED
      BY <2>3, <3>1, <3>2 DEF CheckInv
  <2>4. pendingPin' = pendingPin
    BY <1>3 DEF PendingCheck
  <2>5. QED
    BY <2>2, <2>3, <2>4 DEF CarriedOut
<1>4. CASE PendingPin
  <2>1. pendingCheck' = pendingCheck
    BY <1>4 DEF PendingPin
  <2>2. ASSUME pendingPin # NoPin, pc' = "register"
        PROVE  change_sim_pin(pendingPin, TRUE)
    BY <1>4, <2>2 DEF PendingPin, Return
  <2>3. QED
    BY <2>1, <2>2, ChangedBoth DEF CarriedOut, ReadyInv
<1>5. QED
  BY <1>1, <1>2, <1>3, <1>4, PendingSteps

\* DeferredCarriedOut: whatever was called between, a deferred change of the
\* PIN that connect() drops on its way to the network has been made in the SIM
\* and in the driver.  A deferred switch of the check has been made in the driver,
\* and in the SIM if the driver had to change it or no exchange has failed.
THEOREM DeferredIsCarriedOut == Spec => DeferredCarriedOut
<1>1. ReadyInv /\ BeliefInv /\ CheckInv /\ [Next]_vars => [CarriedOut]_vars
  BY CarriedOutStep
<1>2. Spec => [](TypeInv /\ KnownInv /\ ReadyInv /\ BeliefInv /\ CheckInv)
  BY KnownInvInit, KnownInvStep, TypeInit, TypeStep, ReadyInvInit, ReadyInvStep, BeliefInit,
     BeliefStep, CheckInit, CheckStep, PTL DEF Spec
<1>3. Spec => [][CarriedOut]_vars
  BY <1>1, <1>2, PTL DEF Spec
<1>4. QED
  BY <1>3 DEF DeferredCarriedOut, CarriedOut

\* A call keeps its name until it returns.
LEMMA JobStays ==
  ASSUME [Next]_vars, pc # "idle"
  PROVE  job' = job
<1> USE DEF callVars, At
<1>1. CASE StartCall
  BY <1>1 DEF StartCall, InitCall, SimOperationNow, SimOperationLater, connect, connectWith,
     BeginWithInit, set_sim_pin, set_credentials, set_authentication, disconnect, deinit
<1>2. CASE PowerUp \/ SimNotReady \/ SimReady \/ SimPin \/ SetUp \/ InitFails \/ InitDone
           \/ SimOperationDone \/ PendingCheck \/ PendingPin
  BY <1>2 DEF PowerUp, SimNotReady, SimReady, SimPin, SetUp, InitFails, InitDone, SimOperationDone,
     PendingCheck, PendingPin, SimStep, UnchangedCall, Return
<1>3. CASE AlreadyRegistered \/ EnableURCs \/ SetAutomatic \/ QueryStatus \/ WaitTest \/ WaitRead
           \/ WaitEnds
  BY <1>3 DEF AlreadyRegistered, EnableURCs, SetAutomatic, QueryStatus, WaitTest, WaitRead, WaitEnds,
     RegStep, UnchangedCall, Return
<1>4. CASE CheckProfile \/ NextCredentials \/ StoreProfile \/ TryProtocol \/ ReuseExternal
           \/ ActivateByCid \/ Deactivate \/ nwk_deregistration \/ HardOff
  BY <1>4 DEF CheckProfile, NextCredentials, StoreProfile, TryProtocol, ReuseExternal, ActivateByCid,
     Deactivate, nwk_deregistration, HardOff, StackStep, AttemptEnds, UnchangedCall, Return
<1>5. CASE HandleURC \/ ContextDropped \/ UNCHANGED vars \/ \E d \in Domains : Registers(d) \/ Unregisters(d)
  BY <1>5 DEF HandleURC, ContextDropped, Registers, Unregisters, NetworkStep, vars
<1>6. QED
  BY <1>1, <1>2, <1>3, <1>4, <1>5 DEF Next, ContinueCall
================================================================================
