----------------------------- MODULE BatteryGauge -----------------------------
(***************************************************************************)
(* The driver of the BQ27441 battery gauge,                                *)
(* battery-gauge-bq27441/bq27441.cpp, and the chip as the driver uses it.  *)
(*                                                                         *)
(* What a call does between gpI2c->lock() and gpI2c->unlock() is one step: *)
(* the chip, gReady and gGaugeOn are only written there.  The tests of     *)
(* gReady and gGaugeOn before the lock and makeAdcReading(), which lets go *)
(* of the lock while the chip measures, are steps of their own.            *)
(*                                                                         *)
(* A locked section is written as a function from a context to the set of  *)
(* contexts it may end in: .chip the chip, .ready and .on the driver's     *)
(* gReady and gGaugeOn, .ok the success of the last operation, .was the    *)
(* answer of isSealed(), .value what was read, .left the faults left.      *)
(***************************************************************************)
EXTENDS Integers, FiniteSets

CONSTANTS
  Threads,      \* application threads
  Ops,          \* the calls they make
  MayReinit,    \* they call init() on a ready driver
  MaxFaults     \* bound: I2C operations that fail

Readings == {"isBatteryDetected", "getTemperature", "getVoltage", "getCurrent",
             "getRemainingCapacity", "getRemainingPercentage", "advancedGet"}
Configs == {"init", "enableGauge", "disableGauge", "disableBatteryDetect",
            "enableBatteryDetect", "advancedGetConfig", "advancedSetConfig",
            "advancedSendControlWord", "advancedIsSealed", "advancedSeal",
            "advancedUnseal", "advancedReset"}

ASSUME GaugeAssumption ==
  /\ Ops \subseteq Readings \cup Configs
  /\ MayReinit \in BOOLEAN
  /\ MaxFaults \in Nat

VARIABLES
  gReady, gGaugeOn,   \* the members of those names
  chip,               \* the chip
  faults,             \* I2C operations that have failed
  pc,                 \* pc[t]: where thread t is
  op,                 \* op[t]: the call it is in, or made last
  ret,                \* ret[t]: what that call returned
  value               \* value[t]: what kind of value it handed out

vars == <<gReady, gGaugeOn, chip, faults, pc, op, ret, value>>

(* sealed; reseal, bit 7 of Update Status: the chip seals itself on a      *)
(* reset; config, it is in CONFIGUPDATE; hibernate, it was told to sleep;  *)
(* deep, Sleep Current and Hibernate V are such that it does; measured, it *)
(* has taken a reading since it woke up; slow and detect, bits of OpConfig *)
Chip == [sealed: BOOLEAN, reseal: BOOLEAN, config: BOOLEAN, hibernate: BOOLEAN,
         deep: BOOLEAN, measured: BOOLEAN, slow: BOOLEAN, detect: BOOLEAN]

Values == {"none", "recent", "stale", "zero"}

TypeOK ==
  /\ gReady \in BOOLEAN /\ gGaugeOn \in BOOLEAN
  /\ chip \in Chip
  /\ faults \in 0 .. MaxFaults
  /\ pc \in [Threads -> {"idle", "wake", "measure", "lock"}]
  /\ op \in [Threads -> Ops \cup {"none"}]
  /\ ret \in [Threads -> BOOLEAN]
  /\ value \in [Threads -> Values]

-----------------------------------------------------------------------------
(* Contexts.                                                               *)

\* Go on with F where the last operation succeeded.
AndThen(S, F(_)) == UNION {IF s.ok THEN F(s) ELSE {s} : s \in S}

\* One or more transfers that leave the chip as c; one that fails may have
\* been carried out.
Transfer(s, c) ==
  {[s EXCEPT !.chip = c, !.ok = TRUE]}
  \cup {[s EXCEPT !.chip = d, !.ok = FALSE, !.left = @ - 1] :
          d \in {e \in {s.chip, c} : s.left > 0}}

\* An access wakes the chip.
Awake(c) == [c EXCEPT !.hibernate = FALSE]

setHibernate(s) ==
  Transfer(s, [s.chip EXCEPT !.hibernate = TRUE, !.measured = FALSE])

-----------------------------------------------------------------------------
(* Sealing.                                                                *)

\* A failure to read the status counts as not sealed.
isSealed(s) ==
  {[x EXCEPT !.was = x.ok /\ s.chip.sealed] : x \in Transfer(s, Awake(s.chip))}

seal(s) == Transfer(s, [Awake(s.chip) EXCEPT !.sealed = TRUE])

unseal(s) == Transfer(s, [Awake(s.chip) EXCEPT !.sealed = FALSE])

\* wasSealed = isSealed(); if (!wasSealed || unseal(gSealCode))
Opened(s) ==
  UNION {IF x.was THEN unseal(x) ELSE {[x EXCEPT !.ok = TRUE]} : x \in isSealed(s)}

\* mutant: the result of the second seal() is not looked at
SealingUnchecked(s) == {[y EXCEPT !.ok = s.ok] : y \in seal(s)}

Sealing(s) == {[y EXCEPT !.ok = @ /\ s.ok] : y \in seal(s)}

-----------------------------------------------------------------------------
(* Configuration blocks.                                                   *)

\* A sealed chip gives no access to its configuration.
AccessBlock(s) ==
  IF s.chip.sealed THEN {[s EXCEPT !.ok = FALSE]} ELSE Transfer(s, Awake(s.chip))

readExtendedData(s) ==
  UNION {IF x.was THEN Sealing(x) ELSE {x} : x \in AndThen(Opened(s), AccessBlock)}

\* Enter CONFIGUPDATE and poll for it; a sealed chip does not go there.
EnterUpdate(s) ==
  IF s.chip.sealed THEN {[s EXCEPT !.ok = FALSE]}
  ELSE Transfer(s, [Awake(s.chip) EXCEPT !.config = TRUE])

\* The chip leaves CONFIGUPDATE on a SOFT_RESET and may seal itself.
ExitUpdate(s) == Transfer(s, [s.chip EXCEPT !.config = FALSE, !.sealed = s.chip.reseal])

writeExtendedData(s, field, new) ==
  LET WriteBlock(x) == Transfer(x, [x.chip EXCEPT ![field] = new])
      written == AndThen(AndThen(AndThen(Opened(s), EnterUpdate), WriteBlock), ExitUpdate)
  IN UNION {IF ~x.ok /\ x.was THEN Sealing(x) ELSE {x} : x \in written}

-----------------------------------------------------------------------------
(* What the calls do with the lock.                                        *)

init(s) ==
  LET SleepCurrent(x) == writeExtendedData(x, "deep", x.chip.deep)
      HibernateV(x) == writeExtendedData(x, "deep", TRUE)
      Hibernate(x) == {[y EXCEPT !.ready = y.ok] : y \in setHibernate(x)}
      version == Transfer(s, Awake(s.chip))
      slept == AndThen(AndThen(version, SleepCurrent), SleepCurrent)
  IN {[y EXCEPT !.ok = y.ready] : y \in AndThen(AndThen(slept, HibernateV), Hibernate)}

enableGauge(s) ==
  LET cleared == {[x EXCEPT !.on = @ \/ x.ok] : x \in Transfer(s, Awake(s.chip))}
      Slow(x) == {x} \cup writeExtendedData(x, "slow", ~x.chip.slow)
  IN AndThen(AndThen(cleared, readExtendedData), Slow)

disableGauge(s) == {[x EXCEPT !.on = @ /\ ~x.ok] : x \in setHibernate(s)}

BatteryDetect(s, enable) ==
  LET Insert(x) == IF enable THEN {x} ELSE Transfer(x, Awake(x.chip))
      Change(x) == IF x.chip.detect = enable THEN {x}
                   ELSE AndThen(writeExtendedData(x, "detect", enable), Insert)
  IN AndThen(readExtendedData(s), Change)

\* mutant: the result of getTwoBytes() is not looked at, the variable unset
ReadUnset(s, kind) ==
  {[x EXCEPT !.value = IF x.ok THEN kind ELSE "unset", !.ok = TRUE] :
     x \in Transfer(s, Awake(s.chip))}

\* getTwoBytes() of a measured register.
Read(s, kind) ==
  {[x EXCEPT !.value = IF x.ok THEN kind ELSE "none"] : x \in Transfer(s, Awake(s.chip))}

Kind(s) == IF s.on \/ s.chip.measured THEN "recent" ELSE "stale"

\* The result of the first setHibernate() is overwritten.
getRemainingPercentage(s) ==
  UNION {Read(x, Kind(x)) : x \in IF s.on THEN {s} ELSE setHibernate(s)}

\* mutant: Update Status is left as it is
UnsealTillReset(s) == AndThen(unseal(s), readExtendedData)

advancedUnseal(s) ==
  LET Clear(x) == IF x.chip.reseal THEN writeExtendedData(x, "reseal", FALSE) ELSE {x}
  IN AndThen(AndThen(unseal(s), readExtendedData), Clear)

\* RESET works on an unsealed chip, and takes the data back to the defaults.
Reset(s) ==
  IF s.chip.sealed THEN Transfer(s, Awake(s.chip))
  ELSE Transfer(s, [s.chip EXCEPT !.hibernate = FALSE, !.measured = FALSE,
                    !.config = FALSE, !.deep = FALSE, !.slow = FALSE,
                    !.detect = TRUE, !.sealed = s.chip.reseal])

\* A chip that could not be opened is not sealed again.
advancedReset(s) ==
  UNION {IF ~x.ok THEN {x}
         ELSE UNION {IF x.was THEN Sealing(y) ELSE {y} : y \in Reset(x)} :
         x \in Opened(s)}

\* An offset and a length that cross a block are refused.
Refused(s) == {[s EXCEPT !.ok = FALSE]}

\* The control word asks for something, the configuration written is any.
Routine(o, s) ==
  CASE o = "init"                    -> init(s)
    [] o = "enableGauge"             -> enableGauge(s)
    [] o = "disableGauge"            -> disableGauge(s)
    [] o = "disableBatteryDetect"    -> BatteryDetect(s, FALSE)
    [] o = "enableBatteryDetect"     -> BatteryDetect(s, TRUE)
    [] o = "advancedGetConfig"       -> readExtendedData(s) \cup Refused(s)
    [] o = "advancedSetConfig"       -> writeExtendedData(s, "slow", TRUE) \cup Refused(s)
    [] o = "advancedSendControlWord" -> Transfer(s, Awake(s.chip))
    [] o = "advancedIsSealed"        -> {[x EXCEPT !.ok = x.was] : x \in isSealed(s)}
    [] o = "advancedSeal"            -> seal(s)
    [] o = "advancedUnseal"          -> advancedUnseal(s)
    [] o = "advancedReset"           -> advancedReset(s)
    [] o = "getCurrent"              -> Read(s, "zero")
    [] o = "getRemainingPercentage"  -> getRemainingPercentage(s)
    [] OTHER                         -> Read(s, Kind(s))

\* mutant: enableBatteryDetect() forgets it
LeavesAwakeToo == {"init", "enableGauge", "disableGauge", "advancedSendControlWord",
                   "advancedGet", "enableBatteryDetect"}

\* The calls that do not put the chip back to sleep,
LeavesAwake == {"init", "enableGauge", "disableGauge", "advancedSendControlWord",
                "advancedGet"}
\* and those that do not look at the result when they do.
Unchecked == {"disableBatteryDetect", "enableBatteryDetect", "isBatteryDetected",
              "advancedIsSealed"}

\* mutant: whether the gauge is on is not asked
AlwaysToSleep(o, s) ==
  IF o \in LeavesAwake THEN {s}
  ELSE {[y EXCEPT !.ok = s.ok /\ (@ \/ o \in Unchecked)] : y \in setHibernate(s)}

\* Set hibernate again if we are not monitoring.
BackToSleep(o, s) ==
  IF s.on \/ o \in LeavesAwake THEN {s}
  ELSE {[y EXCEPT !.ok = s.ok /\ (@ \/ o \in Unchecked)] : y \in setHibernate(s)}

-----------------------------------------------------------------------------
(* The steps of a call.                                                    *)

\* A new driver, whatever an earlier one did to the chip: batteryPercentage()
\* makes one for each reading.
Init ==
  /\ gReady = FALSE /\ gGaugeOn = FALSE
  /\ chip \in Chip
  /\ faults = 0
  /\ pc = [t \in Threads |-> "idle"]
  /\ op = [t \in Threads |-> "none"]
  /\ ret = [t \in Threads |-> FALSE]
  /\ value = [t \in Threads |-> "none"]

\* init() is called on a driver nobody has initialised or is initialising.
InitOnce == ~gReady /\ \A u \in Threads : pc[u] = "idle" \/ op[u] # "init"

\* Without gReady a call returns false at once.
Begin(t, o) ==
  /\ pc[t] = "idle"
  /\ gReady \/ o = "init"
  /\ MayReinit \/ o # "init" \/ InitOnce
  /\ op' = [op EXCEPT ![t] = o]
  /\ pc' = [pc EXCEPT ![t] = IF o \in Readings /\ ~gGaugeOn THEN "wake" ELSE "lock"]
  /\ value' = [value EXCEPT ![t] = "none"]
  /\ UNCHANGED <<gReady, gGaugeOn, chip, faults, ret>>

Context == [chip |-> chip, ready |-> gReady, on |-> gGaugeOn, ok |-> TRUE,
            was |-> FALSE, value |-> "none", left |-> MaxFaults - faults]

\* makeAdcReading(): CLEAR_HIBERNATE,
Wake(t) ==
  /\ pc[t] = "wake"
  /\ \E s \in Transfer(Context, Awake(chip)) :
       /\ chip' = s.chip
       /\ faults' = MaxFaults - s.left
       /\ ret' = [ret EXCEPT ![t] = s.ok]
  /\ pc' = [pc EXCEPT ![t] = "measure"]
  /\ UNCHANGED <<gReady, gGaugeOn, op, value>>

\* and a second without the lock.
Measure(t) ==
  /\ pc[t] = "measure"
  /\ chip' = [chip EXCEPT !.measured = @ \/ ~chip.hibernate]
  /\ pc' = [pc EXCEPT ![t] = IF ret[t] THEN "lock" ELSE "idle"]
  /\ UNCHANGED <<gReady, gGaugeOn, faults, op, ret, value>>

\* What the call does with the lock, to its return.
Locked(t) ==
  /\ pc[t] = "lock"
  /\ \E r \in Routine(op[t], Context) : \E s \in BackToSleep(op[t], r) :
       /\ chip' = s.chip
       /\ gReady' = s.ready
       /\ gGaugeOn' = s.on
       /\ faults' = MaxFaults - s.left
       /\ ret' = [ret EXCEPT ![t] = s.ok]
       /\ value' = [value EXCEPT ![t] = IF s.ok THEN s.value ELSE "none"]
  /\ pc' = [pc EXCEPT ![t] = "idle"]
  /\ UNCHANGED op

Next ==
  \E t \in Threads : \/ \E o \in Ops : Begin(t, o)
                     \/ Wake(t)
                     \/ Measure(t)
                     \/ Locked(t)

Spec == Init /\ [][Next]_vars

-----------------------------------------------------------------------------
(* Properties.                                                             *)

\* Until a transfer fails: while gGaugeOn says that the gauge is on, the chip has
\* not been told to hibernate: no call by any thread puts it back to sleep under a
\* gauge that was switched on meanwhile (isGaugeEnabled(), bq27441.cpp 734).
GaugeOnAwake == faults = 0 /\ gGaugeOn => ~chip.hibernate

\* Until a transfer fails: when the driver is ready, the gauge is off and no call
\* is under way, the chip has been told to hibernate: every call that wakes it sends
\* it back (battery_gauge_bq27441.h 49-51).
HibernatesAgain ==
  faults = 0 /\ gReady /\ ~gGaugeOn /\ (\A t \in Threads : pc[t] = "idle")
    => chip.hibernate

\* The call thread t is in returns true in this step.
Succeeds(t) == pc[t] = "lock" /\ pc'[t] = "idle" /\ ret'[t]

\* A call that finds a sealed chip which is to seal itself, and returns true, has
\* left it sealed, whatever transfers failed on the way; only advancedUnseal()
\* opens it.
SealKept ==
  [][\A t \in Threads :
       Succeeds(t) /\ op[t] # "advancedUnseal" /\ chip.sealed /\ chip.reseal
         => chip'.sealed]_vars

\* What advancedUnseal() has opened stays open through configuration updates and
\* resets until somebody seals it: its true means that bit 7 of Update Status is
\* clear, and only advancedSeal() seals such a chip.
UnsealedForGood ==
  [][\A t \in Threads :
       /\ Succeeds(t) /\ op[t] = "advancedUnseal" => ~chip'.sealed /\ ~chip'.reseal
       /\ pc[t] # pc'[t] /\ ~chip.sealed /\ ~chip.reseal /\ chip'.sealed
            => op[t] = "advancedSeal"]_vars
================================================================================
