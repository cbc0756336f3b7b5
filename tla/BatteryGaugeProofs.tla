-------------------------- MODULE BatteryGaugeProofs ---------------------------
(***************************************************************************)
(* Theorems about BatteryGauge, for any threads and calls and any number   *)
(* of failing transfers.                                                   *)
(*                                                                         *)
(* A locked section is a set of outcomes built from the outcomes of its    *)
(* parts.  So each member function has a lemma that says what it does to a *)
(* context, down from Transfer; RoutineDoes and BackToSleepDoes put them   *)
(* together for a call, and LockedDoes and WakeDoes for a step.            *)
(***************************************************************************)
EXTENDS BatteryGauge, TLAPS

(***************************************************************************)
(* Contexts: what each operation of the driver does to one.                *)
(***************************************************************************)

Contexts == [chip : Chip, ready : BOOLEAN, on : BOOLEAN, ok : BOOLEAN, was : BOOLEAN,
             value : Values, left : Nat]

\* y comes after s, and neither the driver's flags nor what was read differ.
Follows(s, y) ==
  /\ y \in Contexts
  /\ y.left <= s.left
  /\ y.ready = s.ready /\ y.on = s.on /\ y.value = s.value

\* No fault between s and y.
Clean(s, y) == y.left = s.left

\* A chip that is to seal itself and is sealed; one that is neither.
Guarded(s) == s.chip.sealed /\ s.chip.reseal
Open(s) == ~s.chip.sealed /\ ~s.chip.reseal

LEMMA ContextFields ==
  ASSUME NEW s \in Contexts
  PROVE  /\ s.chip \in Chip /\ s.ready \in BOOLEAN /\ s.on \in BOOLEAN /\ s.ok \in BOOLEAN
         /\ s.was \in BOOLEAN /\ s.value \in Values /\ s.left \in Nat
BY DEF Contexts

LEMMA TransferDoes ==
  ASSUME NEW s \in Contexts, NEW c \in Chip, NEW y \in Transfer(s, c)
  PROVE  /\ Follows(s, y) /\ y.was = s.was
         /\ y.chip \in {s.chip, c} /\ (y.ok => y.chip = c)
         /\ Clean(s, y) => y.ok
<1>1. CASE y = [s EXCEPT !.chip = c, !.ok = TRUE]
  <2>1. y = [chip |-> c, ready |-> s.ready, on |-> s.on, ok |-> TRUE, was |-> s.was,
             value |-> s.value, left |-> s.left]
    BY <1>1 DEF Contexts
  <2>2. QED
    BY <2>1, ContextFields DEF Contexts, Follows, Clean
<1>2. CASE \E d \in {s.chip, c} : s.left > 0 /\ y = [s EXCEPT !.chip = d, !.ok = FALSE, !.left = @ - 1]
  <2>1. PICK d \in {s.chip, c} : s.left > 0 /\ y = [s EXCEPT !.chip = d, !.ok = FALSE, !.left = @ - 1]
    BY <1>2
  <2>2. s.left \in Nat /\ s.left - 1 \in Nat /\ d \in Chip
    BY <2>1 DEF Contexts
  <2>3. y = [chip |-> d, ready |-> s.ready, on |-> s.on, ok |-> FALSE, was |-> s.was,
             value |-> s.value, left |-> s.left - 1]
    BY <2>1 DEF Contexts
  <2>4. QED
    BY <2>2, <2>3, ContextFields DEF Contexts, Follows, Clean
<1>3. QED
  BY <1>1, <1>2 DEF Transfer

LEMMA AwakeChip ==
  ASSUME NEW c \in Chip
  PROVE  /\ Awake(c) \in Chip /\ ~Awake(c).hibernate
         /\ Awake(c).sealed = c.sealed /\ Awake(c).reseal = c.reseal
BY DEF Awake, Chip

LEMMA SetHibernateDoes ==
  ASSUME NEW s \in Contexts, NEW y \in setHibernate(s)
  PROVE  /\ Follows(s, y) /\ y.was = s.was
         /\ y.chip.sealed = s.chip.sealed /\ y.chip.reseal = s.chip.reseal
         /\ y.ok => y.chip.hibernate
         /\ Clean(s, y) => y.ok
<1> DEFINE c == [s.chip EXCEPT !.hibernate = TRUE, !.measured = FALSE]
<1>1. s.chip \in Chip
  BY ContextFields
<1>2. c \in Chip /\ c.sealed = s.chip.sealed /\ c.reseal = s.chip.reseal /\ c.hibernate
  BY <1>1 DEF Chip
<1>3. y \in Transfer(s, c)
  BY DEF setHibernate
<1> HIDE DEF c
<1>4. QED
  BY <1>2, <1>3, TransferDoes

(***************************************************************************)
(* Sealing.                                                                *)
(***************************************************************************)

LEMMA IsSealedDoes ==
  ASSUME NEW s \in Contexts, NEW y \in isSealed(s)
  PROVE  /\ Follows(s, y)
         /\ y.chip.sealed = s.chip.sealed /\ y.chip.reseal = s.chip.reseal
         /\ y.chip.hibernate => s.chip.hibernate
         /\ y.was = (y.ok /\ s.chip.sealed)
         /\ Clean(s, y) => y.ok
<1>1. PICK x \in Transfer(s, Awake(s.chip)) : y = [x EXCEPT !.was = x.ok /\ s.chip.sealed]
  BY DEF isSealed
<1>2. s.chip \in Chip /\ s.chip.sealed \in BOOLEAN
  BY ContextFields DEF Chip
<1>3. /\ Follows(s, x) /\ x.chip \in {s.chip, Awake(s.chip)}
      /\ Clean(s, x) => x.ok
  BY <1>1, <1>2, AwakeChip, TransferDoes
<1>4. x \in Contexts /\ (x.ok /\ s.chip.sealed) \in BOOLEAN
  BY <1>2, <1>3, ContextFields DEF Follows
<1>5. /\ y \in Contexts /\ y.was = (x.ok /\ s.chip.sealed) /\ y.chip = x.chip /\ y.ok = x.ok
      /\ y.left = x.left /\ y.ready = x.ready /\ y.on = x.on /\ y.value = x.value
  BY <1>1, <1>4 DEF Contexts
<1>6. QED
  BY <1>2, <1>3, <1>5, AwakeChip DEF Follows, Clean

LEMMA SealDoes ==
  ASSUME NEW s \in Contexts, NEW y \in seal(s)
  PROVE  /\ Follows(s, y) /\ y.was = s.was
         /\ y.chip.reseal = s.chip.reseal /\ (y.chip.hibernate => s.chip.hibernate)
         /\ (s.chip.sealed => y.chip.sealed) /\ (y.ok => y.chip.sealed)
         /\ Clean(s, y) => y.ok
<1> DEFINE c == [Awake(s.chip) EXCEPT !.sealed = TRUE]
<1>1. s.chip \in Chip
  BY ContextFields
<1>2. /\ Awake(s.chip) \in Chip /\ Awake(s.chip).reseal = s.chip.reseal
      /\ ~Awake(s.chip).hibernate
  BY <1>1, AwakeChip
<1>3. c \in Chip /\ c.sealed /\ c.reseal = s.chip.reseal /\ ~c.hibernate
  BY <1>2 DEF Chip
<1>4. y \in Transfer(s, c)
  BY DEF seal
<1> HIDE DEF c
<1>5. QED
  BY <1>3, <1>4, TransferDoes

LEMMA UnsealDoes ==
  ASSUME NEW s \in Contexts, NEW y \in unseal(s)
  PROVE  /\ Follows(s, y) /\ y.was = s.was
         /\ y.chip.reseal = s.chip.reseal /\ (y.chip.hibernate => s.chip.hibernate)
         /\ (y.chip.sealed => s.chip.sealed) /\ (y.ok => ~y.chip.sealed)
         /\ Clean(s, y) => y.ok
<1> DEFINE c == [Awake(s.chip) EXCEPT !.sealed = FALSE]
<1>1. s.chip \in Chip
  BY ContextFields
<1>2. /\ Awake(s.chip) \in Chip /\ Awake(s.chip).reseal = s.chip.reseal
      /\ ~Awake(s.chip).hibernate
  BY <1>1, AwakeChip
<1>3. c \in Chip /\ ~c.sealed /\ c.reseal = s.chip.reseal /\ ~c.hibernate
  BY <1>2 DEF Chip
<1>4. y \in Transfer(s, c)
  BY DEF unseal
<1> HIDE DEF c
<1>5. QED
  BY <1>3, <1>4, TransferDoes

\* What was() tells of a chip that Opened() has dealt with.
LEMMA OpenedDoes ==
  ASSUME NEW s \in Contexts, NEW y \in Opened(s)
  PROVE  /\ Follows(s, y)
         /\ y.chip.reseal = s.chip.reseal /\ (y.chip.hibernate => s.chip.hibernate)
         /\ y.was => s.chip.sealed
         /\ ~y.was => y.chip.sealed = s.chip.sealed
         /\ y.chip.sealed => s.chip.sealed
         /\ y.was /\ y.ok => ~y.chip.sealed
         /\ Clean(s, y) => y.ok /\ ~y.chip.sealed
<1>1. PICK x \in isSealed(s) : y \in IF x.was THEN unseal(x) ELSE {[x EXCEPT !.ok = TRUE]}
  BY DEF Opened
<1>2. /\ Follows(s, x) /\ x \in Contexts
      /\ x.chip.sealed = s.chip.sealed /\ x.chip.reseal = s.chip.reseal
      /\ x.chip.hibernate => s.chip.hibernate
      /\ x.was = (x.ok /\ s.chip.sealed)
      /\ Clean(s, x) => x.ok
  BY IsSealedDoes DEF Follows
<1>3. s.left \in Nat /\ x.left \in Nat /\ x.left <= s.left
  BY <1>2, ContextFields DEF Follows
<1>4. CASE x.was
  <2>1. /\ Follows(x, y) /\ y.was = x.was
        /\ y.chip.reseal = x.chip.reseal /\ (y.chip.hibernate => x.chip.hibernate)
        /\ (y.chip.sealed => x.chip.sealed) /\ (y.ok => ~y.chip.sealed)
        /\ Clean(x, y) => y.ok
    BY <1>1, <1>2, <1>4, UnsealDoes
  <2>2. y.left \in Nat /\ y.left <= s.left /\ (Clean(s, y) => Clean(x, y))
    BY <1>3, <2>1, ContextFields DEF Follows, Clean
  <2>3. QED
    BY <1>2, <1>4, <2>1, <2>2 DEF Follows
<1>5. CASE ~x.was
  <2>1. y = [x EXCEPT !.ok = TRUE]
    BY <1>1, <1>5
  <2>2. /\ y \in Contexts /\ y.ok /\ y.was = x.was /\ y.chip = x.chip
        /\ y.left = x.left /\ y.ready = x.ready /\ y.on = x.on /\ y.value = x.value
    BY <1>2, <2>1 DEF Contexts
  <2>3. QED
    BY <1>2, <1>5, <2>2 DEF Follows, Clean
<1>6. QED
  BY <1>4, <1>5

LEMMA SealingDoes ==
  ASSUME NEW s \in Contexts, NEW y \in Sealing(s)
  PROVE  /\ Follows(s, y) /\ y.was = s.was
         /\ y.chip.reseal = s.chip.reseal /\ (y.chip.hibernate => s.chip.hibernate)
         /\ (y.ok => s.ok /\ y.chip.sealed)
         /\ Clean(s, y) => (y.ok <=> s.ok)
<1>1. PICK x \in seal(s) : y = [x EXCEPT !.ok = @ /\ s.ok]
  BY DEF Sealing
<1>2. /\ Follows(s, x) /\ x \in Contexts /\ x.was = s.was
      /\ x.chip.reseal = s.chip.reseal /\ (x.chip.hibernate => s.chip.hibernate)
      /\ (x.ok => x.chip.sealed)
      /\ Clean(s, x) => x.ok
  BY SealDoes DEF Follows
<1>3. (x.ok /\ s.ok) \in BOOLEAN
  BY <1>2, ContextFields
<1>4. /\ y \in Contexts /\ y.ok = (x.ok /\ s.ok) /\ y.was = x.was /\ y.chip = x.chip
      /\ y.left = x.left /\ y.ready = x.ready /\ y.on = x.on /\ y.value = x.value
  BY <1>1, <1>2, <1>3 DEF Contexts
<1>5. QED
  BY <1>2, <1>4 DEF Follows, Clean

(***************************************************************************)
(* Configuration blocks.                                                   *)
(***************************************************************************)

\* The chip is not put to sleep between s and y.
Keeps(s, y) == Follows(s, y) /\ (y.chip.hibernate => s.chip.hibernate)

LEMMA KeepsOn ==
  ASSUME NEW s \in Contexts, NEW x, NEW y, Keeps(s, x), Keeps(x, y)
  PROVE  Keeps(s, y) /\ (Clean(s, y) => Clean(s, x) /\ Clean(x, y))
<1>1. s.left \in Nat /\ x.left \in Nat /\ y.left \in Nat
  BY ContextFields DEF Keeps, Follows
<1>2. QED
  BY <1>1 DEF Keeps, Follows, Clean

LEMMA KeepsSame ==
  ASSUME NEW s \in Contexts
  PROVE  Keeps(s, s) /\ Clean(s, s)
BY ContextFields DEF Keeps, Follows, Clean

Fields == {"deep", "slow", "detect", "reseal"}

LEMMA FieldSet ==
  ASSUME NEW c \in Chip, NEW field \in Fields, NEW new \in BOOLEAN
  PROVE  /\ [c EXCEPT ![field] = new] \in Chip
         /\ [c EXCEPT ![field] = new].sealed = c.sealed
         /\ [c EXCEPT ![field] = new].hibernate = c.hibernate
         /\ [c EXCEPT ![field] = new].reseal = IF field = "reseal" THEN new ELSE c.reseal
<1>1. CASE field = "deep"
  BY <1>1 DEF Chip
<1>2. CASE field = "slow"
  BY <1>2 DEF Chip
<1>3. CASE field = "detect"
  BY <1>3 DEF Chip
<1>4. CASE field = "reseal"
  BY <1>4 DEF Chip
<1>5. QED
  BY <1>1, <1>2, <1>3, <1>4 DEF Fields

LEMMA RefusedDoes ==
  ASSUME NEW s \in Contexts, NEW y, y = [s EXCEPT !.ok = FALSE]
  PROVE  Keeps(s, y) /\ y.chip = s.chip /\ y.was = s.was /\ ~y.ok
<1>1. y = [chip |-> s.chip, ready |-> s.ready, on |-> s.on, ok |-> FALSE, was |-> s.was,
           value |-> s.value, left |-> s.left]
  BY DEF Contexts
<1>2. /\ y.chip = s.chip /\ y.was = s.was /\ ~y.ok /\ y.left = s.left
      /\ y.ready = s.ready /\ y.on = s.on /\ y.value = s.value
  BY <1>1
<1>3. y \in Contexts
  BY <1>1, ContextFields DEF Contexts
<1>4. s.left \in Nat
  BY ContextFields
<1>5. QED
  BY <1>2, <1>3, <1>4 DEF Keeps, Follows

LEMMA AccessBlockDoes ==
  ASSUME NEW s \in Contexts, NEW y \in AccessBlock(s)
  PROVE  /\ Keeps(s, y) /\ y.was = s.was
         /\ y.chip.sealed = s.chip.sealed /\ y.chip.reseal = s.chip.reseal
         /\ y.ok => ~s.chip.sealed
         /\ Clean(s, y) /\ ~s.chip.sealed => y.ok
<1>1. s.chip \in Chip /\ Awake(s.chip) \in Chip /\ ~Awake(s.chip).hibernate
  BY ContextFields, AwakeChip
<1>2. CASE s.chip.sealed
  BY <1>2, RefusedDoes DEF AccessBlock
<1>3. CASE ~s.chip.sealed
  <2>1. y \in Transfer(s, Awake(s.chip))
    BY <1>3 DEF AccessBlock
  <2>2. QED
    BY <1>1, <1>3, <2>1, TransferDoes, AwakeChip DEF Keeps
<1>4. QED
  BY <1>2, <1>3

LEMMA EnterUpdateDoes ==
  ASSUME NEW s \in Contexts, NEW y \in EnterUpdate(s)
  PROVE  /\ Keeps(s, y) /\ y.was = s.was
         /\ y.chip.sealed = s.chip.sealed /\ y.chip.reseal = s.chip.reseal
         /\ y.ok => ~s.chip.sealed
         /\ Clean(s, y) /\ ~s.chip.sealed => y.ok
<1> DEFINE c == [Awake(s.chip) EXCEPT !.config = TRUE]
<1>1. s.chip \in Chip
  BY ContextFields
<1>2. c \in Chip /\ c.sealed = s.chip.sealed /\ c.reseal = s.chip.reseal /\ ~c.hibernate
  BY <1>1, AwakeChip DEF Chip
<1>3. CASE s.chip.sealed
  BY <1>3, RefusedDoes DEF EnterUpdate
<1>4. CASE ~s.chip.sealed
  <2>1. y \in Transfer(s, c)
    BY <1>4 DEF EnterUpdate
  <2> HIDE DEF c
  <2>2. QED
    BY <1>2, <1>4, <2>1, TransferDoes DEF Keeps
<1>5. QED
  BY <1>3, <1>4

LEMMA ExitUpdateDoes ==
  ASSUME NEW s \in Contexts, NEW y \in ExitUpdate(s)
  PROVE  /\ Keeps(s, y) /\ y.was = s.was
         /\ y.chip.reseal = s.chip.reseal
         /\ y.chip.sealed \in {s.chip.sealed, s.chip.reseal}
         /\ y.ok => y.chip.sealed = s.chip.reseal
         /\ Clean(s, y) => y.ok
<1> DEFINE c == [s.chip EXCEPT !.config = FALSE, !.sealed = s.chip.reseal]
<1>1. s.chip \in Chip
  BY ContextFields
<1>2. c \in Chip /\ c.sealed = s.chip.reseal /\ c.reseal = s.chip.reseal
      /\ c.hibernate = s.chip.hibernate
  BY <1>1 DEF Chip
<1>3. y \in Transfer(s, c)
  BY DEF ExitUpdate
<1> HIDE DEF c
<1>4. QED
  BY <1>2, <1>3, TransferDoes DEF Keeps

LEMMA ReadBlockDoes ==
  ASSUME NEW s \in Contexts, NEW y \in readExtendedData(s)
  PROVE  /\ Keeps(s, y) /\ y.chip.reseal = s.chip.reseal
         /\ Clean(s, y) => y.ok
         /\ Guarded(s) /\ y.ok => y.chip.sealed
         /\ ~s.chip.sealed => ~y.chip.sealed
<1>1. PICK o, x : /\ o \in Opened(s)
                  /\ x \in IF o.ok THEN AccessBlock(o) ELSE {o}
                  /\ y \in IF x.was THEN Sealing(x) ELSE {x}
  BY DEF readExtendedData, AndThen
<1>2. /\ Keeps(s, o) /\ o \in Contexts
      /\ o.chip.reseal = s.chip.reseal /\ (o.chip.sealed => s.chip.sealed)
      /\ o.was => s.chip.sealed
      /\ ~o.was => o.chip.sealed = s.chip.sealed
      /\ Clean(s, o) => o.ok /\ ~o.chip.sealed
  BY <1>1, OpenedDoes DEF Keeps, Follows
<1>3. /\ Keeps(o, x) /\ x \in Contexts /\ x.was = o.was
      /\ x.chip.sealed = o.chip.sealed /\ x.chip.reseal = o.chip.reseal
      /\ x.ok => o.ok /\ ~o.chip.sealed
      /\ Clean(o, x) /\ o.ok /\ ~o.chip.sealed => x.ok
  <2>1. CASE o.ok
    BY <1>1, <1>2, <2>1, AccessBlockDoes DEF Keeps, Follows
  <2>2. CASE ~o.ok
    BY <1>1, <1>2, <2>2, KeepsSame
  <2>3. QED
    BY <2>1, <2>2
<1>4. /\ Keeps(x, y) /\ y.chip.reseal = x.chip.reseal
      /\ y.ok => x.ok
      /\ x.was /\ y.ok => y.chip.sealed
      /\ ~x.was => y = x
      /\ Clean(x, y) /\ x.ok => y.ok
  <2>1. CASE x.was
    BY <1>1, <1>3, <2>1, SealingDoes DEF Keeps
  <2>2. CASE ~x.was
    BY <1>1, <1>3, <2>2, KeepsSame
  <2>3. QED
    BY <2>1, <2>2
<1>5. /\ Keeps(s, x) /\ (Clean(s, x) => Clean(s, o) /\ Clean(o, x))
  BY <1>2, <1>3, KeepsOn
<1>6. /\ Keeps(s, y) /\ (Clean(s, y) => Clean(s, x) /\ Clean(x, y))
  BY <1>4, <1>5, KeepsOn
<1>7. QED
  BY <1>2, <1>3, <1>4, <1>5, <1>6 DEF Guarded

LEMMA WriteBlockDoes ==
  ASSUME NEW s \in Contexts, NEW field \in Fields, NEW new \in BOOLEAN, field = "reseal" => ~new,
         NEW y \in writeExtendedData(s, field, new)
  PROVE  /\ Keeps(s, y)
         /\ Clean(s, y) => y.ok
         /\ field # "reseal" => y.chip.reseal = s.chip.reseal
         /\ Guarded(s) /\ y.ok /\ field # "reseal" => y.chip.sealed
         /\ Open(s) => Open(y)
         /\ field = "reseal" /\ ~s.chip.sealed /\ y.ok => Open(y)
<1>1. PICK o, u, v, w :
        /\ o \in Opened(s)
        /\ u \in IF o.ok THEN EnterUpdate(o) ELSE {o}
        /\ v \in IF u.ok THEN Transfer(u, [u.chip EXCEPT ![field] = new]) ELSE {u}
        /\ w \in IF v.ok THEN ExitUpdate(v) ELSE {v}
        /\ y \in IF ~w.ok /\ w.was THEN Sealing(w) ELSE {w}
  <2> DEFINE WriteBlock(x) == Transfer(x, [x.chip EXCEPT ![field] = new])
             entered == AndThen(Opened(s), EnterUpdate)
             changed == AndThen(entered, WriteBlock)
             left == AndThen(changed, ExitUpdate)
  <2>1. y \in UNION {IF ~x.ok /\ x.was THEN Sealing(x) ELSE {x} : x \in left}
    BY DEF writeExtendedData
  <2>2. \A x \in left : \E v \in changed : x \in IF v.ok THEN ExitUpdate(v) ELSE {v}
    BY DEF AndThen
  <2>3. \A x \in changed : \E u \in entered : x \in IF u.ok THEN WriteBlock(u) ELSE {u}
    BY DEF AndThen
  <2>4. \A x \in entered : \E o \in Opened(s) : x \in IF o.ok THEN EnterUpdate(o) ELSE {o}
    BY DEF AndThen
  <2> HIDE DEF entered, changed, left
  <2>5. PICK w \in left : y \in IF ~w.ok /\ w.was THEN Sealing(w) ELSE {w}
    BY <2>1
  <2>6. PICK v \in changed : w \in IF v.ok THEN ExitUpdate(v) ELSE {v}
    BY <2>2
  <2>7. PICK u \in entered : v \in IF u.ok THEN WriteBlock(u) ELSE {u}
    BY <2>3
  <2>8. PICK o \in Opened(s) : u \in IF o.ok THEN EnterUpdate(o) ELSE {o}
    BY <2>4
  <2>9. QED
    BY <2>5, <2>6, <2>7, <2>8
<1>2. /\ Keeps(s, o) /\ o \in Contexts
      /\ o.chip.reseal = s.chip.reseal /\ (o.chip.sealed => s.chip.sealed)
      /\ o.was => s.chip.sealed
      /\ Clean(s, o) => o.ok /\ ~o.chip.sealed
  BY <1>1, OpenedDoes DEF Keeps, Follows
<1>3. /\ Keeps(o, u) /\ u \in Contexts /\ u.was = o.was
      /\ u.chip.sealed = o.chip.sealed /\ u.chip.reseal = o.chip.reseal
      /\ Clean(o, u) /\ o.ok /\ ~o.chip.sealed => u.ok
  <2>1. CASE o.ok
    BY <1>1, <1>2, <2>1, EnterUpdateDoes DEF Keeps, Follows
  <2>2. CASE ~o.ok
    BY <1>1, <1>2, <2>2, KeepsSame
  <2>3. QED
    BY <2>1, <2>2
<1>4. /\ Keeps(u, v) /\ v \in Contexts /\ v.was = u.was
      /\ v.chip.sealed = u.chip.sealed
      /\ field # "reseal" => v.chip.reseal = u.chip.reseal
      /\ field = "reseal" => (v.chip.reseal => u.chip.reseal) /\ (v.ok => ~v.chip.reseal)
      /\ Clean(u, v) /\ u.ok => v.ok
  <2>1. CASE u.ok
    <3> DEFINE c == [u.chip EXCEPT ![field] = new]
    <3>1. /\ c \in Chip /\ c.sealed = u.chip.sealed /\ c.hibernate = u.chip.hibernate
          /\ c.reseal = IF field = "reseal" THEN new ELSE u.chip.reseal
      BY <1>3, ContextFields, FieldSet
    <3>2. v \in Transfer(u, c)
      BY <1>1, <2>1
    <3> HIDE DEF c
    <3>3. QED
      BY <1>3, <3>1, <3>2, TransferDoes DEF Keeps, Follows
  <2>2. CASE ~u.ok
    BY <1>1, <1>3, <2>2, KeepsSame
  <2>3. QED
    BY <2>1, <2>2
<1>5. /\ Keeps(v, w) /\ w \in Contexts /\ w.was = v.was
      /\ w.chip.reseal = v.chip.reseal
      /\ w.chip.sealed \in {v.chip.sealed, v.chip.reseal}
      /\ w.ok => v.ok /\ w.chip.sealed = v.chip.reseal
      /\ Clean(v, w) /\ v.ok => w.ok
  <2>1. CASE v.ok
    BY <1>1, <1>4, <2>1, ExitUpdateDoes DEF Keeps, Follows
  <2>2. CASE ~v.ok
    BY <1>1, <1>4, <2>2, KeepsSame
  <2>3. QED
    BY <2>1, <2>2
<1>6. /\ Keeps(w, y) /\ y.chip.reseal = w.chip.reseal
      /\ y.ok => w.ok
      /\ w.ok \/ ~w.was => y = w
  <2>1. CASE ~w.ok /\ w.was
    BY <1>1, <1>5, <2>1, SealingDoes DEF Keeps
  <2>2. CASE w.ok \/ ~w.was
    BY <1>1, <1>5, <2>2, KeepsSame
  <2>3. QED
    BY <2>1, <2>2
<1>7. /\ Keeps(s, u) /\ (Clean(s, u) => Clean(s, o) /\ Clean(o, u))
  BY <1>2, <1>3, KeepsOn
<1>8. /\ Keeps(s, v) /\ (Clean(s, v) => Clean(s, u) /\ Clean(u, v))
  BY <1>4, <1>7, KeepsOn
<1>9. /\ Keeps(s, w) /\ (Clean(s, w) => Clean(s, v) /\ Clean(v, w))
  BY <1>5, <1>8, KeepsOn
<1>10. /\ Keeps(s, y) /\ (Clean(s, y) => Clean(s, w) /\ Clean(w, y))
  BY <1>6, <1>9, KeepsOn
<1>11. Clean(s, y) => y.ok
  BY <1>2, <1>3, <1>4, <1>5, <1>6, <1>7, <1>8, <1>9, <1>10
<1>12. field # "reseal" => y.chip.reseal = s.chip.reseal
  BY <1>2, <1>3, <1>4, <1>5, <1>6
<1>13. Guarded(s) /\ y.ok /\ field # "reseal" => y.chip.sealed
  BY <1>2, <1>3, <1>4, <1>5, <1>6 DEF Guarded
<1>14. Open(s) => Open(y)
  BY <1>2, <1>3, <1>4, <1>5, <1>6 DEF Open
<1>15. field = "reseal" /\ ~s.chip.sealed /\ y.ok => Open(y)
  BY <1>5, <1>4, <1>6 DEF Open
<1>16. QED
  BY <1>10, <1>11, <1>12, <1>13, <1>14, <1>15

(***************************************************************************)
(* The calls.                                                              *)
(***************************************************************************)

\* What most calls do: the gauge stays on or off, a gauge that is on is not
\* put to sleep, true means that the seal is kept, and an open chip stays so.
Harmless(s, y) ==
  /\ y \in Contexts /\ y.left <= s.left
  /\ y.ready = s.ready /\ y.on = s.on
  /\ y.chip.hibernate /\ s.on => s.chip.hibernate
  /\ Guarded(s) /\ y.ok => y.chip.sealed
  /\ Open(s) => ~y.chip.sealed

LEMMA AwakenDoes ==
  ASSUME NEW s \in Contexts, NEW y \in Transfer(s, Awake(s.chip))
  PROVE  /\ Keeps(s, y) /\ y.was = s.was
         /\ y.chip.sealed = s.chip.sealed /\ y.chip.reseal = s.chip.reseal
         /\ y.ok => ~y.chip.hibernate
         /\ Clean(s, y) => y.ok
<1>1. s.chip \in Chip /\ Awake(s.chip) \in Chip /\ ~Awake(s.chip).hibernate
      /\ Awake(s.chip).sealed = s.chip.sealed /\ Awake(s.chip).reseal = s.chip.reseal
  BY ContextFields, AwakeChip
<1>2. QED
  BY <1>1, TransferDoes DEF Keeps

LEMMA ReadDoes ==
  ASSUME NEW s \in Contexts, NEW kind \in Values, NEW y \in Read(s, kind)
  PROVE  /\ y \in Contexts /\ y.left <= s.left
         /\ y.ready = s.ready /\ y.on = s.on
         /\ y.chip.hibernate => s.chip.hibernate
         /\ y.chip.sealed = s.chip.sealed
<1>1. PICK x \in Transfer(s, Awake(s.chip)) :
        y = [x EXCEPT !.value = IF x.ok THEN kind ELSE "none"]
  BY DEF Read
<1>2. Keeps(s, x) /\ x \in Contexts /\ x.chip.sealed = s.chip.sealed
  BY AwakenDoes DEF Keeps, Follows
<1>3. (IF x.ok THEN kind ELSE "none") \in Values
  BY DEF Values
<1>4. y \in Contexts /\ y.chip = x.chip /\ y.left = x.left /\ y.ready = x.ready /\ y.on = x.on
  BY <1>1, <1>2, <1>3 DEF Contexts
<1>5. QED
  BY <1>2, <1>4 DEF Keeps, Follows

LEMMA PercentageDoes ==
  ASSUME NEW s \in Contexts, NEW y \in getRemainingPercentage(s)
  PROVE  Harmless(s, y)
<1>1. PICK x \in IF s.on THEN {s} ELSE setHibernate(s) : y \in Read(x, Kind(x))
  BY DEF getRemainingPercentage
<1>2. /\ x \in Contexts /\ x.left <= s.left /\ x.ready = s.ready /\ x.on = s.on
      /\ x.chip.sealed = s.chip.sealed /\ x.chip.reseal = s.chip.reseal
      /\ s.on => x.chip = s.chip
  <2>1. CASE s.on
    <3>1. x = s /\ s.left \in Nat
      BY <1>1, <2>1, ContextFields
    <3>2. QED
      BY <3>1
  <2>2. CASE ~s.on
    BY <1>1, <2>2, SetHibernateDoes DEF Follows
  <2>3. QED
    BY <2>1, <2>2
<1>3. Kind(x) \in Values
  BY DEF Kind, Values
<1>4. /\ y \in Contexts /\ y.left <= x.left /\ y.ready = x.ready /\ y.on = x.on
      /\ y.chip.hibernate => x.chip.hibernate
      /\ y.chip.sealed = x.chip.sealed
  BY <1>1, <1>2, <1>3, ReadDoes
<1>5. s.left \in Nat /\ x.left \in Nat /\ y.left \in Nat
  BY <1>2, <1>4, ContextFields
<1>6. y.left <= s.left
  BY <1>2, <1>4, <1>5
<1>7. QED
  BY <1>2, <1>4, <1>6 DEF Harmless, Guarded, Open

LEMMA DetectDoes ==
  ASSUME NEW s \in Contexts, NEW enable \in BOOLEAN, NEW y \in BatteryDetect(s, enable)
  PROVE  Harmless(s, y)
<1> DEFINE Insert(x) == IF enable THEN {x} ELSE Transfer(x, Awake(x.chip))
           Change(x) == IF x.chip.detect = enable THEN {x}
                        ELSE AndThen(writeExtendedData(x, "detect", enable), Insert)
<1>1. PICK r \in readExtendedData(s) : y \in IF r.ok THEN Change(r) ELSE {r}
  BY DEF BatteryDetect, AndThen
<1>2. /\ Keeps(s, r) /\ r \in Contexts /\ r.chip.reseal = s.chip.reseal
      /\ Guarded(s) /\ r.ok => r.chip.sealed
      /\ ~s.chip.sealed => ~r.chip.sealed
  BY ReadBlockDoes DEF Keeps, Follows
<1>3. CASE y = r
  BY <1>2, <1>3 DEF Harmless, Keeps, Follows, Open
<1>4. CASE r.ok /\ \E w \in writeExtendedData(r, "detect", enable) : y \in IF w.ok THEN Insert(w) ELSE {w}
  <2>1. PICK w \in writeExtendedData(r, "detect", enable) : y \in IF w.ok THEN Insert(w) ELSE {w}
    BY <1>4
  <2>2. /\ Keeps(r, w) /\ w \in Contexts /\ w.chip.reseal = r.chip.reseal
        /\ Guarded(r) /\ w.ok => w.chip.sealed
        /\ Open(r) => Open(w)
    BY <1>2, WriteBlockDoes DEF Fields, Keeps, Follows
  <2>3. Keeps(w, y) /\ y.chip.sealed = w.chip.sealed /\ (y.ok => w.ok)
    <3>1. CASE y = w
      BY <2>2, <3>1, KeepsSame
    <3>2. CASE w.ok /\ y \in Transfer(w, Awake(w.chip))
      BY <2>2, <3>2, AwakenDoes
    <3>3. QED
      BY <2>1, <3>1, <3>2
  <2>4. Keeps(s, w)
    BY <1>2, <2>2, KeepsOn
  <2>5. Keeps(s, y)
    BY <2>3, <2>4, KeepsOn
  <2>6. Guarded(s) /\ y.ok => y.chip.sealed
    BY <1>2, <1>4, <2>2, <2>3 DEF Guarded
  <2>7. Open(s) => ~y.chip.sealed
    BY <1>2, <2>2, <2>3 DEF Open
  <2>8. QED
    BY <2>5, <2>6, <2>7 DEF Harmless, Keeps, Follows
<1>5. QED
  <2>1. r.ok => y \in Change(r)
    BY <1>1
  <2>2. ~r.ok => y = r
    BY <1>1
  <2>3. y \in Change(r) => \/ y = r
                           \/ \E w \in writeExtendedData(r, "detect", enable) :
                                y \in IF w.ok THEN Insert(w) ELSE {w}
    BY DEF AndThen
  <2>4. QED
    BY <1>3, <1>4, <2>1, <2>2, <2>3

LEMMA ResetDoes ==
  ASSUME NEW s \in Contexts, NEW y \in Reset(s)
  PROVE  /\ Keeps(s, y) /\ y.was = s.was
         /\ y.chip.reseal = s.chip.reseal
         /\ s.chip.sealed => y.chip.sealed
         /\ Open(s) => Open(y)
<1> DEFINE c == [s.chip EXCEPT !.hibernate = FALSE, !.measured = FALSE, !.config = FALSE,
                               !.deep = FALSE, !.slow = FALSE, !.detect = TRUE,
                               !.sealed = s.chip.reseal]
<1>1. s.chip \in Chip
  BY ContextFields
<1>2. c \in Chip /\ c.sealed = s.chip.reseal /\ c.reseal = s.chip.reseal /\ ~c.hibernate
  BY <1>1 DEF Chip
<1>3. CASE s.chip.sealed
  BY <1>3, AwakenDoes DEF Reset, Open
<1>4. CASE ~s.chip.sealed
  <2>1. y \in Transfer(s, c)
    BY <1>4 DEF Reset
  <2> HIDE DEF c
  <2>2. QED
    BY <1>2, <1>4, <2>1, TransferDoes DEF Keeps, Open
<1>5. QED
  BY <1>3, <1>4

LEMMA AdvancedResetDoes ==
  ASSUME NEW s \in Contexts, NEW y \in advancedReset(s)
  PROVE  Harmless(s, y)
<1>1. PICK o \in Opened(s) :
        y \in IF ~o.ok THEN {o}
              ELSE UNION {IF o.was THEN Sealing(x) ELSE {x} : x \in Reset(o)}
  BY DEF advancedReset
<1>2. /\ Keeps(s, o) /\ o \in Contexts
      /\ o.chip.reseal = s.chip.reseal
      /\ o.was => s.chip.sealed
      /\ ~o.was => o.chip.sealed = s.chip.sealed
      /\ o.chip.sealed => s.chip.sealed
  BY OpenedDoes DEF Keeps, Follows
<1>3. CASE ~o.ok
  <2>1. y = o
    BY <1>1, <1>3
  <2>2. QED
    BY <1>2, <1>3, <2>1 DEF Harmless, Keeps, Follows, Open
<1>4. CASE o.ok
  <2>1. PICK x \in Reset(o) : y \in IF o.was THEN Sealing(x) ELSE {x}
    BY <1>1, <1>4
  <2>2. /\ Keeps(o, x) /\ x \in Contexts
        /\ x.chip.reseal = o.chip.reseal
        /\ o.chip.sealed => x.chip.sealed
        /\ Open(o) => Open(x)
    BY <1>2, ResetDoes DEF Keeps, Follows
  <2>3. Keeps(s, x)
    BY <1>2, <2>2, KeepsOn
  <2>4. CASE o.was
    <3>1. Keeps(x, y) /\ (y.ok => y.chip.sealed)
      BY <2>1, <2>2, <2>4, SealingDoes DEF Keeps
    <3>2. Keeps(s, y)
      BY <2>3, <3>1, KeepsOn
    <3>3. QED
      BY <1>2, <2>4, <3>1, <3>2 DEF Harmless, Keeps, Follows, Open
  <2>5. CASE ~o.was
    <3>1. y = x
      BY <2>1, <2>5
    <3>2. QED
      BY <1>2, <2>2, <2>3, <2>5, <3>1 DEF Harmless, Keeps, Follows, Open, Guarded
  <2>6. QED
    BY <2>4, <2>5
<1>5. QED
  BY <1>3, <1>4

LEMMA SimpleIsHarmless ==
  ASSUME NEW s \in Contexts, NEW y, Keeps(s, y), y.chip.sealed = s.chip.sealed
  PROVE  Harmless(s, y)
BY DEF Keeps, Follows, Harmless, Guarded, Open

\* The parts of init(): a block written if all went well so far.
LEMMA InitWrites ==
  ASSUME NEW s \in Contexts, NEW b \in BOOLEAN,
         NEW y \in IF s.ok THEN writeExtendedData(s, "deep", b) ELSE {s}
  PROVE  /\ Keeps(s, y) /\ y \in Contexts
         /\ y.ok => s.ok
         /\ Clean(s, y) /\ s.ok => y.ok
         /\ Guarded(s) /\ y.ok => Guarded(y)
         /\ Open(s) => Open(y)
<1>1. CASE s.ok
  <2>1. y \in writeExtendedData(s, "deep", b) /\ "deep" \in Fields
    BY <1>1 DEF Fields
  <2>2. QED
    BY <1>1, <2>1, WriteBlockDoes DEF Keeps, Follows, Guarded
<1>2. CASE ~s.ok
  <2>1. y = s
    BY <1>2
  <2>2. QED
    BY <1>2, <2>1, KeepsSame
<1>3. QED
  BY <1>1, <1>2

LEMMA InitDoes ==
  ASSUME NEW s \in Contexts, NEW y \in init(s)
  PROVE  /\ y \in Contexts /\ y.left <= s.left
         /\ y.on = s.on /\ y.ok = y.ready
         /\ Clean(s, y) => y.chip.hibernate
         /\ y.ok /\ ~s.ready /\ Guarded(s) => y.chip.sealed
         /\ Open(s) => ~y.chip.sealed
<1>1. PICK v, a, b, c, d :
        /\ v \in Transfer(s, Awake(s.chip))
        /\ a \in IF v.ok THEN writeExtendedData(v, "deep", v.chip.deep) ELSE {v}
        /\ b \in IF a.ok THEN writeExtendedData(a, "deep", a.chip.deep) ELSE {a}
        /\ c \in IF b.ok THEN writeExtendedData(b, "deep", TRUE) ELSE {b}
        /\ d \in IF c.ok THEN {[x EXCEPT !.ready = x.ok] : x \in setHibernate(c)} ELSE {c}
        /\ y = [d EXCEPT !.ok = d.ready]
  <2> DEFINE SleepCurrent(x) == writeExtendedData(x, "deep", x.chip.deep)
             HibernateV(x) == writeExtendedData(x, "deep", TRUE)
             Hibernate(x) == {[z EXCEPT !.ready = z.ok] : z \in setHibernate(x)}
             version == Transfer(s, Awake(s.chip))
             once == AndThen(version, SleepCurrent)
             slept == AndThen(once, SleepCurrent)
             low == AndThen(slept, HibernateV)
             ended == AndThen(low, Hibernate)
  <2>1. y \in {[x EXCEPT !.ok = x.ready] : x \in ended}
    BY DEF init
  <2>2. \A x \in ended : \E c \in low : x \in IF c.ok THEN Hibernate(c) ELSE {c}
    BY DEF AndThen
  <2>3. \A x \in low : \E b \in slept : x \in IF b.ok THEN HibernateV(b) ELSE {b}
    BY DEF AndThen
  <2>4. \A x \in slept : \E a \in once : x \in IF a.ok THEN SleepCurrent(a) ELSE {a}
    BY DEF AndThen
  <2>5. \A x \in once : \E v \in version : x \in IF v.ok THEN SleepCurrent(v) ELSE {v}
    BY DEF AndThen
  <2> HIDE DEF once, slept, low, ended
  <2>6. PICK d \in ended : y = [d EXCEPT !.ok = d.ready]
    BY <2>1
  <2>7. PICK c \in low : d \in IF c.ok THEN Hibernate(c) ELSE {c}
    BY <2>2
  <2>8. PICK b \in slept : c \in IF b.ok THEN HibernateV(b) ELSE {b}
    BY <2>3
  <2>9. PICK a \in once : b \in IF a.ok THEN SleepCurrent(a) ELSE {a}
    BY <2>4
  <2>10. PICK v \in version : a \in IF v.ok THEN SleepCurrent(v) ELSE {v}
    BY <2>5
  <2>11. /\ v \in Transfer(s, Awake(s.chip))
         /\ a \in IF v.ok THEN writeExtendedData(v, "deep", v.chip.deep) ELSE {v}
         /\ b \in IF a.ok THEN writeExtendedData(a, "deep", a.chip.deep) ELSE {a}
         /\ c \in IF b.ok THEN writeExtendedData(b, "deep", TRUE) ELSE {b}
         /\ d \in IF c.ok THEN {[x EXCEPT !.ready = x.ok] : x \in setHibernate(c)} ELSE {c}
    BY <2>7, <2>8, <2>9, <2>10
  <2>12. QED
    BY <2>6, <2>11
<1>2. /\ Keeps(s, v) /\ v \in Contexts /\ v.chip.sealed = s.chip.sealed
      /\ v.chip.reseal = s.chip.reseal /\ (Clean(s, v) => v.ok)
      /\ v.chip.deep \in BOOLEAN
  <2>1. v \in Transfer(s, Awake(s.chip))
    BY <1>1
  <2>2. QED
    BY <2>1, AwakenDoes, ContextFields DEF Keeps, Follows, Chip
<1>3. /\ Keeps(v, a) /\ a \in Contexts /\ (a.ok => v.ok) /\ (Clean(v, a) /\ v.ok => a.ok)
      /\ (Guarded(v) /\ a.ok => Guarded(a)) /\ (Open(v) => Open(a))
  BY <1>1, <1>2, InitWrites
<1>4. a.chip.deep \in BOOLEAN
  BY <1>3, ContextFields DEF Chip
<1>5. /\ Keeps(a, b) /\ b \in Contexts /\ (b.ok => a.ok) /\ (Clean(a, b) /\ a.ok => b.ok)
      /\ (Guarded(a) /\ b.ok => Guarded(b)) /\ (Open(a) => Open(b))
  BY <1>1, <1>3, <1>4, InitWrites
<1>6. /\ Keeps(b, c) /\ c \in Contexts /\ (c.ok => b.ok) /\ (Clean(b, c) /\ b.ok => c.ok)
      /\ (Guarded(b) /\ c.ok => Guarded(c)) /\ (Open(b) => Open(c))
  BY <1>1, <1>5, InitWrites
<1>7. /\ d \in Contexts /\ d.left <= c.left /\ d.on = c.on
      /\ d.chip.sealed = c.chip.sealed
      /\ d.ready => c.ready \/ c.ok
      /\ Clean(c, d) /\ c.ok => d.chip.hibernate
  <2>1. CASE c.ok
    <3>1. PICK x \in setHibernate(c) : d = [x EXCEPT !.ready = x.ok]
      BY <1>1, <2>1
    <3>2. /\ Follows(c, x) /\ x \in Contexts /\ x.ok \in BOOLEAN
          /\ x.chip.sealed = c.chip.sealed /\ (x.ok => x.chip.hibernate) /\ (Clean(c, x) => x.ok)
      BY <1>6, SetHibernateDoes, ContextFields DEF Follows
    <3>3. d \in Contexts /\ d.chip = x.chip /\ d.left = x.left /\ d.on = x.on
      BY <3>1, <3>2 DEF Contexts
    <3>4. QED
      BY <2>1, <3>2, <3>3 DEF Follows, Clean
  <2>2. CASE ~c.ok
    <3>1. d = c /\ c.left \in Nat
      BY <1>1, <1>6, <2>2, ContextFields
    <3>2. QED
      BY <1>6, <2>2, <3>1
  <2>3. QED
    BY <2>1, <2>2
<1>8. /\ y \in Contexts /\ y.chip = d.chip /\ y.left = d.left /\ y.on = d.on
      /\ y.ok = d.ready /\ y.ready = d.ready
  BY <1>1, <1>7, ContextFields DEF Contexts
<1>9. /\ Keeps(s, c) /\ (Clean(s, c) => c.ok)
  <2>1. Keeps(s, a) /\ (Clean(s, a) => Clean(s, v) /\ Clean(v, a))
    BY <1>2, <1>3, KeepsOn
  <2>2. Keeps(s, b) /\ (Clean(s, b) => Clean(s, a) /\ Clean(a, b))
    BY <1>5, <2>1, KeepsOn
  <2>3. Keeps(s, c) /\ (Clean(s, c) => Clean(s, b) /\ Clean(b, c))
    BY <1>6, <2>2, KeepsOn
  <2>4. QED
    BY <1>2, <1>3, <1>5, <1>6, <2>1, <2>2, <2>3
<1>10. /\ s.left \in Nat /\ c.left \in Nat /\ d.left \in Nat
       /\ c.left <= s.left /\ d.left <= c.left
       /\ c.on = s.on /\ c.ready = s.ready
  BY <1>6, <1>7, <1>9, ContextFields DEF Keeps, Follows
<1>11. y.left <= s.left /\ (Clean(s, y) => Clean(s, c) /\ Clean(c, d))
  BY <1>8, <1>10 DEF Clean
<1>12. Guarded(s) /\ c.ok => c.chip.sealed
  BY <1>2, <1>3, <1>5, <1>6 DEF Guarded
<1>13. Open(s) => ~c.chip.sealed
  BY <1>2, <1>3, <1>5, <1>6 DEF Open
<1>14. QED
  BY <1>7, <1>8, <1>9, <1>10, <1>11, <1>12, <1>13

LEMMA EnableDoes ==
  ASSUME NEW s \in Contexts, NEW y \in enableGauge(s)
  PROVE  /\ y \in Contexts /\ y.left <= s.left
         /\ y.ready = s.ready
         /\ Clean(s, y) => y.on /\ ~y.chip.hibernate
         /\ Guarded(s) /\ y.ok => y.chip.sealed
         /\ Open(s) => ~y.chip.sealed
<1> DEFINE Slow(x) == {x} \cup writeExtendedData(x, "slow", ~x.chip.slow)
           cleared == {[x EXCEPT !.on = @ \/ x.ok] : x \in Transfer(s, Awake(s.chip))}
           read == AndThen(cleared, readExtendedData)
<1>1. PICK r \in read : y \in IF r.ok THEN Slow(r) ELSE {r}
  <2>1. y \in AndThen(read, Slow)
    BY DEF enableGauge
  <2> HIDE DEF read
  <2>2. QED
    BY <2>1 DEF AndThen
<1>2. PICK v \in cleared : r \in IF v.ok THEN readExtendedData(v) ELSE {v}
  BY <1>1 DEF AndThen
<1>3. PICK x \in Transfer(s, Awake(s.chip)) : v = [x EXCEPT !.on = @ \/ x.ok]
  BY <1>2
<1>4. /\ Keeps(s, x) /\ x \in Contexts /\ x.chip.sealed = s.chip.sealed
      /\ x.chip.reseal = s.chip.reseal /\ (x.ok => ~x.chip.hibernate) /\ (Clean(s, x) => x.ok)
      /\ (x.on \/ x.ok) \in BOOLEAN
  BY AwakenDoes, ContextFields DEF Keeps, Follows
<1>5. /\ v \in Contexts /\ v.chip = x.chip /\ v.left = x.left /\ v.ready = x.ready
      /\ v.on = (x.on \/ x.ok)
  BY <1>3, <1>4 DEF Contexts
<1>6. /\ Keeps(v, r) /\ r \in Contexts /\ r.chip.reseal = v.chip.reseal
      /\ Guarded(v) /\ r.ok => r.chip.sealed
      /\ ~v.chip.sealed => ~r.chip.sealed
  <2>1. CASE v.ok
    BY <1>2, <1>5, <2>1, ReadBlockDoes DEF Keeps, Follows
  <2>2. CASE ~v.ok
    <3>1. r = v
      BY <1>2, <2>2
    <3>2. QED
      BY <1>5, <3>1, KeepsSame DEF Guarded
  <2>3. QED
    BY <2>1, <2>2
<1>7. /\ Keeps(r, y) /\ y \in Contexts
      /\ Guarded(r) /\ y.ok => r.ok /\ y.chip.sealed
      /\ Open(r) => ~y.chip.sealed
  <2>1. CASE y = r
    BY <1>6, <2>1, KeepsSame DEF Guarded, Open
  <2>2. CASE r.ok /\ y \in writeExtendedData(r, "slow", ~r.chip.slow)
    <3>1. "slow" \in Fields /\ (~r.chip.slow) \in BOOLEAN
      BY DEF Fields
    <3>2. PICK new \in BOOLEAN : y \in writeExtendedData(r, "slow", new)
      BY <2>2, <3>1
    <3>3. /\ Keeps(r, y) /\ (Guarded(r) /\ y.ok => y.chip.sealed)
          /\ (Open(r) => Open(y))
      BY <1>6, <3>1, <3>2, WriteBlockDoes
    <3>4. QED
      BY <2>2, <3>3 DEF Keeps, Follows, Open
  <2>3. QED
    BY <1>1, <2>1, <2>2
<1>8. Keeps(v, y) /\ (Clean(v, y) => Clean(v, r) /\ Clean(r, y))
  BY <1>5, <1>6, <1>7, KeepsOn
<1>9. s.left \in Nat /\ v.left \in Nat /\ y.left \in Nat /\ v.left <= s.left /\ y.left <= v.left
  BY <1>4, <1>5, <1>7, <1>8, ContextFields DEF Keeps, Follows
<1>10. y.left <= s.left /\ (Clean(s, y) => Clean(s, x))
  BY <1>5, <1>9 DEF Clean
<1>11. Guarded(s) /\ y.ok => y.chip.sealed
  <2>1. CASE y = r
    BY <1>4, <1>5, <1>6, <2>1 DEF Guarded
  <2>2. CASE r.ok
    BY <1>4, <1>5, <1>6, <1>7, <2>2 DEF Guarded
  <2>3. QED
    BY <1>1, <2>1, <2>2
<1>12. Open(s) => ~y.chip.sealed
  BY <1>4, <1>5, <1>6, <1>7 DEF Open
<1>13. QED
  BY <1>4, <1>5, <1>7, <1>8, <1>10, <1>11, <1>12 DEF Keeps, Follows

LEMMA DisableDoes ==
  ASSUME NEW s \in Contexts, NEW y \in disableGauge(s)
  PROVE  /\ y \in Contexts /\ y.left <= s.left
         /\ y.ready = s.ready /\ (y.on => s.on)
         /\ Clean(s, y) => ~y.on /\ y.chip.hibernate
         /\ y.chip.sealed = s.chip.sealed
<1>1. PICK x \in setHibernate(s) : y = [x EXCEPT !.on = @ /\ ~x.ok]
  BY DEF disableGauge
<1>2. /\ Follows(s, x) /\ x \in Contexts /\ x.chip.sealed = s.chip.sealed
      /\ (x.ok => x.chip.hibernate) /\ (Clean(s, x) => x.ok)
      /\ (x.on /\ ~x.ok) \in BOOLEAN
  BY SetHibernateDoes, ContextFields DEF Follows
<1>3. /\ y \in Contexts /\ y.chip = x.chip /\ y.left = x.left /\ y.ready = x.ready
      /\ y.on = (x.on /\ ~x.ok)
  BY <1>1, <1>2 DEF Contexts
<1>4. QED
  BY <1>2, <1>3 DEF Follows, Clean

LEMMA UnsealForGoodDoes ==
  ASSUME NEW s \in Contexts, NEW y \in advancedUnseal(s)
  PROVE  /\ Keeps(s, y)
         /\ y.ok => Open(y)
         /\ Open(s) => ~y.chip.sealed
<1> DEFINE Clear(x) == IF x.chip.reseal THEN writeExtendedData(x, "reseal", FALSE) ELSE {x}
           read == AndThen(unseal(s), readExtendedData)
<1>1. PICK r \in read : y \in IF r.ok THEN Clear(r) ELSE {r}
  <2>1. y \in AndThen(read, Clear)
    BY DEF advancedUnseal
  <2> HIDE DEF read
  <2>2. QED
    BY <2>1 DEF AndThen
<1>2. PICK u \in unseal(s) : r \in IF u.ok THEN readExtendedData(u) ELSE {u}
  BY <1>1 DEF AndThen
<1>3. /\ Keeps(s, u) /\ u \in Contexts /\ u.chip.reseal = s.chip.reseal
      /\ (u.chip.sealed => s.chip.sealed) /\ (u.ok => ~u.chip.sealed)
  BY <1>2, UnsealDoes DEF Keeps, Follows
<1>4. /\ Keeps(u, r) /\ r \in Contexts /\ r.chip.reseal = u.chip.reseal
      /\ (r.ok => u.ok) /\ (~u.chip.sealed => ~r.chip.sealed)
  <2>1. CASE u.ok
    BY <1>2, <1>3, <2>1, ReadBlockDoes DEF Keeps, Follows
  <2>2. CASE ~u.ok
    BY <1>2, <1>3, <2>2, KeepsSame
  <2>3. QED
    BY <2>1, <2>2
<1>5. /\ Keeps(r, y)
      /\ y.ok /\ ~r.chip.sealed => Open(y)
      /\ Open(r) => Open(y)
      /\ y.ok => r.ok
  <2>1. CASE r.ok /\ r.chip.reseal
    <3>1. y \in writeExtendedData(r, "reseal", FALSE) /\ "reseal" \in Fields
      BY <1>1, <2>1 DEF Fields
    <3>2. QED
      BY <1>4, <2>1, <3>1, WriteBlockDoes
  <2>2. CASE r.ok /\ ~r.chip.reseal
    <3>1. y = r
      BY <1>1, <2>2
    <3>2. QED
      BY <1>4, <2>2, <3>1, KeepsSame DEF Open
  <2>3. CASE ~r.ok
    <3>1. y = r
      BY <1>1, <2>3
    <3>2. QED
      BY <1>4, <2>3, <3>1, KeepsSame
  <2>4. QED
    BY <2>1, <2>2, <2>3
<1>6. Keeps(s, r)
  BY <1>3, <1>4, KeepsOn
<1>7. Keeps(s, y)
  BY <1>5, <1>6, KeepsOn
<1>8. QED
  BY <1>3, <1>4, <1>5, <1>7 DEF Open

\* What a call does before it puts the chip back to sleep.
Outcome(o, s, y) ==
  /\ y \in Contexts /\ y.left <= s.left
  /\ o # "init" => y.ready = s.ready
  /\ y.on => s.on \/ o = "enableGauge"
  /\ Clean(s, y) /\ (s.on => ~s.chip.hibernate /\ o # "init") /\ y.on => ~y.chip.hibernate
  /\ Clean(s, y) /\ o \in {"init", "enableGauge", "disableGauge"} /\ ~y.on => y.chip.hibernate
  /\ Guarded(s) /\ y.ok /\ o # "advancedUnseal" /\ (o = "init" => ~s.ready) => y.chip.sealed
  /\ o = "advancedUnseal" /\ y.ok => Open(y)
  /\ Open(s) /\ o # "advancedSeal" => ~y.chip.sealed

LEMMA HarmlessOutcome ==
  ASSUME NEW s \in Contexts, NEW y, Harmless(s, y),
         NEW o, o \notin {"init", "enableGauge", "disableGauge", "advancedUnseal"}
  PROVE  Outcome(o, s, y)
BY DEF Harmless, Outcome

LEMMA RoutineDoes ==
  ASSUME NEW s \in Contexts, NEW o, NEW y \in Routine(o, s)
  PROVE  Outcome(o, s, y)
<1>1. CASE o = "init"
  <2>1. y \in init(s)
    BY <1>1 DEF Routine
  <2>2. QED
    BY <1>1, <2>1, InitDoes DEF Outcome
<1>2. CASE o = "enableGauge"
  <2>1. y \in enableGauge(s)
    BY <1>2 DEF Routine
  <2>2. QED
    BY <1>2, <2>1, EnableDoes DEF Outcome
<1>3. CASE o = "disableGauge"
  <2>1. y \in disableGauge(s)
    BY <1>3 DEF Routine
  <2>2. QED
    BY <1>3, <2>1, DisableDoes DEF Outcome, Guarded, Open
<1>4. CASE o \in {"disableBatteryDetect", "enableBatteryDetect"}
  <2>1. PICK enable \in BOOLEAN : y \in BatteryDetect(s, enable)
    BY <1>4 DEF Routine
  <2>2. QED
    BY <1>4, <2>1, DetectDoes, HarmlessOutcome
<1>5. ASSUME y \in Refused(s)
      PROVE  Harmless(s, y)
  BY <1>5, RefusedDoes, SimpleIsHarmless DEF Refused
<1>6. CASE o = "advancedGetConfig"
  <2>1. CASE y \in readExtendedData(s)
    BY <1>6, <2>1, ReadBlockDoes, HarmlessOutcome DEF Harmless, Keeps, Follows, Open
  <2>2. CASE y \in Refused(s)
    BY <1>5, <1>6, <2>2, HarmlessOutcome
  <2>3. QED
    BY <1>6, <2>1, <2>2 DEF Routine
<1>7. CASE o = "advancedSetConfig"
  <2>1. CASE y \in writeExtendedData(s, "slow", TRUE)
    <3>1. /\ Keeps(s, y) /\ (Guarded(s) /\ y.ok => y.chip.sealed)
          /\ (Open(s) => Open(y))
      BY <2>1, WriteBlockDoes DEF Fields
    <3>2. Harmless(s, y)
      BY <3>1 DEF Harmless, Keeps, Follows, Open
    <3>3. QED
      BY <1>7, <3>2, HarmlessOutcome
  <2>2. CASE y \in Refused(s)
    BY <1>5, <1>7, <2>2, HarmlessOutcome
  <2>3. QED
    BY <1>7, <2>1, <2>2 DEF Routine
<1>8. CASE o = "advancedSendControlWord"
  <2>1. y \in Transfer(s, Awake(s.chip))
    BY <1>8 DEF Routine
  <2>2. QED
    BY <1>8, <2>1, AwakenDoes, SimpleIsHarmless, HarmlessOutcome
<1>9. CASE o = "advancedIsSealed"
  <2>1. PICK x \in isSealed(s) : y = [x EXCEPT !.ok = x.was]
    BY <1>9 DEF Routine
  <2>2. /\ Keeps(s, x) /\ x \in Contexts /\ x.chip.sealed = s.chip.sealed
        /\ x.was \in BOOLEAN
    BY IsSealedDoes, ContextFields DEF Keeps, Follows
  <2>3. /\ y \in Contexts /\ y.chip = x.chip /\ y.left = x.left /\ y.ready = x.ready
        /\ y.on = x.on /\ y.value = x.value
    BY <2>1, <2>2 DEF Contexts
  <2>4. Keeps(s, y) /\ y.chip.sealed = s.chip.sealed
    BY <2>2, <2>3 DEF Keeps, Follows
  <2>5. QED
    BY <1>9, <2>4, SimpleIsHarmless, HarmlessOutcome
<1>10. CASE o = "advancedSeal"
  <2>1. y \in seal(s)
    BY <1>10 DEF Routine
  <2>2. QED
    BY <1>10, <2>1, SealDoes DEF Outcome, Follows, Guarded
<1>11. CASE o = "advancedUnseal"
  <2>1. y \in advancedUnseal(s)
    BY <1>11 DEF Routine
  <2>2. QED
    BY <1>11, <2>1, UnsealForGoodDoes DEF Outcome, Keeps, Follows
<1>12. CASE o = "advancedReset"
  <2>1. y \in advancedReset(s)
    BY <1>12 DEF Routine
  <2>2. QED
    BY <1>12, <2>1, AdvancedResetDoes, HarmlessOutcome
<1>13. CASE o = "getRemainingPercentage"
  <2>1. y \in getRemainingPercentage(s)
    BY <1>13 DEF Routine
  <2>2. QED
    BY <1>13, <2>1, PercentageDoes, HarmlessOutcome
<1>14. CASE o \notin {"init", "enableGauge", "disableGauge", "disableBatteryDetect",
                      "enableBatteryDetect", "advancedGetConfig", "advancedSetConfig",
                      "advancedSendControlWord", "advancedIsSealed", "advancedSeal",
                      "advancedUnseal", "advancedReset", "getRemainingPercentage"}
  <2>1. y \in Read(s, "zero") \/ y \in Read(s, Kind(s))
    BY <1>14 DEF Routine
  <2>2. "zero" \in Values /\ Kind(s) \in Values
    BY DEF Kind, Values
  <2>3. Harmless(s, y)
    BY <2>1, <2>2, ReadDoes DEF Harmless, Guarded, Open
  <2>4. QED
    BY <1>14, <2>3, HarmlessOutcome
<1>15. QED
  BY <1>1, <1>2, <1>3, <1>4, <1>6, <1>7, <1>8, <1>9, <1>10, <1>11, <1>12, <1>13, <1>14

LEMMA BackToSleepDoes ==
  ASSUME NEW s \in Contexts, NEW o, NEW y \in BackToSleep(o, s)
  PROVE  /\ Follows(s, y)
         /\ y.chip.sealed = s.chip.sealed /\ y.chip.reseal = s.chip.reseal
         /\ y.ok => s.ok
         /\ s.on => y.chip = s.chip
         /\ o \in LeavesAwake => y = s
         /\ o \notin LeavesAwake /\ ~s.on /\ Clean(s, y) => y.chip.hibernate
<1>1. CASE s.on \/ o \in LeavesAwake
  <2>1. y = s
    BY <1>1 DEF BackToSleep
  <2>2. QED
    BY <1>1, <2>1, KeepsSame DEF Keeps
<1>2. CASE ~s.on /\ o \notin LeavesAwake
  <2>1. PICK x \in setHibernate(s) : y = [x EXCEPT !.ok = s.ok /\ (@ \/ o \in Unchecked)]
    BY <1>2 DEF BackToSleep
  <2>2. /\ Follows(s, x) /\ x \in Contexts
        /\ x.chip.sealed = s.chip.sealed /\ x.chip.reseal = s.chip.reseal
        /\ (x.ok => x.chip.hibernate) /\ (Clean(s, x) => x.ok)
    BY SetHibernateDoes DEF Follows
  <2>3. (s.ok /\ (x.ok \/ o \in Unchecked)) \in BOOLEAN
    BY <2>2, ContextFields
  <2>4. /\ y \in Contexts /\ y.chip = x.chip /\ y.left = x.left /\ y.ready = x.ready
        /\ y.on = x.on /\ y.value = x.value /\ y.ok = (s.ok /\ (x.ok \/ o \in Unchecked))
    BY <2>1, <2>2, <2>3 DEF Contexts
  <2>5. QED
    BY <1>2, <2>2, <2>4 DEF Follows, Clean
<1>3. QED
  BY <1>1, <1>2

(***************************************************************************)
(* The steps.                                                              *)
(***************************************************************************)

LEMMA TypeInit == Init => TypeOK
<1> SUFFICES ASSUME Init
             PROVE  TypeOK
  OBVIOUS
<1>1. 0 \in 0 .. MaxFaults
  BY GaugeAssumption
<1>2. chip \in Chip
  BY DEF Init
<1>3. QED
  BY <1>1, <1>2 DEF Init, TypeOK, Values

LEMMA ContextTypes ==
  ASSUME TypeOK
  PROVE  /\ Context \in Contexts
         /\ Context.left = MaxFaults - faults
         /\ Context.chip = chip /\ Context.ready = gReady /\ Context.on = gGaugeOn
         /\ faults \in Nat /\ MaxFaults \in Nat /\ faults <= MaxFaults
<1>1. faults \in Nat /\ MaxFaults \in Nat /\ faults <= MaxFaults
  BY GaugeAssumption DEF TypeOK
<1>2. MaxFaults - faults \in Nat
  BY <1>1
<1>3. QED
  BY <1>1, <1>2 DEF Context, Contexts, TypeOK, Values

LEMMA BeginTypes ==
  ASSUME TypeOK, NEW t \in Threads, NEW o \in Ops, Begin(t, o)
  PROVE  TypeOK'
BY DEF TypeOK, Begin, Values

LEMMA WakeDoes ==
  ASSUME TypeOK, NEW t \in Threads, Wake(t)
  PROVE  /\ TypeOK'
         /\ faults <= faults' /\ (faults' = faults => ret'[t])
         /\ chip'.sealed = chip.sealed /\ (chip'.hibernate => chip.hibernate)
<1>1. PICK s \in Transfer(Context, Awake(chip)) :
        /\ chip' = s.chip
        /\ faults' = MaxFaults - s.left
        /\ ret' = [ret EXCEPT ![t] = s.ok]
  BY DEF Wake
<1>2. /\ Keeps(Context, s) /\ s \in Contexts /\ s.chip.sealed = chip.sealed
      /\ (Clean(Context, s) => s.ok)
  BY <1>1, ContextTypes, AwakenDoes DEF Keeps, Follows
<1>3. s.left \in Nat /\ s.chip \in Chip /\ s.ok \in BOOLEAN
  BY <1>2, ContextFields
<1>4. s.left <= MaxFaults - faults /\ faults \in Nat /\ MaxFaults \in Nat
  BY <1>2, ContextTypes DEF Keeps, Follows
<1>5. faults' \in 0 .. MaxFaults /\ faults <= faults' /\ (faults' = faults => s.ok)
  <2>1. faults' = MaxFaults - s.left
    BY <1>1
  <2>2. faults' = faults => s.left = MaxFaults - faults
    BY <2>1, <1>3, <1>4
  <2>3. faults' = faults => s.ok
    BY <1>2, <2>2, ContextTypes DEF Clean
  <2>4. faults' \in 0 .. MaxFaults /\ faults <= faults'
    BY <2>1, <1>3, <1>4
  <2>5. QED
    BY <2>3, <2>4
<1>6. ret'[t] = s.ok
  BY <1>1 DEF TypeOK
<1>7. pc' = [pc EXCEPT ![t] = "measure"] /\ UNCHANGED <<gReady, gGaugeOn, op, value>>
  BY DEF Wake
<1>8. TypeOK'
  BY <1>1, <1>3, <1>5, <1>7 DEF TypeOK
<1>9. chip'.hibernate => chip.hibernate
  BY <1>1, <1>2, ContextTypes DEF Keeps
<1>10. QED
  BY <1>1, <1>2, <1>5, <1>6, <1>8, <1>9

LEMMA MeasureDoes ==
  ASSUME TypeOK, NEW t \in Threads, Measure(t)
  PROVE  /\ TypeOK'
         /\ chip'.sealed = chip.sealed /\ chip'.hibernate = chip.hibernate
<1>1. chip \in Chip /\ (chip.measured \/ ~chip.hibernate) \in BOOLEAN
  BY DEF TypeOK
<1>2. chip' = [chip EXCEPT !.measured = chip.measured \/ ~chip.hibernate]
  BY DEF Measure
<1>3. chip' \in Chip /\ chip'.sealed = chip.sealed /\ chip'.hibernate = chip.hibernate
  BY <1>1, <1>2 DEF Chip
<1>4. pc' \in [Threads -> {"idle", "wake", "measure", "lock"}]
  BY DEF Measure, TypeOK
<1>5. QED
  BY <1>3, <1>4 DEF Measure, TypeOK

\* What a call does with the lock, and what it means when it returns true.
LEMMA LockedDoes ==
  ASSUME TypeOK, NEW t \in Threads, Locked(t)
  PROVE  /\ TypeOK'
         /\ faults <= faults'
         /\ op[t] # "init" => gReady' = gReady
         /\ gGaugeOn' => gGaugeOn \/ op[t] = "enableGauge"
         /\ faults' = faults /\ (gGaugeOn => ~chip.hibernate /\ op[t] # "init") /\ gGaugeOn'
              => ~chip'.hibernate
         /\ faults' = faults /\ ~gGaugeOn' /\ op[t] \notin {"advancedSendControlWord", "advancedGet"}
              => chip'.hibernate
         /\ chip.sealed /\ chip.reseal /\ ret'[t] /\ op[t] # "advancedUnseal"
            /\ (op[t] = "init" => ~gReady) => chip'.sealed
         /\ op[t] = "advancedUnseal" /\ ret'[t] => ~chip'.sealed /\ ~chip'.reseal
         /\ ~chip.sealed /\ ~chip.reseal /\ op[t] # "advancedSeal" => ~chip'.sealed
<1> DEFINE o == op[t]
<1>1. PICK r \in Routine(o, Context) : \E s \in BackToSleep(o, r) :
        /\ chip' = s.chip
        /\ gReady' = s.ready
        /\ gGaugeOn' = s.on
        /\ faults' = MaxFaults - s.left
        /\ ret' = [ret EXCEPT ![t] = s.ok]
        /\ value' = [value EXCEPT ![t] = IF s.ok THEN s.value ELSE "none"]
  BY DEF Locked
<1>2. PICK s \in BackToSleep(o, r) :
        /\ chip' = s.chip
        /\ gReady' = s.ready
        /\ gGaugeOn' = s.on
        /\ faults' = MaxFaults - s.left
        /\ ret' = [ret EXCEPT ![t] = s.ok]
        /\ value' = [value EXCEPT ![t] = IF s.ok THEN s.value ELSE "none"]
  BY <1>1
<1>3. Outcome(o, Context, r) /\ r \in Contexts
  BY <1>1, ContextTypes, RoutineDoes DEF Outcome
<1>4. /\ Follows(r, s) /\ s \in Contexts
      /\ s.chip.sealed = r.chip.sealed /\ s.chip.reseal = r.chip.reseal
      /\ s.ok => r.ok
      /\ r.on => s.chip = r.chip
      /\ o \in LeavesAwake => s = r
      /\ o \notin LeavesAwake /\ ~r.on /\ Clean(r, s) => s.chip.hibernate
  BY <1>2, <1>3, BackToSleepDoes DEF Follows
<1>5. /\ s.left \in Nat /\ r.left \in Nat /\ s.left <= r.left
      /\ r.left <= MaxFaults - faults /\ faults \in Nat /\ MaxFaults \in Nat
      /\ Context.left = MaxFaults - faults /\ faults' = MaxFaults - s.left
  BY <1>2, <1>3, <1>4, ContextTypes, ContextFields DEF Outcome, Follows
<1>6. /\ faults' \in 0 .. MaxFaults /\ faults <= faults'
      /\ faults' = faults => Clean(Context, r) /\ Clean(r, s)
  BY <1>5 DEF Clean
<1>7. s.ready = r.ready /\ s.on = r.on
  BY <1>4 DEF Follows
<1>8. ret'[t] = s.ok
  BY <1>2 DEF TypeOK
<1>9. /\ Context.chip = chip /\ Context.ready = gReady /\ Context.on = gGaugeOn
  BY ContextTypes
<1>10. TypeOK'
  <2>1. /\ chip' \in Chip /\ gReady' \in BOOLEAN /\ gGaugeOn' \in BOOLEAN
        /\ s.ok \in BOOLEAN /\ (IF s.ok THEN s.value ELSE "none") \in Values
    BY <1>2, <1>4, ContextFields DEF Values
  <2>2. ret' \in [Threads -> BOOLEAN] /\ value' \in [Threads -> Values]
    BY <1>2, <2>1 DEF TypeOK
  <2>3. pc' \in [Threads -> {"idle", "wake", "measure", "lock"}] /\ op' = op
    BY DEF Locked, TypeOK
  <2>4. QED
    BY <1>6, <2>1, <2>2, <2>3 DEF TypeOK
<1>11. o # "init" => gReady' = gReady
  BY <1>2, <1>3, <1>7, <1>9 DEF Outcome
<1>12. gGaugeOn' => gGaugeOn \/ o = "enableGauge"
  BY <1>2, <1>3, <1>7, <1>9 DEF Outcome
<1>13. ASSUME faults' = faults, gGaugeOn => ~chip.hibernate /\ o # "init", gGaugeOn'
       PROVE  ~chip'.hibernate
  <2>1. r.on /\ chip' = r.chip
    BY <1>2, <1>4, <1>7, <1>13
  <2>2. QED
    BY <1>3, <1>6, <1>9, <1>13, <2>1 DEF Outcome
<1>14. ASSUME faults' = faults, ~gGaugeOn', o \notin {"advancedSendControlWord", "advancedGet"}
       PROVE  chip'.hibernate
  <2>1. ~r.on /\ Clean(Context, r) /\ Clean(r, s)
    BY <1>2, <1>6, <1>7, <1>14
  <2>2. CASE o \in LeavesAwake
    <3>1. o \in {"init", "enableGauge", "disableGauge"} /\ s = r
      BY <1>4, <1>14, <2>2 DEF LeavesAwake
    <3>2. QED
      BY <1>2, <1>3, <2>1, <3>1 DEF Outcome
  <2>3. CASE o \notin LeavesAwake
    BY <1>2, <1>4, <2>1, <2>3
  <2>4. QED
    BY <2>2, <2>3
<1>15. ASSUME chip.sealed, chip.reseal, ret'[t], o # "advancedUnseal", o = "init" => ~gReady
       PROVE  chip'.sealed
  BY <1>2, <1>3, <1>4, <1>8, <1>9, <1>15 DEF Outcome, Guarded
<1>16. ASSUME o = "advancedUnseal", ret'[t]
       PROVE  ~chip'.sealed /\ ~chip'.reseal
  BY <1>2, <1>3, <1>4, <1>8, <1>16 DEF Outcome, Open
<1>17. ASSUME ~chip.sealed, ~chip.reseal, o # "advancedSeal"
       PROVE  ~chip'.sealed
  BY <1>2, <1>3, <1>4, <1>9, <1>17 DEF Outcome, Open
<1>18. QED
  BY <1>6, <1>10, <1>11, <1>12, <1>13, <1>14, <1>15, <1>16, <1>17

LEMMA TypeStep == TypeOK /\ [Next]_vars => TypeOK'
<1> SUFFICES ASSUME TypeOK, [Next]_vars
             PROVE  TypeOK'
  OBVIOUS
<1>1. CASE UNCHANGED vars
  BY <1>1 DEF vars, TypeOK
<1>2. QED
  BY <1>1, BeginTypes, WakeDoes, MeasureDoes, LockedDoes DEF Next

\* TypeOK: the chip, the members of the driver and the threads keep their
\* types, whatever transfers fail.
THEOREM TypeCorrect == Spec => []TypeOK
  BY TypeInit, TypeStep, PTL DEF Spec

(***************************************************************************)
(* A driver that is initialised once: nothing but init() runs until the    *)
(* driver is ready, and the gauge is only on when it is.                   *)
(***************************************************************************)

OnceInv ==
  /\ gGaugeOn => gReady
  /\ \A t \in Threads : pc[t] # "idle" /\ op[t] # "init" => gReady
  /\ \A t \in Threads : pc[t] # "idle" /\ op[t] = "init" =>
       /\ ~gReady
       /\ \A u \in Threads : pc[u] # "idle" /\ op[u] = "init" => u = t

AwakeInv == TypeOK /\ OnceInv /\ GaugeOnAwake

LEMMA AwakeInit == Init => AwakeInv
BY TypeInit DEF Init, AwakeInv, OnceInv, GaugeOnAwake

\* A step of thread t leaves the others where they are.
LEMMA OthersStay ==
  ASSUME TypeOK, NEW t \in Threads,
         (\E o \in Ops : Begin(t, o)) \/ Wake(t) \/ Measure(t) \/ Locked(t)
  PROVE  \A u \in Threads : u # t => pc'[u] = pc[u] /\ op'[u] = op[u] /\ ret'[u] = ret[u]
<1>1. CASE \E o \in Ops : Begin(t, o)
  BY <1>1 DEF Begin, TypeOK
<1>2. CASE Wake(t)
  BY <1>2 DEF Wake, TypeOK
<1>3. CASE Measure(t)
  BY <1>3 DEF Measure, TypeOK
<1>4. CASE Locked(t)
  BY <1>4 DEF Locked, TypeOK
<1>5. QED
  BY <1>1, <1>2, <1>3, <1>4

LEMMA AwakeStep ==
  ASSUME ~MayReinit, AwakeInv, [Next]_vars
  PROVE  AwakeInv'
<1>1. TypeOK'
  BY TypeStep DEF AwakeInv
<1>2. ASSUME NEW t \in Threads, NEW o \in Ops, Begin(t, o)
      PROVE  OnceInv' /\ GaugeOnAwake'
  <2>1. /\ pc[t] = "idle" /\ (gReady \/ o = "init") /\ (o = "init" => InitOnce)
        /\ op'[t] = o
        /\ gReady' = gReady /\ gGaugeOn' = gGaugeOn /\ chip' = chip /\ faults' = faults
    BY <1>2 DEF Begin, AwakeInv, TypeOK
  <2>2. \A u \in Threads : u # t => pc'[u] = pc[u] /\ op'[u] = op[u]
    BY <1>2, OthersStay DEF AwakeInv
  <2>3. GaugeOnAwake'
    BY <2>1 DEF AwakeInv, GaugeOnAwake
  <2>4. gGaugeOn => gReady
    BY DEF AwakeInv, OnceInv
  <2>5. OnceInv'
    <3>1. CASE o = "init"
      <4>1. ~gReady /\ \A u \in Threads : pc[u] = "idle" \/ op[u] # "init"
        BY <2>1, <3>1 DEF InitOnce
      <4>2. \A u \in Threads : pc[u] = "idle"
        BY <4>1 DEF AwakeInv, OnceInv
      <4>3. \A u \in Threads : u # t => pc'[u] = "idle"
        BY <2>2, <4>2
      <4>4. ~gReady'
        BY <2>1, <4>1
      <4>5. ~gGaugeOn'
        BY <2>1, <2>4, <4>1
      <4>6. QED
        BY <2>1, <3>1, <4>3, <4>4, <4>5 DEF OnceInv
    <3>2. CASE o # "init"
      <4>1. gReady /\ gReady'
        BY <2>1, <3>2
      <4>2. \A u \in Threads : pc[u] = "idle" \/ op[u] # "init"
        BY <4>1 DEF AwakeInv, OnceInv
      <4>3. \A u \in Threads : pc'[u] = "idle" \/ op'[u] # "init"
        BY <2>1, <2>2, <3>2, <4>2
      <4>4. QED
        BY <4>1, <4>3 DEF OnceInv
    <3>3. QED
      BY <3>1, <3>2
  <2>6. QED
    BY <2>3, <2>5
<1>3. ASSUME NEW t \in Threads, Wake(t)
      PROVE  OnceInv' /\ GaugeOnAwake'
  <2>1. pc[t] = "wake" /\ UNCHANGED <<gReady, gGaugeOn, op>>
    BY <1>3 DEF Wake
  <2>2. \A u \in Threads : u # t => pc'[u] = pc[u]
    BY <1>3, OthersStay DEF AwakeInv
  <2>3. faults \in Nat /\ faults' \in Nat /\ faults <= faults' /\ (chip'.hibernate => chip.hibernate)
    BY <1>1, <1>3, WakeDoes DEF AwakeInv, TypeOK
  <2>4. GaugeOnAwake'
    BY <2>1, <2>3 DEF AwakeInv, GaugeOnAwake
  <2>5. OnceInv'
    BY <2>1, <2>2 DEF AwakeInv, OnceInv
  <2>6. QED
    BY <2>4, <2>5
<1>4. ASSUME NEW t \in Threads, Measure(t)
      PROVE  OnceInv' /\ GaugeOnAwake'
  <2>1. pc[t] = "measure" /\ UNCHANGED <<gReady, gGaugeOn, op, faults>>
    BY <1>4 DEF Measure
  <2>2. \A u \in Threads : u # t => pc'[u] = pc[u]
    BY <1>4, OthersStay DEF AwakeInv
  <2>3. GaugeOnAwake'
    BY <1>4, <2>1, MeasureDoes DEF AwakeInv, GaugeOnAwake
  <2>4. OnceInv'
    BY <2>1, <2>2 DEF AwakeInv, OnceInv
  <2>5. QED
    BY <2>3, <2>4
<1>5. ASSUME NEW t \in Threads, Locked(t)
      PROVE  OnceInv' /\ GaugeOnAwake'
  <2>1. pc[t] = "lock" /\ pc'[t] = "idle" /\ op' = op
    BY <1>5 DEF Locked, AwakeInv, TypeOK
  <2>2. \A u \in Threads : u # t => pc'[u] = pc[u]
    BY <1>5, OthersStay DEF AwakeInv
  <2>3. /\ op[t] # "init" => gReady' = gReady
        /\ gGaugeOn' => gGaugeOn \/ op[t] = "enableGauge"
        /\ faults' = faults /\ (gGaugeOn => ~chip.hibernate /\ op[t] # "init") /\ gGaugeOn'
             => ~chip'.hibernate
        /\ faults <= faults'
    BY <1>5, LockedDoes DEF AwakeInv
  <2>4. faults \in Nat /\ faults' \in Nat
    BY <1>1 DEF AwakeInv, TypeOK
  <2>5. op[t] = "init" => ~gReady /\ ~gGaugeOn
    BY <2>1 DEF AwakeInv, OnceInv
  <2>6. GaugeOnAwake'
    <3>1. SUFFICES ASSUME faults' = 0, gGaugeOn'
                   PROVE  ~chip'.hibernate
      BY DEF GaugeOnAwake
    <3>2. faults = 0 /\ faults' = faults
      BY <2>3, <2>4, <3>1
    <3>3. gGaugeOn => ~chip.hibernate
      BY <3>2 DEF AwakeInv, GaugeOnAwake
    <3>4. QED
      BY <2>3, <2>5, <3>1, <3>2, <3>3
  <2>7. OnceInv'
    <3>1. CASE op[t] = "init"
      <4>1. \A u \in Threads : u # t => pc[u] = "idle"
        BY <2>1, <2>5, <3>1 DEF AwakeInv, OnceInv
      <4>2. ~gGaugeOn'
        BY <2>3, <2>5, <3>1
      <4>3. QED
        BY <2>1, <2>2, <4>1, <4>2 DEF OnceInv
    <3>2. CASE op[t] # "init"
      <4>1. gReady' = gReady /\ gReady
        BY <2>1, <2>3, <3>2 DEF AwakeInv, OnceInv
      <4>2. QED
        BY <2>1, <2>2, <4>1 DEF AwakeInv, OnceInv
    <3>3. QED
      BY <3>1, <3>2
  <2>8. QED
    BY <2>6, <2>7
<1>6. CASE UNCHANGED vars
  <2>1. /\ gReady' = gReady /\ gGaugeOn' = gGaugeOn /\ chip' = chip /\ faults' = faults
        /\ pc' = pc /\ op' = op
    BY <1>6 DEF vars
  <2>2. OnceInv'
    BY <2>1 DEF AwakeInv, OnceInv
  <2>3. QED
    BY <1>1, <2>1, <2>2 DEF AwakeInv, GaugeOnAwake
<1>7. QED
  BY <1>1, <1>2, <1>3, <1>4, <1>5, <1>6 DEF Next, AwakeInv

LEMMA AwakeAlways == ASSUME ~MayReinit PROVE Spec => []AwakeInv
<1>1. AwakeInv /\ [Next]_vars => AwakeInv'
  BY AwakeStep
<1>2. QED
  BY <1>1, AwakeInit, PTL DEF Spec

\* GaugeOnAwake: no call by any thread sends the chip to sleep under a gauge
\* that another has switched on meanwhile, if init() is called once.
THEOREM GaugeStaysAwake == ASSUME ~MayReinit PROVE Spec => []GaugeOnAwake
<1>1. AwakeInv => GaugeOnAwake
  BY DEF AwakeInv
<1>2. QED
  BY <1>1, AwakeAlways, PTL

(***************************************************************************)
(* Who keeps the chip awake when the gauge is off: a thread that measures, *)
(* or has measured and is about to read.                                   *)
(***************************************************************************)

Measuring(t) == pc[t] = "measure" \/ (pc[t] = "lock" /\ op[t] \in Readings)

SleepInv ==
  /\ TypeOK
  /\ \A t \in Threads : pc[t] \in {"wake", "measure"} => op[t] \in Readings
  /\ faults = 0 => \A t \in Threads : pc[t] = "measure" => ret[t]
  /\ faults = 0 /\ gReady /\ ~gGaugeOn => chip.hibernate \/ \E t \in Threads : Measuring(t)

PutBackToSleep == {"advancedSendControlWord", "advancedGet"} \cap Ops = {}

LEMMA SleepInit == Init => SleepInv
BY TypeInit DEF Init, SleepInv

LEMMA SleepStep ==
  ASSUME PutBackToSleep, SleepInv, [Next]_vars
  PROVE  SleepInv'
<1>1. TypeOK' /\ TypeOK
  BY TypeStep DEF SleepInv
<1>2. ASSUME NEW t \in Threads, NEW o \in Ops, Begin(t, o)
      PROVE  SleepInv'
  <2>1. /\ pc[t] = "idle" /\ op'[t] = o /\ pc'[t] \in {"wake", "lock"}
        /\ pc'[t] = "wake" => o \in Readings
        /\ UNCHANGED <<gReady, gGaugeOn, chip, faults, ret>>
    BY <1>1, <1>2 DEF Begin, TypeOK
  <2>2. \A u \in Threads : u # t => pc'[u] = pc[u] /\ op'[u] = op[u]
    BY <1>1, <1>2, OthersStay
  <2>3. \A u \in Threads : Measuring(u) => Measuring(u)'
    BY <2>1, <2>2 DEF Measuring
  <2>4. QED
    BY <1>1, <2>1, <2>2, <2>3 DEF SleepInv
<1>3. ASSUME NEW t \in Threads, Wake(t)
      PROVE  SleepInv'
  <2>1. pc[t] = "wake" /\ pc'[t] = "measure" /\ UNCHANGED <<gReady, gGaugeOn, op>>
    BY <1>1, <1>3 DEF Wake, TypeOK
  <2>2. \A u \in Threads : u # t => pc'[u] = pc[u] /\ ret'[u] = ret[u]
    BY <1>1, <1>3, OthersStay
  <2>3. faults \in Nat /\ faults' \in Nat /\ faults <= faults' /\ (faults' = faults => ret'[t])
    BY <1>1, <1>3, WakeDoes DEF TypeOK
  <2>4. faults' = 0 => faults = 0 /\ faults' = faults
    BY <2>3
  <2>5. Measuring(t)'
    BY <2>1 DEF Measuring
  <2>6. faults' = 0 => \A u \in Threads : pc'[u] = "measure" => ret'[u]
    BY <2>2, <2>3, <2>4 DEF SleepInv
  <2>7. \A u \in Threads : pc'[u] \in {"wake", "measure"} => op'[u] \in Readings
    BY <2>1, <2>2 DEF SleepInv
  <2>8. QED
    BY <1>1, <2>5, <2>6, <2>7 DEF SleepInv
<1>4. ASSUME NEW t \in Threads, Measure(t)
      PROVE  SleepInv'
  <2>1. /\ pc[t] = "measure" /\ pc'[t] = IF ret[t] THEN "lock" ELSE "idle"
        /\ UNCHANGED <<gReady, gGaugeOn, op, ret, faults>>
    BY <1>1, <1>4 DEF Measure, TypeOK
  <2>2. \A u \in Threads : u # t => pc'[u] = pc[u]
    BY <1>1, <1>4, OthersStay
  <2>3. faults = 0 => Measuring(t)'
    BY <2>1 DEF SleepInv, Measuring
  <2>4. QED
    BY <1>1, <2>1, <2>2, <2>3 DEF SleepInv
<1>5. ASSUME NEW t \in Threads, Locked(t)
      PROVE  SleepInv'
  <2>1. pc[t] = "lock" /\ pc'[t] = "idle" /\ op' = op
    BY <1>1, <1>5 DEF Locked, TypeOK
  <2>2. \A u \in Threads : u # t => pc'[u] = pc[u] /\ ret'[u] = ret[u]
    BY <1>1, <1>5, OthersStay
  <2>3. op[t] \notin {"advancedSendControlWord", "advancedGet"}
    BY <1>1 DEF PutBackToSleep, TypeOK
  <2>4. faults' = faults /\ ~gGaugeOn' => chip'.hibernate
    BY <1>1, <1>5, <2>3, LockedDoes
  <2>5. faults \in Nat /\ faults' \in Nat /\ faults <= faults'
    BY <1>1, <1>5, LockedDoes DEF TypeOK
  <2>6. faults' = 0 => faults = 0 /\ faults' = faults
    BY <2>5
  <2>7. QED
    BY <1>1, <2>1, <2>2, <2>4, <2>6 DEF SleepInv
<1>6. CASE UNCHANGED vars
  BY <1>1, <1>6 DEF vars, SleepInv, Measuring
<1>7. QED
  BY <1>2, <1>3, <1>4, <1>5, <1>6 DEF Next

LEMMA SleepAlways == ASSUME PutBackToSleep PROVE Spec => []SleepInv
<1>1. SleepInv /\ [Next]_vars => SleepInv'
  BY SleepStep
<1>2. QED
  BY <1>1, SleepInit, PTL DEF Spec

\* HibernatesAgain: with no call under way and the gauge off, a ready driver has
\* put the chip to sleep, if the two calls that never do so are not used.
THEOREM ChipHibernates == ASSUME PutBackToSleep PROVE Spec => []HibernatesAgain
<1>1. SleepInv => HibernatesAgain
  BY DEF SleepInv, HibernatesAgain, Measuring
<1>2. QED
  BY <1>1, SleepAlways, PTL

(***************************************************************************)
(* The seal.                                                               *)
(***************************************************************************)

LEMMA SealStep ==
  ASSUME AwakeInv, [Next]_vars, NEW t \in Threads, Succeeds(t)
  PROVE  Locked(t)
<1>1. PICK u \in Threads : (\E o \in Ops : Begin(u, o)) \/ Wake(u) \/ Measure(u) \/ Locked(u)
  BY DEF Succeeds, Next, vars
<1>2. u = t
  BY <1>1, OthersStay DEF Succeeds, AwakeInv
<1>3. QED
  BY <1>1, <1>2 DEF Succeeds, Begin, Wake, Measure

\* SealKept: true means that a chip that is to be sealed is sealed, whatever
\* transfers failed on the way, if init() is called once.
THEOREM SealIsKept == ASSUME ~MayReinit PROVE Spec => SealKept
<1> DEFINE Kept == \A t \in Threads :
             Succeeds(t) /\ op[t] # "advancedUnseal" /\ chip.sealed /\ chip.reseal => chip'.sealed
<1>1. AwakeInv /\ [Next]_vars => Kept
  <2>1. SUFFICES ASSUME AwakeInv, [Next]_vars, NEW t \in Threads, Succeeds(t),
                        op[t] # "advancedUnseal", chip.sealed, chip.reseal
                 PROVE  chip'.sealed
    OBVIOUS
  <2>2. Locked(t) /\ ret'[t] /\ pc[t] # "idle"
    BY <2>1, SealStep DEF Succeeds
  <2>3. op[t] = "init" => ~gReady
    BY <2>1, <2>2 DEF AwakeInv, OnceInv
  <2>4. QED
    BY <2>1, <2>2, <2>3, LockedDoes DEF AwakeInv
<1>2. QED
  BY <1>1, AwakeAlways, PTL DEF Spec, SealKept

\* UnsealedForGood: what advancedUnseal() opens, every other call than
\* advancedSeal() leaves open.
THEOREM UnsealedStaysOpen == Spec => UnsealedForGood
<1> DEFINE Good == \A t \in Threads :
             /\ Succeeds(t) /\ op[t] = "advancedUnseal" => ~chip'.sealed /\ ~chip'.reseal
             /\ pc[t] # pc'[t] /\ ~chip.sealed /\ ~chip.reseal /\ chip'.sealed
                  => op[t] = "advancedSeal"
<1>1. TypeOK /\ [Next]_vars => Good
  <2>1. SUFFICES ASSUME TypeOK, [Next]_vars, NEW t \in Threads, pc[t] # pc'[t]
                 PROVE  /\ Succeeds(t) /\ op[t] = "advancedUnseal" => ~chip'.sealed /\ ~chip'.reseal
                        /\ ~chip.sealed /\ ~chip.reseal /\ chip'.sealed => op[t] = "advancedSeal"
    BY DEF Succeeds
  <2>2. PICK u \in Threads : (\E o \in Ops : Begin(u, o)) \/ Wake(u) \/ Measure(u) \/ Locked(u)
    BY <2>1 DEF Next, vars
  <2>3. u = t
    BY <2>1, <2>2, OthersStay
  <2>4. CASE \E o \in Ops : Begin(t, o)
    BY <2>4 DEF Begin, Succeeds
  <2>5. CASE Wake(t)
    BY <2>1, <2>5, WakeDoes DEF Wake, Succeeds
  <2>6. CASE Measure(t)
    BY <2>1, <2>6, MeasureDoes DEF Measure, Succeeds
  <2>7. CASE Locked(t)
    BY <2>1, <2>7, LockedDoes DEF Succeeds
  <2>8. QED
    BY <2>2, <2>3, <2>4, <2>5, <2>6, <2>7
<1>2. QED
  BY <1>1, TypeCorrect, PTL DEF Spec, UnsealedForGood
================================================================================
