--------------------------- MODULE N2xxSocketsProofs ---------------------------
(***************************************************************************)
(* Theorems about N2xxSockets, for every number of threads, slots, modem   *)
(* handles and locks left behind, and whatever the modem answers.          *)
(***************************************************************************)
EXTENDS N2xxSockets, TLAPS, WellFoundedInduction, SequenceTheorems

LEMMA NumbersGiven ==
  /\ EventThread \notin Threads /\ Nobody \notin Threads /\ Nobody # EventThread
  /\ ModemHandles \subseteq Nat /\ SOCKET_UNUSED \notin ModemHandles
  /\ NumSockets \in Nat /\ NumSockets > 0 /\ MaxRead \in Nat /\ MaxRead > 0
  /\ MaxWrite \in Nat /\ MaxWrite > 0 /\ MaxLength \in Nat /\ MaxLength > 0
  /\ MaxSize \in Nat /\ MaxHeap \in Nat /\ MaxDepth \in Nat /\ MaxFaults \in Nat
  /\ AnswerTime \in Nat /\ SizeMod \in Nat /\ SizeMod > MaxSize
<1>1. /\ {NumSockets, MaxRead, MaxWrite, MaxLength} \subseteq Nat \ {0}
      /\ {MaxSize, MaxWaiting, MaxPending, MaxLine, MaxHeap, MaxDepth, MaxFaults} \subseteq Nat
      /\ ModemHandles \subseteq Nat
      /\ AnswerTime \in Nat /\ SizeMod \in Nat /\ SizeMod > MaxSize
  BY N2xxAssumption
<1>2. EventThread \notin Threads /\ Nobody \notin Threads /\ Nobody # EventThread
  BY N2xxAssumption
<1>3. SOCKET_UNUSED \notin ModemHandles
  BY <1>1 DEF SOCKET_UNUSED
<1>4. QED
  BY <1>1, <1>2, <1>3

(***************************************************************************)
(* The mutex and its depth.  Whoever waits in recv() has the mutex, and    *)
(* has locked it as often as the turn it is in does.                       *)
(***************************************************************************)

\* The locks of a turn that is at l, and the deepest the mutex can be then.
Taken(l) == IF l = "recvRead" THEN 2 ELSE IF l \in InRecv THEN 1 ELSE 0
Deepest(l) == Taken(l) + MaxDepth + (IF l = "idle" THEN 1 ELSE 0)

ControlInv ==
  /\ mtx \in Actors \cup {Nobody}
  /\ depth \in Nat /\ (depth = 0 <=> mtx = Nobody)
  /\ pc \in [Actors -> PCs]
  /\ \A a \in Actors : pc[a] \in {"poll", "urcs"} <=> a = EventThread
  /\ \A a \in Actors : pc[a] \in InRecv => mtx = a
  /\ \A a \in Actors : mtx = a => Taken(pc[a]) <= depth /\ depth <= Deepest(pc[a])

LEMMA TakenIs ==
  ASSUME NEW l
  PROVE  Taken(l) \in Nat /\ Deepest(l) \in Nat /\ Deepest(l) <= MaxDepth + 2
BY NumbersGiven DEF Taken, Deepest, InRecv

LEMMA ControlInit == Init => ControlInv
<1> SUFFICES ASSUME Init
             PROVE  ControlInv
  OBVIOUS
<1>1. /\ mtx = Nobody /\ depth = 0
      /\ pc = [a \in Actors |-> IF a = EventThread THEN "poll" ELSE "idle"]
  BY DEF Init
<1>2. QED
  BY <1>1, NumbersGiven DEF ControlInv, Actors, PCs, InRecv

\* a takes the mutex, gives it back, or leaves it alone.
LEMMA LockTaken ==
  ASSUME ControlInv, NEW a \in Actors, NEW l \in PCs, NEW n \in {1, 2},
         a = EventThread <=> l \in {"poll", "urcs"},
         LOCK(a, n), Goto(a, l), Taken(l) <= n, depth + n <= Deepest(l)
  PROVE  ControlInv'
<1>1. mtx' = a /\ depth' = depth + n /\ depth \in Nat /\ depth' > 0 /\ a # Nobody
  BY NumbersGiven DEF LOCK, ControlInv, Actors
<1>2. pc' = [pc EXCEPT ![a] = l] /\ pc' \in [Actors -> PCs]
  BY DEF Goto, ControlInv
<1>3. \A b \in Actors : b # a => pc[b] \notin InRecv
  BY NumbersGiven DEF ControlInv, LOCK, Actors
<1>4. Taken(l) <= depth' /\ depth' <= Deepest(l)
  BY <1>1, TakenIs
<1>5. QED
  BY <1>1, <1>2, <1>3, <1>4 DEF ControlInv, Taken, Deepest

LEMMA LockGiven ==
  ASSUME ControlInv, NEW a \in Actors, NEW l \in PCs \ InRecv, NEW n \in {1, 2},
         a = EventThread <=> l \in {"poll", "urcs"},
         UNLOCK(a, n), Goto(a, l), Taken(pc[a]) = n, pc[a] # "idle"
  PROVE  ControlInv'
<1>1. /\ mtx = a /\ depth' = depth - n /\ depth \in Nat /\ n <= depth
      /\ mtx' = IF depth = n THEN Nobody ELSE a
      /\ a # Nobody
      /\ depth <= n + MaxDepth
  BY NumbersGiven DEF UNLOCK, ControlInv, Actors, Deepest
<1>2. pc' = [pc EXCEPT ![a] = l] /\ pc' \in [Actors -> PCs]
  BY DEF Goto, ControlInv
<1>3. \A b \in Actors : b # a => pc[b] \notin InRecv
  BY <1>1 DEF ControlInv
<1>4. depth' \in Nat /\ (depth' = 0 <=> mtx' = Nobody) /\ depth' <= MaxDepth
  BY <1>1, NumbersGiven
<1>5. /\ Taken(l) = 0 /\ Taken(l) \in Int
      /\ MaxDepth <= Deepest(l) /\ MaxDepth \in Int /\ Deepest(l) \in Int
  BY NumbersGiven DEF Taken, Deepest, InRecv
<1>6. Taken(l) <= depth' /\ depth' <= Deepest(l)
  BY <1>4, <1>5
<1>7. \A b \in Actors : pc'[b] \notin InRecv
  BY <1>2, <1>3 DEF ControlInv
<1>8. \A b \in Actors : mtx' = b => Taken(pc'[b]) <= depth' /\ depth' <= Deepest(pc'[b])
  BY <1>1, <1>2, <1>6, NumbersGiven DEF ControlInv, Actors
<1>9. QED
  BY <1>1, <1>2, <1>4, <1>7, <1>8 DEF ControlInv, Taken, Deepest

LEMMA LockLeft ==
  ASSUME ControlInv, NEW a \in Actors, NEW l \in PCs \ InRecv, UNCHANGED lockVars, Goto(a, l),
         a = EventThread <=> l \in {"poll", "urcs"}, pc[a] \notin InRecv,
         mtx = a => depth <= Deepest(l)
  PROVE  ControlInv'
<1>1. pc' = [pc EXCEPT ![a] = l] /\ pc' \in [Actors -> PCs] /\ mtx' = mtx /\ depth' = depth
  BY DEF Goto, ControlInv, lockVars
<1>2. mtx = a => Taken(l) <= depth
  BY DEF ControlInv, Taken, InRecv
<1>3. QED
  BY <1>1, <1>2 DEF ControlInv, Taken, Deepest

LEMMA ControlStep == ControlInv /\ [Next]_vars => ControlInv'
<1> SUFFICES ASSUME ControlInv, [Next]_vars
             PROVE  ControlInv'
  OBVIOUS
<1> USE DEF threadVars, lockVars, modemVars
<1>a. /\ Threads \subseteq Actors /\ EventThread \in Actors
      /\ InRecv \subseteq PCs /\ {"idle", "sendLoop", "sendLock", "recvLoop", "poll"} \subseteq PCs \ InRecv
      /\ \A t \in Threads : t # EventThread
      /\ depth \in Nat /\ MaxDepth \in Nat
  BY NumbersGiven DEF Actors, PCs, InRecv, ControlInv
<1>b. /\ \A l \in InRecv \ {"recvRead"} : Taken(l) = 1 /\ Deepest(l) = MaxDepth + 1
      /\ Taken("recvRead") = 2 /\ Deepest("recvRead") = MaxDepth + 2
      /\ Taken("idle") = 0 /\ Deepest("idle") = MaxDepth + 1
      /\ \A l \in {"sendLoop", "sendLock", "recvLoop", "poll"} : Taken(l) = 0 /\ Deepest(l) = MaxDepth
  BY NumbersGiven DEF Taken, Deepest, InRecv
<1>1. ASSUME UNCHANGED <<lockVars, pc>>
      PROVE  ControlInv'
  BY <1>1 DEF ControlInv, Taken, Deepest
<1>2. ASSUME NEW t \in Threads, NEW op, NEW n, NEW blk, BeginCall(t, op, n, blk)
      PROVE  pc[t] = "idle" /\ (mtx \in {Nobody, t} => depth = 0 \/ depth + 1 <= MaxDepth)
  BY <1>2, <1>a DEF BeginCall, ControlInv
<1>3. ASSUME NEW t \in Threads, pc[t] \in {"sendLock", "recvLoop"}, mtx \in {Nobody, t}
      PROVE  depth <= MaxDepth
  BY <1>3, <1>a, <1>b DEF ControlInv
<1>4. CASE \E a \in Actors : NSONMI_URC(a) \/ SkipLine(a)
  BY <1>1, <1>4 DEF NSONMI_URC, HandleURC, SkipLine
<1>5. CASE EventBegin
  <2>1. depth <= MaxDepth
    BY <1>5, <1>a, <1>b DEF EventBegin, LOCK, ControlInv
  <2>2. QED
    BY <1>5, <1>a, <1>b, <2>1, LockTaken DEF EventBegin, InRecv
<1>6. CASE EventEnd
  BY <1>6, <1>a, <1>b, LockGiven DEF EventEnd, Receiving, InRecv
<1>7. ASSUME NEW t \in Threads, StartCall(t)
      PROVE  ControlInv'
  <2>1. CASE socket_open(t)
    BY <1>2, <1>a, <1>b, <2>1, LockTaken DEF socket_open, LOCK, InRecv
  <2>2. CASE socket_close(t)
    BY <1>2, <1>a, <1>b, <2>2, LockTaken DEF socket_close, LOCK, InRecv
  <2>3. CASE OpenNoMemory(t)
    BY <1>a, <1>b, <2>3, LockLeft DEF OpenNoMemory, Return, ControlInv
  <2>4. CASE socket_attach(t)
    BY <1>1, <2>4 DEF socket_attach
  <2>5. CASE socket_sendto(t)
    BY <1>2, <1>a, <1>b, <2>5, LockLeft DEF socket_sendto
  <2>6. CASE socket_recvfrom(t)
    BY <1>2, <1>a, <1>b, <2>6, LockLeft DEF socket_recvfrom
  <2>7. QED
    BY <1>7, <2>1, <2>2, <2>3, <2>4, <2>5, <2>6 DEF StartCall
<1>8. ASSUME NEW t \in Threads, ContinueCall(t)
      PROVE  ControlInv'
  <2>1. CASE OpenCreated(t) \/ OpenFails(t) \/ CloseDone(t) \/ CloseFails(t) \/ SendFails(t)
    <3>1. /\ pc[t] \in {"open", "close", "sendWait"}
          /\ UNLOCK(t, 1) /\ Goto(t, "idle")
      BY <2>1 DEF OpenCreated, OpenFails, CloseDone, CloseFails, SendFails, GotAnswer, GotNone, TimedOut,
                  Receiving, EndExchange, Return
    <3>2. QED
      BY <1>a, <1>b, <3>1, LockGiven DEF InRecv
  <2>2. CASE SendNoBuffer(t) \/ SendBuffer(t)
    <3>1. mtx = t => depth <= MaxDepth
      BY <1>a, <1>b, <2>2 DEF ControlInv, SendNoBuffer, SendBuffer
    <3>2. QED
      BY <1>a, <1>b, <2>2, <3>1, LockLeft DEF SendNoBuffer, SendBuffer, Return
  <2>3. CASE SendGot(t)
    <3>1. PICK l \in {"idle", "sendLoop"} : Goto(t, l)
      BY <2>3 DEF SendGot, Return
    <3>2. pc[t] = "sendWait" /\ UNLOCK(t, 1)
      BY <2>3 DEF SendGot, GotAnswer, Receiving
    <3>3. QED
      BY <1>a, <1>b, <3>1, <3>2, LockGiven DEF InRecv
  <2>4. CASE RecvGot(t) \/ RecvSizeUnread(t) \/ RecvFails(t)
    <3>1. pc[t] = "recvRead" /\ UNLOCK(t, 2) /\ Goto(t, "idle")
      BY <2>4 DEF RecvGot, RecvSizeUnread, RecvFails, GotAnswer, GotNone, TimedOut, Receiving, EndTurn, Return
    <3>2. QED
      BY <1>a, <1>b, <3>1, LockGiven DEF InRecv
  <2>5. CASE RecvWaited(t)
    <3>1. pc[t] = "recvWait" /\ UNLOCK(t, 1) /\ Goto(t, "recvLoop")
      BY <2>5 DEF RecvWaited, Receiving, EndTurn
    <3>2. QED
      BY <1>a, <1>b, <3>1, LockGiven DEF InRecv
  <2>6. QED
    BY <1>8, <2>1, <2>2, <2>3, <2>4, <2>5 DEF ContinueCall
<1>9. ASSUME NEW t \in Threads, TakeTurn(t)
      PROVE  ControlInv'
  <2>1. CASE SendBlock(t)
    BY <1>3, <1>a, <1>b, <2>1, LockTaken DEF SendBlock, LOCK, InRecv
  <2>2. CASE RecvRead(t)
    BY <1>3, <1>a, <1>b, <2>2, LockTaken DEF RecvRead, BeginTurn, LOCK, InRecv
  <2>3. CASE RecvNoBuffer(t)
    BY <1>3, <1>a, <1>b, <2>3, LockTaken DEF RecvNoBuffer, BeginTurn, LOCK, Return
  <2>4. CASE RecvWait(t)
    BY <1>3, <1>a, <1>b, <2>4, LockTaken DEF RecvWait, BeginTurn, LOCK, InRecv
  <2>5. CASE RecvReturns(t)
    BY <1>3, <1>a, <1>b, <2>5, LockLeft DEF RecvReturns, Return
  <2>6. QED
    BY <1>9, <2>1, <2>2, <2>3, <2>4, <2>5 DEF TakeTurn
<1>10. ASSUME NEW t \in Threads, TimerExpires(t)
       PROVE  ControlInv'
  BY <1>1, <1>10 DEF TimerExpires
<1>11. CASE ModemExecutes \/ ModemRefuses \/ (\E h \in ModemHandles : DatagramArrives(h))
  BY <1>1, <1>11 DEF ModemExecutes, ModemRefuses, DatagramArrives
<1>12. CASE UNCHANGED vars
  BY <1>1, <1>12 DEF vars
<1>13. QED
  BY <1>4, <1>5, <1>6, <1>7, <1>8, <1>9, <1>10, <1>11, <1>12 DEF Next

(***************************************************************************)
(* Types.  A thread inside a call has a slot of its own; the slot is in    *)
(* use unless it is being opened, and what it counts as pending covers the *)
(* read that is under way.                                                 *)
(***************************************************************************)

\* A line that is not a refusal names a socket of the modem.
FitLine == {x \in LineItem : x.type # "ERROR" => x.handle \in ModemHandles}

ModemSocket == [open : BOOLEAN, waiting : Seq(1..MaxLength)]

DataTypes ==
  /\ sockets \in [Slots -> SockCtrl]
  /\ handle \in [Threads -> Slots \cup {NoSocket}]
  /\ at_timeout \in Timeouts /\ saved \in [Actors -> Timeouts]
  /\ call \in [Threads -> CallState] /\ ret \in [Threads -> Results]
  /\ heap \in Nat
  /\ cmd \in Command
  /\ line \in Seq(FitLine)
  /\ modem \in [ModemHandles -> ModemSocket]
  /\ faults \in 0..MaxFaults

InUse(s) == sockets[s].modem_handle # SOCKET_UNUSED

OwnSlot ==
  /\ \A t \in Threads : pc[t] # "idle" => handle[t] \in Slots
  /\ \A t, u \in Threads : handle[t] = handle[u] /\ handle[t] # NoSocket => t = u
  /\ \A t \in Threads : handle[t] \in Slots => (InUse(handle[t]) <=> pc[t] # "open")
  /\ \A t \in Threads : pc[t] = "recvRead" => call[t].blk <= sockets[handle[t]].pending

TypeInv == ControlInv /\ DataTypes /\ OwnSlot

LEMMA ConstantTypes ==
  /\ UnusedSocket \in SockCtrl /\ NoCall \in CallState /\ NoCommand \in Command
  /\ ClosedSocket \in ModemSocket
  /\ NoSocket \notin Slots
BY NumbersGiven
   DEF UnusedSocket, SockCtrl, SOCKET_UNUSED, NoCall, CallState, NoCommand, Command, ClosedSocket,
       ModemSocket, NoSocket, Slots

LEMMA LineTypes ==
  ASSUME line \in Seq(FitLine), line # << >>
  PROVE  /\ Tail(line) \in Seq(FitLine)
         /\ Head(line) \in FitLine
         /\ Head(line).n \in Nat /\ Head(line).handle \in ModemHandles \cup {SOCKET_UNUSED}
         /\ Head(line).type # "ERROR" => Head(line).handle \in ModemHandles
<1>1. Tail(line) \in Seq(FitLine) /\ Head(line) \in FitLine
  OBVIOUS
<1>2. QED
  BY <1>1, NumbersGiven DEF FitLine, LineItem, Lengths

LEMMA TypeInvMeans == TypeInv /\ hasty \in BOOLEAN => TypeOK
<1> SUFFICES ASSUME TypeInv, hasty \in BOOLEAN
             PROVE  TypeOK
  OBVIOUS
<1>1. \A x \in FitLine : x \in LineItem
  BY DEF FitLine
<1>2. line \in Seq(LineItem)
  BY <1>1 DEF TypeInv, DataTypes
<1>3. depth \in 0..MaxDepth + 2
  <2>1. depth \in Nat /\ MaxDepth \in Nat /\ (depth # 0 => mtx \in Actors)
    BY NumbersGiven DEF TypeInv, ControlInv
  <2>2. mtx \in Actors => depth <= Deepest(pc[mtx])
    BY DEF TypeInv, ControlInv
  <2>3. mtx \in Actors => depth <= MaxDepth + 2
    BY <2>1, <2>2, TakenIs
  <2>4. QED
    BY <2>1, <2>3
<1>4. QED
  BY <1>2, <1>3 DEF TypeInv, ControlInv, DataTypes, ModemSocket, TypeOK

LEMMA TypeInvInit == Init => TypeInv
<1> SUFFICES ASSUME Init
             PROVE  TypeInv
  OBVIOUS
<1>1. ControlInv
  BY ControlInit
<1>2. /\ sockets \in [Slots -> SockCtrl] /\ call \in [Threads -> CallState]
      /\ modem \in [ModemHandles -> ModemSocket] /\ cmd \in Command
  BY ConstantTypes DEF Init
<1>3. /\ handle \in [Threads -> Slots \cup {NoSocket}] /\ ret \in [Threads -> Results]
      /\ at_timeout \in Timeouts /\ saved \in [Actors -> Timeouts]
  BY DEF Init, Results, Timeouts
<1>4. line \in Seq(FitLine) /\ faults \in 0..MaxFaults /\ heap \in Nat
  BY NumbersGiven DEF Init
<1>5. \A t \in Threads : handle[t] = NoSocket /\ pc[t] = "idle"
  BY NumbersGiven DEF Init, Actors
<1>6. OwnSlot
  BY <1>5, ConstantTypes DEF OwnSlot
<1>7. QED
  BY <1>1, <1>2, <1>3, <1>4, <1>6 DEF TypeInv, DataTypes

LEMMA HeardTypes ==
  ASSUME TypeInv, NEW t, NEW l, NEW types, GotAnswer(t, l, types) \/ GotNone(t, l, types)
  PROVE  line' \in Seq(FitLine) /\ faults' \in 0..MaxFaults
<1>1. line' = line \/ (line # << >> /\ line' = Tail(line))
  BY DEF GotAnswer, GotNone, TimedOut, Arrived
<1>2. faults' = faults \/ (faults > 0 /\ faults' = faults - 1)
  BY DEF GotAnswer, GotNone, TimedOut
<1>3. line \in Seq(FitLine) /\ faults \in 0..MaxFaults
  BY DEF TypeInv, DataTypes
<1>4. line' \in Seq(FitLine)
  BY <1>1, <1>3, LineTypes
<1>5. faults' \in 0..MaxFaults
  BY <1>2, <1>3, NumbersGiven
<1>6. QED
  BY <1>4, <1>5

LEMMA ReturnTypes ==
  ASSUME TypeInv, NEW t \in Threads, NEW r \in Results, Return(t, r)
  PROVE  ret' \in [Threads -> Results] /\ call' \in [Threads -> CallState]
BY ConstantTypes DEF TypeInv, DataTypes, Return

LEMMA BeginTypes ==
  ASSUME TypeInv, NEW t \in Threads, NEW op, NEW n \in 0..MaxSize, NEW blk \in {0, MaxWrite},
         BeginCall(t, op, n, blk)
  PROVE  ret' \in [Threads -> Results] /\ call' \in [Threads -> CallState]
<1>a. n \in 0..SizeMod - 1 /\ blk \in 0..MaxRead + MaxWrite
  BY NumbersGiven
<1>1. [NoCall EXCEPT !.size = n, !.blk = blk] \in CallState
  BY <1>a DEF CallState, NoCall
<1>2. QED
  BY <1>1 DEF TypeInv, DataTypes, BeginCall, Results

LEMMA SlotTypes ==
  ASSUME TypeInv, NEW s \in Slots
  PROVE  /\ sockets[s] \in SockCtrl
         /\ sockets[s].modem_handle \in ModemHandles \cup {SOCKET_UNUSED}
         /\ sockets[s].pending \in Nat
BY DEF TypeInv, DataTypes, SockCtrl

LEMMA SendTypes ==
  ASSUME NEW name \in {"NSOCR", "NSOCL", "NSOSTF", "NSORF"},
         NEW h \in ModemHandles \cup {SOCKET_UNUSED}, NEW n \in 0..MaxRead + MaxWrite,
         Send(name, h, n)
  PROVE  cmd' \in Command
BY DEF Send, Command, Commands

\* Where t goes leaves the slots as they are.
LEMMA OwnKept ==
  ASSUME TypeInv, NEW t \in Threads, NEW l, Goto(t, l), l \notin {"open", "recvRead"},
         pc[t] # "open", l # "idle" => handle[t] \in Slots, handle' = handle,
         \A u \in Threads : u # t => call'[u] = call[u],
         \A s \in Slots : sockets'[s].modem_handle = sockets[s].modem_handle,
         \A u \in Threads : u # t /\ handle[u] \in Slots =>
            sockets'[handle[u]].pending = sockets[handle[u]].pending
  PROVE  OwnSlot'
<1>1. pc'[t] = l /\ \A u \in Threads : u # t => pc'[u] = pc[u]
  BY DEF TypeInv, ControlInv, Goto, Actors
<1>2. \A s \in Slots : InUse(s)' <=> InUse(s)
  BY DEF InUse
<1>3. QED
  BY <1>1, <1>2 DEF OwnSlot, TypeInv

\* t gives its slot up.
LEMMA OwnDropped ==
  ASSUME TypeInv, NEW t \in Threads, Goto(t, "idle"), handle' = [handle EXCEPT ![t] = NoSocket],
         \A u \in Threads : u # t => call'[u] = call[u],
         \A u \in Threads : u # t /\ handle[u] \in Slots =>
            sockets'[handle[u]] = sockets[handle[u]]
  PROVE  OwnSlot'
<1>1. pc'[t] = "idle" /\ \A u \in Threads : u # t => pc'[u] = pc[u]
  BY DEF TypeInv, ControlInv, Goto, Actors
<1>2. handle'[t] = NoSocket /\ \A u \in Threads : u # t => handle'[u] = handle[u]
  BY DEF TypeInv, DataTypes
<1>3. \A u \in Threads : u # t /\ handle[u] \in Slots => (InUse(handle[u]) <=> InUse(handle[u])')
  BY <1>2 DEF InUse
<1>4. QED
  BY <1>1, <1>2, <1>3, ConstantTypes DEF OwnSlot, TypeInv, InUse

LEMMA SkipTypes ==
  ASSUME TypeInv, NEW a \in Actors, SkipLine(a)
  PROVE  DataTypes' /\ OwnSlot'
<1> USE DEF lockVars, timeoutVars, threadVars, tableVars
<1>1. line' \in Seq(FitLine)
  BY LineTypes DEF SkipLine, Arrived, TypeInv, DataTypes
<1>2. QED
  BY <1>1 DEF SkipLine, TypeInv, DataTypes, OwnSlot, InUse

LEMMA URCTypes ==
  ASSUME TypeInv, NEW a \in Actors, NSONMI_URC(a)
  PROVE  DataTypes' /\ OwnSlot'
<1> USE DEF lockVars, timeoutVars, threadVars
<1>1. line # << >> /\ line' = Tail(line) /\ Head(line).n \in Nat /\ line' \in Seq(FitLine)
  BY LineTypes DEF NSONMI_URC, HandleURC, Arrived, TypeInv, DataTypes
<1>2. UNCHANGED <<handle, pc, call, ret, at_timeout, saved, heap, cmd, modem, faults>>
  BY DEF NSONMI_URC, HandleURC
<1>3. \/ sockets' = sockets
      \/ \E s \in Slots : sockets' = [sockets EXCEPT ![s].pending = @ + Head(line).n]
  BY DEF NSONMI_URC
<1>4. /\ sockets' \in [Slots -> SockCtrl]
      /\ \A s \in Slots : /\ sockets'[s].modem_handle = sockets[s].modem_handle
                          /\ sockets[s].pending <= sockets'[s].pending
  <2>1. CASE sockets' = sockets
    BY <2>1, SlotTypes DEF TypeInv, DataTypes
  <2>2. ASSUME NEW s \in Slots, sockets' = [sockets EXCEPT ![s].pending = @ + Head(line).n]
        PROVE  /\ sockets' \in [Slots -> SockCtrl]
               /\ \A r \in Slots : /\ sockets'[r].modem_handle = sockets[r].modem_handle
                                   /\ sockets[r].pending <= sockets'[r].pending
    <3>1. [sockets[s] EXCEPT !.pending = @ + Head(line).n] \in SockCtrl
      BY <1>1, SlotTypes DEF SockCtrl
    <3>2. QED
      BY <1>1, <2>2, <3>1, SlotTypes DEF TypeInv, DataTypes
  <2>3. QED
    BY <1>3, <2>1, <2>2
<1>5. \A s \in Slots : InUse(s)' <=> InUse(s)
  BY <1>4 DEF InUse
<1>6. \A t \in Threads : pc[t] = "recvRead" =>
        call[t].blk <= sockets'[handle[t]].pending
  <2>1. SUFFICES ASSUME NEW t \in Threads, pc[t] = "recvRead"
                 PROVE  call[t].blk <= sockets'[handle[t]].pending
    OBVIOUS
  <2>2. handle[t] \in Slots /\ call[t].blk <= sockets[handle[t]].pending
    BY <2>1 DEF TypeInv, OwnSlot
  <2>3. /\ call[t].blk \in Nat /\ sockets[handle[t]].pending \in Nat
        /\ sockets'[handle[t]].pending \in Nat
    BY <1>4, <2>2, NumbersGiven DEF TypeInv, DataTypes, CallState, SockCtrl
  <2>4. QED
    BY <1>4, <2>2, <2>3
<1>7. OwnSlot'
  BY <1>2, <1>5, <1>6 DEF OwnSlot, TypeInv
<1>8. QED
  BY <1>1, <1>2, <1>4, <1>7 DEF TypeInv, DataTypes

LEMMA StartTypes ==
  ASSUME TypeInv, NEW t \in Threads, StartCall(t)
  PROVE  DataTypes' /\ OwnSlot'
<1> USE DEF lockVars, timeoutVars, modemVars, tableVars, threadVars
<1>a. /\ t \in Actors /\ 0 \in 0..MaxSize /\ 1..MaxSize \subseteq 0..MaxSize
      /\ 0 \in 0..MaxRead + MaxWrite
  BY NumbersGiven DEF Actors
<1>1. CASE socket_open(t)
  <2>1. PICK s \in Slots : find_socket(s, SOCKET_UNUSED) /\ handle' = [handle EXCEPT ![t] = s]
    BY <1>1 DEF socket_open
  <2>2. ret' \in [Threads -> Results] /\ call' \in [Threads -> CallState] /\ cmd' \in Command
    BY <1>1, <1>a, BeginTypes, SendTypes DEF socket_open
  <2>3. DataTypes'
    BY <1>1, <2>1, <2>2 DEF socket_open, TypeInv, DataTypes
  <2>4. pc'[t] = "open" /\ \A u \in Threads : u # t => pc'[u] = pc[u]
    BY <1>1, <1>a DEF socket_open, Goto, TypeInv, ControlInv, Actors
  <2>5. handle'[t] = s /\ \A u \in Threads : u # t => handle'[u] = handle[u]
    BY <2>1 DEF TypeInv, DataTypes
  <2>6. \A u \in Threads : u # t => handle[u] # s
    <3>1. \A u \in Threads : u # t => pc[u] # "open"
      BY <1>1, <1>a, NumbersGiven DEF socket_open, LOCK, TypeInv, ControlInv, InRecv, Actors
    <3>2. QED
      BY <2>1, <3>1 DEF find_socket, TypeInv, OwnSlot, InUse
  <2>7. \A u \in Threads : u # t => call'[u] = call[u]
    BY <1>1 DEF socket_open, BeginCall, TypeInv, DataTypes
  <2>8. sockets' = sockets
    BY <1>1 DEF socket_open
  <2>9. OwnSlot'
    BY <2>1, <2>4, <2>5, <2>6, <2>7, <2>8 DEF OwnSlot, TypeInv, InUse, find_socket
  <2>10. QED
    BY <2>3, <2>9
<1>2. CASE OpenNoMemory(t)
  <2>1. ret' \in [Threads -> Results] /\ call' \in [Threads -> CallState]
    BY <1>2, ReturnTypes DEF OpenNoMemory, Results
  <2>2. OwnSlot'
    BY <1>2, OwnKept DEF OpenNoMemory, Return, TypeInv, DataTypes
  <2>3. QED
    BY <1>2, <2>1, <2>2 DEF OpenNoMemory, TypeInv, DataTypes
<1>3. CASE socket_close(t)
  <2>1. handle[t] \in Slots
    BY <1>3 DEF socket_close, TypeInv, DataTypes
  <2>2. ret' \in [Threads -> Results] /\ call' \in [Threads -> CallState] /\ cmd' \in Command
    BY <1>3, <1>a, <2>1, SlotTypes, BeginTypes, SendTypes DEF socket_close
  <2>3. OwnSlot'
    BY <1>3, <2>1, OwnKept DEF socket_close, BeginCall, TypeInv, DataTypes
  <2>4. QED
    BY <1>3, <2>2, <2>3 DEF socket_close, TypeInv, DataTypes
<1>4. CASE socket_attach(t)
  <2>1. PICK set \in BOOLEAN : sockets' = [sockets EXCEPT ![handle[t]].callback = set]
    BY <1>4 DEF socket_attach
  <2>2. handle[t] \in Slots
    BY <1>4 DEF socket_attach, TypeInv, DataTypes
  <2>3. [sockets[handle[t]] EXCEPT !.callback = set] \in SockCtrl
    BY <2>2, SlotTypes DEF SockCtrl
  <2>4. /\ sockets' \in [Slots -> SockCtrl]
        /\ \A s \in Slots : /\ sockets'[s].modem_handle = sockets[s].modem_handle
                            /\ sockets'[s].pending = sockets[s].pending
    BY <2>1, <2>2, <2>3, SlotTypes DEF TypeInv, DataTypes, SockCtrl
  <2>5. UNCHANGED <<handle, pc, call>>
    BY <1>4 DEF socket_attach
  <2>6. OwnSlot'
    BY <2>4, <2>5 DEF OwnSlot, TypeInv, InUse
  <2>7. QED
    BY <1>4, <2>4, <2>6 DEF socket_attach, TypeInv, DataTypes
<1>5. CASE socket_sendto(t)
  <2>1. PICK n \in 1..MaxSize :
          /\ handle[t] # NoSocket
          /\ BeginCall(t, "sendto", n, MaxWrite)
          /\ Goto(t, "sendLoop")
          /\ UNCHANGED <<tableVars, lockVars, timeoutVars, heap, modemVars>>
    BY <1>5 DEF socket_sendto
  <2>2. ret' \in [Threads -> Results] /\ call' \in [Threads -> CallState]
    BY <1>a, <2>1, BeginTypes
  <2>3. OwnSlot'
    BY <2>1, OwnKept DEF BeginCall, TypeInv, DataTypes
  <2>4. QED
    BY <2>1, <2>2, <2>3 DEF TypeInv, DataTypes
<1>6. CASE socket_recvfrom(t)
  <2>1. ret' \in [Threads -> Results] /\ call' \in [Threads -> CallState]
    BY <1>6, <1>a, BeginTypes DEF socket_recvfrom
  <2>2. saved' \in [Actors -> Timeouts]
    BY <1>6 DEF socket_recvfrom, TypeInv, DataTypes
  <2>3. OwnSlot'
    BY <1>6, OwnKept DEF socket_recvfrom, BeginCall, TypeInv, DataTypes
  <2>4. QED
    BY <1>6, <2>1, <2>2, <2>3 DEF socket_recvfrom, TypeInv, DataTypes
<1>7. QED
  BY <1>1, <1>2, <1>3, <1>4, <1>5, <1>6 DEF StartCall

LEMMA ContinueTypes ==
  ASSUME TypeInv, NEW t \in Threads, ContinueCall(t)
  PROVE  DataTypes' /\ OwnSlot'
<1> USE DEF lockVars, timeoutVars, modemVars, tableVars, threadVars
<1>a. /\ t \in Actors /\ {"OK", "NO_MEMORY", "DEVICE_ERROR", "WOULD_BLOCK"} \subseteq Results
      /\ saved[t] \in Timeouts /\ heap + 1 \in Nat
  BY DEF Actors, Results, TypeInv, DataTypes
<1>1. ASSUME NEW r \in Results, Return(t, r)
      PROVE  /\ ret' \in [Threads -> Results] /\ call' \in [Threads -> CallState]
             /\ Goto(t, "idle") /\ \A u \in Threads : u # t => call'[u] = call[u]
  BY <1>1, ReturnTypes DEF Return, TypeInv, DataTypes
<1>2. ASSUME NEW n \in Nat, sockets' = [sockets EXCEPT ![handle[t]].pending = @ - n],
             handle[t] \in Slots, n <= sockets[handle[t]].pending
      PROVE  /\ sockets' \in [Slots -> SockCtrl]
             /\ \A s \in Slots : sockets'[s].modem_handle = sockets[s].modem_handle
             /\ \A s \in Slots : s # handle[t] => sockets'[s].pending = sockets[s].pending
  <2>1. [sockets[handle[t]] EXCEPT !.pending = @ - n] \in SockCtrl
    BY <1>2, SlotTypes DEF SockCtrl
  <2>2. QED
    BY <1>2, <2>1 DEF TypeInv, DataTypes, SockCtrl
<1>3. CASE OpenCreated(t)
  <2>1. /\ pc[t] = "open" /\ line # << >> /\ Head(line).type = "OK"
        /\ line' \in Seq(FitLine) /\ faults' \in 0..MaxFaults
        /\ handle[t] \in Slots
    BY <1>3, HeardTypes DEF OpenCreated, GotAnswer, Receiving, Arrived, TypeInv, OwnSlot
  <2>2. Head(line).handle \in ModemHandles
    BY <2>1, LineTypes DEF TypeInv, DataTypes
  <2> DEFINE new == [UnusedSocket EXCEPT !.modem_handle = Head(line).handle]
  <2>3. sockets' = [sockets EXCEPT ![handle[t]] = new]
    BY <1>3 DEF OpenCreated
  <2>4. new \in SockCtrl /\ new.modem_handle # SOCKET_UNUSED
    BY <2>2, NumbersGiven DEF UnusedSocket, SockCtrl
  <2> HIDE DEF new
  <2>5. /\ ret' \in [Threads -> Results] /\ call' \in [Threads -> CallState]
        /\ Goto(t, "idle") /\ \A u \in Threads : u # t => call'[u] = call[u]
    BY <1>3, <1>1, <1>a DEF OpenCreated, EndExchange
  <2>6. sockets' \in [Slots -> SockCtrl] /\ handle' = handle
    BY <1>3, <2>3, <2>4 DEF OpenCreated, TypeInv, DataTypes
  <2>7. pc'[t] = "idle" /\ \A u \in Threads : u # t => pc'[u] = pc[u]
    BY <2>5 DEF Goto, TypeInv, ControlInv, Actors
  <2>8. /\ InUse(handle[t])'
        /\ \A u \in Threads : u # t /\ handle[u] \in Slots =>
             sockets'[handle[u]] = sockets[handle[u]] /\ (InUse(handle[u])' <=> InUse(handle[u]))
    BY <2>1, <2>3, <2>4, <2>6, ConstantTypes DEF InUse, TypeInv, DataTypes, OwnSlot
  <2>9. OwnSlot'
    BY <2>5, <2>6, <2>7, <2>8 DEF OwnSlot, TypeInv, InUse
  <2>10. QED
    BY <1>3, <2>1, <2>5, <2>6, <2>9 DEF OpenCreated, EndExchange, TypeInv, DataTypes
<1>4. CASE OpenFails(t) \/ CloseFails(t) \/ CloseDone(t)
  <2>1. /\ line' \in Seq(FitLine) /\ faults' \in 0..MaxFaults
        /\ handle' = [handle EXCEPT ![t] = NoSocket]
        /\ pc[t] # "idle"
    BY <1>4, HeardTypes
    DEF OpenFails, CloseFails, CloseDone, GotNone, TimedOut, GotAnswer, Receiving
  <2>2. PICK r \in Results : EndExchange(t, r)
    BY <1>4, <1>a DEF OpenFails, CloseFails, CloseDone
  <2>3. /\ ret' \in [Threads -> Results] /\ call' \in [Threads -> CallState]
        /\ Goto(t, "idle") /\ \A u \in Threads : u # t => call'[u] = call[u]
    BY <1>1, <2>2 DEF EndExchange
  <2>4. handle[t] \in Slots
    BY <2>1 DEF TypeInv, OwnSlot
  <2>5. sockets' = sockets \/ sockets' = [sockets EXCEPT ![handle[t]] = UnusedSocket]
    BY <1>4 DEF OpenFails, CloseFails, CloseDone, clear_socket
  <2>6. /\ sockets' \in [Slots -> SockCtrl]
        /\ \A s \in Slots : s # handle[t] => sockets'[s] = sockets[s]
    BY <2>4, <2>5, ConstantTypes DEF TypeInv, DataTypes
  <2>7. OwnSlot'
    BY <2>1, <2>3, <2>4, <2>6, OwnDropped, ConstantTypes DEF TypeInv, OwnSlot
  <2>8. QED
    BY <1>4, <2>1, <2>2, <2>3, <2>6, <2>7 DEF OpenFails, CloseFails, CloseDone, EndExchange, TypeInv, DataTypes
<1>5. CASE SendNoBuffer(t)
  <2>1. OwnSlot' /\ ret' \in [Threads -> Results] /\ call' \in [Threads -> CallState]
    BY <1>5, <1>1, <1>a, OwnKept DEF SendNoBuffer
  <2>2. QED
    BY <1>5, <2>1 DEF SendNoBuffer, TypeInv, DataTypes
<1>6. CASE SendGot(t)
  <2>1. /\ pc[t] = "sendWait" /\ line # << >> /\ line' \in Seq(FitLine) /\ faults' \in 0..MaxFaults
        /\ handle[t] \in Slots
    BY <1>6, HeardTypes DEF SendGot, GotAnswer, Receiving, Arrived, TypeInv, OwnSlot
  <2>2. CASE Return(t, "OK")
    <3>1. OwnSlot' /\ ret' \in [Threads -> Results] /\ call' \in [Threads -> CallState]
      BY <1>6, <1>1, <1>a, <2>1, <2>2, OwnKept DEF SendGot
    <3>2. QED
      BY <1>6, <1>a, <2>1, <3>1 DEF SendGot, TypeInv, DataTypes
  <2>3. CASE /\ call' = [call EXCEPT ![t].size = (call[t].size - Head(line).n) % SizeMod]
             /\ Goto(t, "sendLoop")
             /\ UNCHANGED ret
    <3>1. Head(line).n \in Nat /\ call[t] \in CallState /\ call[t].size \in Nat
      BY <2>1, LineTypes, NumbersGiven DEF TypeInv, DataTypes, CallState
    <3>2. (call[t].size - Head(line).n) % SizeMod \in 0..SizeMod - 1
      BY <3>1, NumbersGiven
    <3>3. call' \in [Threads -> CallState]
      BY <2>3, <3>1, <3>2 DEF TypeInv, DataTypes, CallState
    <3>4. OwnSlot'
      BY <1>6, <2>1, <2>3, OwnKept DEF SendGot, TypeInv, DataTypes
    <3>5. QED
      BY <1>6, <1>a, <2>1, <2>3, <3>3, <3>4 DEF SendGot, TypeInv, DataTypes
  <2>4. QED
    BY <1>6, <2>2, <2>3 DEF SendGot
<1>7. CASE SendFails(t)
  <2>1. pc[t] = "sendWait" /\ line' \in Seq(FitLine) /\ faults' \in 0..MaxFaults
    BY <1>7, HeardTypes DEF SendFails, GotNone, TimedOut, GotAnswer, Receiving
  <2>2. OwnSlot' /\ ret' \in [Threads -> Results] /\ call' \in [Threads -> CallState]
    BY <1>7, <1>1, <1>a, <2>1, OwnKept DEF SendFails, EndExchange
  <2>3. QED
    BY <1>7, <1>a, <2>1, <2>2 DEF SendFails, EndExchange, TypeInv, DataTypes
<1>8. CASE RecvGot(t) \/ RecvSizeUnread(t) \/ RecvFails(t)
  <2>1. /\ pc[t] = "recvRead" /\ line' \in Seq(FitLine) /\ faults' \in 0..MaxFaults
        /\ handle[t] \in Slots /\ call[t].blk <= sockets[handle[t]].pending
    BY <1>8, HeardTypes
    DEF RecvGot, RecvSizeUnread, RecvFails, GotNone, TimedOut, GotAnswer, Receiving, TypeInv, OwnSlot
  <2>2. call[t].blk \in Nat
    BY NumbersGiven DEF TypeInv, DataTypes, CallState
  <2>3. /\ sockets' \in [Slots -> SockCtrl]
        /\ \A s \in Slots : sockets'[s].modem_handle = sockets[s].modem_handle
        /\ \A s \in Slots : s # handle[t] => sockets'[s].pending = sockets[s].pending
    <3>1. \/ sockets' = sockets
          \/ sockets' = [sockets EXCEPT ![handle[t]].pending = @ - call[t].blk]
      BY <1>8 DEF RecvGot, RecvSizeUnread, RecvFails
    <3>2. CASE sockets' = sockets
      BY <3>2 DEF TypeInv, DataTypes
    <3>3. QED
      BY <1>2, <2>1, <2>2, <3>1, <3>2
  <2>4. PICK r \in Results : Return(t, r)
    BY <1>8, <1>a DEF RecvGot, RecvSizeUnread, RecvFails
  <2>5. EndTurn(t, 2)
    BY <1>8 DEF RecvGot, RecvSizeUnread, RecvFails
  <2>6. OwnSlot' /\ ret' \in [Threads -> Results] /\ call' \in [Threads -> CallState]
    <3>1. \A u \in Threads : u # t /\ handle[u] \in Slots => handle[u] # handle[t]
      BY ConstantTypes DEF TypeInv, OwnSlot
    <3>2. QED
      BY <1>1, <2>1, <2>3, <2>4, <2>5, <3>1, OwnKept DEF EndTurn
  <2>7. heap' \in Nat
    BY <1>8, <1>a DEF RecvGot, RecvSizeUnread, RecvFails
  <2>8. QED
    BY <1>a, <2>1, <2>3, <2>5, <2>6, <2>7 DEF EndTurn, TypeInv, DataTypes
<1>9. CASE RecvWaited(t)
  <2>1. pc[t] = "recvWait" /\ handle[t] \in Slots
    BY <1>9 DEF RecvWaited, Receiving, TypeInv, OwnSlot
  <2>2. OwnSlot'
    BY <1>9, <2>1, OwnKept DEF RecvWaited, EndTurn
  <2>3. line' \in Seq(FitLine)
    BY <1>9, LineTypes DEF RecvWaited, NothingMore, Arrived, TypeInv, DataTypes
  <2>4. QED
    BY <1>9, <1>a, <2>2, <2>3 DEF RecvWaited, EndTurn, TypeInv, DataTypes
<1>10. CASE SendBuffer(t)
  <2>1. /\ call' = [call EXCEPT ![t].blk = AtMost(call[t].blk, call[t].size)]
        /\ pc[t] = "sendLoop" /\ Goto(t, "sendLock") /\ UNCHANGED <<handle, sockets>>
    BY <1>10 DEF SendBuffer, TypeInv, DataTypes
  <2>2. call[t] \in CallState /\ handle[t] \in Slots
    BY <2>1 DEF TypeInv, DataTypes, OwnSlot
  <2>3. AtMost(call[t].blk, call[t].size) \in 0..MaxRead + MaxWrite
    BY <2>2, NumbersGiven DEF AtMost, CallState
  <2>4. call' \in [Threads -> CallState] /\ \A u \in Threads : u # t => call'[u] = call[u]
    BY <2>1, <2>2, <2>3 DEF TypeInv, DataTypes, CallState
  <2>5. OwnSlot'
    BY <2>1, <2>2, <2>4, OwnKept
  <2>6. heap' \in Nat
    BY <1>10 DEF SendBuffer, TypeInv, DataTypes
  <2>7. QED
    BY <1>10, <2>4, <2>5, <2>6 DEF SendBuffer, TypeInv, DataTypes
<1>11. QED
  BY <1>3, <1>4, <1>5, <1>6, <1>7, <1>8, <1>9, <1>10 DEF ContinueCall

LEMMA TurnTypes ==
  ASSUME TypeInv, NEW t \in Threads, TakeTurn(t) \/ TimerExpires(t)
  PROVE  DataTypes' /\ OwnSlot'
<1> USE DEF lockVars, timeoutVars, modemVars, tableVars, threadVars
<1>a. /\ t \in Actors /\ {"OK", "NO_MEMORY", "DEVICE_ERROR", "WOULD_BLOCK"} \subseteq Results
      /\ saved[t] \in Timeouts /\ SocketWait \in Timeouts /\ call[t] \in CallState
      /\ heap \in Nat
  BY NumbersGiven DEF Actors, Results, TypeInv, DataTypes, Timeouts
<1>b. pc[t] # "idle" => handle[t] \in Slots
  BY DEF TypeInv, OwnSlot
<1>1. CASE SendBlock(t)
  <2>1. call[t].blk \in 0..MaxRead + MaxWrite
    BY <1>a DEF CallState
  <2>2. handle[t] \in Slots /\ pc[t] = "sendLock"
    BY <1>1, <1>b DEF SendBlock
  <2>3. cmd' \in Command
    BY <1>1, <2>1, <2>2, SlotTypes, SendTypes DEF SendBlock
  <2>4. OwnSlot'
    BY <1>1, <2>2, OwnKept DEF SendBlock
  <2>5. QED
    BY <1>1, <2>3, <2>4 DEF SendBlock, TypeInv, DataTypes
<1>2. CASE RecvRead(t)
  <2> DEFINE p == sockets[handle[t]].pending
             n == AtMost(p, MaxRead)
  <2>1. handle[t] \in Slots /\ pc[t] = "recvLoop"
    BY <1>2, <1>b DEF RecvRead, BeginTurn
  <2>2. p \in Nat /\ n \in 0..MaxRead /\ n <= p /\ n \in 0..MaxRead + MaxWrite
    <3>1. p \in Nat
      BY <2>1, SlotTypes
    <3>2. QED
      BY <3>1, NumbersGiven DEF AtMost
  <2>3. call' = [call EXCEPT ![t].blk = n] /\ Send("NSORF", sockets[handle[t]].modem_handle, n)
    BY <1>2 DEF RecvRead
  <2>4. cmd' \in Command
    BY <2>1, <2>2, <2>3, SlotTypes, SendTypes
  <2>5. call' \in [Threads -> CallState] /\ call'[t].blk = n
        /\ \A u \in Threads : u # t => call'[u] = call[u]
    BY <1>a, <2>2, <2>3 DEF TypeInv, DataTypes, CallState
  <2>6. pc'[t] = "recvRead" /\ \A u \in Threads : u # t => pc'[u] = pc[u]
    BY <1>2, <1>a DEF RecvRead, Goto, TypeInv, ControlInv, Actors
  <2>7. UNCHANGED <<sockets, handle>>
    BY <1>2 DEF RecvRead, BeginTurn
  <2>8. OwnSlot'
    BY <2>1, <2>2, <2>5, <2>6, <2>7 DEF OwnSlot, TypeInv, InUse
  <2>9. heap' \in Nat
    BY <1>2, <1>a DEF RecvRead
  <2>10. QED
    BY <1>2, <1>a, <2>4, <2>5, <2>8, <2>9 DEF RecvRead, BeginTurn, TypeInv, DataTypes
<1>3. CASE RecvNoBuffer(t)
  <2>1. ret' \in [Threads -> Results] /\ call' \in [Threads -> CallState]
    BY <1>3, <1>a, ReturnTypes DEF RecvNoBuffer
  <2>2. OwnSlot'
    BY <1>3, OwnKept DEF RecvNoBuffer, BeginTurn, Return, TypeInv, DataTypes
  <2>3. QED
    BY <1>3, <1>a, <2>1, <2>2 DEF RecvNoBuffer, BeginTurn, TypeInv, DataTypes
<1>4. CASE RecvWait(t)
  <2>1. handle[t] \in Slots /\ pc[t] = "recvLoop"
    BY <1>4, <1>b DEF RecvWait, BeginTurn
  <2>2. OwnSlot'
    BY <1>4, <2>1, OwnKept DEF RecvWait, BeginTurn
  <2>3. QED
    BY <1>4, <1>a, <2>2 DEF RecvWait, BeginTurn, TypeInv, DataTypes
<1>5. CASE RecvReturns(t)
  <2>1. ret' \in [Threads -> Results] /\ call' \in [Threads -> CallState]
    BY <1>5, <1>a, ReturnTypes DEF RecvReturns
  <2>2. OwnSlot'
    BY <1>5, OwnKept DEF RecvReturns, Return, TypeInv, DataTypes
  <2>3. heap' \in Nat
    BY <1>5, <1>a DEF RecvReturns
  <2>4. QED
    BY <1>5, <1>a, <2>1, <2>2, <2>3 DEF RecvReturns, TypeInv, DataTypes
<1>6. CASE TimerExpires(t)
  <2>1. call' = [call EXCEPT ![t].expired = TRUE] /\ UNCHANGED <<sockets, handle, pc>>
    BY <1>6 DEF TimerExpires
  <2>2. /\ call' \in [Threads -> CallState]
        /\ \A u \in Threads : call'[u].blk = call[u].blk
    BY <1>a, <2>1 DEF TypeInv, DataTypes, CallState
  <2>3. OwnSlot'
    BY <2>1, <2>2 DEF OwnSlot, TypeInv, InUse
  <2>4. QED
    BY <1>6, <2>2, <2>3 DEF TimerExpires, TypeInv, DataTypes
<1>7. QED
  BY <1>1, <1>2, <1>3, <1>4, <1>5, <1>6 DEF TakeTurn

\* What is left of the datagrams is datagrams.
LEMMA HeadTypes ==
  ASSUME NEW S, NEW q \in Seq(S), q # << >>
  PROVE  Head(q) \in S /\ Tail(q) \in Seq(S)
OBVIOUS

LEMMA UnreadTypes ==
  ASSUME NEW ds \in Seq(1..MaxLength), ds # << >>, NEW n \in Nat, n <= Head(ds)
  PROVE  Unread(ds, n) \in Seq(1..MaxLength)
<1>1. Tail(ds) \in Seq(1..MaxLength) /\ Head(ds) \in 1..MaxLength
  BY HeadTypes
<1>2. CASE n < Head(ds)
  <2>1. Head(ds) - n \in 1..MaxLength
    BY <1>1, <1>2, NumbersGiven
  <2>2. <<Head(ds) - n>> \in Seq(1..MaxLength)
    BY <2>1
  <2>3. QED
    BY <1>1, <1>2, <2>2 DEF Unread
<1>3. CASE ~(n < Head(ds))
  BY <1>1, <1>3 DEF Unread
<1>4. QED
  BY <1>2, <1>3

\* What the modem says is a line that names one of its sockets.
LEMMA AnswerTypes ==
  ASSUME NEW a \in AnswerLines, NEW type \in {"OK", "EMPTY", "HEAD", "LATE"}
  PROVE  [a EXCEPT !.type = type] \in FitLine
BY DEF AnswerLines, FitLine, LineItem, Answers

LEMMA AppendTypes ==
  ASSUME line \in Seq(FitLine), NEW x \in FitLine
  PROVE  Append(line, x) \in Seq(FitLine)
OBVIOUS

LEMMA ModemTypes ==
  ASSUME TypeInv, ModemExecutes \/ ModemRefuses \/ (\E h \in ModemHandles : DatagramArrives(h))
  PROVE  DataTypes' /\ OwnSlot'
<1> USE DEF lockVars, timeoutVars, modemVars, tableVars, threadVars
<1>1. UNCHANGED <<sockets, handle, at_timeout, saved, pc, call, ret, heap>>
  BY DEF ModemExecutes, ModemRefuses, DatagramArrives
<1>2. OwnSlot'
  BY <1>1 DEF OwnSlot, TypeInv, InUse
<1>3. faults \in 0..MaxFaults /\ (faults' = faults \/ (faults > 0 /\ faults' = faults - 1))
  <2>1. faults' = faults \/ (faults > 0 /\ faults' = faults - 1)
    BY DEF ModemExecutes, ModemRefuses, DatagramArrives
  <2>2. QED
    BY <2>1 DEF TypeInv, DataTypes
<1>4. faults' \in 0..MaxFaults
  BY <1>3, NumbersGiven
<1>5. cmd' \in Command
  BY ConstantTypes DEF TypeInv, DataTypes, ModemExecutes, ModemRefuses, DatagramArrives
<1>6. line \in Seq(FitLine) /\ cmd \in Command /\ modem \in [ModemHandles -> ModemSocket]
  BY DEF TypeInv, DataTypes
<1>7. CASE ModemExecutes
  <2>1. PICK a \in AnswerLines :
          /\ CarryOut(a)
          /\ \/ line' = Append(line, a)
             \/ UNCHANGED line
             \/ line' = Append(line, [a EXCEPT !.type = "HEAD"])
             \/ line' = Append(line, [a EXCEPT !.type = "LATE"])
    BY <1>7 DEF ModemExecutes
  <2>2. line' \in Seq(FitLine)
    <3>1. a \in FitLine
      BY DEF AnswerLines, FitLine, LineItem, Answers
    <3>2. [a EXCEPT !.type = "HEAD"] \in FitLine /\ [a EXCEPT !.type = "LATE"] \in FitLine
      BY AnswerTypes
    <3>3. QED
      BY <1>6, <2>1, <3>1, <3>2, AppendTypes
  <2>3. modem' \in [ModemHandles -> ModemSocket]
    <3>1. CASE modem' = modem
      BY <1>6, <3>1
    <3>2. CASE \E h \in ModemHandles : modem' = [modem EXCEPT ![h].open = TRUE]
      BY <1>6, <3>2 DEF ModemSocket
    <3>3. CASE cmd.handle \in ModemHandles /\ modem' = [modem EXCEPT ![cmd.handle] = ClosedSocket]
      BY <1>6, <3>3, ConstantTypes
    <3>4. CASE /\ cmd.handle \in ModemHandles
               /\ modem[cmd.handle].waiting # << >>
               /\ a.n = AtMost(cmd.n, Head(modem[cmd.handle].waiting))
               /\ modem' = [modem EXCEPT ![cmd.handle].waiting =
                              Unread(modem[cmd.handle].waiting, a.n)]
      <4> DEFINE ds == modem[cmd.handle].waiting
      <4>1. ds \in Seq(1..MaxLength) /\ ds # << >> /\ modem[cmd.handle] \in ModemSocket
        BY <1>6, <3>4 DEF ModemSocket
      <4>2. Head(ds) \in Nat /\ cmd.n \in Nat
        BY <1>6, <4>1, NumbersGiven DEF Command
      <4>3. a.n \in Nat /\ a.n <= Head(ds)
        BY <3>4, <4>2 DEF AtMost
      <4>4. Unread(ds, a.n) \in Seq(1..MaxLength)
        BY <4>1, <4>3, UnreadTypes
      <4>5. QED
        BY <1>6, <3>4, <4>1, <4>4 DEF ModemSocket
    <3>5. QED
      BY <2>1, <3>1, <3>2, <3>3, <3>4 DEF CarryOut, IsOpen, Answer, Line
  <2>4. QED
    BY <1>1, <1>2, <1>4, <1>5, <2>2, <2>3 DEF TypeInv, DataTypes
<1>8. CASE ModemRefuses
  <2>1. Answer("ERROR", cmd.handle, 0) \in FitLine
    BY <1>6, NumbersGiven DEF Answer, Line, FitLine, LineItem, Answers, Command, Lengths
  <2>2. line' \in Seq(FitLine)
    BY <1>6, <1>8, <2>1, AppendTypes DEF ModemRefuses
  <2>3. modem' = modem
    BY <1>8 DEF ModemRefuses
  <2>4. QED
    BY <1>1, <1>2, <1>4, <1>5, <1>6, <2>2, <2>3 DEF TypeInv, DataTypes
<1>9. ASSUME NEW h \in ModemHandles, DatagramArrives(h)
      PROVE  DataTypes'
  <2>1. PICK n \in 1..MaxLength :
          /\ modem' = [modem EXCEPT ![h].waiting = Append(@, n)]
          /\ line' = Append(line, Line("NSONMI", "none", h, n))
    BY <1>9 DEF DatagramArrives, NoCommand
  <2>2. Line("NSONMI", "none", h, n) \in FitLine
    BY NumbersGiven DEF Line, FitLine, LineItem, Lengths
  <2>3. line' \in Seq(FitLine)
    BY <1>6, <2>1, <2>2, AppendTypes
  <2>4. modem' \in [ModemHandles -> ModemSocket]
    <3>1. modem[h] \in ModemSocket /\ modem[h].waiting \in Seq(1..MaxLength)
      BY <1>6 DEF ModemSocket
    <3>2. Append(modem[h].waiting, n) \in Seq(1..MaxLength)
      BY <3>1
    <3>3. QED
      BY <1>6, <2>1, <3>1, <3>2 DEF ModemSocket
  <2>5. QED
    BY <1>1, <1>4, <1>5, <2>3, <2>4 DEF TypeInv, DataTypes
<1>10. QED
  BY <1>2, <1>7, <1>8, <1>9

LEMMA EventTypes ==
  ASSUME TypeInv, EventBegin \/ EventEnd
  PROVE  DataTypes' /\ OwnSlot'
<1> USE DEF lockVars, timeoutVars, modemVars, tableVars, threadVars
<1>1. \A t \in Threads : pc'[t] = pc[t]
  BY NumbersGiven DEF EventBegin, EventEnd, Goto, TypeInv, ControlInv, Actors
<1>2. UNCHANGED <<sockets, handle, call>>
  BY DEF EventBegin, EventEnd
<1>3. OwnSlot'
  BY <1>1, <1>2 DEF OwnSlot, TypeInv, InUse
<1>4. at_timeout' \in Timeouts /\ saved' \in [Actors -> Timeouts]
  BY DEF EventBegin, EventEnd, TypeInv, DataTypes, Timeouts, Actors
<1>5. line' \in Seq(FitLine)
  BY LineTypes DEF EventBegin, EventEnd, NothingMore, Arrived, TypeInv, DataTypes
<1>6. QED
  BY <1>3, <1>4, <1>5 DEF EventBegin, EventEnd, TypeInv, DataTypes

LEMMA TypeInvStep == TypeInv /\ [Next]_vars => TypeInv'
<1> SUFFICES ASSUME TypeInv, [Next]_vars
             PROVE  TypeInv'
  OBVIOUS
<1>1. ControlInv'
  BY ControlStep DEF TypeInv
<1>2. CASE UNCHANGED vars
  BY <1>2
  DEF vars, lockVars, timeoutVars, modemVars, tableVars, threadVars, TypeInv, ControlInv, DataTypes,
      OwnSlot, InUse
<1>3. CASE Next
  BY <1>1, <1>3, URCTypes, SkipTypes, EventTypes, StartTypes, ContinueTypes, TurnTypes, ModemTypes
  DEF Next, TypeInv
<1>4. QED
  BY <1>2, <1>3

LEMMA TypeInvAlways == Spec => []TypeInv
  BY TypeInvInit, TypeInvStep, PTL DEF Spec

(***************************************************************************)
(* Faults.  A recv() that gives up on a command the modem still has uses a *)
(* fault up, so before the first fault none has.                           *)
(***************************************************************************)

HastyInv == hasty \in BOOLEAN /\ (hasty => faults # MaxFaults)

\* A fault is used up; hasty is set only with a timeout the modem may exceed.
FaultHappens ==
  /\ faults > 0 /\ faults' = faults - 1
  /\ \/ hasty' = hasty
     \/ hasty' = TRUE /\ at_timeout < AnswerTime /\ mtx \in Threads

LEMMA FaultsChange ==
  ASSUME [Next]_vars
  PROVE  UNCHANGED <<faults, hasty>> \/ FaultHappens
<1> USE DEF threadVars, tableVars, lockVars, modemVars, timeoutVars
<1>1. CASE \E a \in Actors : NSONMI_URC(a) \/ SkipLine(a)
  BY <1>1 DEF NSONMI_URC, HandleURC, SkipLine
<1>2. CASE EventBegin \/ EventEnd
  BY <1>2 DEF EventBegin, EventEnd
<1>3. ASSUME NEW t \in Threads, StartCall(t)
      PROVE  UNCHANGED <<faults, hasty>>
  BY <1>3
  DEF StartCall, socket_open, OpenNoMemory, socket_close, socket_attach, socket_sendto,
      socket_recvfrom
<1>4. ASSUME NEW t \in Threads, ContinueCall(t)
      PROVE  \/ UNCHANGED <<faults, hasty>>
             \/ FaultHappens
  BY <1>4
  DEF ContinueCall, GotAnswer, GotNone, TimedOut, SendBuffer, OpenCreated, OpenFails, CloseDone,
      CloseFails, SendNoBuffer, SendGot, SendFails, RecvGot, RecvSizeUnread, RecvFails, RecvWaited,
      EndExchange, EndTurn, Receiving, FaultHappens
<1>5. ASSUME NEW t \in Threads, TakeTurn(t) \/ TimerExpires(t)
      PROVE  UNCHANGED <<faults, hasty>>
  BY <1>5
  DEF TakeTurn, SendBlock, RecvRead, RecvNoBuffer, RecvWait, RecvReturns, BeginTurn, TimerExpires
<1>6. CASE ModemExecutes \/ ModemRefuses
  BY <1>6 DEF ModemExecutes, ModemRefuses, FaultHappens
<1>7. CASE \E h \in ModemHandles : DatagramArrives(h)
  BY <1>7 DEF DatagramArrives
<1>8. CASE UNCHANGED vars
  BY <1>8 DEF vars
<1>9. QED
  BY <1>1, <1>2, <1>3, <1>4, <1>5, <1>6, <1>7, <1>8 DEF Next

LEMMA FaultsLeft ==
  ASSUME TypeInv, HastyInv, [Next]_vars, faults' = MaxFaults
  PROVE  UNCHANGED <<faults, hasty>> /\ ~hasty
<1>1. faults \in 0..MaxFaults /\ MaxFaults \in Nat
  BY NumbersGiven DEF TypeInv, DataTypes
<1>2. ~FaultHappens
  BY <1>1 DEF FaultHappens
<1>3. UNCHANGED <<faults, hasty>>
  BY <1>2, FaultsChange
<1>4. QED
  BY <1>3 DEF HastyInv

LEMMA HastyInvAlways == Spec => []HastyInv
<1>1. Init => HastyInv
  BY DEF Init, HastyInv
<1>2. TypeInv /\ HastyInv /\ [Next]_vars => HastyInv'
  <2>1. SUFFICES ASSUME TypeInv, HastyInv, [Next]_vars
                 PROVE  HastyInv'
    OBVIOUS
  <2>2. faults \in 0..MaxFaults /\ MaxFaults \in Nat
    BY <2>1, NumbersGiven DEF TypeInv, DataTypes
  <2>3. UNCHANGED <<faults, hasty>> \/ FaultHappens
    BY <2>1, FaultsChange
  <2>4. CASE FaultHappens
    <3>1. faults' # MaxFaults
      BY <2>2, <2>4 DEF FaultHappens
    <3>2. hasty' \in BOOLEAN
      BY <2>1, <2>4 DEF FaultHappens, HastyInv
    <3>3. QED
      BY <3>1, <3>2 DEF HastyInv
  <2>5. QED
    BY <2>1, <2>3, <2>4 DEF HastyInv
<1>3. QED
  BY <1>1, <1>2, TypeInvAlways, PTL DEF Spec

\* What was given up on is not forgotten.
LEMMA NotHastyBefore ==
  ASSUME HastyInv, [Next]_vars, ~hasty'
  PROVE  ~hasty
BY FaultsChange DEF HastyInv, FaultHappens

\* A recv() that gives up has nothing to wait for, unless it is hasty.
LEMMA NeverEarly ==
  ASSUME ~hasty', NEW t \in Threads, NEW l, TimedOut(t, l)
  PROVE  cmd = NoCommand
BY DEF TimedOut

\* TypeOK: the variables keep their types and the recursive mutex its depth,
\* for any number of threads, slots and locks that calls leave behind.
THEOREM TypeCorrect == Spec => []TypeOK
<1>1. TypeInv /\ HastyInv => TypeOK
  BY TypeInvMeans DEF HastyInv
<1>2. QED
  BY <1>1, TypeInvAlways, HastyInvAlways, PTL

(***************************************************************************)
(* The AT channel.  A step asks, answers, hears, or leaves the exchange    *)
(* alone; a thread that waits for an answer is the only one that does,     *)
(* because it holds the mutex.                                             *)
(***************************************************************************)

Awaiting == {"open", "close", "sendWait", "recvRead"}
None == NoCommand.name

ChannelInv == TypeInv /\ HastyInv /\ Alternation

\* The N2xx driver's invariant: ChannelInv as long as nothing was given up early.
DriverInv == TypeInv /\ HastyInv /\ AnswersReachTheirCaller

AtMostOneAnswer == \A i, j \in AnswersInTransit : i = j

LEMMA AwaitedNames ==
  /\ DOMAIN AwaitedCommand = Awaiting
  /\ \A l \in Awaiting : AwaitedCommand[l] \in Commands
  /\ None \notin Commands
  /\ Awaiting \subseteq InRecv
BY DEF AwaitedCommand, Awaiting, Commands, None, NoCommand, InRecv

LEMMA AfterTail ==
  ASSUME line \in Seq(FitLine), line # << >>, line' = Tail(line)
  PROVE  /\ Head(line).type \notin Answers => (AnswersInTransit' = {} <=> AnswersInTransit = {})
         /\ AtMostOneAnswer => AtMostOneAnswer'
         /\ Head(line).type \in Answers => AnswersInTransit # {}
         /\ AtMostOneAnswer /\ Head(line).type \in Answers => AnswersInTransit' = {}
         /\ \A i \in AnswersInTransit' : i + 1 \in AnswersInTransit /\ line'[i] = line[i + 1]
         /\ Head(line).type \in Answers => 1 \in AnswersInTransit /\ line[1] = Head(line)
<1>1. /\ Len(line') = Len(line) - 1 /\ Len(line) \in Nat \ {0}
      /\ \A i \in 1..Len(line') : line'[i] = line[i + 1]
      /\ Head(line) = line[1]
      /\ DOMAIN line = 1..Len(line) /\ DOMAIN line' = 1..Len(line')
  OBVIOUS
<1>2. \A i \in AnswersInTransit' :
        i + 1 \in AnswersInTransit /\ i \in Nat \ {0} /\ line'[i] = line[i + 1]
  BY <1>1 DEF AnswersInTransit
<1>3. Head(line).type \in Answers => 1 \in AnswersInTransit
  BY <1>1 DEF AnswersInTransit
<1>4. ASSUME Head(line).type \notin Answers, NEW i \in AnswersInTransit
      PROVE  i - 1 \in AnswersInTransit'
  <2>1. i \in 1..Len(line) /\ i # 1 /\ line[i].type \in Answers
    BY <1>1, <1>4 DEF AnswersInTransit
  <2>2. i - 1 \in 1..Len(line') /\ line'[i - 1] = line[i]
    BY <1>1, <2>1
  <2>3. QED
    BY <1>1, <2>1, <2>2 DEF AnswersInTransit
<1>5. Head(line).type \notin Answers => (AnswersInTransit' = {} <=> AnswersInTransit = {})
  BY <1>2, <1>4
<1>6. AtMostOneAnswer => AtMostOneAnswer'
  <2>1. SUFFICES ASSUME AtMostOneAnswer, NEW i \in AnswersInTransit', NEW j \in AnswersInTransit'
                 PROVE  i = j
    BY DEF AtMostOneAnswer
  <2>2. i + 1 = j + 1 /\ i \in Nat /\ j \in Nat
    BY <1>2, <2>1 DEF AtMostOneAnswer
  <2>3. QED
    BY <2>2
<1>7. AtMostOneAnswer /\ Head(line).type \in Answers => AnswersInTransit' = {}
  <2>1. SUFFICES ASSUME AtMostOneAnswer, Head(line).type \in Answers,
                        NEW i \in AnswersInTransit'
                 PROVE  FALSE
    OBVIOUS
  <2>2. i + 1 = 1 /\ i \in Nat \ {0}
    BY <1>2, <1>3, <2>1 DEF AtMostOneAnswer
  <2>3. QED
    BY <2>2
<1>8. QED
  BY <1>1, <1>2, <1>3, <1>5, <1>6, <1>7

LEMMA AfterAppend ==
  ASSUME line \in Seq(FitLine), NEW x \in FitLine, line' = Append(line, x)
  PROVE  /\ AnswersInTransit = {} =>
              AtMostOneAnswer' /\ \A i \in AnswersInTransit' : line'[i] = x
         /\ \A i \in AnswersInTransit : line'[i] = line[i]
         /\ x.type \notin Answers => AnswersInTransit' = AnswersInTransit
<1>1. /\ Len(line') = Len(line) + 1 /\ Len(line) \in Nat
      /\ \A i \in 1..Len(line) : line'[i] = line[i]
      /\ line'[Len(line) + 1] = x
      /\ DOMAIN line = 1..Len(line) /\ DOMAIN line' = 1..Len(line')
  OBVIOUS
<1>2. \A i \in AnswersInTransit' : i \in AnswersInTransit \/ i = Len(line) + 1
  BY <1>1 DEF AnswersInTransit
<1>3. AnswersInTransit \subseteq AnswersInTransit'
  BY <1>1 DEF AnswersInTransit
<1>4. x.type \notin Answers => Len(line) + 1 \notin AnswersInTransit'
  BY <1>1 DEF AnswersInTransit
<1>5. \A i \in AnswersInTransit : line'[i] = line[i]
  BY <1>1 DEF AnswersInTransit
<1>6. QED
  BY <1>1, <1>2, <1>3, <1>4, <1>5 DEF AtMostOneAnswer

\* The steps of an exchange.
LeavesAlone ==
  /\ cmd' = cmd
  /\ AnswersInTransit' = {} <=> AnswersInTransit = {}
  /\ AtMostOneAnswer => AtMostOneAnswer'
  /\ \A i \in AnswersInTransit' : \E j \in AnswersInTransit : line'[i].to = line[j].to
  /\ \A t \in Threads : pc'[t] = pc[t] \/ (pc[t] \notin Awaiting /\ pc'[t] \notin Awaiting)

Asks(t, l) ==
  /\ \A u \in Threads : pc[u] \notin Awaiting
  /\ cmd = NoCommand /\ AnswersInTransit = {} /\ AnswersInTransit' = {}
  /\ Goto(t, l) /\ cmd'.name = AwaitedCommand[l]

Hears(t, l) ==
  /\ pc[t] \in Awaiting /\ l \notin Awaiting
  /\ cmd = NoCommand /\ cmd' = cmd /\ AnswersInTransit' = {}
  /\ Goto(t, l)

Replies ==
  /\ cmd # NoCommand /\ cmd' = NoCommand
  /\ AtMostOneAnswer'
  /\ \A i \in AnswersInTransit' : line'[i].to = cmd.name
  /\ pc' = pc

\* A thread that takes the mutex finds the channel silent.
LEMMA Silence ==
  ASSUME ChannelInv, NEW t \in Threads, mtx \in {Nobody, t}, pc[t] \notin InRecv
  PROVE  /\ \A u \in Threads : pc[u] \notin Awaiting
         /\ cmd = NoCommand /\ AnswersInTransit = {}
<1>1. \A u \in Threads : pc[u] \in InRecv => mtx = u
  BY DEF ChannelInv, TypeInv, ControlInv, Actors
<1>2. \A u \in Threads : pc[u] \notin Awaiting
  BY <1>1, NumbersGiven, AwaitedNames
<1>3. QED
  BY <1>2, AwaitedNames DEF ChannelInv, Alternation

LEMMA HeardBy ==
  ASSUME ChannelInv, NEW t \in Threads, NEW l \in Awaiting, NEW types \in SUBSET Answers,
         GotAnswer(t, l, types) \/ GotNone(t, l, types), ~hasty'
  PROVE  pc[t] \in Awaiting /\ cmd = NoCommand /\ AnswersInTransit' = {}
<1>1. pc[t] = l
  BY DEF GotAnswer, GotNone, TimedOut, Receiving
<1>2. CASE line # << >> /\ Head(line).type \in Answers /\ line' = Tail(line)
  <2>1. AnswersInTransit # {}
    BY <1>2, AfterTail DEF ChannelInv, TypeInv, DataTypes
  <2>2. cmd = NoCommand /\ AtMostOneAnswer
    BY <2>1 DEF ChannelInv, Alternation, AtMostOneAnswer
  <2>3. QED
    BY <1>1, <1>2, <2>2, AfterTail DEF ChannelInv, TypeInv, DataTypes
<1>3. CASE TimedOut(t, l)
  <2>1. cmd = NoCommand
    BY <1>3, NeverEarly
  <2>2. QED
    BY <1>1, <1>3, <2>1 DEF TimedOut, AnswersInTransit
<1>4. QED
  BY <1>2, <1>3 DEF GotAnswer, GotNone, Arrived, Answers

LEMMA GoesOutside ==
  ASSUME TypeInv, NEW t \in Threads, NEW l \in PCs, Goto(t, l), pc[t] \notin Awaiting, l \notin Awaiting,
         UNCHANGED <<cmd, line>>
  PROVE  LeavesAlone
<1>1. \A u \in Threads : u # t => pc'[u] = pc[u]
  BY DEF TypeInv, ControlInv, Goto, Actors
<1>2. pc'[t] = l
  BY DEF TypeInv, ControlInv, Goto, Actors
<1>3. AnswersInTransit' = AnswersInTransit
  BY DEF AnswersInTransit
<1>4. QED
  BY <1>1, <1>2, <1>3 DEF LeavesAlone, AtMostOneAnswer

LEMMA StaysSame ==
  ASSUME UNCHANGED <<cmd, line, pc>>
  PROVE  LeavesAlone
BY DEF LeavesAlone, AnswersInTransit, AtMostOneAnswer

\* Whoever waits for no answer finds none on the line.
LEMMA NothingComes ==
  ASSUME ChannelInv, NEW a \in Actors, mtx = a, pc[a] \notin Awaiting, NothingMore
  PROVE  line' = line
<1>1. AnswersInTransit = {}
  BY AwaitedNames DEF ChannelInv, Alternation
<1>2. line # << >> => Head(line).type \notin Answers
  <2>1. SUFFICES ASSUME line # << >>, Head(line).type \in Answers
                 PROVE  FALSE
    OBVIOUS
  <2>2. line \in Seq(FitLine) /\ line # << >>
    BY <2>1 DEF ChannelInv, TypeInv, DataTypes
  <2>3. 1 \in DOMAIN line /\ line[1] = Head(line)
    BY <2>2
  <2>4. QED
    BY <1>1, <2>1, <2>3 DEF AnswersInTransit
<1>3. QED
  BY <1>2 DEF NothingMore, Arrived, Answers

\* Nothing is thrown away: a thread in recv() matches the answer on the line.
LEMMA NothingSkipped ==
  ASSUME ChannelInv, NEW a \in Actors
  PROVE  ~SkipLine(a)
<1>1. SUFFICES ASSUME SkipLine(a)
               PROVE  FALSE
  OBVIOUS
<1>2. /\ mtx = a /\ line # << >> /\ Head(line).type \in Answers
      /\ line \in Seq(FitLine) /\ ~Matches(pc[a])
  BY <1>1 DEF SkipLine, Arrived, Answers, ChannelInv, TypeInv, DataTypes
<1>3. 1 \in DOMAIN line /\ line[1] = Head(line)
  BY <1>2
<1>4. 1 \in AnswersInTransit
  BY <1>2, <1>3 DEF AnswersInTransit
<1>5. pc[a] \in DOMAIN AwaitedCommand /\ Head(line).to = AwaitedCommand[pc[a]]
  BY <1>2, <1>3, <1>4 DEF ChannelInv, Alternation
<1>6. QED
  BY <1>2, <1>5 DEF Matches

LEMMA ExchangeSteps ==
  ASSUME ChannelInv, [Next]_vars, ~hasty'
  PROVE  \/ LeavesAlone
         \/ \E t \in Threads, l \in Awaiting : Asks(t, l)
         \/ \E t \in Threads, l \in PCs : Hears(t, l)
         \/ Replies
<1> USE DEF threadVars, tableVars, lockVars, modemVars, timeoutVars
<1>a. line \in Seq(FitLine) /\ TypeInv /\ {"idle", "sendLoop", "sendLock", "recvLoop", "recvWait"} \subseteq PCs
  BY DEF ChannelInv, TypeInv, DataTypes, PCs, InRecv
<1>1. ASSUME NEW a \in Actors, NSONMI_URC(a)
      PROVE  LeavesAlone
  <2>1. /\ line # << >> /\ line' = Tail(line) /\ UNCHANGED <<pc, cmd>>
        /\ Head(line).type \notin Answers
    BY <1>1 DEF NSONMI_URC, HandleURC, Arrived, Answers
  <2>2. QED
    BY <1>a, <2>1, AfterTail DEF LeavesAlone
<1>2. CASE EventBegin \/ EventEnd
  <2>1. \A t \in Threads : pc'[t] = pc[t]
    BY <1>2, NumbersGiven DEF EventBegin, EventEnd, Goto, ChannelInv, TypeInv, ControlInv, Actors
  <2>2. UNCHANGED <<cmd, line>>
    <3>1. CASE EventBegin
      BY <3>1 DEF EventBegin
    <3>2. CASE EventEnd
      <4>1. EventThread \in Actors /\ pc[EventThread] \notin Awaiting /\ mtx = EventThread
        BY <3>2 DEF EventEnd, Receiving, Actors, Awaiting
      <4>2. QED
        BY <3>2, <4>1, NothingComes DEF EventEnd
    <3>3. QED
      BY <1>2, <3>1, <3>2
  <2>3. QED
    BY <2>1, <2>2 DEF LeavesAlone, AnswersInTransit, AtMostOneAnswer
<1>3. ASSUME NEW t \in Threads, StartCall(t)
      PROVE  LeavesAlone \/ \E l \in Awaiting : Asks(t, l)
  <2>1. pc[t] = "idle" /\ pc[t] \notin InRecv
    BY <1>3
    DEF StartCall, socket_open, OpenNoMemory, socket_close, socket_attach, socket_sendto,
        socket_recvfrom, BeginCall, InRecv
  <2>2. CASE socket_open(t) \/ socket_close(t)
    <3>1. PICK l \in Awaiting : Goto(t, l) /\ cmd'.name = AwaitedCommand[l]
      BY <2>2 DEF socket_open, socket_close, Send, AwaitedCommand, Awaiting
    <3>2. mtx \in {Nobody, t} /\ line' = line
      BY <2>2 DEF socket_open, socket_close, LOCK
    <3>3. QED
      BY <2>1, <3>1, <3>2, Silence DEF Asks, AnswersInTransit
  <2>3. CASE OpenNoMemory(t) \/ socket_sendto(t) \/ socket_recvfrom(t)
    <3>1. PICK l \in {"idle", "sendLoop", "recvLoop"} : Goto(t, l)
      BY <2>3 DEF OpenNoMemory, socket_sendto, socket_recvfrom, Return
    <3>2. UNCHANGED <<cmd, line>>
      BY <2>3 DEF OpenNoMemory, socket_sendto, socket_recvfrom
    <3>3. QED
      BY <1>a, <2>1, <3>1, <3>2, GoesOutside DEF Awaiting
  <2>4. CASE socket_attach(t)
    BY <2>4, StaysSame DEF socket_attach
  <2>5. QED
    BY <1>3, <2>2, <2>3, <2>4 DEF StartCall
<1>4. ASSUME NEW t \in Threads, ContinueCall(t)
      PROVE  LeavesAlone \/ \E l \in PCs : Hears(t, l)
  <2>1. CASE \/ OpenCreated(t) \/ OpenFails(t) \/ CloseDone(t) \/ CloseFails(t) \/ SendGot(t)
             \/ SendFails(t) \/ RecvGot(t) \/ RecvSizeUnread(t) \/ RecvFails(t)
    <3>1. UNCHANGED cmd /\ \E l \in Awaiting, types \in SUBSET Answers :
            GotAnswer(t, l, types) \/ GotNone(t, l, types)
      BY <2>1
      DEF OpenCreated, OpenFails, CloseDone, CloseFails, SendGot, SendFails, RecvGot, RecvSizeUnread,
          RecvFails, EndExchange, EndTurn, Awaiting, Answers, OKs
    <3>2. cmd = NoCommand /\ AnswersInTransit' = {} /\ pc[t] \in Awaiting
      BY <3>1, HeardBy
    <3>3. PICK l \in {"idle", "sendLoop"} : Goto(t, l)
      BY <2>1
      DEF OpenCreated, OpenFails, CloseDone, CloseFails, SendGot, SendFails, RecvGot, RecvSizeUnread,
          RecvFails, EndExchange, Return
    <3>4. QED
      BY <1>a, <3>1, <3>2, <3>3 DEF Hears, Awaiting
  <2>2. CASE SendNoBuffer(t) \/ SendBuffer(t)
    <3>1. /\ Goto(t, "idle") \/ Goto(t, "sendLock")
          /\ pc[t] = "sendLoop" /\ UNCHANGED <<cmd, line>>
      BY <2>2 DEF SendNoBuffer, SendBuffer, Return
    <3>2. QED
      BY <1>a, <3>1, GoesOutside DEF Awaiting
  <2>3. CASE RecvWaited(t)
    <3>a. t \in Actors /\ mtx = t /\ pc[t] \notin Awaiting
      BY <2>3 DEF RecvWaited, Receiving, Actors, Awaiting
    <3>1. Goto(t, "recvLoop") /\ pc[t] = "recvWait" /\ UNCHANGED <<cmd, line>>
      BY <2>3, <3>a, NothingComes DEF RecvWaited, Receiving, EndTurn
    <3>2. QED
      BY <1>a, <3>1, GoesOutside DEF Awaiting
  <2>4. QED
    BY <1>4, <2>1, <2>2, <2>3 DEF ContinueCall
<1>5. ASSUME NEW t \in Threads, TakeTurn(t) \/ TimerExpires(t)
      PROVE  LeavesAlone \/ \E l \in Awaiting : Asks(t, l)
  <2>1. CASE SendBlock(t) \/ RecvRead(t)
    <3>1. PICK l \in Awaiting : Goto(t, l) /\ cmd'.name = AwaitedCommand[l]
      BY <2>1 DEF SendBlock, RecvRead, Send, AwaitedCommand, Awaiting
    <3>2. mtx \in {Nobody, t} /\ line' = line /\ pc[t] \notin InRecv
      BY <2>1 DEF SendBlock, RecvRead, BeginTurn, LOCK, InRecv
    <3>3. QED
      BY <3>1, <3>2, Silence DEF Asks, AnswersInTransit
  <2>2. CASE RecvNoBuffer(t) \/ RecvWait(t) \/ RecvReturns(t)
    <3>1. PICK l \in {"idle", "recvWait"} : Goto(t, l)
      BY <2>2 DEF RecvNoBuffer, RecvWait, RecvReturns, Return
    <3>2. UNCHANGED <<cmd, line>> /\ pc[t] = "recvLoop"
      BY <2>2 DEF RecvNoBuffer, RecvWait, RecvReturns, BeginTurn
    <3>3. QED
      BY <1>a, <3>1, <3>2, GoesOutside DEF Awaiting
  <2>3. CASE TimerExpires(t)
    BY <2>3, StaysSame DEF TimerExpires
  <2>4. QED
    BY <1>5, <2>1, <2>2, <2>3 DEF TakeTurn
<1>6. CASE ModemExecutes \/ ModemRefuses
  <2>1. pc' = pc /\ cmd # NoCommand /\ cmd' = NoCommand
    BY <1>6 DEF ModemExecutes, ModemRefuses
  <2>2. AnswersInTransit = {}
    BY <2>1 DEF ChannelInv, Alternation
  <2>3. line' = line \/ \E x \in FitLine : x.to = cmd.name /\ line' = Append(line, x)
    <3>1. ASSUME NEW a \in AnswerLines, CarryOut(a)
          PROVE  /\ a \in FitLine /\ a.to = cmd.name
                 /\ [a EXCEPT !.type = "HEAD"] \in FitLine
                 /\ [a EXCEPT !.type = "HEAD"].to = cmd.name
                 /\ [a EXCEPT !.type = "LATE"] \in FitLine
                 /\ [a EXCEPT !.type = "LATE"].to = cmd.name
      <4>1. a.to = cmd.name
        BY <3>1 DEF CarryOut, Answer, Line
      <4>2. QED
        BY <4>1, AnswerTypes DEF AnswerLines, FitLine, LineItem, Answers
    <3>2. Answer("ERROR", cmd.handle, 0) \in FitLine /\ Answer("ERROR", cmd.handle, 0).to = cmd.name
      BY <1>a, NumbersGiven DEF Answer, Line, FitLine, LineItem, Answers, TypeInv, DataTypes, Command, Lengths
    <3>3. QED
      BY <1>6, <3>1, <3>2 DEF ModemExecutes, ModemRefuses
  <2>4. AtMostOneAnswer' /\ \A i \in AnswersInTransit' : line'[i].to = cmd.name
    <3>1. CASE line' = line
      BY <2>2, <3>1 DEF AtMostOneAnswer, AnswersInTransit
    <3>2. CASE \E x \in FitLine : x.to = cmd.name /\ line' = Append(line, x)
      BY <1>a, <2>2, <3>2, AfterAppend
    <3>3. QED
      BY <2>3, <3>1, <3>2
  <2>5. QED
    BY <2>1, <2>4 DEF Replies
<1>7. ASSUME NEW h \in ModemHandles, DatagramArrives(h)
      PROVE  LeavesAlone
  <2>1. PICK n \in 1..MaxLength : line' = Append(line, Line("NSONMI", "none", h, n))
    BY <1>7 DEF DatagramArrives, NoCommand
  <2>2. Line("NSONMI", "none", h, n) \in FitLine /\ Line("NSONMI", "none", h, n).type \notin Answers
    BY NumbersGiven DEF Line, FitLine, LineItem, Lengths, Answers
  <2>3. /\ AnswersInTransit' = AnswersInTransit
        /\ \A i \in AnswersInTransit : line'[i] = line[i]
    BY <1>a, <2>1, <2>2, AfterAppend
  <2>4. UNCHANGED <<pc, cmd>>
    BY <1>7 DEF DatagramArrives
  <2>5. QED
    BY <2>3, <2>4 DEF LeavesAlone, AtMostOneAnswer
<1>8. CASE UNCHANGED vars
  BY <1>8, StaysSame DEF vars
<1>9. QED
  BY <1>1, <1>2, <1>3, <1>4, <1>5, <1>6, <1>7, <1>8, NothingSkipped DEF Next

LEMMA ChannelStep ==
  ASSUME ChannelInv, TypeInv', [Next]_vars, ~hasty'
  PROVE  Alternation'
<1>a. /\ DOMAIN AwaitedCommand = Awaiting
      /\ \A t \in Threads : pc'[t] \in Awaiting => mtx' = t
  BY AwaitedNames DEF TypeInv, ControlInv, Actors
<1>b. AwaitedCommand' = AwaitedCommand
  BY DEF AwaitedCommand
<1>1. CASE LeavesAlone
  <2>1. ASSUME cmd # NoCommand \/ AnswersInTransit # {}
        PROVE  mtx' = mtx /\ pc'[mtx] = pc[mtx]
    BY <1>a, <1>1, <2>1 DEF LeavesAlone, ChannelInv, Alternation
  <2>2. ASSUME AnswersInTransit' # {}
        PROVE  \A i \in AnswersInTransit' : line'[i].to = AwaitedCommand[pc'[mtx']]
    BY <1>1, <2>1, <2>2 DEF LeavesAlone, ChannelInv, Alternation
  <2>3. QED
    BY <1>1, <1>b, <2>1, <2>2 DEF LeavesAlone, ChannelInv, Alternation, AtMostOneAnswer
<1>2. ASSUME NEW t \in Threads, NEW l \in Awaiting, Asks(t, l)
      PROVE  Alternation'
  <2>1. pc'[t] = l
    BY <1>2 DEF Asks, Goto, ChannelInv, TypeInv, ControlInv, Actors
  <2>2. QED
    BY <1>a, <1>b, <1>2, <2>1 DEF Asks, Alternation
<1>3. ASSUME NEW t \in Threads, NEW l \in PCs, Hears(t, l)
      PROVE  Alternation'
  BY <1>3 DEF Hears, Alternation
<1>4. CASE Replies
  BY <1>a, <1>b, <1>4 DEF Replies, ChannelInv, Alternation, AtMostOneAnswer
<1>5. QED
  BY <1>1, <1>2, <1>3, <1>4, ExchangeSteps

LEMMA DriverInvAlways == Spec => []DriverInv
<1>1. Init => AnswersReachTheirCaller
  BY DEF Init, AnswersReachTheirCaller, Alternation, AnswersInTransit
<1>2. TypeInv /\ TypeInv' /\ HastyInv /\ AnswersReachTheirCaller /\ [Next]_vars
        => AnswersReachTheirCaller'
  <2>1. SUFFICES ASSUME TypeInv, TypeInv', HastyInv, AnswersReachTheirCaller, [Next]_vars, ~hasty'
                 PROVE  Alternation'
    BY DEF AnswersReachTheirCaller
  <2>2. ChannelInv
    BY <2>1, NotHastyBefore DEF ChannelInv, AnswersReachTheirCaller
  <2>3. QED
    BY <2>1, <2>2, ChannelStep
<1>3. QED
  BY <1>1, <1>2, TypeInvAlways, HastyInvAlways, PTL DEF Spec, DriverInv

\* AnswersReachTheirCaller: though a call may return with the mutex, and one
\* thread lock it several times, a command and its answer belong to the thread
\* that holds it and waits for them, as long as no recv() gives up on a command
\* the modem still has.
THEOREM AnswersAreNotMixedUp == Spec => []AnswersReachTheirCaller
  BY DriverInvAlways, PTL DEF DriverInv

(***************************************************************************)
(* The driver implements ATChannel.                                        *)
(***************************************************************************)

LEMMA AwaitedNow ==
  ASSUME NEW t \in Threads
  PROVE  /\ pc[t] \in Awaiting => Awaited[t] = AwaitedCommand[pc[t]] /\ Awaited[t] # None
         /\ pc[t] \notin Awaiting => Awaited[t] = None
BY AwaitedNames DEF Awaited, None

LEMMA AwaitedAfter ==
  ASSUME TypeInv, NEW t \in Threads, NEW l, Goto(t, l)
  PROVE  /\ l \in Awaiting => Awaited' = [Awaited EXCEPT ![t] = AwaitedCommand[l]]
         /\ l \notin Awaiting => Awaited' = [Awaited EXCEPT ![t] = None]
<1>1. DOMAIN AwaitedCommand = Awaiting
  BY AwaitedNames
<1>2. pc'[t] = l /\ \A u \in Threads : u # t => pc'[u] = pc[u]
  BY DEF TypeInv, ControlInv, Goto, Actors
<1>3. AwaitedCommand' = AwaitedCommand
  BY DEF AwaitedCommand
<1>4. QED
  BY <1>1, <1>2, <1>3 DEF Awaited, None

LEMMA ChannelNext ==
  DriverInv /\ [Next]_vars => [~hasty' => Channel!Next]_(Channel!vars)
<1> SUFFICES ASSUME DriverInv, [Next]_vars, ~hasty'
             PROVE  Channel!Next \/ UNCHANGED Channel!vars
  OBVIOUS
<1>b. ChannelInv
  BY NotHastyBefore DEF DriverInv, ChannelInv, AnswersReachTheirCaller
<1>a. DOMAIN AwaitedCommand = Awaiting /\ AwaitedCommand' = AwaitedCommand /\ TypeInv
  BY <1>b, AwaitedNames DEF AwaitedCommand, ChannelInv
<1>1. CASE LeavesAlone
  <2>1. Awaited' = Awaited
    BY <1>a, <1>1 DEF LeavesAlone, Awaited, None
  <2>2. QED
    BY <1>1, <2>1 DEF LeavesAlone, Channel!vars
<1>2. ASSUME NEW t \in Threads, NEW l \in Awaiting, Asks(t, l)
      PROVE  Channel!Next
  <2>1. \A u \in Threads : Awaited[u] = None
    BY <1>2, AwaitedNow DEF Asks
  <2>2. Awaited' = [Awaited EXCEPT ![t] = AwaitedCommand[l]]
    BY <1>2, <1>a, AwaitedAfter DEF Asks
  <2>3. Channel!Ask(t, AwaitedCommand[l])
    BY <1>2, <2>1, <2>2 DEF Channel!Ask, Asks, None
  <2>4. QED
    BY <2>3, AwaitedNames DEF Channel!Next, Commands
<1>3. ASSUME NEW t \in Threads, NEW l \in PCs, Hears(t, l)
      PROVE  Channel!Next
  <2>1. Awaited[t] # None
    BY <1>3, AwaitedNow DEF Hears
  <2>2. Awaited' = [Awaited EXCEPT ![t] = None]
    BY <1>3, <1>a, AwaitedAfter DEF Hears
  <2>3. Channel!Hear(t)
    BY <1>3, <2>1, <2>2 DEF Channel!Hear, Hears, None
  <2>4. QED
    BY <2>3 DEF Channel!Next
<1>4. CASE Replies
  <2>1. cmd.name # None /\ cmd'.name = None
    BY <1>b, <1>4, AwaitedNames DEF Replies, ChannelInv, Alternation, None
  <2>2. Awaited' = Awaited
    BY <1>4, <1>a DEF Replies, Awaited
  <2>3. Channel!Answer
    BY <2>1, <2>2 DEF Channel!Answer, None
  <2>4. QED
    BY <2>3 DEF Channel!Next
<1>5. QED
  BY <1>1, <1>2, <1>3, <1>4, <1>b, ExchangeSteps

LEMMA ChannelInit == Init => Channel!Init
<1> SUFFICES ASSUME Init
             PROVE  Channel!Init
  OBVIOUS
<1>1. \A t \in Threads : pc[t] = "idle"
  BY NumbersGiven DEF Init, Actors
<1>2. Awaited = [t \in Threads |-> None]
  BY <1>1, AwaitedNames DEF Awaited, None, Awaiting
<1>3. AnswersInTransit = {} /\ cmd = NoCommand
  BY DEF Init, AnswersInTransit
<1>4. QED
  BY <1>2, <1>3 DEF Channel!Init, None

\* ImplementsChannel: with a recursive mutex that calls may keep, and answers
\* lost, cut or refused, one exchange is under way at a time and each answer
\* goes to the thread that asked, as long as no recv() gives up on a command the
\* modem still has.
THEOREM ChannelImplemented == Spec => ImplementsChannel
  BY DriverInvAlways, ChannelInit, ChannelNext, PTL DEF Spec, ImplementsChannel

(***************************************************************************)
(* When no recv() ever gives up too early.                                 *)
(***************************************************************************)

\* Without socket_recvfrom() only the event thread changes the timeout, and it
\* puts it back before it gives the mutex back.
TimeoutInv ==
  "recvfrom" \notin Ops =>
    /\ \A t \in Threads : pc[t] \notin {"recvLoop", "recvRead", "recvWait"}
    /\ pc[EventThread] = "urcs" => saved[EventThread] = AtDefault
    /\ pc[EventThread] # "urcs" => at_timeout = AtDefault

LEMMA TimeoutInit == Init => TimeoutInv
BY NumbersGiven DEF Init, TimeoutInv, Actors

LEMMA TimeoutStep == TypeInv /\ TimeoutInv /\ [Next]_vars => TimeoutInv'
<1> SUFFICES ASSUME TypeInv, TimeoutInv, [Next]_vars, "recvfrom" \notin Ops
             PROVE  TimeoutInv'
  BY DEF TimeoutInv
<1> USE DEF threadVars, timeoutVars
<1> DEFINE RecvAt == {"recvLoop", "recvRead", "recvWait"}
<1>a. /\ EventThread \in Actors /\ Threads \subseteq Actors /\ EventThread \notin Threads
      /\ \A t \in Threads : pc[t] \notin RecvAt
      /\ pc \in [Actors -> PCs] /\ saved \in [Actors -> Timeouts]
  BY NumbersGiven DEF TimeoutInv, TypeInv, ControlInv, DataTypes, Actors
<1>1. ASSUME UNCHANGED <<at_timeout, saved>>, NEW t \in Threads, NEW l \in PCs \ RecvAt,
             Goto(t, l)
      PROVE  TimeoutInv'
  BY <1>1, <1>a DEF Goto, TimeoutInv
<1>2. ASSUME UNCHANGED <<at_timeout, saved, pc>>
      PROVE  TimeoutInv'
  BY <1>2 DEF TimeoutInv
<1>3. CASE EventBegin
  <2>1. pc' = [pc EXCEPT ![EventThread] = "urcs"] /\ pc[EventThread] = "poll"
    BY <1>3 DEF EventBegin, Goto
  <2>2. saved' = [saved EXCEPT ![EventThread] = at_timeout]
    BY <1>3 DEF EventBegin
  <2>3. QED
    BY <1>a, <2>1, <2>2 DEF TimeoutInv
<1>4. CASE EventEnd
  <2>1. /\ pc' = [pc EXCEPT ![EventThread] = "poll"] /\ pc[EventThread] = "urcs"
        /\ at_timeout' = saved[EventThread]
    BY <1>4 DEF EventEnd, Goto, Receiving
  <2>2. QED
    BY <1>a, <2>1 DEF TimeoutInv
<1>5. ASSUME NEW t \in Threads, StartCall(t)
      PROVE  TimeoutInv'
  <2>1. ~socket_recvfrom(t)
    BY DEF socket_recvfrom, BeginCall
  <2>2. UNCHANGED <<at_timeout, saved>>
    BY <1>5, <2>1
    DEF StartCall, socket_open, OpenNoMemory, socket_close, socket_attach, socket_sendto
  <2>3. pc' = pc \/ \E l \in {"open", "close", "idle", "sendLoop"} : Goto(t, l)
    BY <1>5, <2>1
    DEF StartCall, socket_open, OpenNoMemory, socket_close, socket_attach, socket_sendto, Return
  <2>4. {"open", "close", "idle", "sendLoop"} \subseteq PCs \ RecvAt
    BY DEF PCs, InRecv
  <2>5. QED
    BY <1>1, <1>2, <2>2, <2>3, <2>4
<1>6. ASSUME NEW t \in Threads, ContinueCall(t) \/ TakeTurn(t) \/ TimerExpires(t)
      PROVE  TimeoutInv'
  <2>1. /\ ~RecvGot(t) /\ ~RecvSizeUnread(t) /\ ~RecvFails(t) /\ ~RecvWaited(t) /\ ~RecvRead(t)
        /\ ~RecvNoBuffer(t) /\ ~RecvWait(t) /\ ~RecvReturns(t) /\ ~TimerExpires(t)
    BY <1>a
    DEF RecvGot, RecvSizeUnread, RecvFails, RecvWaited, RecvRead, RecvNoBuffer, RecvWait,
        RecvReturns, TimerExpires, GotAnswer, GotNone, TimedOut, Receiving, BeginTurn
  <2>2. \/ OpenCreated(t) \/ OpenFails(t) \/ CloseDone(t) \/ CloseFails(t)
        \/ SendNoBuffer(t) \/ SendBuffer(t) \/ SendGot(t) \/ SendFails(t) \/ SendBlock(t)
    BY <1>6, <2>1 DEF ContinueCall, TakeTurn
  <2>3. UNCHANGED <<at_timeout, saved>>
    BY <2>2
    DEF OpenCreated, OpenFails, CloseDone, CloseFails, SendNoBuffer, SendBuffer, SendGot, SendFails,
        SendBlock, EndExchange
  <2>4. \E l \in {"idle", "sendLoop", "sendLock", "sendWait"} : Goto(t, l)
    BY <2>2
    DEF OpenCreated, OpenFails, CloseDone, CloseFails, SendNoBuffer, SendBuffer, SendGot, SendFails,
        SendBlock, EndExchange, Return
  <2>5. {"idle", "sendLoop", "sendLock", "sendWait"} \subseteq PCs \ RecvAt
    BY DEF PCs, InRecv
  <2>6. QED
    BY <1>1, <2>3, <2>4, <2>5
<1>7. CASE \/ \E a \in Actors : NSONMI_URC(a) \/ SkipLine(a)
           \/ ModemExecutes \/ ModemRefuses \/ \E h \in ModemHandles : DatagramArrives(h)
  BY <1>2, <1>7
  DEF NSONMI_URC, HandleURC, SkipLine, ModemExecutes, ModemRefuses, DatagramArrives
<1>8. CASE UNCHANGED vars
  BY <1>2, <1>8 DEF vars
<1>9. QED
  BY <1>3, <1>4, <1>5, <1>6, <1>7, <1>8 DEF Next

LEMMA TimeoutInvAlways == Spec => []TimeoutInv
  BY TypeInvAlways, TimeoutInit, TimeoutStep, PTL DEF Spec

\* A modem that answers within every timeout the calls can leave behind.
LEMMA NeverHasty ==
  ASSUME Patient
  PROVE  Spec => []~hasty
<1>1. Init => ~hasty
  BY DEF Init
<1>2. TypeInv /\ TimeoutInv /\ ~hasty /\ [Next]_vars => ~hasty'
  <2>1. SUFFICES ASSUME TypeInv, TimeoutInv, ~hasty, [Next]_vars, at_timeout < AnswerTime, mtx \in Threads
                 PROVE  FALSE
    BY FaultsChange DEF FaultHappens
  <2>2. at_timeout \in Timeouts /\ AnswerTime \in Nat
    BY <2>1, NumbersGiven DEF TypeInv, DataTypes
  <2>3. ~(AnswerTime <= UrcPoll)
    BY <2>1, <2>2 DEF Timeouts, UrcPoll, AtDefault, SocketWait
  <2>4. "recvfrom" \notin Ops /\ AnswerTime <= AtDefault
    BY <2>3 DEF Patient
  <2>5. pc[EventThread] # "urcs"
    BY <2>1, NumbersGiven DEF TypeInv, ControlInv, InRecv, Actors
  <2>6. at_timeout = AtDefault
    BY <2>1, <2>4, <2>5 DEF TimeoutInv
  <2>7. QED
    BY <2>1, <2>2, <2>4, <2>6 DEF AtDefault
<1>3. QED
  BY <1>1, <1>2, TypeInvAlways, TimeoutInvAlways, PTL DEF Spec

\* The assumption under which no recv() ever gives up too early: a modem that
\* answers within the timeouts that the calls in use can leave behind.
THEOREM PatientChannelImplemented ==
  ASSUME Patient
  PROVE  Spec => Channel!Spec
<1>1. DriverInv /\ ~hasty' /\ [Next]_vars => [Channel!Next]_(Channel!vars)
  BY ChannelNext
<1>2. QED
  BY <1>1, NeverHasty, DriverInvAlways, ChannelInit, PTL DEF Spec, Channel!Spec

(***************************************************************************)
(* What holds until an answer is lost.  Every exchange is answered, no     *)
(* socket_close() is refused, and the slots in use, the sockets open in    *)
(* the modem and the handles of the application are one and the same.      *)
(***************************************************************************)

\* t has been told that its socket is closed, and has not cleared the slot yet.
Closing(s) == \E t \in Threads : handle[t] = s /\ pc[t] = "close" /\ cmd = NoCommand

NothingLost ==
  /\ \A t \in Threads : pc[t] \in Awaiting => cmd # NoCommand \/ AnswersInTransit # {}
  /\ \A i \in DOMAIN line : line[i].type \notin {"HEAD", "LATE"}
  /\ \A t \in Threads : pc[t] = "close" => \A i \in DOMAIN line : line[i].type # "ERROR"

HandlesDiffer == \A r, s \in Slots : InUse(s) /\ sockets[r].modem_handle = sockets[s].modem_handle => r = s

SlotsAreOpen == \A s \in Slots : InUse(s) => modem[sockets[s].modem_handle].open \/ Closing(s)

SlotsAreOwned ==
  /\ \A s \in Slots : InUse(s) => \E t \in Threads : handle[t] = s
  /\ \A s \in Slots : sockets[s].callback => InUse(s)

ClosesItsOwn ==
  \A t \in Threads : pc[t] = "close" /\ cmd # NoCommand =>
    cmd.handle = sockets[handle[t]].modem_handle

NewHandle(h) == modem[h].open /\ \A s \in Slots : sockets[s].modem_handle # h

OpensNew ==
  \A t \in Threads : pc[t] = "open" =>
    \A i \in DOMAIN line : line[i].type = "OK" => NewHandle(line[i].handle)

SlotsMatch == HandlesDiffer /\ SlotsAreOpen /\ SlotsAreOwned /\ ClosesItsOwn /\ OpensNew

Faultless == NothingLost /\ SlotsMatch
FaultlessInv == faults = MaxFaults => Faultless

\* The lines left when one is read, or one more is sent.
LEMMA LinesAfterTail ==
  ASSUME line \in Seq(FitLine), line # << >>, line' = Tail(line)
  PROVE  /\ \A i \in DOMAIN line' : i + 1 \in DOMAIN line /\ line'[i] = line[i + 1]
         /\ 1 \in DOMAIN line /\ Head(line) = line[1]
OBVIOUS

LEMMA LinesAfterAppend ==
  ASSUME line \in Seq(FitLine), NEW x \in FitLine, line' = Append(line, x)
  PROVE  /\ \A i \in DOMAIN line' : (i \in DOMAIN line /\ line'[i] = line[i]) \/ line'[i] = x
         /\ \A i \in DOMAIN line : i \in DOMAIN line' /\ line'[i] = line[i]
         /\ Len(line) + 1 \in DOMAIN line' /\ line'[Len(line) + 1] = x
OBVIOUS

\* One thread at most waits for an answer.
LEMMA OneWaits ==
  ASSUME ChannelInv, NEW t \in Threads, NEW u \in Threads, pc[t] \in Awaiting, pc[u] \in Awaiting
  PROVE  t = u
<1>1. mtx = t /\ mtx = u
  BY AwaitedNames DEF ChannelInv, TypeInv, ControlInv, Actors
<1>2. QED
  BY <1>1

LEMMA FaultlessInit == Init => FaultlessInv
<1> SUFFICES ASSUME Init
             PROVE  Faultless
  BY DEF FaultlessInv
<1>1. /\ \A t \in Threads : pc[t] = "idle"
      /\ \A s \in Slots : sockets[s] = UnusedSocket
      /\ line = << >>
  BY NumbersGiven DEF Init, Actors
<1>2. NothingLost
  BY <1>1 DEF NothingLost, Awaiting
<1>3. SlotsMatch
  BY <1>1
  DEF SlotsMatch, HandlesDiffer, SlotsAreOpen, SlotsAreOwned, ClosesItsOwn, OpensNew, InUse, UnusedSocket
<1>4. QED
  BY <1>2, <1>3 DEF Faultless

\* A step of a thread that is not in an exchange, the table left as it is but
\* for what is pending and the callbacks of slots in use.
LEMMA FaultlessOutside ==
  ASSUME ChannelInv, Faultless, UNCHANGED <<handle, cmd, modem>>,
         \A t \in Threads : pc'[t] = pc[t] \/ (pc[t] \notin Awaiting /\ pc'[t] \notin Awaiting),
         \A s \in Slots : /\ sockets'[s].modem_handle = sockets[s].modem_handle
                          /\ sockets'[s].callback => sockets[s].callback \/ InUse(s),
         line' = line \/ (line # << >> /\ Head(line).type = "NSONMI" /\ line' = Tail(line))
  PROVE  Faultless'
<1>1. /\ \A i \in DOMAIN line' : \E j \in DOMAIN line : line'[i] = line[j]
      /\ AnswersInTransit' = {} <=> AnswersInTransit = {}
  BY LinesAfterTail, AfterTail DEF ChannelInv, TypeInv, DataTypes, AnswersInTransit, Answers
<1>2. \A s \in Slots : InUse(s)' <=> InUse(s)
  BY DEF InUse
<1>3. NothingLost'
  BY <1>1 DEF Faultless, NothingLost, Awaiting
<1>4. HandlesDiffer'
  BY <1>2 DEF Faultless, SlotsMatch, HandlesDiffer
<1>5. SlotsAreOpen'
  <2>1. \A s \in Slots : Closing(s) => Closing(s)'
    BY DEF Closing, Awaiting
  <2>2. QED
    BY <1>2, <2>1 DEF Faultless, SlotsMatch, SlotsAreOpen
<1>6. SlotsAreOwned'
  BY <1>2 DEF Faultless, SlotsMatch, SlotsAreOwned
<1>7. ClosesItsOwn'
  <2>1. \A t \in Threads : pc'[t] = "close" => pc[t] = "close" /\ handle[t] \in Slots
    BY DEF Awaiting, ChannelInv, TypeInv, OwnSlot
  <2>2. QED
    BY <2>1 DEF Faultless, SlotsMatch, ClosesItsOwn
<1>8. OpensNew'
  <2>1. \A t \in Threads : pc'[t] = "open" => pc[t] = "open"
    BY DEF Awaiting
  <2>2. QED
    BY <1>1, <2>1 DEF Faultless, SlotsMatch, OpensNew, NewHandle
<1>9. QED
  BY <1>3, <1>4, <1>5, <1>6, <1>7, <1>8 DEF Faultless, SlotsMatch

\* A thread that finds the channel silent asks: what it sends names its slot.
LEMMA FaultlessAsk ==
  ASSUME ChannelInv, Faultless, NEW t \in Threads, NEW l \in Awaiting, Asks(t, l),
         UNCHANGED <<line, sockets, modem>>,
         handle' = handle \/ (handle[t] = NoSocket /\ \E s \in Slots : handle' = [handle EXCEPT ![t] = s]),
         l = "close" => cmd'.handle = sockets[handle'[t]].modem_handle
  PROVE  Faultless'
<1>1. /\ \A u \in Threads : pc[u] \notin Awaiting
      /\ pc'[t] = l /\ \A u \in Threads : u # t => pc'[u] = pc[u]
      /\ cmd' # NoCommand
      /\ AnswersInTransit = {}
  BY AwaitedNames DEF Asks, Goto, ChannelInv, TypeInv, ControlInv, Actors, None
<1>2. \A i \in DOMAIN line' : line'[i].type \notin Answers
  BY <1>1 DEF AnswersInTransit
<1>3. \A u \in Threads : u # t => handle'[u] = handle[u]
  BY DEF ChannelInv, TypeInv, DataTypes
<1>4. \A s \in Slots : handle[t] = s => handle'[t] = s
  BY ConstantTypes
<1>5. \A s \in Slots : InUse(s)' <=> InUse(s)
  BY DEF InUse
<1>6. NothingLost'
  BY <1>1, <1>2 DEF NothingLost, Answers
<1>7. HandlesDiffer'
  BY <1>5 DEF Faultless, SlotsMatch, HandlesDiffer
<1>8. SlotsAreOpen'
  BY <1>1, <1>5 DEF Faultless, SlotsMatch, SlotsAreOpen, Closing, Awaiting
<1>9. SlotsAreOwned'
  BY <1>3, <1>4, <1>5 DEF Faultless, SlotsMatch, SlotsAreOwned
<1>10. ClosesItsOwn'
  BY <1>1 DEF ClosesItsOwn, Awaiting
<1>11. OpensNew'
  BY <1>2 DEF OpensNew, Answers
<1>12. QED
  BY <1>6, <1>7, <1>8, <1>9, <1>10, <1>11 DEF Faultless, SlotsMatch

\* A thread hears: nobody waits any more.
LEMMA AllHeard ==
  ASSUME ChannelInv, Faultless, NEW t \in Threads, NEW l \in PCs, Hears(t, l),
         line' = line \/ (line # << >> /\ line' = Tail(line))
  PROVE  /\ \A u \in Threads : pc'[u] \notin Awaiting
         /\ NothingLost' /\ ClosesItsOwn' /\ OpensNew'
<1>1. pc'[t] = l /\ \A u \in Threads : u # t => pc'[u] = pc[u]
  BY DEF Hears, Goto, ChannelInv, TypeInv, ControlInv, Actors
<1>2. \A u \in Threads : pc'[u] \notin Awaiting
  BY <1>1, OneWaits DEF Hears
<1>3. \A i \in DOMAIN line' : \E j \in DOMAIN line : line'[i] = line[j]
  BY LinesAfterTail DEF ChannelInv, TypeInv, DataTypes
<1>4. NothingLost'
  BY <1>2, <1>3 DEF Faultless, NothingLost, Awaiting
<1>5. ClosesItsOwn' /\ OpensNew'
  BY <1>2 DEF ClosesItsOwn, OpensNew, Awaiting
<1>6. QED
  BY <1>2, <1>4, <1>5

\* While t is in an exchange of another kind, nobody closes a socket.
LEMMA AllOpen ==
  ASSUME ChannelInv, Faultless, NEW t \in Threads, pc[t] \in Awaiting \ {"close"}
  PROVE  \A s \in Slots : InUse(s) => modem[sockets[s].modem_handle].open
<1>1. \A s \in Slots : ~Closing(s)
  BY OneWaits DEF Closing, Awaiting
<1>2. QED
  BY <1>1 DEF Faultless, SlotsMatch, SlotsAreOpen

LEMMA FaultlessHearData ==
  ASSUME ChannelInv, Faultless, NEW t \in Threads, NEW l \in PCs, Hears(t, l),
         line' = line \/ (line # << >> /\ line' = Tail(line)),
         pc[t] \in {"sendWait", "recvRead"}, UNCHANGED <<handle, modem>>,
         \A s \in Slots : /\ sockets'[s].modem_handle = sockets[s].modem_handle
                          /\ sockets'[s].callback = sockets[s].callback
  PROVE  Faultless'
<1>1. \A s \in Slots : InUse(s)' <=> InUse(s)
  BY DEF InUse
<1>2. HandlesDiffer'
  BY <1>1 DEF Faultless, SlotsMatch, HandlesDiffer
<1>3. SlotsAreOpen'
  BY <1>1, AllOpen DEF SlotsAreOpen, Awaiting
<1>4. SlotsAreOwned'
  BY <1>1 DEF Faultless, SlotsMatch, SlotsAreOwned
<1>5. QED
  BY <1>2, <1>3, <1>4, AllHeard DEF Faultless, SlotsMatch

LEMMA FaultlessHearOpen ==
  ASSUME ChannelInv, TypeInv', ~hasty', Faultless, NEW t \in Threads, OpenCreated(t) \/ OpenFails(t)
  PROVE  Faultless'
<1>1. /\ pc[t] = "open" /\ Goto(t, "idle") /\ UNCHANGED <<cmd, modem>>
      /\ line' = line \/ (line # << >> /\ line' = Tail(line))
      /\ \E types \in SUBSET Answers : GotAnswer(t, "open", types) \/ GotNone(t, "open", types)
  BY DEF OpenCreated, OpenFails, GotAnswer, GotNone, TimedOut, Arrived, Receiving, EndExchange, Return,
      Answers
<1>2. Hears(t, "idle") /\ "idle" \in PCs
  BY <1>1, HeardBy DEF Hears, Awaiting, PCs
<1>3. handle[t] \in Slots /\ ~InUse(handle[t])
  BY <1>1 DEF ChannelInv, TypeInv, OwnSlot
<1>4. \A s \in Slots : InUse(s) => modem[sockets[s].modem_handle].open
  BY <1>1, AllOpen DEF Awaiting
<1>5. CASE OpenCreated(t)
  <2>1. /\ sockets' = [sockets EXCEPT ![handle[t]] =
                         [UnusedSocket EXCEPT !.modem_handle = Head(line).handle]]
        /\ line # << >> /\ Head(line).type = "OK" /\ handle' = handle
    BY <1>5 DEF OpenCreated, GotAnswer, Arrived
  <2>2. NewHandle(Head(line).handle)
    BY <1>1, <2>1, LinesAfterTail
    DEF OpenCreated, GotAnswer, Faultless, SlotsMatch, OpensNew, ChannelInv, TypeInv, DataTypes
  <2>3. /\ sockets'[handle[t]].modem_handle = Head(line).handle
        /\ ~sockets'[handle[t]].callback
        /\ \A s \in Slots : s # handle[t] => sockets'[s] = sockets[s]
    BY <1>3, <2>1 DEF ChannelInv, TypeInv, DataTypes, UnusedSocket
  <2>4. \A s \in Slots : s # handle[t] => (InUse(s)' <=> InUse(s))
    BY <2>3 DEF InUse
  <2>5. HandlesDiffer'
    BY <2>2, <2>3, <2>4 DEF Faultless, SlotsMatch, HandlesDiffer, NewHandle
  <2>6. SlotsAreOpen'
    BY <1>1, <1>4, <2>2, <2>3, <2>4 DEF SlotsAreOpen, NewHandle
  <2>7. SlotsAreOwned'
    BY <2>1, <2>3, <2>4 DEF Faultless, SlotsMatch, SlotsAreOwned
  <2>8. QED
    BY <1>1, <1>2, <2>5, <2>6, <2>7, AllHeard DEF Faultless, SlotsMatch
<1>6. CASE OpenFails(t)
  <2>1. handle' = [handle EXCEPT ![t] = NoSocket] /\ sockets' = sockets
    BY <1>6 DEF OpenFails
  <2>2. \A s \in Slots : InUse(s)' <=> InUse(s)
    BY <2>1 DEF InUse
  <2>3. HandlesDiffer' /\ SlotsAreOpen'
    BY <1>1, <1>4, <2>1, <2>2 DEF Faultless, SlotsMatch, HandlesDiffer, SlotsAreOpen
  <2>4. \A u \in Threads : u # t => handle'[u] = handle[u]
    BY <2>1 DEF ChannelInv, TypeInv, DataTypes
  <2>5. SlotsAreOwned'
    BY <1>3, <2>1, <2>2, <2>4 DEF Faultless, SlotsMatch, SlotsAreOwned
  <2>6. QED
    BY <1>1, <1>2, <2>3, <2>5, AllHeard DEF Faultless, SlotsMatch
<1>7. QED
  BY <1>5, <1>6

\* socket_close() is answered with an OK.
LEMMA FaultlessHearClose ==
  ASSUME ChannelInv, ~hasty', Faultless, NEW t \in Threads, CloseDone(t) \/ CloseFails(t)
  PROVE  Faultless'
<1>1. /\ pc[t] = "close" /\ Goto(t, "idle") /\ UNCHANGED <<cmd, modem>>
      /\ line' = line \/ (line # << >> /\ line' = Tail(line))
      /\ \E types \in SUBSET Answers : GotAnswer(t, "close", types) \/ GotNone(t, "close", types)
  BY DEF CloseDone, CloseFails, GotAnswer, GotNone, TimedOut, Arrived, Receiving, EndExchange, Return,
      Answers, OKs
<1>2. Hears(t, "idle") /\ "idle" \in PCs
  BY <1>1, HeardBy DEF Hears, Awaiting, PCs
<1>3. PICK own \in Slots : handle[t] = own
  BY <1>1 DEF ChannelInv, TypeInv, OwnSlot
<1>4. ~CloseFails(t)
  <2>1. SUFFICES ASSUME CloseFails(t)
                 PROVE  FALSE
    OBVIOUS
  <2>2. CASE line # << >> /\ Head(line).type \in {"HEAD", "ERROR"}
    BY <1>1, <2>2, LinesAfterTail
    DEF CloseFails, GotNone, GotAnswer, Faultless, NothingLost, ChannelInv, TypeInv, DataTypes
  <2>3. CASE TimedOut(t, "close")
    <3>1. cmd = NoCommand /\ line = << >>
      BY <2>3, NeverEarly DEF TimedOut, ChannelInv
    <3>2. QED
      BY <1>1, <3>1 DEF Faultless, NothingLost, AnswersInTransit, Awaiting
  <2>4. QED
    BY <2>1, <2>2, <2>3 DEF CloseFails, GotNone, GotAnswer, Arrived
<1>5. /\ sockets' = [sockets EXCEPT ![own] = UnusedSocket]
      /\ handle' = [handle EXCEPT ![t] = NoSocket]
  BY <1>3, <1>4 DEF CloseDone, clear_socket
<1>6. /\ ~InUse(own)' /\ ~sockets'[own].callback
      /\ \A s \in Slots : s # own => sockets'[s] = sockets[s] /\ (InUse(s)' <=> InUse(s))
  <2>1. sockets'[own] = UnusedSocket /\ \A s \in Slots : s # own => sockets'[s] = sockets[s]
    BY <1>5 DEF ChannelInv, TypeInv, DataTypes
  <2>2. QED
    BY <2>1 DEF InUse, UnusedSocket
<1>7. \A s \in Slots : s # own /\ InUse(s) => modem[sockets[s].modem_handle].open
  <2>1. \A s \in Slots : s # own => ~Closing(s)
    BY <1>1, <1>3, OneWaits DEF Closing, Awaiting
  <2>2. QED
    BY <2>1 DEF Faultless, SlotsMatch, SlotsAreOpen
<1>8. HandlesDiffer'
  <2>1. SUFFICES ASSUME NEW r \in Slots, NEW s \in Slots, InUse(s)',
                        sockets'[r].modem_handle = sockets'[s].modem_handle
                 PROVE  r = s
    BY DEF HandlesDiffer
  <2>2. InUse(r)'
    BY <2>1 DEF InUse
  <2>3. QED
    BY <1>6, <2>1, <2>2 DEF Faultless, SlotsMatch, HandlesDiffer
<1>9. SlotsAreOpen'
  BY <1>1, <1>6, <1>7 DEF SlotsAreOpen
<1>10. SlotsAreOwned'
  <2>1. \A u \in Threads : u # t => handle'[u] = handle[u]
    BY <1>5 DEF ChannelInv, TypeInv, DataTypes
  <2>2. QED
    BY <1>3, <1>6, <2>1 DEF Faultless, SlotsMatch, SlotsAreOwned
<1>11. QED
  BY <1>1, <1>2, <1>8, <1>9, <1>10, AllHeard DEF Faultless, SlotsMatch

\* A command with the modem: its thread waits, and every slot in use is open.
LEMMA CommandUnderWay ==
  ASSUME ChannelInv, Faultless, cmd # NoCommand
  PROVE  /\ \A t \in Threads : pc[t] \in Awaiting => AwaitedCommand[pc[t]] = cmd.name
         /\ \A t \in Threads : pc[t] = "close" => cmd.name = "NSOCL" /\ handle[t] \in Slots
                                                  /\ cmd.handle = sockets[handle[t]].modem_handle
         /\ \A t \in Threads : pc[t] = "open" => cmd.name = "NSOCR"
         /\ cmd.name = "NSOCL" => \E t \in Threads : pc[t] = "close"
         /\ \A i \in DOMAIN line : line[i].type \notin Answers
         /\ \A s \in Slots : InUse(s) => IsOpen(sockets[s].modem_handle)
<1>1. PICK t \in Threads : pc[t] \in Awaiting /\ AwaitedCommand[pc[t]] = cmd.name
  BY AwaitedNames DEF ChannelInv, Alternation
<1>2. \A u \in Threads : pc[u] \in Awaiting => u = t
  BY <1>1, OneWaits
<1>3. AwaitedCommand["close"] = "NSOCL" /\ AwaitedCommand["open"] = "NSOCR"
      /\ \A l \in Awaiting : AwaitedCommand[l] = "NSOCL" => l = "close"
  BY DEF AwaitedCommand, Awaiting
<1>4. \A i \in DOMAIN line : line[i].type \notin Answers
  BY DEF ChannelInv, Alternation, AnswersInTransit
<1>5. \A s \in Slots : InUse(s) => IsOpen(sockets[s].modem_handle)
  BY SlotTypes DEF Faultless, SlotsMatch, SlotsAreOpen, Closing, IsOpen, InUse, ChannelInv
<1>6. \A u \in Threads : pc[u] = "close" => handle[u] \in Slots
                           /\ cmd.handle = sockets[handle[u]].modem_handle
  BY DEF Faultless, SlotsMatch, ClosesItsOwn, ChannelInv, TypeInv, OwnSlot
<1>7. QED
  BY <1>1, <1>2, <1>3, <1>4, <1>5, <1>6 DEF Awaiting

\* The modem says something: what its new line x and its sockets have to be.
LEMMA FaultlessSays ==
  ASSUME ChannelInv, Faultless, NEW x \in FitLine, line' = Append(line, x),
         UNCHANGED <<sockets, handle, pc>>, cmd' = cmd \/ cmd' = NoCommand,
         x.type \notin {"HEAD", "LATE"}, x.type = "ERROR" => \A t \in Threads : pc[t] # "close",
         x.type \in Answers \/ cmd' = cmd,
         SlotsAreOpen', x.type = "OK" => NewHandle(x.handle)' \/ \A t \in Threads : pc[t] # "open",
         \A h \in ModemHandles : modem[h].open => modem'[h].open \/ \A t \in Threads : pc[t] # "open"
  PROVE  Faultless'
<1>a. line \in Seq(FitLine)
  BY DEF ChannelInv, TypeInv, DataTypes
<1>b. /\ \A i \in DOMAIN line' : (i \in DOMAIN line /\ line'[i] = line[i]) \/ line'[i] = x
      /\ \A i \in DOMAIN line : i \in DOMAIN line' /\ line'[i] = line[i]
      /\ Len(line) + 1 \in DOMAIN line' /\ line'[Len(line) + 1] = x
  BY <1>a, LinesAfterAppend
<1>1. NothingLost'
  <2>1. AnswersInTransit # {} => AnswersInTransit' # {}
    BY <1>b DEF AnswersInTransit
  <2>2. x.type \in Answers => AnswersInTransit' # {}
    BY <1>b DEF AnswersInTransit
  <2>3. \A t \in Threads : pc'[t] \in Awaiting => cmd' # NoCommand \/ AnswersInTransit' # {}
    BY <2>1, <2>2 DEF Faultless, NothingLost
  <2>4. QED
    BY <1>b, <2>3 DEF Faultless, NothingLost
<1>2. HandlesDiffer'
  BY DEF Faultless, SlotsMatch, HandlesDiffer, InUse
<1>3. SlotsAreOwned'
  BY DEF Faultless, SlotsMatch, SlotsAreOwned, InUse
<1>4. ClosesItsOwn'
  BY DEF Faultless, SlotsMatch, ClosesItsOwn
<1>5. OpensNew'
  <2>1. SUFFICES ASSUME NEW t \in Threads, pc[t] = "open",
                        NEW i \in DOMAIN line', line'[i].type = "OK",
                        NEW k, k = line'[i].handle
                 PROVE  NewHandle(k)'
    BY DEF OpensNew, NewHandle
  <2>2. CASE line'[i] = x
    BY <2>1, <2>2
  <2>3. CASE i \in DOMAIN line /\ line'[i] = line[i]
    <3>1. line[i] \in FitLine /\ line[i].handle = k /\ line[i].type = "OK"
      BY <1>a, <2>1, <2>3
    <3>2. NewHandle(k) /\ k \in ModemHandles
      BY <2>1, <2>3, <3>1 DEF Faultless, SlotsMatch, OpensNew, FitLine
    <3>3. QED
      BY <2>1, <3>2 DEF NewHandle
  <2>4. QED
    BY <1>b, <2>1, <2>2, <2>3
<1>6. QED
  BY <1>1, <1>2, <1>3, <1>4, <1>5 DEF Faultless, SlotsMatch

LEMMA FaultlessExecutes ==
  ASSUME ChannelInv, Faultless, ModemExecutes, faults' = faults
  PROVE  Faultless'
<1> USE DEF tableVars, threadVars
<1>1. PICK a \in AnswerLines : CarryOut(a) /\ line' = Append(line, a)
  <2>1. faults \in Int
    BY NumbersGiven DEF ChannelInv, TypeInv, DataTypes
  <2>2. QED
    BY <2>1 DEF ModemExecutes
<1>2. cmd # NoCommand /\ cmd' = NoCommand /\ UNCHANGED <<sockets, handle, pc>>
  BY DEF ModemExecutes
<1>3. a \in FitLine /\ a.type \in {"OK", "EMPTY"} /\ a.type \in Answers
  BY DEF AnswerLines, FitLine, LineItem, Answers
<1>4. modem \in [ModemHandles -> ModemSocket]
  BY DEF ChannelInv, TypeInv, DataTypes
<1>5. \A s \in Slots : InUse(s) => IsOpen(sockets[s].modem_handle)
  BY <1>2, CommandUnderWay
<1>6. CASE cmd.name = "NSOCR"
  <2>1. PICK h \in ModemHandles :
          ~modem[h].open /\ modem' = [modem EXCEPT ![h].open = TRUE] /\ a = Answer("OK", h, 0)
    BY <1>1, <1>6 DEF CarryOut
  <2>2. modem'[h].open /\ \A k \in ModemHandles : modem[k].open => modem'[k].open
    BY <1>4, <2>1 DEF ModemSocket
  <2>3. \A s \in Slots : sockets[s].modem_handle # h
    BY <1>5, <2>1, NumbersGiven DEF InUse, IsOpen
  <2>4. NewHandle(a.handle)'
    BY <1>2, <2>1, <2>2, <2>3 DEF NewHandle, Answer, Line
  <2>5. SlotsAreOpen'
    BY <1>2, <1>5, <2>2 DEF SlotsAreOpen, IsOpen, InUse
  <2>6. QED
    BY <1>1, <1>2, <1>3, <2>2, <2>4, <2>5, FaultlessSays
<1>7. CASE cmd.name = "NSOCL"
  <2>1. /\ cmd.handle \in ModemHandles
        /\ modem' = [modem EXCEPT ![cmd.handle] = ClosedSocket]
    BY <1>1, <1>7 DEF CarryOut, IsOpen
  <2>2. PICK t \in Threads : /\ pc[t] = "close" /\ handle[t] \in Slots
                             /\ cmd.handle = sockets[handle[t]].modem_handle
    BY <1>2, <1>7, CommandUnderWay
  <2>3. \A k \in ModemHandles : k # cmd.handle => modem'[k] = modem[k]
    BY <1>4, <2>1
  <2>4. SlotsAreOpen'
    <3>1. SUFFICES ASSUME NEW s \in Slots, InUse(s)
                   PROVE  modem'[sockets[s].modem_handle].open \/ Closing(s)'
      BY <1>2 DEF SlotsAreOpen, InUse
    <3>2. CASE sockets[s].modem_handle # cmd.handle
      BY <1>5, <2>3, <3>1, <3>2 DEF IsOpen
    <3>3. CASE sockets[s].modem_handle = cmd.handle
      <4>1. handle[t] = s
        BY <2>2, <3>1, <3>3 DEF Faultless, SlotsMatch, HandlesDiffer
      <4>2. QED
        BY <1>2, <2>2, <4>1 DEF Closing
    <3>4. QED
      BY <3>2, <3>3
  <2>5. \A u \in Threads : pc[u] # "open"
    BY <1>2, <1>7, CommandUnderWay
  <2>6. QED
    BY <1>1, <1>2, <1>3, <2>4, <2>5, FaultlessSays
<1>8. CASE cmd.name \notin {"NSOCR", "NSOCL"}
  <2>1. \A u \in Threads : pc[u] # "open"
    BY <1>2, <1>8, CommandUnderWay
  <2>2. \A k \in ModemHandles : modem'[k].open = modem[k].open
    <3>1. \/ modem' = modem
          \/ \E ds : modem' = [modem EXCEPT ![cmd.handle].waiting = ds]
      BY <1>1, <1>8 DEF CarryOut
    <3>2. QED
      BY <1>4, <3>1 DEF ModemSocket
  <2>3. SlotsAreOpen'
    BY <1>2, <1>5, <2>2 DEF SlotsAreOpen, IsOpen, InUse
  <2>4. QED
    BY <1>1, <1>2, <1>3, <2>1, <2>2, <2>3, FaultlessSays
<1>9. QED
  BY <1>6, <1>7, <1>8

LEMMA FaultlessRefuses ==
  ASSUME ChannelInv, Faultless, ModemRefuses, faults' = faults
  PROVE  Faultless'
<1> USE DEF tableVars, threadVars
<1>1. /\ CannotCarryOut /\ line' = Append(line, Answer("ERROR", cmd.handle, 0))
      /\ cmd # NoCommand /\ cmd' = NoCommand /\ UNCHANGED <<sockets, handle, pc, modem>>
  <2>1. faults \in Int
    BY NumbersGiven DEF ChannelInv, TypeInv, DataTypes
  <2>2. QED
    BY <2>1 DEF ModemRefuses
<1>2. Answer("ERROR", cmd.handle, 0) \in FitLine
  BY NumbersGiven
  DEF Answer, Line, FitLine, LineItem, Answers, ChannelInv, TypeInv, DataTypes, Command, Lengths
<1>3. \A s \in Slots : InUse(s) => IsOpen(sockets[s].modem_handle)
  BY <1>1, CommandUnderWay
<1>4. \A t \in Threads : pc[t] # "close"
  <2>1. SUFFICES ASSUME NEW t \in Threads, pc[t] = "close"
                 PROVE  FALSE
    OBVIOUS
  <2>2. /\ cmd.name = "NSOCL" /\ handle[t] \in Slots
        /\ cmd.handle = sockets[handle[t]].modem_handle
    BY <1>1, <2>1, CommandUnderWay
  <2>3. InUse(handle[t])
    BY <2>1, <2>2 DEF ChannelInv, TypeInv, OwnSlot
  <2>4. QED
    BY <1>1, <1>3, <2>2, <2>3 DEF CannotCarryOut
<1>5. SlotsAreOpen'
  BY <1>1, <1>3 DEF SlotsAreOpen, IsOpen, InUse
<1>6. QED
  BY <1>1, <1>2, <1>4, <1>5, FaultlessSays DEF Answer, Line, Answers

LEMMA FaultlessArrives ==
  ASSUME ChannelInv, Faultless, NEW h \in ModemHandles, DatagramArrives(h)
  PROVE  Faultless'
<1> USE DEF tableVars, threadVars
<1>1. PICK n \in 1..MaxLength :
        /\ line' = Append(line, Line("NSONMI", "none", h, n))
        /\ modem' = [modem EXCEPT ![h].waiting = Append(@, n)]
  BY DEF DatagramArrives, NoCommand
<1>2. UNCHANGED <<sockets, handle, pc, cmd>>
  BY DEF DatagramArrives
<1>3. Line("NSONMI", "none", h, n) \in FitLine
  BY NumbersGiven DEF Line, FitLine, LineItem, Lengths
<1>4. \A k \in ModemHandles : modem'[k].open = modem[k].open
  BY <1>1 DEF ChannelInv, TypeInv, DataTypes, ModemSocket
<1>5. SlotsAreOpen'
  <2>1. \A s \in Slots : InUse(s) => sockets[s].modem_handle \in ModemHandles
    BY SlotTypes DEF InUse, ChannelInv
  <2>2. QED
    BY <1>2, <1>4, <2>1 DEF Faultless, SlotsMatch, SlotsAreOpen, InUse, Closing
<1>6. QED
  BY <1>1, <1>2, <1>3, <1>4, <1>5, FaultlessSays DEF Line, Answers

LEMMA FaultlessThread ==
  ASSUME ChannelInv, TypeInv', ~hasty', Faultless, NEW t \in Threads,
         StartCall(t) \/ ContinueCall(t) \/ TakeTurn(t) \/ TimerExpires(t)
  PROVE  Faultless'
<1> USE DEF threadVars, tableVars, lockVars, modemVars, timeoutVars
<1>a. /\ TypeInv /\ {"idle", "sendLoop", "sendLock", "recvLoop", "recvWait"} \subseteq PCs
      /\ pc[t] # "idle" => handle[t] \in Slots
      /\ sockets \in [Slots -> SockCtrl] /\ pc \in [Actors -> PCs] /\ t \in Actors
  BY DEF ChannelInv, TypeInv, DataTypes, OwnSlot, PCs, InRecv, ControlInv, Actors
<1>1. ASSUME NEW l, Goto(t, l), l \notin Awaiting, pc[t] \notin Awaiting
      PROVE  \A u \in Threads : pc'[u] = pc[u] \/ (pc[u] \notin Awaiting /\ pc'[u] \notin Awaiting)
  BY <1>1, <1>a DEF Goto, Actors
<1>2. CASE socket_open(t) \/ socket_close(t) \/ SendBlock(t) \/ RecvRead(t)
  <2>1. PICK l \in Awaiting :
          /\ Goto(t, l) /\ cmd'.name = AwaitedCommand[l]
          /\ l = "close" => cmd'.handle = sockets[handle[t]].modem_handle /\ handle' = handle
    BY <1>2 DEF socket_open, socket_close, SendBlock, RecvRead, BeginTurn, Send, AwaitedCommand, Awaiting
  <2>2. mtx \in {Nobody, t} /\ UNCHANGED <<line, sockets, modem>> /\ pc[t] \notin InRecv
    BY <1>2
    DEF socket_open, socket_close, SendBlock, RecvRead, BeginTurn, BeginCall, LOCK, InRecv
  <2>3. Asks(t, l)
    BY <2>1, <2>2, Silence DEF Asks, AnswersInTransit
  <2>4. \/ handle' = handle
        \/ handle[t] = NoSocket /\ \E s \in Slots : handle' = [handle EXCEPT ![t] = s]
    BY <1>2 DEF socket_open, socket_close, SendBlock, RecvRead, BeginTurn
  <2>5. QED
    BY <2>1, <2>2, <2>3, <2>4, FaultlessAsk
<1>3. CASE \/ OpenNoMemory(t) \/ socket_sendto(t) \/ socket_recvfrom(t) \/ SendNoBuffer(t)
           \/ SendBuffer(t) \/ RecvNoBuffer(t) \/ RecvWait(t) \/ RecvReturns(t)
  <2>1. pc[t] \in {"idle", "sendLoop", "recvLoop"}
    BY <1>3
    DEF OpenNoMemory, socket_sendto, socket_recvfrom, BeginCall, SendNoBuffer, SendBuffer, RecvNoBuffer,
        RecvWait, BeginTurn, RecvReturns
  <2>2. PICK l \in {"idle", "sendLoop", "sendLock", "recvLoop", "recvWait"} : Goto(t, l)
    BY <1>3
    DEF OpenNoMemory, socket_sendto, socket_recvfrom, SendNoBuffer, SendBuffer, RecvNoBuffer, RecvWait,
        RecvReturns, Return
  <2>3. UNCHANGED <<sockets, handle, cmd, line, modem>>
    BY <1>3
    DEF OpenNoMemory, socket_sendto, socket_recvfrom, SendNoBuffer, SendBuffer, RecvNoBuffer, RecvWait,
        BeginTurn, RecvReturns
  <2>4. QED
    BY <1>1, <2>1, <2>2, <2>3, FaultlessOutside DEF Awaiting
<1>4. CASE socket_attach(t)
  <2>1. PICK set \in BOOLEAN : sockets' = [sockets EXCEPT ![handle[t]].callback = set]
    BY <1>4 DEF socket_attach
  <2>2. handle[t] \in Slots /\ InUse(handle[t])
    BY <1>4, <1>a DEF socket_attach, TypeInv, DataTypes, OwnSlot
  <2>3. \A s \in Slots : /\ sockets'[s].modem_handle = sockets[s].modem_handle
                         /\ sockets'[s].callback => sockets[s].callback \/ InUse(s)
    BY <1>a, <2>1, <2>2 DEF SockCtrl
  <2>4. UNCHANGED <<handle, pc, cmd, line, modem>>
    BY <1>4 DEF socket_attach
  <2>5. QED
    BY <2>3, <2>4, FaultlessOutside
<1>5. CASE TimerExpires(t)
  <2>1. UNCHANGED <<sockets, handle, pc, cmd, line, modem>>
    BY <1>5 DEF TimerExpires
  <2>2. QED
    BY <2>1, FaultlessOutside
<1>6. CASE RecvWaited(t)
  <2>1. /\ Goto(t, "recvLoop") /\ pc[t] = "recvWait" /\ mtx = t /\ NothingMore
        /\ UNCHANGED <<sockets, handle, cmd, modem>>
    BY <1>6 DEF RecvWaited, Receiving, EndTurn
  <2>2. line' = line
    BY <1>a, <2>1, NothingComes DEF Awaiting
  <2>3. QED
    BY <1>1, <2>1, <2>2, FaultlessOutside DEF Awaiting
<1>7. CASE OpenCreated(t) \/ OpenFails(t) \/ CloseDone(t) \/ CloseFails(t)
  BY <1>7, FaultlessHearOpen, FaultlessHearClose
<1>8. CASE SendGot(t) \/ SendFails(t) \/ RecvGot(t) \/ RecvSizeUnread(t) \/ RecvFails(t)
  <2>1. /\ UNCHANGED <<handle, cmd, modem>>
        /\ \E l \in {"sendWait", "recvRead"}, types \in SUBSET Answers :
             GotAnswer(t, l, types) \/ GotNone(t, l, types)
    BY <1>8
    DEF SendGot, SendFails, RecvGot, RecvSizeUnread, RecvFails, EndExchange, EndTurn, Answers
  <2>2. /\ pc[t] \in {"sendWait", "recvRead"}
        /\ line' = line \/ (line # << >> /\ line' = Tail(line))
        /\ cmd = NoCommand /\ AnswersInTransit' = {}
    BY <2>1, HeardBy DEF GotAnswer, GotNone, TimedOut, Receiving, Arrived, Awaiting
  <2>3. PICK l \in {"idle", "sendLoop"} : Goto(t, l)
    BY <1>8 DEF SendGot, SendFails, RecvGot, RecvSizeUnread, RecvFails, EndExchange, Return
  <2>4. Hears(t, l) /\ l \in PCs
    BY <1>a, <2>1, <2>2, <2>3 DEF Hears, Awaiting
  <2>5. \A s \in Slots : /\ sockets'[s].modem_handle = sockets[s].modem_handle
                         /\ sockets'[s].callback = sockets[s].callback
    <3>1. \/ sockets' = sockets
          \/ sockets' = [sockets EXCEPT ![handle[t]].pending = @ - call[t].blk]
      BY <1>8 DEF SendGot, SendFails, RecvGot, RecvSizeUnread, RecvFails
    <3>2. QED
      BY <1>a, <3>1 DEF SockCtrl
  <2>6. QED
    BY <2>1, <2>2, <2>4, <2>5, FaultlessHearData
<1>9. QED
  BY <1>2, <1>3, <1>4, <1>5, <1>6, <1>7, <1>8 DEF StartCall, ContinueCall, TakeTurn

\* Faults are used up and never come back.
LEMMA FaultlessStep == ChannelInv /\ TypeInv' /\ FaultlessInv /\ [Next]_vars => FaultlessInv'
<1> SUFFICES ASSUME ChannelInv, TypeInv', FaultlessInv, [Next]_vars, faults' = MaxFaults
             PROVE  Faultless'
  BY DEF FaultlessInv
<1> USE DEF threadVars, tableVars, lockVars, modemVars, timeoutVars
<1>1. faults' = faults /\ faults = MaxFaults /\ Faultless /\ ~hasty'
  BY FaultsLeft DEF FaultlessInv, ChannelInv
<1>2. ASSUME NEW a \in Actors, NSONMI_URC(a)
      PROVE  Faultless'
  <2>1. /\ UNCHANGED <<handle, pc, cmd, modem>>
        /\ line # << >> /\ Head(line).type = "NSONMI" /\ line' = Tail(line)
    BY <1>2 DEF NSONMI_URC, HandleURC, Arrived
  <2>2. \A s \in Slots : /\ sockets'[s].modem_handle = sockets[s].modem_handle
                         /\ sockets'[s].callback = sockets[s].callback
    <3>1. \/ sockets' = sockets
          \/ \E s \in Slots : sockets' = [sockets EXCEPT ![s].pending = @ + Head(line).n]
      BY <1>2 DEF NSONMI_URC
    <3>2. QED
      BY <3>1 DEF ChannelInv, TypeInv, DataTypes, SockCtrl
  <2>3. QED
    BY <1>1, <2>1, <2>2, FaultlessOutside
<1>3. CASE EventBegin \/ EventEnd
  <2>1. \A t \in Threads : pc'[t] = pc[t]
    BY <1>3, NumbersGiven DEF EventBegin, EventEnd, Goto, ChannelInv, TypeInv, ControlInv, Actors
  <2>2. UNCHANGED <<sockets, handle, cmd, modem>>
    BY <1>3 DEF EventBegin, EventEnd
  <2>3. line' = line
    <3>1. CASE EventBegin
      BY <3>1 DEF EventBegin
    <3>2. CASE EventEnd
      <4>1. EventThread \in Actors /\ pc[EventThread] \notin Awaiting /\ mtx = EventThread
        BY <3>2 DEF EventEnd, Receiving, Actors, Awaiting
      <4>2. QED
        BY <3>2, <4>1, NothingComes DEF EventEnd
    <3>3. QED
      BY <1>3, <3>1, <3>2
  <2>4. QED
    BY <1>1, <2>1, <2>2, <2>3, FaultlessOutside
<1>4. CASE UNCHANGED vars
  BY <1>1, <1>4, FaultlessOutside DEF vars
<1>5. QED
  BY <1>1, <1>2, <1>3, <1>4, FaultlessThread, FaultlessExecutes, FaultlessRefuses, FaultlessArrives,
     NothingSkipped
  DEF Next

\* Before the first fault nothing was given up early, so ChannelInv holds.
LEMMA UntilAFault ==
  ASSUME DriverInv, faults = MaxFaults
  PROVE  ChannelInv
BY DEF DriverInv, ChannelInv, AnswersReachTheirCaller, HastyInv

LEMMA FaultlessAlways == Spec => [](DriverInv /\ FaultlessInv)
<1>1. DriverInv /\ DriverInv' /\ FaultlessInv /\ [Next]_vars => FaultlessInv'
  <2>1. SUFFICES ASSUME DriverInv, DriverInv', FaultlessInv, [Next]_vars, faults' = MaxFaults
                 PROVE  FaultlessInv'
    BY DEF FaultlessInv
  <2>2. ChannelInv /\ TypeInv'
    BY <2>1, FaultsLeft, UntilAFault DEF DriverInv
  <2>3. QED
    BY <2>1, <2>2, FaultlessStep
<1>2. QED
  BY <1>1, DriverInvAlways, FaultlessInit, PTL DEF Spec

\* HandlesUnique: find_socket() is never ambiguous until an answer is lost: a
\* socket the modem opens anew has a handle that no slot still holds.
THEOREM HandlesAreUnique == Spec => []HandlesUnique
<1>1. FaultlessInv => HandlesUnique
  BY DEF FaultlessInv, Faultless, SlotsMatch, HandlesDiffer, HandlesUnique, InUse
<1>2. QED
  BY <1>1, FaultlessAlways, PTL

\* CallbackHasOwner: until an answer is lost, a slot that has a callback is one
\* the application has the handle of.
THEOREM CallbacksHaveOwners == Spec => []CallbackHasOwner
<1>1. FaultlessInv => CallbackHasOwner
  BY DEF FaultlessInv, Faultless, SlotsMatch, SlotsAreOwned, CallbackHasOwner
<1>2. QED
  BY <1>1, FaultlessAlways, PTL

(***************************************************************************)
(* Total.  The induction is that of a set of numbers without a least       *)
(* element; Sums says what the partial sums of a sequence are.             *)
(***************************************************************************)

LEMMA NatSetInduction ==
  ASSUME NEW S \in SUBSET Nat, 0 \in S, \A n \in S : n + 1 \in S
  PROVE  S = Nat
<1> DEFINE Less == OpToRel(<, Nat)
           T == Nat \ S
<1>1. IsWellFoundedOn(Less, Nat)
  BY NatLessThanWellFounded
<1>2. \A x, y \in Nat : y < x => <<y, x>> \in Less
  BY DEF OpToRel
<1> HIDE DEF Less
<1>3. SUFFICES ASSUME T # {}
               PROVE  FALSE
  OBVIOUS
<1>4. PICK x \in T : \A y \in T : ~(<<y, x>> \in Less)
  BY <1>1, <1>3, WFMin
<1>5. x \in Nat /\ x # 0 /\ x - 1 \in Nat /\ x - 1 < x
  BY <1>4
<1>6. x - 1 \in S
  BY <1>2, <1>4, <1>5
<1>7. QED
  BY <1>4, <1>5, <1>6

\* f[i] is the sum of the first i members of ns.
Sums(f, ns) == f[0] = 0 /\ \A i \in 1..Len(ns) : f[i] = f[i - 1] + ns[i]

\* Sums exist as far as any n.
SumsUpTo(f, ns, n) == f[0] = 0 /\ \A i \in 1..n : f[i] = f[i - 1] + ns[i]

LEMMA SumsExist ==
  ASSUME NEW ns \in Seq(Int)
  PROVE  \E f \in [0..Len(ns) -> Int] : Sums(f, ns)
<1> DEFINE S == {n \in Nat : n <= Len(ns) => \E f \in [0..n -> Int] : SumsUpTo(f, ns, n)}
<1>1. 0 \in S
  <2> DEFINE g == [i \in 0..0 |-> 0]
  <2>1. g \in [0..0 -> Int] /\ g[0] = 0
    OBVIOUS
  <2>2. SumsUpTo(g, ns, 0)
    BY <2>1 DEF SumsUpTo
  <2>3. QED
    BY <2>1, <2>2
<1>2. ASSUME NEW n \in S
      PROVE  n + 1 \in S
  <2>1. SUFFICES ASSUME n + 1 <= Len(ns)
                 PROVE  \E f \in [0..n + 1 -> Int] : SumsUpTo(f, ns, n + 1)
    OBVIOUS
  <2>2. n \in Nat /\ n <= Len(ns) /\ n + 1 \in 1..Len(ns) /\ ns[n + 1] \in Int
    BY <2>1
  <2>3. PICK f \in [0..n -> Int] : SumsUpTo(f, ns, n)
    BY <2>2
  <2> DEFINE g == [i \in 0..n + 1 |-> IF i = n + 1 THEN f[n] + ns[n + 1] ELSE f[i]]
  <2>4. g \in [0..n + 1 -> Int]
    BY <2>2, <2>3
  <2>5. g[0] = 0 /\ g[n + 1] = g[n] + ns[n + 1] /\ \A i \in 1..n : g[i] = f[i] /\ g[i - 1] = f[i - 1]
    BY <2>2, <2>3 DEF SumsUpTo
  <2>6. SumsUpTo(g, ns, n + 1)
    <3> HIDE DEF g
    <3>1. SUFFICES ASSUME NEW i \in 1..n + 1
                   PROVE  g[i] = g[i - 1] + ns[i]
      BY <2>5 DEF SumsUpTo
    <3>2. CASE i = n + 1
      BY <2>2, <2>5, <3>2
    <3>3. CASE i \in 1..n
      BY <2>3, <2>5, <3>3 DEF SumsUpTo
    <3>4. QED
      BY <2>2, <3>2, <3>3
  <2>7. QED
    BY <2>4, <2>6
<1>3. S = Nat
  <2>1. S \in SUBSET Nat
    OBVIOUS
  <2> HIDE DEF S
  <2>2. QED
    BY <1>1, <1>2, <2>1, NatSetInduction
<1>4. Len(ns) \in S
  BY <1>3
<1>5. QED
  BY <1>4 DEF Sums, SumsUpTo

\* They are the only ones.
LEMMA SumsAreUnique ==
  ASSUME NEW ns \in Seq(Int), NEW f, NEW g, Sums(f, ns), Sums(g, ns)
  PROVE  \A i \in 0..Len(ns) : f[i] = g[i]
<1> DEFINE S == {n \in Nat : n <= Len(ns) => f[n] = g[n]}
<1>1. 0 \in S
  BY DEF Sums
<1>2. ASSUME NEW n \in S
      PROVE  n + 1 \in S
  BY DEF Sums
<1>3. S \in SUBSET Nat
  OBVIOUS
<1>4. S = Nat
  <2> HIDE DEF S
  <2>1. QED
    BY <1>1, <1>2, <1>3, NatSetInduction
<1>5. QED
  BY <1>4

\* Total is the last of them.
LEMMA TotalIs ==
  ASSUME NEW ns \in Seq(Int), NEW f, Sums(f, ns)
  PROVE  Total(ns) = f[Len(ns)]
<1> DEFINE upto == CHOOSE u : u = [i \in 0..Len(ns) |-> IF i = 0 THEN 0 ELSE u[i - 1] + ns[i]]
<1>1. PICK g \in [0..Len(ns) -> Int] : Sums(g, ns)
  BY SumsExist
<1>2. g = [i \in 0..Len(ns) |-> IF i = 0 THEN 0 ELSE g[i - 1] + ns[i]]
  BY <1>1 DEF Sums
<1>3. upto = [i \in 0..Len(ns) |-> IF i = 0 THEN 0 ELSE upto[i - 1] + ns[i]]
  BY <1>2
<1>4. Total(ns) = upto[Len(ns)]
  BY DEF Total
<1> HIDE DEF upto
<1>5. Sums(upto, ns)
  BY <1>3 DEF Sums
<1>6. QED
  BY <1>4, <1>5, SumsAreUnique

\* What Total makes of the empty sequence, of one more member at the end, and
\* of the first one taken away.
LEMMA TotalEmpty == Total(<< >>) = 0
<1> DEFINE f == [i \in {0} |-> 0]
<1>1. << >> \in Seq(Int) /\ Len(<< >>) = 0
  OBVIOUS
<1>2. Sums(f, << >>) /\ f[0] = 0
  BY <1>1 DEF Sums
<1> HIDE DEF f
<1>3. Total(<< >>) = f[Len(<< >>)]
  BY <1>1, <1>2, TotalIs
<1>4. QED
  BY <1>1, <1>2, <1>3

LEMMA TotalAppend ==
  ASSUME NEW ns \in Seq(Int), NEW n \in Int
  PROVE  Total(Append(ns, n)) = Total(ns) + n
<1> DEFINE ms == Append(ns, n)
<1>1. ms \in Seq(Int) /\ Len(ms) = Len(ns) + 1 /\ ms[Len(ms)] = n
      /\ \A i \in 1..Len(ns) : ms[i] = ns[i]
  OBVIOUS
<1> HIDE DEF ms
<1>2. PICK f \in [0..Len(ms) -> Int] : Sums(f, ms)
  BY <1>1, SumsExist
<1>3. Sums(f, ns)
  BY <1>1, <1>2 DEF Sums
<1>4. f[Len(ms)] = f[Len(ns)] + n
  BY <1>1, <1>2 DEF Sums
<1>5. Total(ms) = Total(ns) + n
  BY <1>1, <1>2, <1>3, <1>4, TotalIs
<1>6. QED
  BY <1>5 DEF ms

LEMMA TotalTail ==
  ASSUME NEW ns \in Seq(Int), ns # << >>
  PROVE  Total(ns) = Head(ns) + Total(Tail(ns))
<1> DEFINE ms == Tail(ns)
<1>1. ms \in Seq(Int) /\ Len(ns) = Len(ms) + 1 /\ Head(ns) = ns[1] /\ ns[1] \in Int
      /\ \A i \in 1..Len(ms) : ms[i] = ns[i + 1]
  OBVIOUS
<1> HIDE DEF ms
<1>2. PICK f \in [0..Len(ns) -> Int] : Sums(f, ns)
  BY SumsExist
<1> DEFINE g == [i \in 0..Len(ms) |-> f[i + 1] - ns[1]]
<1>3. /\ Len(ms) \in Nat /\ g[Len(ms)] = f[Len(ns)] - ns[1] /\ f[Len(ns)] \in Int
      /\ \A i \in 0..Len(ns) : f[i] \in Int
  <2>1. Len(ms) \in Nat
    BY <1>1
  <2>2. Len(ms) \in 0..Len(ms) /\ Len(ms) + 1 = Len(ns) /\ Len(ns) \in 0..Len(ns)
    BY <1>1, <2>1
  <2>3. g[Len(ms)] = f[Len(ns)] - ns[1]
    BY <2>2
  <2>4. QED
    BY <1>2, <2>1, <2>2, <2>3
<1>4. Sums(g, ms)
  <2>1. f[0] = 0 /\ f[1] = f[0] + ns[1]
    BY <1>1, <1>2, <1>3 DEF Sums
  <2>2. g[0] = f[1] - ns[1]
    BY <1>3
  <2>3. ASSUME NEW i \in 1..Len(ms)
        PROVE  g[i] = g[i - 1] + ms[i]
    <3>1. /\ i \in 0..Len(ms) /\ i - 1 \in 0..Len(ms) /\ i + 1 \in 1..Len(ns)
          /\ i + 1 - 1 = i /\ i - 1 + 1 = i /\ i \in 0..Len(ns) /\ i + 1 \in 0..Len(ns)
      BY <1>1, <1>3
    <3>2. g[i] = f[i + 1] - ns[1] /\ g[i - 1] = f[i] - ns[1]
      BY <3>1
    <3>3. f[i + 1] = f[i] + ns[i + 1] /\ ms[i] = ns[i + 1]
      <4>1. f[i + 1] = f[i + 1 - 1] + ns[i + 1]
        BY <1>2, <3>1 DEF Sums
      <4>2. QED
        BY <1>1, <3>1, <4>1
    <3>4. f[i] \in Int /\ f[i + 1] \in Int /\ ns[i + 1] \in Int /\ ns[1] \in Int
      BY <1>1, <1>3, <3>1
    <3> HIDE DEF g
    <3>5. QED
      BY <3>2, <3>3, <3>4
  <2> HIDE DEF g
  <2>4. g[0] = 0
    BY <1>1, <2>1, <2>2
  <2>5. QED
    BY <2>3, <2>4 DEF Sums
<1> HIDE DEF g
<1>5. Total(ms) = f[Len(ns)] - ns[1]
  BY <1>1, <1>3, <1>4, TotalIs
<1>6. Total(ns) = f[Len(ns)]
  BY <1>2, TotalIs
<1>7. Total(ns) = Head(ns) + Total(ms)
  BY <1>1, <1>3, <1>5, <1>6
<1>8. QED
  BY <1>7 DEF ms

\* Sums of numbers that are not negative, and of zeros.
LEMMA TotalNat ==
  ASSUME NEW ns \in Seq(Nat)
  PROVE  Total(ns) \in Nat /\ ((\A i \in DOMAIN ns : ns[i] = 0) => Total(ns) = 0)
<1>1. ns \in Seq(Int) /\ Len(ns) \in Nat /\ \A i \in 1..Len(ns) : ns[i] \in Nat /\ i \in DOMAIN ns
  OBVIOUS
<1>2. PICK f \in [0..Len(ns) -> Int] : Sums(f, ns)
  BY <1>1, SumsExist
<1> DEFINE S == {n \in Nat : n <= Len(ns) =>
                   f[n] \in Nat /\ ((\A i \in DOMAIN ns : ns[i] = 0) => f[n] = 0)}
<1>3. 0 \in S
  BY <1>2 DEF Sums
<1>4. ASSUME NEW n \in S
      PROVE  n + 1 \in S
  <2>1. SUFFICES ASSUME n + 1 <= Len(ns)
                 PROVE  f[n + 1] \in Nat /\ ((\A i \in DOMAIN ns : ns[i] = 0) => f[n + 1] = 0)
    OBVIOUS
  <2>2. n + 1 \in 1..Len(ns) /\ n + 1 - 1 = n /\ n <= Len(ns) /\ n \in Nat
    BY <1>1, <2>1
  <2>3. f[n + 1] = f[n] + ns[n + 1]
    BY <1>2, <2>2 DEF Sums
  <2>4. QED
    BY <1>1, <2>2, <2>3
<1>5. S \in SUBSET Nat
  OBVIOUS
<1>6. S = Nat
  <2> HIDE DEF S
  <2>1. QED
    BY <1>3, <1>4, <1>5, NatSetInduction
<1>7. QED
  BY <1>1, <1>2, <1>6, TotalIs

(***************************************************************************)
(* BytesInTransit, when a line is read or one more is sent.                *)
(***************************************************************************)

BytesOfLines(type, h) == [i \in DOMAIN line |-> BytesOf(line[i], type, h)]

LEMMA BytesOfTypes ==
  ASSUME line \in Seq(FitLine), NEW type, NEW h
  PROVE  /\ BytesOfLines(type, h) \in Seq(Nat)
         /\ Len(BytesOfLines(type, h)) = Len(line)
         /\ \A i \in 1..Len(line) : BytesOfLines(type, h)[i] = BytesOf(line[i], type, h)
         /\ \A x \in FitLine : BytesOf(x, type, h) \in Nat
         /\ BytesInTransit(type, h) = Total(BytesOfLines(type, h))
         /\ BytesInTransit(type, h) \in Nat
<1>1. \A x \in FitLine : BytesOf(x, type, h) \in Nat
  BY NumbersGiven DEF FitLine, LineItem, Lengths, BytesOf
<1>2. DOMAIN line = 1..Len(line) /\ Len(line) \in Nat /\ \A i \in 1..Len(line) : line[i] \in FitLine
  OBVIOUS
<1>3. BytesOfLines(type, h) = [i \in 1..Len(line) |-> BytesOf(line[i], type, h)]
  BY <1>2 DEF BytesOfLines
<1>4. \A i \in 1..Len(line) : BytesOf(line[i], type, h) \in Nat
  BY <1>1, <1>2
<1>5. /\ BytesOfLines(type, h) \in Seq(Nat)
      /\ Len(BytesOfLines(type, h)) = Len(line)
      /\ \A i \in 1..Len(line) : BytesOfLines(type, h)[i] = BytesOf(line[i], type, h)
  BY <1>2, <1>3, <1>4
<1>6. BytesInTransit(type, h) = Total(BytesOfLines(type, h))
  BY DEF BytesInTransit, BytesOfLines
<1>7. QED
  BY <1>1, <1>5, <1>6, TotalNat

LEMMA BytesAfterTail ==
  ASSUME line \in Seq(FitLine), line # << >>, line' = Tail(line), NEW type, NEW h
  PROVE  BytesInTransit(type, h) = BytesOf(Head(line), type, h) + BytesInTransit(type, h)'
<1> DEFINE bs == BytesOfLines(type, h)
           cs == [i \in DOMAIN line' |-> BytesOf(line'[i], type, h)]
<1>1. /\ bs \in Seq(Nat) /\ Len(bs) = Len(line) /\ BytesInTransit(type, h) = Total(bs)
      /\ \A i \in 1..Len(line) : bs[i] = BytesOf(line[i], type, h)
  BY BytesOfTypes
<1>2. /\ Tail(line) \in Seq(FitLine) /\ Len(line) \in Nat \ {0} /\ Head(line) = line[1]
      /\ DOMAIN line' = 1..Len(line) - 1
      /\ \A i \in 1..Len(line) - 1 : line'[i] = line[i + 1] /\ i + 1 \in 1..Len(line)
  OBVIOUS
<1>3. cs = [i \in 1..Len(line) - 1 |-> BytesOf(line[i + 1], type, h)]
  BY <1>2
<1>4. BytesInTransit(type, h)' = Total(cs)
  BY DEF BytesInTransit
<1> HIDE DEF bs, cs
<1>5. /\ Head(bs) = bs[1] /\ bs # << >> /\ Tail(bs) \in Seq(Nat) /\ Len(Tail(bs)) = Len(line) - 1
      /\ \A i \in 1..Len(line) - 1 : Tail(bs)[i] = bs[i + 1]
  BY <1>1, <1>2
<1>6. Tail(bs) = cs
  <2>1. cs \in Seq(Nat) /\ Len(cs) = Len(line) - 1
    BY <1>1, <1>2, <1>3
  <2>2. \A i \in 1..Len(line) - 1 : Tail(bs)[i] = cs[i]
    BY <1>1, <1>2, <1>3, <1>5
  <2>3. QED
    BY <1>5, <2>1, <2>2, SeqEqual
<1>7. Total(bs) = Head(bs) + Total(Tail(bs))
  BY <1>1, <1>5, TotalTail
<1>8. Head(bs) = BytesOf(Head(line), type, h)
  BY <1>1, <1>2, <1>5
<1>9. QED
  BY <1>1, <1>4, <1>6, <1>7, <1>8

LEMMA BytesAfterAppend ==
  ASSUME line \in Seq(FitLine), NEW x \in FitLine, line' = Append(line, x), NEW type, NEW h
  PROVE  BytesInTransit(type, h)' = BytesInTransit(type, h) + BytesOf(x, type, h)
<1> DEFINE bs == BytesOfLines(type, h)
           cs == [i \in DOMAIN line' |-> BytesOf(line'[i], type, h)]
<1>1. /\ bs \in Seq(Nat) /\ Len(bs) = Len(line) /\ BytesInTransit(type, h) = Total(bs)
      /\ \A i \in 1..Len(line) : bs[i] = BytesOf(line[i], type, h)
      /\ BytesOf(x, type, h) \in Nat
  BY BytesOfTypes
<1>2. /\ Len(line) \in Nat /\ DOMAIN line' = 1..Len(line) + 1
      /\ \A i \in 1..Len(line) : line'[i] = line[i]
      /\ line'[Len(line) + 1] = x
  OBVIOUS
<1>3. cs = [i \in 1..Len(line) + 1 |-> BytesOf(line'[i], type, h)]
  BY <1>2
<1>4. BytesInTransit(type, h)' = Total(cs)
  BY DEF BytesInTransit
<1> HIDE DEF bs, cs
<1> DEFINE ds == Append(bs, BytesOf(x, type, h))
<1>5. /\ ds \in Seq(Nat) /\ Len(ds) = Len(line) + 1 /\ ds[Len(line) + 1] = BytesOf(x, type, h)
      /\ \A i \in 1..Len(line) : ds[i] = bs[i]
  BY <1>1, <1>2
<1> HIDE DEF ds
<1>6. ds = cs
  <2>1. ASSUME NEW i \in 1..Len(line) + 1
        PROVE  cs[i] = ds[i] /\ ds[i] \in Nat
    <3>1. cs[i] = BytesOf(line'[i], type, h)
      BY <1>3
    <3>2. CASE i \in 1..Len(line)
      <4>1. line'[i] = line[i]
        BY <1>2, <3>2
      <4>2. ds[i] = bs[i]
        BY <1>5, <3>2
      <4>3. bs[i] = BytesOf(line[i], type, h) /\ bs[i] \in Nat
        BY <1>1, <3>2
      <4>4. QED
        BY <3>1, <4>1, <4>2, <4>3
    <3>3. CASE i = Len(line) + 1
      BY <1>1, <1>2, <1>5, <3>1, <3>3
    <3>4. i \in 1..Len(line) \/ i = Len(line) + 1
      OBVIOUS
    <3>5. QED
      BY <3>2, <3>3, <3>4
  <2>2. \A i \in 1..Len(line) + 1 : cs[i] \in Nat
    BY <2>1
  <2>3. cs \in Seq(Nat) /\ Len(cs) = Len(line) + 1
    BY <1>2, <1>3, <2>2
  <2>4. QED
    BY <1>5, <2>1, <2>3, SeqEqual
<1>7. ds = Append(bs, BytesOf(x, type, h))
  BY DEF ds
<1>8. Total(ds) = Total(bs) + BytesOf(x, type, h)
  BY <1>1, <1>7, TotalAppend
<1>9. QED
  BY <1>1, <1>4, <1>6, <1>8

LEMMA NoBytes ==
  ASSUME line \in Seq(FitLine), NEW type, NEW h,
         \A i \in DOMAIN line : ~(line[i].type = type /\ line[i].handle = h)
  PROVE  BytesInTransit(type, h) = 0
<1>1. /\ BytesOfLines(type, h) \in Seq(Nat) /\ Len(BytesOfLines(type, h)) = Len(line)
      /\ \A i \in 1..Len(line) : BytesOfLines(type, h)[i] = BytesOf(line[i], type, h)
      /\ BytesInTransit(type, h) = Total(BytesOfLines(type, h))
  BY BytesOfTypes
<1>2. DOMAIN line = 1..Len(line)
  OBVIOUS
<1>3. \A i \in DOMAIN BytesOfLines(type, h) : BytesOfLines(type, h)[i] = 0
  BY <1>1, <1>2 DEF BytesOf
<1>4. QED
  BY <1>1, <1>3, TotalNat

(***************************************************************************)
(* What is counted as pending.  Until an answer is lost, a socket promises *)
(* no more than what the modem holds for it and what is on the line; and a *)
(* socket that was closed leaves nothing behind for the next one to be     *)
(* given its handle.                                                       *)
(***************************************************************************)

Announced(h) == BytesInTransit("NSONMI", h)
Reading == \E t \in Threads : pc[t] = "recvRead"
Delivered(h) == IF Reading THEN BytesInTransit("OK", h) ELSE 0
Waiting(h) == Total(modem[h].waiting)

Holds(s, h) == sockets[s].modem_handle = h

PromiseKept ==
  \A s \in Slots : \A h \in ModemHandles :
    Holds(s, h) /\ modem[h].open => sockets[s].pending + Announced(h) <= Waiting(h) + Delivered(h)

\* The slot that gets a new socket has nothing to make good.
NewPromise == \A h \in ModemHandles : NewHandle(h) => Announced(h) <= Waiting(h)

Speaks(j, h) == line[j].type = "NSONMI" /\ line[j].handle = h
Closes(t, h) == pc[t] = "close" /\ Holds(handle[t], h)

\* What the line says of a closed socket comes before the answer to its close.
LastWords ==
  \A h \in ModemHandles : ~modem[h].open => \A j \in DOMAIN line : Speaks(j, h) =>
    /\ cmd = NoCommand /\ \E t \in Threads : Closes(t, h)
    /\ \E i \in DOMAIN line : i > j /\ line[i].type = "OK"

\* A read asks for the block its thread will subtract, and gets no more.
ReadsOwn ==
  \A t \in Threads : pc[t] = "recvRead" =>
    /\ cmd # NoCommand => Holds(handle[t], cmd.handle) /\ cmd.n = call[t].blk
    /\ \A i \in DOMAIN line : line[i].type = "OK" =>
         Holds(handle[t], line[i].handle) /\ line[i].n <= call[t].blk

Promise == PromiseKept /\ NewPromise /\ LastWords /\ ReadsOwn
PromiseInv == faults = MaxFaults => Promise

LEMMA PromiseInit == Init => PromiseInv
<1> SUFFICES ASSUME Init
             PROVE  Promise
  BY DEF PromiseInv
<1>1. /\ \A t \in Threads : pc[t] = "idle"
      /\ \A s \in Slots : sockets[s] = UnusedSocket
      /\ \A h \in ModemHandles : modem[h] = ClosedSocket
      /\ line = << >>
  BY NumbersGiven DEF Init, Actors
<1>2. PromiseKept /\ NewPromise
  BY <1>1 DEF PromiseKept, NewPromise, NewHandle, ClosedSocket
<1>3. LastWords /\ ReadsOwn
  BY <1>1 DEF LastWords, ReadsOwn
<1>4. QED
  BY <1>2, <1>3 DEF Promise

\* The numbers are numbers.
LEMMA PromiseTypes ==
  ASSUME TypeInv, NEW h \in ModemHandles
  PROVE  Announced(h) \in Nat /\ Delivered(h) \in Nat /\ Waiting(h) \in Nat
<1>1. line \in Seq(FitLine) /\ modem[h].waiting \in Seq(1..MaxLength)
  BY DEF TypeInv, DataTypes, ModemSocket
<1>2. modem[h].waiting \in Seq(Nat)
  BY <1>1, NumbersGiven
<1>3. QED
  BY <1>1, <1>2, BytesOfTypes, TotalNat DEF Announced, Delivered, Waiting

LEMMA PromiseTypesAfter ==
  ASSUME TypeInv', NEW h \in ModemHandles
  PROVE  /\ Announced(h)' \in Nat /\ Delivered(h)' \in Nat /\ Waiting(h)' \in Nat
         /\ BytesInTransit("OK", h)' \in Nat
<1>1. line' \in Seq(FitLine) /\ modem'[h].waiting \in Seq(1..MaxLength)
  BY DEF TypeInv, DataTypes, ModemSocket
<1>2. modem'[h].waiting \in Seq(Nat)
  BY <1>1, NumbersGiven
<1>3. ASSUME NEW type
      PROVE  BytesInTransit(type, h)' \in Nat
  <2> DEFINE bs == [i \in DOMAIN line' |-> BytesOf(line'[i], type, h)]
  <2>1. \A i \in DOMAIN line' : BytesOf(line'[i], type, h) \in Nat
    BY <1>1, NumbersGiven DEF FitLine, LineItem, Lengths, BytesOf
  <2>2. DOMAIN line' = 1..Len(line') /\ Len(line') \in Nat
    BY <1>1
  <2>3. bs \in Seq(Nat)
    BY <2>1, <2>2
  <2> HIDE DEF bs
  <2>4. Total(bs) \in Nat
    BY <2>3, TotalNat
  <2>5. QED
    BY <2>4 DEF BytesInTransit, bs
<1>4. Total(modem'[h].waiting) \in Nat
  BY <1>2, TotalNat
<1>5. QED
  BY <1>3, <1>4 DEF Announced, Delivered, Waiting

\* While nobody waits for a close, the line is silent about closed sockets.
LEMMA NoWords ==
  ASSUME LastWords, cmd # NoCommand \/ \A t \in Threads : pc[t] # "close"
  PROVE  \A h \in ModemHandles : ~modem[h].open => \A j \in DOMAIN line : ~Speaks(j, h)
BY DEF LastWords, Closes

\* Where no answer is on the line nothing has been delivered.
LEMMA NothingDelivered ==
  ASSUME line \in Seq(FitLine), AnswersInTransit = {}, NEW h
  PROVE  BytesInTransit("OK", h) = 0
<1>1. \A i \in DOMAIN line : line[i].type # "OK"
  BY DEF AnswersInTransit, Answers
<1>2. QED
  BY <1>1, NoBytes

\* The inequalities, when the driver moves and the modem does not.
LEMMA PromiseFrame ==
  ASSUME TypeInv, TypeInv', PromiseKept, NewPromise, UNCHANGED modem,
         \A s \in Slots : sockets'[s].modem_handle = sockets[s].modem_handle,
         \A h \in ModemHandles :
           /\ Announced(h)' <= Announced(h)
           /\ \A s \in Slots : Holds(s, h) =>
                sockets'[s].pending + Announced(h)' + Delivered(h)
                  <= sockets[s].pending + Announced(h) + Delivered(h)'
  PROVE  PromiseKept' /\ NewPromise'
<1>0. UNCHANGED modem => \A h \in ModemHandles : Waiting(h)' = Waiting(h)
  BY DEF Waiting
<1>1. ASSUME NEW s \in Slots, NEW h \in ModemHandles, Holds(s, h)', modem'[h].open
      PROVE  sockets'[s].pending + Announced(h)' <= Waiting(h)' + Delivered(h)'
  <2>1. Holds(s, h) /\ modem[h].open
    BY <1>1 DEF Holds
  <2>2. sockets[s].pending \in Nat /\ sockets'[s].pending \in Nat
    BY SlotTypes DEF TypeInv, DataTypes, SockCtrl
  <2>3. /\ Announced(h) \in Nat /\ Delivered(h) \in Nat /\ Waiting(h) \in Nat
        /\ Announced(h)' \in Nat /\ Delivered(h)' \in Nat
    BY PromiseTypes, PromiseTypesAfter
  <2>4. sockets[s].pending + Announced(h) <= Waiting(h) + Delivered(h)
    BY <2>1 DEF PromiseKept
  <2>5. sockets'[s].pending + Announced(h)' + Delivered(h)
          <= sockets[s].pending + Announced(h) + Delivered(h)'
    BY <2>1
  <2>6. QED
    BY <1>0, <2>2, <2>3, <2>4, <2>5
<1>2. ASSUME NEW h \in ModemHandles, NewHandle(h)'
      PROVE  Announced(h)' <= Waiting(h)'
  <2>1. NewHandle(h)
    BY <1>2 DEF NewHandle
  <2>2. Announced(h) <= Waiting(h) /\ Announced(h)' <= Announced(h)
    BY <2>1 DEF NewPromise
  <2>3. Announced(h) \in Nat /\ Waiting(h) \in Nat /\ Announced(h)' \in Nat
    BY PromiseTypes, PromiseTypesAfter
  <2>4. QED
    BY <1>0, <2>2, <2>3
<1>3. QED
  BY <1>1, <1>2 DEF PromiseKept, NewPromise

\* A step of a thread that is not in an exchange, or of a URC that is counted.
LEMMA PromiseOutside ==
  ASSUME ChannelInv, TypeInv', Promise, UNCHANGED <<handle, cmd, modem>>,
         \A t \in Threads : pc'[t] = pc[t] \/ (pc[t] \notin Awaiting /\ pc'[t] \notin Awaiting),
         \A t \in Threads : pc[t] = "recvRead" => call'[t].blk = call[t].blk,
         \A s \in Slots : sockets'[s].modem_handle = sockets[s].modem_handle,
         \/ line' = line /\ \A s \in Slots : sockets'[s].pending = sockets[s].pending
         \/ /\ line # << >> /\ Head(line).type = "NSONMI" /\ line' = Tail(line)
            /\ \A s \in Slots : sockets'[s].pending =
                 sockets[s].pending + BytesOf(Head(line), "NSONMI", sockets[s].modem_handle)
  PROVE  Promise'
<1>a. TypeInv /\ line \in Seq(FitLine)
  BY DEF ChannelInv, TypeInv, DataTypes
<1>b. /\ Reading' <=> Reading
      /\ \A t \in Threads : pc'[t] = "close" <=> pc[t] = "close"
      /\ \A t \in Threads : pc'[t] = "recvRead" <=> pc[t] = "recvRead"
  BY DEF Reading, Awaiting
<1>c. \A j \in DOMAIN line' : \E k \in DOMAIN line :
        /\ line[k] = line'[j]
        /\ \/ k = j /\ line' = line
           \/ k = j + 1 /\ line' = Tail(line) /\ line # << >>
  <2>1. CASE line' = line
    <3>1. \A j \in DOMAIN line' : j \in DOMAIN line /\ line[j] = line'[j]
      BY <2>1
    <3>2. QED
      BY <2>1, <3>1
  <2>2. CASE line' = Tail(line) /\ line # << >>
    BY <1>a, <2>2, LinesAfterTail
  <2>3. QED
    BY <2>1, <2>2
<1>1. PromiseKept' /\ NewPromise'
  <2>1. ASSUME NEW h \in ModemHandles
        PROVE  /\ Announced(h)' <= Announced(h)
               /\ \A s \in Slots : Holds(s, h) =>
                    sockets'[s].pending + Announced(h)' + Delivered(h)
                      <= sockets[s].pending + Announced(h) + Delivered(h)'
    <3>1. Announced(h) \in Nat /\ Delivered(h) \in Nat /\ Announced(h)' \in Nat
      BY <1>a, PromiseTypes, PromiseTypesAfter
    <3>2. \A s \in Slots : sockets[s].pending \in Nat
      BY <1>a, SlotTypes
    <3>3. CASE line' = line /\ \A s \in Slots : sockets'[s].pending = sockets[s].pending
      <4>1. Announced(h)' = Announced(h) /\ Delivered(h)' = Delivered(h)
        BY <1>b, <3>3 DEF Announced, Delivered, BytesInTransit
      <4>2. QED
        BY <3>1, <3>2, <3>3, <4>1
    <3>4. CASE /\ line # << >> /\ Head(line).type = "NSONMI" /\ line' = Tail(line)
               /\ \A s \in Slots : sockets'[s].pending =
                    sockets[s].pending + BytesOf(Head(line), "NSONMI", sockets[s].modem_handle)
      <4>1. Announced(h) = BytesOf(Head(line), "NSONMI", h) + Announced(h)'
        BY <1>a, <3>4, BytesAfterTail DEF Announced
      <4>2. BytesInTransit("OK", h) = BytesInTransit("OK", h)'
        <5>1. BytesOf(Head(line), "OK", h) = 0
          BY <3>4 DEF BytesOf
        <5>2. BytesInTransit("OK", h) = 0 + BytesInTransit("OK", h)'
          BY <1>a, <3>4, <5>1, BytesAfterTail
        <5>3. BytesInTransit("OK", h)' \in Nat
          BY PromiseTypesAfter
        <5>4. QED
          BY <5>2, <5>3
      <4>3. Delivered(h)' = Delivered(h)
        BY <1>b, <4>2 DEF Delivered
      <4>4. BytesOf(Head(line), "NSONMI", h) \in Nat
        BY <1>a, <3>4, BytesOfTypes, HeadTypes
      <4>5. \A s \in Slots : Holds(s, h) =>
              sockets'[s].pending = sockets[s].pending + BytesOf(Head(line), "NSONMI", h)
        BY <3>4 DEF Holds
      <4>6. Announced(h)' <= Announced(h)
        BY <3>1, <4>1, <4>4
      <4>7. ASSUME NEW s \in Slots, Holds(s, h)
            PROVE  sockets'[s].pending + Announced(h)' + Delivered(h)
                     <= sockets[s].pending + Announced(h) + Delivered(h)'
        <5>1. sockets[s].pending \in Nat
          BY <3>2
        <5>2. sockets'[s].pending = sockets[s].pending + BytesOf(Head(line), "NSONMI", h)
          BY <4>5, <4>7
        <5>3. QED
          BY <3>1, <4>1, <4>3, <4>4, <5>1, <5>2
      <4>8. QED
        BY <4>6, <4>7
    <3>5. QED
      BY <3>3, <3>4
  <2>2. QED
    BY <1>a, <2>1, PromiseFrame DEF Promise
<1>2. LastWords'
  <2>1. SUFFICES ASSUME NEW h \in ModemHandles, ~modem[h].open, NEW j \in DOMAIN line', Speaks(j, h)'
                 PROVE  /\ cmd = NoCommand /\ \E t \in Threads : Closes(t, h)'
                        /\ \E i \in DOMAIN line' : i > j /\ line'[i].type = "OK"
    BY DEF LastWords
  <2>2. PICK k \in DOMAIN line :
          /\ line[k] = line'[j]
          /\ \/ k = j /\ line' = line
             \/ k = j + 1 /\ line' = Tail(line) /\ line # << >>
    BY <1>c, <2>1
  <2>3. Speaks(k, h)
    BY <2>1, <2>2 DEF Speaks
  <2>4. PICK t \in Threads : Closes(t, h)
    BY <2>1, <2>3 DEF Promise, LastWords
  <2>5. Closes(t, h)'
    <3>1. handle[t] \in Slots
      BY <1>a, <2>4 DEF Closes, TypeInv, OwnSlot
    <3>2. QED
      BY <1>b, <2>4, <3>1 DEF Closes, Holds
  <2>6. PICK i \in DOMAIN line : i > k /\ line[i].type = "OK"
    BY <2>1, <2>3 DEF Promise, LastWords
  <2>7. \E m \in DOMAIN line' : m > j /\ line'[m].type = "OK"
    <3>1. CASE k = j /\ line' = line
      BY <2>6, <3>1
    <3>2. CASE k = j + 1 /\ line' = Tail(line) /\ line # << >>
      <4>1. i - 1 \in DOMAIN line' /\ line'[i - 1] = line[i] /\ i - 1 > j
        BY <1>a, <2>2, <2>6, <3>2
      <4>2. QED
        BY <2>6, <4>1
    <3>3. QED
      BY <2>2, <3>1, <3>2
  <2>8. QED
    BY <2>1, <2>3, <2>5, <2>7 DEF Promise, LastWords
<1>3. ReadsOwn'
  <2>1. SUFFICES ASSUME NEW t \in Threads, pc[t] = "recvRead"
                 PROVE  /\ cmd # NoCommand =>
                             sockets'[handle[t]].modem_handle = cmd.handle /\ cmd.n = call[t].blk
                        /\ \A i \in DOMAIN line' : line'[i].type = "OK" =>
                             /\ sockets'[handle[t]].modem_handle = line'[i].handle
                             /\ line'[i].n <= call[t].blk
    BY <1>b DEF ReadsOwn, Holds
  <2>2. handle[t] \in Slots
    BY <1>a, <2>1 DEF TypeInv, OwnSlot
  <2>3. \A i \in DOMAIN line' : \E j \in DOMAIN line : line'[i] = line[j]
    BY <1>c
  <2>4. sockets'[handle[t]].modem_handle = sockets[handle[t]].modem_handle
    BY <2>2
  <2>5. QED
    BY <2>1, <2>3, <2>4 DEF Promise, ReadsOwn, Holds
<1>4. QED
  BY <1>1, <1>2, <1>3 DEF Promise

\* A thread that finds the channel silent asks.
LEMMA PromiseAsk ==
  ASSUME ChannelInv, TypeInv', Promise, NEW t \in Threads, NEW l \in Awaiting, Asks(t, l),
         UNCHANGED <<line, sockets, modem>>,
         l = "recvRead" => /\ handle' = handle /\ Holds(handle[t], cmd'.handle)
                           /\ cmd'.n = call'[t].blk
  PROVE  Promise'
<1>a. /\ TypeInv /\ line \in Seq(FitLine) /\ AnswersInTransit = {}
      /\ pc'[t] = l /\ \A u \in Threads : u # t => pc'[u] = pc[u]
      /\ \A u \in Threads : pc[u] \notin Awaiting
  BY DEF Asks, Goto, ChannelInv, TypeInv, DataTypes, ControlInv, Actors
<1>1. PromiseKept' /\ NewPromise'
  <2>1. ASSUME NEW h \in ModemHandles
        PROVE  Announced(h)' = Announced(h) /\ Delivered(h) = 0 /\ Delivered(h)' = 0
    <3>1. BytesInTransit("OK", h) = 0 /\ BytesInTransit("OK", h)' = BytesInTransit("OK", h)
      BY <1>a, NothingDelivered DEF BytesInTransit
    <3>2. Announced(h)' = Announced(h)
      BY DEF Announced, BytesInTransit
    <3>3. QED
      BY <3>1, <3>2 DEF Delivered
  <2>2. \A h \in ModemHandles : Announced(h) \in Nat
    BY <1>a, PromiseTypes
  <2>3. \A s \in Slots : sockets'[s].modem_handle = sockets[s].modem_handle
                         /\ sockets'[s].pending = sockets[s].pending /\ sockets[s].pending \in Nat
    BY <1>a, SlotTypes
  <2>4. QED
    BY <1>a, <2>1, <2>2, <2>3, PromiseFrame DEF Promise
<1>2. LastWords'
  <2>1. \A h \in ModemHandles : ~modem[h].open => \A j \in DOMAIN line : ~Speaks(j, h)
    BY <1>a, NoWords DEF Promise, Awaiting
  <2>2. QED
    BY <2>1 DEF LastWords, Speaks
<1>3. ReadsOwn'
  <2>1. SUFFICES ASSUME NEW u \in Threads, pc'[u] = "recvRead"
                 PROVE  /\ cmd' # NoCommand => Holds(handle[u], cmd.handle)' /\ cmd'.n = call'[u].blk
                        /\ \A i \in DOMAIN line' : line'[i].type # "OK"
    BY DEF ReadsOwn
  <2>2. u = t /\ l = "recvRead"
    BY <1>a, <2>1 DEF Awaiting
  <2>3. \A i \in DOMAIN line' : line'[i].type # "OK"
    BY <1>a DEF AnswersInTransit, Answers
  <2>4. QED
    BY <2>2, <2>3 DEF Holds
<1>4. QED
  BY <1>1, <1>2, <1>3 DEF Promise

\* The line has answered: no answer is left on it, and what it says of the
\* sockets is what it said before.
LEMMA AnswerRead ==
  ASSUME ChannelInv, TypeInv', NEW h \in ModemHandles, AnswersInTransit' = {},
         line' = line \/ (line # << >> /\ Head(line).type \in Answers /\ line' = Tail(line))
  PROVE  /\ Announced(h)' = Announced(h)
         /\ BytesInTransit("OK", h) =
              IF line' = line THEN 0 ELSE BytesOf(Head(line), "OK", h)
<1>a. line \in Seq(FitLine) /\ line' \in Seq(FitLine)
  BY DEF ChannelInv, TypeInv, DataTypes
<1>1. CASE line' = line
  <2>1. AnswersInTransit = {}
    BY <1>1 DEF AnswersInTransit
  <2>2. QED
    BY <1>a, <1>1, <2>1, NothingDelivered DEF Announced, BytesInTransit
<1>2. CASE line' # line
  <2>1. line # << >> /\ Head(line).type \in Answers /\ line' = Tail(line)
    BY <1>2
  <2>2. /\ BytesInTransit("OK", h) = BytesOf(Head(line), "OK", h) + BytesInTransit("OK", h)'
        /\ Announced(h) = BytesOf(Head(line), "NSONMI", h) + Announced(h)'
    BY <1>a, <2>1, BytesAfterTail DEF Announced
  <2>3. BytesOf(Head(line), "NSONMI", h) = 0 /\ BytesOf(Head(line), "OK", h) \in Nat
    BY <1>a, <2>1, BytesOfTypes, HeadTypes DEF BytesOf, Answers
  <2>4. BytesInTransit("OK", h)' = 0
    <3>1. \A i \in DOMAIN line' : line'[i].type # "OK"
      BY DEF AnswersInTransit, Answers
    <3> DEFINE bs == [i \in DOMAIN line' |-> BytesOf(line'[i], "OK", h)]
    <3>2. bs = [i \in 1..Len(line') |-> 0] /\ Len(line') \in Nat
      BY <1>a, <3>1 DEF BytesOf
    <3> HIDE DEF bs
    <3>3. bs \in Seq(Nat) /\ \A i \in DOMAIN bs : bs[i] = 0
      BY <3>2
    <3>4. Total(bs) = 0
      BY <3>3, TotalNat
    <3>5. QED
      BY <3>4 DEF BytesInTransit, bs
  <2>5. Announced(h)' \in Nat
    BY PromiseTypesAfter
  <2> HIDE DEF Announced
  <2>6. QED
    BY <1>2, <2>2, <2>3, <2>4, <2>5
<1>3. QED
  BY <1>1, <1>2

\* A thread hears; nobody closes, and what it subtracts from pending covers
\* what it was sent.
LEMMA PromiseHear ==
  ASSUME ChannelInv, TypeInv', Promise, NEW t \in Threads, NEW l \in PCs, Hears(t, l), pc[t] # "close",
         line' = line \/ (line # << >> /\ Head(line).type \in Answers /\ line' = Tail(line)),
         UNCHANGED modem,
         \A s \in Slots : sockets'[s].modem_handle = sockets[s].modem_handle,
         \A s \in Slots : \A h \in ModemHandles :
           Holds(s, h) => sockets'[s].pending + Delivered(h) <= sockets[s].pending
  PROVE  Promise'
<1>a. /\ TypeInv /\ line \in Seq(FitLine) /\ AnswersInTransit' = {}
      /\ \A u \in Threads : pc[u] # "close"
      /\ \A u \in Threads : pc'[u] \notin Awaiting
  <2>1. pc'[t] = l /\ \A u \in Threads : u # t => pc'[u] = pc[u]
    BY DEF Hears, Goto, ChannelInv, TypeInv, ControlInv, Actors
  <2>2. \A u \in Threads : pc[u] \in Awaiting => u = t
    BY OneWaits DEF Hears
  <2>3. QED
    BY <2>1, <2>2 DEF Hears, Awaiting, ChannelInv, TypeInv, DataTypes
<1>1. PromiseKept' /\ NewPromise'
  <2>1. ASSUME NEW h \in ModemHandles
        PROVE  /\ Announced(h)' <= Announced(h)
               /\ \A s \in Slots : Holds(s, h) =>
                    sockets'[s].pending + Announced(h)' + Delivered(h)
                      <= sockets[s].pending + Announced(h) + Delivered(h)'
    <3>1. Announced(h)' = Announced(h) /\ Announced(h) \in Nat /\ Delivered(h) \in Nat
      BY <1>a, AnswerRead, PromiseTypes
    <3>2. Delivered(h)' = 0
      BY <1>a DEF Delivered, Reading, Awaiting
    <3>3. \A s \in Slots : sockets[s].pending \in Nat /\ sockets'[s].pending \in Nat
      BY <1>a DEF TypeInv, DataTypes, SockCtrl
    <3>4. QED
      BY <3>1, <3>2, <3>3
  <2>2. QED
    BY <1>a, <2>1, PromiseFrame DEF Promise
<1>2. LastWords'
  <2>1. \A h \in ModemHandles : ~modem[h].open => \A j \in DOMAIN line : ~Speaks(j, h)
    BY <1>a, NoWords DEF Promise
  <2>2. \A j \in DOMAIN line' : \E k \in DOMAIN line : line'[j] = line[k]
    BY <1>a, LinesAfterTail
  <2>3. QED
    BY <2>1, <2>2 DEF LastWords, Speaks
<1>3. ReadsOwn'
  BY <1>a DEF ReadsOwn, Awaiting
<1>4. QED
  BY <1>1, <1>2, <1>3 DEF Promise

\* A read, a block sent or a refused open.
LEMMA PromiseHearData ==
  ASSUME ChannelInv, TypeInv', ~hasty', Faultless, Promise, NEW t \in Threads,
         OpenFails(t) \/ SendGot(t) \/ SendFails(t) \/ RecvGot(t) \/ RecvSizeUnread(t) \/ RecvFails(t)
  PROVE  Promise'
<1>a. TypeInv /\ line \in Seq(FitLine) /\ sockets \in [Slots -> SockCtrl]
  BY DEF ChannelInv, TypeInv, DataTypes
<1>1. PICK l \in {"open", "sendWait", "recvRead"} :
        /\ \E types \in SUBSET Answers : GotAnswer(t, l, types) \/ GotNone(t, l, types)
        /\ l # "recvRead" => sockets' = sockets
        /\ UNCHANGED <<cmd, modem>> /\ pc[t] = l
  <2>1. UNCHANGED <<cmd, modem>>
    BY DEF OpenFails, SendGot, SendFails, RecvGot, RecvSizeUnread, RecvFails, EndExchange, EndTurn
  <2>2. /\ {"OK", "HEAD"} \in SUBSET Answers /\ {"OK"} \in SUBSET Answers /\ {} \in SUBSET Answers
        /\ {"HEAD", "EMPTY"} \in SUBSET Answers /\ {"HEAD"} \in SUBSET Answers
        /\ {"LATE"} \in SUBSET Answers
    BY DEF Answers
  <2>3. CASE OpenFails(t)
    BY <2>1, <2>2, <2>3 DEF OpenFails, GotAnswer, GotNone, TimedOut, Receiving
  <2>4. CASE SendGot(t) \/ SendFails(t)
    BY <2>1, <2>2, <2>4 DEF SendGot, SendFails, GotAnswer, GotNone, TimedOut, Receiving, tableVars
  <2>5. CASE RecvGot(t) \/ RecvSizeUnread(t) \/ RecvFails(t)
    BY <2>1, <2>2, <2>5
    DEF RecvGot, RecvSizeUnread, RecvFails, GotAnswer, GotNone, TimedOut, Receiving
  <2>6. QED
    BY <2>3, <2>4, <2>5
<1>2. /\ line' = line \/ (line # << >> /\ Head(line).type \in Answers /\ line' = Tail(line))
      /\ cmd = NoCommand /\ AnswersInTransit' = {} /\ pc[t] \in Awaiting
  BY <1>1, HeardBy DEF GotAnswer, GotNone, TimedOut, Arrived, Answers, Awaiting
<1>3. PICK m \in {"idle", "sendLoop"} : Goto(t, m)
  BY DEF OpenFails, SendGot, SendFails, RecvGot, RecvSizeUnread, RecvFails, EndExchange, Return
<1>4. Hears(t, m) /\ m \in PCs
  BY <1>1, <1>2, <1>3 DEF Hears, Awaiting, PCs
<1>5. handle[t] \in Slots
  BY <1>1 DEF ChannelInv, TypeInv, OwnSlot
<1>6. \/ sockets' = sockets
      \/ sockets' = [sockets EXCEPT ![handle[t]].pending = @ - call[t].blk] /\ l = "recvRead"
  BY <1>1 DEF OpenFails, SendGot, SendFails, RecvGot, RecvSizeUnread, RecvFails, EndExchange, EndTurn,
              GotAnswer, GotNone, TimedOut, Receiving
<1>7. \A s \in Slots : sockets'[s].modem_handle = sockets[s].modem_handle
  BY <1>a, <1>6 DEF SockCtrl
<1>8. ASSUME NEW s \in Slots, NEW h \in ModemHandles, Holds(s, h)
      PROVE  sockets'[s].pending + Delivered(h) <= sockets[s].pending
  <2>0. sockets[s].pending \in Nat
    BY <1>a, SlotTypes
  <2>1. CASE l # "recvRead"
    <3>1. ~Reading
      BY <1>1, <1>2, <2>1, OneWaits DEF Reading, Awaiting
    <3>2. QED
      BY <1>1, <2>0, <2>1, <3>1 DEF Delivered
  <2>2. CASE l = "recvRead"
    <3>1. Delivered(h) = IF line' = line THEN 0 ELSE BytesOf(Head(line), "OK", h)
      BY <1>1, <1>2, <2>2, AnswerRead DEF Delivered, Reading
    <3>2. RecvGot(t) \/ RecvFails(t) \/ RecvSizeUnread(t)
      BY <1>1, <2>2
      DEF OpenFails, SendGot, SendFails, GotAnswer, GotNone, TimedOut, Receiving
    <3>3. CASE RecvFails(t)
      <4>1. sockets' = sockets /\ (line' = line \/ Head(line).type # "OK")
        BY <3>3 DEF RecvFails, GotNone, GotAnswer, TimedOut, Arrived
      <4>2. QED
        BY <2>0, <3>1, <4>1 DEF BytesOf
    <3>4. CASE RecvSizeUnread(t)
      <4>1. line # << >> /\ Head(line).type = "LATE"
        BY <3>4 DEF RecvSizeUnread, GotAnswer, Arrived
      <4>2. QED
        BY <1>a, <4>1 DEF Faultless, NothingLost
    <3>5. CASE RecvGot(t)
      <4>1. /\ line # << >> /\ Head(line).type = "OK"
            /\ sockets' = [sockets EXCEPT ![handle[t]].pending = @ - call[t].blk]
        BY <3>5 DEF RecvGot, GotAnswer, Arrived
      <4>2. Holds(handle[t], Head(line).handle) /\ Head(line).n <= call[t].blk
        <5>1. 1 \in DOMAIN line /\ Head(line) = line[1]
          BY <1>a, <4>1
        <5>2. QED
          BY <1>1, <2>2, <4>1, <5>1 DEF Promise, ReadsOwn
      <4>3. call[t].blk \in Nat /\ Head(line).n \in Nat /\ call[t].blk <= sockets[handle[t]].pending
        <5>1. call[t] \in CallState /\ Head(line) \in FitLine
          BY <1>a, <4>1, HeadTypes DEF TypeInv, DataTypes
        <5>2. call[t].blk \in Nat /\ Head(line).n \in Nat
          BY <5>1, NumbersGiven DEF CallState, FitLine, LineItem, Lengths
        <5>3. QED
          BY <1>a, <1>1, <2>2, <5>2 DEF TypeInv, OwnSlot
      <4>4. CASE s = handle[t]
        <5>1. sockets'[s].pending = sockets[s].pending - call[t].blk
          BY <1>a, <4>1, <4>4 DEF SockCtrl
        <5>2. Delivered(h) = 0 \/ Delivered(h) = Head(line).n
          BY <3>1 DEF BytesOf
        <5>3. QED
          BY <2>0, <4>2, <4>3, <5>1, <5>2
      <4>5. CASE s # handle[t]
        <5>1. sockets'[s].pending = sockets[s].pending
          BY <1>a, <4>1, <4>5 DEF SockCtrl
        <5>2. Head(line).handle # h
          <6>1. InUse(s) /\ InUse(handle[t])
            BY <1>a, <1>1, <1>8, <2>2, NumbersGiven DEF InUse, Holds, TypeInv, OwnSlot
          <6>2. QED
            BY <1>5, <1>8, <4>2, <4>5, <6>1 DEF Holds, Faultless, SlotsMatch, HandlesDiffer
        <5>3. Delivered(h) = 0
          BY <3>1, <5>2 DEF BytesOf
        <5>4. QED
          BY <2>0, <5>1, <5>3
      <4>6. QED
        BY <4>4, <4>5
    <3>6. QED
      BY <3>2, <3>3, <3>4, <3>5
  <2>3. QED
    BY <2>1, <2>2
<1>9. QED
  BY <1>1, <1>2, <1>4, <1>7, <1>8, PromiseHear

\* socket_open() has its handle: the slot counts nothing, as is promised.
LEMMA PromiseHearOpen ==
  ASSUME ChannelInv, TypeInv', ~hasty', Faultless, Promise, NEW t \in Threads, OpenCreated(t)
  PROVE  Promise'
<1>a. TypeInv /\ line \in Seq(FitLine) /\ sockets \in [Slots -> SockCtrl]
  BY DEF ChannelInv, TypeInv, DataTypes
<1>1. /\ pc[t] = "open" /\ UNCHANGED <<cmd, modem, handle>> /\ Goto(t, "idle")
      /\ line # << >> /\ Head(line).type = "OK" /\ line' = Tail(line)
      /\ sockets' = [sockets EXCEPT ![handle[t]] =
                       [UnusedSocket EXCEPT !.modem_handle = Head(line).handle]]
      /\ GotAnswer(t, "open", {"OK"})
  BY DEF OpenCreated, GotAnswer, Receiving, Arrived, EndExchange, Return
<1>2. "OK" \in Answers /\ {"OK"} \in SUBSET Answers /\ "idle" \in PCs
  BY DEF Answers, PCs
<1>3. pc[t] \in Awaiting /\ cmd = NoCommand /\ AnswersInTransit' = {}
  BY <1>1, <1>2, HeardBy DEF Awaiting
<1>4. /\ \A u \in Threads : pc[u] \in Awaiting => u = t
      /\ \A u \in Threads : pc'[u] \notin Awaiting
  BY <1>1, <1>3, OneWaits DEF Goto, Awaiting, ChannelInv, TypeInv, ControlInv, Actors
<1>5. ~Reading /\ ~Reading' /\ \A u \in Threads : pc[u] # "close"
  BY <1>1, <1>4 DEF Reading, Awaiting
<1>6. handle[t] \in Slots
  BY <1>1, <1>a DEF TypeInv, OwnSlot
<1>7. NewHandle(Head(line).handle) /\ Head(line).handle \in ModemHandles
  <2>1. 1 \in DOMAIN line /\ Head(line) = line[1] /\ line[1] \in FitLine
    BY <1>a, <1>1
  <2>2. QED
    BY <1>1, <2>1 DEF Faultless, SlotsMatch, OpensNew, FitLine
<1>8. /\ sockets'[handle[t]].modem_handle = Head(line).handle
      /\ sockets'[handle[t]].pending = 0
      /\ \A s \in Slots : s # handle[t] => sockets'[s] = sockets[s]
  BY <1>a, <1>1, <1>6 DEF UnusedSocket
<1>9. ASSUME NEW h \in ModemHandles
      PROVE  /\ Announced(h)' = Announced(h) /\ Waiting(h)' = Waiting(h)
             /\ Delivered(h) = 0 /\ Delivered(h)' = 0
             /\ Announced(h) \in Nat /\ Waiting(h) \in Nat
  BY <1>a, <1>1, <1>2, <1>3, <1>5, AnswerRead, PromiseTypes DEF Delivered, Waiting
<1>10. PromiseKept'
  <2>1. SUFFICES ASSUME NEW s \in Slots, NEW h \in ModemHandles, Holds(s, h)', modem'[h].open
                 PROVE  sockets'[s].pending + Announced(h)' <= Waiting(h)' + Delivered(h)'
    BY DEF PromiseKept
  <2>2. CASE s = handle[t]
    <3>1. h = Head(line).handle
      BY <1>8, <2>1, <2>2 DEF Holds
    <3>2. Announced(h) <= Waiting(h)
      BY <1>7, <3>1 DEF Promise, NewPromise
    <3>3. QED
      BY <1>8, <1>9, <2>2, <3>2
  <2>3. CASE s # handle[t]
    <3>1. sockets'[s] = sockets[s] /\ Holds(s, h) /\ modem[h].open
      BY <1>1, <1>8, <2>1, <2>3 DEF Holds
    <3>2. sockets[s].pending + Announced(h) <= Waiting(h) + Delivered(h)
      BY <3>1 DEF Promise, PromiseKept
    <3>3. QED
      BY <1>9, <3>1, <3>2
  <2>4. QED
    BY <2>2, <2>3
<1>11. NewPromise'
  <2>1. SUFFICES ASSUME NEW h \in ModemHandles, NewHandle(h)'
                 PROVE  Announced(h)' <= Waiting(h)'
    BY DEF NewPromise
  <2>2. NewHandle(h)
    <3>1. sockets[handle[t]].modem_handle \notin ModemHandles
      <4>1. ~InUse(handle[t])
        BY <1>a, <1>1, <1>6 DEF TypeInv, OwnSlot
      <4>2. QED
        BY <4>1, NumbersGiven DEF InUse
    <3>2. \A s \in Slots : s # handle[t] => sockets[s].modem_handle # h
      BY <1>8, <2>1 DEF NewHandle
    <3>3. \A s \in Slots : sockets[s].modem_handle # h
      BY <3>1, <3>2
    <3>4. QED
      BY <1>1, <2>1, <3>3 DEF NewHandle
  <2>3. Announced(h) <= Waiting(h)
    BY <2>2 DEF Promise, NewPromise
  <2>4. QED
    BY <1>9, <2>3
<1>12. LastWords'
  <2>1. \A h \in ModemHandles : ~modem[h].open => \A j \in DOMAIN line : ~Speaks(j, h)
    BY <1>5, NoWords DEF Promise
  <2>2. \A j \in DOMAIN line' : \E k \in DOMAIN line : line'[j] = line[k]
    BY <1>a, <1>1, LinesAfterTail
  <2>3. QED
    BY <1>1, <2>1, <2>2 DEF LastWords, Speaks
<1>13. ReadsOwn'
  BY <1>4 DEF ReadsOwn, Awaiting
<1>14. QED
  BY <1>10, <1>11, <1>12, <1>13 DEF Promise

\* socket_close() has its answer, the last word about its socket.
LEMMA PromiseHearClose ==
  ASSUME ChannelInv, TypeInv', ~hasty', Faultless, Promise, NEW t \in Threads,
         CloseDone(t) \/ CloseFails(t)
  PROVE  Promise'
<1>a. TypeInv /\ line \in Seq(FitLine) /\ sockets \in [Slots -> SockCtrl]
  BY DEF ChannelInv, TypeInv, DataTypes
<1>b. ~CloseFails(t)
  <2>1. SUFFICES ASSUME CloseFails(t)
                 PROVE  FALSE
    OBVIOUS
  <2>2. pc[t] = "close"
    BY <2>1 DEF CloseFails, GotNone, GotAnswer, TimedOut, Receiving
  <2>3. CASE line # << >> /\ Head(line).type \in {"HEAD", "ERROR"}
    BY <1>a, <2>2, <2>3, LinesAfterTail DEF Faultless, NothingLost
  <2>4. CASE TimedOut(t, "close")
    <3>1. cmd = NoCommand /\ line = << >>
      BY <2>4, NeverEarly DEF TimedOut, ChannelInv
    <3>2. QED
      BY <2>2, <3>1 DEF Faultless, NothingLost, AnswersInTransit, Awaiting
  <2>5. QED
    BY <2>1, <2>3, <2>4 DEF CloseFails, GotNone, GotAnswer, Arrived
<1>1. /\ pc[t] = "close" /\ UNCHANGED <<cmd, modem>> /\ Goto(t, "idle")
      /\ line # << >> /\ Head(line).type \in OKs /\ line' = Tail(line)
      /\ sockets' = [sockets EXCEPT ![handle[t]] = UnusedSocket]
      /\ GotAnswer(t, "close", OKs)
  BY <1>b DEF CloseDone, clear_socket, GotAnswer, Receiving, Arrived, EndExchange, Return
<1>2. OKs \subseteq Answers /\ OKs \in SUBSET Answers /\ "idle" \in PCs
  BY DEF OKs, Answers, PCs
<1>3. pc[t] \in Awaiting /\ cmd = NoCommand /\ AnswersInTransit' = {}
  BY <1>1, <1>2, HeardBy DEF Awaiting
<1>4. /\ \A u \in Threads : pc[u] \in Awaiting => u = t
      /\ \A u \in Threads : pc'[u] \notin Awaiting
  BY <1>1, <1>3, OneWaits DEF Goto, Awaiting, ChannelInv, TypeInv, ControlInv, Actors
<1>5. ~Reading /\ ~Reading'
  BY <1>1, <1>4 DEF Reading, Awaiting
<1>6. handle[t] \in Slots
  BY <1>1, <1>a DEF TypeInv, OwnSlot
<1>7. /\ sockets'[handle[t]] = UnusedSocket
      /\ \A s \in Slots : s # handle[t] => sockets'[s] = sockets[s]
  BY <1>a, <1>1, <1>6
<1>8. ASSUME NEW h \in ModemHandles
      PROVE  /\ Announced(h)' = Announced(h) /\ Waiting(h)' = Waiting(h)
             /\ Delivered(h) = 0 /\ Delivered(h)' = 0
             /\ Announced(h) \in Nat /\ Waiting(h) \in Nat
  BY <1>a, <1>1, <1>2, <1>3, <1>5, AnswerRead, PromiseTypes DEF Delivered, Waiting
<1>9. PromiseKept'
  <2>1. SUFFICES ASSUME NEW s \in Slots, NEW h \in ModemHandles, Holds(s, h)', modem'[h].open
                 PROVE  sockets'[s].pending + Announced(h)' <= Waiting(h)' + Delivered(h)'
    BY DEF PromiseKept
  <2>2. s # handle[t]
    BY <1>7, <2>1, NumbersGiven DEF UnusedSocket, Holds
  <2>3. sockets'[s] = sockets[s] /\ Holds(s, h) /\ modem[h].open
    BY <1>1, <1>7, <2>1, <2>2 DEF Holds
  <2>4. sockets[s].pending + Announced(h) <= Waiting(h) + Delivered(h)
    BY <2>3 DEF Promise, PromiseKept
  <2>5. QED
    BY <1>8, <2>3, <2>4
<1>10. NewPromise'
  <2>1. SUFFICES ASSUME NEW h \in ModemHandles, NewHandle(h)'
                 PROVE  Announced(h)' <= Waiting(h)'
    BY DEF NewPromise
  <2>2. modem[h].open /\ \A s \in Slots : s # handle[t] => ~Holds(s, h)
    BY <1>1, <1>7, <2>1 DEF NewHandle, Holds
  <2>3. CASE Holds(handle[t], h)
    <3>1. sockets[handle[t]].pending + Announced(h) <= Waiting(h) + Delivered(h)
      BY <1>6, <2>2, <2>3 DEF Promise, PromiseKept
    <3>2. sockets[handle[t]].pending \in Nat
      BY <1>a, <1>6, SlotTypes
    <3>3. QED
      BY <1>8, <3>1, <3>2
  <2>4. CASE ~Holds(handle[t], h)
    <3>1. NewHandle(h)
      BY <2>2, <2>4 DEF NewHandle, Holds
    <3>2. QED
      BY <1>8, <3>1 DEF Promise, NewPromise
  <2>5. QED
    BY <2>3, <2>4
<1>11. LastWords'
  <2>1. SUFFICES ASSUME NEW h \in ModemHandles, ~modem[h].open, NEW j \in DOMAIN line', Speaks(j, h)'
                 PROVE  FALSE
    BY <1>1 DEF LastWords
  <2>2. j + 1 \in DOMAIN line /\ line'[j] = line[j + 1] /\ 1 \in DOMAIN line /\ line[1].type \in Answers
    BY <1>a, <1>1, <1>2, LinesAfterTail
  <2>3. Speaks(j + 1, h)
    BY <2>1, <2>2 DEF Speaks
  <2>4. PICK i \in DOMAIN line : i > j + 1 /\ line[i].type = "OK"
    BY <2>1, <2>2, <2>3 DEF Promise, LastWords
  <2>5. 1 \in AnswersInTransit /\ i \in AnswersInTransit
    BY <2>2, <2>4 DEF AnswersInTransit, Answers
  <2>6. i = 1
    BY <2>5 DEF ChannelInv, Alternation
  <2>7. j \in Nat \ {0}
    BY <2>1, <1>a, <1>1
  <2>8. QED
    BY <2>4, <2>6, <2>7
<1>12. ReadsOwn'
  BY <1>4 DEF ReadsOwn, Awaiting
<1>13. QED
  BY <1>9, <1>10, <1>11, <1>12 DEF Promise

\* What is announced or read is moved, not made.
LEMMA Balance ==
  ASSUME NEW p \in Nat, NEW an \in Nat, NEW wa \in Nat, NEW de \in Nat, NEW more \in Nat,
         NEW read \in Nat, NEW left \in Nat,
         p + an <= wa + de, wa + more <= left + read
  PROVE  p + (an + more) <= left + (de + read)
OBVIOUS

\* The modem says x: what its sockets may be afterwards.
LEMMA PromiseSays ==
  ASSUME ChannelInv, TypeInv', Promise, NEW x \in FitLine, line' = Append(line, x),
         UNCHANGED <<sockets, handle, pc, call>>, cmd' = cmd \/ cmd' = NoCommand,
         \A h \in ModemHandles :
           /\ modem[h].open /\ modem'[h].open =>
                /\ Waiting(h) + BytesOf(x, "NSONMI", h)
                     <= Waiting(h)' + (IF Reading THEN BytesOf(x, "OK", h) ELSE 0)
                /\ NewHandle(h) => Waiting(h) + BytesOf(x, "NSONMI", h) <= Waiting(h)'
           /\ ~modem[h].open /\ modem'[h].open =>
                cmd # NoCommand /\ x.type # "NSONMI" /\ \A s \in Slots : ~Holds(s, h)
           /\ ~modem'[h].open =>
                /\ ~(x.type = "NSONMI" /\ x.handle = h)
                /\ modem[h].open =>
                     cmd' = NoCommand /\ x.type = "OK" /\ \E t \in Threads : Closes(t, h)
                /\ ~modem[h].open => cmd # NoCommand \/ cmd' = cmd,
         \A t \in Threads : pc[t] = "recvRead" /\ x.type = "OK" =>
           Holds(handle[t], x.handle) /\ x.n <= call[t].blk
  PROVE  Promise'
<1>a. TypeInv /\ line \in Seq(FitLine)
  BY DEF ChannelInv, TypeInv, DataTypes
<1>b. /\ \A i \in DOMAIN line' : (i \in DOMAIN line /\ line'[i] = line[i]) \/ line'[i] = x
      /\ \A i \in DOMAIN line : i \in DOMAIN line' /\ line'[i] = line[i] /\ i < Len(line) + 1
      /\ Len(line) + 1 \in DOMAIN line' /\ line'[Len(line) + 1] = x
  BY <1>a, LinesAfterAppend
<1>c. ASSUME NEW h \in ModemHandles
      PROVE  /\ Announced(h)' = Announced(h) + BytesOf(x, "NSONMI", h)
             /\ Delivered(h)' = Delivered(h) + (IF Reading THEN BytesOf(x, "OK", h) ELSE 0)
             /\ BytesOf(x, "NSONMI", h) \in Nat /\ BytesOf(x, "OK", h) \in Nat
             /\ Announced(h) \in Nat /\ Delivered(h) \in Nat /\ Waiting(h) \in Nat
             /\ Waiting(h)' \in Nat /\ Announced(h)' \in Nat /\ Delivered(h)' \in Nat
  <2>1. /\ BytesInTransit("NSONMI", h)' = BytesInTransit("NSONMI", h) + BytesOf(x, "NSONMI", h)
        /\ BytesInTransit("OK", h)' = BytesInTransit("OK", h) + BytesOf(x, "OK", h)
    BY <1>a, BytesAfterAppend
  <2>2. Reading' <=> Reading
    BY DEF Reading
  <2>3. BytesOf(x, "NSONMI", h) \in Nat /\ BytesOf(x, "OK", h) \in Nat
    BY <1>a, BytesOfTypes
  <2>4. QED
    BY <1>a, <2>1, <2>2, <2>3, PromiseTypes, PromiseTypesAfter DEF Announced, Delivered
<1>1. PromiseKept'
  <2>1. SUFFICES ASSUME NEW s \in Slots, NEW h \in ModemHandles, Holds(s, h)', modem'[h].open
                 PROVE  sockets'[s].pending + Announced(h)' <= Waiting(h)' + Delivered(h)'
    BY DEF PromiseKept
  <2>2. Holds(s, h) /\ sockets'[s].pending = sockets[s].pending /\ sockets[s].pending \in Nat
    BY <1>a, <2>1, SlotTypes DEF Holds
  <2>3. modem[h].open
    BY <2>1, <2>2
  <2>4. sockets[s].pending + Announced(h) <= Waiting(h) + Delivered(h)
    BY <2>2, <2>3 DEF Promise, PromiseKept
  <2>5. Waiting(h) + BytesOf(x, "NSONMI", h)
          <= Waiting(h)' + (IF Reading THEN BytesOf(x, "OK", h) ELSE 0)
    BY <2>1, <2>3
  <2>6. /\ Announced(h)' = Announced(h) + BytesOf(x, "NSONMI", h)
        /\ Delivered(h)' = Delivered(h) + (IF Reading THEN BytesOf(x, "OK", h) ELSE 0)
        /\ BytesOf(x, "NSONMI", h) \in Nat /\ BytesOf(x, "OK", h) \in Nat
        /\ Announced(h) \in Nat /\ Delivered(h) \in Nat /\ Waiting(h) \in Nat
        /\ Waiting(h)' \in Nat
    BY <1>c
  <2> DEFINE read == IF Reading THEN BytesOf(x, "OK", h) ELSE 0
  <2>7. read \in Nat
    BY <2>6
  <2>8. /\ Announced(h)' = Announced(h) + BytesOf(x, "NSONMI", h)
        /\ Delivered(h)' = Delivered(h) + read
        /\ Waiting(h) + BytesOf(x, "NSONMI", h) <= Waiting(h)' + read
    BY <2>5, <2>6
  <2> HIDE DEF read
  <2>9. sockets[s].pending + (Announced(h) + BytesOf(x, "NSONMI", h))
          <= Waiting(h)' + (Delivered(h) + read)
    BY <2>2, <2>4, <2>6, <2>7, <2>8, Balance
  <2>10. QED
    BY <2>2, <2>8, <2>9
<1>2. NewPromise'
  <2>1. SUFFICES ASSUME NEW h \in ModemHandles, NewHandle(h)'
                 PROVE  Announced(h)' <= Waiting(h)'
    BY DEF NewPromise
  <2>2. modem'[h].open
    BY <2>1 DEF NewHandle
  <2>3. CASE modem[h].open
    <3>1. NewHandle(h)
      BY <2>1, <2>3 DEF NewHandle
    <3>2. Announced(h) <= Waiting(h) /\ Waiting(h) + BytesOf(x, "NSONMI", h) <= Waiting(h)'
      BY <2>2, <2>3, <3>1 DEF Promise, NewPromise
    <3>3. QED
      BY <1>c, <3>2
  <2>4. CASE ~modem[h].open
    <3>1. cmd # NoCommand /\ BytesOf(x, "NSONMI", h) = 0
      BY <2>2, <2>4 DEF BytesOf
    <3>2. \A j \in DOMAIN line : ~Speaks(j, h)
      BY <2>4, <3>1, NoWords DEF Promise
    <3>3. Announced(h) = 0
      BY <1>a, <3>2, NoBytes DEF Announced, Speaks
    <3>4. QED
      BY <1>c, <3>1, <3>3
  <2>5. QED
    BY <2>3, <2>4
<1>3. LastWords'
  <2>1. SUFFICES ASSUME NEW h \in ModemHandles, ~modem'[h].open, NEW j \in DOMAIN line', Speaks(j, h)'
                 PROVE  /\ cmd' = NoCommand /\ \E t \in Threads : Closes(t, h)'
                        /\ \E i \in DOMAIN line' : i > j /\ line'[i].type = "OK"
    BY DEF LastWords
  <2>2. j \in DOMAIN line /\ Speaks(j, h)
    BY <1>b, <2>1 DEF Speaks
  <2>3. CASE modem[h].open
    <3>1. cmd' = NoCommand /\ x.type = "OK" /\ \E t \in Threads : Closes(t, h)
      BY <2>1, <2>3
    <3>2. \E t \in Threads : Closes(t, h)'
      BY <3>1 DEF Closes, Holds
    <3>3. Len(line) + 1 > j
      BY <1>a, <2>2
    <3>4. QED
      BY <1>b, <3>1, <3>2, <3>3
  <2>4. CASE ~modem[h].open
    <3>1. PICK t \in Threads, i \in DOMAIN line :
            cmd = NoCommand /\ Closes(t, h) /\ i > j /\ line[i].type = "OK"
      BY <2>2, <2>4 DEF Promise, LastWords
    <3>2. Closes(t, h)'
      BY <3>1 DEF Closes, Holds
    <3>3. QED
      BY <1>b, <3>1, <3>2
  <2>5. QED
    BY <2>3, <2>4
<1>4. ReadsOwn'
  <2>1. SUFFICES ASSUME NEW t \in Threads, pc[t] = "recvRead"
                 PROVE  /\ cmd' # NoCommand => Holds(handle[t], cmd.handle)' /\ cmd'.n = call[t].blk
                        /\ \A i \in DOMAIN line' : line'[i].type = "OK" =>
                             Holds(handle[t], line'[i].handle) /\ line'[i].n <= call[t].blk
    BY DEF ReadsOwn, Holds
  <2>2. cmd' # NoCommand => Holds(handle[t], cmd.handle)' /\ cmd'.n = call[t].blk
    BY <2>1 DEF Promise, ReadsOwn, Holds
  <2>3. ASSUME NEW i \in DOMAIN line', line'[i].type = "OK"
        PROVE  Holds(handle[t], line'[i].handle) /\ line'[i].n <= call[t].blk
    <3>1. CASE line'[i] = x
      BY <2>1, <2>3, <3>1
    <3>2. CASE i \in DOMAIN line /\ line'[i] = line[i]
      BY <2>1, <2>3, <3>2 DEF Promise, ReadsOwn, Holds
    <3>3. QED
      BY <1>b, <3>1, <3>2
  <2>4. QED
    BY <2>2, <2>3
<1>5. QED
  BY <1>1, <1>2, <1>3, <1>4 DEF Promise

\* What is left of the datagrams after n bytes of the first were read.
LEMMA UnreadTotal ==
  ASSUME NEW ds \in Seq(1..MaxLength), ds # << >>, NEW n \in Nat, n <= Head(ds)
  PROVE  Total(ds) = Total(Unread(ds, n)) + n
<1>1. /\ Tail(ds) \in Seq(1..MaxLength) /\ Head(ds) \in 1..MaxLength
      /\ Unread(ds, n) \in Seq(1..MaxLength)
  BY HeadTypes, UnreadTypes
<1>2. ds \in Seq(Nat) /\ Tail(ds) \in Seq(Nat) /\ Unread(ds, n) \in Seq(Nat) /\ Head(ds) \in Nat
  BY <1>1, NumbersGiven
<1>3. Total(ds) = Head(ds) + Total(Tail(ds)) /\ Total(Tail(ds)) \in Nat
  <2>1. ds \in Seq(Int)
    BY <1>2
  <2>2. QED
    BY <1>2, <2>1, TotalTail, TotalNat
<1>4. CASE n < Head(ds)
  <2> DEFINE rest == Unread(ds, n)
  <2>1. rest = <<Head(ds) - n>> \o Tail(ds)
    BY <1>4 DEF Unread
  <2>2. rest # << >> /\ Head(rest) = Head(ds) - n /\ Tail(rest) = Tail(ds)
    <3>1. Head(ds) - n \in Nat
      BY <1>2, <1>4
    <3>2. <<Head(ds) - n>> \in Seq(Nat) /\ Len(<<Head(ds) - n>>) = 1 /\ <<Head(ds) - n>>[1] = Head(ds) - n
      BY <3>1
    <3>3. /\ Len(rest) = 1 + Len(Tail(ds)) /\ rest[1] = Head(ds) - n
          /\ \A i \in 1..Len(Tail(ds)) : rest[i + 1] = Tail(ds)[i]
      BY <1>2, <2>1, <3>2
    <3>4. Len(Tail(ds)) \in Nat /\ rest \in Seq(Nat)
      BY <1>2
    <3> HIDE DEF rest
    <3>5. rest # << >> /\ Head(rest) = Head(ds) - n
      BY <3>3, <3>4
    <3>6. Tail(rest) \in Seq(Nat) /\ Len(Tail(rest)) = Len(Tail(ds))
          /\ \A i \in 1..Len(Tail(rest)) : Tail(rest)[i] = rest[i + 1]
      BY <3>3, <3>4, <3>5, HeadTailProperties
    <3>7. \A i \in 1..Len(Tail(rest)) : Tail(rest)[i] = Tail(ds)[i]
      BY <3>3, <3>6
    <3>8. Tail(rest) = Tail(ds)
      BY <1>2, <3>6, <3>7, SeqEqual
    <3>9. QED
      BY <3>5, <3>8
  <2>3. rest \in Seq(Int)
    BY <1>2
  <2> HIDE DEF rest
  <2>4. Total(rest) = Head(ds) - n + Total(Tail(ds))
    BY <2>2, <2>3, TotalTail
  <2>5. Total(rest) = Total(Unread(ds, n))
    BY DEF rest
  <2>6. QED
    BY <1>2, <1>3, <1>4, <2>4, <2>5
<1>5. CASE ~(n < Head(ds))
  <2>1. Unread(ds, n) = Tail(ds) /\ n = Head(ds)
    BY <1>2, <1>5 DEF Unread
  <2>2. QED
    BY <1>2, <1>3, <2>1
<1>6. QED
  BY <1>4, <1>5

\* A datagram arrives, and is announced.
LEMMA PromiseArrives ==
  ASSUME ChannelInv, TypeInv', Promise, NEW h \in ModemHandles, DatagramArrives(h)
  PROVE  Promise'
<1> USE DEF tableVars, threadVars
<1>a. TypeInv /\ modem \in [ModemHandles -> ModemSocket]
  BY DEF ChannelInv, TypeInv, DataTypes
<1>1. PICK n \in 1..MaxLength :
        /\ modem[h].open /\ line' = Append(line, Line("NSONMI", "none", h, n))
        /\ modem' = [modem EXCEPT ![h].waiting = Append(@, n)]
  BY DEF DatagramArrives, NoCommand
<1> DEFINE x == Line("NSONMI", "none", h, n)
<1>2. UNCHANGED <<sockets, handle, pc, call, cmd>>
  BY DEF DatagramArrives
<1>3. x \in FitLine /\ x.type = "NSONMI" /\ x.handle = h /\ x.n = n /\ n \in Int
  BY NumbersGiven DEF Line, FitLine, LineItem, Lengths
<1> HIDE DEF x
<1>4. \A k \in ModemHandles : modem'[k].open = modem[k].open /\ (k # h => modem'[k] = modem[k])
  BY <1>a, <1>1 DEF ModemSocket
<1>5. modem'[h].waiting = Append(modem[h].waiting, n)
  BY <1>a, <1>1 DEF ModemSocket
<1>6. Waiting(h)' = Waiting(h) + n
  <2>1. modem[h].waiting \in Seq(Int)
    <3>1. modem[h].waiting \in Seq(1..MaxLength)
      BY <1>a DEF ModemSocket
    <3>2. QED
      BY <3>1, NumbersGiven
  <2>2. Total(Append(modem[h].waiting, n)) = Total(modem[h].waiting) + n
    BY <1>3, <2>1, TotalAppend
  <2>3. QED
    BY <1>5, <2>2 DEF Waiting
<1>7. ASSUME NEW k \in ModemHandles
      PROVE  Waiting(k)' = Waiting(k) + BytesOf(x, "NSONMI", k) /\ Waiting(k) \in Nat
             /\ Waiting(k)' \in Nat /\ BytesOf(x, "OK", k) = 0
  <2>1. Waiting(k) \in Nat /\ BytesOf(x, "OK", k) = 0 /\ Waiting(k)' \in Nat
    BY <1>a, <1>3, PromiseTypes, PromiseTypesAfter DEF BytesOf
  <2>2. CASE k = h
    BY <1>3, <1>6, <2>1, <2>2 DEF BytesOf
  <2>3. CASE k # h
    BY <1>3, <1>4, <2>1, <2>3 DEF BytesOf, Waiting
  <2>4. QED
    BY <2>1, <2>2, <2>3
<1>8. line' = Append(line, x)
  BY <1>1 DEF x
<1>9. ASSUME NEW k \in ModemHandles
      PROVE  /\ Waiting(k) + BytesOf(x, "NSONMI", k)
                  <= Waiting(k)' + (IF Reading THEN BytesOf(x, "OK", k) ELSE 0)
             /\ Waiting(k) + BytesOf(x, "NSONMI", k) <= Waiting(k)'
  BY <1>7
<1>10. QED
  BY <1>1, <1>2, <1>3, <1>4, <1>8, <1>9, PromiseSays

\* The command is refused, which says nothing of any socket.
LEMMA PromiseRefuses ==
  ASSUME ChannelInv, TypeInv', Promise, ModemRefuses
  PROVE  Promise'
<1> USE DEF tableVars, threadVars
<1> DEFINE x == Answer("ERROR", cmd.handle, 0)
<1>1. /\ line' = Append(line, x) /\ cmd # NoCommand /\ cmd' = NoCommand
      /\ UNCHANGED <<sockets, handle, pc, call, modem>>
  BY DEF ModemRefuses
<1>2. x \in FitLine /\ x.type = "ERROR"
  BY NumbersGiven
  DEF Answer, Line, FitLine, LineItem, Answers, ChannelInv, TypeInv, DataTypes, Command, Lengths
<1> HIDE DEF x
<1>3. ASSUME NEW k \in ModemHandles
      PROVE  /\ Waiting(k)' = Waiting(k) /\ Waiting(k) \in Nat
             /\ BytesOf(x, "OK", k) = 0 /\ BytesOf(x, "NSONMI", k) = 0
  BY <1>1, <1>2, PromiseTypes DEF BytesOf, Waiting, ChannelInv
<1>4. ASSUME NEW k \in ModemHandles
      PROVE  /\ Waiting(k) + BytesOf(x, "NSONMI", k)
                  <= Waiting(k)' + (IF Reading THEN BytesOf(x, "OK", k) ELSE 0)
             /\ Waiting(k) + BytesOf(x, "NSONMI", k) <= Waiting(k)'
  BY <1>3
<1>5. QED
  BY <1>1, <1>2, <1>4, PromiseSays

\* The thread whose command is with the modem.
LEMMA Asker ==
  ASSUME ChannelInv, cmd # NoCommand
  PROVE  \E t \in Threads :
           /\ pc[t] \in Awaiting /\ AwaitedCommand[pc[t]] = cmd.name
           /\ \A u \in Threads : pc[u] \in Awaiting => u = t
           /\ handle[t] \in Slots
<1>1. PICK t \in Threads : pc[t] \in Awaiting /\ AwaitedCommand[pc[t]] = cmd.name
  BY AwaitedNames DEF ChannelInv, Alternation
<1>2. \A u \in Threads : pc[u] \in Awaiting => u = t
  BY <1>1, OneWaits
<1>3. handle[t] \in Slots
  BY <1>1 DEF Awaiting, ChannelInv, TypeInv, OwnSlot
<1>4. QED
  BY <1>1, <1>2, <1>3

\* The command is carried out.
LEMMA PromiseExecutes ==
  ASSUME ChannelInv, TypeInv', Faultless, Promise, ModemExecutes, faults' = faults
  PROVE  Promise'
<1> USE DEF tableVars, threadVars
<1>a. TypeInv /\ modem \in [ModemHandles -> ModemSocket] /\ cmd \in Command
  BY DEF ChannelInv, TypeInv, DataTypes
<1>1. PICK a \in AnswerLines : CarryOut(a) /\ line' = Append(line, a)
  <2>1. faults \in Int
    BY NumbersGiven DEF ChannelInv, TypeInv, DataTypes
  <2>2. QED
    BY <2>1 DEF ModemExecutes
<1>2. cmd # NoCommand /\ cmd' = NoCommand /\ UNCHANGED <<sockets, handle, pc, call>>
  BY DEF ModemExecutes
<1>3. /\ a \in FitLine /\ a.type \in {"OK", "EMPTY"} /\ a.n \in Nat
      /\ \A k : BytesOf(a, "NSONMI", k) = 0 /\ BytesOf(a, "OK", k) \in Nat
  <2>1. a \in FitLine /\ a.type \in {"OK", "EMPTY"} /\ a.n \in Nat
    BY NumbersGiven DEF AnswerLines, FitLine, LineItem, Answers, Lengths
  <2>2. QED
    BY <2>1 DEF BytesOf
<1>4. PICK t \in Threads :
        /\ pc[t] \in Awaiting /\ AwaitedCommand[pc[t]] = cmd.name
        /\ \A u \in Threads : pc[u] \in Awaiting => u = t
        /\ handle[t] \in Slots
  BY <1>2, Asker
<1>5. \A s \in Slots : InUse(s) => IsOpen(sockets[s].modem_handle)
  BY <1>2, CommandUnderWay
<1>6. /\ cmd.name = "NSOCR" <=> pc[t] = "open"
      /\ cmd.name = "NSOCL" <=> pc[t] = "close"
      /\ cmd.name = "NSORF" <=> pc[t] = "recvRead"
  BY <1>4 DEF AwaitedCommand, Awaiting
<1>7. \A h \in ModemHandles : Waiting(h) \in Nat /\ Waiting(h)' \in Nat
  BY <1>a, PromiseTypes, PromiseTypesAfter
<1>8. CASE cmd.name = "NSOCR"
  <2>1. PICK h \in ModemHandles :
          ~modem[h].open /\ modem' = [modem EXCEPT ![h].open = TRUE] /\ a = Answer("OK", h, 0)
    BY <1>1, <1>8 DEF CarryOut
  <2>2. /\ modem'[h].open
        /\ \A k \in ModemHandles : modem'[k].waiting = modem[k].waiting /\ (k # h => modem'[k] = modem[k])
    BY <1>a, <2>1 DEF ModemSocket
  <2>3. \A s \in Slots : ~Holds(s, h)
    BY <1>5, <2>1, NumbersGiven DEF InUse, IsOpen, Holds
  <2>4. \A u \in Threads : pc[u] # "recvRead"
    BY <1>4, <1>6, <1>8 DEF Awaiting
  <2>5. ASSUME NEW k \in ModemHandles
        PROVE  /\ Waiting(k) + BytesOf(a, "NSONMI", k)
                    <= Waiting(k)' + (IF Reading THEN BytesOf(a, "OK", k) ELSE 0)
               /\ Waiting(k) + BytesOf(a, "NSONMI", k) <= Waiting(k)'
    <3>1. Waiting(k)' = Waiting(k)
      BY <2>2 DEF Waiting
    <3>2. QED
      BY <1>3, <1>7, <3>1
  <2>6. a.type # "NSONMI"
    BY <1>3
  <2>7. \A k \in ModemHandles : ~modem[k].open /\ modem'[k].open => k = h
    BY <2>2
  <2>8. \A k \in ModemHandles : ~modem'[k].open => ~modem[k].open
    BY <2>2
  <2>9. QED
    BY <1>1, <1>2, <1>3, <2>3, <2>4, <2>5, <2>6, <2>7, <2>8, PromiseSays
<1>9. CASE cmd.name = "NSOCL"
  <2>1. /\ cmd.handle \in ModemHandles /\ a = Answer("OK", cmd.handle, 0)
        /\ modem' = [modem EXCEPT ![cmd.handle] = ClosedSocket]
    BY <1>1, <1>9 DEF CarryOut, IsOpen
  <2>2. Closes(t, cmd.handle)
    BY <1>2, <1>6, <1>9 DEF Closes, Holds, Faultless, SlotsMatch, ClosesItsOwn
  <2>3. /\ ~modem'[cmd.handle].open
        /\ \A k \in ModemHandles : k # cmd.handle => modem'[k] = modem[k]
    BY <1>a, <2>1 DEF ClosedSocket
  <2>4. \A u \in Threads : pc[u] # "recvRead"
    BY <1>4, <1>6, <1>9 DEF Awaiting
  <2>5. ASSUME NEW k \in ModemHandles, modem'[k].open
        PROVE  /\ Waiting(k) + BytesOf(a, "NSONMI", k)
                    <= Waiting(k)' + (IF Reading THEN BytesOf(a, "OK", k) ELSE 0)
               /\ Waiting(k) + BytesOf(a, "NSONMI", k) <= Waiting(k)'
    <3>1. Waiting(k)' = Waiting(k)
      BY <2>3, <2>5 DEF Waiting
    <3>2. QED
      BY <1>3, <1>7, <3>1
  <2>6. a.type = "OK"
    BY <2>1 DEF Answer, Line
  <2>7. \A k \in ModemHandles : ~(~modem[k].open /\ modem'[k].open)
    BY <2>3
  <2>8. \A k \in ModemHandles : ~modem'[k].open /\ modem[k].open => k = cmd.handle
    BY <2>3
  <2>9. QED
    BY <1>1, <1>2, <1>3, <2>2, <2>4, <2>5, <2>6, <2>7, <2>8, PromiseSays
<1>10. CASE cmd.name = "NSORF"
  <2>a. PICK g \in ModemHandles : g = cmd.handle
    BY <1>1, <1>10 DEF CarryOut, IsOpen
  <2>1. Reading /\ Holds(handle[t], g) /\ cmd.n = call[t].blk
    BY <1>2, <1>6, <1>10, <2>a DEF Reading, Promise, ReadsOwn
  <2>2. /\ IsOpen(g)
        /\ \/ a = Answer("EMPTY", g, 0) /\ UNCHANGED modem
           \/ /\ modem[g].waiting # << >>
              /\ a = Answer("OK", g, AtMost(cmd.n, Head(modem[g].waiting)))
              /\ modem' = [modem EXCEPT ![g].waiting = Unread(modem[g].waiting, a.n)]
    BY <1>1, <1>10, <2>a DEF CarryOut
  <2>3. g \in ModemHandles /\ cmd.n \in Nat /\ modem[g].waiting \in Seq(1..MaxLength)
    BY <1>a, <2>2, <2>a, NumbersGiven DEF IsOpen, Command, ModemSocket
  <2>4. /\ \A k \in ModemHandles : modem'[k].open = modem[k].open
        /\ \A k \in ModemHandles : k # g => modem'[k] = modem[k]
    <3>1. CASE modem' = modem
      BY <3>1
    <3>2. CASE modem' = [modem EXCEPT ![g].waiting = Unread(modem[g].waiting, a.n)]
      <4>1. modem' = [modem EXCEPT ![g] =
                        [modem[g] EXCEPT !.waiting = Unread(modem[g].waiting, a.n)]]
        BY <3>2
      <4>2. modem[g] \in ModemSocket
        BY <1>a, <2>3
      <4>3. QED
        BY <1>a, <2>3, <4>1, <4>2 DEF ModemSocket
    <3>3. QED
      BY <2>2, <3>1, <3>2
  <2>5. /\ a.handle = g
        /\ Waiting(g) <= Waiting(g)' + BytesOf(a, "OK", g)
        /\ a.type = "OK" => a.n <= cmd.n
    <3>1. CASE a = Answer("EMPTY", g, 0) /\ UNCHANGED modem
      <4>1. Waiting(g)' = Waiting(g)
        BY <3>1 DEF Waiting
      <4>2. a.handle = g /\ a.type = "EMPTY"
        BY <3>1 DEF Answer, Line
      <4>3. BytesOf(a, "OK", g) = 0
        BY <4>2 DEF BytesOf
      <4>4. Waiting(g) \in Nat
        BY <1>7, <2>3
      <4>5. QED
        BY <4>1, <4>2, <4>3, <4>4
    <3>2. CASE /\ modem[g].waiting # << >>
               /\ a = Answer("OK", g, AtMost(cmd.n, Head(modem[g].waiting)))
               /\ modem' = [modem EXCEPT ![g].waiting = Unread(modem[g].waiting, a.n)]
      <4> DEFINE ds == modem[g].waiting
      <4>1. Head(ds) \in 1..MaxLength
        BY <2>3, <3>2, HeadTypes
      <4>2. /\ a.type = "OK" /\ a.handle = g /\ a.n = AtMost(cmd.n, Head(ds))
            /\ a.n <= Head(ds) /\ a.n <= cmd.n
        <5>1. a.type = "OK" /\ a.handle = g /\ a.n = AtMost(cmd.n, Head(ds))
          BY <3>2 DEF Answer, Line
        <5>2. cmd.n \in Nat /\ Head(ds) \in Nat
          BY <2>3, <4>1, NumbersGiven
        <5> HIDE DEF ds
        <5>3. QED
          BY <5>1, <5>2 DEF AtMost
      <4>3. Total(ds) = Total(Unread(ds, a.n)) + a.n
        BY <1>3, <2>3, <3>2, <4>2, UnreadTotal
      <4>4. modem'[g].waiting = Unread(ds, a.n)
        <5>1. modem' = [modem EXCEPT ![g] =
                          [modem[g] EXCEPT !.waiting = Unread(ds, a.n)]]
          BY <3>2
        <5>2. modem[g] \in ModemSocket
          BY <1>a, <2>3
        <5>3. QED
          BY <1>a, <2>3, <5>1, <5>2 DEF ModemSocket
      <4>5. Waiting(g) = Waiting(g)' + a.n
        BY <4>3, <4>4 DEF Waiting
      <4>6. BytesOf(a, "OK", g) = a.n
        BY <4>2 DEF BytesOf
      <4>7. QED
        BY <1>3, <1>7, <2>3, <4>2, <4>5, <4>6
    <3>3. QED
      BY <2>2, <3>1, <3>2
  <2>6. ASSUME NEW k \in ModemHandles
        PROVE  /\ Waiting(k) + BytesOf(a, "NSONMI", k) <= Waiting(k)' + BytesOf(a, "OK", k)
               /\ NewHandle(k) => Waiting(k) + BytesOf(a, "NSONMI", k) <= Waiting(k)'
    <3>1. CASE k = g
      <4>1. ~NewHandle(k)
        BY <1>4, <2>1, <3>1 DEF NewHandle, Holds
      <4>2. Waiting(k) <= Waiting(k)' + BytesOf(a, "OK", k) /\ Waiting(k) \in Nat
        BY <1>7, <2>5, <3>1
      <4>3. BytesOf(a, "NSONMI", k) = 0
        BY <1>3
      <4>4. QED
        BY <4>1, <4>2, <4>3
    <3>2. CASE k # g
      <4>1. Waiting(k)' = Waiting(k)
        BY <2>4, <3>2 DEF Waiting
      <4>2. QED
        BY <1>3, <1>7, <4>1
    <3>3. QED
      BY <3>1, <3>2
  <2>7. \A u \in Threads : pc[u] = "recvRead" /\ a.type = "OK" =>
          Holds(handle[u], a.handle) /\ a.n <= call[u].blk
    <3>1. \A u \in Threads : pc[u] = "recvRead" => u = t
      BY <1>4 DEF Awaiting
    <3>2. QED
      BY <2>1, <2>5, <3>1
  <2>8. a.type # "NSONMI"
    BY <1>3
  <2>9. QED
    BY <1>1, <1>2, <1>3, <2>1, <2>4, <2>6, <2>7, <2>8, PromiseSays
<1>11. CASE cmd.name \notin {"NSOCR", "NSOCL", "NSORF"}
  <2>1. modem' = modem
    BY <1>1, <1>11 DEF CarryOut
  <2>2. \A u \in Threads : pc[u] # "recvRead"
    BY <1>4, <1>6, <1>11 DEF Awaiting
  <2>3. ASSUME NEW k \in ModemHandles
        PROVE  /\ Waiting(k) + BytesOf(a, "NSONMI", k)
                    <= Waiting(k)' + (IF Reading THEN BytesOf(a, "OK", k) ELSE 0)
               /\ Waiting(k) + BytesOf(a, "NSONMI", k) <= Waiting(k)'
    <3>1. Waiting(k)' = Waiting(k)
      BY <2>1 DEF Waiting
    <3>2. QED
      BY <1>3, <1>7, <3>1
  <2>4. a.type # "NSONMI"
    BY <1>3
  <2>5. QED
    BY <1>1, <1>2, <1>3, <2>1, <2>2, <2>3, <2>4, PromiseSays
<1>12. QED
  BY <1>8, <1>9, <1>10, <1>11

\* What the application and the driver do.
LEMMA PromiseThread ==
  ASSUME ChannelInv, TypeInv', ~hasty', Faultless, Promise, NEW t \in Threads,
         StartCall(t) \/ ContinueCall(t) \/ TakeTurn(t) \/ TimerExpires(t)
  PROVE  Promise'
<1> USE DEF threadVars, tableVars, lockVars, modemVars, timeoutVars
<1>a. /\ TypeInv /\ {"idle", "sendLoop", "sendLock", "recvLoop", "recvWait"} \subseteq PCs
      /\ pc[t] # "idle" => handle[t] \in Slots
      /\ sockets \in [Slots -> SockCtrl] /\ pc \in [Actors -> PCs] /\ t \in Actors
      /\ call \in [Threads -> CallState]
  BY DEF ChannelInv, TypeInv, DataTypes, OwnSlot, PCs, InRecv, ControlInv, Actors
<1>1. ASSUME NEW l, Goto(t, l), l \notin Awaiting, pc[t] \notin Awaiting
      PROVE  \A u \in Threads : pc'[u] = pc[u] \/ (pc[u] \notin Awaiting /\ pc'[u] \notin Awaiting)
  BY <1>1, <1>a DEF Goto, Actors
<1>2. CASE socket_open(t) \/ socket_close(t) \/ SendBlock(t) \/ RecvRead(t)
  <2>1. PICK l \in Awaiting :
          /\ Goto(t, l) /\ cmd'.name = AwaitedCommand[l]
          /\ l = "recvRead" => RecvRead(t)
    BY <1>2 DEF socket_open, socket_close, SendBlock, RecvRead, BeginTurn, Send, AwaitedCommand, Awaiting
  <2>2. mtx \in {Nobody, t} /\ UNCHANGED <<line, sockets, modem>> /\ pc[t] \notin InRecv
    BY <1>2
    DEF socket_open, socket_close, SendBlock, RecvRead, BeginTurn, BeginCall, LOCK, InRecv
  <2>3. Asks(t, l)
    BY <2>1, <2>2, Silence DEF Asks, AnswersInTransit
  <2>4. CASE l = "recvRead"
    <3>1. /\ handle' = handle
          /\ cmd'.handle = sockets[handle[t]].modem_handle
          /\ cmd'.n = AtMost(sockets[handle[t]].pending, MaxRead)
          /\ call' = [call EXCEPT ![t].blk = AtMost(sockets[handle[t]].pending, MaxRead)]
      BY <2>1, <2>4 DEF RecvRead, BeginTurn, Send
    <3>2. call'[t].blk = AtMost(sockets[handle[t]].pending, MaxRead)
      BY <1>a, <3>1 DEF CallState
    <3>3. QED
      BY <2>1, <2>2, <2>3, <3>1, <3>2, PromiseAsk DEF Holds
  <2>5. QED
    BY <2>1, <2>2, <2>3, <2>4, PromiseAsk
<1>3. CASE \/ OpenNoMemory(t) \/ socket_sendto(t) \/ socket_recvfrom(t) \/ SendNoBuffer(t)
           \/ SendBuffer(t) \/ RecvNoBuffer(t) \/ RecvWait(t) \/ RecvReturns(t)
  <2>1. pc[t] \in {"idle", "sendLoop", "recvLoop"}
    BY <1>3
    DEF OpenNoMemory, socket_sendto, socket_recvfrom, BeginCall, SendNoBuffer, SendBuffer, RecvNoBuffer,
        RecvWait, BeginTurn, RecvReturns
  <2>2. PICK l \in {"idle", "sendLoop", "sendLock", "recvLoop", "recvWait"} : Goto(t, l)
    BY <1>3
    DEF OpenNoMemory, socket_sendto, socket_recvfrom, SendNoBuffer, SendBuffer, RecvNoBuffer, RecvWait,
        RecvReturns, Return
  <2>3. UNCHANGED <<sockets, handle, cmd, line, modem>>
    BY <1>3
    DEF OpenNoMemory, socket_sendto, socket_recvfrom, SendNoBuffer, SendBuffer, RecvNoBuffer, RecvWait,
        BeginTurn, RecvReturns
  <2>4. \/ call' = call
        \/ call' = [call EXCEPT ![t] = NoCall]
        \/ \E n, m : call' = [call EXCEPT ![t] = [NoCall EXCEPT !.size = n, !.blk = m]]
        \/ \E m : call' = [call EXCEPT ![t].blk = m]
    BY <1>3
    DEF OpenNoMemory, socket_sendto, socket_recvfrom, BeginCall, SendNoBuffer, SendBuffer, RecvNoBuffer,
        RecvWait, RecvReturns, Return
  <2>5. \A u \in Threads : pc[u] = "recvRead" => call'[u].blk = call[u].blk
    <3>1. \A u \in Threads : u # t => call'[u] = call[u]
      BY <1>a, <2>4
    <3>2. QED
      BY <2>1, <3>1
  <2>6. QED
    BY <1>1, <2>1, <2>2, <2>3, <2>5, PromiseOutside DEF Awaiting
<1>4. CASE socket_attach(t)
  <2>1. PICK set \in BOOLEAN : sockets' = [sockets EXCEPT ![handle[t]].callback = set]
    BY <1>4 DEF socket_attach
  <2>2. \A s \in Slots : /\ sockets'[s].modem_handle = sockets[s].modem_handle
                         /\ sockets'[s].pending = sockets[s].pending
    BY <1>a, <2>1 DEF SockCtrl
  <2>3. UNCHANGED <<handle, pc, cmd, line, modem, call>>
    BY <1>4 DEF socket_attach
  <2>4. QED
    BY <2>2, <2>3, PromiseOutside
<1>5. CASE TimerExpires(t)
  <2>1. UNCHANGED <<sockets, handle, pc, cmd, line, modem>>
    BY <1>5 DEF TimerExpires
  <2>2. \A u \in Threads : call'[u].blk = call[u].blk
    BY <1>5, <1>a DEF TimerExpires, CallState
  <2>3. QED
    BY <2>1, <2>2, PromiseOutside
<1>6. CASE RecvWaited(t)
  <2>1. /\ Goto(t, "recvLoop") /\ pc[t] = "recvWait" /\ mtx = t /\ NothingMore
        /\ UNCHANGED <<sockets, handle, cmd, modem, call>>
    BY <1>6 DEF RecvWaited, Receiving, EndTurn
  <2>2. line' = line
    BY <1>a, <2>1, NothingComes DEF Awaiting
  <2>3. QED
    BY <1>1, <2>1, <2>2, PromiseOutside DEF Awaiting
<1>7. CASE OpenCreated(t) \/ CloseDone(t) \/ CloseFails(t)
  BY <1>7, PromiseHearOpen, PromiseHearClose
<1>8. CASE OpenFails(t) \/ SendGot(t) \/ SendFails(t) \/ RecvGot(t) \/ RecvSizeUnread(t) \/ RecvFails(t)
  BY <1>8, PromiseHearData
<1>9. QED
  BY <1>2, <1>3, <1>4, <1>5, <1>6, <1>7, <1>8 DEF StartCall, ContinueCall, TakeTurn

\* A URC is counted for the socket it names.
LEMMA PromiseCounts ==
  ASSUME ChannelInv, TypeInv', Faultless, Promise, NEW a \in Actors, NSONMI_URC(a)
  PROVE  Promise'
<1> USE DEF threadVars, tableVars, lockVars, timeoutVars
<1>a. /\ TypeInv /\ line \in Seq(FitLine) /\ sockets \in [Slots -> SockCtrl]
  BY DEF ChannelInv, TypeInv, DataTypes
<1>1. /\ UNCHANGED <<handle, pc, call, cmd, modem>>
      /\ line # << >> /\ Head(line).type = "NSONMI" /\ line' = Tail(line)
  BY DEF NSONMI_URC, HandleURC, Arrived
<1>2. Head(line) \in FitLine /\ Head(line).n \in Nat /\ Head(line).handle # SOCKET_UNUSED
  <2>1. Head(line) \in FitLine
    BY <1>a, <1>1, HeadTypes
  <2>2. QED
    BY <1>1, <2>1, NumbersGiven DEF FitLine, LineItem, Lengths, SOCKET_UNUSED
<1>3. \A s \in Slots : sockets[s].pending \in Nat
  BY <1>a, SlotTypes
<1>4. \A s \in Slots :
        /\ sockets'[s].modem_handle = sockets[s].modem_handle
        /\ sockets'[s].pending =
             sockets[s].pending + BytesOf(Head(line), "NSONMI", sockets[s].modem_handle)
  <2>1. CASE NotFound(Head(line).handle) /\ sockets' = sockets
    <3>1. \A s \in Slots : BytesOf(Head(line), "NSONMI", sockets[s].modem_handle) = 0
      BY <2>1 DEF NotFound, BytesOf
    <3>2. QED
      BY <1>3, <2>1, <3>1
  <2>2. ASSUME NEW r \in Slots, find_socket(r, Head(line).handle),
               sockets' = [sockets EXCEPT ![r].pending = @ + Head(line).n]
        PROVE  \A s \in Slots :
                 /\ sockets'[s].modem_handle = sockets[s].modem_handle
                 /\ sockets'[s].pending =
                      sockets[s].pending + BytesOf(Head(line), "NSONMI", sockets[s].modem_handle)
    <3>1. \A s \in Slots : Head(line).handle = sockets[s].modem_handle <=> s = r
      BY <1>2, <2>2 DEF find_socket, Faultless, SlotsMatch, HandlesDiffer, InUse
    <3>2. \A s \in Slots : BytesOf(Head(line), "NSONMI", sockets[s].modem_handle) =
                             IF s = r THEN Head(line).n ELSE 0
      BY <1>1, <3>1 DEF BytesOf
    <3>3. /\ \A s \in Slots : sockets'[s].modem_handle = sockets[s].modem_handle
          /\ sockets'[r].pending = sockets[r].pending + Head(line).n
          /\ \A s \in Slots : s # r => sockets'[s] = sockets[s]
      BY <1>a, <2>2 DEF SockCtrl
    <3>4. QED
      BY <1>3, <3>2, <3>3
  <2>3. QED
    BY <2>1, <2>2 DEF NSONMI_URC
<1>5. QED
  BY <1>1, <1>4, PromiseOutside

LEMMA PromiseStep == ChannelInv /\ TypeInv' /\ FaultlessInv /\ PromiseInv /\ [Next]_vars => PromiseInv'
<1> SUFFICES ASSUME ChannelInv, TypeInv', FaultlessInv, PromiseInv, [Next]_vars, faults' = MaxFaults
             PROVE  Promise'
  BY DEF PromiseInv
<1> USE DEF threadVars, tableVars, lockVars, modemVars, timeoutVars
<1>1. faults' = faults /\ Faultless /\ Promise /\ ~hasty'
  BY FaultsLeft DEF FaultlessInv, PromiseInv, ChannelInv
<1>2. CASE EventBegin \/ EventEnd
  <2>1. \A t \in Threads : pc'[t] = pc[t]
    BY <1>2, NumbersGiven DEF EventBegin, EventEnd, Goto, ChannelInv, TypeInv, ControlInv, Actors
  <2>2. UNCHANGED <<sockets, handle, call, cmd, modem>>
    BY <1>2 DEF EventBegin, EventEnd
  <2>3. line' = line
    <3>1. CASE EventBegin
      BY <3>1 DEF EventBegin
    <3>2. CASE EventEnd
      <4>1. EventThread \in Actors /\ pc[EventThread] \notin Awaiting /\ mtx = EventThread
        BY <3>2 DEF EventEnd, Receiving, Actors, Awaiting
      <4>2. QED
        BY <3>2, <4>1, NothingComes DEF EventEnd
    <3>3. QED
      BY <1>2, <3>1, <3>2
  <2>4. QED
    BY <1>1, <2>1, <2>2, <2>3, PromiseOutside
<1>3. CASE UNCHANGED vars
  <2>1. UNCHANGED <<sockets, handle, pc, call, cmd, line, modem>>
    BY <1>3 DEF vars
  <2>2. QED
    BY <1>1, <2>1, PromiseOutside
<1>4. QED
  BY <1>1, <1>2, <1>3, PromiseThread, PromiseCounts, PromiseExecutes, PromiseRefuses, PromiseArrives,
     NothingSkipped
  DEF Next

LEMMA PromiseAlways == Spec => [](TypeInv /\ PromiseInv)
<1>1. DriverInv /\ DriverInv' /\ FaultlessInv /\ PromiseInv /\ [Next]_vars => PromiseInv'
  <2>1. SUFFICES ASSUME DriverInv, DriverInv', FaultlessInv, PromiseInv, [Next]_vars,
                        faults' = MaxFaults
                 PROVE  PromiseInv'
    BY DEF PromiseInv
  <2>2. ChannelInv /\ TypeInv'
    BY <2>1, FaultsLeft, UntilAFault DEF DriverInv
  <2>3. QED
    BY <2>1, <2>2, PromiseStep
<1>2. DriverInv => TypeInv
  BY DEF DriverInv
<1>3. QED
  BY <1>1, <1>2, FaultlessAlways, PromiseInit, PTL DEF Spec

\* PendingIsThere: socket_recvfrom() finds what it counts as pending, until an
\* answer is lost: what a socket has counted and what is still announced to it
\* is with the modem or in an answer on the line.
THEOREM PendingIsKept == Spec => []PendingIsThere
<1>1. TypeInv /\ PromiseInv => PendingIsThere
  <2> SUFFICES ASSUME TypeInv, Promise, NEW s \in Slots, IsOpen(sockets[s].modem_handle)
               PROVE  LET h == sockets[s].modem_handle IN
                        sockets[s].pending + BytesInTransit("NSONMI", h)
                          <= Total(modem[h].waiting) + BytesInTransit("OK", h)
    BY DEF PromiseInv, PendingIsThere
  <2> DEFINE h == sockets[s].modem_handle
  <2>1. h \in ModemHandles /\ modem[h].open /\ Holds(s, h)
    BY DEF IsOpen, Holds
  <2>2. sockets[s].pending + Announced(h) <= Waiting(h) + Delivered(h)
    BY <2>1 DEF Promise, PromiseKept
  <2> HIDE DEF h
  <2>3. /\ Announced(h) \in Nat /\ Waiting(h) \in Nat /\ sockets[s].pending \in Nat
        /\ Delivered(h) \in Nat /\ BytesInTransit("OK", h) \in Nat
    BY <2>1, PromiseTypes, SlotTypes, BytesOfTypes DEF TypeInv, DataTypes
  <2>4. Delivered(h) <= BytesInTransit("OK", h)
    BY <2>3 DEF Delivered
  <2>5. sockets[s].pending + Announced(h) <= Waiting(h) + BytesInTransit("OK", h)
    BY <2>2, <2>3, <2>4
  <2>6. QED
    BY <2>5 DEF h, Announced, Waiting
<1>2. QED
  BY <1>1, PromiseAlways, PTL
================================================================================
