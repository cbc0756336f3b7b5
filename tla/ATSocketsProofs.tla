---------------------------- MODULE ATSocketsProofs ----------------------------
(***************************************************************************)
(* Theorems about ATSockets, for every number of threads, slots and modem  *)
(* handles and whatever the modem and the network do.                      *)
(***************************************************************************)
EXTENDS ATSockets, TLAPS

(***************************************************************************)
(* The mutex and the AT timeout.  A thread is at a pc of Holding exactly   *)
(* while it owns the mutex, and at one of Saving exactly while it owes the *)
(* next owner the timeout it found.                                        *)
(***************************************************************************)

Waiting == {"open", "close", "bindType", "bindClose", "bindOpen", "connect",
            "sendWait", "recvRead"}
Saving == {"recvRead", "recvWait", "urcs"}
Holding == Waiting \cup Saving

ControlType ==
  /\ mtx \in Actors \cup {Nobody}
  /\ pc \in [Actors -> PCs]
  /\ saved \in [Actors -> Timeouts]
  /\ \A a \in Actors : pc[a] \in {"poll", "urcs"} <=> a = EventThread

TimeoutInv ==
  /\ ControlType
  /\ \A a \in Actors : pc[a] \in Holding <=> mtx = a
  /\ \A a \in Actors : pc[a] \in Saving => saved[a] = AtDefault
  /\ (\A a \in Actors : pc[a] \notin Saving) => at_timeout = AtDefault

LEMMA TimeoutInvInit == Init => TimeoutInv
<1> SUFFICES ASSUME Init
             PROVE  TimeoutInv
  OBVIOUS
<1>1. /\ mtx = Nobody
      /\ at_timeout = AtDefault
      /\ saved = [a \in Actors |-> AtDefault]
      /\ pc = [a \in Actors |-> IF a = EventThread THEN "poll" ELSE "idle"]
  BY DEF Init
<1>2. ControlType
  BY <1>1, ThreadsAssumption DEF ControlType, Actors, PCs, Timeouts
<1>3. QED
  BY <1>1, <1>2, ThreadsAssumption DEF TimeoutInv, Actors, Holding, Waiting, Saving

\* The last act of the event thread and of a receive turn: the timeout is the
\* one saved when the turn took the mutex.
LEMMA TimeoutInvStep == TimeoutInv /\ [Next]_vars => TimeoutInv'
<1> SUFFICES ASSUME TimeoutInv, [Next]_vars
             PROVE  TimeoutInv'
  OBVIOUS
<1> USE ThreadsAssumption
    DEF TimeoutInv, ControlType, Actors, PCs, Timeouts, Holding, Waiting, Saving,
        threadVars, timeoutVars, modemVars, driverVars
<1>1. ASSUME NEW a \in Actors, RunURC(a)
      PROVE  TimeoutInv'
  BY <1>1 DEF RunURC, HandleURC, UUSORD_URC, CallCallback, UUSOCL_URC, UUPSDD_URC
<1>2. CASE EventBegin
  BY <1>2 DEF EventBegin, LOCK, Goto
<1>3. CASE EventEnd
  BY <1>3 DEF EventEnd, Receiving, UNLOCK, Goto
<1>4. ASSUME NEW t \in Threads, StartCall(t)
      PROVE  TimeoutInv'
  <2>1. CASE socket_open(t)
    BY <2>1 DEF socket_open, BeginCall, LOCK, Goto
  <2>2. CASE OpenNoMemory(t)
    BY <2>2 DEF OpenNoMemory, Return, Goto
  <2>3. CASE socket_close(t) \/ socket_bind(t) \/ socket_connect(t)
    BY <2>3 DEF socket_close, socket_bind, socket_connect, BeginExchange, BeginCall, LOCK, Goto
  <2>4. CASE socket_attach(t)
    BY <2>4 DEF socket_attach, BeginCall, Goto
  <2>5. CASE socket_send(t)
    BY <2>5 DEF socket_send, BeginCall, Goto
  <2>6. CASE socket_recv(t)
    BY <2>6 DEF socket_recv, BeginCall, Goto
  <2>7. QED
    BY <1>4, <2>1, <2>2, <2>3, <2>4, <2>5, <2>6 DEF StartCall
<1>5. ASSUME NEW t \in Threads, ContinueCall(t)
      PROVE  TimeoutInv'
  <2> USE DEF GotOK, GotNothing, Receiving, EndExchange, EndTurn, Return, UNLOCK, Goto
  <2>1. CASE OpenCreated(t) \/ OpenFails(t)
    BY <2>1 DEF OpenCreated, OpenFails
  <2>2. CASE CloseDone(t) \/ CloseFails(t)
    BY <2>2 DEF CloseDone, CloseFails
  <2>3. CASE BindTypeKnown(t) \/ BindClosed(t)
    BY <2>3 DEF BindTypeKnown, BindClosed
  <2>4. CASE BindDone(t) \/ BindFails(t)
    BY <2>4 DEF BindDone, BindFails
  <2>5. CASE ConnectEnds(t)
    BY <2>5 DEF ConnectEnds
  <2>6. CASE AttachData(t)
    BY <2>6 DEF AttachData
  <2>7. CASE SendBlockDone(t) \/ SendFails(t) \/ SendReturns(t)
    BY <2>7 DEF SendBlockDone, SendFails, SendReturns
  <2>8. CASE RecvGotData(t)
    <3>1. pc' = [pc EXCEPT ![t] = "recvLoop"] \/ pc' = [pc EXCEPT ![t] = "idle"]
      BY <2>8 DEF RecvGotData
    <3>2. QED
      BY <2>8, <3>1 DEF RecvGotData
  <2>9. CASE RecvCutShort(t) \/ RecvFails(t) \/ RecvWaited(t)
    BY <2>9 DEF RecvCutShort, RecvFails, RecvWaited
  <2>10. QED
    BY <1>5, <2>1, <2>2, <2>3, <2>4, <2>5, <2>6, <2>7, <2>8, <2>9 DEF ContinueCall
<1>6. ASSUME NEW t \in Threads, TakeTurn(t)
      PROVE  TimeoutInv'
  <2>1. CASE SendBlock(t)
    BY <2>1 DEF SendBlock, LOCK, Goto
  <2>2. CASE RecvRead(t) \/ RecvWait(t)
    BY <2>2 DEF RecvRead, RecvWait, BeginTurn, LOCK, Goto
  <2>3. CASE RecvReturns(t)
    BY <2>3 DEF RecvReturns, Return, Goto
  <2>4. QED
    BY <1>6, <2>1, <2>2, <2>3 DEF TakeTurn
<1>7. ASSUME NEW t \in Threads, TimerExpires(t)
      PROVE  TimeoutInv'
  BY <1>7 DEF TimerExpires
<1>8. CASE ModemExecutes \/ ModemRefuses
  BY <1>8 DEF ModemExecutes, ModemRefuses
<1>9. ASSUME NEW h \in ModemHandles, DataArrives(h) \/ RemoteCloses(h) \/ ContextLost(h)
      PROVE  TimeoutInv'
  BY <1>9 DEF DataArrives, RemoteCloses, ContextLost, NetworkStep
<1>10. CASE UNCHANGED vars
  BY <1>10 DEF vars
<1>11. QED
  BY <1>1, <1>2, <1>3, <1>4, <1>5, <1>6, <1>7, <1>8, <1>9, <1>10 DEF Next

LEMMA TimeoutInvAlways == Spec => []TimeoutInv
  BY TimeoutInvInit, TimeoutInvStep, PTL DEF Spec

\* Whenever the mutex is free the AT timeout is the default one, so no call
\* ever starts under the 10 ms of handle_event() or the 1 s of a receive.
THEOREM TimeoutIsRestored == Spec => []TimeoutRestored
<1>1. TimeoutInv => TimeoutRestored
  BY ThreadsAssumption DEF TimeoutInv, ControlType, TimeoutRestored, Actors, Holding
<1>2. QED
  BY <1>1, TimeoutInvAlways, PTL

(***************************************************************************)
(* Types.  TypeOK is inductive once a thread inside a call is known to     *)
(* have a slot.                                                            *)
(***************************************************************************)

InCall == \A t \in Threads : pc[t] # "idle" => handle[t] \in Slots

TypeInv == TypeOK /\ InCall

LEMMA ConstantTypes ==
  /\ UnusedSocket \in SockCtrl
  /\ NoCall \in CallState
  /\ NoCommand \in Command
  /\ ClosedSocket \in ModemSocket
  BY SizesAssumption
  DEF UnusedSocket, SockCtrl, SOCKET_UNUSED, NoCall, CallState, OpNames, NoCommand, Command,
      ClosedSocket, ModemSocket

LEMMA Remainder ==
  ASSUME NEW x \in Int, NEW m \in Nat \ {0}
  PROVE  x % m \in 0..m - 1
  OBVIOUS

LEMMA SubtractPending ==
  ASSUME NEW c \in SockCtrl, NEW n \in Nat
  PROVE  [c EXCEPT !.pending = (@ - n) % PendingMod] \in SockCtrl
<1>1. (c.pending - n) % PendingMod \in 0..PendingMod - 1
  BY Remainder, SizesAssumption DEF SockCtrl
<1>2. QED
  BY <1>1 DEF SockCtrl

\* What a block moves from size to count leaves the call's sum within bounds.
LEMMA Transferred ==
  ASSUME NEW c \in CallState, NEW n \in Nat, NEW s \in Nat,
         n <= c.size, s = 0 \/ s = c.size - n
  PROVE  [c EXCEPT !.size = s, !.count = @ + n] \in CallState
<1>1. /\ c.size \in 0..MaxSize /\ c.count \in 0..MaxSize
      /\ c.size + c.count <= MaxSize
      /\ c \in [op : OpNames \cup {"none"}, size : 0..MaxSize, count : 0..MaxSize,
                expired : BOOLEAN]
  BY DEF CallState
<1>2. s \in 0..MaxSize /\ c.count + n \in 0..MaxSize /\ s + (c.count + n) <= MaxSize
  BY <1>1, SizesAssumption
<1>3. QED
  BY <1>1, <1>2 DEF CallState

LEMMA LineTypes ==
  ASSUME line \in Seq(LineItem), line # << >>
  PROVE  /\ Tail(line) \in Seq(LineItem)
         /\ Head(line) \in LineItem
         /\ Head(line).handle \in ModemHandles \cup {SOCKET_UNUSED}
         /\ Head(line).n \in Nat
<1>1. Tail(line) \in Seq(LineItem) /\ Head(line) \in LineItem
  OBVIOUS
<1>2. QED
  BY <1>1, SizesAssumption DEF LineItem

LEMMA AppendTypes ==
  ASSUME NEW q \in Seq(LineItem), NEW x \in LineItem
  PROVE  Append(q, x) \in Seq(LineItem)
  OBVIOUS

LEMMA HeardTypes ==
  ASSUME TypeInv, NEW t \in Threads, NEW l, GotOK(t, l) \/ GotNothing(t, l)
  PROVE  line' \in Seq(LineItem)
  BY LineTypes DEF TypeInv, TypeOK, GotOK, GotNothing, Arrived

LEMMA GotoTypes ==
  ASSUME TypeInv, NEW a \in Actors, NEW l \in PCs, Goto(a, l)
  PROVE  pc' \in [Actors -> PCs]
  BY DEF TypeInv, TypeOK, Goto

LEMMA GotoInCall ==
  ASSUME TypeInv, NEW t \in Threads, NEW l, Goto(t, l), handle[t] \in Slots, UNCHANGED handle
  PROVE  InCall'
  BY DEF TypeInv, TypeOK, Goto, InCall, Actors

LEMMA ReturnTypes ==
  ASSUME TypeInv, NEW t \in Threads, NEW r \in Results, Return(t, r)
  PROVE  /\ pc' \in [Actors -> PCs]
         /\ pc'[t] = "idle"
         /\ \A u \in Threads : u # t => pc'[u] = pc[u]
         /\ ret' \in [Threads -> Results]
         /\ call' \in [Threads -> CallState]
<1>1. Goto(t, "idle") /\ t \in Actors /\ "idle" \in PCs
  BY DEF Return, Actors, PCs
<1>2. pc' \in [Actors -> PCs]
  BY <1>1, GotoTypes
<1>3. pc'[t] = "idle" /\ \A u \in Threads : u # t => pc'[u] = pc[u]
  BY <1>1 DEF TypeInv, TypeOK, Goto, Actors
<1>4. QED
  BY <1>2, <1>3, ConstantTypes DEF TypeInv, TypeOK, Return

LEMMA BeginCallTypes ==
  ASSUME TypeInv, NEW t \in Threads, NEW op \in OpNames, NEW n \in 0..MaxSize,
         BeginCall(t, op, n)
  PROVE  call' \in [Threads -> CallState] /\ ret' \in [Threads -> Results]
<1>1. [op |-> op, size |-> n, count |-> 0, expired |-> FALSE] \in CallState
  BY SizesAssumption DEF CallState
<1>2. QED
  BY <1>1 DEF TypeInv, TypeOK, BeginCall, Results

LEMMA SendTypes ==
  ASSUME NEW name \in CommandNames, NEW h \in ModemHandles \cup {SOCKET_UNUSED}, NEW n \in Nat,
         Send(name, h, n)
  PROVE  cmd' \in Command
  BY DEF Send, Command

LEMMA SlotTypes ==
  ASSUME TypeInv, NEW s \in Slots
  PROVE  /\ sockets[s] \in SockCtrl
         /\ sockets[s].modem_handle \in ModemHandles \cup {SOCKET_UNUSED}
         /\ sockets[s].pending \in Nat
  BY SizesAssumption DEF TypeInv, TypeOK, SockCtrl

LEMMA TypeInvInit == Init => TypeInv
<1> SUFFICES ASSUME Init
             PROVE  TypeInv
  OBVIOUS
<1>1. /\ pc = [a \in Actors |-> IF a = EventThread THEN "poll" ELSE "idle"]
      /\ saved = [a \in Actors |-> AtDefault]
      /\ at_timeout = AtDefault
      /\ mtx = Nobody
  BY DEF Init
<1>2. pc \in [Actors -> PCs] /\ saved \in [Actors -> Timeouts] /\ at_timeout \in Timeouts
  BY <1>1 DEF PCs, Timeouts
<1>3. /\ sockets \in [Slots -> SockCtrl] /\ savedSocket \in [Threads -> SockCtrl]
      /\ call \in [Threads -> CallState] /\ modem \in [ModemHandles -> ModemSocket]
      /\ cmd \in Command
  BY ConstantTypes DEF Init
<1>4. /\ handle \in [Threads -> Slots \cup {NoSocket}] /\ ret \in [Threads -> Results]
      /\ calling \in Slots \cup {NoSocket} /\ notified \in BOOLEAN
  BY DEF Init, Results
<1>5. line \in Seq(LineItem) /\ faults \in 0..MaxFaults
  BY SizesAssumption DEF Init
<1>6. InCall
  BY <1>1, ThreadsAssumption DEF InCall, Actors
<1>7. QED
  BY <1>1, <1>2, <1>3, <1>4, <1>5, <1>6 DEF TypeInv, TypeOK

LEMMA URCTypes ==
  ASSUME TypeInv, NEW a \in Actors, RunURC(a)
  PROVE  TypeInv'
<1> USE DEF TypeInv, TypeOK, InCall, threadVars, timeoutVars, modemVars
<1>1. CASE CallCallback(a)
  BY <1>1 DEF CallCallback
<1>2. CASE UUSORD_URC(a)
  <2>1. HandleURC(a, "UUSORD") /\ line \in Seq(LineItem) /\ line # << >>
    BY <1>2 DEF UUSORD_URC, HandleURC, Arrived
  <2>2. \A s \in Slots : [sockets[s] EXCEPT !.pending = Head(line).n] \in SockCtrl
    <3>1. Head(line).n \in 0..PendingMod - 1
      BY <2>1, LineTypes, SizesAssumption DEF LineItem
    <3>2. \A s \in Slots : sockets[s] \in SockCtrl
      OBVIOUS
    <3>3. QED
      BY <3>1, <3>2 DEF SockCtrl
  <2>3. sockets' \in [Slots -> SockCtrl] /\ calling' \in Slots \cup {NoSocket}
    BY <1>2, <2>2 DEF UUSORD_URC
  <2>4. QED
    BY <1>2, <2>1, <2>3, LineTypes DEF UUSORD_URC, HandleURC
<1>3. CASE UUSOCL_URC(a) \/ UUPSDD_URC(a)
  <2>1. \E type : HandleURC(a, type) /\ line \in Seq(LineItem) /\ line # << >>
    BY <1>3 DEF UUSOCL_URC, UUPSDD_URC, HandleURC, Arrived
  <2>2. sockets' \in [Slots -> SockCtrl]
    BY <1>3, ConstantTypes DEF UUSOCL_URC, UUPSDD_URC, ClearByHandle, clear_socket
  <2>3. calling' = calling /\ notified' \in BOOLEAN
    BY <1>3 DEF UUSOCL_URC, UUPSDD_URC
  <2>4. QED
    BY <2>1, <2>2, <2>3, LineTypes DEF HandleURC
<1>4. QED
  BY <1>1, <1>2, <1>3 DEF RunURC

LEMMA StartTypes ==
  ASSUME TypeInv, NEW t \in Threads, StartCall(t)
  PROVE  TypeInv'
<1> USE DEF TypeInv, TypeOK, InCall, timeoutVars, modemVars, driverVars
<1>a. t \in Actors /\ {"open", "close", "bindType", "connect", "attach", "sendLoop", "recvLoop"} \subseteq PCs
  BY DEF Actors, PCs
<1>b. /\ {"open", "close", "bind", "connect", "attach", "detach", "send", "recv", "recvfrom"}
           \subseteq OpNames
      /\ {"USOCR", "USOCL", "USOCTL", "USOCO"} \subseteq CommandNames
      /\ 0 \in 0..MaxSize /\ 1..MaxSize \subseteq 0..MaxSize
      /\ SOCKET_UNUSED \in ModemHandles \cup {SOCKET_UNUSED}
  BY SizesAssumption DEF OpNames, CommandNames
<1>1. CASE socket_open(t)
  <2>1. cmd' \in Command
    BY <1>1, <1>b, SendTypes DEF socket_open
  <2>2. call' \in [Threads -> CallState] /\ ret' \in [Threads -> Results]
    BY <1>1, <1>b, BeginCallTypes DEF socket_open
  <2>3. pc' \in [Actors -> PCs]
    BY <1>1, <1>a, GotoTypes DEF socket_open
  <2>4. handle' \in [Threads -> Slots \cup {NoSocket}] /\ InCall'
    BY <1>1, <1>a DEF socket_open, Goto, Actors
  <2>5. QED
    BY <1>1, <2>1, <2>2, <2>3, <2>4, <1>a DEF socket_open, LOCK
<1>2. CASE OpenNoMemory(t)
  <2>1. "NO_MEMORY" \in Results
    BY DEF Results
  <2>2. QED
    BY <1>2, <2>1, ReturnTypes DEF OpenNoMemory
<1>3. ASSUME NEW op \in OpNames, NEW name \in CommandNames, NEW l \in PCs,
             BeginExchange(t, op, name, l)
      PROVE  TypeInv'
  <2>1. handle[t] \in Slots
    BY <1>3 DEF BeginExchange
  <2>2. cmd' \in Command
    BY <1>3, <2>1, SlotTypes, SendTypes DEF BeginExchange
  <2>3. call' \in [Threads -> CallState] /\ ret' \in [Threads -> Results]
    BY <1>3, <1>b, BeginCallTypes DEF BeginExchange
  <2>4. pc' \in [Actors -> PCs]
    BY <1>3, <1>a, GotoTypes DEF BeginExchange
  <2>5. InCall'
    BY <1>3, <1>a, <2>1 DEF BeginExchange, Goto, Actors
  <2>6. QED
    BY <1>3, <1>a, <2>2, <2>3, <2>4, <2>5 DEF BeginExchange, LOCK
<1>4. CASE socket_close(t) \/ socket_bind(t) \/ socket_connect(t)
  BY <1>3, <1>4, <1>a, <1>b DEF socket_close, socket_bind, socket_connect
<1>5. CASE socket_attach(t)
  <2> PICK op \in {"attach", "detach"} :
        /\ handle[t] # NoSocket
        /\ BeginCall(t, op, 0)
        /\ sockets' = [sockets EXCEPT ![handle[t]].callback = (op = "attach")]
        /\ Goto(t, "attach")
        /\ UNCHANGED <<handle, savedSocket, calling, timeoutVars, modemVars, mtx, notified>>
    BY <1>5 DEF socket_attach
  <2>1. handle[t] \in Slots
    OBVIOUS
  <2>2. [sockets[handle[t]] EXCEPT !.callback = (op = "attach")] \in SockCtrl
    BY <2>1, SlotTypes DEF SockCtrl
  <2>3. sockets' \in [Slots -> SockCtrl]
    BY <2>2
  <2>4. call' \in [Threads -> CallState] /\ ret' \in [Threads -> Results]
    BY <1>b, BeginCallTypes
  <2>5. pc' \in [Actors -> PCs]
    BY <1>a, GotoTypes
  <2>6. InCall'
    BY <1>a, <2>1 DEF Goto, Actors
  <2>7. QED
    BY <2>3, <2>4, <2>5, <2>6
<1>6. CASE socket_send(t) \/ socket_recv(t)
  <2> PICK op \in OpNames, n \in 0..MaxSize, l \in {"sendLoop", "recvLoop"} :
        /\ handle[t] # NoSocket
        /\ BeginCall(t, op, n)
        /\ Goto(t, l)
        /\ UNCHANGED <<driverVars, timeoutVars, modemVars, mtx, notified>>
    BY <1>6, <1>b DEF socket_send, socket_recv
  <2>1. call' \in [Threads -> CallState] /\ ret' \in [Threads -> Results]
    BY BeginCallTypes
  <2>2. pc' \in [Actors -> PCs]
    BY <1>a, GotoTypes
  <2>3. InCall'
    BY <1>a DEF Goto, Actors
  <2>4. QED
    BY <2>1, <2>2, <2>3
<1>7. QED
  BY <1>1, <1>2, <1>4, <1>5, <1>6 DEF StartCall

LEMMA ContinueTypes ==
  ASSUME TypeInv, NEW t \in Threads, ContinueCall(t)
  PROVE  TypeInv'
<1> USE DEF TypeInv, TypeOK, timeoutVars, modemVars, driverVars
<1>a. /\ t \in Actors /\ {"bindClose", "bindOpen", "sendLoop", "recvLoop"} \subseteq PCs
      /\ {"OK", "NO_SOCKET", "DEVICE_ERROR", "CONNECTION_LOST"} \subseteq Results
      /\ {"USOCR", "USOCL"} \subseteq CommandNames
  BY DEF Actors, PCs, Results, CommandNames
\* While inside its call the thread has a slot.
<1>b. pc[t] # "idle" => handle[t] \in Slots
  BY DEF InCall
\* The end of an exchange: what is left to type is the slot and the handle.
<1>1. ASSUME NEW r \in Results, EndExchange(t, r), line' \in Seq(LineItem),
             sockets' \in [Slots -> SockCtrl],
             \/ handle' = handle
             \/ handle' = [handle EXCEPT ![t] = NoSocket]
      PROVE  TypeInv'
  <2>1. Return(t, r)
    BY <1>1 DEF EndExchange
  <2>2. InCall'
    BY <1>1, <2>1, ReturnTypes DEF InCall
  <2>3. mtx' \in Actors \cup {Nobody}
    BY <1>1 DEF EndExchange, UNLOCK
  <2>4. QED
    BY <1>1, <2>1, <2>2, <2>3, ReturnTypes DEF EndExchange
<1>2. CASE OpenCreated(t)
  <2>1. line' \in Seq(LineItem) /\ handle[t] \in Slots
    BY <1>2, <1>b, HeardTypes DEF OpenCreated, GotOK, Receiving
  <2>2. [UnusedSocket EXCEPT !.modem_handle = Head(line).handle] \in SockCtrl
    BY <1>2, LineTypes, ConstantTypes DEF OpenCreated, GotOK, Arrived, SockCtrl
  <2>3. sockets' \in [Slots -> SockCtrl]
    BY <1>2, <2>2 DEF OpenCreated
  <2>4. QED
    BY <1>1, <1>2, <1>a, <2>1, <2>3 DEF OpenCreated
<1>3. CASE OpenFails(t)
  BY <1>1, <1>3, <1>a, HeardTypes DEF OpenFails
<1>4. CASE CloseDone(t)
  BY <1>1, <1>4, <1>a, HeardTypes, ConstantTypes DEF CloseDone, clear_socket
<1>5. CASE CloseFails(t)
  BY <1>1, <1>5, <1>a, HeardTypes DEF CloseFails
<1>6. CASE BindTypeKnown(t) \/ BindClosed(t)
  <2>1. line' \in Seq(LineItem) /\ handle[t] \in Slots
    BY <1>6, <1>b, HeardTypes DEF BindTypeKnown, BindClosed, GotOK, Receiving
  <2>2. cmd' \in Command
    BY <1>6, <1>a, <2>1, SlotTypes, SendTypes DEF BindTypeKnown, BindClosed
  <2>3. sockets' \in [Slots -> SockCtrl] /\ savedSocket' \in [Threads -> SockCtrl]
    BY <1>6, <2>1, SlotTypes, ConstantTypes DEF BindTypeKnown, BindClosed, clear_socket
  <2>4. pc' \in [Actors -> PCs]
    BY <1>6, <1>a, GotoTypes DEF BindTypeKnown, BindClosed
  <2>5. InCall'
    BY <1>6, <2>1, GotoInCall DEF BindTypeKnown, BindClosed
  <2>6. QED
    BY <1>6, <2>1, <2>2, <2>3, <2>4, <2>5 DEF BindTypeKnown, BindClosed
<1>7. CASE BindDone(t)
  BY <1>1, <1>7, <1>a, HeardTypes DEF BindDone
<1>8. CASE BindFails(t)
  BY <1>1, <1>8, <1>a, HeardTypes DEF BindFails
<1>9. CASE ConnectEnds(t)
  BY <1>1, <1>9, <1>a, HeardTypes DEF ConnectEnds
<1>10. CASE AttachData(t)
  <2>1. handle[t] \in Slots
    BY <1>10, <1>b DEF AttachData
  <2>2. [sockets[handle[t]] EXCEPT !.data = (call[t].op = "attach")] \in SockCtrl
    BY <2>1, SlotTypes DEF SockCtrl
  <2>3. sockets' \in [Slots -> SockCtrl]
    BY <1>10, <2>2 DEF AttachData
  <2>4. InCall'
    BY <1>10, <1>a, ReturnTypes DEF AttachData, InCall
  <2>5. QED
    BY <1>10, <1>a, <2>3, <2>4, ReturnTypes DEF AttachData
<1>11. CASE SendBlockDone(t)
  <2> DEFINE blk == AtMost(MaxWrite, call[t].size)
  <2>1. call[t] \in CallState /\ call[t].size \in Nat /\ handle[t] \in Slots
    BY <1>11, <1>b DEF SendBlockDone, GotOK, Receiving, CallState
  <2>2. blk \in Nat /\ blk <= call[t].size /\ call[t].size - blk \in Nat
    BY <2>1, SizesAssumption DEF AtMost
  <2>3. [call[t] EXCEPT !.size = @ - blk, !.count = @ + blk] \in CallState
    BY <2>1, <2>2, Transferred
  <2>4. call' \in [Threads -> CallState]
    BY <1>11, <2>3 DEF SendBlockDone
  <2>5. pc' \in [Actors -> PCs] /\ InCall' /\ mtx' \in Actors \cup {Nobody}
    BY <1>11, <1>a, <2>1, GotoTypes DEF SendBlockDone, UNLOCK, Goto, InCall
  <2>6. QED
    BY <1>11, <2>4, <2>5, HeardTypes DEF SendBlockDone
<1>12. CASE SendFails(t)
  BY <1>1, <1>12, <1>a, HeardTypes DEF SendFails
<1>13. CASE SendReturns(t)
  <2>1. InCall'
    BY <1>13, <1>a, ReturnTypes DEF SendReturns, InCall
  <2>2. QED
    BY <1>13, <1>a, <2>1, ReturnTypes DEF SendReturns
<1>14. CASE RecvGotData(t)
  <2> DEFINE got == Head(line).n
             size == call[t].size
             n == AtMost(got, size)
             rest == IF call[t].op = "recvfrom" /\ (n < AtMost(MaxRead, size) \/ n = MaxRead)
                       THEN 0 ELSE size - n
  <2>1. /\ handle[t] \in Slots /\ sockets[handle[t]] \in SockCtrl
        /\ call[t] \in CallState /\ size \in Nat /\ got \in Nat
        /\ line' \in Seq(LineItem)
    BY <1>14, <1>b, SlotTypes, LineTypes, HeardTypes
    DEF RecvGotData, GotOK, Receiving, Arrived, CallState
  <2>2. sockets' \in [Slots -> SockCtrl]
    BY <1>14, <2>1, SubtractPending DEF RecvGotData
  <2>3. n \in Nat /\ n <= size /\ rest \in Nat /\ (rest = 0 \/ rest = size - n)
    BY <2>1 DEF AtMost
  <2>4. [call[t] EXCEPT !.size = rest, !.count = @ + n] \in CallState
    BY <2>1, <2>3, Transferred
  <2>5. CASE /\ Goto(t, "recvLoop")
             /\ call' = [call EXCEPT ![t].size = rest, ![t].count = @ + n]
             /\ UNCHANGED ret
    <3>1. call' \in [Threads -> CallState]
      BY <2>4, <2>5
    <3>2. pc' \in [Actors -> PCs] /\ InCall'
      BY <1>14, <1>a, <2>1, <2>5, GotoTypes DEF RecvGotData, EndTurn, Goto, InCall
    <3>3. QED
      BY <1>14, <1>a, <2>1, <2>2, <2>5, <3>1, <3>2 DEF RecvGotData, EndTurn, UNLOCK, Actors
  <2>6. CASE Return(t, "DEVICE_ERROR")
    <3>1. InCall'
      BY <1>14, <1>a, <2>6, ReturnTypes DEF RecvGotData, EndTurn, InCall
    <3>2. QED
      BY <1>14, <1>a, <2>1, <2>2, <2>6, <3>1, ReturnTypes DEF RecvGotData, EndTurn, UNLOCK, Actors
  <2>7. QED
    BY <1>14, <2>5, <2>6 DEF RecvGotData
<1>15. CASE RecvCutShort(t) \/ RecvFails(t)
  <2>1. line' \in Seq(LineItem) /\ handle[t] \in Slots
    BY <1>15, <1>b, LineTypes, HeardTypes DEF RecvCutShort, RecvFails, Arrived, Receiving, GotNothing
  <2>2. sockets' \in [Slots -> SockCtrl]
    BY <1>15, <2>1, LineTypes, SlotTypes, SubtractPending DEF RecvCutShort, RecvFails, Arrived
  <2>3. Return(t, "DEVICE_ERROR") /\ EndTurn(t)
    BY <1>15 DEF RecvCutShort, RecvFails
  <2>4. InCall'
    BY <1>a, <2>3, ReturnTypes DEF EndTurn, InCall
  <2>5. QED
    BY <1>a, <2>1, <2>2, <2>3, <2>4, ReturnTypes DEF EndTurn, UNLOCK, Actors
<1>16. CASE RecvWaited(t)
  <2>1. pc' \in [Actors -> PCs] /\ InCall'
    BY <1>16, <1>a, <1>b, GotoTypes DEF RecvWaited, Receiving, EndTurn, Goto, InCall
  <2>2. QED
    BY <1>16, <1>a, <2>1 DEF RecvWaited, EndTurn, UNLOCK, Actors
<1>17. QED
  BY <1>2, <1>3, <1>4, <1>5, <1>6, <1>7, <1>8, <1>9, <1>10, <1>11, <1>12, <1>13, <1>14, <1>15,
     <1>16 DEF ContinueCall

LEMMA TurnTypes ==
  ASSUME TypeInv, NEW t \in Threads, TakeTurn(t) \/ TimerExpires(t)
  PROVE  TypeInv'
<1> USE DEF TypeInv, TypeOK, timeoutVars, modemVars, driverVars
<1>a. /\ t \in Actors /\ {"sendWait", "recvRead", "recvWait"} \subseteq PCs
      /\ {"OK", "WOULD_BLOCK"} \subseteq Results
      /\ {"USOWR", "USORD"} \subseteq CommandNames
  BY DEF Actors, PCs, Results, CommandNames
<1>b. pc[t] # "idle" => handle[t] \in Slots
  BY DEF InCall
<1>c. AtMost(MaxWrite, call[t].size) \in Nat /\ AtMost(MaxRead, call[t].size) \in Nat
  BY SizesAssumption DEF AtMost, CallState
<1>1. CASE SendBlock(t)
  <2>1. cmd' \in Command /\ handle[t] \in Slots
    BY <1>1, <1>a, <1>b, <1>c, SlotTypes, SendTypes DEF SendBlock
  <2>2. pc' \in [Actors -> PCs] /\ InCall' /\ mtx' \in Actors \cup {Nobody}
    BY <1>1, <1>a, <2>1, GotoTypes DEF SendBlock, LOCK, Goto, InCall
  <2>3. QED
    BY <1>1, <2>1, <2>2 DEF SendBlock
<1>2. CASE RecvRead(t) \/ RecvWait(t)
  <2>1. handle[t] \in Slots /\ BeginTurn(t)
    BY <1>2, <1>b DEF RecvRead, RecvWait, BeginTurn
  <2>2. cmd' \in Command
    BY <1>2, <1>a, <1>c, <2>1, SlotTypes, SendTypes DEF RecvRead, RecvWait
  <2>3. pc' \in [Actors -> PCs] /\ InCall'
    BY <1>2, <1>a, <2>1, GotoTypes, GotoInCall DEF RecvRead, RecvWait, BeginTurn
  <2>4. /\ mtx' \in Actors \cup {Nobody} /\ at_timeout' \in Timeouts
        /\ saved' \in [Actors -> Timeouts]
    BY <1>a, <2>1 DEF BeginTurn, LOCK, Timeouts
  <2>5. QED
    BY <2>1, <2>2, <2>3, <2>4 DEF BeginTurn
<1>3. CASE RecvReturns(t)
  <2>1. PICK r \in Results : Return(t, r)
    BY <1>3, <1>a DEF RecvReturns
  <2>2. InCall'
    BY <1>3, <2>1, ReturnTypes DEF RecvReturns, InCall
  <2>3. QED
    BY <1>3, <2>1, <2>2, ReturnTypes DEF RecvReturns
<1>4. CASE TimerExpires(t)
  <2>1. [call[t] EXCEPT !.expired = TRUE] \in CallState
    BY DEF CallState
  <2>2. call' \in [Threads -> CallState]
    BY <1>4, <2>1 DEF TimerExpires
  <2>3. QED
    BY <1>4, <2>2 DEF TimerExpires, InCall
<1>5. QED
  BY <1>1, <1>2, <1>3, <1>4 DEF TakeTurn

LEMMA EventTypes ==
  ASSUME TypeInv, EventBegin \/ EventEnd
  PROVE  TypeInv'
<1> USE DEF TypeInv, TypeOK, modemVars, driverVars
<1>1. EventThread \in Actors /\ {"poll", "urcs"} \subseteq PCs
  BY DEF Actors, PCs
<1>2. pc' \in [Actors -> PCs] /\ InCall'
  BY <1>1, GotoTypes, ThreadsAssumption DEF EventBegin, EventEnd, Goto, InCall, Actors
<1>3. /\ at_timeout' \in Timeouts /\ saved' \in [Actors -> Timeouts]
      /\ mtx' \in Actors \cup {Nobody}
  BY <1>1 DEF EventBegin, EventEnd, LOCK, UNLOCK, Timeouts
<1>4. QED
  BY <1>2, <1>3 DEF EventBegin, EventEnd

LEMMA ModemTypes ==
  ASSUME TypeInv, ModemExecutes \/ ModemRefuses
  PROVE  TypeInv'
<1> USE DEF TypeInv, TypeOK, threadVars, timeoutVars, driverVars
<1>1. CASE ModemExecutes
  <2>1. PICK h \in ModemHandles, n \in 0..MaxRx :
          /\ CarryOut(h, n)
          /\ \/ line' = Append(line, Line("OK", h, n)) /\ UNCHANGED faults
             \/ /\ faults > 0 /\ faults' = faults - 1
                /\ \/ UNCHANGED line
                   \/ n > 0 /\ line' = Append(line, Line("CUT", h, n))
    BY <1>1 DEF ModemExecutes
  <2>2. Line("OK", h, n) \in LineItem /\ Line("CUT", h, n) \in LineItem
    BY DEF Line, LineItem, Answers
  <2>3. line' \in Seq(LineItem) /\ faults' \in 0..MaxFaults
    <3>0. line \in Seq(LineItem) /\ faults \in 0..MaxFaults
      OBVIOUS
    <3>1. line' \in Seq(LineItem)
      <4>1. \/ line' = Append(line, Line("OK", h, n))
            \/ line' = line
            \/ line' = Append(line, Line("CUT", h, n))
        BY <2>1, Zenon
      <4>2. QED
        BY <3>0, <4>1, <2>2, AppendTypes
    <3>2. faults' = faults \/ (faults > 0 /\ faults' = faults - 1)
      BY <2>1, Zenon
    <3>3. QED
      BY <3>1, <3>2, SizesAssumption
  <2>4. modem[h] \in ModemSocket
    OBVIOUS
  <2>5. /\ [open |-> TRUE, ready |-> cmd.n = 1, rx |-> 0, for |-> mtx] \in ModemSocket
        /\ ClosedSocket \in ModemSocket
        /\ [modem[h] EXCEPT !.ready = TRUE] \in ModemSocket
    <3>1. (cmd.n = 1) \in BOOLEAN /\ 0 \in 0..MaxRx /\ mtx \in Actors \cup {Nobody}
      BY SizesAssumption
    <3>2. QED
      BY <2>4, <3>1, ConstantTypes DEF ModemSocket
  <2>6. n <= modem[h].rx => [modem[h] EXCEPT !.rx = @ - n] \in ModemSocket
    <3>1. modem[h].rx \in 0..MaxRx
      BY <2>4 DEF ModemSocket
    <3>2. n <= modem[h].rx => modem[h].rx - n \in 0..MaxRx
      BY <3>1, SizesAssumption
    <3>3. QED
      BY <2>4, <3>2 DEF ModemSocket
  <2>7. cmd.name = "USORD" /\ n \in 0..AtMost(cmd.n, modem[h].rx) => n <= modem[h].rx
    BY <2>4, SizesAssumption DEF AtMost, ModemSocket, Command
  <2>8. modem' \in [ModemHandles -> ModemSocket]
    BY <2>1, <2>5, <2>6, <2>7 DEF CarryOut
  <2>9. QED
    BY <1>1, <2>3, <2>8, ConstantTypes DEF ModemExecutes, InCall
<1>2. CASE ModemRefuses
  <2>1. Line("ERROR", cmd.handle, 0) \in LineItem
    BY SizesAssumption DEF Line, LineItem, Answers, Command
  <2>2. line' \in Seq(LineItem) /\ faults' \in 0..MaxFaults
    BY <1>2, <2>1, SizesAssumption DEF ModemRefuses
  <2>3. QED
    BY <1>2, <2>2, ConstantTypes DEF ModemRefuses, InCall
<1>3. QED
  BY <1>1, <1>2

LEMMA NetworkTypes ==
  ASSUME TypeInv, NEW h \in ModemHandles, DataArrives(h) \/ RemoteCloses(h) \/ ContextLost(h)
  PROVE  TypeInv'
<1> USE DEF TypeInv, TypeOK, threadVars, timeoutVars, driverVars
<1>1. PICK type \in URCs, n \in 0..MaxRx :
        /\ line' = Append(line, Line(type, h, n))
        /\ \/ modem' = [modem EXCEPT ![h] = ClosedSocket]
           \/ modem' = [modem EXCEPT ![h].rx = n]
  <2>1. modem[h].rx \in 0..MaxRx
    BY DEF ModemSocket
  <2>2. modem[h].rx + 1..MaxRx \subseteq 0..MaxRx /\ 0 \in 0..MaxRx
    BY <2>1, SizesAssumption
  <2>3. QED
    BY <2>2 DEF DataArrives, RemoteCloses, ContextLost, URCs
<1>2. Line(type, h, n) \in LineItem
  BY DEF Line, LineItem
<1>3. [modem[h] EXCEPT !.rx = n] \in ModemSocket
  BY DEF ModemSocket
<1>4. line' \in Seq(LineItem) /\ modem' \in [ModemHandles -> ModemSocket]
  BY <1>1, <1>2, <1>3, ConstantTypes
<1>5. QED
  BY <1>4 DEF DataArrives, RemoteCloses, ContextLost, NetworkStep, InCall

LEMMA TypeInvAlways == Spec => []TypeInv
<1>1. TypeInv /\ [Next]_vars => TypeInv'
  <2> SUFFICES ASSUME TypeInv, [Next]_vars
               PROVE  TypeInv'
    OBVIOUS
  <2>1. CASE UNCHANGED vars
    BY <2>1 DEF vars, driverVars, threadVars, timeoutVars, modemVars, TypeInv, TypeOK, InCall
  <2>2. CASE Next
    BY <2>2, URCTypes, EventTypes, StartTypes, ContinueTypes, TurnTypes, ModemTypes, NetworkTypes
    DEF Next
  <2>3. QED
    BY <2>1, <2>2
<1>2. QED
  BY <1>1, TypeInvInit, PTL DEF Spec

\* Every state is well typed; pending, in particular, stays a value of its
\* unsigned type whatever is subtracted from it.
THEOREM TypeCorrect == Spec => []TypeOK
<1>1. TypeInv => TypeOK
  BY DEF TypeInv
<1>2. QED
  BY <1>1, TypeInvAlways, PTL

(***************************************************************************)
(* The AT channel: answers go to the thread that waits for them.           *)
(***************************************************************************)

ChannelInv == TypeInv /\ TimeoutInv /\ AnswersReachTheirCaller

AtMostOneAnswer == \A i, j \in AnswersInTransit : i = j

LEMMA AfterTail ==
  ASSUME line \in Seq(LineItem), line # << >>, line' = Tail(line)
  PROVE  /\ AnswersInTransit = {} => AnswersInTransit' = {}
         /\ AtMostOneAnswer => AtMostOneAnswer'
         /\ AtMostOneAnswer /\ Head(line).type \in Answers => AnswersInTransit' = {}
<1>1. /\ Len(line') = Len(line) - 1 /\ Len(line) \in Nat \ {0}
      /\ \A i \in 1..Len(line') : line'[i] = line[i + 1]
      /\ Head(line) = line[1]
  OBVIOUS
<1>2. \A i \in AnswersInTransit' : i + 1 \in AnswersInTransit /\ i \in Nat \ {0}
  BY <1>1 DEF AnswersInTransit
<1>3. Head(line).type \in Answers => 1 \in AnswersInTransit
  BY <1>1 DEF AnswersInTransit
<1>4. AnswersInTransit = {} => AnswersInTransit' = {}
  BY <1>2
<1>5. AtMostOneAnswer => AtMostOneAnswer'
  <2>1. SUFFICES ASSUME AtMostOneAnswer, NEW i \in AnswersInTransit', NEW j \in AnswersInTransit'
                 PROVE  i = j
    BY DEF AtMostOneAnswer
  <2>2. i + 1 = j + 1 /\ i \in Nat /\ j \in Nat
    BY <1>2, <2>1 DEF AtMostOneAnswer
  <2>3. QED
    BY <2>2
<1>6. AtMostOneAnswer /\ Head(line).type \in Answers => AnswersInTransit' = {}
  <2>1. SUFFICES ASSUME AtMostOneAnswer, Head(line).type \in Answers,
                        NEW i \in AnswersInTransit'
                 PROVE  FALSE
    OBVIOUS
  <2>2. i + 1 = 1 /\ i \in Nat \ {0}
    BY <1>2, <1>3, <2>1 DEF AtMostOneAnswer
  <2>3. QED
    BY <2>2
<1>7. QED
  BY <1>4, <1>5, <1>6

LEMMA AfterAppend ==
  ASSUME line \in Seq(LineItem), NEW x \in LineItem, line' = Append(line, x)
  PROVE  /\ AnswersInTransit = {} => AtMostOneAnswer'
         /\ x.type \notin Answers => AnswersInTransit' = AnswersInTransit
<1>1. /\ Len(line') = Len(line) + 1 /\ Len(line) \in Nat
      /\ \A i \in 1..Len(line) : line'[i] = line[i]
      /\ line'[Len(line) + 1] = x
  OBVIOUS
<1>2. \A i \in AnswersInTransit' : i \in AnswersInTransit \/ i = Len(line) + 1
  BY <1>1 DEF AnswersInTransit
<1>3. AnswersInTransit \subseteq AnswersInTransit'
  BY <1>1 DEF AnswersInTransit
<1>4. x.type \notin Answers => Len(line) + 1 \notin AnswersInTransit'
  BY <1>1 DEF AnswersInTransit
<1>5. QED
  BY <1>2, <1>3, <1>4 DEF AtMostOneAnswer

\* The steps that keep the channel invariant without looking at the answers:
\* nothing about the exchange changes, or nothing is left of it.
LEMMA SameExchange ==
  ASSUME ChannelInv, UNCHANGED <<cmd, line, mtx>>, mtx \in Threads => pc'[mtx] = pc[mtx]
  PROVE  AnswersReachTheirCaller'
  BY DEF ChannelInv, AnswersReachTheirCaller, AnswersInTransit

LEMMA ExchangeOver ==
  ASSUME cmd' = NoCommand, AnswersInTransit' = {}
  PROVE  AnswersReachTheirCaller'
  BY DEF AnswersReachTheirCaller

\* A step of a thread that is not in an exchange leaves any other in peace.
LEMMA OutsideExchange ==
  ASSUME ChannelInv, NEW t \in Threads, NEW l, Goto(t, l), mtx # t, UNCHANGED <<cmd, line, mtx>>
  PROVE  AnswersReachTheirCaller'
<1>1. mtx \in Threads => pc'[mtx] = pc[mtx]
  BY DEF ChannelInv, TypeInv, TypeOK, Goto, Actors
<1>2. QED
  BY <1>1, SameExchange

\* With the mutex free, or held outside an exchange, the channel is silent.
LEMMA Silence ==
  ASSUME ChannelInv, mtx = Nobody \/ (mtx \in Actors /\ pc[mtx] \notin Waiting)
  PROVE  cmd = NoCommand /\ AnswersInTransit = {}
<1>1. DOMAIN AwaitedCommand = Waiting
  BY DEF AwaitedCommand, Waiting
<1>2. QED
  BY <1>1, ThreadsAssumption DEF ChannelInv, AnswersReachTheirCaller, Actors

\* Reading the answer ends the exchange.
LEMMA AnswerTaken ==
  ASSUME ChannelInv, line # << >>, Head(line).type \in Answers, line' = Tail(line)
  PROVE  cmd = NoCommand /\ AnswersInTransit' = {}
<1>1. line \in Seq(LineItem)
  BY DEF ChannelInv, TypeInv, TypeOK
<1>2. 1 \in AnswersInTransit
  BY <1>1 DEF AnswersInTransit
<1>3. cmd = NoCommand /\ AtMostOneAnswer
  BY <1>2 DEF ChannelInv, AnswersReachTheirCaller, AtMostOneAnswer
<1>4. QED
  BY <1>1, <1>3, AfterTail

LEMMA Heard ==
  ASSUME ChannelInv, NEW t \in Threads, NEW l, GotOK(t, l) \/ GotNothing(t, l)
  PROVE  cmd = NoCommand /\ AnswersInTransit' = {}
<1>1. CASE line # << >> /\ Head(line).type \in Answers /\ line' = Tail(line)
  BY <1>1, AnswerTaken
<1>2. CASE cmd = NoCommand /\ line = << >> /\ line' = line
  BY <1>2 DEF AnswersInTransit
<1>3. QED
  BY <1>1, <1>2 DEF GotOK, GotNothing, Arrived, Answers

\* A thread that sends a command into silence waits for its answer.
LEMMA CommandSent ==
  ASSUME ChannelInv, NEW t \in Threads, NEW l \in Waiting, Goto(t, l), mtx' = t,
         AnswersInTransit' = {}, cmd'.name = AwaitedCommand[l]
  PROVE  AnswersReachTheirCaller'
<1>1. DOMAIN AwaitedCommand = Waiting
  BY DEF AwaitedCommand, Waiting
<1>2. pc'[t] = l
  BY DEF ChannelInv, TypeInv, TypeOK, Goto, Actors
<1>3. QED
  BY <1>1, <1>2 DEF AnswersReachTheirCaller

LEMMA ChannelStep == ChannelInv /\ [Next]_vars => AnswersReachTheirCaller'
<1> SUFFICES ASSUME ChannelInv, [Next]_vars
             PROVE  AnswersReachTheirCaller'
  OBVIOUS
<1> USE DEF threadVars, timeoutVars, modemVars, driverVars
<1>a. line \in Seq(LineItem) /\ (\A a \in Actors : pc[a] \in Holding <=> mtx = a)
      /\ Threads \subseteq Actors /\ EventThread \in Actors
  BY DEF ChannelInv, TypeInv, TypeOK, TimeoutInv, Actors
<1>1. ASSUME NEW a \in Actors, RunURC(a)
      PROVE  AnswersReachTheirCaller'
  <2>1. CASE CallCallback(a)
    BY <2>1, SameExchange DEF CallCallback
  <2>2. CASE \E type : HandleURC(a, type)
    <3>1. line # << >> /\ line' = Tail(line) /\ UNCHANGED <<pc, mtx, cmd>>
      BY <2>2 DEF HandleURC, Arrived
    <3>2. /\ AnswersInTransit = {} => AnswersInTransit' = {}
          /\ AtMostOneAnswer => AtMostOneAnswer'
      BY <1>a, <3>1, AfterTail
    <3>3. QED
      BY <3>1, <3>2 DEF ChannelInv, AnswersReachTheirCaller, AtMostOneAnswer
  <2>3. QED
    BY <1>1, <2>1, <2>2 DEF RunURC, UUSORD_URC, UUSOCL_URC, UUPSDD_URC
<1>2. CASE EventBegin \/ EventEnd
  <2>1. cmd = NoCommand /\ AnswersInTransit = {}
    BY <1>2, <1>a, Silence DEF EventBegin, EventEnd, LOCK, Receiving, Waiting
  <2>2. QED
    BY <1>2, <2>1, ExchangeOver DEF EventBegin, EventEnd, AnswersInTransit
<1>3. ASSUME NEW t \in Threads, StartCall(t)
      PROVE  AnswersReachTheirCaller'
  <2>1. mtx # t
    BY <1>3, <1>a
    DEF StartCall, socket_open, OpenNoMemory, socket_close, socket_bind, socket_connect,
        BeginExchange, socket_attach, socket_send, socket_recv, BeginCall, Holding, Waiting, Saving
  <2>2. CASE socket_open(t)
    <3>1. AnswersInTransit' = {}
      BY <2>2, Silence DEF socket_open, LOCK, AnswersInTransit
    <3>2. QED
      BY <2>2, <3>1, CommandSent DEF socket_open, LOCK, Send, AwaitedCommand, Waiting
  <2>3. CASE socket_close(t) \/ socket_bind(t) \/ socket_connect(t)
    <3>1. PICK l \in Waiting, op \in OpNames, name \in CommandNames :
            BeginExchange(t, op, name, l) /\ AwaitedCommand[l] = name
      BY <2>3
      DEF socket_close, socket_bind, socket_connect, AwaitedCommand, Waiting, OpNames, CommandNames
    <3>2. AnswersInTransit' = {}
      BY <3>1, Silence DEF BeginExchange, LOCK, AnswersInTransit
    <3>3. QED
      BY <3>1, <3>2, CommandSent DEF BeginExchange, LOCK, Send
  <2>4. CASE OpenNoMemory(t) \/ socket_attach(t) \/ socket_send(t) \/ socket_recv(t)
    BY <2>1, <2>4, OutsideExchange DEF OpenNoMemory, socket_attach, socket_send, socket_recv, Return
  <2>5. QED
    BY <1>3, <2>2, <2>3, <2>4 DEF StartCall
<1>4. ASSUME NEW t \in Threads, ContinueCall(t)
      PROVE  AnswersReachTheirCaller'
  <2>1. CASE \/ OpenCreated(t) \/ OpenFails(t) \/ CloseDone(t) \/ CloseFails(t) \/ BindDone(t)
             \/ BindFails(t) \/ ConnectEnds(t) \/ SendBlockDone(t) \/ SendFails(t) \/ RecvGotData(t)
             \/ RecvFails(t)
    <3>1. UNCHANGED cmd /\ \E l : GotOK(t, l) \/ GotNothing(t, l)
      BY <2>1
      DEF OpenCreated, OpenFails, CloseDone, CloseFails, BindDone, BindFails, ConnectEnds,
          SendBlockDone, SendFails, RecvGotData, RecvFails, EndExchange, EndTurn
    <3>2. QED
      BY <3>1, Heard, ExchangeOver
  <2>2. CASE RecvCutShort(t)
    BY <2>2, AnswerTaken, ExchangeOver DEF RecvCutShort, EndTurn, Arrived, Answers
  <2>3. CASE BindTypeKnown(t) \/ BindClosed(t)
    <3>1. PICK l \in Waiting : Goto(t, l) /\ cmd'.name = AwaitedCommand[l] /\ mtx' = t
      BY <2>3 DEF BindTypeKnown, BindClosed, GotOK, Receiving, Send, AwaitedCommand, Waiting
    <3>2. AnswersInTransit' = {}
      BY <2>3, Heard DEF BindTypeKnown, BindClosed
    <3>3. QED
      BY <3>1, <3>2, CommandSent
  <2>4. CASE AttachData(t) \/ SendReturns(t)
    BY <1>a, <2>4, OutsideExchange DEF AttachData, SendReturns, Return, Holding, Waiting, Saving
  <2>5. CASE RecvWaited(t)
    <3>1. cmd = NoCommand /\ AnswersInTransit = {}
      BY <1>a, <2>5, Silence DEF RecvWaited, Receiving, Waiting
    <3>2. QED
      BY <2>5, <3>1, ExchangeOver DEF RecvWaited, EndTurn, AnswersInTransit
  <2>6. QED
    BY <1>4, <2>1, <2>2, <2>3, <2>4, <2>5 DEF ContinueCall
<1>5. ASSUME NEW t \in Threads, TakeTurn(t) \/ TimerExpires(t)
      PROVE  AnswersReachTheirCaller'
  <2>1. CASE SendBlock(t) \/ RecvRead(t)
    <3>1. PICK l \in Waiting : Goto(t, l) /\ cmd'.name = AwaitedCommand[l] /\ LOCK(t)
      BY <2>1 DEF SendBlock, RecvRead, BeginTurn, Send, AwaitedCommand, Waiting
    <3>2. AnswersInTransit' = {}
      BY <2>1, <3>1, Silence DEF SendBlock, RecvRead, BeginTurn, LOCK, AnswersInTransit
    <3>3. QED
      BY <3>1, <3>2, CommandSent DEF LOCK
  <2>2. CASE RecvWait(t)
    <3>1. cmd = NoCommand /\ AnswersInTransit = {}
      BY <2>2, Silence DEF RecvWait, BeginTurn, LOCK
    <3>2. QED
      BY <2>2, <3>1, ExchangeOver DEF RecvWait, BeginTurn, AnswersInTransit
  <2>3. CASE RecvReturns(t)
    BY <1>a, <2>3, OutsideExchange DEF RecvReturns, Return, Holding, Waiting, Saving
  <2>4. CASE TimerExpires(t)
    BY <2>4, SameExchange DEF TimerExpires
  <2>5. QED
    BY <1>5, <2>1, <2>2, <2>3, <2>4 DEF TakeTurn
<1>6. CASE ModemExecutes \/ ModemRefuses
  <2>1. UNCHANGED <<pc, mtx>> /\ cmd # NoCommand /\ cmd' = NoCommand
    BY <1>6 DEF ModemExecutes, ModemRefuses
  <2>2. AnswersInTransit = {} /\ mtx \in Threads /\ pc[mtx] \in DOMAIN AwaitedCommand
    BY <2>1 DEF ChannelInv, AnswersReachTheirCaller
  <2>3. line' = line \/ \E x \in LineItem : line' = Append(line, x)
    <3>1. \A h \in ModemHandles, n \in 0..MaxRx, type \in Answers : Line(type, h, n) \in LineItem
      BY DEF Line, LineItem
    <3>2. Line("ERROR", cmd.handle, 0) \in LineItem
      BY SizesAssumption DEF Line, LineItem, Answers, ChannelInv, TypeInv, TypeOK, Command
    <3>3. QED
      BY <1>6, <3>1, <3>2 DEF ModemExecutes, ModemRefuses, Answers
  <2>4. AtMostOneAnswer'
    BY <1>a, <2>2, <2>3, AfterAppend DEF AtMostOneAnswer, AnswersInTransit
  <2>5. QED
    BY <2>1, <2>2, <2>4 DEF AnswersReachTheirCaller, AtMostOneAnswer
<1>7. ASSUME NEW h \in ModemHandles, DataArrives(h) \/ RemoteCloses(h) \/ ContextLost(h)
      PROVE  AnswersReachTheirCaller'
  <2>1. PICK x \in LineItem : line' = Append(line, x) /\ x.type \notin Answers
    <3>1. \A type \in URCs, n \in 0..MaxRx :
            Line(type, h, n) \in LineItem /\ Line(type, h, n).type \notin Answers
      BY DEF Line, LineItem, URCs, Answers
    <3>2. modem[h].rx \in 0..MaxRx
      BY DEF ChannelInv, TypeInv, TypeOK, ModemSocket
    <3>3. modem[h].rx + 1..MaxRx \subseteq 0..MaxRx /\ 0 \in 0..MaxRx
      BY <3>2, SizesAssumption
    <3>4. QED
      BY <1>7, <3>1, <3>3 DEF DataArrives, RemoteCloses, ContextLost, URCs
  <2>2. AnswersInTransit' = AnswersInTransit
    BY <1>a, <2>1, AfterAppend
  <2>3. UNCHANGED <<pc, mtx, cmd>>
    BY <1>7 DEF DataArrives, RemoteCloses, ContextLost, NetworkStep
  <2>4. QED
    BY <2>2, <2>3 DEF ChannelInv, AnswersReachTheirCaller
<1>8. CASE UNCHANGED vars
  BY <1>8, SameExchange DEF vars
<1>9. QED
  BY <1>1, <1>2, <1>3, <1>4, <1>5, <1>6, <1>7, <1>8 DEF Next

\* A command and its answer belong to the thread that holds the mutex and
\* waits for them: no thread can be handed the outcome of another's call.
THEOREM AnswersAreNotMixedUp == Spec => []AnswersReachTheirCaller
<1>1. Init => AnswersReachTheirCaller
  BY DEF Init, AnswersReachTheirCaller, AnswersInTransit
<1>2. TypeInv /\ TimeoutInv /\ AnswersReachTheirCaller /\ [Next]_vars => AnswersReachTheirCaller'
  BY ChannelStep DEF ChannelInv
<1>3. QED
  BY <1>1, <1>2, TypeInvAlways, TimeoutInvAlways, PTL DEF Spec

(***************************************************************************)
(* What holds until a command fails for no reason of its own or an answer  *)
(* is lost, in a program that does not call socket_bind(): the table, the  *)
(* lines in transit and the modem together.  A slot that holds h is live   *)
(* until a URC or an answer under way says that the modem has closed h; a  *)
(* socket the modem has just created waits in the answer to USOCR.         *)
(***************************************************************************)

At(l) == mtx \in Threads /\ pc[mtx] = l
Holds(s, h) == sockets[s].modem_handle = h
Held(h) == \E s \in Slots : Holds(s, h)

Lines(types, h) == {i \in 1..Len(line) : line[i].type \in types /\ line[i].handle = h}
News(h) == Lines({"UUSORD"}, h)
Lost(h) == Lines({"UUSOCL", "UUPSDD"}, h)
Told(h) == Lines({"OK"}, h)

Created(h) == At("open") /\ Told(h) # {}
Closing(h) == At("close") /\ Told(h) # {}
Live(h) == Held(h) /\ Lost(h) = {} /\ ~Closing(h)

NothingLost ==
  /\ \A t \in Threads : pc[t] \in Waiting => cmd # NoCommand \/ AnswersInTransit # {}
  /\ \A t \in Threads : pc[t] \notin {"bindType", "bindClose", "bindOpen"}
  /\ cmd.name = "USOCR" => cmd.n = 0
  /\ \A i \in 1..Len(line) :
       line[i].type # "CUT" /\ (line[i].type # "ERROR" => line[i].handle \in ModemHandles)

\* A URC finds its slot, a loss is the last one about its socket, and the
\* answer that ends or begins a socket comes after all of them.
URCsInOrder(h) ==
  /\ News(h) \cup Lost(h) # {} => Held(h)
  /\ \A i \in Lost(h), j \in News(h) \cup Lost(h) : j <= i
  /\ At("open") \/ At("close") => \A k \in Told(h), i \in News(h) \cup Lost(h) : i < k

OpenIsKnown(h) ==
  /\ modem[h].open <=> Live(h) \/ Created(h)
  /\ ~(Live(h) /\ Created(h))
  /\ modem[h].ready => modem[h].open /\ ~Created(h)
  /\ ~modem[h].ready => modem[h].rx = 0

\* The thread that an answer about h is for still has h in its slot.
AnswerFindsSlot(h) ==
  Told(h) # {} /\ ~At("open") =>
    Holds(handle[mtx], h) /\ \A k \in Told(h), i \in Lost(h) : k < i

SocketInv(h) == URCsInOrder(h) /\ OpenIsKnown(h) /\ AnswerFindsSlot(h)

CommandInv ==
  /\ cmd.name \notin {"none", "USOCR"} => Holds(handle[mtx], cmd.handle) \/ ~IsOpen(cmd.handle)
  /\ \A t \in Threads : pc[t] = "open" => Holds(handle[t], SOCKET_UNUSED)

\* v is what pending of s is, which holds h, after the lines before the k-th.
Known(s, h, k, v) ==
  \/ v = sockets[s].pending /\ \A i \in News(h) : i >= k
  \/ \E i \in News(h) : v = line[i].n /\ i < k /\ \A j \in News(h) : j <= i \/ j >= k

\* The answer to the read under way.
Reads(h) == {k \in Told(h) : At("recvRead")}

ReadFits(s, h) == \A k \in Reads(h), v \in Nat : Known(s, h, k, v) => line[k].n <= v

\* pending, once everything in transit is read, is what the modem holds.
CountFits(s, h) ==
  \A v \in Nat :
    /\ Known(s, h, Len(line) + 1, v) /\ (\A k \in Reads(h) : \E i \in News(h) : i > k)
         => modem[h].rx = v
    /\ \A k \in Reads(h) :
         (\A i \in News(h) : i < k) /\ Known(s, h, k, v) => modem[h].rx = v - line[k].n

PendingInv ==
  \A s \in Slots, h \in ModemHandles :
    Holds(s, h) => ReadFits(s, h) /\ (Live(h) => CountFits(s, h))

TableInv ==
  /\ NothingLost /\ CommandInv /\ HandlesUnique /\ PendingInv
  /\ \A h \in ModemHandles : SocketInv(h)

FaultlessInv == faults = MaxFaults => TableInv

\* The lines move up by one when the first is read.
LEMMA LineTail ==
  ASSUME line \in Seq(LineItem), line # << >>, line' = Tail(line)
  PROVE  /\ Len(line) = Len(line') + 1 /\ Len(line') \in Nat
         /\ \A i \in 1..Len(line') : line'[i] = line[i + 1]
         /\ Head(line) = line[1]
OBVIOUS

\* A line is added behind the others.
LEMMA LineAppend ==
  ASSUME line \in Seq(LineItem), NEW x, x \in LineItem, line' = Append(line, x)
  PROVE  /\ Len(line') = Len(line) + 1 /\ Len(line) \in Nat
         /\ \A i \in 1..Len(line) : line'[i] = line[i]
         /\ line'[Len(line) + 1] = x
OBVIOUS

\* The same for the UUSORDs about h, the losses of h and the answers about h.
LEMMA NewsTail ==
  ASSUME line \in Seq(LineItem), line # << >>, line' = Tail(line), NEW h
  PROVE  /\ \A i \in News(h)' : i \in Nat \ {0} /\ i + 1 \in News(h) /\ line'[i] = line[i + 1]
         /\ \A i \in News(h) :
              i \in Nat \ {0} /\ (i # 1 => i - 1 \in News(h)' /\ line'[i - 1] = line[i])
         /\ 1 \in News(h) <=> Head(line).type = "UUSORD" /\ Head(line).handle = h
  BY LineTail DEF News, Lines

LEMMA LostTail ==
  ASSUME line \in Seq(LineItem), line # << >>, line' = Tail(line), NEW h
  PROVE  /\ \A i \in Lost(h)' : i \in Nat \ {0} /\ i + 1 \in Lost(h) /\ line'[i] = line[i + 1]
         /\ \A i \in Lost(h) :
              i \in Nat \ {0} /\ (i # 1 => i - 1 \in Lost(h)' /\ line'[i - 1] = line[i])
         /\ 1 \in Lost(h) <=> Head(line).type \in {"UUSOCL", "UUPSDD"} /\ Head(line).handle = h
  BY LineTail DEF Lost, Lines

LEMMA ToldTail ==
  ASSUME line \in Seq(LineItem), line # << >>, line' = Tail(line), NEW h
  PROVE  /\ \A i \in Told(h)' : i \in Nat \ {0} /\ i + 1 \in Told(h) /\ line'[i] = line[i + 1]
         /\ \A i \in Told(h) :
              i \in Nat \ {0} /\ (i # 1 => i - 1 \in Told(h)' /\ line'[i - 1] = line[i])
         /\ 1 \in Told(h) <=> Head(line).type = "OK" /\ Head(line).handle = h
  BY LineTail DEF Told, Lines

\* The same three when a line is added.
LEMMA NewsAppend ==
  ASSUME line \in Seq(LineItem), NEW x, x \in LineItem, line' = Append(line, x), NEW h
  PROVE  /\ \A i \in News(h) :
              i \in News(h)' /\ i \in Nat /\ i < Len(line) + 1 /\ line'[i] = line[i]
         /\ \A i \in News(h)' : i \in News(h) \/ i = Len(line) + 1
         /\ Len(line) + 1 \in News(h)' <=> x.type = "UUSORD" /\ x.handle = h
  BY LineAppend DEF News, Lines

LEMMA LostAppend ==
  ASSUME line \in Seq(LineItem), NEW x, x \in LineItem, line' = Append(line, x), NEW h
  PROVE  /\ \A i \in Lost(h) :
              i \in Lost(h)' /\ i \in Nat /\ i < Len(line) + 1 /\ line'[i] = line[i]
         /\ \A i \in Lost(h)' : i \in Lost(h) \/ i = Len(line) + 1
         /\ Len(line) + 1 \in Lost(h)' <=> x.type \in {"UUSOCL", "UUPSDD"} /\ x.handle = h
  BY LineAppend DEF Lost, Lines

LEMMA ToldAppend ==
  ASSUME line \in Seq(LineItem), NEW x, x \in LineItem, line' = Append(line, x), NEW h
  PROVE  /\ \A i \in Told(h) :
              i \in Told(h)' /\ i \in Nat /\ i < Len(line) + 1 /\ line'[i] = line[i]
         /\ \A i \in Told(h)' : i \in Told(h) \/ i = Len(line) + 1
         /\ Len(line) + 1 \in Told(h)' <=> x.type = "OK" /\ x.handle = h
  BY LineAppend DEF Told, Lines

\* Nobody is at l in an exchange but the one that holds the mutex.
LEMMA AtMeans ==
  ASSUME ChannelInv, NEW t \in Threads, NEW l \in Holding, pc[t] = l
  PROVE  mtx = t /\ At(l)
<1>1. mtx = t
  BY DEF ChannelInv, TimeoutInv, Actors
<1>2. QED
  BY <1>1 DEF At

\* A thread in an exchange has a slot.
LEMMA SlotAt ==
  ASSUME ChannelInv, NEW l \in Waiting, At(l)
  PROVE  handle[mtx] \in Slots
  BY DEF At, ChannelInv, TypeInv, InCall, Waiting

\* An empty table, a silent line and a modem without sockets.
LEMMA TableInit == Init => TableInv
<1> SUFFICES ASSUME Init
             PROVE  TableInv
  OBVIOUS
<1>1. /\ \A t \in Threads : pc[t] = "idle"
      /\ \A s \in Slots : sockets[s] = UnusedSocket
      /\ line = << >> /\ cmd = NoCommand
      /\ modem = [h \in ModemHandles |-> ClosedSocket]
      /\ mtx = Nobody
  BY ThreadsAssumption DEF Init, Actors
<1>2. \A types, h : Lines(types, h) = {}
  BY <1>1 DEF Lines
<1>3. NothingLost
  BY <1>1 DEF NothingLost, Waiting, NoCommand
<1>4. CommandInv
  BY <1>1 DEF CommandInv, NoCommand
<1>5. HandlesUnique
  BY <1>1 DEF HandlesUnique, UnusedSocket
<1>6. PendingInv
  BY <1>1, SizesAssumption DEF PendingInv, Holds, UnusedSocket, SOCKET_UNUSED
<1>7. ASSUME NEW h \in ModemHandles
      PROVE  SocketInv(h)
  <2>1. ~Held(h)
    BY <1>1, SizesAssumption DEF Held, Holds, UnusedSocket, SOCKET_UNUSED
  <2>2. News(h) = {} /\ Lost(h) = {} /\ Told(h) = {}
    BY <1>2 DEF News, Lost, Told
  <2>3. ~modem[h].open /\ ~modem[h].ready /\ modem[h].rx = 0
    BY <1>1 DEF ClosedSocket
  <2>4. QED
    BY <2>1, <2>2, <2>3 DEF SocketInv, URCsInOrder, OpenIsKnown, AnswerFindsSlot, Live, Created
<1>8. QED
  BY <1>3, <1>4, <1>5, <1>6, <1>7 DEF TableInv

\* A step that leaves the lines, the modem and the table alone, and whose
\* thread neither begins nor ends an exchange.
LEMMA TableOutside ==
  ASSUME ChannelInv, ChannelInv', TableInv, UNCHANGED <<handle, cmd, line, modem>>,
         \A t \in Threads : pc'[t] = pc[t] \/ (pc[t] \notin Waiting \cup {"bindType", "bindClose", "bindOpen"}
                                              /\ pc'[t] \notin Waiting),
         \A s \in Slots : /\ sockets'[s].modem_handle = sockets[s].modem_handle
                          /\ sockets'[s].pending = sockets[s].pending
  PROVE  TableInv'
<1>1. \A l \in Waiting : At(l)' <=> At(l)
  <2>1. SUFFICES ASSUME NEW l \in Waiting
                 PROVE  At(l)' <=> At(l)
    OBVIOUS
  <2>2. \A t \in Threads : pc[t] = l <=> pc'[t] = l
    BY <2>1
  <2>3. \A t \in Threads : pc[t] = l => mtx = t
    BY <2>1 DEF ChannelInv, TimeoutInv, Holding, Actors
  <2>4. \A t \in Threads : pc'[t] = l => mtx' = t
    BY <2>1 DEF ChannelInv, TimeoutInv, Holding, Actors
  <2>5. QED
    BY <2>2, <2>3, <2>4 DEF At
<1>2. \A h : News(h)' = News(h) /\ Lost(h)' = Lost(h) /\ Told(h)' = Told(h)
  BY DEF News, Lost, Told, Lines
<1>3. {"open", "close", "recvRead"} \subseteq Waiting
  BY DEF Waiting
<1>4. \A h : (Created(h)' <=> Created(h)) /\ (Closing(h)' <=> Closing(h)) /\ Reads(h)' = Reads(h)
  BY <1>1, <1>2, <1>3 DEF Created, Closing, Reads
<1>5. \A s \in Slots : \A h : Holds(s, h)' <=> Holds(s, h)
  BY DEF Holds
<1>6. \A h : (Held(h)' <=> Held(h)) /\ (Live(h)' <=> Live(h))
  BY <1>2, <1>4, <1>5 DEF Held, Live
<1>7. NothingLost'
  BY DEF TableInv, NothingLost, AnswersInTransit, Waiting
<1>8. AnswersInTransit # {} \/ cmd # NoCommand => mtx' = mtx /\ mtx \in Threads /\ handle[mtx] \in Slots
  <2>1. SUFFICES ASSUME AnswersInTransit # {} \/ cmd # NoCommand
                 PROVE  mtx' = mtx /\ mtx \in Threads /\ handle[mtx] \in Slots
    OBVIOUS
  <2>2. mtx \in Threads /\ pc[mtx] \in Waiting
    BY <2>1 DEF ChannelInv, AnswersReachTheirCaller, AwaitedCommand, Waiting
  <2>3. PICK l \in Waiting : pc[mtx] = l
    BY <2>2
  <2>4. At(l) /\ At(l)' /\ mtx' = mtx
    <3>1. mtx \in Actors /\ pc'[mtx] = l
      BY <2>2, <2>3 DEF Actors
    <3>2. mtx' = mtx
      BY <3>1 DEF ChannelInv, TimeoutInv, Holding
    <3>3. QED
      BY <2>2, <2>3, <3>1, <3>2 DEF At
  <2>5. QED
    BY <2>2, <2>4, SlotAt
<1>9. CommandInv'
  <2>1. cmd.name \notin {"none", "USOCR"} => cmd # NoCommand
    BY DEF NoCommand
  <2>2. \A t \in Threads : pc'[t] = "open" => pc[t] = "open" /\ handle[t] \in Slots
    BY <1>3 DEF ChannelInv, TypeInv, InCall
  <2>3. QED
    BY <1>5, <1>8, <2>1, <2>2 DEF TableInv, CommandInv, IsOpen
<1>10. HandlesUnique'
  BY DEF TableInv, HandlesUnique
<1>11. PendingInv'
  <2>1. \A s \in Slots : \A h, k, v : Known(s, h, k, v)' <=> Known(s, h, k, v)
    BY <1>2 DEF Known
  <2>2. \A s \in Slots : \A h : ReadFits(s, h)' <=> ReadFits(s, h)
    BY <1>4, <2>1 DEF ReadFits
  <2>3. \A s \in Slots : \A h : CountFits(s, h)' <=> CountFits(s, h)
    BY <1>2, <1>4, <2>1 DEF CountFits
  <2>4. QED
    BY <1>5, <1>6, <2>2, <2>3 DEF TableInv, PendingInv
<1>12. ASSUME NEW h \in ModemHandles
       PROVE  SocketInv(h)'
  <2>1. SocketInv(h)
    BY DEF TableInv
  <2>2. URCsInOrder(h)'
    BY <1>1, <1>2, <1>3, <1>6, <2>1 DEF SocketInv, URCsInOrder
  <2>3. OpenIsKnown(h)'
    BY <1>4, <1>6, <2>1 DEF SocketInv, OpenIsKnown
  <2>4. AnswerFindsSlot(h)'
    <3>1. Told(h) # {} => AnswersInTransit # {}
      BY DEF Told, Lines, AnswersInTransit, Answers
    <3>2. QED
      BY <1>1, <1>2, <1>3, <1>5, <1>8, <2>1, <3>1 DEF SocketInv, AnswerFindsSlot
  <2>5. QED
    BY <2>2, <2>3, <2>4 DEF SocketInv
<1>13. QED
  BY <1>7, <1>9, <1>10, <1>11, <1>12 DEF TableInv

\* No answer is under way.
LEMMA NoneTold ==
  ASSUME AnswersInTransit = {}
  PROVE  \A h : Told(h) = {} /\ Reads(h) = {} /\ ~Created(h) /\ ~Closing(h)
<1>1. \A h : Told(h) = {}
  BY DEF AnswersInTransit, Answers, Told, Lines
<1>2. QED
  BY <1>1 DEF Reads, Created, Closing

\* A thread that finds the channel silent sends a command.
LEMMA TableAsk ==
  ASSUME ChannelInv, TableInv, NEW t \in Threads,
         NEW l \in Waiting \ {"bindType", "bindClose", "bindOpen"},
         mtx = Nobody, mtx' = t, Goto(t, l), cmd' # NoCommand, UNCHANGED <<line, sockets, modem>>,
         cmd'.name = "USOCR" => cmd'.n = 0, \A u \in Threads : u # t => handle'[u] = handle[u],
         \/ l = "open" /\ cmd'.name = "USOCR" /\ Holds(handle'[t], SOCKET_UNUSED)
         \/ l # "open" /\ cmd'.handle = sockets[handle'[t]].modem_handle
  PROVE  TableInv'
<1>1. /\ cmd = NoCommand /\ AnswersInTransit = {} /\ AnswersInTransit' = {}
      /\ \A u \in Threads : pc[u] \notin Waiting
      /\ pc'[t] = l /\ \A u \in Threads : u # t => pc'[u] = pc[u]
      /\ \A s \in Slots : \A h : Holds(s, h)' <=> Holds(s, h)
  <2>1. cmd = NoCommand /\ AnswersInTransit = {}
    BY Silence
  <2>2. AnswersInTransit' = {}
    BY <2>1 DEF AnswersInTransit
  <2>3. \A u \in Threads : pc[u] \notin Waiting
    BY ThreadsAssumption DEF ChannelInv, TimeoutInv, Holding, Actors
  <2>4. pc'[t] = l /\ \A u \in Threads : u # t => pc'[u] = pc[u]
    BY DEF Goto, ChannelInv, TypeInv, TypeOK, Actors
  <2>5. \A s \in Slots : \A h : Holds(s, h)' <=> Holds(s, h)
    BY DEF Holds
  <2>6. QED
    BY <2>1, <2>2, <2>3, <2>4, <2>5
<1>2. \A h : Told(h) = {} /\ Reads(h) = {} /\ ~Created(h) /\ ~Closing(h)
  BY <1>1, NoneTold
<1>3. \A h : Told(h)' = {} /\ Reads(h)' = {} /\ ~Created(h)' /\ ~Closing(h)'
  <2>1. \A h : Told(h)' = {}
    BY <1>1 DEF AnswersInTransit, Answers, Told, Lines
  <2>2. QED
    BY <2>1 DEF Reads, Created, Closing
<1>4. \A h : News(h)' = News(h) /\ Lost(h)' = Lost(h)
  BY DEF News, Lost, Lines
<1>5. \A h : (Held(h)' <=> Held(h)) /\ (Live(h)' <=> Live(h))
  BY <1>1, <1>2, <1>3, <1>4 DEF Held, Live
<1>6. NothingLost'
  BY <1>1 DEF TableInv, NothingLost, Waiting
<1>7. CommandInv'
  <2>1. l # "open" => Holds(handle[t], cmd.handle)'
    BY DEF Holds
  <2>2. \A u \in Threads : pc'[u] = "open" => u = t /\ l = "open"
    BY <1>1 DEF Waiting
  <2>3. QED
    BY <2>1, <2>2 DEF CommandInv, Holds
<1>8. HandlesUnique'
  BY DEF TableInv, HandlesUnique
<1>9. PendingInv'
  <2>1. \A s \in Slots : \A h, k, v : Known(s, h, k, v)' <=> Known(s, h, k, v)
    BY <1>4 DEF Known
  <2>2. \A s \in Slots : \A h : ReadFits(s, h)'
    BY <1>3 DEF ReadFits
  <2>3. \A s \in Slots : \A h : CountFits(s, h)' <=> CountFits(s, h)
    BY <1>2, <1>3, <2>1 DEF CountFits
  <2>4. QED
    BY <1>1, <1>5, <2>2, <2>3 DEF TableInv, PendingInv
<1>10. \A h \in ModemHandles : SocketInv(h)'
  <2>1. SUFFICES ASSUME NEW h \in ModemHandles
                 PROVE  SocketInv(h)'
    OBVIOUS
  <2>2. SocketInv(h)
    BY DEF TableInv
  <2>3. URCsInOrder(h)'
    BY <1>3, <1>4, <1>5, <2>2 DEF SocketInv, URCsInOrder
  <2>4. OpenIsKnown(h)'
    BY <1>2, <1>3, <1>5, <2>2 DEF SocketInv, OpenIsKnown
  <2>5. AnswerFindsSlot(h)'
    BY <1>3 DEF AnswerFindsSlot
  <2>6. QED
    BY <2>3, <2>4, <2>5 DEF SocketInv
<1>11. QED
  BY <1>6, <1>7, <1>8, <1>9, <1>10 DEF TableInv

\* What pending is after the lines before the k-th does not change when the
\* first is read, and the handler of a UUSORD has stored its count.
LEMMA KnownTail ==
  ASSUME line \in Seq(LineItem), line # << >>, line' = Tail(line),
         NEW s \in Slots, NEW h, NEW k \in Nat \ {0}, NEW v, Known(s, h, k, v)',
         sockets'[s].pending = IF Head(line).type = "UUSORD" /\ Head(line).handle = h
                                 THEN Head(line).n ELSE sockets[s].pending
  PROVE  Known(s, h, k + 1, v)
<1>1. /\ \A i \in News(h)' : i \in Nat \ {0} /\ i + 1 \in News(h) /\ line'[i] = line[i + 1]
      /\ \A i \in News(h) : i \in Nat \ {0} /\ (i # 1 => i - 1 \in News(h)' /\ line'[i - 1] = line[i])
      /\ 1 \in News(h) <=> Head(line).type = "UUSORD" /\ Head(line).handle = h
      /\ Head(line) = line[1]
  BY LineTail, NewsTail
<1>2. CASE v = sockets'[s].pending /\ \A i \in News(h)' : i >= k
  <2>1. \A i \in News(h) : i # 1 => i >= k + 1
    BY <1>1, <1>2
  <2>2. CASE 1 \in News(h)
    <3>1. v = line[1].n
      BY <1>1, <1>2, <2>2
    <3>2. 1 < k + 1 /\ \A j \in News(h) : j <= 1 \/ j >= k + 1
      BY <1>1, <2>1
    <3>3. QED
      BY <2>2, <3>1, <3>2 DEF Known
  <2>3. CASE 1 \notin News(h)
    BY <1>1, <1>2, <2>1, <2>3 DEF Known
  <2>4. QED
    BY <2>2, <2>3
<1>3. ASSUME NEW i \in News(h)', v = line'[i].n, i < k, \A j \in News(h)' : j <= i \/ j >= k
      PROVE  Known(s, h, k + 1, v)
  <2>1. i \in Nat /\ i + 1 \in News(h) /\ v = line[i + 1].n /\ i + 1 < k + 1
    <3>1. i \in Nat /\ i + 1 \in News(h) /\ line'[i] = line[i + 1]
      BY <1>1, <1>3
    <3>2. QED
      BY <3>1, <1>3
  <2>2. \A j \in News(h) : j <= i + 1 \/ j >= k + 1
    <3>1. SUFFICES ASSUME NEW j \in News(h), j # 1
                   PROVE  j <= i + 1 \/ j >= k + 1
      BY <2>1
    <3>2. j \in Nat /\ (j - 1 <= i \/ j - 1 >= k)
      BY <1>1, <1>3, <3>1
    <3>3. QED
      BY <2>1, <3>2
  <2>3. QED
    BY <2>1, <2>2 DEF Known
<1>4. QED
  BY <1>2, <1>3 DEF Known

\* pending stays right when a line is read that is not the answer to a read.
LEMMA PendingTail ==
  ASSUME line \in Seq(LineItem), line # << >>, line' = Tail(line),
         NEW s \in Slots, NEW h, modem'[h].rx = modem[h].rx, ReadFits(s, h),
         sockets'[s].pending = IF Head(line).type = "UUSORD" /\ Head(line).handle = h
                                 THEN Head(line).n ELSE sockets[s].pending,
         \A k \in Reads(h)' : k + 1 \in Reads(h),
         \A k \in Reads(h) : k # 1 /\ k - 1 \in Reads(h)'
  PROVE  ReadFits(s, h)' /\ (CountFits(s, h) => CountFits(s, h)')
<1>1. /\ \A i \in News(h)' : i \in Nat \ {0} /\ i + 1 \in News(h) /\ line'[i] = line[i + 1]
      /\ \A i \in News(h) : i \in Nat \ {0} /\ (i # 1 => i - 1 \in News(h)' /\ line'[i - 1] = line[i])
  BY NewsTail
<1>0. Len(line') + 1 = Len(line) /\ Len(line') + 1 \in Nat \ {0}
  BY LineTail
<1>2. /\ \A k \in Reads(h)' : k \in Nat \ {0} /\ line'[k] = line[k + 1]
      /\ \A k \in Reads(h) : k \in Nat \ {0}
  BY ToldTail DEF Reads
<1>3. \A k \in Nat \ {0}, v \in Nat : Known(s, h, k, v)' => Known(s, h, k + 1, v)
  BY KnownTail
<1>4. ReadFits(s, h)'
  BY <1>2, <1>3 DEF ReadFits
<1>5. CountFits(s, h) => CountFits(s, h)'
  <2>1. SUFFICES ASSUME CountFits(s, h), NEW v \in Nat
                 PROVE  /\ Known(s, h, Len(line) + 1, v)' /\ (\A k \in Reads(h)' : \E i \in News(h)' : i > k)
                             => modem'[h].rx = v
                        /\ \A k \in Reads(h)' :
                             (\A i \in News(h)' : i < k) /\ Known(s, h, k, v)' => modem'[h].rx = v - line'[k].n
    BY DEF CountFits
  <2>0. /\ Known(s, h, Len(line) + 1, v) /\ (\A k \in Reads(h) : \E i \in News(h) : i > k)
             => modem[h].rx = v
        /\ \A k \in Reads(h) :
             (\A i \in News(h) : i < k) /\ Known(s, h, k, v) => modem[h].rx = v - line[k].n
    BY <2>1 DEF CountFits
  <2>2. ASSUME Known(s, h, Len(line) + 1, v)', \A k \in Reads(h)' : \E i \in News(h)' : i > k
        PROVE  modem[h].rx = v
    <3>1. Known(s, h, Len(line) + 1, v)
      <4>1. Len(line') + 1 \in Nat \ {0}
        BY <1>0
      <4>2. PICK m \in Nat \ {0} : m = Len(line') + 1
        BY <4>1
      <4>3. Known(s, h, m, v)'
        BY <2>2, <4>2
      <4>4. Known(s, h, m + 1, v)
        BY <1>3, <4>3
      <4>5. QED
        BY <1>0, <4>2, <4>4
    <3>2. \A k \in Reads(h) : \E i \in News(h) : i > k
      BY <1>1, <1>2, <2>2
    <3>3. QED
      BY <2>0, <3>1, <3>2
  <2>3. ASSUME NEW k \in Reads(h)', \A i \in News(h)' : i < k, Known(s, h, k, v)'
        PROVE  modem[h].rx = v - line'[k].n
    <3>1. k + 1 \in Reads(h) /\ Known(s, h, k + 1, v) /\ line'[k] = line[k + 1]
      BY <1>2, <1>3, <2>3
    <3>2. \A i \in News(h) : i < k + 1
      <4>1. SUFFICES ASSUME NEW i \in News(h)
                     PROVE  i < k + 1
        OBVIOUS
      <4>2. i \in Nat /\ k \in Nat \ {0} /\ (i # 1 => i - 1 < k)
        BY <1>1, <1>2, <2>3
      <4>3. QED
        BY <4>2
    <3>3. QED
      BY <2>0, <3>1, <3>2
  <2>4. QED
    BY <2>2, <2>3
<1>6. QED
  BY <1>4, <1>5

\* A command or an answer is under way only in an exchange.
LEMMA InExchange ==
  ASSUME ChannelInv, AnswersInTransit # {} \/ cmd # NoCommand
  PROVE  mtx \in Threads /\ pc[mtx] \in Waiting /\ handle[mtx] \in Slots
<1>1. mtx \in Threads /\ pc[mtx] \in Waiting
  BY DEF ChannelInv, AnswersReachTheirCaller, AwaitedCommand, Waiting
<1>2. QED
  BY <1>1 DEF ChannelInv, TypeInv, InCall, Waiting

\* An answer about h is an answer in transit.
LEMMA ToldMeans ==
  ASSUME NEW h, Told(h) # {}
  PROVE  AnswersInTransit # {}
  BY DEF Told, Lines, AnswersInTransit, Answers

\* A URC is read that leaves the slot of h alone: the thread that reads it
\* goes on as before.
LEMMA SocketTail ==
  ASSUME ChannelInv, line # << >>, line' = Tail(line), UNCHANGED <<pc, mtx, handle, modem>>,
         Head(line).type \in URCs, NEW h \in ModemHandles, SocketInv(h),
         \A s \in Slots : Holds(s, h)' <=> Holds(s, h),
         Head(line).type = "UUSORD" \/ Head(line).handle # h
  PROVE  SocketInv(h)' /\ (Live(h)' <=> Live(h))
<1>a. line \in Seq(LineItem)
  BY DEF ChannelInv, TypeInv, TypeOK
<1>1. /\ \A i \in News(h)' : i \in Nat \ {0} /\ i + 1 \in News(h)
      /\ \A i \in News(h) : i \in Nat \ {0} /\ (i # 1 => i - 1 \in News(h)')
  BY <1>a, NewsTail
<1>2. /\ \A i \in Lost(h)' : i \in Nat \ {0} /\ i + 1 \in Lost(h)
      /\ \A i \in Lost(h) : i # 1 /\ i \in Nat \ {0} /\ i - 1 \in Lost(h)'
  BY <1>a, LostTail
<1>3. /\ \A i \in Told(h)' : i \in Nat \ {0} /\ i + 1 \in Told(h)
      /\ \A i \in Told(h) : i # 1 /\ i \in Nat \ {0} /\ i - 1 \in Told(h)'
  BY <1>a, ToldTail DEF URCs
<1>4. \A l : At(l)' <=> At(l)
  BY DEF At
<1>5. (Lost(h)' = {} <=> Lost(h) = {}) /\ (Told(h)' = {} <=> Told(h) = {})
  BY <1>2, <1>3
<1>6. (Created(h)' <=> Created(h)) /\ (Closing(h)' <=> Closing(h))
  BY <1>4, <1>5 DEF Created, Closing
<1>7. (Held(h)' <=> Held(h)) /\ (Live(h)' <=> Live(h))
  BY <1>5, <1>6 DEF Held, Live
<1>8. URCsInOrder(h)'
  <2>1. News(h)' \cup Lost(h)' # {} => Held(h)'
    BY <1>1, <1>2, <1>7 DEF SocketInv, URCsInOrder
  <2>2. \A i \in Lost(h)', j \in News(h)' \cup Lost(h)' : j <= i
    <3>1. SUFFICES ASSUME NEW i \in Lost(h)', NEW j \in News(h)' \cup Lost(h)'
                   PROVE  j <= i
      OBVIOUS
    <3>2. i \in Nat /\ j \in Nat /\ i + 1 \in Lost(h) /\ j + 1 \in News(h) \cup Lost(h)
      BY <1>1, <1>2, <3>1
    <3>3. j + 1 <= i + 1
      BY <3>2 DEF SocketInv, URCsInOrder
    <3>4. QED
      BY <3>2, <3>3
  <2>3. ASSUME At("open")' \/ At("close")', NEW k \in Told(h)', NEW i \in News(h)' \cup Lost(h)'
        PROVE  i < k
    <3>1. i \in Nat /\ k \in Nat /\ k + 1 \in Told(h) /\ i + 1 \in News(h) \cup Lost(h)
      BY <1>1, <1>2, <1>3, <2>3
    <3>2. i + 1 < k + 1
      BY <1>4, <2>3, <3>1 DEF SocketInv, URCsInOrder
    <3>3. QED
      BY <3>1, <3>2
  <2>4. QED
    BY <2>1, <2>2, <2>3 DEF URCsInOrder
<1>9. OpenIsKnown(h)'
  BY <1>6, <1>7 DEF SocketInv, OpenIsKnown
<1>10. AnswerFindsSlot(h)'
  <2>1. SUFFICES ASSUME Told(h)' # {}, ~At("open")'
                 PROVE  Holds(handle[mtx], h)' /\ \A k \in Told(h)', i \in Lost(h)' : k < i
    BY DEF AnswerFindsSlot
  <2>2. Told(h) # {} /\ ~At("open")
    BY <1>4, <1>5, <2>1
  <2>3. handle[mtx] \in Slots
    BY <2>2, ToldMeans, InExchange
  <2>4. Holds(handle[mtx], h) /\ \A k \in Told(h), i \in Lost(h) : k < i
    BY <2>2 DEF SocketInv, AnswerFindsSlot
  <2>5. PICK s \in Slots : s = handle[mtx]
    BY <2>3
  <2>6. Holds(handle[mtx], h)'
    BY <2>4, <2>5 DEF Holds
  <2>7. ASSUME NEW k \in Told(h)', NEW i \in Lost(h)'
        PROVE  k < i
    <3>1. k \in Nat /\ i \in Nat /\ k + 1 < i + 1
      BY <1>2, <1>3, <2>4, <2>7
    <3>2. QED
      BY <3>1
  <2>8. QED
    BY <2>6, <2>7
<1>11. QED
  BY <1>7, <1>8, <1>9, <1>10 DEF SocketInv

\* The lines left say nothing that the lines before did not say.
LEMMA NothingLostTail ==
  ASSUME NothingLost, line \in Seq(LineItem), line # << >>, line' = Tail(line)
  PROVE  \A i \in 1..Len(line') :
           line'[i].type # "CUT" /\ (line'[i].type # "ERROR" => line'[i].handle \in ModemHandles)
<1>1. \A i \in 1..Len(line') : i + 1 \in 1..Len(line) /\ line'[i] = line[i + 1]
  BY LineTail
<1>2. QED
  BY <1>1 DEF NothingLost

\* Reading another line leaves the answer to a read where it is, one up.
LEMMA ReadsTail ==
  ASSUME line \in Seq(LineItem), line # << >>, line' = Tail(line), UNCHANGED <<pc, mtx>>,
         Head(line).type # "OK", NEW h
  PROVE  /\ \A k \in Reads(h)' : k + 1 \in Reads(h)
         /\ \A k \in Reads(h) : k # 1 /\ k - 1 \in Reads(h)'
<1>1. At("recvRead")' <=> At("recvRead")
  BY DEF At
<1>2. /\ \A k \in Told(h)' : k + 1 \in Told(h)
      /\ \A k \in Told(h) : k # 1 /\ k - 1 \in Told(h)'
  BY ToldTail
<1>3. QED
  BY <1>1, <1>2 DEF Reads

\* A URC handler run by whoever holds the lock.
LEMMA TableURC ==
  ASSUME ChannelInv, ChannelInv', TableInv, NEW a \in Actors, RunURC(a)
  PROVE  TableInv'
<1> USE DEF threadVars, timeoutVars, modemVars, driverVars
<1>a. line \in Seq(LineItem) /\ sockets \in [Slots -> SockCtrl]
  BY DEF ChannelInv, TypeInv, TypeOK
<1>1. CASE CallCallback(a)
  BY <1>1, TableOutside DEF CallCallback
<1>2. CASE \E type : HandleURC(a, type) /\ type \in URCs
  <2>1. PICK h0 : h0 = Head(line).handle
    OBVIOUS
  <2>2. /\ line # << >> /\ line' = Tail(line) /\ Head(line).type \in URCs
        /\ UNCHANGED <<pc, mtx, handle, modem, cmd>>
    BY <1>2 DEF HandleURC, Arrived
  <2>3. h0 \in ModemHandles
    <3>1. 1 \in 1..Len(line) /\ Head(line) = line[1] /\ Head(line).type # "ERROR"
      BY <1>a, <2>2 DEF URCs
    <3>2. QED
      BY <2>1, <3>1 DEF TableInv, NothingLost
  <2>4. News(h0) \cup Lost(h0) # {} /\ Held(h0)
    <3>1. 1 \in News(h0) \cup Lost(h0)
      BY <1>a, <2>1, <2>2, NewsTail, LostTail DEF URCs
    <3>2. QED
      BY <2>3, <3>1 DEF TableInv, SocketInv, URCsInOrder
  <2>5. PICK s0 \in Slots : Holds(s0, h0)
    BY <2>4 DEF Held
  <2>6. \A s \in Slots : Holds(s, h0) => s = s0
    <3>1. h0 # SOCKET_UNUSED
      BY <2>3, SizesAssumption DEF SOCKET_UNUSED
    <3>2. QED
      BY <2>5, <3>1 DEF Holds, TableInv, HandlesUnique
  <2>7. NothingLost'
    <3>1. \A t \in Threads : pc'[t] \in Waiting => cmd' # NoCommand \/ AnswersInTransit' # {}
      <4>1. AnswersInTransit # {} => AnswersInTransit' # {}
        <5>1. ASSUME NEW i \in AnswersInTransit
              PROVE  i - 1 \in AnswersInTransit'
          <6>1. i \in 1..Len(line) /\ line[i].type \in Answers
            BY DEF AnswersInTransit
          <6>2. i # 1
            BY <1>a, <2>2, <6>1, LineTail DEF URCs, Answers
          <6>3. i - 1 \in 1..Len(line') /\ line'[i - 1] = line[i]
            BY <1>a, <2>2, <6>1, <6>2, LineTail
          <6>4. QED
            BY <6>1, <6>3 DEF AnswersInTransit
        <5>2. QED
          BY <5>1
      <4>2. QED
        BY <2>2, <4>1 DEF TableInv, NothingLost
    <3>2. QED
      BY <1>a, <2>2, <3>1, NothingLostTail DEF TableInv, NothingLost
  <2>8. \A h : /\ \A k \in Reads(h)' : k + 1 \in Reads(h)
               /\ \A k \in Reads(h) : k # 1 /\ k - 1 \in Reads(h)'
    BY <1>a, <2>2, ReadsTail DEF URCs
  <2>9. CASE UUSORD_URC(a)
    <3>1. /\ sockets' = [sockets EXCEPT ![s0].pending = Head(line).n]
          /\ Head(line).type = "UUSORD"
      <4>1. ~NotFound(h0)
        BY <2>5 DEF NotFound, Holds
      <4>2. PICK s \in Slots : find_socket(s, h0) /\ sockets' = [sockets EXCEPT ![s].pending = Head(line).n]
        BY <2>1, <2>9, <4>1 DEF UUSORD_URC
      <4>3. s = s0
        BY <2>6, <4>2 DEF find_socket, Holds
      <4>4. QED
        BY <2>9, <4>2, <4>3 DEF UUSORD_URC, HandleURC, Arrived
    <3>2. /\ \A s \in Slots : sockets'[s].modem_handle = sockets[s].modem_handle
          /\ sockets'[s0].pending = Head(line).n
          /\ \A s \in Slots : s # s0 => sockets'[s].pending = sockets[s].pending
      BY <1>a, <3>1 DEF SockCtrl
    <3>3. \A s \in Slots : \A h : Holds(s, h)' <=> Holds(s, h)
      BY <3>2 DEF Holds
    <3>4. \A h \in ModemHandles : SocketInv(h)' /\ (Live(h)' <=> Live(h))
      BY <2>2, <3>1, <3>3, SocketTail DEF TableInv
    <3>5. CommandInv'
      <4>1. \A t \in Threads : pc[t] = "open" => handle[t] \in Slots
        BY DEF ChannelInv, TypeInv, InCall
      <4>2. cmd.name \notin {"none", "USOCR"} => handle[mtx] \in Slots
        BY InExchange DEF NoCommand
      <4>3. QED
        BY <2>2, <3>2, <4>1, <4>2 DEF CommandInv, TableInv, Holds, IsOpen
    <3>6. HandlesUnique'
      BY <3>2 DEF TableInv, HandlesUnique
    <3>7. PendingInv'
      <4>1. SUFFICES ASSUME NEW s \in Slots, NEW h \in ModemHandles, Holds(s, h)'
                     PROVE  ReadFits(s, h)' /\ (Live(h)' => CountFits(s, h)')
        BY DEF PendingInv
      <4>2. Holds(s, h) /\ ReadFits(s, h) /\ (Live(h) => CountFits(s, h))
        BY <3>3, <4>1 DEF TableInv, PendingInv
      <4>3. sockets'[s].pending = IF Head(line).type = "UUSORD" /\ Head(line).handle = h
                                    THEN Head(line).n ELSE sockets[s].pending
        BY <2>1, <2>5, <2>6, <3>1, <3>2, <4>2 DEF Holds
      <4>4. ReadFits(s, h)' /\ (CountFits(s, h) => CountFits(s, h)')
        BY <1>a, <2>2, <2>8, <4>2, <4>3, PendingTail
      <4>5. QED
        BY <3>4, <4>2, <4>4
    <3>8. QED
      BY <2>7, <3>4, <3>5, <3>6, <3>7 DEF TableInv
  <2>10. CASE UUSOCL_URC(a) \/ UUPSDD_URC(a)
    <3>1. /\ sockets' = [sockets EXCEPT ![s0] = UnusedSocket]
          /\ Head(line).type \in {"UUSOCL", "UUPSDD"}
      <4>1. ~NotFound(h0)
        BY <2>5 DEF NotFound, Holds
      <4>2. PICK s \in Slots : find_socket(s, h0) /\ clear_socket(s)
        BY <2>1, <2>10, <4>1 DEF UUSOCL_URC, UUPSDD_URC, ClearByHandle
      <4>3. s = s0
        BY <2>6, <4>2 DEF find_socket, Holds
      <4>4. QED
        BY <2>10, <4>2, <4>3 DEF UUSOCL_URC, UUPSDD_URC, HandleURC, Arrived, clear_socket
    <3>2. /\ sockets'[s0] = UnusedSocket
          /\ \A s \in Slots : s # s0 => sockets'[s] = sockets[s]
      BY <1>a, <3>1
    <3>3. \A s \in Slots, h \in ModemHandles :
            (h # h0 => (Holds(s, h)' <=> Holds(s, h))) /\ (h = h0 => ~Holds(s, h)')
      <4>1. \A h \in ModemHandles : ~Holds(s0, h)'
        BY <3>2, SizesAssumption DEF Holds, UnusedSocket, SOCKET_UNUSED
      <4>2. \A s \in Slots : \A h : s # s0 => (Holds(s, h)' <=> Holds(s, h))
        BY <3>2 DEF Holds
      <4>3. \A h : Holds(s0, h) => h = h0
        BY <2>5 DEF Holds
      <4>4. QED
        BY <2>6, <4>1, <4>2, <4>3
    <3>4. \A h \in ModemHandles : h # h0 => SocketInv(h)' /\ (Live(h)' <=> Live(h))
      BY <2>1, <2>2, <3>3, SocketTail DEF TableInv
    <3>5. /\ SocketInv(h0)' /\ ~Live(h0)'
          /\ Holds(s0, h0) /\ ((\E t \in Threads : pc[t] = "open") \/ Told(h0) = {})
          /\ (cmd # NoCommand => ~modem[h0].open)
      <4>1. SocketInv(h0)
        BY <2>3 DEF TableInv
      <4>2. 1 \in Lost(h0)
        BY <1>a, <2>1, <2>2, <3>1, LostTail
      <4>3. \A j \in News(h0) \cup Lost(h0) : j = 1
        <5>1. \A j \in News(h0) \cup Lost(h0) : j \in Nat \ {0} /\ j <= 1
          BY <1>a, <2>2, <4>1, <4>2, NewsTail, LostTail DEF SocketInv, URCsInOrder
        <5>2. QED
          BY <5>1
      <4>4. News(h0)' = {} /\ Lost(h0)' = {}
        <5>1. \A i \in News(h0)' \cup Lost(h0)' : i \in Nat \ {0} /\ i + 1 \in News(h0) \cup Lost(h0)
          BY <1>a, <2>2, NewsTail, LostTail
        <5>2. \A i \in News(h0)' \cup Lost(h0)' : i \in Nat \ {0} /\ i + 1 = 1
          BY <4>3, <5>1
        <5>3. QED
          BY <5>2
      <4>5. \A k \in Told(h0) : k \in Nat \ {0} /\ k # 1
        BY <1>a, <2>2, ToldTail DEF URCs
      <4>6. Told(h0) # {} => At("open")
        <5>1. SUFFICES ASSUME NEW k \in Told(h0), ~At("open")
                       PROVE  FALSE
          OBVIOUS
        <5>2. k < 1
          BY <4>1, <4>2, <5>1 DEF SocketInv, AnswerFindsSlot
        <5>3. QED
          BY <4>5, <5>2
      <4>7. Told(h0)' = {} <=> Told(h0) = {}
        <5>1. /\ \A i \in Told(h0)' : i + 1 \in Told(h0)
              /\ \A i \in Told(h0) : i # 1 => i - 1 \in Told(h0)'
          BY <1>a, <2>2, ToldTail
        <5>2. QED
          BY <4>5, <5>1
      <4>8. ~Held(h0)' /\ ~Live(h0)' /\ ~Live(h0)
        BY <2>3, <3>3, <4>2 DEF Held, Live
      <4>9. /\ Created(h0)' <=> Created(h0)
            /\ \A l : At(l)' <=> At(l)
        BY <2>2, <4>7 DEF Created, At
      <4>10. URCsInOrder(h0)'
        BY <4>4 DEF URCsInOrder
      <4>11. OpenIsKnown(h0)'
        BY <2>2, <4>1, <4>8, <4>9 DEF SocketInv, OpenIsKnown
      <4>12. AnswerFindsSlot(h0)'
        BY <4>6, <4>7, <4>9 DEF AnswerFindsSlot
      <4>13. cmd # NoCommand => ~modem[h0].open
        <5>1. cmd # NoCommand => Told(h0) = {}
          BY NoneTold DEF ChannelInv, AnswersReachTheirCaller
        <5>2. QED
          BY <4>1, <4>8, <5>1 DEF SocketInv, OpenIsKnown, Created
      <4>14. Told(h0) # {} => \E t \in Threads : pc[t] = "open"
        BY <4>6 DEF At
      <4>15. QED
        BY <2>5, <4>8, <4>10, <4>11, <4>12, <4>13, <4>14 DEF SocketInv
    <3>6. CommandInv'
      <4>1. \A t \in Threads : pc[t] = "open" => handle[t] \in Slots
        BY DEF ChannelInv, TypeInv, InCall
      <4>2. \A t \in Threads : pc'[t] = "open" => Holds(handle[t], SOCKET_UNUSED)'
        BY <2>2, <3>2, <4>1 DEF CommandInv, TableInv, Holds, UnusedSocket
      <4>3. ASSUME cmd.name \notin {"none", "USOCR"}
            PROVE  (Holds(handle[mtx], cmd.handle) \/ ~IsOpen(cmd.handle))'
        <5>1. handle[mtx] \in Slots /\ cmd # NoCommand
          BY <4>3, InExchange DEF NoCommand
        <5>2. CASE handle[mtx] = s0 /\ Holds(handle[mtx], cmd.handle)
          BY <2>2, <2>5, <3>5, <5>1, <5>2 DEF Holds, IsOpen
        <5>3. CASE ~IsOpen(cmd.handle)
          BY <2>2, <5>3 DEF IsOpen
        <5>4. CASE handle[mtx] # s0 /\ Holds(handle[mtx], cmd.handle)
          BY <2>2, <3>2, <5>1, <5>4 DEF Holds
        <5>5. QED
          BY <4>3, <5>2, <5>3, <5>4 DEF TableInv, CommandInv
      <4>4. QED
        BY <2>2, <4>2, <4>3 DEF CommandInv
    <3>7. HandlesUnique'
      BY <3>2 DEF TableInv, HandlesUnique, UnusedSocket
    <3>8. PendingInv'
      <4>1. SUFFICES ASSUME NEW s \in Slots, NEW h \in ModemHandles, Holds(s, h)'
                     PROVE  ReadFits(s, h)' /\ (Live(h)' => CountFits(s, h)')
        BY DEF PendingInv
      <4>2. h # h0 /\ s # s0 /\ Holds(s, h) /\ ReadFits(s, h) /\ (Live(h) => CountFits(s, h))
        <5>1. h # h0 /\ Holds(s, h)
          BY <3>3, <4>1
        <5>2. s # s0
          BY <2>5, <5>1 DEF Holds
        <5>3. QED
          BY <5>1, <5>2 DEF TableInv, PendingInv
      <4>3. sockets'[s].pending = IF Head(line).type = "UUSORD" /\ Head(line).handle = h
                                    THEN Head(line).n ELSE sockets[s].pending
        BY <2>1, <3>2, <4>2
      <4>4. ReadFits(s, h)' /\ (CountFits(s, h) => CountFits(s, h)')
        BY <1>a, <2>2, <2>8, <4>2, <4>3, PendingTail
      <4>5. QED
        BY <3>4, <4>2, <4>4
    <3>9. QED
      BY <2>7, <3>4, <3>5, <3>6, <3>7, <3>8 DEF TableInv
  <2>11. QED
    BY <1>1, <2>9, <2>10 DEF RunURC
<1>3. QED
  BY <1>1, <1>2 DEF RunURC, UUSORD_URC, UUSOCL_URC, UUPSDD_URC, URCs

\* A line that is no news of h leaves what is known of h.
LEMMA KnownAppend ==
  ASSUME line \in Seq(LineItem), NEW x, x \in LineItem, line' = Append(line, x),
         NEW s \in Slots, NEW h, News(h)' = News(h), sockets'[s].pending = sockets[s].pending
  PROVE  /\ \A k, v : Known(s, h, k, v)' <=> Known(s, h, k, v)
         /\ \A v : Known(s, h, Len(line) + 1, v)' => Known(s, h, Len(line) + 1, v)
<1>1. \A i \in News(h) : line'[i] = line[i]
  BY NewsAppend
<1>2. \A k, v : Known(s, h, k, v)' <=> Known(s, h, k, v)
  BY <1>1 DEF Known
<1>3. ASSUME NEW v, Known(s, h, Len(line) + 1, v)'
      PROVE  Known(s, h, Len(line) + 1, v)
  <2>1. \A i \in News(h) : i \in Nat /\ i < Len(line) + 1
    BY NewsAppend
  <2>2. Len(line') = Len(line) + 1 /\ Len(line) \in Nat
    BY LineAppend
  <2>3. CASE v = sockets[s].pending /\ \A i \in News(h) : i >= Len(line') + 1
    <3>1. News(h) = {}
      BY <2>1, <2>2, <2>3
    <3>2. QED
      BY <2>3, <3>1 DEF Known
  <2>4. ASSUME NEW i \in News(h), v = line[i].n, \A j \in News(h) : j <= i \/ j >= Len(line') + 1
        PROVE  Known(s, h, Len(line) + 1, v)
    <3>1. \A j \in News(h) : j <= i
      BY <2>1, <2>2, <2>4
    <3>2. i < Len(line) + 1
      BY <2>1
    <3>3. QED
      BY <2>4, <3>1, <3>2 DEF Known
  <2>5. QED
    BY <1>1, <1>3, <2>3, <2>4 DEF Known
<1>4. QED
  BY <1>2, <1>3

\* pending stays right when a line comes that is not about it.
LEMMA PendingAppend ==
  ASSUME line \in Seq(LineItem), NEW x, x \in LineItem, line' = Append(line, x),
         NEW s \in Slots, NEW h, News(h)' = News(h), Reads(h)' = Reads(h),
         sockets'[s].pending = sockets[s].pending, modem'[h].rx = modem[h].rx
  PROVE  (ReadFits(s, h) => ReadFits(s, h)') /\ (CountFits(s, h) => CountFits(s, h)')
<1>1. /\ \A k, v : Known(s, h, k, v)' <=> Known(s, h, k, v)
      /\ \A v : Known(s, h, Len(line) + 1, v)' => Known(s, h, Len(line) + 1, v)
  BY KnownAppend
<1>2. \A k \in Reads(h) : line'[k] = line[k]
  BY ToldAppend DEF Reads
<1>3. ReadFits(s, h) => ReadFits(s, h)'
  BY <1>1, <1>2 DEF ReadFits
<1>4. CountFits(s, h) => CountFits(s, h)'
  <2>1. SUFFICES ASSUME CountFits(s, h), NEW v \in Nat
                 PROVE  /\ Known(s, h, Len(line) + 1, v)' /\ (\A k \in Reads(h)' : \E i \in News(h)' : i > k)
                             => modem'[h].rx = v
                        /\ \A k \in Reads(h)' :
                             (\A i \in News(h)' : i < k) /\ Known(s, h, k, v)' => modem'[h].rx = v - line'[k].n
    BY DEF CountFits
  <2>2. /\ Known(s, h, Len(line) + 1, v) /\ (\A k \in Reads(h) : \E i \in News(h) : i > k)
             => modem[h].rx = v
        /\ \A k \in Reads(h) :
             (\A i \in News(h) : i < k) /\ Known(s, h, k, v) => modem[h].rx = v - line[k].n
    BY <2>1 DEF CountFits
  <2>3. QED
    BY <1>1, <1>2, <2>2
<1>5. QED
  BY <1>3, <1>4

\* Whatever is added to the line, the sockets it is not about are as before.
LEMMA SocketAppend ==
  ASSUME line \in Seq(LineItem), NEW x, x \in LineItem, line' = Append(line, x),
         UNCHANGED <<pc, mtx, handle, sockets>>, NEW h, x.handle # h \/ x.type = "ERROR",
         modem'[h] = modem[h]
  PROVE  /\ News(h)' = News(h) /\ Reads(h)' = Reads(h)
         /\ (SocketInv(h)' <=> SocketInv(h)) /\ (Live(h)' <=> Live(h))
<1>1. News(h)' = News(h) /\ Lost(h)' = Lost(h) /\ Told(h)' = Told(h)
  <2>1. News(h)' = News(h)
    <3>1. Len(line) + 1 \notin News(h)'
      BY NewsAppend
    <3>2. (\A i \in News(h) : i \in News(h)') /\ \A i \in News(h)' : i \in News(h)
      BY <3>1, NewsAppend
    <3>3. QED
      BY <3>2
  <2>2. Lost(h)' = Lost(h)
    <3>1. Len(line) + 1 \notin Lost(h)'
      BY LostAppend
    <3>2. (\A i \in Lost(h) : i \in Lost(h)') /\ \A i \in Lost(h)' : i \in Lost(h)
      BY <3>1, LostAppend
    <3>3. QED
      BY <3>2
  <2>3. Told(h)' = Told(h)
    <3>1. Len(line) + 1 \notin Told(h)'
      BY ToldAppend
    <3>2. (\A i \in Told(h) : i \in Told(h)') /\ \A i \in Told(h)' : i \in Told(h)
      BY <3>1, ToldAppend
    <3>3. QED
      BY <3>2
  <2>4. QED
    BY <2>1, <2>2, <2>3
<1>2. (\A l : At(l)' <=> At(l)) /\ \A s, g : Holds(s, g)' <=> Holds(s, g)
  BY DEF At, Holds
<1>3. (Held(h)' <=> Held(h)) /\ (Created(h)' <=> Created(h)) /\ (Closing(h)' <=> Closing(h))
      /\ Reads(h)' = Reads(h)
  BY <1>1, <1>2 DEF Held, Created, Closing, Reads
<1>4. Live(h)' <=> Live(h)
  BY <1>1, <1>3 DEF Live
<1>5. URCsInOrder(h)' <=> URCsInOrder(h)
  BY <1>1, <1>2, <1>3 DEF URCsInOrder
<1>6. OpenIsKnown(h)' <=> OpenIsKnown(h)
  BY <1>3, <1>4 DEF OpenIsKnown
<1>7. AnswerFindsSlot(h)' <=> AnswerFindsSlot(h)
  <2>1. Holds(handle[mtx], h)' <=> Holds(handle[mtx], h)
    BY DEF Holds
  <2>2. QED
    BY <1>1, <1>2, <2>1 DEF AnswerFindsSlot
<1>8. QED
  BY <1>1, <1>3, <1>4, <1>5, <1>6, <1>7 DEF SocketInv

\* The network says something about h0.
LEMMA TableNetwork ==
  ASSUME ChannelInv, TableInv, NEW h0 \in ModemHandles,
         DataArrives(h0) \/ RemoteCloses(h0) \/ ContextLost(h0)
  PROVE  TableInv'
<1> USE DEF threadVars, timeoutVars, driverVars
<1>1. /\ line \in Seq(LineItem) /\ modem \in [ModemHandles -> ModemSocket]
      /\ UNCHANGED <<sockets, handle, pc, mtx, cmd>> /\ modem[h0].ready
  BY DEF DataArrives, RemoteCloses, ContextLost, NetworkStep, ChannelInv, TypeInv, TypeOK
<1>2. PICK x \in LineItem : /\ line' = Append(line, x) /\ x.handle = h0 /\ x.type \in URCs
                            /\ \/ /\ x.type = "UUSORD"
                                  /\ modem' = [modem EXCEPT ![h0].rx = x.n]
                               \/ /\ x.type \in {"UUSOCL", "UUPSDD"}
                                  /\ modem' = [modem EXCEPT ![h0] = ClosedSocket]
  <2>1. CASE DataArrives(h0)
    <3>1. PICK n \in modem[h0].rx + 1..MaxRx :
            /\ modem' = [modem EXCEPT ![h0].rx = n]
            /\ line' = Append(line, Line("UUSORD", h0, n))
      BY <2>1 DEF DataArrives
    <3>2. n \in 0..MaxRx
      <4>1. modem[h0].rx \in 0..MaxRx
        BY <1>1 DEF ModemSocket
      <4>2. QED
        BY <4>1, SizesAssumption
    <3>3. Line("UUSORD", h0, n) \in LineItem
      BY <3>2 DEF Line, LineItem, URCs
    <3>4. QED
      BY <3>1, <3>3 DEF Line, URCs
  <2>2. CASE RemoteCloses(h0) \/ ContextLost(h0)
    <3>1. \A type \in URCs : Line(type, h0, 0) \in LineItem
      BY SizesAssumption DEF Line, LineItem
    <3>2. QED
      BY <2>2, <3>1 DEF RemoteCloses, ContextLost, Line, URCs
  <2>3. QED
    BY <2>1, <2>2
<1>3. \A h \in ModemHandles : h # h0 => modem'[h] = modem[h]
  BY <1>1, <1>2
<1>4. SocketInv(h0) /\ Live(h0) /\ Held(h0) /\ ~Created(h0) /\ ~Closing(h0) /\ Lost(h0) = {}
      /\ modem[h0].open
  BY <1>1 DEF TableInv, SocketInv, OpenIsKnown, Live
<1>5. /\ \A i \in News(h0) : i \in Nat /\ i < Len(line) + 1 /\ i \in News(h0)' /\ line'[i] = line[i]
      /\ \A i \in News(h0)' : i \in News(h0) \/ i = Len(line) + 1
      /\ Len(line) + 1 \in News(h0)' <=> x.type = "UUSORD"
      /\ \A i \in Lost(h0)' : i = Len(line) + 1
      /\ Lost(h0)' # {} <=> x.type # "UUSORD"
      /\ Told(h0)' = Told(h0)
      /\ \A k \in Told(h0) : k \in Nat /\ k < Len(line) + 1
      /\ Len(line) \in Nat /\ Len(line') = Len(line) + 1 /\ line'[Len(line) + 1] = x
  <2>1. /\ \A i \in News(h0) : i \in Nat /\ i < Len(line) + 1 /\ i \in News(h0)' /\ line'[i] = line[i]
        /\ \A i \in News(h0)' : i \in News(h0) \/ i = Len(line) + 1
        /\ Len(line) + 1 \in News(h0)' <=> x.type = "UUSORD"
    BY <1>1, <1>2, NewsAppend
  <2>2. /\ \A i \in Lost(h0)' : i = Len(line) + 1
        /\ Len(line) + 1 \in Lost(h0)' <=> x.type \in {"UUSOCL", "UUPSDD"}
    BY <1>1, <1>2, <1>4, LostAppend
  <2>3. x.type \in {"UUSOCL", "UUPSDD"} <=> x.type # "UUSORD"
    BY <1>2 DEF URCs
  <2>4. Lost(h0)' # {} <=> x.type # "UUSORD"
    BY <2>2, <2>3
  <2>5. /\ \A k \in Told(h0) : k \in Nat /\ k < Len(line) + 1 /\ k \in Told(h0)'
        /\ \A k \in Told(h0)' : k \in Told(h0)
    <3>1. Len(line) + 1 \notin Told(h0)'
      BY <1>1, <1>2, ToldAppend DEF URCs
    <3>2. QED
      BY <1>1, <1>2, <3>1, ToldAppend
  <2>6. Told(h0)' = Told(h0)
    BY <2>5
  <2>7. Len(line) \in Nat /\ Len(line') = Len(line) + 1 /\ line'[Len(line) + 1] = x
    BY <1>1, <1>2, LineAppend
  <2>8. QED
    BY <2>1, <2>2, <2>4, <2>5, <2>6, <2>7
<1>6. (\A l : At(l)' <=> At(l)) /\ (\A s, h : Holds(s, h)' <=> Holds(s, h)) /\ Held(h0)'
  BY <1>1, <1>4 DEF At, Holds, Held
<1>7. ~Created(h0)' /\ ~Closing(h0)' /\ (Live(h0)' <=> x.type = "UUSORD") /\ Reads(h0)' = Reads(h0)
  BY <1>4, <1>5, <1>6 DEF Created, Closing, Live, Reads
<1>8. SocketInv(h0)'
  <2>1. URCsInOrder(h0)'
    <3>1. \A i \in Lost(h0)', j \in News(h0)' \cup Lost(h0)' : j <= i
      BY <1>5
    <3>2. At("open")' \/ At("close")' => Told(h0)' = {}
      BY <1>4, <1>5, <1>6 DEF Created, Closing
    <3>3. QED
      BY <1>6, <3>1, <3>2 DEF URCsInOrder
  <2>2. OpenIsKnown(h0)'
    <3>1. CASE x.type = "UUSORD"
      BY <1>1, <1>2, <1>4, <1>7, <3>1 DEF OpenIsKnown, ModemSocket
    <3>2. CASE x.type # "UUSORD"
      <4>1. modem'[h0] = ClosedSocket
        BY <1>1, <1>2, <3>2
      <4>2. QED
        BY <1>7, <3>2, <4>1 DEF OpenIsKnown, ClosedSocket
    <3>3. QED
      BY <3>1, <3>2
  <2>3. AnswerFindsSlot(h0)'
    <3>1. Holds(handle[mtx], h0)' <=> Holds(handle[mtx], h0)
      BY <1>1 DEF Holds
    <3>2. QED
      BY <1>4, <1>5, <1>6, <3>1 DEF SocketInv, AnswerFindsSlot
  <2>4. QED
    BY <2>1, <2>2, <2>3 DEF SocketInv
<1>9. \A h \in ModemHandles : h # h0 =>
        /\ News(h)' = News(h) /\ Reads(h)' = Reads(h) /\ SocketInv(h)' /\ (Live(h)' <=> Live(h))
  BY <1>1, <1>2, <1>3, SocketAppend DEF TableInv
<1>10. NothingLost'
  <2>1. AnswersInTransit # {} => AnswersInTransit' # {}
    BY <1>1, <1>2, LineAppend DEF AnswersInTransit
  <2>2. \A i \in 1..Len(line') :
          line'[i].type # "CUT" /\ (line'[i].type # "ERROR" => line'[i].handle \in ModemHandles)
    <3>1. \A i \in 1..Len(line') : (i \in 1..Len(line) /\ line'[i] = line[i]) \/ line'[i] = x
      BY <1>1, <1>2, LineAppend
    <3>2. QED
      BY <1>2, <3>1 DEF TableInv, NothingLost, URCs
  <2>3. QED
    BY <1>1, <2>1, <2>2 DEF TableInv, NothingLost
<1>11. CommandInv'
  <2>1. IsOpen(cmd.handle)' => IsOpen(cmd.handle)
    BY <1>1, <1>3, <1>4 DEF IsOpen
  <2>2. QED
    BY <1>1, <2>1 DEF TableInv, CommandInv, Holds
<1>12. HandlesUnique'
  BY <1>1 DEF TableInv, HandlesUnique
<1>13. PendingInv'
  <2>1. SUFFICES ASSUME NEW s \in Slots, NEW h \in ModemHandles, Holds(s, h)'
                 PROVE  ReadFits(s, h)' /\ (Live(h)' => CountFits(s, h)')
    BY DEF PendingInv
  <2>2. Holds(s, h) /\ ReadFits(s, h) /\ (Live(h) => CountFits(s, h))
    BY <1>6, <2>1 DEF TableInv, PendingInv
  <2>3. CASE h # h0
    BY <1>1, <1>2, <1>3, <1>9, <2>2, <2>3, PendingAppend
  <2>4. CASE h = h0 /\ x.type # "UUSORD"
    <3>1. News(h)' = News(h)
      <4>1. /\ \A i \in News(h) : i \in News(h)'
            /\ \A i \in News(h)' : i \in News(h)
        BY <1>5, <2>4
      <4>2. QED
        BY <4>1
    <3>2. \A k, v : Known(s, h, k, v)' <=> Known(s, h, k, v)
      BY <1>1, <1>2, <3>1, KnownAppend
    <3>3. \A k \in Reads(h) : line'[k] = line[k]
      BY <1>1, <1>2, ToldAppend DEF Reads
    <3>4. QED
      BY <1>7, <2>2, <2>4, <3>2, <3>3 DEF ReadFits
  <2>5. CASE h = h0 /\ x.type = "UUSORD"
    <3>1. \A k \in Reads(h) : k \in Nat /\ k < Len(line) + 1 /\ line'[k] = line[k]
      BY <1>1, <1>2, ToldAppend DEF Reads
    <3>2. ASSUME NEW k \in Reads(h), NEW v, Known(s, h, k, v)'
          PROVE  Known(s, h, k, v)
      <4>1. CASE v = sockets[s].pending /\ \A i \in News(h)' : i >= k
        BY <1>5, <2>5, <4>1 DEF Known
      <4>2. ASSUME NEW i \in News(h)', v = line'[i].n, i < k, \A j \in News(h)' : j <= i \/ j >= k
            PROVE  Known(s, h, k, v)
        <5>1. i # Len(line) + 1
          BY <1>5, <3>1, <4>2
        <5>2. i \in News(h) /\ v = line[i].n
          BY <1>5, <2>5, <4>2, <5>1
        <5>3. \A j \in News(h) : j <= i \/ j >= k
          BY <1>5, <2>5, <4>2
        <5>4. QED
          BY <4>2, <5>2, <5>3 DEF Known
      <4>3. QED
        BY <1>1, <3>2, <4>1, <4>2 DEF Known
    <3>3. ReadFits(s, h)'
      BY <1>7, <2>2, <2>5, <3>1, <3>2 DEF ReadFits
    <3>4. ASSUME NEW v \in Nat, Known(s, h, Len(line) + 1, v)'
          PROVE  modem'[h].rx = v
      <4>1. Len(line) + 1 \in News(h)'
        BY <1>5, <2>5
      <4>2. \A i \in News(h)' : i \in Nat /\ i <= Len(line) + 1
        BY <1>5, <2>5
      <4>3. ~(\A i \in News(h)' : i >= Len(line') + 1)
        BY <1>5, <4>1
      <4>4. PICK i \in News(h)' : v = line'[i].n /\ \A j \in News(h)' : j <= i \/ j >= Len(line') + 1
        BY <3>4, <4>3 DEF Known
      <4>5. i = Len(line) + 1
        BY <1>5, <4>1, <4>2, <4>4
      <4>6. modem'[h].rx = x.n
        BY <1>1, <1>2, <2>5 DEF ModemSocket
      <4>7. QED
        BY <1>5, <4>4, <4>5, <4>6
    <3>5. \A k \in Reads(h)' : ~(\A i \in News(h)' : i < k)
      BY <1>5, <1>7, <2>5, <3>1
    <3>6. CountFits(s, h)'
      BY <3>4, <3>5 DEF CountFits
    <3>7. QED
      BY <3>3, <3>6
  <2>6. QED
    BY <2>3, <2>4, <2>5
<1>14. QED
  BY <1>8, <1>9, <1>10, <1>11, <1>12, <1>13 DEF TableInv

\* A line is added that answers the command.
LEMMA NothingLostAnswer ==
  ASSUME TableInv, line \in Seq(LineItem), NEW x, x \in LineItem, line' = Append(line, x),
         UNCHANGED pc, cmd' = NoCommand, x.type \in {"OK", "ERROR"},
         x.type = "OK" => x.handle \in ModemHandles
  PROVE  NothingLost'
<1>1. AnswersInTransit' # {}
  <2>1. Len(line) + 1 \in 1..Len(line') /\ line'[Len(line) + 1] = x
    BY LineAppend
  <2>2. QED
    BY <2>1 DEF AnswersInTransit, Answers
<1>2. \A i \in 1..Len(line') : (i \in 1..Len(line) /\ line'[i] = line[i]) \/ line'[i] = x
  BY LineAppend
<1>3. QED
  BY <1>1, <1>2 DEF TableInv, NothingLost, NoCommand

\* The modem answers ERROR: without a fault only when the socket is closed.
LEMMA TableRefuses ==
  ASSUME ChannelInv, TableInv, faults' = faults, faults \in Nat, ModemRefuses
  PROVE  TableInv'
<1> USE DEF threadVars, timeoutVars, driverVars
<1>1. /\ line \in Seq(LineItem) /\ UNCHANGED <<sockets, handle, pc, mtx, modem>>
      /\ cmd # NoCommand /\ cmd' = NoCommand /\ cmd.handle \in ModemHandles \cup {SOCKET_UNUSED}
  BY DEF ModemRefuses, ChannelInv, TypeInv, TypeOK, Command
<1>2. PICK x \in LineItem : line' = Append(line, x) /\ x.type = "ERROR"
  <2>1. Line("ERROR", cmd.handle, 0) \in LineItem
    BY <1>1, SizesAssumption DEF Line, LineItem, Answers
  <2>2. QED
    BY <2>1 DEF ModemRefuses, Line
<1>3. \A h \in ModemHandles :
        /\ News(h)' = News(h) /\ Reads(h)' = Reads(h) /\ SocketInv(h)' /\ (Live(h)' <=> Live(h))
  BY <1>1, <1>2, SocketAppend DEF TableInv
<1>4. NothingLost'
  BY <1>1, <1>2, NothingLostAnswer
<1>5. CommandInv'
  BY <1>1 DEF TableInv, CommandInv, Holds, NoCommand
<1>6. HandlesUnique'
  BY <1>1 DEF TableInv, HandlesUnique
<1>7. PendingInv'
  <2>1. SUFFICES ASSUME NEW s \in Slots, NEW h \in ModemHandles, Holds(s, h)'
                 PROVE  ReadFits(s, h)' /\ (Live(h)' => CountFits(s, h)')
    BY DEF PendingInv
  <2>2. Holds(s, h) /\ ReadFits(s, h) /\ (Live(h) => CountFits(s, h))
    BY <1>1, <2>1 DEF TableInv, PendingInv, Holds
  <2>3. QED
    BY <1>1, <1>2, <1>3, <2>2, PendingAppend
<1>8. QED
  BY <1>3, <1>4, <1>5, <1>6, <1>7 DEF TableInv

\* What the modem's answer OK to the command about h0 changes of that socket.
LEMMA TableExecutes ==
  ASSUME ChannelInv, TableInv, faults' = faults, faults \in Nat, ModemExecutes
  PROVE  TableInv'
<1> USE DEF threadVars, timeoutVars, driverVars
<1>1. /\ line \in Seq(LineItem) /\ modem \in [ModemHandles -> ModemSocket]
      /\ UNCHANGED <<sockets, handle, pc, mtx>> /\ cmd # NoCommand /\ cmd' = NoCommand
  BY DEF ModemExecutes, ChannelInv, TypeInv, TypeOK
<1>2. PICK h0 \in ModemHandles, n \in 0..MaxRx : CarryOut(h0, n) /\ line' = Append(line, Line("OK", h0, n))
  BY DEF ModemExecutes
<1>3. PICK x \in LineItem : line' = Append(line, x) /\ x.type = "OK" /\ x.handle = h0 /\ x.n = n
  <2>1. Line("OK", h0, n) \in LineItem
    BY DEF Line, LineItem, Answers
  <2>2. QED
    BY <1>2, <2>1 DEF Line
<1>4. \A h \in ModemHandles : h # h0 => modem'[h] = modem[h]
  BY <1>1, <1>2 DEF CarryOut
<1>5. /\ mtx \in Threads /\ handle[mtx] \in Slots /\ AnswersInTransit = {}
      /\ pc[mtx] \in Waiting /\ AwaitedCommand[pc[mtx]] = cmd.name
      /\ At("open") <=> cmd.name = "USOCR"
      /\ At("close") <=> cmd.name = "USOCL"
      /\ At("recvRead") <=> cmd.name = "USORD"
  <2>1. /\ mtx \in Threads /\ handle[mtx] \in Slots /\ AnswersInTransit = {}
        /\ pc[mtx] \in Waiting /\ AwaitedCommand[pc[mtx]] = cmd.name
    BY <1>1, InExchange DEF ChannelInv, AnswersReachTheirCaller
  <2>2. pc[mtx] \notin {"bindType", "bindClose", "bindOpen"}
    BY <2>1 DEF TableInv, NothingLost
  <2>3. QED
    BY <2>1, <2>2 DEF At, AwaitedCommand, Waiting
<1>6. \A h : Told(h) = {} /\ Reads(h) = {} /\ ~Created(h) /\ ~Closing(h)
  BY <1>5, NoneTold
<1>7. /\ News(h0)' = News(h0) /\ Lost(h0)' = Lost(h0) /\ Told(h0)' = {Len(line) + 1}
      /\ \A i \in News(h0) \cup Lost(h0) : i \in Nat /\ i < Len(line) + 1
      /\ \A i \in News(h0) : line'[i] = line[i]
      /\ Len(line) \in Nat /\ Len(line') = Len(line) + 1 /\ line'[Len(line) + 1] = x
  <2>1. /\ \A i \in News(h0) : i \in News(h0)' /\ i \in Nat /\ i < Len(line) + 1 /\ line'[i] = line[i]
        /\ \A i \in News(h0)' : i \in News(h0)
    BY <1>1, <1>3, NewsAppend
  <2>2. /\ \A i \in Lost(h0) : i \in Lost(h0)' /\ i \in Nat /\ i < Len(line) + 1
        /\ \A i \in Lost(h0)' : i \in Lost(h0)
    BY <1>1, <1>3, LostAppend
  <2>3. /\ Len(line) + 1 \in Told(h0)'
        /\ \A i \in Told(h0)' : i = Len(line) + 1
    BY <1>1, <1>3, <1>6, ToldAppend
  <2>4. Len(line) \in Nat /\ Len(line') = Len(line) + 1 /\ line'[Len(line) + 1] = x
    BY <1>1, <1>3, LineAppend
  <2>5. QED
    BY <2>1, <2>2, <2>3, <2>4
<1>8. /\ \A l : At(l)' <=> At(l)
      /\ \A s, h : Holds(s, h)' <=> Holds(s, h)
      /\ Held(h0)' <=> Held(h0)
      /\ Created(h0)' <=> cmd.name = "USOCR"
      /\ Closing(h0)' <=> cmd.name = "USOCL"
      /\ cmd.name # "USOCL" => (Live(h0)' <=> Live(h0))
      /\ cmd.name = "USOCL" => ~Live(h0)'
  <2>1. (\A l : At(l)' <=> At(l)) /\ (\A s, h : Holds(s, h)' <=> Holds(s, h))
    BY <1>1 DEF At, Holds
  <2>2. Held(h0)' <=> Held(h0)
    BY <2>1 DEF Held
  <2>3. Created(h0)' <=> cmd.name = "USOCR"
    BY <1>5, <1>7, <2>1 DEF Created
  <2>4. Closing(h0)' <=> cmd.name = "USOCL"
    BY <1>5, <1>7, <2>1 DEF Closing
  <2>5. QED
    BY <1>6, <1>7, <2>1, <2>2, <2>3, <2>4 DEF Live
<1>9. SocketInv(h0)
  BY DEF TableInv
<1>10. ASSUME cmd.name = "USOCR"
       PROVE  OpenIsKnown(h0)' /\ URCsInOrder(h0)' /\ AnswerFindsSlot(h0)' /\ ~Live(h0)'
  <2>0. cmd.n = 0
    BY <1>10 DEF TableInv, NothingLost
  <2>1. /\ ~modem[h0].open
        /\ modem' = [modem EXCEPT ![h0] = [open |-> TRUE, ready |-> cmd.n = 1, rx |-> 0, for |-> mtx]]
    BY <1>2, <1>10 DEF CarryOut
  <2>2. modem'[h0].open /\ ~modem'[h0].ready /\ modem'[h0].rx = 0
    <3>1. modem'[h0] = [open |-> TRUE, ready |-> cmd.n = 1, rx |-> 0, for |-> mtx]
      BY <1>1, <2>1
    <3>2. (cmd.n = 1) = FALSE
      BY <2>0
    <3>3. modem'[h0] = [open |-> TRUE, ready |-> FALSE, rx |-> 0, for |-> mtx]
      BY <3>1, <3>2, Zenon
    <3>4. QED
      BY <3>3
  <2>3. ~Live(h0)'
    BY <1>8, <1>9, <1>10, <2>1 DEF SocketInv, OpenIsKnown
  <2>4. OpenIsKnown(h0)'
    BY <1>8, <1>10, <2>2, <2>3 DEF OpenIsKnown
  <2>5. URCsInOrder(h0)'
    BY <1>7, <1>8, <1>9 DEF SocketInv, URCsInOrder
  <2>6. AnswerFindsSlot(h0)'
    BY <1>5, <1>8, <1>10 DEF AnswerFindsSlot
  <2>7. QED
    BY <2>3, <2>4, <2>5, <2>6
<1>11. ASSUME cmd.name # "USOCR"
       PROVE  /\ Holds(handle[mtx], h0) /\ Live(h0) /\ modem[h0].open
              /\ URCsInOrder(h0)' /\ AnswerFindsSlot(h0)'
  <2>1. h0 = cmd.handle /\ IsOpen(h0)
    BY <1>2, <1>11 DEF CarryOut
  <2>2. cmd.name \notin {"none", "USOCR"}
    BY <1>5, <1>11 DEF Waiting, AwaitedCommand
  <2>3. Holds(handle[mtx], h0)
    BY <2>1, <2>2 DEF TableInv, CommandInv
  <2>4. Live(h0) /\ modem[h0].open
    BY <1>6, <1>9, <2>1 DEF SocketInv, OpenIsKnown, IsOpen
  <2>5. URCsInOrder(h0)'
    BY <1>7, <1>8, <1>9 DEF SocketInv, URCsInOrder
  <2>6. AnswerFindsSlot(h0)'
    <3>1. Holds(handle[mtx], h0)'
      BY <1>1, <2>3 DEF Holds
    <3>2. Lost(h0)' = {}
      BY <1>7, <2>4 DEF Live
    <3>3. QED
      BY <3>1, <3>2 DEF AnswerFindsSlot
  <2>7. QED
    BY <2>3, <2>4, <2>5, <2>6
<1>12. ASSUME cmd.name = "USOCL"
       PROVE  OpenIsKnown(h0)'
  <2>1. modem'[h0] = ClosedSocket
    BY <1>1, <1>2, <1>12 DEF CarryOut
  <2>2. OpenIsKnown(h0)'
    BY <1>8, <1>12, <2>1 DEF OpenIsKnown, ClosedSocket
  <2>3. QED
    BY <2>2
<1>13. ASSUME cmd.name \notin {"USOCR", "USOCL"}
       PROVE  OpenIsKnown(h0)'
  <2>1. modem'[h0].open = modem[h0].open /\ (modem'[h0].ready = modem[h0].ready \/ modem'[h0].ready)
        /\ (modem[h0].rx = 0 => modem'[h0].rx = 0)
    <3>1. CASE cmd.name # "USORD"
      BY <1>1, <1>2, <1>13, <3>1 DEF CarryOut, ModemSocket
    <3>2. CASE cmd.name = "USORD"
      <4>1. /\ modem' = [modem EXCEPT ![h0].rx = @ - n]
            /\ n \in 0..AtMost(cmd.n, modem[h0].rx)
        BY <1>2, <3>2 DEF CarryOut
      <4>2. modem'[h0] = [modem[h0] EXCEPT !.rx = modem[h0].rx - n]
        BY <1>1, <4>1
      <4>3. modem[h0].rx = 0 => n = 0
        <5>1. cmd.n \in Nat
          BY DEF ChannelInv, TypeInv, TypeOK, Command
        <5>2. QED
          BY <4>1, <5>1 DEF AtMost
      <4>4. QED
        BY <1>1, <4>2, <4>3 DEF ModemSocket
    <3>3. QED
      BY <3>1, <3>2
  <2>2. OpenIsKnown(h0)'
    BY <1>6, <1>8, <1>9, <1>11, <1>13, <2>1 DEF SocketInv, OpenIsKnown
  <2>3. QED
    BY <2>2
<1>14. SocketInv(h0)'
  <2>1. CASE cmd.name = "USOCR"
    <3>1. OpenIsKnown(h0)' /\ URCsInOrder(h0)' /\ AnswerFindsSlot(h0)'
      BY <1>10, <2>1
    <3>2. QED
      BY <3>1 DEF SocketInv
  <2>2. CASE cmd.name # "USOCR"
    <3>1. OpenIsKnown(h0)' /\ URCsInOrder(h0)' /\ AnswerFindsSlot(h0)'
      BY <1>11, <1>12, <1>13, <2>2
    <3>2. QED
      BY <3>1 DEF SocketInv
  <2>3. QED
    BY <2>1, <2>2
<1>15. \A h \in ModemHandles : h # h0 =>
         /\ News(h)' = News(h) /\ Reads(h)' = Reads(h) /\ SocketInv(h)' /\ (Live(h)' <=> Live(h))
  BY <1>1, <1>3, <1>4, SocketAppend DEF TableInv
<1>16. NothingLost'
  BY <1>1, <1>3, NothingLostAnswer
<1>17. CommandInv'
  BY <1>1 DEF TableInv, CommandInv, Holds, NoCommand
<1>18. HandlesUnique'
  BY <1>1 DEF TableInv, HandlesUnique
<1>19. PendingInv'
  <2>1. SUFFICES ASSUME NEW s \in Slots, NEW h \in ModemHandles, Holds(s, h)'
                 PROVE  ReadFits(s, h)' /\ (Live(h)' => CountFits(s, h)')
    BY DEF PendingInv
  <2>2. Holds(s, h) /\ ReadFits(s, h) /\ (Live(h) => CountFits(s, h))
    BY <1>8, <2>1 DEF TableInv, PendingInv
  <2>3. CASE h # h0
    BY <1>1, <1>3, <1>4, <1>15, <2>2, <2>3, PendingAppend
  <2>4. CASE h = h0 /\ cmd.name # "USORD"
    <3>1. Reads(h)' = {} /\ Reads(h) = {}
      BY <1>5, <1>6, <1>8, <2>4 DEF Reads
    <3>2. CASE Live(h)'
      <4>1. modem'[h].rx = modem[h].rx
        <5>1. cmd.name \notin {"USOCR", "USOCL"}
          BY <1>8, <1>10, <2>4, <3>2
        <5>2. QED
          BY <1>1, <1>2, <2>4, <5>1 DEF CarryOut, ModemSocket
      <4>2. Live(h)
        BY <1>8, <2>4, <3>2
      <4>3. QED
        BY <1>1, <1>3, <1>7, <2>2, <2>4, <3>1, <4>1, <4>2, PendingAppend
    <3>3. CASE ~Live(h)'
      BY <3>1, <3>3 DEF ReadFits
    <3>4. QED
      BY <3>2, <3>3
  <2>5. CASE h = h0 /\ cmd.name = "USORD"
    <3>1. /\ n \in 0..AtMost(cmd.n, modem[h].rx) /\ modem'[h] = [modem[h] EXCEPT !.rx = modem[h].rx - n]
          /\ Live(h) /\ Live(h)'
      BY <1>1, <1>2, <1>8, <1>11, <2>5 DEF CarryOut
    <3>2. n \in Nat /\ modem[h].rx \in Nat /\ n <= modem[h].rx /\ modem'[h].rx = modem[h].rx - n
      <4>1. modem[h].rx \in 0..MaxRx /\ cmd.n \in Nat /\ modem[h] \in ModemSocket
        BY <1>1 DEF ModemSocket, ChannelInv, TypeInv, TypeOK, Command
      <4>2. n <= modem[h].rx /\ n \in Nat
        BY <3>1, <4>1, SizesAssumption DEF AtMost
      <4>3. modem'[h].rx = modem[h].rx - n
        BY <3>1, <4>1 DEF ModemSocket
      <4>4. QED
        BY <4>1, <4>2, <4>3, SizesAssumption
    <3>3. /\ \A k \in Reads(h)' : k = Len(line) + 1 /\ line'[k].n = n
          /\ Len(line) + 1 \in Reads(h)'
      BY <1>3, <1>5, <1>7, <1>8, <2>5 DEF Reads
    <3>4. ASSUME NEW v \in Nat, Known(s, h, Len(line) + 1, v)
          PROVE  modem[h].rx = v
      BY <1>6, <2>2, <3>1, <3>4 DEF CountFits
    <3>5. ASSUME NEW k \in Reads(h)', NEW v \in Nat, Known(s, h, k, v)'
          PROVE  modem[h].rx = v /\ line'[k].n = n
      <4>1. k = Len(line) + 1 /\ line'[k].n = n
        BY <3>3, <3>5
      <4>2. Known(s, h, k, v)
        BY <1>1, <1>3, <1>7, <2>5, <3>5, KnownAppend
      <4>3. QED
        BY <3>4, <4>1, <4>2
    <3>6. ReadFits(s, h)'
      BY <3>2, <3>5 DEF ReadFits
    <3>7. \A k \in Reads(h)' : k = Len(line) + 1 /\ \A i \in News(h)' : i < k
      BY <1>7, <2>5, <3>3
    <3>8. ~(\A k \in Reads(h)' : \E i \in News(h)' : i > k)
      <4>1. \A i \in News(h)' : i \in Nat /\ i < Len(line) + 1
        BY <1>7, <2>5
      <4>2. \A i \in News(h)' : ~(i > Len(line) + 1)
        BY <1>7, <4>1
      <4>3. QED
        BY <3>3, <4>2
    <3>9. CountFits(s, h)'
      <4>1. \A v \in Nat, k \in Reads(h)' : Known(s, h, k, v)' => modem'[h].rx = v - line'[k].n
        BY <3>2, <3>5
      <4>2. QED
        BY <3>8, <4>1 DEF CountFits
    <3>10. QED
      BY <3>6, <3>9
  <2>6. QED
    BY <2>3, <2>4, <2>5
<1>20. QED
  BY <1>14, <1>15, <1>16, <1>17, <1>18, <1>19 DEF TableInv

\* The modem runs a command and no fault is spent on it.
LEMMA TableModem ==
  ASSUME ChannelInv, TableInv, faults = MaxFaults, faults' = MaxFaults, ModemExecutes \/ ModemRefuses
  PROVE  TableInv'
<1>1. faults \in Nat /\ faults' = faults
  BY SizesAssumption
<1>2. QED
  BY <1>1, TableExecutes, TableRefuses

\* t, waiting at l, reads the answer and is done with its exchange.
Reading(t, l) ==
  /\ pc[t] = l /\ mtx = t /\ line # << >> /\ line' = Tail(line)
  /\ Head(line).type \in {"OK", "ERROR"}
  /\ cmd' = cmd /\ modem' = modem /\ mtx' = Nobody
  /\ pc'[t] \in {"idle", "sendLoop", "recvLoop"}
  /\ \A u \in Threads : u # t => pc'[u] = pc[u]

\* Before it, the answer is the only one; afterwards there is none.
LEMMA ReadingMeans ==
  ASSUME ChannelInv, TableInv, NEW t \in Threads, NEW l \in Waiting, Reading(t, l)
  PROVE  /\ line \in Seq(LineItem) /\ cmd = NoCommand /\ handle[t] \in Slots
         /\ \A m : At(m) <=> l = m
         /\ \A m \in Waiting : ~At(m)'
         /\ \A h : /\ \A k \in Told(h) : k = 1
                   /\ Told(h) # {} <=> Head(line).type = "OK" /\ Head(line).handle = h
                   /\ Told(h)' = {} /\ ~Created(h)' /\ ~Closing(h)' /\ Reads(h)' = {}
         /\ NothingLost' /\ CommandInv'
<1>1. line \in Seq(LineItem) /\ handle[t] \in Slots
  BY DEF Reading, Waiting, ChannelInv, TypeInv, TypeOK, InCall
<1>2. cmd = NoCommand /\ AnswersInTransit' = {}
  BY AnswerTaken DEF Reading, Answers
<1>3. \A m : At(m) <=> l = m
  BY DEF At, Reading
<1>4. \A m \in Waiting : ~At(m)'
  BY ThreadsAssumption DEF At, Reading
<1>5. \A h : Told(h)' = {}
  BY <1>2 DEF Told, Lines, AnswersInTransit, Answers
<1>6. \A h : ~Created(h)' /\ ~Closing(h)' /\ Reads(h)' = {}
  BY <1>5 DEF Created, Closing, Reads
<1>7. \A h : \A k \in Told(h) : k = 1
  <2>1. SUFFICES ASSUME NEW h, NEW k \in Told(h), k # 1
                 PROVE  FALSE
    OBVIOUS
  <2>2. k - 1 \in Told(h)'
    BY <1>1, <2>1, ToldTail DEF Reading
  <2>3. QED
    BY <1>5, <2>2
<1>8. \A h : Told(h) # {} <=> Head(line).type = "OK" /\ Head(line).handle = h
  <2>1. \A h : 1 \in Told(h) <=> Head(line).type = "OK" /\ Head(line).handle = h
    BY <1>1, ToldTail DEF Reading
  <2>2. QED
    BY <1>7, <2>1
<1>9. \A u \in Threads : pc'[u] \notin Waiting /\ pc'[u] \notin {"bindType", "bindClose", "bindOpen"}
  <2>1. \A u \in Threads : u # t => pc[u] \notin Waiting
    BY DEF Reading, ChannelInv, TimeoutInv, Holding, Actors
  <2>2. QED
    BY <2>1 DEF Reading, Waiting, TableInv, NothingLost
<1>10. NothingLost'
  <2>1. cmd'.name # "USOCR"
    BY <1>2 DEF Reading, NoCommand
  <2>2. QED
    BY <1>1, <1>9, <2>1, NothingLostTail DEF TableInv, NothingLost, Reading
<1>11. CommandInv'
  BY <1>2, <1>9 DEF CommandInv, Reading, NoCommand, Waiting
<1>12. QED
  BY <1>1, <1>2, <1>3, <1>4, <1>5, <1>6, <1>7, <1>8, <1>10, <1>11

\* The URCs about a socket are one line nearer.
LEMMA URCsShift ==
  ASSUME line \in Seq(LineItem), line # << >>, line' = Tail(line),
         Head(line).type \in {"OK", "ERROR"}, NEW h, URCsInOrder(h)
  PROVE  /\ \A i \in News(h)' : i \in Nat \ {0} /\ i + 1 \in News(h) /\ line'[i] = line[i + 1]
         /\ \A i \in News(h) : i \in Nat \ {0} /\ i # 1 /\ i - 1 \in News(h)'
         /\ Lost(h)' # {} <=> Lost(h) # {}
         /\ \A i \in Lost(h)', j \in News(h)' \cup Lost(h)' : j <= i
         /\ News(h)' \cup Lost(h)' # {} => News(h) \cup Lost(h) # {}
<1>1. /\ \A i \in News(h)' : i \in Nat \ {0} /\ i + 1 \in News(h) /\ line'[i] = line[i + 1]
      /\ \A i \in News(h) : i \in Nat \ {0} /\ i # 1 /\ i - 1 \in News(h)'
  BY NewsTail
<1>2. /\ \A i \in Lost(h)' : i \in Nat \ {0} /\ i + 1 \in Lost(h)
      /\ \A i \in Lost(h) : i \in Nat \ {0} /\ i # 1 /\ i - 1 \in Lost(h)'
  BY LostTail
<1>3. Lost(h)' # {} <=> Lost(h) # {}
  BY <1>2
<1>4. \A i \in Lost(h)', j \in News(h)' \cup Lost(h)' : j <= i
  <2>1. SUFFICES ASSUME NEW i \in Lost(h)', NEW j \in News(h)' \cup Lost(h)'
                 PROVE  j <= i
    OBVIOUS
  <2>2. i \in Nat /\ j \in Nat /\ i + 1 \in Lost(h) /\ j + 1 \in News(h) \cup Lost(h)
    BY <1>1, <1>2, <2>1
  <2>3. j + 1 <= i + 1
    BY <2>2 DEF URCsInOrder
  <2>4. QED
    BY <2>2, <2>3
<1>5. QED
  BY <1>1, <1>2, <1>3, <1>4

\* A socket whose slot the answer neither fills nor frees.
LEMMA SocketReading ==
  ASSUME ChannelInv, TableInv, NEW t \in Threads, NEW l \in Waiting, Reading(t, l),
         NEW h \in ModemHandles, \A s \in Slots : Holds(s, h)' <=> Holds(s, h),
         l \in {"open", "close"} => Head(line).type # "OK" \/ Head(line).handle # h
  PROVE  SocketInv(h)' /\ (Live(h)' <=> Live(h))
<1>1. SocketInv(h)
  BY DEF TableInv
<1>2. /\ line \in Seq(LineItem)
      /\ \A m : At(m) <=> l = m
      /\ \A m \in Waiting : ~At(m)'
      /\ Told(h) # {} <=> Head(line).type = "OK" /\ Head(line).handle = h
      /\ Told(h)' = {} /\ ~Created(h)' /\ ~Closing(h)'
  BY ReadingMeans
<1>3. ~Created(h) /\ ~Closing(h)
  BY <1>2 DEF Created, Closing
<1>4. /\ Lost(h)' # {} <=> Lost(h) # {}
      /\ \A i \in Lost(h)', j \in News(h)' \cup Lost(h)' : j <= i
      /\ News(h)' \cup Lost(h)' # {} => News(h) \cup Lost(h) # {}
  BY <1>1, <1>2, URCsShift DEF Reading, SocketInv
<1>5. (Held(h)' <=> Held(h)) /\ (Live(h)' <=> Live(h))
  BY <1>2, <1>3, <1>4 DEF Held, Live
<1>6. URCsInOrder(h)'
  BY <1>1, <1>2, <1>4, <1>5 DEF SocketInv, URCsInOrder
<1>7. OpenIsKnown(h)'
  BY <1>1, <1>2, <1>3, <1>5 DEF SocketInv, OpenIsKnown, Reading
<1>8. AnswerFindsSlot(h)'
  BY <1>2 DEF AnswerFindsSlot
<1>9. QED
  BY <1>5, <1>6, <1>7, <1>8 DEF SocketInv

\* An answer that changes no pending leaves the counts right.
LEMMA PendingReading ==
  ASSUME ChannelInv, TableInv, NEW t \in Threads, NEW l \in Waiting, Reading(t, l),
         NEW s \in Slots, NEW h \in ModemHandles, Holds(s, h),
         l # "recvRead" \/ Head(line).handle # h \/ Head(line).type # "OK",
         sockets'[s].pending = sockets[s].pending
  PROVE  ReadFits(s, h)' /\ (CountFits(s, h) => CountFits(s, h)')
<1>1. /\ line \in Seq(LineItem) /\ Reads(h)' = {}
      /\ \A m : At(m) <=> l = m
      /\ Told(h) # {} <=> Head(line).type = "OK" /\ Head(line).handle = h
  BY ReadingMeans
<1>2. Reads(h) = {}
  BY <1>1 DEF Reads
<1>3. ReadFits(s, h)
  BY DEF TableInv, PendingInv
<1>4. sockets'[s].pending = IF Head(line).type = "UUSORD" /\ Head(line).handle = h
                              THEN Head(line).n ELSE sockets[s].pending
  BY DEF Reading
<1>5. QED
  BY <1>1, <1>2, <1>3, <1>4, PendingTail DEF Reading

\* The answer changes nothing of the table.
LEMMA TableReading ==
  ASSUME ChannelInv, TableInv, NEW t \in Threads, NEW l \in Waiting, Reading(t, l),
         UNCHANGED sockets, l \in {"open", "close", "recvRead"} => Head(line).type # "OK"
  PROVE  TableInv'
<1>1. \A s, h : Holds(s, h)' <=> Holds(s, h)
  BY DEF Holds
<1>2. \A h \in ModemHandles : SocketInv(h)' /\ (Live(h)' <=> Live(h))
  BY <1>1, SocketReading
<1>3. PendingInv'
  <2>1. SUFFICES ASSUME NEW s \in Slots, NEW h \in ModemHandles, Holds(s, h)'
                 PROVE  ReadFits(s, h)' /\ (Live(h)' => CountFits(s, h)')
    BY DEF PendingInv
  <2>2. Holds(s, h) /\ (Live(h) => CountFits(s, h))
    BY <1>1, <2>1 DEF TableInv, PendingInv
  <2>3. ReadFits(s, h)' /\ (CountFits(s, h) => CountFits(s, h)')
    BY <2>2, PendingReading
  <2>4. QED
    BY <1>2, <2>2, <2>3
<1>4. HandlesUnique'
  BY DEF TableInv, HandlesUnique
<1>5. QED
  BY <1>2, <1>3, <1>4, ReadingMeans DEF TableInv

\* USOCR was answered: the new handle goes into the slot.
LEMMA TableCreated ==
  ASSUME ChannelInv, TableInv, NEW t \in Threads, Reading(t, "open"), Head(line).type = "OK",
         sockets' = [sockets EXCEPT ![handle[t]] =
                       [UnusedSocket EXCEPT !.modem_handle = Head(line).handle]]
  PROVE  TableInv'
<1>1. PICK h0 \in ModemHandles : h0 = Head(line).handle
  <2>1. 1 \in 1..Len(line) /\ Head(line) = line[1]
    BY ReadingMeans DEF Reading, Waiting
  <2>2. QED
    BY <2>1 DEF TableInv, NothingLost
<1>2. PICK s0 \in Slots : s0 = handle[t]
  BY ReadingMeans DEF Waiting
<1>3. /\ line \in Seq(LineItem) /\ "open" \in Waiting
      /\ \A m : At(m) <=> m = "open"
      /\ \A m \in Waiting : ~At(m)'
      /\ \A h : Told(h)' = {} /\ ~Created(h)' /\ ~Closing(h)' /\ Reads(h)' = {}
      /\ Told(h0) # {} /\ \A k \in Told(h0) : k = 1
      /\ NothingLost' /\ CommandInv'
  BY <1>1, ReadingMeans DEF Waiting
<1>4. SocketInv(h0)
  BY DEF TableInv
<1>5. Created(h0) /\ ~Closing(h0)
  BY <1>3 DEF Created, Closing
<1>6. News(h0) = {} /\ Lost(h0) = {}
  <2>1. \A i \in News(h0) \cup Lost(h0) : i \in Nat \ {0} /\ i < 1
    BY <1>3, <1>4, NewsTail, LostTail DEF SocketInv, URCsInOrder, Reading
  <2>2. QED
    BY <2>1
<1>7. ~Held(h0) /\ modem[h0].open /\ ~modem[h0].ready /\ modem[h0].rx = 0
  BY <1>4, <1>5, <1>6 DEF SocketInv, OpenIsKnown, Live
<1>8. Holds(s0, SOCKET_UNUSED)
  BY <1>2 DEF TableInv, CommandInv, Reading
<1>9. /\ sockets'[s0].modem_handle = h0 /\ sockets'[s0].pending = 0
      /\ \A s \in Slots : s # s0 => sockets'[s] = sockets[s]
  BY <1>1, <1>2 DEF ChannelInv, TypeInv, TypeOK, UnusedSocket
<1>10. \A s \in Slots, h \in ModemHandles : h # h0 => (Holds(s, h)' <=> Holds(s, h))
  <2>1. \A h \in ModemHandles : h # h0 => ~Holds(s0, h)' /\ ~Holds(s0, h)
    BY <1>8, <1>9, SizesAssumption DEF Holds, SOCKET_UNUSED
  <2>2. QED
    BY <1>9, <2>1 DEF Holds
<1>11. \A h \in ModemHandles : h # h0 => SocketInv(h)' /\ (Live(h)' <=> Live(h))
  BY <1>1, <1>3, <1>10, SocketReading
<1>12. News(h0)' = {} /\ Lost(h0)' = {}
  <2>1. /\ \A i \in News(h0)' : i + 1 \in News(h0)
        /\ \A i \in Lost(h0)' : i + 1 \in Lost(h0)
    BY <1>3, NewsTail, LostTail DEF Reading
  <2>2. QED
    BY <1>6, <2>1
<1>13. SocketInv(h0)'
  <2>1. Live(h0)'
    BY <1>3, <1>9, <1>12 DEF Live, Held, Holds
  <2>2. OpenIsKnown(h0)'
    BY <1>3, <1>7, <2>1 DEF OpenIsKnown, Reading
  <2>3. URCsInOrder(h0)' /\ AnswerFindsSlot(h0)'
    BY <1>3, <1>12 DEF URCsInOrder, AnswerFindsSlot
  <2>4. QED
    BY <2>2, <2>3 DEF SocketInv
<1>14. HandlesUnique'
  <2>1. \A s \in Slots : s # s0 => sockets'[s].modem_handle # h0
    BY <1>7, <1>9 DEF Held, Holds
  <2>2. SUFFICES ASSUME NEW r \in Slots, NEW s \in Slots, r # s,
                        sockets'[r].modem_handle = sockets'[s].modem_handle
                 PROVE  sockets'[r].modem_handle = SOCKET_UNUSED
    BY DEF HandlesUnique
  <2>3. r # s0 /\ s # s0
    BY <1>9, <2>1, <2>2
  <2>4. QED
    BY <1>9, <2>2, <2>3 DEF TableInv, HandlesUnique
<1>15. PendingInv'
  <2>1. SUFFICES ASSUME NEW s \in Slots, NEW h \in ModemHandles, Holds(s, h)'
                 PROVE  ReadFits(s, h)' /\ (Live(h)' => CountFits(s, h)')
    BY DEF PendingInv
  <2>2. CASE s # s0
    <3>1. h # h0 /\ Holds(s, h) /\ (Live(h) => CountFits(s, h))
      BY <1>7, <1>9, <2>1, <2>2 DEF TableInv, PendingInv, Held, Holds
    <3>2. ReadFits(s, h)' /\ (CountFits(s, h) => CountFits(s, h)')
      BY <1>3, <1>9, <2>2, <3>1, PendingReading
    <3>3. QED
      BY <1>11, <3>1, <3>2
  <2>3. CASE s = s0
    <3>1. h = h0
      BY <1>9, <2>1, <2>3 DEF Holds
    <3>2. ReadFits(s, h)'
      BY <1>3 DEF ReadFits
    <3>3. \A v : Known(s, h, Len(line) + 1, v)' => v = 0
      BY <1>9, <1>12, <2>3, <3>1 DEF Known
    <3>4. CountFits(s, h)'
      BY <1>3, <1>7, <3>1, <3>3 DEF CountFits, Reading
    <3>5. QED
      BY <3>2, <3>4
  <2>4. QED
    BY <2>2, <2>3
<1>16. QED
  BY <1>3, <1>11, <1>13, <1>14, <1>15 DEF TableInv

\* USOCL was answered: the slot is cleared.
LEMMA TableClosed ==
  ASSUME ChannelInv, TableInv, NEW t \in Threads, Reading(t, "close"), Head(line).type = "OK",
         clear_socket(handle[t])
  PROVE  TableInv'
<1>1. PICK h0 \in ModemHandles : h0 = Head(line).handle
  <2>1. 1 \in 1..Len(line) /\ Head(line) = line[1]
    BY ReadingMeans DEF Reading, Waiting
  <2>2. QED
    BY <2>1 DEF TableInv, NothingLost
<1>2. PICK s0 \in Slots : s0 = handle[t]
  BY ReadingMeans DEF Waiting
<1>3. /\ line \in Seq(LineItem) /\ "close" \in Waiting
      /\ \A m : At(m) <=> m = "close"
      /\ \A m \in Waiting : ~At(m)'
      /\ \A h : Told(h)' = {} /\ ~Created(h)' /\ ~Closing(h)' /\ Reads(h)' = {}
      /\ Told(h0) # {} /\ \A k \in Told(h0) : k = 1
      /\ NothingLost' /\ CommandInv'
  BY <1>1, ReadingMeans DEF Waiting
<1>4. SocketInv(h0)
  BY DEF TableInv
<1>5. ~Created(h0) /\ Closing(h0) /\ ~Live(h0)
  BY <1>3 DEF Created, Closing, Live
<1>6. News(h0) = {} /\ Lost(h0) = {}
  <2>1. \A i \in News(h0) \cup Lost(h0) : i \in Nat \ {0} /\ i < 1
    BY <1>3, <1>4, NewsTail, LostTail DEF SocketInv, URCsInOrder, Reading
  <2>2. QED
    BY <2>1
<1>7. ~modem[h0].open /\ ~modem[h0].ready /\ modem[h0].rx = 0
  BY <1>4, <1>5 DEF SocketInv, OpenIsKnown
<1>8. Holds(s0, h0)
  BY <1>2, <1>3, <1>4 DEF SocketInv, AnswerFindsSlot, Reading
<1>9. /\ sockets'[s0] = UnusedSocket
      /\ \A s \in Slots : s # s0 => sockets'[s] = sockets[s]
  BY <1>2 DEF ChannelInv, TypeInv, TypeOK, clear_socket
<1>10. \A s \in Slots : Holds(s, h0) => s = s0
  <2>1. h0 # SOCKET_UNUSED
    BY SizesAssumption DEF SOCKET_UNUSED
  <2>2. QED
    BY <1>8, <2>1 DEF Holds, TableInv, HandlesUnique
<1>11. \A h \in ModemHandles : ~Holds(s0, h)'
  BY <1>9, SizesAssumption DEF Holds, UnusedSocket, SOCKET_UNUSED
<1>12. \A s \in Slots, h \in ModemHandles :
         (h # h0 => (Holds(s, h)' <=> Holds(s, h))) /\ ~Holds(s, h0)'
  <2>1. \A s \in Slots : \A h : s # s0 => (Holds(s, h)' <=> Holds(s, h))
    BY <1>9 DEF Holds
  <2>2. \A h : h # h0 => ~Holds(s0, h)
    BY <1>8 DEF Holds
  <2>3. QED
    BY <1>10, <1>11, <2>1, <2>2
<1>13. \A h \in ModemHandles : h # h0 => SocketInv(h)' /\ (Live(h)' <=> Live(h))
  BY <1>1, <1>3, <1>12, SocketReading
<1>14. News(h0)' = {} /\ Lost(h0)' = {}
  <2>1. /\ \A i \in News(h0)' : i + 1 \in News(h0)
        /\ \A i \in Lost(h0)' : i + 1 \in Lost(h0)
    BY <1>3, NewsTail, LostTail DEF Reading
  <2>2. QED
    BY <1>6, <2>1
<1>15. SocketInv(h0)'
  <2>1. ~Live(h0)'
    BY <1>12 DEF Live, Held
  <2>2. OpenIsKnown(h0)'
    BY <1>3, <1>7, <2>1 DEF OpenIsKnown, Reading
  <2>3. URCsInOrder(h0)' /\ AnswerFindsSlot(h0)'
    BY <1>3, <1>14 DEF URCsInOrder, AnswerFindsSlot
  <2>4. QED
    BY <2>2, <2>3 DEF SocketInv
<1>16. HandlesUnique'
  BY <1>9 DEF TableInv, HandlesUnique, UnusedSocket
<1>17. PendingInv'
  <2>1. SUFFICES ASSUME NEW s \in Slots, NEW h \in ModemHandles, Holds(s, h)'
                 PROVE  ReadFits(s, h)' /\ (Live(h)' => CountFits(s, h)')
    BY DEF PendingInv
  <2>2. s # s0 /\ h # h0 /\ Holds(s, h) /\ (Live(h) => CountFits(s, h))
    BY <1>11, <1>12, <2>1 DEF TableInv, PendingInv
  <2>3. ReadFits(s, h)' /\ (CountFits(s, h) => CountFits(s, h)')
    BY <1>3, <1>9, <2>2, PendingReading
  <2>4. QED
    BY <1>13, <2>2, <2>3
<1>18. QED
  BY <1>3, <1>13, <1>15, <1>16, <1>17 DEF TableInv

\* The answer to a read never exceeds pending.
LEMMA ReadWithinPending ==
  ASSUME ChannelInv, TableInv, NEW t \in Threads, pc[t] = "recvRead", mtx = t,
         line # << >>, Head(line).type = "OK"
  PROVE  /\ Head(line).n \in Nat /\ Head(line).n <= sockets[handle[t]].pending
         /\ Holds(handle[t], Head(line).handle) /\ Head(line).handle \in ModemHandles
<1>a. line \in Seq(LineItem) /\ handle[t] \in Slots
  BY DEF ChannelInv, TypeInv, TypeOK, InCall
<1>1. PICK h0 \in ModemHandles : h0 = Head(line).handle
  <2>1. 1 \in 1..Len(line) /\ Head(line) = line[1]
    BY <1>a
  <2>2. QED
    BY <2>1 DEF TableInv, NothingLost
<1>2. 1 \in Told(h0) /\ At("recvRead") /\ ~At("open")
  <2>1. 1 \in 1..Len(line) /\ Head(line) = line[1]
    BY <1>a
  <2>2. QED
    BY <1>1, <2>1 DEF Told, Lines, At
<1>3. Holds(handle[t], h0)
  BY <1>1, <1>2 DEF TableInv, SocketInv, AnswerFindsSlot
<1>4. sockets[handle[t]].pending \in Nat
  BY <1>a, SlotTypes DEF ChannelInv
<1>5. Known(handle[t], h0, 1, sockets[handle[t]].pending)
  BY DEF Known, News, Lines
<1>6. line[1].n <= sockets[handle[t]].pending
  BY <1>2, <1>3, <1>4, <1>5, <1>a DEF TableInv, PendingInv, ReadFits, Reads
<1>7. Head(line) = line[1] /\ Head(line).n \in Nat
  BY <1>a, LineTypes
<1>8. QED
  BY <1>1, <1>3, <1>6, <1>7

\* USORD was answered: the length is subtracted from pending.
LEMMA TableRead ==
  ASSUME ChannelInv, TableInv, NEW t \in Threads, Reading(t, "recvRead"), Head(line).type = "OK",
         sockets' = [sockets EXCEPT ![handle[t]].pending = (@ - Head(line).n) % PendingMod]
  PROVE  TableInv'
<1>1. PICK h0 \in ModemHandles : h0 = Head(line).handle /\ Holds(handle[t], h0)
  BY ReadWithinPending DEF Reading
<1>2. PICK s0 \in Slots : s0 = handle[t]
  BY ReadingMeans DEF Waiting
<1>3. /\ line \in Seq(LineItem) /\ "recvRead" \in Waiting
      /\ \A m : At(m) <=> m = "recvRead"
      /\ \A h : Told(h)' = {} /\ ~Created(h)' /\ ~Closing(h)' /\ Reads(h)' = {}
      /\ Told(h0) # {} /\ \A k \in Told(h0) : k = 1
      /\ NothingLost' /\ CommandInv'
  BY <1>1, ReadingMeans DEF Waiting
<1>4. /\ sockets[s0].pending \in 0..PendingMod - 1 /\ Head(line).n \in Nat
      /\ Head(line).n <= sockets[s0].pending
  BY <1>2, ReadWithinPending DEF Reading, ChannelInv, TypeInv, TypeOK, SockCtrl
<1>5. (sockets[s0].pending - Head(line).n) % PendingMod = sockets[s0].pending - Head(line).n
  BY <1>4, SizesAssumption
<1>6. /\ sockets'[s0].pending = sockets[s0].pending - Head(line).n
      /\ sockets'[s0].modem_handle = sockets[s0].modem_handle
      /\ \A s \in Slots : s # s0 => sockets'[s] = sockets[s]
  BY <1>2, <1>5 DEF ChannelInv, TypeInv, TypeOK, SockCtrl
<1>7. \A s \in Slots : \A h : Holds(s, h)' <=> Holds(s, h)
  BY <1>6 DEF Holds
<1>8. \A h \in ModemHandles : SocketInv(h)' /\ (Live(h)' <=> Live(h))
  BY <1>3, <1>7, SocketReading
<1>9. HandlesUnique'
  <2>1. \A s \in Slots : sockets'[s].modem_handle = sockets[s].modem_handle
    BY <1>6
  <2>2. QED
    BY <2>1 DEF TableInv, HandlesUnique
<1>10. PendingInv'
  <2>1. SUFFICES ASSUME NEW s \in Slots, NEW h \in ModemHandles, Holds(s, h)'
                 PROVE  ReadFits(s, h)' /\ (Live(h)' => CountFits(s, h)')
    BY DEF PendingInv
  <2>2. Holds(s, h) /\ (Live(h) => CountFits(s, h))
    BY <1>7, <2>1 DEF TableInv, PendingInv
  <2>3. CASE h # h0
    <3>1. s # s0
      BY <1>1, <1>2, <2>2, <2>3 DEF Holds
    <3>2. ReadFits(s, h)' /\ (CountFits(s, h) => CountFits(s, h)')
      BY <1>1, <1>3, <1>6, <2>2, <2>3, <3>1, PendingReading
    <3>3. QED
      BY <1>8, <2>2, <3>2
  <2>4. CASE h = h0
    <3>1. s = s0
      <4>1. h0 # SOCKET_UNUSED
        BY SizesAssumption DEF SOCKET_UNUSED
      <4>2. QED
        BY <1>1, <1>2, <2>2, <2>4, <4>1 DEF Holds, TableInv, HandlesUnique
    <3>2. ReadFits(s, h)'
      BY <1>3 DEF ReadFits
    <3>3. /\ \A i \in News(h)' : i \in Nat \ {0} /\ i + 1 \in News(h) /\ line'[i] = line[i + 1]
          /\ \A i \in News(h) : i \in Nat \ {0} /\ i # 1 /\ i - 1 \in News(h)'
          /\ Len(line) = Len(line') + 1 /\ Len(line') \in Nat /\ Head(line) = line[1]
      BY <1>3, URCsShift, LineTail DEF Reading, TableInv, SocketInv
    <3>4. /\ \A k \in Reads(h) : k = 1
          /\ 1 \in Reads(h)
      BY <1>3, <2>4 DEF Reads
    <3>5. ASSUME NEW v \in Nat, Known(s, h, Len(line) + 1, v)', CountFits(s, h)
          PROVE  modem'[h].rx = v
      <4>0. modem' = modem
        BY DEF Reading
      <4>1. CASE v = sockets'[s].pending /\ \A i \in News(h)' : i >= Len(line') + 1
        <5>1. \A i \in News(h) : i < 1
          <6>1. ASSUME NEW i \in News(h)
                PROVE  FALSE
            <7>1. i - 1 \in News(h)' /\ i - 1 >= Len(line') + 1
              BY <3>3, <4>1, <6>1
            <7>2. i \in 1..Len(line)
              BY DEF News, Lines
            <7>3. QED
              BY <3>3, <7>1, <7>2
          <6>2. QED
            BY <6>1
        <5>2. PICK u \in Nat : u = sockets[s].pending
          BY <1>4, <3>1
        <5>3. Known(s, h, 1, u)
          BY <5>2 DEF Known, News, Lines
        <5>4. modem[h].rx = u - line[1].n
          BY <3>4, <3>5, <5>1, <5>3 DEF CountFits
        <5>5. QED
          BY <1>6, <3>1, <3>3, <4>0, <4>1, <5>2, <5>4
      <4>2. ASSUME NEW i \in News(h)', v = line'[i].n, i < Len(line') + 1,
                   \A j \in News(h)' : j <= i \/ j >= Len(line') + 1
            PROVE  modem'[h].rx = v
        <5>1. i \in Nat \ {0} /\ i + 1 \in News(h) /\ v = line[i + 1].n
          BY <3>3, <4>2
        <5>2. i + 1 < Len(line) + 1
          BY <3>3, <4>2, <5>1
        <5>3. \A j \in News(h) : j <= i + 1 \/ j >= Len(line) + 1
          <6>1. SUFFICES ASSUME NEW j \in News(h)
                         PROVE  j <= i + 1 \/ j >= Len(line) + 1
            OBVIOUS
          <6>2. j \in Nat /\ (j - 1 <= i \/ j - 1 >= Len(line') + 1)
            BY <3>3, <4>2, <6>1
          <6>3. QED
            BY <3>3, <5>1, <6>2
        <5>4. Known(s, h, Len(line) + 1, v)
          BY <5>1, <5>2, <5>3 DEF Known
        <5>5. \A k \in Reads(h) : \E j \in News(h) : j > k
          <6>1. i + 1 > 1
            BY <5>1
          <6>2. QED
            BY <3>4, <5>1, <6>1
        <5>6. /\ Known(s, h, Len(line) + 1, v) /\ (\A k \in Reads(h) : \E j \in News(h) : j > k)
                   => modem[h].rx = v
          BY <3>5 DEF CountFits
        <5>7. QED
          BY <4>0, <5>4, <5>5, <5>6
      <4>3. QED
        BY <3>5, <4>1, <4>2 DEF Known
    <3>6. CountFits(s, h) => CountFits(s, h)'
      BY <1>3, <3>5 DEF CountFits
    <3>7. QED
      BY <1>8, <2>2, <3>2, <3>6
  <2>5. QED
    BY <2>3, <2>4
<1>11. QED
  BY <1>3, <1>8, <1>9, <1>10 DEF TableInv

\* What such a step does to the line, the mutex and the threads.
LEMMA AnswerIsRead ==
  ASSUME ChannelInv, TableInv, NEW t \in Threads, NEW l \in Waiting, GotOK(t, l) \/ GotNothing(t, l),
         NEW m \in {"idle", "sendLoop", "recvLoop"}, Goto(t, m), UNLOCK(t), UNCHANGED <<cmd, modem>>
  PROVE  Reading(t, l)
<1>1. pc \in [Actors -> PCs] /\ t \in Actors
  BY DEF ChannelInv, TypeInv, TypeOK, Actors
<1>2. GotNothing(t, l) => line # << >> /\ Head(line).type = "ERROR"
  <2>1. pc[t] \in Waiting => cmd # NoCommand \/ line # << >>
    BY DEF TableInv, NothingLost, AnswersInTransit
  <2>2. QED
    BY <2>1 DEF GotNothing, Arrived, Receiving
<1>3. /\ pc[t] = l /\ mtx = t /\ line # << >> /\ line' = Tail(line)
      /\ Head(line).type \in {"OK", "ERROR"}
  BY <1>2 DEF GotOK, GotNothing, Receiving, Arrived
<1>4. pc'[t] = m /\ \A u \in Threads : u # t => pc'[u] = pc[u]
  BY <1>1 DEF Goto, Actors
<1>5. QED
  BY <1>3, <1>4 DEF UNLOCK, Reading

\* The steps of a call that end in an answer.  None gives up without one.
LEMMA TableContinue ==
  ASSUME ChannelInv, ChannelInv', TableInv, NEW t \in Threads, ContinueCall(t)
  PROVE  TableInv'
<1> USE DEF threadVars, timeoutVars, driverVars, modemVars
<1>a. /\ line \in Seq(LineItem) /\ sockets \in [Slots -> SockCtrl] /\ pc \in [Actors -> PCs]
      /\ t \in Actors /\ {"open", "close", "connect", "sendWait", "recvRead"} \subseteq Waiting
      /\ \A u \in Threads : pc[u] # "idle" => handle[u] \in Slots
  BY DEF ChannelInv, TypeInv, TypeOK, InCall, Actors, Waiting
<1>b. \A l : GotNothing(t, l) /\ l \in Waiting => line # << >> /\ Head(line).type = "ERROR"
  <2>1. pc[t] \in Waiting => cmd # NoCommand \/ line # << >>
    BY DEF TableInv, NothingLost, AnswersInTransit
  <2>2. QED
    BY <2>1 DEF GotNothing, Arrived, Receiving
<1>c. pc[t] \notin {"bindType", "bindClose", "bindOpen"}
  BY DEF TableInv, NothingLost
<1>1. CASE OpenCreated(t)
  <2>1. Reading(t, "open") /\ Head(line).type = "OK"
    BY <1>1, <1>a DEF OpenCreated, GotOK, Receiving, Arrived, EndExchange, UNLOCK, Return, Goto, Reading
  <2>2. QED
    BY <1>1, <2>1, TableCreated DEF OpenCreated
<1>2. CASE CloseDone(t)
  <2>1. Reading(t, "close") /\ Head(line).type = "OK"
    BY <1>2, <1>a DEF CloseDone, GotOK, Receiving, Arrived, EndExchange, UNLOCK, Return, Goto, Reading
  <2>2. QED
    BY <1>2, <2>1, TableClosed DEF CloseDone
<1>3. CASE RecvGotData(t)
  <2>1. /\ GotOK(t, "recvRead") /\ UNLOCK(t) /\ UNCHANGED <<cmd, modem>>
        /\ Head(line).type = "OK"
    BY <1>3 DEF RecvGotData, EndTurn, GotOK, Arrived
  <2>2. Goto(t, "recvLoop") \/ Goto(t, "idle")
    BY <1>3 DEF RecvGotData, Return
  <2>3. Reading(t, "recvRead")
    BY <1>a, <2>1, <2>2, AnswerIsRead
  <2>4. QED
    BY <1>3, <2>1, <2>3, TableRead DEF RecvGotData
<1>4. CASE OpenFails(t)
  <2>1. Reading(t, "open") /\ Head(line).type = "ERROR" /\ UNCHANGED sockets
    BY <1>4, <1>a, <1>b DEF OpenFails, GotNothing, Receiving, Arrived, EndExchange, UNLOCK, Return, Goto, Reading
  <2>2. QED
    BY <1>a, <2>1, TableReading
<1>5. CASE CloseFails(t)
  <2>1. Reading(t, "close") /\ Head(line).type = "ERROR" /\ UNCHANGED sockets
    BY <1>5, <1>a, <1>b DEF CloseFails, GotNothing, Receiving, Arrived, EndExchange, UNLOCK, Return, Goto, Reading
  <2>2. QED
    BY <1>a, <2>1, TableReading
<1>6. CASE RecvFails(t)
  <2>1. Reading(t, "recvRead") /\ Head(line).type = "ERROR" /\ UNCHANGED sockets
    BY <1>6, <1>a, <1>b DEF RecvFails, GotNothing, Receiving, Arrived, EndTurn, UNLOCK, Return, Goto, Reading
  <2>2. QED
    BY <1>a, <2>1, TableReading
<1>7. CASE ConnectEnds(t)
  <2>1. /\ GotOK(t, "connect") \/ GotNothing(t, "connect")
        /\ Goto(t, "idle") /\ UNLOCK(t) /\ UNCHANGED <<cmd, modem, sockets>>
    BY <1>7 DEF ConnectEnds, EndExchange, Return
  <2>2. Reading(t, "connect")
    BY <1>a, <2>1, AnswerIsRead
  <2>3. QED
    BY <1>a, <2>1, <2>2, TableReading
<1>8. CASE SendBlockDone(t) \/ SendFails(t)
  <2>1. /\ GotOK(t, "sendWait") \/ GotNothing(t, "sendWait")
        /\ Goto(t, "sendLoop") \/ Goto(t, "idle")
        /\ UNLOCK(t) /\ UNCHANGED <<cmd, modem, sockets>>
    BY <1>8 DEF SendBlockDone, SendFails, EndExchange, Return
  <2>2. Reading(t, "sendWait")
    BY <1>a, <2>1, AnswerIsRead
  <2>3. QED
    BY <1>a, <2>1, <2>2, TableReading
<1>9. ~RecvCutShort(t)
  <2>1. line # << >> => Head(line).type # "CUT"
    BY <1>a DEF TableInv, NothingLost
  <2>2. QED
    BY <2>1 DEF RecvCutShort, Arrived
<1>10. CASE AttachData(t)
  <2>1. /\ \A s \in Slots : /\ sockets'[s].modem_handle = sockets[s].modem_handle
                            /\ sockets'[s].pending = sockets[s].pending
        /\ UNCHANGED <<handle, cmd, line, modem>>
    BY <1>10, <1>a DEF AttachData, SockCtrl
  <2>2. \A u \in Threads : pc'[u] = pc[u] \/ (u = t /\ pc[u] = "attach" /\ pc'[u] = "idle")
    BY <1>10, <1>a DEF AttachData, Return, Goto, Actors
  <2>3. \A u \in Threads : pc'[u] = pc[u] \/ (pc[u] \notin Waiting \cup {"bindType", "bindClose", "bindOpen"}
                                              /\ pc'[u] \notin Waiting)
    BY <2>2 DEF Waiting
  <2>4. QED
    BY <2>1, <2>3, TableOutside
<1>11. CASE SendReturns(t) \/ RecvWaited(t)
  <2>1. /\ UNCHANGED <<handle, cmd, line, modem, sockets>>
        /\ \A u \in Threads : pc'[u] = pc[u] \/ (u = t /\ pc[u] \in {"sendLoop", "recvWait"}
                                                 /\ pc'[u] \in {"idle", "recvLoop"})
    BY <1>11, <1>a DEF SendReturns, RecvWaited, Receiving, EndTurn, Return, Goto, Actors
  <2>2. \A u \in Threads : pc'[u] = pc[u] \/ (pc[u] \notin Waiting \cup {"bindType", "bindClose", "bindOpen"}
                                              /\ pc'[u] \notin Waiting)
    BY <2>1 DEF Waiting
  <2>3. QED
    BY <2>1, <2>2, TableOutside
<1>12. ~BindTypeKnown(t) /\ ~BindClosed(t) /\ ~BindDone(t) /\ ~BindFails(t)
  BY <1>c DEF BindTypeKnown, BindClosed, BindDone, BindFails, GotOK, GotNothing, Receiving
<1>13. QED
  BY <1>1, <1>2, <1>3, <1>4, <1>5, <1>6, <1>7, <1>8, <1>9, <1>10, <1>11, <1>12 DEF ContinueCall

\* The calls an application begins, socket_bind() apart.
LEMMA TableStart ==
  ASSUME ChannelInv, ChannelInv', TableInv, "bind" \notin Ops, NEW t \in Threads, StartCall(t)
  PROVE  TableInv'
<1> USE DEF threadVars, timeoutVars, driverVars, modemVars
<1>a. /\ sockets \in [Slots -> SockCtrl] /\ pc \in [Actors -> PCs] /\ t \in Actors
      /\ {"open", "close", "connect"} \subseteq Waiting \ {"bindType", "bindClose", "bindOpen"}
      /\ handle \in [Threads -> Slots \cup {NoSocket}]
  BY DEF ChannelInv, TypeInv, TypeOK, Actors, Waiting
<1>1. CASE socket_open(t)
  <2>1. /\ mtx = Nobody /\ mtx' = t /\ Goto(t, "open") /\ UNCHANGED <<line, sockets, modem>>
        /\ cmd' = [name |-> "USOCR", handle |-> SOCKET_UNUSED, n |-> 0]
    BY <1>1 DEF socket_open, LOCK, Send
  <2>2. cmd' # NoCommand /\ cmd'.name = "USOCR" /\ cmd'.n = 0
    BY <2>1 DEF NoCommand
  <2>3. PICK s \in Slots : find_socket(s, SOCKET_UNUSED) /\ handle' = [handle EXCEPT ![t] = s]
    BY <1>1 DEF socket_open
  <2>4. Holds(handle'[t], SOCKET_UNUSED) /\ \A u \in Threads : u # t => handle'[u] = handle[u]
    BY <1>a, <2>3 DEF find_socket, Holds
  <2>5. QED
    BY <1>a, <2>1, <2>2, <2>4, TableAsk
<1>2. CASE socket_close(t) \/ socket_connect(t)
  <2>1. PICK l \in {"close", "connect"}, name \in {"USOCL", "USOCO"} :
          \E op : BeginExchange(t, op, name, l)
    BY <1>2 DEF socket_close, socket_connect
  <2>2. /\ mtx = Nobody /\ mtx' = t /\ Goto(t, l) /\ UNCHANGED <<line, sockets, modem, handle>>
        /\ cmd' = [name |-> name, handle |-> sockets[handle[t]].modem_handle, n |-> 0]
    BY <2>1 DEF BeginExchange, LOCK, Send
  <2>3. cmd' # NoCommand /\ cmd'.name # "USOCR" /\ cmd'.handle = sockets[handle'[t]].modem_handle
    BY <2>1, <2>2 DEF NoCommand
  <2>4. l \in Waiting \ {"bindType", "bindClose", "bindOpen"} /\ l # "open"
    BY <2>1 DEF Waiting
  <2>5. QED
    BY <2>2, <2>3, <2>4, TableAsk
<1>3. ~socket_bind(t)
  BY DEF socket_bind, BeginExchange, BeginCall
<1>4. CASE OpenNoMemory(t) \/ socket_attach(t) \/ socket_send(t) \/ socket_recv(t)
  <2>1. /\ UNCHANGED <<handle, cmd, line, modem>>
        /\ \A u \in Threads : pc'[u] = pc[u] \/ (u = t /\ pc[u] = "idle"
                                                 /\ pc'[u] \in {"idle", "attach", "sendLoop", "recvLoop"})
    BY <1>4, <1>a DEF OpenNoMemory, socket_attach, socket_send, socket_recv, BeginCall, Return, Goto, Actors
  <2>2. \A s \in Slots : /\ sockets'[s].modem_handle = sockets[s].modem_handle
                         /\ sockets'[s].pending = sockets[s].pending
    <3>1. CASE UNCHANGED sockets
      BY <3>1
    <3>2. CASE socket_attach(t)
      BY <1>a, <3>2 DEF socket_attach, SockCtrl
    <3>3. QED
      BY <1>4, <3>1, <3>2 DEF OpenNoMemory, socket_send, socket_recv
  <2>3. \A u \in Threads : pc'[u] = pc[u] \/ (pc[u] \notin Waiting \cup {"bindType", "bindClose", "bindOpen"}
                                              /\ pc'[u] \notin Waiting)
    BY <2>1 DEF Waiting
  <2>4. QED
    BY <2>1, <2>2, <2>3, TableOutside
<1>5. QED
  BY <1>1, <1>2, <1>3, <1>4 DEF StartCall

\* The steps inside a call that take the mutex.
LEMMA TableTurn ==
  ASSUME ChannelInv, ChannelInv', TableInv, NEW t \in Threads, TakeTurn(t) \/ TimerExpires(t)
  PROVE  TableInv'
<1> USE DEF threadVars, timeoutVars, driverVars, modemVars
<1>a. pc \in [Actors -> PCs] /\ t \in Actors
  BY DEF ChannelInv, TypeInv, TypeOK, Actors
<1>1. CASE SendBlock(t) \/ RecvRead(t)
  <2>1. PICK l \in {"sendWait", "recvRead"}, name \in {"USOWR", "USORD"} :
          \E n : /\ mtx = Nobody /\ mtx' = t /\ Goto(t, l) /\ UNCHANGED <<line, sockets, modem, handle>>
                 /\ cmd' = [name |-> name, handle |-> sockets[handle[t]].modem_handle, n |-> n]
    BY <1>1 DEF SendBlock, RecvRead, BeginTurn, LOCK, Send
  <2>2. cmd' # NoCommand /\ cmd'.name # "USOCR" /\ cmd'.handle = sockets[handle'[t]].modem_handle
    BY <2>1 DEF NoCommand
  <2>3. l \in Waiting \ {"bindType", "bindClose", "bindOpen"} /\ l # "open"
    BY <2>1 DEF Waiting
  <2>4. QED
    BY <2>1, <2>2, <2>3, TableAsk
<1>2. CASE RecvWait(t) \/ RecvReturns(t) \/ TimerExpires(t)
  <2>1. /\ UNCHANGED <<handle, cmd, line, modem, sockets>>
        /\ \A u \in Threads : pc'[u] = pc[u] \/ (u = t /\ pc[u] = "recvLoop" /\ pc'[u] \in {"idle", "recvWait"})
    BY <1>2, <1>a DEF RecvWait, RecvReturns, TimerExpires, BeginTurn, Return, Goto, Actors
  <2>2. \A u \in Threads : pc'[u] = pc[u] \/ (pc[u] \notin Waiting \cup {"bindType", "bindClose", "bindOpen"}
                                              /\ pc'[u] \notin Waiting)
    BY <2>1 DEF Waiting
  <2>3. QED
    BY <2>1, <2>2, TableOutside
<1>3. QED
  BY <1>1, <1>2 DEF TakeTurn

\* Faults are never given back, and without one every step keeps the table.
LEMMA TableStep ==
  ASSUME ChannelInv, ChannelInv', "bind" \notin Ops, FaultlessInv, [Next]_vars
  PROVE  FaultlessInv'
<1>1. SUFFICES ASSUME faults' = MaxFaults
               PROVE  TableInv'
  BY DEF FaultlessInv
<1>2. faults = MaxFaults
  <2>1. faults \in Nat /\ faults <= MaxFaults /\ MaxFaults \in Nat
    BY SizesAssumption DEF ChannelInv, TypeInv, TypeOK
  <2>2. faults' = faults \/ faults' = faults - 1
    <3>1. CASE ModemExecutes \/ ModemRefuses
      BY <3>1 DEF ModemExecutes, ModemRefuses
    <3>2. CASE UNCHANGED faults
      BY <3>2
    <3>3. ASSUME NEW a \in Actors, RunURC(a)
          PROVE  UNCHANGED faults
      BY <3>3 DEF RunURC, UUSORD_URC, CallCallback, UUSOCL_URC, UUPSDD_URC, HandleURC, modemVars
    <3>4. ASSUME EventBegin \/ EventEnd
          PROVE  UNCHANGED faults
      BY <3>4 DEF EventBegin, EventEnd, modemVars
    <3>5. ASSUME NEW t \in Threads, StartCall(t)
          PROVE  UNCHANGED faults
      BY <3>5
      DEF StartCall, socket_open, OpenNoMemory, socket_close, socket_bind, socket_connect,
          BeginExchange, socket_attach, socket_send, socket_recv, modemVars
    <3>6. ASSUME NEW t \in Threads, ContinueCall(t)
          PROVE  UNCHANGED faults
      BY <3>6
      DEF ContinueCall, OpenCreated, OpenFails, CloseDone, CloseFails, BindTypeKnown, BindClosed,
          BindDone, BindFails, ConnectEnds, AttachData, SendBlockDone, SendFails, SendReturns,
          RecvGotData, RecvCutShort, RecvFails, RecvWaited, EndExchange, EndTurn, modemVars
    <3>7. ASSUME NEW t \in Threads, TakeTurn(t) \/ TimerExpires(t)
          PROVE  UNCHANGED faults
      BY <3>7
      DEF TakeTurn, SendBlock, RecvRead, RecvWait, BeginTurn, RecvReturns, TimerExpires, modemVars
    <3>8. ASSUME NEW h \in ModemHandles, DataArrives(h) \/ RemoteCloses(h) \/ ContextLost(h)
          PROVE  UNCHANGED faults
      BY <3>8 DEF DataArrives, RemoteCloses, ContextLost, NetworkStep
    <3>9. ASSUME UNCHANGED vars
          PROVE  UNCHANGED faults
      BY <3>9 DEF vars, modemVars
    <3>10. QED
      BY <3>1, <3>2, <3>3, <3>4, <3>5, <3>6, <3>7, <3>8, <3>9 DEF Next
  <2>3. QED
    BY <1>1, <2>1, <2>2
<1>3. TableInv
  BY <1>2 DEF FaultlessInv
<1>4. CASE UNCHANGED vars \/ EventBegin \/ EventEnd
  <2>1. UNCHANGED <<handle, cmd, line, modem, sockets>>
    BY <1>4 DEF vars, EventBegin, EventEnd, driverVars, threadVars, timeoutVars, modemVars
  <2>2. \A t \in Threads : pc'[t] = pc[t]
    BY <1>4, ThreadsAssumption
    DEF vars, EventBegin, EventEnd, threadVars, Goto, ChannelInv, TypeInv, TypeOK, Actors
  <2>3. QED
    BY <1>3, <2>1, <2>2, TableOutside
<1>5. QED
  BY <1>1, <1>2, <1>3, <1>4, TableURC, TableStart, TableContinue, TableTurn, TableModem, TableNetwork
  DEF Next

\* Hence the invariant holds as long as no fault has happened.
LEMMA TableAlways == ASSUME "bind" \notin Ops PROVE Spec => [](FaultlessInv /\ ChannelInv)
<1>1. Init => FaultlessInv
  BY TableInit DEF FaultlessInv
<1>2. TypeInv /\ TimeoutInv /\ AnswersReachTheirCaller /\ FaultlessInv
        /\ TypeInv' /\ TimeoutInv' /\ AnswersReachTheirCaller' /\ [Next]_vars => FaultlessInv'
  BY TableStep DEF ChannelInv
<1>3. TypeInv /\ TimeoutInv /\ AnswersReachTheirCaller => ChannelInv
  BY DEF ChannelInv
<1>4. QED
  BY <1>1, <1>2, <1>3, TypeInvAlways, TimeoutInvAlways, AnswersAreNotMixedUp, PTL DEF Spec

\* HandlesUnique: find_socket() is never ambiguous, until a command fails for
\* no reason of its own or an answer is lost, in a program that does not bind.
THEOREM HandlesAreUnique ==
  ASSUME "bind" \notin Ops
  PROVE  Spec => [](faults = MaxFaults => HandlesUnique)
<1>1. FaultlessInv => (faults = MaxFaults => HandlesUnique)
  BY DEF FaultlessInv, TableInv
<1>2. QED
  BY <1>1, TableAlways, PTL

\* TablesAgree: under the same conditions neither the driver nor the modem
\* keeps a socket the other does not know, whatever the network closes.
THEOREM NoSocketIsLeaked ==
  ASSUME "bind" \notin Ops
  PROVE  Spec => [](faults = MaxFaults => TablesAgree)
<1>1. ASSUME TableInv, ChannelInv, mtx = Nobody, line = << >>
      PROVE  {h \in ModemHandles : modem[h].open} = {sockets[s].modem_handle : s \in Slots} \ {SOCKET_UNUSED}
  <2>1. \A h : Lost(h) = {} /\ Told(h) = {}
    BY <1>1 DEF Lost, Told, Lines
  <2>2. \A h \in ModemHandles : modem[h].open <=> Held(h)
    BY <1>1, <2>1 DEF TableInv, SocketInv, OpenIsKnown, Live, Created, Closing
  <2>3. \A s \in Slots : sockets[s].modem_handle \in ModemHandles \cup {SOCKET_UNUSED}
    BY <1>1, SlotTypes DEF ChannelInv
  <2>4. \A h \in ModemHandles : h # SOCKET_UNUSED
    BY SizesAssumption DEF SOCKET_UNUSED
  <2>5. QED
    BY <2>2, <2>3, <2>4 DEF Held, Holds
<1>2. FaultlessInv /\ ChannelInv => (faults = MaxFaults => TablesAgree)
  BY <1>1 DEF FaultlessInv, TablesAgree
<1>3. QED
  BY <1>2, TableAlways, PTL

\* PendingExact: under the same conditions pending is what the modem holds as
\* soon as nothing about the socket is in transit.
THEOREM PendingIsExact ==
  ASSUME "bind" \notin Ops
  PROVE  Spec => [](faults = MaxFaults => PendingExact)
<1>1. ASSUME TableInv, ChannelInv
      PROVE  PendingExact
  <2>1. SUFFICES ASSUME NEW s \in Slots, NEW h, h = sockets[s].modem_handle, IsOpen(h),
                        \A x \in InTransit : x.handle # h
                 PROVE  sockets[s].pending = modem[h].rx
    BY DEF PendingExact
  <2>2. h \in ModemHandles /\ modem[h].open /\ Holds(s, h)
    BY <2>1 DEF IsOpen, Holds
  <2>3. News(h) = {} /\ Told(h) = {}
    BY <2>1 DEF News, Told, Lines, InTransit
  <2>4. Live(h) /\ Reads(h) = {}
    BY <1>1, <2>2, <2>3 DEF TableInv, SocketInv, OpenIsKnown, Created, Reads
  <2>5. CountFits(s, h)
    BY <1>1, <2>2, <2>4 DEF TableInv, PendingInv
  <2>6. PICK v \in Nat : v = sockets[s].pending
    BY <1>1, SlotTypes DEF ChannelInv
  <2>7. Known(s, h, Len(line) + 1, v)
    BY <2>3, <2>6 DEF Known
  <2>8. QED
    BY <2>4, <2>5, <2>6, <2>7 DEF CountFits
<1>2. FaultlessInv /\ ChannelInv => (faults = MaxFaults => PendingExact)
  BY <1>1 DEF FaultlessInv
<1>3. QED
  BY <1>2, TableAlways, PTL

\* PendingNeverWraps: on a line without faults the subtraction of an answer's
\* length from pending does not wrap.
THEOREM SubtractionIsSafe ==
  ASSUME "bind" \notin Ops, MaxFaults = 0
  PROVE  Spec => PendingNeverWraps
<1> DEFINE Fits == \A t \in Threads :
                     (RecvGotData(t) \/ RecvCutShort(t)) => Head(line).n <= sockets[handle[t]].pending
<1>1. ASSUME FaultlessInv, ChannelInv, NEW t \in Threads, RecvGotData(t) \/ RecvCutShort(t)
      PROVE  Head(line).n <= sockets[handle[t]].pending
  <2>1. TableInv
    <3>1. faults \in 0..0
      BY <1>1 DEF ChannelInv, TypeInv, TypeOK
    <3>2. faults = MaxFaults
      BY <3>1
    <3>3. QED
      BY <1>1, <3>2 DEF FaultlessInv
  <2>2. line # << >> => Head(line).type # "CUT"
    BY <1>1, <2>1 DEF ChannelInv, TypeInv, TypeOK, TableInv, NothingLost
  <2>3. RecvGotData(t)
    BY <1>1, <2>2 DEF RecvCutShort, Arrived
  <2>4. QED
    BY <1>1, <2>1, <2>3, ReadWithinPending DEF RecvGotData, GotOK, Receiving, Arrived
<1>2. FaultlessInv /\ ChannelInv => Fits
  BY <1>1
<1>3. QED
  BY <1>2, TableAlways, PTL DEF PendingNeverWraps

(***************************************************************************)
(* What more holds when the network only delivers data and no command      *)
(* fails for a reason of its own: sockets have owners, every command names *)
(* an open socket of the thread that sends it, and no read comes back      *)
(* empty.                                                                  *)
(***************************************************************************)

Owns(t) == handle[t] # NoSocket /\ pc[t] # "open"

OwnSlots ==
  /\ \A t \in Threads : Owns(t) => sockets[handle[t]].modem_handle \in ModemHandles
  /\ \A t, u \in Threads : handle[t] = handle[u] /\ handle[t] # NoSocket => t = u

OwnSockets ==
  /\ \A h \in ModemHandles :
       /\ \A t \in Threads : Owns(t) /\ Holds(handle[t], h) /\ modem[h].open => modem[h].for = t
       /\ Created(h) => modem[h].for = mtx
       /\ ~modem[h].open => modem[h].for = Nobody

OwnCommand ==
  /\ cmd.name \notin {"none", "USOCR"} => Holds(handle[mtx], cmd.handle)
  /\ cmd.name = "USORD" => cmd.n > 0 /\ sockets[handle[mtx]].pending > 0

OwnLines ==
  \A i \in 1..Len(line) :
    /\ line[i].type \notin {"UUSOCL", "UUPSDD"}
    /\ line[i].type = "UUSORD" => line[i].n > 0
    /\ line[i].type = "ERROR" => At("open")
    /\ line[i].type = "OK" /\ At("recvRead") => line[i].n > 0

\* News that are not older than the read under way are of bytes still there.
NewsIsThere ==
  \A h \in ModemHandles : modem[h].open => \A i \in News(h) :
    (\A k \in Reads(h) : k < i) => modem[h].rx > 0

\* What is left to read when a read is under way.
HasSize == \A t \in Threads : pc[t] = "recvRead" => call[t].size > 0

NoErrorYet == \A t \in Threads : ret[t] # "DEVICE_ERROR"

OwnInv ==
  OwnSlots /\ OwnSockets /\ OwnCommand /\ OwnLines /\ NewsIsThere /\ HasSize /\ NoErrorYet

\* An empty table and a modem without sockets.
LEMMA OwnInit == Init => OwnInv
<1> SUFFICES ASSUME Init
             PROVE  OwnInv
  OBVIOUS
<1>1. /\ \A t \in Threads : pc[t] = "idle" /\ handle[t] = NoSocket /\ ret[t] = "none"
      /\ line = << >> /\ cmd = NoCommand
      /\ modem = [h \in ModemHandles |-> ClosedSocket]
      /\ mtx = Nobody /\ mtx \notin Threads
  BY ThreadsAssumption DEF Init, Actors
<1>2. \A h \in ModemHandles : ~modem[h].open /\ modem[h].for = Nobody
  BY <1>1 DEF ClosedSocket
<1>3. OwnSlots /\ HasSize /\ NoErrorYet
  BY <1>1 DEF OwnSlots, Owns, HasSize, NoErrorYet
<1>4. OwnSockets /\ NewsIsThere
  BY <1>1, <1>2 DEF OwnSockets, Owns, NewsIsThere, Created, At
<1>5. OwnCommand /\ OwnLines
  BY <1>1 DEF OwnCommand, OwnLines, NoCommand
<1>6. QED
  BY <1>3, <1>4, <1>5 DEF OwnInv

\* A step outside the exchanges changes nothing of this.
LEMMA OwnOutside ==
  ASSUME ChannelInv, ChannelInv', TableInv, OwnInv, UNCHANGED <<handle, cmd, line, modem>>,
         \A t \in Threads : pc'[t] = pc[t] \/ (pc[t] \notin Waiting \cup {"bindType", "bindClose", "bindOpen"}
                                              /\ pc'[t] \notin Waiting),
         \A s \in Slots : /\ sockets'[s].modem_handle = sockets[s].modem_handle
                          /\ sockets'[s].pending = sockets[s].pending,
         \A t \in Threads : ret'[t] # "DEVICE_ERROR" /\ (pc[t] = "recvRead" => call'[t].size = call[t].size)
  PROVE  OwnInv'
<1>1. \A l \in Waiting : At(l)' <=> At(l)
  <2>1. SUFFICES ASSUME NEW l \in Waiting
                 PROVE  At(l)' <=> At(l)
    OBVIOUS
  <2>2. \A t \in Threads : pc[t] = l <=> pc'[t] = l
    BY <2>1
  <2>3. \A t \in Threads : (pc[t] = l => mtx = t) /\ (pc'[t] = l => mtx' = t)
    BY <2>1 DEF ChannelInv, TimeoutInv, Holding, Actors
  <2>4. QED
    BY <2>2, <2>3 DEF At
<1>2. At("open")' <=> At("open")
  BY <1>1 DEF Waiting
<1>3. At("recvRead")' <=> At("recvRead")
  BY <1>1 DEF Waiting
<1>4. \A h : /\ News(h)' = News(h) /\ Told(h)' = Told(h)
             /\ (Created(h)' <=> Created(h)) /\ Reads(h)' = Reads(h)
  <2>1. \A h : News(h)' = News(h) /\ Told(h)' = Told(h)
    BY DEF News, Told, Lines
  <2>2. QED
    BY <1>2, <1>3, <2>1 DEF Created, Reads
<1>5. \A t \in Threads : /\ Owns(t)' <=> Owns(t)
                         /\ pc'[t] = "recvRead" => pc[t] = "recvRead"
  BY DEF Owns, Waiting
<1>6. \A t \in Threads : handle[t] # NoSocket => handle[t] \in Slots
  BY DEF ChannelInv, TypeInv, TypeOK
<1>7. cmd # NoCommand => mtx' = mtx /\ mtx \in Threads /\ handle[mtx] \in Slots
  <2>1. SUFFICES ASSUME cmd # NoCommand
                 PROVE  mtx' = mtx /\ mtx \in Threads /\ handle[mtx] \in Slots
    OBVIOUS
  <2>2. mtx \in Threads /\ pc[mtx] \in Waiting /\ handle[mtx] \in Slots
    BY <2>1, InExchange
  <2>3. pc'[mtx] = pc[mtx] /\ mtx \in Actors
    BY <2>2 DEF Actors
  <2>4. mtx' = mtx
    BY <2>2, <2>3 DEF ChannelInv, TimeoutInv, Holding
  <2>5. QED
    BY <2>2, <2>4
<1>8. At("open") => mtx' = mtx
  BY <1>2 DEF At, ChannelInv, TimeoutInv, Holding, Waiting, Actors
<1>9. OwnSlots'
  BY <1>5, <1>6 DEF OwnInv, OwnSlots, Owns
<1>10. OwnSockets'
  <2>1. SUFFICES ASSUME NEW h \in ModemHandles
                 PROVE  /\ \A t \in Threads : Owns(t)' /\ Holds(handle[t], h)' /\ modem[h].open
                                                => modem[h].for = t
                        /\ Created(h)' => modem[h].for = mtx'
                        /\ ~modem[h].open => modem[h].for = Nobody
    BY DEF OwnSockets, Holds
  <2>2. /\ \A t \in Threads : Owns(t) /\ Holds(handle[t], h) /\ modem[h].open => modem[h].for = t
        /\ Created(h) => modem[h].for = mtx
        /\ ~modem[h].open => modem[h].for = Nobody
    BY DEF OwnInv, OwnSockets
  <2>3. \A t \in Threads : Owns(t)' /\ Holds(handle[t], h)' => Owns(t) /\ Holds(handle[t], h)
    BY <1>5, <1>6 DEF Holds, Owns
  <2>4. Created(h)' => Created(h) /\ mtx' = mtx
    BY <1>4, <1>8 DEF Created
  <2>5. QED
    BY <2>2, <2>3, <2>4
<1>11. OwnCommand'
  <2>1. cmd = NoCommand => cmd.name = "none"
    BY DEF NoCommand
  <2>2. QED
    BY <1>7, <2>1 DEF OwnInv, OwnCommand, Holds
<1>12. OwnLines' /\ NewsIsThere'
  BY <1>2, <1>3, <1>4 DEF OwnInv, OwnLines, NewsIsThere
<1>13. HasSize' /\ NoErrorYet'
  BY <1>5 DEF OwnInv, HasSize, NoErrorYet
<1>14. QED
  BY <1>9, <1>10, <1>11, <1>12, <1>13 DEF OwnInv

\* A thread that finds the channel silent sends a command for its socket.
LEMMA OwnAsk ==
  ASSUME ChannelInv, ChannelInv', TableInv, OwnInv, NEW t \in Threads,
         NEW l \in Waiting, mtx = Nobody, mtx' = t, Goto(t, l), UNCHANGED <<line, sockets, modem>>,
         \A u \in Threads : u # t => handle'[u] = handle[u],
         \/ /\ l = "open" /\ cmd'.name = "USOCR" /\ handle[t] = NoSocket
            /\ handle'[t] \in Slots /\ Holds(handle'[t], SOCKET_UNUSED)
         \/ /\ l # "open" /\ handle'[t] = handle[t] /\ handle[t] # NoSocket /\ pc[t] # "open"
            /\ cmd'.handle = sockets[handle[t]].modem_handle,
         cmd'.name = "USORD" => cmd'.n > 0 /\ sockets[handle[t]].pending > 0,
         l = "recvRead" => call[t].size > 0,
         \A u \in Threads : ret'[u] # "DEVICE_ERROR" /\ (u # t \/ l = "recvRead" => call'[u] = call[u])
  PROVE  OwnInv'
<1>1. /\ AnswersInTransit = {} /\ AnswersInTransit' = {}
      /\ \A u \in Threads : pc[u] \notin Waiting
      /\ pc'[t] = l /\ \A u \in Threads : u # t => pc'[u] = pc[u]
  <2>1. AnswersInTransit = {}
    BY Silence
  <2>2. AnswersInTransit' = {}
    BY <2>1 DEF AnswersInTransit
  <2>3. \A u \in Threads : pc[u] \notin Waiting
    BY ThreadsAssumption DEF ChannelInv, TimeoutInv, Holding, Actors
  <2>4. pc'[t] = l /\ \A u \in Threads : u # t => pc'[u] = pc[u]
    BY DEF Goto, ChannelInv, TypeInv, TypeOK, Actors
  <2>5. QED
    BY <2>1, <2>2, <2>3, <2>4
<1>2. \A h : News(h)' = News(h) /\ Told(h)' = {} /\ Reads(h)' = {} /\ ~Created(h)'
             /\ Told(h) = {} /\ Reads(h) = {}
  <2>1. \A h : Told(h)' = {} /\ Told(h) = {}
    BY <1>1 DEF AnswersInTransit, Answers, Told, Lines
  <2>2. \A h : News(h)' = News(h)
    BY DEF News, Lines
  <2>3. QED
    BY <2>1, <2>2 DEF Reads, Created
<1>3. /\ \A u \in Threads : Owns(u)' => Owns(u) /\ handle'[u] = handle[u]
      /\ \A u \in Threads : handle[u] # NoSocket => Owns(u) /\ sockets[handle[u]].modem_handle \in ModemHandles
  <2>1. \A u \in Threads : pc[u] # "open"
    BY <1>1 DEF Waiting
  <2>2. \A u \in Threads : Owns(u)' => Owns(u) /\ handle'[u] = handle[u]
    BY <1>1, <2>1 DEF Owns
  <2>3. QED
    BY <2>1, <2>2 DEF Owns, OwnInv, OwnSlots
<1>4. OwnSlots'
  <2>1. \A u \in Threads : Owns(u)' => sockets'[handle'[u]].modem_handle \in ModemHandles
    BY <1>3 DEF Owns
  <2>2. ASSUME NEW u \in Threads, NEW v \in Threads, handle'[u] = handle'[v], handle'[u] # NoSocket
        PROVE  u = v
    <3>1. CASE handle'[t] = handle[t]
      BY <2>2, <3>1 DEF OwnInv, OwnSlots
    <3>2. CASE Holds(handle'[t], SOCKET_UNUSED)
      <4>1. \A w \in Threads : w # t /\ handle'[w] # NoSocket => handle'[w] # handle'[t]
        BY <1>3, <3>2, SizesAssumption DEF Holds, SOCKET_UNUSED
      <4>2. QED
        BY <2>2, <4>1 DEF OwnInv, OwnSlots
    <3>3. QED
      BY <3>1, <3>2
  <2>3. QED
    BY <2>1, <2>2 DEF OwnSlots
<1>5. OwnSockets'
  <2>1. SUFFICES ASSUME NEW h \in ModemHandles
                 PROVE  /\ \A u \in Threads : Owns(u)' /\ Holds(handle[u], h)' /\ modem[h].open
                                                => modem[h].for = u
                        /\ Created(h)' => modem[h].for = mtx'
                        /\ ~modem[h].open => modem[h].for = Nobody
    BY DEF OwnSockets, Holds
  <2>2. \A u \in Threads : Owns(u)' /\ Holds(handle[u], h)' => Owns(u) /\ Holds(handle[u], h)
    BY <1>3 DEF Holds
  <2>3. QED
    BY <1>2, <2>2 DEF OwnInv, OwnSockets
<1>6. OwnCommand'
  BY DEF OwnCommand, Holds
<1>7. OwnLines'
  <2>1. \A i \in 1..Len(line) : line[i].type \notin {"OK", "ERROR"}
    BY <1>1 DEF AnswersInTransit, Answers
  <2>2. QED
    BY <2>1 DEF OwnInv, OwnLines
<1>8. NewsIsThere'
  BY <1>2 DEF OwnInv, NewsIsThere
<1>9. HasSize' /\ NoErrorYet'
  <2>1. \A u \in Threads : pc'[u] = "recvRead" => u = t /\ l = "recvRead"
    BY <1>1 DEF Waiting
  <2>2. QED
    BY <2>1 DEF HasSize, NoErrorYet
<1>10. QED
  BY <1>4, <1>5, <1>6, <1>7, <1>8, <1>9 DEF OwnInv

\* What the end of an exchange does to the lines, whatever the slot becomes.
LEMMA OwnHeard ==
  ASSUME ChannelInv, TableInv, OwnInv, NEW t \in Threads, NEW l \in Waiting, Reading(t, l)
  PROVE  /\ OwnCommand' /\ OwnLines' /\ NewsIsThere'
         /\ Head(line).type = "ERROR" => l = "open"
         /\ l = "recvRead" => Head(line).n > 0
         /\ \A u \in Threads : pc'[u] # "open" /\ pc'[u] # "recvRead" /\ (u # t => pc[u] # "open")
<1>1. /\ line \in Seq(LineItem) /\ cmd = NoCommand
      /\ \A m : At(m) <=> l = m
      /\ \A m \in Waiting : ~At(m)'
      /\ \A h : \A k \in Told(h) : k = 1
      /\ \A h : Reads(h)' = {}
  BY ReadingMeans
<1>2. /\ Len(line') \in Nat /\ 1 \in 1..Len(line) /\ Head(line) = line[1]
      /\ \A i \in 1..Len(line') : i + 1 \in 1..Len(line) /\ line'[i] = line[i + 1]
  BY <1>1, LineTail DEF Reading
<1>3. AnswersInTransit' = {}
  BY AnswerTaken DEF Reading, Answers
<1>4. OwnCommand'
  BY <1>1 DEF OwnCommand, Reading, NoCommand
<1>5. OwnLines'
  <2>1. \A i \in 1..Len(line') : line'[i].type \notin {"OK", "ERROR"}
    BY <1>3 DEF AnswersInTransit, Answers
  <2>2. QED
    BY <1>2, <2>1 DEF OwnInv, OwnLines
<1>6. NewsIsThere'
  <2>1. SUFFICES ASSUME NEW h \in ModemHandles, modem[h].open, NEW i \in News(h)'
                 PROVE  modem[h].rx > 0
    BY DEF NewsIsThere, Reading
  <2>2. i \in Nat \ {0} /\ i + 1 \in News(h)
    BY <1>1, NewsTail DEF Reading
  <2>3. \A k \in Reads(h) : k < i + 1
    BY <1>1, <2>2 DEF Reads
  <2>4. QED
    BY <2>1, <2>2, <2>3 DEF OwnInv, NewsIsThere
<1>7. Head(line).type = "ERROR" => l = "open"
  BY <1>1, <1>2 DEF OwnInv, OwnLines
<1>8. l = "recvRead" => Head(line).n > 0
  BY <1>1, <1>2, <1>7 DEF OwnInv, OwnLines, Reading
<1>9. \A u \in Threads : pc'[u] # "open" /\ pc'[u] # "recvRead" /\ (u # t => pc[u] # "open")
  <2>1. \A u \in Threads : u # t => pc[u] \notin Waiting
    BY DEF Reading, ChannelInv, TimeoutInv, Holding, Actors
  <2>2. QED
    BY <2>1 DEF Reading, Waiting
<1>10. QED
  BY <1>4, <1>5, <1>6, <1>7, <1>8, <1>9

\* The answer is read, and the slot is kept, given up or, by open, taken.
LEMMA OwnAnswered ==
  ASSUME ChannelInv, TableInv, OwnInv, NEW t \in Threads, NEW l \in Waiting, Reading(t, l),
         \A u \in Threads : u # t => handle'[u] = handle[u],
         handle'[t] = handle[t] \/ handle'[t] = NoSocket,
         \A s \in Slots : s # handle[t] => sockets'[s].modem_handle = sockets[s].modem_handle,
         handle'[t] # NoSocket =>
           \E h \in ModemHandles : /\ sockets'[handle[t]].modem_handle = h
                                   /\ modem[h].open => modem[h].for = t,
         \A u \in Threads : ret'[u] # "DEVICE_ERROR"
  PROVE  OwnInv'
<1>1. /\ OwnCommand' /\ OwnLines' /\ NewsIsThere'
      /\ \A u \in Threads : pc'[u] # "open" /\ pc'[u] # "recvRead" /\ (u # t => pc[u] # "open")
      /\ modem' = modem /\ \A h : ~Created(h)'
  BY OwnHeard, ReadingMeans DEF Reading
<1>2. HasSize' /\ NoErrorYet'
  BY <1>1 DEF HasSize, NoErrorYet
<1>3. \A u \in Threads : u # t /\ handle[u] # NoSocket =>
        /\ Owns(u) /\ handle[u] \in Slots /\ handle[u] # handle[t]
        /\ sockets'[handle[u]].modem_handle = sockets[handle[u]].modem_handle
  <2>1. \A u \in Threads : handle[u] # NoSocket => handle[u] \in Slots
    BY DEF ChannelInv, TypeInv, TypeOK
  <2>2. \A u \in Threads : u # t /\ handle[u] # NoSocket => handle[u] # handle[t]
    BY DEF OwnInv, OwnSlots
  <2>3. QED
    BY <1>1, <2>1, <2>2 DEF Owns
<1>4. OwnSlots'
  <2>1. ASSUME NEW u \in Threads, handle'[u] # NoSocket
        PROVE  sockets'[handle'[u]].modem_handle \in ModemHandles
    <3>1. CASE u = t
      BY <2>1, <3>1
    <3>2. CASE u # t
      BY <1>3, <2>1, <3>2 DEF OwnInv, OwnSlots
    <3>3. QED
      BY <3>1, <3>2
  <2>2. \A u, v \in Threads : handle'[u] = handle'[v] /\ handle'[u] # NoSocket => u = v
    BY DEF OwnInv, OwnSlots
  <2>3. QED
    BY <2>1, <2>2 DEF OwnSlots, Owns
<1>5. OwnSockets'
  <2>1. SUFFICES ASSUME NEW h \in ModemHandles
                 PROVE  /\ \A u \in Threads : handle'[u] # NoSocket /\ sockets'[handle'[u]].modem_handle = h
                             /\ modem[h].open => modem[h].for = u
                        /\ ~modem[h].open => modem[h].for = Nobody
    BY <1>1 DEF OwnSockets, Holds, Owns
  <2>2. ASSUME NEW u \in Threads, handle'[u] # NoSocket, sockets'[handle'[u]].modem_handle = h, modem[h].open
        PROVE  modem[h].for = u
    <3>1. CASE u = t
      BY <2>2, <3>1
    <3>2. CASE u # t
      BY <1>3, <2>2, <3>2 DEF OwnInv, OwnSockets, Holds
    <3>3. QED
      BY <3>1, <3>2
  <2>3. QED
    BY <2>2 DEF OwnInv, OwnSockets
<1>6. QED
  BY <1>1, <1>2, <1>4, <1>5 DEF OwnInv

\* A thread in an exchange other than open keeps the socket in its slot.
LEMMA OwnKept ==
  ASSUME ChannelInv, OwnInv, NEW t \in Threads, NEW l \in Waiting \ {"open"}, Reading(t, l),
         sockets'[handle[t]].modem_handle = sockets[handle[t]].modem_handle
  PROVE  \E h \in ModemHandles : /\ sockets'[handle[t]].modem_handle = h
                                 /\ modem[h].open => modem[h].for = t
<1>1. Owns(t)
  BY DEF Reading, Waiting, Owns, ChannelInv, TypeInv, InCall, Slots, NoSocket
<1>2. sockets[handle[t]].modem_handle \in ModemHandles
  BY <1>1 DEF OwnInv, OwnSlots
<1>3. QED
  BY <1>1, <1>2 DEF OwnInv, OwnSockets, Holds

\* The steps of a call that end in an answer, and those outside.
LEMMA OwnContinue ==
  ASSUME ChannelInv, ChannelInv', TableInv, OwnInv, NEW t \in Threads, ContinueCall(t)
  PROVE  OwnInv'
<1> USE DEF threadVars, timeoutVars, driverVars, modemVars
<1>a. /\ line \in Seq(LineItem) /\ sockets \in [Slots -> SockCtrl] /\ pc \in [Actors -> PCs]
      /\ handle \in [Threads -> Slots \cup {NoSocket}] /\ ret \in [Threads -> Results]
      /\ t \in Actors /\ {"close", "connect", "sendWait", "recvRead"} \subseteq Waiting \ {"open"}
      /\ "open" \in Waiting
      /\ \A u \in Threads : pc[u] # "idle" => handle[u] \in Slots
      /\ \A u \in Threads : ret[u] # "DEVICE_ERROR"
  BY DEF ChannelInv, TypeInv, TypeOK, InCall, Actors, Waiting, OwnInv, NoErrorYet
<1>b. ASSUME NEW l \in Waiting, NEW m \in {"idle", "sendLoop", "recvLoop"},
             GotOK(t, l) \/ GotNothing(t, l), Goto(t, m), UNLOCK(t), UNCHANGED <<cmd, modem>>
      PROVE  Reading(t, l) /\ (GotNothing(t, l) => l = "open")
  <2>1. Reading(t, l)
    BY <1>b, AnswerIsRead
  <2>2. line # << >> /\ (Head(line).type = "ERROR" => l = "open")
    BY <2>1, OwnHeard DEF Reading
  <2>3. QED
    BY <2>1, <2>2 DEF GotNothing, Arrived
<1>1. CASE OpenCreated(t)
  <2>1. /\ GotOK(t, "open") /\ Goto(t, "idle") /\ UNLOCK(t) /\ UNCHANGED <<cmd, modem, handle>>
        /\ sockets' = [sockets EXCEPT ![handle[t]] = [UnusedSocket EXCEPT !.modem_handle = Head(line).handle]]
        /\ ret' = [ret EXCEPT ![t] = "OK"]
    BY <1>1 DEF OpenCreated, EndExchange, Return
  <2>2. Reading(t, "open")
    BY <1>a, <1>b, <2>1
  <2>3. PICK h : h = Head(line).handle
    OBVIOUS
  <2>4. h \in ModemHandles /\ Created(h) /\ mtx = t
    <3>1. Head(line).type = "OK" /\ 1 \in 1..Len(line) /\ Head(line) = line[1]
      BY <1>a, <2>1 DEF GotOK, Arrived
    <3>2. h \in ModemHandles
      BY <2>3, <3>1 DEF TableInv, NothingLost
    <3>3. 1 \in Told(h)
      BY <2>3, <3>1 DEF Told, Lines
    <3>4. QED
      BY <2>2, <3>2, <3>3 DEF Created, At, Reading
  <2>5. sockets'[handle[t]].modem_handle = h /\ modem[h].for = t
    BY <1>a, <2>1, <2>2, <2>3, <2>4 DEF UnusedSocket, OwnInv, OwnSockets, Reading
  <2>6. \A s \in Slots : s # handle[t] => sockets'[s].modem_handle = sockets[s].modem_handle
    BY <1>a, <2>1
  <2>7. QED
    BY <1>a, <2>1, <2>2, <2>4, <2>5, <2>6, OwnAnswered
<1>2. CASE OpenFails(t) \/ CloseDone(t) \/ CloseFails(t)
  <2>1. PICK l \in {"open", "close"} :
          /\ GotOK(t, l) \/ GotNothing(t, l)
          /\ GotNothing(t, l) /\ l = "close" => CloseFails(t)
          /\ Goto(t, "idle") /\ UNLOCK(t) /\ UNCHANGED <<cmd, modem>>
          /\ handle' = [handle EXCEPT ![t] = NoSocket]
          /\ \A s \in Slots : s # handle[t] => sockets'[s].modem_handle = sockets[s].modem_handle
          /\ (l = "close" /\ ~GotNothing(t, l)) \/ l = "open" => \A u \in Threads : ret'[u] # "DEVICE_ERROR"
    <3>1. CASE OpenFails(t)
      BY <1>a, <3>1 DEF OpenFails, EndExchange, Return
    <3>2. CASE CloseDone(t)
      <4>1. GotOK(t, "close") /\ ~GotNothing(t, "close")
        BY <3>2 DEF CloseDone, GotOK, GotNothing, Arrived
      <4>2. QED
        BY <1>a, <3>2, <4>1 DEF CloseDone, EndExchange, Return, clear_socket
    <3>3. CASE CloseFails(t)
      BY <1>a, <3>3 DEF CloseFails, EndExchange, Return
    <3>4. QED
      BY <1>2, <3>1, <3>2, <3>3
  <2>2. Reading(t, l) /\ (GotNothing(t, l) => l = "open")
    BY <1>a, <1>b, <2>1
  <2>3. handle'[t] = NoSocket /\ \A u \in Threads : u # t => handle'[u] = handle[u]
    BY <1>a, <2>1
  <2>4. \A u \in Threads : ret'[u] # "DEVICE_ERROR"
    BY <2>1, <2>2
  <2>5. QED
    BY <1>a, <2>1, <2>2, <2>3, <2>4, OwnAnswered
<1>3. CASE ConnectEnds(t) \/ SendBlockDone(t) \/ SendFails(t) \/ RecvGotData(t) \/ RecvFails(t)
  <2>1. PICK l \in {"connect", "sendWait", "recvRead"}, m \in {"idle", "sendLoop", "recvLoop"} :
          /\ GotOK(t, l) \/ GotNothing(t, l)
          /\ Goto(t, m) /\ UNLOCK(t) /\ UNCHANGED <<cmd, modem, handle>>
          /\ \A s \in Slots : sockets'[s].modem_handle = sockets[s].modem_handle
    <3>1. CASE ConnectEnds(t) \/ SendFails(t)
      BY <3>1 DEF ConnectEnds, SendFails, EndExchange, Return
    <3>2. CASE SendBlockDone(t)
      BY <3>2 DEF SendBlockDone
    <3>3. CASE RecvFails(t)
      BY <3>3 DEF RecvFails, EndTurn, Return
    <3>4. CASE RecvGotData(t)
      <4>1. /\ GotOK(t, "recvRead") /\ UNLOCK(t) /\ UNCHANGED <<cmd, modem, handle>>
            /\ sockets' = [sockets EXCEPT ![handle[t]].pending = (@ - Head(line).n) % PendingMod]
        BY <3>4 DEF RecvGotData, EndTurn
      <4>2. Goto(t, "recvLoop") \/ Goto(t, "idle")
        BY <3>4 DEF RecvGotData, Return
      <4>3. \A s \in Slots : sockets'[s].modem_handle = sockets[s].modem_handle
        BY <1>a, <4>1 DEF SockCtrl
      <4>4. QED
        BY <4>1, <4>2, <4>3
    <3>5. QED
      BY <1>3, <3>1, <3>2, <3>3, <3>4
  <2>2. l \in Waiting \ {"open"} /\ Reading(t, l) /\ ~GotNothing(t, l)
    BY <1>a, <1>b, <2>1
  <2>3. \A u \in Threads : ret'[u] # "DEVICE_ERROR"
    <3>1. ~SendFails(t) /\ ~RecvFails(t)
      <4>1. ~GotNothing(t, pc[t])
        BY <2>2 DEF Reading
      <4>2. QED
        BY <4>1 DEF SendFails, RecvFails, GotNothing, Receiving
    <3>2. CASE ConnectEnds(t)
      <4>1. ~GotNothing(t, "connect")
        BY <2>2, <3>2 DEF Reading, ConnectEnds, GotOK, GotNothing, Receiving
      <4>2. ret' = [ret EXCEPT ![t] = "OK"]
        BY <3>2, <4>1 DEF ConnectEnds, EndExchange, Return
      <4>3. QED
        BY <1>a, <4>2
    <3>3. CASE SendBlockDone(t)
      BY <1>a, <3>3 DEF SendBlockDone
    <3>4. CASE RecvGotData(t)
      <4>1. l = "recvRead"
        BY <2>2, <3>4 DEF Reading, RecvGotData, GotOK, Receiving
      <4>2. Head(line).n > 0 /\ Head(line).n \in Nat
        BY <1>a, <2>2, <4>1, OwnHeard, LineTypes DEF Reading
      <4>3. call[t].size > 0 /\ call[t].size \in Nat
        BY <2>2, <4>1, SizesAssumption DEF OwnInv, HasSize, Reading, ChannelInv, TypeInv, TypeOK, CallState
      <4>4. AtMost(Head(line).n, call[t].size) # 0
        BY <4>2, <4>3 DEF AtMost
      <4>5. ret' = ret
        BY <3>4, <4>4 DEF RecvGotData
      <4>6. QED
        BY <1>a, <4>5
    <3>5. QED
      BY <1>3, <3>1, <3>2, <3>3, <3>4
  <2>4. handle[t] \in Slots
    BY <1>a, <2>1, <2>2 DEF Reading
  <2>5. QED
    BY <2>1, <2>2, <2>3, <2>4, OwnAnswered, OwnKept
<1>4. ~RecvCutShort(t)
  <2>1. line # << >> => Head(line).type # "CUT"
    BY <1>a DEF TableInv, NothingLost
  <2>2. QED
    BY <2>1 DEF RecvCutShort, Arrived
<1>5. CASE AttachData(t) \/ SendReturns(t) \/ RecvWaited(t)
  <2>1. /\ \A s \in Slots : /\ sockets'[s].modem_handle = sockets[s].modem_handle
                            /\ sockets'[s].pending = sockets[s].pending
        /\ UNCHANGED <<handle, cmd, line, modem>>
    BY <1>5, <1>a DEF AttachData, SendReturns, RecvWaited, EndTurn, SockCtrl
  <2>2. \A u \in Threads : pc'[u] = pc[u] \/ (u = t /\ pc[u] \in {"attach", "sendLoop", "recvWait"}
                                              /\ pc'[u] \in {"idle", "recvLoop"})
    BY <1>5, <1>a DEF AttachData, SendReturns, RecvWaited, Receiving, Return, Goto, Actors
  <2>3. \A u \in Threads : pc'[u] = pc[u] \/ (pc[u] \notin Waiting \cup {"bindType", "bindClose", "bindOpen"}
                                              /\ pc'[u] \notin Waiting)
    BY <2>2 DEF Waiting
  <2>4. \A u \in Threads : ret'[u] # "DEVICE_ERROR" /\ (pc[u] = "recvRead" => call'[u].size = call[u].size)
    BY <1>5, <1>a DEF AttachData, SendReturns, RecvWaited, Receiving, Return,
       ChannelInv, TypeInv, TypeOK
  <2>5. QED
    BY <2>1, <2>3, <2>4, OwnOutside
<1>6. ~BindTypeKnown(t) /\ ~BindClosed(t) /\ ~BindDone(t) /\ ~BindFails(t)
  BY DEF TableInv, NothingLost, BindTypeKnown, BindClosed, BindDone, BindFails, GotOK, GotNothing, Receiving
<1>7. QED
  BY <1>1, <1>2, <1>3, <1>4, <1>5, <1>6 DEF ContinueCall

\* Who sends what the modem has not answered, and for which socket.
LEMMA OwnAsked ==
  ASSUME ChannelInv, TableInv, OwnInv, cmd # NoCommand
  PROVE  /\ mtx \in Threads /\ handle[mtx] \in Slots /\ AnswersInTransit = {}
         /\ pc[mtx] \in Waiting
         /\ At("open") <=> cmd.name = "USOCR"
         /\ At("recvRead") <=> cmd.name = "USORD"
         /\ \A h : Told(h) = {} /\ Reads(h) = {} /\ ~Created(h) /\ ~Closing(h)
         /\ \A h : Lost(h) = {}
         /\ cmd.name # "USOCR" => /\ Owns(mtx) /\ Holds(handle[mtx], cmd.handle)
                                  /\ cmd.handle \in ModemHandles /\ modem[cmd.handle].open
                                  /\ Live(cmd.handle) /\ modem[cmd.handle].for = mtx
<1>1. /\ mtx \in Threads /\ handle[mtx] \in Slots /\ AnswersInTransit = {}
      /\ pc[mtx] \in Waiting /\ AwaitedCommand[pc[mtx]] = cmd.name
  BY InExchange DEF ChannelInv, AnswersReachTheirCaller
<1>2. pc[mtx] \notin {"bindType", "bindClose", "bindOpen"}
  BY <1>1 DEF TableInv, NothingLost
<1>3. (At("open") <=> cmd.name = "USOCR") /\ (At("recvRead") <=> cmd.name = "USORD")
  BY <1>1, <1>2 DEF At, AwaitedCommand, Waiting
<1>4. \A h : Told(h) = {} /\ Reads(h) = {} /\ ~Created(h) /\ ~Closing(h)
  BY <1>1, NoneTold
<1>5. \A h : Lost(h) = {}
  BY DEF OwnInv, OwnLines, Lost, Lines
<1>6. ASSUME cmd.name # "USOCR"
      PROVE  /\ Owns(mtx) /\ Holds(handle[mtx], cmd.handle)
             /\ cmd.handle \in ModemHandles /\ modem[cmd.handle].open
             /\ Live(cmd.handle) /\ modem[cmd.handle].for = mtx
  <2>1. cmd.name # "none"
    BY <1>1 DEF AwaitedCommand, Waiting
  <2>2. Holds(handle[mtx], cmd.handle)
    BY <1>6, <2>1 DEF OwnInv, OwnCommand
  <2>3. Owns(mtx)
    BY <1>1, <1>3, <1>6 DEF Owns, At, Slots, NoSocket
  <2>4. cmd.handle \in ModemHandles
    BY <1>1, <2>2, <2>3 DEF OwnInv, OwnSlots, Holds
  <2>5. Live(cmd.handle)
    BY <1>1, <1>4, <1>5, <2>2 DEF Live, Held
  <2>6. modem[cmd.handle].open
    BY <2>4, <2>5 DEF TableInv, SocketInv, OpenIsKnown
  <2>7. modem[cmd.handle].for = mtx
    BY <1>1, <2>2, <2>3, <2>4, <2>6 DEF OwnInv, OwnSockets
  <2>8. QED
    BY <2>2, <2>3, <2>4, <2>5, <2>6, <2>7
<1>7. QED
  BY <1>1, <1>3, <1>4, <1>5, <1>6

\* A line is added while the driver stands still.
LEMMA OwnAppend ==
  ASSUME ChannelInv, OwnInv, NEW x \in LineItem, line' = Append(line, x),
         UNCHANGED <<sockets, handle, pc, mtx, call, ret>>,
         x.type \notin {"UUSOCL", "UUPSDD"}, x.type = "UUSORD" => x.n > 0,
         x.type = "ERROR" => At("open"), x.type = "OK" /\ At("recvRead") => x.n > 0
  PROVE  /\ OwnLines' /\ OwnSlots' /\ HasSize' /\ NoErrorYet'
         /\ \A l : At(l)' <=> At(l)
         /\ \A t \in Threads : Owns(t)' <=> Owns(t)
<1>1. /\ \A l : At(l)' <=> At(l)
      /\ \A t \in Threads : Owns(t)' <=> Owns(t)
  BY DEF At, Owns
<1>2. \A i \in 1..Len(line') : (i \in 1..Len(line) /\ line'[i] = line[i]) \/ line'[i] = x
  BY LineAppend DEF ChannelInv, TypeInv, TypeOK
<1>3. OwnLines'
  BY <1>1, <1>2 DEF OwnInv, OwnLines
<1>4. OwnSlots' /\ HasSize' /\ NoErrorYet'
  BY <1>1 DEF OwnInv, OwnSlots, HasSize, NoErrorYet
<1>5. QED
  BY <1>1, <1>3, <1>4

\* The modem refuses a command: USOCR, when it has no socket left.
LEMMA OwnRefuses ==
  ASSUME ChannelInv, TableInv, OwnInv, faults = 0, ModemRefuses
  PROVE  OwnInv'
<1> USE DEF threadVars, timeoutVars, driverVars
<1>1. /\ cmd # NoCommand /\ cmd' = NoCommand /\ CannotCarryOut
      /\ UNCHANGED <<sockets, handle, pc, mtx, call, ret, modem>>
      /\ line' = Append(line, Line("ERROR", cmd.handle, 0))
  BY DEF ModemRefuses
<1>2. At("open") /\ mtx \in Threads
  BY <1>1, OwnAsked DEF CannotCarryOut, IsOpen
<1>3. PICK x \in LineItem : line' = Append(line, x) /\ x.type = "ERROR"
  <2>1. Line("ERROR", cmd.handle, 0) \in LineItem
    BY <1>1, SizesAssumption DEF Line, LineItem, Answers, ChannelInv, TypeInv, TypeOK, Command
  <2>2. QED
    BY <1>1, <2>1 DEF Line
<1>4. /\ OwnLines' /\ OwnSlots' /\ HasSize' /\ NoErrorYet'
      /\ \A l : At(l)' <=> At(l)
      /\ \A t \in Threads : Owns(t)' <=> Owns(t)
  BY <1>1, <1>2, <1>3, OwnAppend
<1>5. \A h : /\ \A i \in News(h)' : i \in News(h)
             /\ Told(h)' = {}
  <2>1. line \in Seq(LineItem) /\ \A h : Told(h) = {}
    BY <1>1, OwnAsked DEF ChannelInv, TypeInv, TypeOK
  <2>2. \A h : \A i \in News(h)' : i \in News(h)
    BY <1>3, <2>1, NewsAppend
  <2>3. \A h : Told(h)' = {}
    BY <1>3, <2>1, ToldAppend
  <2>4. QED
    BY <2>2, <2>3
<1>6. OwnSockets'
  <2>1. \A h : ~Created(h)'
    BY <1>5 DEF Created
  <2>2. \A t \in Threads, h \in ModemHandles : Holds(handle[t], h)' <=> Holds(handle[t], h)
    BY <1>1 DEF Holds
  <2>3. QED
    BY <1>1, <1>4, <2>1, <2>2 DEF OwnInv, OwnSockets
<1>7. OwnCommand'
  BY <1>1 DEF OwnCommand, NoCommand
<1>8. NewsIsThere'
  <2>1. \A h : Reads(h) = {}
    BY <1>1, OwnAsked
  <2>2. QED
    BY <1>1, <1>5, <2>1 DEF OwnInv, NewsIsThere
<1>9. QED
  BY <1>4, <1>6, <1>7, <1>8 DEF OwnInv

\* What a command that is carried out does to the modem's sockets.
LEMMA OwnCarriedOut ==
  ASSUME ChannelInv, TableInv, OwnInv, cmd # NoCommand,
         NEW h0 \in ModemHandles, NEW n \in 0..MaxRx, CarryOut(h0, n)
  PROVE  /\ \A h \in ModemHandles : h # h0 => modem'[h] = modem[h]
         /\ cmd.name = "USOCR" => /\ ~modem[h0].open /\ modem'[h0].for = mtx /\ modem'[h0].open
                                  /\ ~Held(h0) /\ News(h0) = {}
         /\ cmd.name # "USOCR" =>
              /\ h0 = cmd.handle
              /\ \/ ~modem'[h0].open /\ modem'[h0].for = Nobody
                 \/ /\ modem'[h0].open /\ modem'[h0].for = modem[h0].for
                    /\ cmd.name # "USORD" => modem'[h0].rx = modem[h0].rx
         /\ cmd.name = "USORD" => n > 0
<1>1. modem \in [ModemHandles -> ModemSocket]
  BY DEF ChannelInv, TypeInv, TypeOK
<1>2. ASSUME cmd.name = "USOCR"
      PROVE  /\ ~modem[h0].open /\ modem'[h0].for = mtx /\ modem'[h0].open
             /\ ~Held(h0) /\ News(h0) = {}
             /\ \A h \in ModemHandles : h # h0 => modem'[h] = modem[h]
  <2>1. /\ ~modem[h0].open
        /\ modem' = [modem EXCEPT ![h0] = [open |-> TRUE, ready |-> cmd.n = 1, rx |-> 0, for |-> mtx]]
    BY <1>2 DEF CarryOut
  <2>2. modem'[h0].for = mtx /\ modem'[h0].open
    BY <1>1, <2>1
  <2>3. ~Live(h0) /\ Lost(h0) = {} /\ ~Closing(h0)
    BY <2>1, OwnAsked DEF TableInv, SocketInv, OpenIsKnown
  <2>4. ~Held(h0) /\ News(h0) = {}
    BY <2>3 DEF Live, TableInv, SocketInv, URCsInOrder
  <2>5. QED
    BY <1>1, <2>1, <2>2, <2>4
<1>3. ASSUME cmd.name # "USOCR"
      PROVE  /\ h0 = cmd.handle /\ \A h \in ModemHandles : h # h0 => modem'[h] = modem[h]
             /\ \/ ~modem'[h0].open /\ modem'[h0].for = Nobody
                \/ /\ modem'[h0].open /\ modem'[h0].for = modem[h0].for
                   /\ cmd.name # "USORD" => modem'[h0].rx = modem[h0].rx
  <2>1. h0 = cmd.handle /\ modem[h0].open
    BY <1>3 DEF CarryOut, IsOpen
  <2>2. \/ cmd.name = "USOCL" /\ modem' = [modem EXCEPT ![h0] = ClosedSocket]
        \/ cmd.name = "USOCTL" /\ UNCHANGED modem
        \/ cmd.name \in {"USOCO", "USOWR"} /\ modem' = [modem EXCEPT ![h0].ready = TRUE]
        \/ cmd.name = "USORD" /\ modem' = [modem EXCEPT ![h0].rx = @ - n]
    BY <1>3 DEF CarryOut
  <2>3. QED
    BY <1>1, <2>1, <2>2 DEF ClosedSocket, ModemSocket
<1>4. ASSUME cmd.name = "USORD"
      PROVE  n > 0
  <2>1. /\ handle[mtx] \in Slots /\ Holds(handle[mtx], h0) /\ Live(h0) /\ Reads(h0) = {}
        /\ modem[h0].open
    BY <1>3, <1>4, OwnAsked
  <2>2. modem[h0].rx # 0
    <3>1. CASE News(h0) = {}
      <4>1. PICK v \in Nat : v = sockets[handle[mtx]].pending /\ v > 0
        BY <1>4, <2>1, SlotTypes DEF OwnInv, OwnCommand, ChannelInv
      <4>2. Known(handle[mtx], h0, Len(line) + 1, v)
        BY <3>1, <4>1 DEF Known
      <4>3. modem[h0].rx = v
        BY <2>1, <4>1, <4>2 DEF TableInv, PendingInv, CountFits
      <4>4. QED
        BY <4>1, <4>3
    <3>2. CASE News(h0) # {}
      BY <2>1, <3>2 DEF OwnInv, NewsIsThere
    <3>3. QED
      BY <3>1, <3>2
  <2>3. n = 0 => modem[h0].rx = 0
    BY <1>4 DEF CarryOut
  <2>4. QED
    BY <2>2, <2>3, SizesAssumption
<1>5. QED
  BY <1>2, <1>3, <1>4

\* The modem carries a command out, and the answer arrives.
LEMMA OwnExecutes ==
  ASSUME ChannelInv, TableInv, OwnInv, faults = 0, ModemExecutes
  PROVE  OwnInv'
<1> USE DEF threadVars, timeoutVars, driverVars
<1>1. /\ cmd # NoCommand /\ cmd' = NoCommand
      /\ UNCHANGED <<sockets, handle, pc, mtx, call, ret>>
      /\ line \in Seq(LineItem)
  BY DEF ModemExecutes, ChannelInv, TypeInv, TypeOK
<1>2. PICK h0 \in ModemHandles, n \in 0..MaxRx : CarryOut(h0, n) /\ line' = Append(line, Line("OK", h0, n))
  BY DEF ModemExecutes
<1>3. PICK x \in LineItem : line' = Append(line, x) /\ x.type = "OK" /\ x.handle = h0 /\ x.n = n
  <2>1. Line("OK", h0, n) \in LineItem
    BY DEF Line, LineItem, Answers
  <2>2. QED
    BY <1>2, <2>1 DEF Line
<1>4. /\ mtx \in Threads /\ pc[mtx] \in Waiting /\ handle[mtx] \in Slots
      /\ At("open") <=> cmd.name = "USOCR"
      /\ At("recvRead") <=> cmd.name = "USORD"
      /\ \A h : Told(h) = {} /\ Reads(h) = {} /\ ~Created(h)
  BY <1>1, OwnAsked
<1>5. /\ \A h \in ModemHandles : h # h0 => modem'[h] = modem[h]
      /\ cmd.name = "USOCR" => /\ ~modem[h0].open /\ modem'[h0].for = mtx /\ modem'[h0].open
                               /\ ~Held(h0) /\ News(h0) = {}
      /\ cmd.name # "USOCR" =>
           \/ ~modem'[h0].open /\ modem'[h0].for = Nobody
           \/ /\ modem'[h0].open /\ modem'[h0].for = modem[h0].for
              /\ cmd.name # "USORD" => modem'[h0].rx = modem[h0].rx
      /\ cmd.name = "USORD" => n > 0
  BY <1>1, <1>2, OwnCarriedOut
<1>6. /\ OwnLines' /\ OwnSlots' /\ HasSize' /\ NoErrorYet'
      /\ \A l : At(l)' <=> At(l)
      /\ \A t \in Threads : Owns(t)' <=> Owns(t)
  BY <1>1, <1>3, <1>4, <1>5, OwnAppend
<1>7. /\ \A h : \A i \in News(h)' : i \in News(h) /\ i < Len(line) + 1
      /\ Len(line) + 1 \in Told(h0)'
      /\ \A h : h # h0 => Told(h)' = {}
  <2>1. \A h : \A i \in News(h)' : i \in News(h) /\ i < Len(line) + 1
    BY <1>1, <1>3, NewsAppend
  <2>2. Len(line) + 1 \in Told(h0)'
    BY <1>1, <1>3, ToldAppend
  <2>3. \A h : h # h0 => Told(h)' = {}
    BY <1>1, <1>3, <1>4, ToldAppend
  <2>4. QED
    BY <2>1, <2>2, <2>3
<1>8. OwnSockets'
  <2>1. SUFFICES ASSUME NEW h \in ModemHandles
                 PROVE  /\ \A t \in Threads : Owns(t) /\ Holds(handle[t], h) /\ modem'[h].open
                                                => modem'[h].for = t
                        /\ Created(h)' => modem'[h].for = mtx
                        /\ ~modem'[h].open => modem'[h].for = Nobody
    BY <1>1, <1>6 DEF OwnSockets, Holds
  <2>2. \A t \in Threads : Owns(t) => handle[t] \in Slots
    BY DEF Owns, ChannelInv, TypeInv, TypeOK
  <2>3. CASE h # h0
    BY <1>5, <1>7, <2>3 DEF OwnInv, OwnSockets, Created
  <2>4. CASE h = h0 /\ cmd.name = "USOCR"
    BY <1>5, <2>2, <2>4 DEF Held
  <2>5. CASE h = h0 /\ cmd.name # "USOCR"
    <3>1. modem[h0].open
      BY <1>2, <2>5 DEF CarryOut, IsOpen
    <3>2. ~Created(h)'
      BY <1>4, <1>6, <2>5 DEF Created
    <3>3. QED
      BY <1>5, <2>5, <3>1, <3>2 DEF OwnInv, OwnSockets
  <2>6. QED
    BY <2>3, <2>4, <2>5
<1>9. OwnCommand'
  BY <1>1 DEF OwnCommand, NoCommand
<1>10. NewsIsThere'
  <2>1. SUFFICES ASSUME NEW h \in ModemHandles, modem'[h].open, NEW i \in News(h)',
                        \A k \in Reads(h)' : k < i
                 PROVE  modem'[h].rx > 0
    BY DEF NewsIsThere
  <2>2. i \in News(h) /\ i < Len(line) + 1 /\ Reads(h) = {} /\ i \in Nat
    BY <1>1, <1>3, <1>4, <1>7, <2>1, NewsAppend
  <2>3. h = h0 => cmd.name # "USORD"
    <3>1. h = h0 /\ cmd.name = "USORD" => Len(line) + 1 \in Reads(h)'
      BY <1>4, <1>6, <1>7 DEF Reads
    <3>2. ~(Len(line) + 1 < i)
      BY <1>1, <2>2
    <3>3. QED
      BY <2>1, <3>1, <3>2
  <2>4. modem[h].open /\ modem'[h].rx = modem[h].rx
    <3>1. h = h0 /\ cmd.name # "USOCR" => modem[h].open
      BY <1>2 DEF CarryOut, IsOpen
    <3>2. QED
      BY <1>5, <2>1, <2>2, <2>3, <3>1
  <2>5. QED
    BY <2>2, <2>4 DEF OwnInv, NewsIsThere
<1>11. QED
  BY <1>6, <1>8, <1>9, <1>10 DEF OwnInv

\* Data arrives for a socket of the modem.
LEMMA OwnData ==
  ASSUME ChannelInv, OwnInv, NEW h0 \in ModemHandles, DataArrives(h0)
  PROVE  OwnInv'
<1> USE DEF threadVars, timeoutVars, driverVars
<1>1. /\ UNCHANGED <<sockets, handle, pc, mtx, call, ret, cmd>>
      /\ line \in Seq(LineItem) /\ modem \in [ModemHandles -> ModemSocket]
  BY DEF DataArrives, NetworkStep, ChannelInv, TypeInv, TypeOK
<1>2. PICK n \in modem[h0].rx + 1..MaxRx : /\ modem' = [modem EXCEPT ![h0].rx = n]
                                           /\ line' = Append(line, Line("UUSORD", h0, n))
  BY DEF DataArrives
<1>3. n \in 0..MaxRx /\ n > 0
  BY <1>1, <1>2, SizesAssumption DEF ModemSocket
<1>4. PICK x \in LineItem : /\ line' = Append(line, x)
                            /\ x.type = "UUSORD" /\ x.handle = h0 /\ x.n = n
  <2>1. Line("UUSORD", h0, n) \in LineItem
    BY <1>3 DEF Line, LineItem, URCs
  <2>2. QED
    BY <1>2, <2>1 DEF Line
<1>5. /\ OwnLines' /\ OwnSlots' /\ HasSize' /\ NoErrorYet'
      /\ \A l : At(l)' <=> At(l)
      /\ \A t \in Threads : Owns(t)' <=> Owns(t)
  BY <1>1, <1>3, <1>4, OwnAppend
<1>6. \A h \in ModemHandles : /\ modem'[h].open = modem[h].open /\ modem'[h].for = modem[h].for
                              /\ modem'[h].rx = IF h = h0 THEN n ELSE modem[h].rx
  BY <1>1, <1>2 DEF ModemSocket
<1>7. \A h : /\ \A i \in News(h)' : h # h0 => i \in News(h)
             /\ \A k \in Told(h) : k \in Told(h)'
             /\ \A k \in Told(h)' : k \in Told(h)
  <2>1. \A h : \A i \in News(h)' : h # h0 => i \in News(h)
    BY <1>1, <1>4, NewsAppend
  <2>2. \A h : \A k \in Told(h) : k \in Told(h)'
    BY <1>1, <1>4, ToldAppend
  <2>3. \A h : \A k \in Told(h)' : k \in Told(h)
    BY <1>1, <1>4, ToldAppend
  <2>4. QED
    BY <2>1, <2>2, <2>3
<1>8. OwnSockets'
  <2>1. \A h : Created(h)' => Created(h)
    BY <1>5, <1>7 DEF Created
  <2>2. \A t \in Threads, h \in ModemHandles : Holds(handle[t], h)' <=> Holds(handle[t], h)
    BY <1>1 DEF Holds
  <2>3. QED
    BY <1>1, <1>5, <1>6, <2>1, <2>2 DEF OwnInv, OwnSockets
<1>9. OwnCommand'
  BY <1>1 DEF OwnInv, OwnCommand, Holds
<1>10. NewsIsThere'
  <2>1. \A h : \A k \in Reads(h) : k \in Reads(h)'
    BY <1>5, <1>7 DEF Reads
  <2>2. QED
    BY <1>3, <1>6, <1>7, <2>1 DEF OwnInv, NewsIsThere
<1>11. QED
  BY <1>5, <1>8, <1>9, <1>10 DEF OwnInv

\* The lock holder reads a UUSORD, or calls the callback it found.
LEMMA OwnURC ==
  ASSUME ChannelInv, ChannelInv', TableInv, OwnInv, NEW a \in Actors, RunURC(a)
  PROVE  OwnInv'
<1> USE DEF threadVars, timeoutVars, modemVars, driverVars
<1>a. /\ line \in Seq(LineItem) /\ sockets \in [Slots -> SockCtrl]
      /\ \A t \in Threads : handle[t] # NoSocket => handle[t] \in Slots
  BY DEF ChannelInv, TypeInv, TypeOK
<1>1. CASE CallCallback(a)
  <2>1. /\ UNCHANGED <<handle, cmd, line, modem, sockets, pc, ret, call>>
    BY <1>1 DEF CallCallback
  <2>2. QED
    BY <2>1, OwnOutside DEF OwnInv, NoErrorYet
<1>2. CASE UUSORD_URC(a)
  <2>1. /\ line # << >> /\ line' = Tail(line) /\ Head(line).type = "UUSORD"
        /\ UNCHANGED <<pc, call, ret, mtx, handle, modem, cmd>>
    BY <1>2 DEF UUSORD_URC, HandleURC, Arrived
  <2>2. /\ Len(line') \in Nat /\ 1 \in 1..Len(line) /\ Head(line) = line[1]
        /\ \A i \in 1..Len(line') : i + 1 \in 1..Len(line) /\ line'[i] = line[i + 1]
    BY <1>a, <2>1, LineTail
  <2>3. Head(line).n > 0
    BY <2>1, <2>2 DEF OwnInv, OwnLines
  <2>4. \A s \in Slots : /\ sockets'[s].modem_handle = sockets[s].modem_handle
                         /\ sockets'[s].pending = sockets[s].pending \/ sockets'[s].pending = Head(line).n
    BY <1>a, <1>2 DEF UUSORD_URC, SockCtrl
  <2>5. /\ \A l : At(l)' <=> At(l)
        /\ \A t \in Threads : Owns(t)' <=> Owns(t)
        /\ \A t \in Threads, h \in ModemHandles : Owns(t) => (Holds(handle[t], h)' <=> Holds(handle[t], h))
    BY <1>a, <2>1, <2>4 DEF At, Owns, Holds
  <2>6. OwnSlots'
    BY <1>a, <2>1, <2>4, <2>5 DEF OwnInv, OwnSlots, Owns
  <2>7. OwnSockets'
    <3>1. \A h : Created(h)' => Created(h)
      <4>1. \A h : Told(h)' # {} => Told(h) # {}
        BY <1>a, <2>1, ToldTail
      <4>2. QED
        BY <2>5, <4>1 DEF Created
    <3>2. QED
      BY <2>1, <2>5, <3>1 DEF OwnInv, OwnSockets
  <2>8. OwnCommand'
    <3>1. cmd # NoCommand => handle[mtx] \in Slots
      BY InExchange
    <3>2. cmd = NoCommand => cmd.name = "none"
      BY DEF NoCommand
    <3>3. QED
      BY <2>1, <2>3, <2>4, <3>1, <3>2 DEF OwnInv, OwnCommand, Holds
  <2>9. OwnLines'
    BY <2>2, <2>5 DEF OwnInv, OwnLines
  <2>10. NewsIsThere'
    <3>1. SUFFICES ASSUME NEW h \in ModemHandles, modem[h].open, NEW i \in News(h)',
                          \A k \in Reads(h)' : k < i
                   PROVE  modem[h].rx > 0
      BY <2>1 DEF NewsIsThere
    <3>2. i \in Nat \ {0} /\ i + 1 \in News(h)
      BY <1>a, <2>1, NewsTail
    <3>3. \A k \in Reads(h) : k - 1 \in Reads(h)' /\ k \in Nat
      <4>1. \A k \in Reads(h) : k - 1 \in Reads(h)'
        BY <1>a, <2>1, ReadsTail
      <4>2. \A k \in Reads(h) : k \in Nat
        BY <1>a DEF Reads, Told, Lines
      <4>3. QED
        BY <4>1, <4>2
    <3>4. \A k \in Reads(h) : k < i + 1
      BY <3>1, <3>2, <3>3
    <3>5. QED
      BY <3>1, <3>2, <3>4 DEF OwnInv, NewsIsThere
  <2>11. HasSize' /\ NoErrorYet'
    BY <2>1 DEF OwnInv, HasSize, NoErrorYet
  <2>12. QED
    BY <2>6, <2>7, <2>8, <2>9, <2>10, <2>11 DEF OwnInv
<1>3. ~UUSOCL_URC(a) /\ ~UUPSDD_URC(a)
  <2>1. line # << >> => 1 \in 1..Len(line) /\ Head(line) = line[1]
    BY <1>a
  <2>2. QED
    BY <2>1 DEF UUSOCL_URC, UUPSDD_URC, HandleURC, Arrived, OwnInv, OwnLines
<1>4. QED
  BY <1>1, <1>2, <1>3 DEF RunURC

\* The calls an application begins, socket_bind() apart.
LEMMA OwnStart ==
  ASSUME ChannelInv, ChannelInv', TableInv, OwnInv, "bind" \notin Ops, NEW t \in Threads, StartCall(t)
  PROVE  OwnInv'
<1> USE DEF threadVars, timeoutVars, driverVars, modemVars
<1>a. /\ sockets \in [Slots -> SockCtrl] /\ pc \in [Actors -> PCs] /\ t \in Actors
      /\ {"open", "close", "connect"} \subseteq Waiting
      /\ handle \in [Threads -> Slots \cup {NoSocket}]
      /\ ret \in [Threads -> Results] /\ call \in [Threads -> CallState]
      /\ \A u \in Threads : ret[u] # "DEVICE_ERROR"
  BY DEF ChannelInv, TypeInv, TypeOK, Actors, Waiting, OwnInv, NoErrorYet
<1>1. CASE socket_open(t)
  <2>1. /\ mtx = Nobody /\ mtx' = t /\ Goto(t, "open") /\ UNCHANGED <<line, sockets, modem>>
        /\ cmd' = [name |-> "USOCR", handle |-> SOCKET_UNUSED, n |-> 0]
        /\ handle[t] = NoSocket
    BY <1>1 DEF socket_open, LOCK, Send
  <2>2. PICK s \in Slots : find_socket(s, SOCKET_UNUSED) /\ handle' = [handle EXCEPT ![t] = s]
    BY <1>1 DEF socket_open
  <2>3. /\ handle'[t] \in Slots /\ Holds(handle'[t], SOCKET_UNUSED)
        /\ \A u \in Threads : u # t => handle'[u] = handle[u]
    BY <1>a, <2>2 DEF find_socket, Holds
  <2>4. \A u \in Threads : ret'[u] # "DEVICE_ERROR" /\ (u # t => call'[u] = call[u])
    BY <1>a, <1>1 DEF socket_open, BeginCall
  <2>5. QED
    BY <1>a, <2>1, <2>3, <2>4, OwnAsk
<1>2. CASE socket_close(t) \/ socket_connect(t)
  <2>1. PICK l \in {"close", "connect"}, name \in {"USOCL", "USOCO"} :
          \E op : BeginExchange(t, op, name, l)
    BY <1>2 DEF socket_close, socket_connect
  <2>2. /\ mtx = Nobody /\ mtx' = t /\ Goto(t, l) /\ UNCHANGED <<line, sockets, modem, handle>>
        /\ cmd' = [name |-> name, handle |-> sockets[handle[t]].modem_handle, n |-> 0]
        /\ handle[t] # NoSocket /\ pc[t] = "idle"
    BY <2>1 DEF BeginExchange, BeginCall, LOCK, Send
  <2>3. \A u \in Threads : ret'[u] # "DEVICE_ERROR" /\ (u # t => call'[u] = call[u])
    BY <1>a, <2>1 DEF BeginExchange, BeginCall
  <2>4. QED
    BY <1>a, <2>1, <2>2, <2>3, OwnAsk
<1>3. ~socket_bind(t)
  BY DEF socket_bind, BeginExchange, BeginCall
<1>4. CASE OpenNoMemory(t) \/ socket_attach(t) \/ socket_send(t) \/ socket_recv(t)
  <2>1. /\ UNCHANGED <<handle, cmd, line, modem>>
        /\ \A u \in Threads : pc'[u] = pc[u] \/ (u = t /\ pc[u] = "idle"
                                                 /\ pc'[u] \in {"idle", "attach", "sendLoop", "recvLoop"})
    BY <1>4, <1>a DEF OpenNoMemory, socket_attach, socket_send, socket_recv, BeginCall, Return, Goto, Actors
  <2>2. \A s \in Slots : /\ sockets'[s].modem_handle = sockets[s].modem_handle
                         /\ sockets'[s].pending = sockets[s].pending
    <3>1. CASE UNCHANGED sockets
      BY <3>1
    <3>2. CASE socket_attach(t)
      BY <1>a, <3>2 DEF socket_attach, SockCtrl
    <3>3. QED
      BY <1>4, <3>1, <3>2 DEF OpenNoMemory, socket_send, socket_recv
  <2>3. \A u \in Threads : pc'[u] = pc[u] \/ (pc[u] \notin Waiting \cup {"bindType", "bindClose", "bindOpen"}
                                              /\ pc'[u] \notin Waiting)
    BY <2>1 DEF Waiting
  <2>4. \A u \in Threads : ret'[u] # "DEVICE_ERROR" /\ (pc[u] = "recvRead" => call'[u].size = call[u].size)
    BY <1>4, <1>a DEF OpenNoMemory, socket_attach, socket_send, socket_recv, BeginCall, Return
  <2>5. QED
    BY <2>1, <2>2, <2>3, <2>4, OwnOutside
<1>5. QED
  BY <1>1, <1>2, <1>3, <1>4 DEF StartCall

\* The steps inside a call that take the mutex.
LEMMA OwnTurn ==
  ASSUME ChannelInv, ChannelInv', TableInv, OwnInv, NEW t \in Threads, TakeTurn(t) \/ TimerExpires(t)
  PROVE  OwnInv'
<1> USE DEF threadVars, timeoutVars, driverVars, modemVars
<1>a. /\ pc \in [Actors -> PCs] /\ t \in Actors /\ {"sendWait", "recvRead"} \subseteq Waiting
      /\ ret \in [Threads -> Results] /\ call \in [Threads -> CallState]
      /\ \A u \in Threads : ret[u] # "DEVICE_ERROR"
      /\ pc[t] # "idle" => handle[t] \in Slots
  BY DEF ChannelInv, TypeInv, TypeOK, InCall, Actors, Waiting, OwnInv, NoErrorYet
<1>1. CASE SendBlock(t) \/ RecvRead(t)
  <2>1. PICK l \in {"sendWait", "recvRead"}, name \in {"USOWR", "USORD"}, max \in Nat \ {0} :
          /\ mtx = Nobody /\ mtx' = t /\ Goto(t, l) /\ UNCHANGED <<line, sockets, modem, handle, call, ret>>
          /\ cmd' = [name |-> name, handle |-> sockets[handle[t]].modem_handle,
                     n |-> AtMost(max, call[t].size)]
          /\ name = "USORD" => sockets[handle[t]].pending > 0
          /\ call[t].size > 0 /\ pc[t] \in {"sendLoop", "recvLoop"}
    BY <1>1, SizesAssumption DEF SendBlock, RecvRead, BeginTurn, LOCK, Send
  <2>2. AtMost(max, call[t].size) > 0
    BY <2>1 DEF AtMost
  <2>3. handle[t] \in Slots /\ handle[t] # NoSocket
    BY <1>a, <2>1 DEF Slots, NoSocket
  <2>4. l # "open" /\ cmd'.handle = sockets[handle[t]].modem_handle /\ cmd'.name = name /\ cmd'.n > 0
    BY <2>1, <2>2
  <2>5. QED
    BY <1>a, <2>1, <2>3, <2>4, OwnAsk
<1>2. CASE RecvWait(t) \/ RecvReturns(t) \/ TimerExpires(t)
  <2>1. /\ UNCHANGED <<handle, cmd, line, modem, sockets>>
        /\ \A u \in Threads : pc'[u] = pc[u] \/ (u = t /\ pc[u] = "recvLoop" /\ pc'[u] \in {"idle", "recvWait"})
    BY <1>2, <1>a DEF RecvWait, RecvReturns, TimerExpires, BeginTurn, Return, Goto, Actors
  <2>2. \A u \in Threads : pc'[u] = pc[u] \/ (pc[u] \notin Waiting \cup {"bindType", "bindClose", "bindOpen"}
                                              /\ pc'[u] \notin Waiting)
    BY <2>1 DEF Waiting
  <2>3. \A u \in Threads : ret'[u] # "DEVICE_ERROR" /\ (pc[u] = "recvRead" => call'[u].size = call[u].size)
    <3>1. CASE RecvWait(t)
      BY <1>a, <3>1 DEF RecvWait, BeginTurn
    <3>2. CASE RecvReturns(t)
      BY <1>a, <3>2 DEF RecvReturns, Return
    <3>3. CASE TimerExpires(t)
      BY <1>a, <3>3 DEF TimerExpires, CallState
    <3>4. QED
      BY <1>2, <3>1, <3>2, <3>3
  <2>4. QED
    BY <2>1, <2>2, <2>3, OwnOutside
<1>3. QED
  BY <1>1, <1>2 DEF TakeTurn

\* Every step of a program that does not bind, on a network that only
\* delivers and a line that loses nothing.
LEMMA OwnStep ==
  ASSUME ChannelInv, ChannelInv', "bind" \notin Ops, NetEvents \subseteq {"data"}, faults = 0,
         TableInv, OwnInv, [Next]_vars
  PROVE  OwnInv'
<1>1. CASE UNCHANGED vars \/ EventBegin \/ EventEnd
  <2>1. UNCHANGED <<handle, cmd, line, modem, sockets, ret, call>>
    BY <1>1 DEF vars, EventBegin, EventEnd, driverVars, threadVars, timeoutVars, modemVars
  <2>2. \A t \in Threads : pc'[t] = pc[t]
    BY <1>1, ThreadsAssumption
    DEF vars, EventBegin, EventEnd, threadVars, Goto, ChannelInv, TypeInv, TypeOK, Actors
  <2>3. QED
    BY <2>1, <2>2, OwnOutside DEF OwnInv, NoErrorYet
<1>2. \A h \in ModemHandles : ~RemoteCloses(h) /\ ~ContextLost(h)
  BY DEF RemoteCloses, ContextLost
<1>3. QED
  BY <1>1, <1>2, OwnURC, OwnStart, OwnContinue, OwnTurn, OwnExecutes, OwnRefuses, OwnData DEF Next

\* Hence, without faults, the invariant always holds.
LEMMA OwnAlways ==
  ASSUME "bind" \notin Ops, NetEvents \subseteq {"data"}, MaxFaults = 0
  PROVE  Spec => [](OwnInv /\ TableInv /\ ChannelInv)
<1>1. FaultlessInv /\ TypeInv => TableInv /\ faults = 0
  BY DEF FaultlessInv, TypeInv, TypeOK
<1>2. ChannelInv => TypeInv
  BY DEF ChannelInv
<1>3. FaultlessInv /\ ChannelInv /\ FaultlessInv' /\ ChannelInv' /\ OwnInv /\ [Next]_vars => OwnInv'
  BY <1>1, <1>2, OwnStep
<1>4. QED
  BY <1>1, <1>2, <1>3, OwnInit, TableAlways, PTL DEF Spec

\* NoSpuriousError: without faults, on a network that only delivers data, no
\* call of a program that does not bind reports a device error.
THEOREM NoErrorIsSpurious ==
  ASSUME "bind" \notin Ops
  PROVE  Spec => []NoSpuriousError
<1>1. CASE MaxFaults = 0 /\ NetEvents \subseteq {"data"}
  <2>1. OwnInv => NoSpuriousError
    BY DEF OwnInv, NoErrorYet, NoSpuriousError
  <2>2. Spec => []OwnInv
    BY <1>1, OwnAlways, PTL
  <2>3. QED
    BY <2>1, <2>2, PTL
<1>2. CASE ~(MaxFaults = 0 /\ NetEvents \subseteq {"data"})
  <2>1. NoSpuriousError
    BY <1>2 DEF NoSpuriousError
  <2>2. QED
    BY <2>1, PTL
<1>3. QED
  BY <1>1, <1>2

\* OnlyOwnSocket: under these conditions a thread's command never changes a
\* modem socket that another thread has opened.
THEOREM SocketsAreOwn ==
  ASSUME "bind" \notin Ops, NetEvents \subseteq {"data"}, MaxFaults = 0
  PROVE  Spec => OnlyOwnSocket
<1> DEFINE Own == cmd # NoCommand /\ cmd' = NoCommand =>
             \A h \in ModemHandles : modem'[h] # modem[h] => modem[h].for \in {mtx, Nobody}
<1>1. ASSUME OwnInv, TableInv, ChannelInv, Next, cmd # NoCommand, cmd' = NoCommand,
             NEW h \in ModemHandles, modem'[h] # modem[h]
      PROVE  modem[h].for \in {mtx, Nobody}
  <2>1. ModemExecutes
    <3>1. ASSUME NEW a \in Actors, RunURC(a)
          PROVE  UNCHANGED modem
      BY <3>1 DEF RunURC, UUSORD_URC, CallCallback, UUSOCL_URC, UUPSDD_URC, HandleURC, modemVars
    <3>2. ASSUME EventBegin \/ EventEnd \/ ModemRefuses
          PROVE  UNCHANGED modem
      BY <3>2 DEF EventBegin, EventEnd, ModemRefuses, modemVars
    <3>3. ASSUME NEW t \in Threads, StartCall(t)
          PROVE  UNCHANGED modem
      BY <3>3
      DEF StartCall, socket_open, OpenNoMemory, socket_close, socket_bind, socket_connect,
          BeginExchange, socket_attach, socket_send, socket_recv, modemVars
    <3>4. ASSUME NEW t \in Threads, ContinueCall(t)
          PROVE  UNCHANGED modem
      BY <3>4
      DEF ContinueCall, OpenCreated, OpenFails, CloseDone, CloseFails, BindTypeKnown, BindClosed,
          BindDone, BindFails, ConnectEnds, AttachData, SendBlockDone, SendFails, SendReturns,
          RecvGotData, RecvCutShort, RecvFails, RecvWaited, EndExchange, EndTurn, modemVars
    <3>5. ASSUME NEW t \in Threads, TakeTurn(t) \/ TimerExpires(t)
          PROVE  UNCHANGED modem
      BY <3>5
      DEF TakeTurn, SendBlock, RecvRead, RecvWait, BeginTurn, RecvReturns, TimerExpires, modemVars
    <3>6. ASSUME NEW g \in ModemHandles, DataArrives(g) \/ RemoteCloses(g) \/ ContextLost(g)
          PROVE  UNCHANGED cmd
      BY <3>6 DEF DataArrives, RemoteCloses, ContextLost, NetworkStep
    <3>7. QED
      BY <1>1, <3>1, <3>2, <3>3, <3>4, <3>5, <3>6 DEF Next
  <2>2. PICK h0 \in ModemHandles, n \in 0..MaxRx : CarryOut(h0, n)
    BY <2>1 DEF ModemExecutes
  <2>3. h = h0
    BY <1>1, <2>2, OwnCarriedOut
  <2>4. CASE cmd.name = "USOCR"
    BY <1>1, <2>2, <2>3, <2>4, OwnCarriedOut DEF OwnInv, OwnSockets
  <2>5. CASE cmd.name # "USOCR"
    BY <1>1, <2>2, <2>3, <2>5, OwnCarriedOut, OwnAsked
  <2>6. QED
    BY <2>4, <2>5
<1>2. OwnInv /\ TableInv /\ ChannelInv /\ [Next]_vars => [Own]_vars
  BY <1>1
<1>3. Spec => [][Own]_vars
  BY <1>2, OwnAlways, PTL DEF Spec
<1>4. QED
  BY <1>3 DEF OnlyOwnSocket
================================================================================
