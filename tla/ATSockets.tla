------------------------------- MODULE ATSockets -------------------------------
(***************************************************************************)
(* The sockets of ublox-at-cellular-interface/UbloxATCellularInterface.cpp:*)
(* application threads that call the NetworkStack methods, the driver's    *)
(* event thread, and the modem at the other end of the serial line.        *)
(*                                                                         *)
(* All of them talk through one AT channel guarded by one mutex.  Whoever  *)
(* waits in _at->recv() runs the URC handlers for the lines that arrive    *)
(* before the line it waits for, so any thread can change the state of any *)
(* socket.  socket_attach() alone takes no lock.                           *)
(*                                                                         *)
(* An exchange (_at->send() and the _at->recv()s after it) is three steps: *)
(* the thread sends, the modem answers, the thread reads the answer.  Bytes*)
(* are counted, not carried.  The modem is external: it answers commands   *)
(* one at a time and in order with the URCs it emits, hands out any free   *)
(* handle, and may refuse a command or have its answer lost (MaxFaults).   *)
(***************************************************************************)
EXTENDS Integers, Sequences

CONSTANTS
  Threads,       \* application threads
  EventThread,   \* the thread running handle_event()
  Nobody,        \* the mutex is free
  NumSockets,    \* slots in _sockets (7 in the code)
  ModemHandles,  \* handles the modem can give to a socket
  MaxRead,       \* MAX_READ_SIZE
  MaxWrite,      \* MAX_WRITE_SIZE
  MaxSize,       \* bound: largest size an application passes
  MaxRx,         \* bound: bytes the modem buffers for a socket
  MaxLine,       \* bound: lines on the serial line when a URC is added
  MaxFaults,     \* bound: commands refused or answers lost
  PendingMod,    \* 2^width of nsapi_size_t
  Ops,           \* the calls the application makes
  NetEvents      \* what the network does: "data", "close", "context"

ASSUME ThreadsAssumption ==
  /\ EventThread \notin Threads
  /\ Nobody \notin Threads \cup {EventThread}

ASSUME SizesAssumption ==
  /\ NumSockets \in Nat \ {0}
  /\ ModemHandles \subseteq Nat
  /\ MaxRead \in Nat \ {0}
  /\ MaxWrite \in Nat \ {0}
  /\ MaxSize \in Nat \ {0}
  /\ MaxRx \in Nat
  /\ MaxLine \in Nat
  /\ MaxFaults \in Nat
  /\ PendingMod \in Nat \ {0}
  /\ MaxRx < PendingMod

VARIABLES
  sockets,      \* _sockets: the driver's socket table
  handle,       \* per thread: the slot its application socket refers to
  savedSocket,  \* per thread: the local of that name in socket_bind()
  mtx,          \* _mtx: its owner
  at_timeout,   \* _at_timeout
  saved,        \* per thread: the local at_timeout it will restore
  pc,           \* per thread: where it is
  call,         \* per thread: what is left of the call it is in
  ret,          \* per thread: what its last call returned
  calling,      \* the slot whose callback the lock holder is about to call
  cmd,          \* the command the modem has not answered
  line,         \* lines the modem has sent and nobody has read
  modem,        \* the modem's sockets
  faults,       \* refusals and losses that may still happen
  notified      \* _connection_status_cb(NSAPI_ERROR_CONNECTION_LOST) was called

driverVars == <<sockets, handle, savedSocket, calling>>
threadVars == <<pc, call, ret>>
timeoutVars == <<at_timeout, saved>>
modemVars == <<cmd, line, modem, faults>>
vars == <<driverVars, threadVars, timeoutVars, modemVars, mtx, notified>>

Actors == Threads \cup {EventThread}
Slots == 0..NumSockets - 1
NoSocket == -1             \* a NULL SockCtrl pointer
SOCKET_UNUSED == -1

AtDefault == 8000          \* AT_PARSER_TIMEOUT
UrcPoll == 10              \* set by handle_event()
SocketWait == 1000         \* set by socket_recv() and socket_recvfrom()
Timeouts == {AtDefault, UrcPoll, SocketWait}

UnusedSocket ==
  [modem_handle |-> SOCKET_UNUSED, pending |-> 0, callback |-> FALSE, data |-> FALSE]

NoCall == [op |-> "none", size |-> 0, count |-> 0, expired |-> FALSE]
NoCommand == [name |-> "none", handle |-> SOCKET_UNUSED, n |-> 0]
ClosedSocket == [open |-> FALSE, ready |-> FALSE, rx |-> 0, for |-> Nobody]

AtMost(a, b) == IF a < b THEN a ELSE b

(***************************************************************************)
(* The socket table.                                                       *)
(***************************************************************************)

\* s is the slot find_socket(h) returns: the first one that holds h.
find_socket(s, h) ==
  /\ sockets[s].modem_handle = h
  /\ \A r \in Slots : r < s => sockets[r].modem_handle # h

\* find_socket(h) returns NULL.
NotFound(h) == \A s \in Slots : sockets[s].modem_handle # h

clear_socket(s) == sockets' = [sockets EXCEPT ![s] = UnusedSocket]

(***************************************************************************)
(* The mutex and the AT channel.                                           *)
(***************************************************************************)

LOCK(a) == mtx = Nobody /\ mtx' = a
UNLOCK(a) == mtx = a /\ mtx' = Nobody

Goto(a, l) == pc' = [pc EXCEPT ![a] = l]

\* The thread inside a call returns r to its application.
Return(t, r) ==
  /\ Goto(t, "idle")
  /\ ret' = [ret EXCEPT ![t] = r]
  /\ call' = [call EXCEPT ![t] = NoCall]

\* _at->send()
Send(name, h, n) == cmd' = [name |-> name, handle |-> h, n |-> n]

\* The lock holder a is in _at->recv() at l and free to look at the line.
Receiving(a, l) == pc[a] = l /\ mtx = a /\ calling = NoSocket

Arrived(type) == line # << >> /\ Head(line).type = type

\* _at->recv() returned true: the answer arrived.
GotOK(t, l) == Receiving(t, l) /\ Arrived("OK") /\ line' = Tail(line)

\* _at->recv() returned false: the modem refused, or nothing came in time.
GotNothing(t, l) ==
  /\ Receiving(t, l)
  /\ \/ Arrived("ERROR") /\ line' = Tail(line)
     \/ cmd = NoCommand /\ line = << >> /\ line' = line

(***************************************************************************)
(* URC handlers, run by the lock holder inside _at->recv().                *)
(***************************************************************************)

HandleURC(a, type) ==
  /\ mtx = a
  /\ calling = NoSocket
  /\ Arrived(type)
  /\ line' = Tail(line)
  /\ UNCHANGED <<handle, savedSocket, threadVars, timeoutVars, mtx, cmd, modem, faults>>

\* Mutants: the URC's total added to pending (as NSONMI_URC() of the N2xx
\* driver adds its length), and taken for a mere flag.
UUSORD_Adds(a) ==
  /\ HandleURC(a, "UUSORD")
  /\ \E s \in Slots :
       /\ find_socket(s, Head(line).handle)
       /\ sockets' = [sockets EXCEPT ![s].pending = (@ + Head(line).n) % PendingMod]
  /\ UNCHANGED <<calling, notified>>

UUSORD_Flags(a) ==
  /\ HandleURC(a, "UUSORD")
  /\ \E s \in Slots :
       find_socket(s, Head(line).handle) /\ sockets' = [sockets EXCEPT ![s].pending = 1]
  /\ UNCHANGED <<calling, notified>>

\* UUSORD_URC() and UUSORF_URC(): the callback is tested here and called,
\* with the data pointer of that moment, in CallCallback.
UUSORD_URC(a) ==
  /\ HandleURC(a, "UUSORD")
  /\ \/ \E s \in Slots :
          /\ find_socket(s, Head(line).handle)
          /\ sockets' = [sockets EXCEPT ![s].pending = Head(line).n]
          /\ calling' = IF sockets[s].callback THEN s ELSE NoSocket
     \/ NotFound(Head(line).handle) /\ UNCHANGED <<sockets, calling>>
  /\ UNCHANGED notified

CallCallback(a) ==
  /\ mtx = a
  /\ calling # NoSocket
  /\ calling' = NoSocket
  /\ UNCHANGED <<sockets, handle, savedSocket, threadVars, timeoutVars,
                 modemVars, mtx, notified>>

\* Mutant: the slot of the closed socket is left as it is.
ClearNothing(h) == UNCHANGED sockets

ClearByHandle(h) ==
  \/ \E s \in Slots : find_socket(s, h) /\ clear_socket(s)
  \/ NotFound(h) /\ UNCHANGED sockets

UUSOCL_URC(a) ==
  /\ HandleURC(a, "UUSOCL")
  /\ ClearByHandle(Head(line).handle)
  /\ UNCHANGED <<calling, notified>>

\* Mutant: the copy of UUSOCL_URC() without the call of _connection_status_cb.
UUPSDD_Silent(a) ==
  /\ HandleURC(a, "UUPSDD")
  /\ ClearByHandle(Head(line).handle)
  /\ UNCHANGED <<calling, notified>>

UUPSDD_URC(a) ==
  /\ HandleURC(a, "UUPSDD")
  /\ ClearByHandle(Head(line).handle)
  /\ notified' = TRUE
  /\ UNCHANGED calling

(***************************************************************************)
(* handle_event(): the event thread polls the line, then lets the URCs run *)
(* under a short timeout.                                                  *)
(***************************************************************************)

EventBegin ==
  /\ pc[EventThread] = "poll"
  /\ line # << >>
  /\ LOCK(EventThread)
  /\ saved' = [saved EXCEPT ![EventThread] = at_timeout]
  /\ at_timeout' = UrcPoll
  /\ Goto(EventThread, "urcs")
  /\ UNCHANGED <<driverVars, call, ret, modemVars, notified>>

EventEnd ==
  /\ Receiving(EventThread, "urcs")
  /\ line = << >>
  /\ at_timeout' = saved[EventThread]
  /\ UNLOCK(EventThread)
  /\ Goto(EventThread, "poll")
  /\ UNCHANGED <<driverVars, call, ret, saved, modemVars, notified>>

(***************************************************************************)
(* Calls of the application.  BeginCall is the entry of one; an exchange   *)
(* then ends in an action for the answer and one for its absence.          *)
(***************************************************************************)

BeginCall(t, op, n) ==
  /\ op \in Ops
  /\ pc[t] = "idle"
  /\ call' = [call EXCEPT ![t] = [op |-> op, size |-> n, count |-> 0, expired |-> FALSE]]
  /\ ret' = [ret EXCEPT ![t] = "none"]

\* A call that locks, sends one command for the thread's socket and waits.
BeginExchange(t, op, name, l) ==
  /\ handle[t] # NoSocket
  /\ BeginCall(t, op, 0)
  /\ LOCK(t)
  /\ Send(name, sockets[handle[t]].modem_handle, 0)
  /\ Goto(t, l)
  /\ UNCHANGED <<driverVars, timeoutVars, line, modem, faults, notified>>

EndExchange(t, r) ==
  /\ Return(t, r)
  /\ UNLOCK(t)
  /\ UNCHANGED <<savedSocket, calling, timeoutVars, cmd, modem, faults, notified>>

\* Mutant: the slot is taken without looking whether it is unused.
OpenFirstSlot(t) ==
  /\ handle[t] = NoSocket
  /\ BeginCall(t, "open", 0)
  /\ LOCK(t)
  /\ handle' = [handle EXCEPT ![t] = 0]
  /\ Send("USOCR", SOCKET_UNUSED, 0)
  /\ Goto(t, "open")
  /\ UNCHANGED <<sockets, savedSocket, calling, timeoutVars, line, modem, faults, notified>>

\* Mutant: the lock covers the search for a slot only.
OpenUnlocked(t) ==
  /\ handle[t] = NoSocket
  /\ BeginCall(t, "open", 0)
  /\ mtx = Nobody
  /\ \E s \in Slots : find_socket(s, SOCKET_UNUSED) /\ handle' = [handle EXCEPT ![t] = s]
  /\ Send("USOCR", SOCKET_UNUSED, 0)
  /\ Goto(t, "open")
  /\ UNCHANGED <<sockets, savedSocket, calling, timeoutVars, mtx, line, modem, faults, notified>>

\* socket_open(): handle[t] is the free slot while the modem creates the
\* socket, and the application's handle once the call has returned OK.
socket_open(t) ==
  /\ handle[t] = NoSocket
  /\ BeginCall(t, "open", 0)
  /\ LOCK(t)
  /\ \E s \in Slots : find_socket(s, SOCKET_UNUSED) /\ handle' = [handle EXCEPT ![t] = s]
  /\ Send("USOCR", SOCKET_UNUSED, 0)
  /\ Goto(t, "open")
  /\ UNCHANGED <<sockets, savedSocket, calling, timeoutVars, line, modem, faults, notified>>

OpenNoMemory(t) ==
  /\ "open" \in Ops
  /\ pc[t] = "idle"
  /\ handle[t] = NoSocket
  /\ mtx = Nobody
  /\ NotFound(SOCKET_UNUSED)
  /\ Return(t, "NO_MEMORY")
  /\ UNCHANGED <<driverVars, timeoutVars, modemVars, mtx, notified>>

OpenCreated(t) ==
  /\ GotOK(t, "open")
  /\ sockets' = [sockets EXCEPT ![handle[t]] =
                   [UnusedSocket EXCEPT !.modem_handle = Head(line).handle]]
  /\ EndExchange(t, "OK")
  /\ UNCHANGED handle

OpenFails(t) ==
  /\ GotNothing(t, "open")
  /\ handle' = [handle EXCEPT ![t] = NoSocket]
  /\ EndExchange(t, "NO_SOCKET")
  /\ UNCHANGED sockets

\* socket_close().  The socket layer above drops its handle whatever the
\* call returns.
socket_close(t) == BeginExchange(t, "close", "USOCL", "close")

\* Mutant: clear_socket() is forgotten.
CloseKeepsSlot(t) ==
  /\ GotOK(t, "close")
  /\ handle' = [handle EXCEPT ![t] = NoSocket]
  /\ EndExchange(t, "OK")
  /\ UNCHANGED sockets

CloseDone(t) ==
  /\ GotOK(t, "close")
  /\ clear_socket(handle[t])
  /\ handle' = [handle EXCEPT ![t] = NoSocket]
  /\ EndExchange(t, "OK")

CloseFails(t) ==
  /\ GotNothing(t, "close")
  /\ handle' = [handle EXCEPT ![t] = NoSocket]
  /\ EndExchange(t, "DEVICE_ERROR")
  /\ UNCHANGED sockets

\* socket_bind(): query the protocol, close the modem's socket, create one
\* bound to the port and put the saved slot back.
socket_bind(t) == BeginExchange(t, "bind", "USOCTL", "bindType")

BindTypeKnown(t) ==
  /\ GotOK(t, "bindType")
  /\ savedSocket' = [savedSocket EXCEPT ![t] = sockets[handle[t]]]
  /\ Send("USOCL", sockets[handle[t]].modem_handle, 0)
  /\ Goto(t, "bindClose")
  /\ UNCHANGED <<sockets, handle, calling, call, ret, timeoutVars, mtx, modem, faults, notified>>

BindClosed(t) ==
  /\ GotOK(t, "bindClose")
  /\ clear_socket(handle[t])
  /\ Send("USOCR", SOCKET_UNUSED, 1)
  /\ Goto(t, "bindOpen")
  /\ UNCHANGED <<handle, savedSocket, calling, call, ret, timeoutVars, mtx, modem, faults,
                 notified>>

BindDone(t) ==
  /\ GotOK(t, "bindOpen")
  /\ sockets' = [sockets EXCEPT ![handle[t]] = savedSocket[t]]
  /\ EndExchange(t, "OK")
  /\ UNCHANGED handle

BindFails(t) ==
  /\ \/ GotNothing(t, "bindType") /\ EndExchange(t, "NO_SOCKET")
     \/ GotNothing(t, "bindClose") /\ EndExchange(t, "DEVICE_ERROR")
     \/ GotNothing(t, "bindOpen") /\ EndExchange(t, "CONNECTION_LOST")
  /\ UNCHANGED <<sockets, handle>>

socket_connect(t) == BeginExchange(t, "connect", "USOCO", "connect")

ConnectEnds(t) ==
  /\ \/ GotOK(t, "connect") /\ EndExchange(t, "OK")
     \/ GotNothing(t, "connect") /\ EndExchange(t, "DEVICE_ERROR")
  /\ UNCHANGED <<sockets, handle>>

\* socket_attach(): two stores and no lock.  "detach" passes NULL for both.
socket_attach(t) ==
  \E op \in {"attach", "detach"} :
    /\ handle[t] # NoSocket
    /\ BeginCall(t, op, 0)
    /\ sockets' = [sockets EXCEPT ![handle[t]].callback = (op = "attach")]
    /\ Goto(t, "attach")
    /\ UNCHANGED <<handle, savedSocket, calling, timeoutVars, modemVars, mtx, notified>>

AttachData(t) ==
  /\ pc[t] = "attach"
  /\ sockets' = [sockets EXCEPT ![handle[t]].data = (call[t].op = "attach")]
  /\ Return(t, "OK")
  /\ UNCHANGED <<handle, savedSocket, calling, timeoutVars, modemVars, mtx, notified>>

\* socket_send() and socket_sendto(): a block per turn of the loop, each
\* with the lock taken and released.  count is what the modem acknowledged.
socket_send(t) ==
  \E n \in 1..MaxSize :
    /\ handle[t] # NoSocket
    /\ BeginCall(t, "send", n)
    /\ Goto(t, "sendLoop")
    /\ UNCHANGED <<driverVars, timeoutVars, modemVars, mtx, notified>>

\* Mutant: the block is sent before the lock is taken.
SendUnlocked(t) ==
  /\ pc[t] = "sendLoop"
  /\ call[t].size > 0
  /\ mtx = Nobody
  /\ Send("USOWR", sockets[handle[t]].modem_handle, AtMost(MaxWrite, call[t].size))
  /\ Goto(t, "sendWait")
  /\ UNCHANGED <<driverVars, call, ret, timeoutVars, mtx, line, modem, faults, notified>>

SendBlock(t) ==
  /\ pc[t] = "sendLoop"
  /\ call[t].size > 0
  /\ LOCK(t)
  /\ Send("USOWR", sockets[handle[t]].modem_handle, AtMost(MaxWrite, call[t].size))
  /\ Goto(t, "sendWait")
  /\ UNCHANGED <<driverVars, call, ret, timeoutVars, line, modem, faults, notified>>

\* Mutant: blk is not cut down to what is left to send.
SendWholeBlocks(t) ==
  /\ GotOK(t, "sendWait")
  /\ call' = [call EXCEPT ![t].size = @ - MaxWrite, ![t].count = @ + MaxWrite]
  /\ Goto(t, "sendLoop")
  /\ UNLOCK(t)
  /\ UNCHANGED <<driverVars, ret, timeoutVars, cmd, modem, faults, notified>>

SendBlockDone(t) ==
  /\ GotOK(t, "sendWait")
  /\ LET blk == AtMost(MaxWrite, call[t].size)
     IN  call' = [call EXCEPT ![t].size = @ - blk, ![t].count = @ + blk]
  /\ Goto(t, "sendLoop")
  /\ UNLOCK(t)
  /\ UNCHANGED <<driverVars, ret, timeoutVars, cmd, modem, faults, notified>>

SendFails(t) ==
  /\ GotNothing(t, "sendWait")
  /\ EndExchange(t, "DEVICE_ERROR")
  /\ UNCHANGED <<sockets, handle>>

SendReturns(t) ==
  /\ pc[t] = "sendLoop"
  /\ call[t].size = 0
  /\ Return(t, "OK")
  /\ UNCHANGED <<driverVars, timeoutVars, modemVars, mtx, notified>>

(***************************************************************************)
(* socket_recv() and socket_recvfrom(): each turn of the loop takes the    *)
(* lock, sets its own timeout, and then reads, waits for URCs or gives up; *)
(* at_set_timeout(at_timeout) and UNLOCK() end every turn.                 *)
(***************************************************************************)

socket_recv(t) ==
  \E n \in 1..MaxSize, op \in {"recv", "recvfrom"} :
    /\ handle[t] # NoSocket
    /\ BeginCall(t, op, n)
    /\ Goto(t, "recvLoop")
    /\ UNCHANGED <<driverVars, timeoutVars, modemVars, mtx, notified>>

BeginTurn(t) ==
  /\ pc[t] = "recvLoop"
  /\ call[t].size > 0
  /\ LOCK(t)
  /\ saved' = [saved EXCEPT ![t] = at_timeout]
  /\ at_timeout' = SocketWait
  /\ UNCHANGED <<driverVars, call, ret, line, modem, faults, notified>>

\* Mutant: pending >= 0.
RecvReadNothing(t) ==
  /\ BeginTurn(t)
  /\ sockets[handle[t]].pending >= 0
  /\ Send("USORD", sockets[handle[t]].modem_handle, AtMost(MaxRead, call[t].size))
  /\ Goto(t, "recvRead")

RecvRead(t) ==
  /\ BeginTurn(t)
  /\ sockets[handle[t]].pending > 0
  /\ Send("USORD", sockets[handle[t]].modem_handle, AtMost(MaxRead, call[t].size))
  /\ Goto(t, "recvRead")

RecvWait(t) ==
  /\ BeginTurn(t)
  /\ sockets[handle[t]].pending = 0
  /\ ~call[t].expired
  /\ Goto(t, "recvWait")
  /\ UNCHANGED cmd

EndTurn(t) ==
  /\ at_timeout' = saved[t]
  /\ UNLOCK(t)
  /\ UNCHANGED <<handle, savedSocket, calling, saved, cmd, modem, faults, notified>>

\* The answer's length is subtracted from pending before the data is read.
\* A datagram shorter than asked for, or as long as can be, ends recvfrom.
RecvGotData(t) ==
  /\ GotOK(t, "recvRead")
  /\ LET got == Head(line).n
         size == call[t].size
         blk == AtMost(MaxRead, size)
         n == AtMost(got, size)
         whole == call[t].op = "recvfrom" /\ (n < blk \/ n = MaxRead)
     IN /\ sockets' = [sockets EXCEPT ![handle[t]].pending = (@ - got) % PendingMod]
        /\ \/ /\ n > 0
              /\ Goto(t, "recvLoop")
              /\ call' = [call EXCEPT ![t].size = IF whole THEN 0 ELSE @ - n,
                                      ![t].count = @ + n]
              /\ UNCHANGED ret
           \/ n = 0 /\ Return(t, "DEVICE_ERROR")
  /\ EndTurn(t)

\* The data behind the length never comes: read() fails.
RecvCutShort(t) ==
  /\ Receiving(t, "recvRead")
  /\ Arrived("CUT")
  /\ line' = Tail(line)
  /\ sockets' = [sockets EXCEPT ![handle[t]].pending = (@ - Head(line).n) % PendingMod]
  /\ Return(t, "DEVICE_ERROR")
  /\ EndTurn(t)

\* Mutant: a return between LOCK() and UNLOCK() that skips at_set_timeout().
RecvFailsEarly(t) ==
  /\ GotNothing(t, "recvRead")
  /\ Return(t, "DEVICE_ERROR")
  /\ UNLOCK(t)
  /\ UNCHANGED <<sockets, handle, savedSocket, calling, timeoutVars, cmd, modem, faults, notified>>

RecvFails(t) ==
  /\ GotNothing(t, "recvRead")
  /\ Return(t, "DEVICE_ERROR")
  /\ EndTurn(t)
  /\ UNCHANGED sockets

RecvWaited(t) ==
  /\ Receiving(t, "recvWait")
  /\ line = << >>
  /\ Goto(t, "recvLoop")
  /\ EndTurn(t)
  /\ UNCHANGED <<sockets, call, ret, line>>

\* Mutant: the timer is not looked at.
RecvNeverGivesUp(t) ==
  /\ pc[t] = "recvLoop"
  /\ call[t].size = 0
  /\ Return(t, "OK")
  /\ UNCHANGED <<driverVars, timeoutVars, modemVars, mtx, notified>>

\* The turn that finds nothing pending and the timer past SOCKET_TIMEOUT,
\* and the exit of the loop once size is 0.
RecvReturns(t) ==
  /\ pc[t] = "recvLoop"
  /\ \/ call[t].size = 0 /\ Return(t, "OK")
     \/ /\ call[t].size > 0
        /\ mtx = Nobody
        /\ sockets[handle[t]].pending = 0
        /\ call[t].expired
        /\ Return(t, IF call[t].count = 0 THEN "WOULD_BLOCK" ELSE "OK")
  /\ UNCHANGED <<driverVars, timeoutVars, modemVars, mtx, notified>>

\* timer.read_ms() passes SOCKET_TIMEOUT.
TimerExpires(t) ==
  /\ pc[t] \in {"recvLoop", "recvRead", "recvWait"}
  /\ ~call[t].expired
  /\ call' = [call EXCEPT ![t].expired = TRUE]
  /\ UNCHANGED <<driverVars, pc, ret, timeoutVars, modemVars, mtx, notified>>

(***************************************************************************)
(* The modem and the network (external).                                   *)
(***************************************************************************)

Line(type, h, n) == [type |-> type, handle |-> h, n |-> n]

IsOpen(h) == h \in ModemHandles /\ modem[h].open

\* What carrying out cmd does to the modem's sockets, and the handle and
\* length of its answer.
CarryOut(h, n) ==
  \/ /\ cmd.name = "USOCR"
     /\ h \in ModemHandles /\ ~modem[h].open /\ n = 0
     /\ modem' = [modem EXCEPT ![h] =
                    [open |-> TRUE, ready |-> cmd.n = 1, rx |-> 0, for |-> mtx]]
  \/ /\ cmd.name # "USOCR"
     /\ h = cmd.handle /\ IsOpen(h)
     /\ \/ cmd.name = "USOCL" /\ n = 0 /\ modem' = [modem EXCEPT ![h] = ClosedSocket]
        \/ cmd.name = "USOCTL" /\ n = 0 /\ UNCHANGED modem
        \/ /\ cmd.name \in {"USOCO", "USOWR"} /\ n = 0
           /\ modem' = [modem EXCEPT ![h].ready = TRUE]
        \/ /\ cmd.name = "USORD"
           /\ n \in 0..AtMost(cmd.n, modem[h].rx)
           /\ n = 0 => modem[h].rx = 0
           /\ modem' = [modem EXCEPT ![h].rx = @ - n]

CannotCarryOut ==
  \/ cmd.name = "USOCR" /\ \A h \in ModemHandles : modem[h].open
  \/ cmd.name # "USOCR" /\ ~IsOpen(cmd.handle)

\* The modem executes the outstanding command; its answer, or the data
\* in it, may get lost.
ModemExecutes ==
  /\ cmd # NoCommand
  /\ \E h \in ModemHandles, n \in 0..MaxRx :
       /\ CarryOut(h, n)
       /\ \/ line' = Append(line, Line("OK", h, n)) /\ UNCHANGED faults
          \/ /\ faults > 0 /\ faults' = faults - 1
             /\ \/ UNCHANGED line
                \/ n > 0 /\ line' = Append(line, Line("CUT", h, n))
  /\ cmd' = NoCommand
  /\ UNCHANGED <<driverVars, threadVars, timeoutVars, mtx, notified>>

\* The modem answers ERROR: it has to, or a fault makes it.
ModemRefuses ==
  /\ cmd # NoCommand
  /\ \/ CannotCarryOut /\ UNCHANGED faults
     \/ ~CannotCarryOut /\ faults > 0 /\ faults' = faults - 1
  /\ line' = Append(line, Line("ERROR", cmd.handle, 0))
  /\ cmd' = NoCommand
  /\ UNCHANGED <<driverVars, threadVars, timeoutVars, mtx, modem, notified>>

NetworkStep(h) ==
  /\ modem[h].ready
  /\ Len(line) < MaxLine
  /\ UNCHANGED <<driverVars, threadVars, timeoutVars, mtx, cmd, faults, notified>>

\* Data for a socket: the URC carries the total the modem then holds.
DataArrives(h) ==
  /\ "data" \in NetEvents
  /\ modem[h].rx < MaxRx
  /\ \E n \in modem[h].rx + 1..MaxRx :
       /\ modem' = [modem EXCEPT ![h].rx = n]
       /\ line' = Append(line, Line("UUSORD", h, n))
  /\ NetworkStep(h)

RemoteCloses(h) ==
  /\ "close" \in NetEvents
  /\ modem' = [modem EXCEPT ![h] = ClosedSocket]
  /\ line' = Append(line, Line("UUSOCL", h, 0))
  /\ NetworkStep(h)

\* The network drops the context of a socket; the URC's argument is taken
\* for a socket handle, as UUPSDD_URC() takes it.
ContextLost(h) ==
  /\ "context" \in NetEvents
  /\ modem' = [modem EXCEPT ![h] = ClosedSocket]
  /\ line' = Append(line, Line("UUPSDD", h, 0))
  /\ NetworkStep(h)

(***************************************************************************)
(* The system.                                                             *)
(***************************************************************************)

Init ==
  /\ sockets = [s \in Slots |-> UnusedSocket]
  /\ handle = [t \in Threads |-> NoSocket]
  /\ savedSocket = [t \in Threads |-> UnusedSocket]
  /\ mtx = Nobody
  /\ at_timeout = AtDefault
  /\ saved = [a \in Actors |-> AtDefault]
  /\ pc = [a \in Actors |-> IF a = EventThread THEN "poll" ELSE "idle"]
  /\ call = [t \in Threads |-> NoCall]
  /\ ret = [t \in Threads |-> "none"]
  /\ calling = NoSocket
  /\ cmd = NoCommand
  /\ line = << >>
  /\ modem = [h \in ModemHandles |-> ClosedSocket]
  /\ faults = MaxFaults
  /\ notified = FALSE

RunURC(a) == UUSORD_URC(a) \/ CallCallback(a) \/ UUSOCL_URC(a) \/ UUPSDD_URC(a)

StartCall(t) ==
  \/ socket_open(t) \/ OpenNoMemory(t) \/ socket_close(t) \/ socket_bind(t)
  \/ socket_connect(t) \/ socket_attach(t) \/ socket_send(t) \/ socket_recv(t)

\* Steps inside a call that do not wait for the mutex.
ContinueCall(t) ==
  \/ OpenCreated(t) \/ OpenFails(t) \/ CloseDone(t) \/ CloseFails(t)
  \/ BindTypeKnown(t) \/ BindClosed(t) \/ BindDone(t) \/ BindFails(t)
  \/ ConnectEnds(t) \/ AttachData(t)
  \/ SendBlockDone(t) \/ SendFails(t) \/ SendReturns(t)
  \/ RecvGotData(t) \/ RecvCutShort(t) \/ RecvFails(t) \/ RecvWaited(t)

\* Steps inside a call that take the mutex.
TakeTurn(t) == SendBlock(t) \/ RecvRead(t) \/ RecvWait(t) \/ RecvReturns(t)

Next ==
  \/ \E a \in Actors : RunURC(a)
  \/ EventBegin \/ EventEnd
  \/ \E t \in Threads : StartCall(t) \/ ContinueCall(t) \/ TakeTurn(t) \/ TimerExpires(t)
  \/ ModemExecutes \/ ModemRefuses
  \/ \E h \in ModemHandles : DataArrives(h) \/ RemoteCloses(h) \/ ContextLost(h)

Spec == Init /\ [][Next]_vars

\* A runnable thread is scheduled, one that waits for the mutex gets it in
\* the end, time passes, and the modem answers or is given up on.
Fairness ==
  /\ \A a \in Actors : WF_vars(RunURC(a))
  /\ SF_vars(EventBegin)
  /\ WF_vars(EventEnd)
  /\ \A t \in Threads :
       WF_vars(ContinueCall(t)) /\ WF_vars(TimerExpires(t)) /\ SF_vars(TakeTurn(t))
  /\ WF_vars(ModemExecutes \/ ModemRefuses)

FairSpec == Spec /\ Fairness

(***************************************************************************)
(* Properties.                                                             *)
(***************************************************************************)

SockCtrl ==
  [modem_handle : ModemHandles \cup {SOCKET_UNUSED}, pending : 0..PendingMod - 1,
   callback : BOOLEAN, data : BOOLEAN]
PCs == {"idle", "open", "close", "bindType", "bindClose", "bindOpen", "connect", "attach",
        "sendLoop", "sendWait", "recvLoop", "recvRead", "recvWait", "poll", "urcs"}
OpNames == {"open", "close", "bind", "connect", "attach", "detach", "send", "recv", "recvfrom"}
Results == {"none", "OK", "NO_MEMORY", "NO_SOCKET", "DEVICE_ERROR", "WOULD_BLOCK",
            "CONNECTION_LOST"}
CommandNames == {"USOCR", "USOCL", "USOCTL", "USOCO", "USOWR", "USORD"}
URCs == {"UUSORD", "UUSOCL", "UUPSDD"}
Answers == {"OK", "ERROR", "CUT"}

CallState ==
  {c \in [op : OpNames \cup {"none"}, size : 0..MaxSize, count : 0..MaxSize,
          expired : BOOLEAN] : c.size + c.count <= MaxSize}
Command == [name : CommandNames \cup {"none"}, handle : ModemHandles \cup {SOCKET_UNUSED},
            n : Nat]
LineItem == [type : URCs \cup Answers, handle : ModemHandles \cup {SOCKET_UNUSED},
             n : 0..MaxRx]
ModemSocket == [open : BOOLEAN, ready : BOOLEAN, rx : 0..MaxRx, for : Actors \cup {Nobody}]

\* Every variable keeps its type; pending stays a count of its width.
TypeOK ==
  /\ sockets \in [Slots -> SockCtrl]
  /\ handle \in [Threads -> Slots \cup {NoSocket}]
  /\ savedSocket \in [Threads -> SockCtrl]
  /\ mtx \in Actors \cup {Nobody}
  /\ at_timeout \in Timeouts
  /\ saved \in [Actors -> Timeouts]
  /\ pc \in [Actors -> PCs]
  /\ call \in [Threads -> CallState]
  /\ ret \in [Threads -> Results]
  /\ calling \in Slots \cup {NoSocket}
  /\ cmd \in Command
  /\ line \in Seq(LineItem)
  /\ modem \in [ModemHandles -> ModemSocket]
  /\ faults \in 0..MaxFaults
  /\ notified \in BOOLEAN

\* Whoever gets the mutex finds the AT timeout the parser started with: the
\* 10 ms of handle_event() and the 1 s of a receive are never left behind,
\* whatever path a turn takes.
TimeoutRestored == mtx = Nobody => at_timeout = AtDefault

InTransit == {line[i] : i \in 1..Len(line)}
AnswersInTransit == {i \in 1..Len(line) : line[i].type \in Answers}

\* What a thread at each pc is waiting to hear about.
AwaitedCommand ==
  [l \in {"open", "close", "bindType", "bindClose", "bindOpen", "connect", "sendWait", "recvRead"} |->
     CASE l \in {"open", "bindOpen"} -> "USOCR"
       [] l \in {"close", "bindClose"} -> "USOCL"
       [] l = "bindType" -> "USOCTL"
       [] l = "connect" -> "USOCO"
       [] l = "sendWait" -> "USOWR"
       [] l = "recvRead" -> "USORD"]

\* No thread can take another's answer: a command is with the modem, or its
\* answer on the line, only while the thread that sent it holds the mutex and
\* waits for that very command, and there is never more than one.
AnswersReachTheirCaller ==
  /\ cmd # NoCommand =>
       /\ AnswersInTransit = {}
       /\ mtx \in Threads
       /\ pc[mtx] \in DOMAIN AwaitedCommand
       /\ AwaitedCommand[pc[mtx]] = cmd.name
  /\ AnswersInTransit # {} =>
       /\ mtx \in Threads
       /\ pc[mtx] \in DOMAIN AwaitedCommand
       /\ \A i, j \in AnswersInTransit : i = j

\* The command that each thread waits to hear about.
Awaited ==
  [t \in Threads |->
     IF pc[t] \in DOMAIN AwaitedCommand THEN AwaitedCommand[pc[t]] ELSE NoCommand.name]

\* How the driver's state maps to that of ATChannel.
Channel == INSTANCE ATChannel WITH
  Clients <- Threads,
  Commands <- CommandNames,
  None <- NoCommand.name,
  waiting <- Awaited,
  request <- cmd.name,
  reply <- AnswersInTransit # {}

\* The mutex, the line and the pcs together are the channel of ATChannel: no
\* thread sends while another waits, and none gives up on a command that the
\* modem has not dealt with.
ImplementsChannel == Channel!Spec

\* find_socket() is never ambiguous: two slots never hold one modem handle.
HandlesUnique ==
  \A r, s \in Slots :
    sockets[r].modem_handle = sockets[s].modem_handle /\ r # s
      => sockets[r].modem_handle = SOCKET_UNUSED

\* With nothing in transit the driver's table and the modem agree on which
\* sockets exist: none is leaked on either side.
TablesAgree ==
  mtx = Nobody /\ line = << >> =>
    {h \in ModemHandles : modem[h].open} =
      {sockets[s].modem_handle : s \in Slots} \ {SOCKET_UNUSED}

\* pending is "the number of received bytes pending": it equals what the modem
\* holds as soon as nothing about the socket is in transit.
PendingExact ==
  \A s \in Slots : LET h == sockets[s].modem_handle IN
    IsOpen(h) /\ (\A x \in InTransit : x.handle # h) => sockets[s].pending = modem[h].rx

\* The answer to a read never exceeds pending, so the unsigned subtraction in
\* socket_recv() and socket_recvfrom() does not wrap.
PendingNeverWraps ==
  [][\A t \in Threads :
       (RecvGotData(t) \/ RecvCutShort(t)) => Head(line).n <= sockets[handle[t]].pending]_vars

\* On a line without faults and a network that only delivers data, no call
\* reports a device error: in particular no read finds pending bytes gone.
NoSpuriousError ==
  MaxFaults = 0 /\ NetEvents \subseteq {"data"} =>
    \A t \in Threads : ret[t] # "DEVICE_ERROR"

\* A command changes no modem socket but one of the thread that sent it.
OnlyOwnSocket ==
  [][cmd # NoCommand /\ cmd' = NoCommand =>
       \A h \in ModemHandles : modem'[h] # modem[h] => modem[h].for \in {mtx, Nobody}]_vars

\* Every call returns: no lost answer, refusal or URC leaves a thread in the
\* driver or the mutex taken.
CallsReturn == \A t \in Threads : pc[t] # "idle" ~> pc[t] = "idle"

\* A loss of the data context reported by the modem reaches the application,
\* whichever thread happens to read the URC.
ContextLossReported == (\E x \in InTransit : x.type = "UUPSDD") ~> notified

(***************************************************************************)
(* What the headers promise and the code does not keep.                    *)
(***************************************************************************)

\* UbloxATCellularInterface.h:392: after a successful bind the application's
\* handle names the modem socket that is bound to the port.
BindKeepsTheSocket ==
  \A t \in Threads :
    call[t] = NoCall /\ ret[t] = "OK" /\ handle[t] # NoSocket =>
      LET h == sockets[handle[t]].modem_handle IN IsOpen(h) /\ modem[h].for = t

================================================================================
