------------------------------ MODULE N2xxSockets ------------------------------
(***************************************************************************)
(* The UDP sockets of                                                      *)
(* ublox-at-cellular-interface-n2xx/UbloxATCellularInterfaceN2xx.cpp.      *)
(*                                                                         *)
(* The layout is that of ATSockets: threads that call, the event thread,   *)
(* one mutex, one serial line whose URCs are run by whoever waits in       *)
(* recv().  What differs is what the code does differently: a URC counts   *)
(* one datagram and is added to pending; a read fetches one datagram;      *)
(* socket_recvfrom() takes its copy of the AT timeout without the mutex,   *)
(* never frees its buffer, and returns with the mutex when it gets none.   *)
(* The mutex is recursive and is counted.                                  *)
(*                                                                         *)
(* The modem is external.  It keeps the datagrams of each socket in order, *)
(* announces each with its length and hands out one per AT+NSORF.  It      *)
(* takes up a command when it has answered the last, within AnswerTime; a  *)
(* recv() with a shorter _at_timeout may give up before that, and leaves   *)
(* the answer to whoever is in recv() when it comes.                       *)
(***************************************************************************)
EXTENDS Integers, Sequences

CONSTANTS
  Threads,       \* application threads
  EventThread,   \* the thread running handle_event()
  Nobody,        \* the mutex is free
  NumSockets,    \* slots in _sockets (7 in the code)
  ModemHandles,  \* handles the modem can give to a socket
  MaxRead,       \* MAX_READ_SIZE
  MaxWrite,      \* MAX_WRITE_SIZE
  SizeMod,       \* the values of an nsapi_size_t, 2^32 in the code
  AnswerTime,    \* the longest the modem takes to answer a command, in ms
  MaxSize,       \* bound: largest size an application sends
  MaxLength,     \* bound: longest datagram
  MaxWaiting,    \* bound: datagrams the modem keeps for a socket
  MaxPending,    \* bound: what a socket counts as pending when another comes
  MaxLine,       \* bound: lines on the serial line when a URC is added
  MaxHeap,       \* buffers the heap has room for
  MaxDepth,      \* bound: locks held when a call begins
  MaxFaults,     \* bound: commands refused, answers lost, cut, late or not waited for
  Ops            \* the calls the application makes

ASSUME N2xxAssumption ==
  /\ EventThread \notin Threads
  /\ Nobody \notin Threads \cup {EventThread}
  /\ ModemHandles \subseteq Nat
  /\ {NumSockets, MaxRead, MaxWrite, MaxLength} \subseteq Nat \ {0}
  /\ {MaxSize, MaxWaiting, MaxPending, MaxLine, MaxHeap, MaxDepth, MaxFaults} \subseteq Nat
  /\ AnswerTime \in Nat
  /\ SizeMod \in Nat /\ SizeMod > MaxSize

VARIABLES
  sockets,      \* _sockets
  handle,       \* per thread: the slot its application socket refers to
  mtx,          \* _mtx: its owner
  depth,        \* _mtx: how often the owner has locked it
  at_timeout,   \* _at_timeout
  saved,        \* per thread: the local at_timeout
  pc,           \* per thread: where it is
  call,         \* per thread: what is left of its call
  ret,          \* per thread: what its last call returned
  heap,         \* buffers malloc() can still give
  cmd,          \* the command the modem has not answered
  line,         \* lines the modem has sent and nobody has read
  modem,        \* the modem's sockets
  faults,       \* faults that may still happen
  hasty         \* a recv() has given up on a command the modem had

tableVars == <<sockets, handle>>
lockVars == <<mtx, depth>>
threadVars == <<pc, call, ret>>
timeoutVars == <<at_timeout, saved>>
modemVars == <<cmd, line, modem, faults, hasty>>
vars == <<tableVars, lockVars, timeoutVars, threadVars, heap, modemVars>>

Actors == Threads \cup {EventThread}
Slots == 0..NumSockets - 1
NoSocket == -1
SOCKET_UNUSED == -1

AtDefault == 8000          \* AT_PARSER_TIMEOUT
UrcPoll == 10              \* set by handle_event()
SocketWait == 1000         \* set by socket_recvfrom()

UnusedSocket == [modem_handle |-> SOCKET_UNUSED, pending |-> 0, callback |-> FALSE]
ClosedSocket == [open |-> FALSE, waiting |-> << >>]
NoCall == [size |-> 0, blk |-> 0, expired |-> FALSE]
NoCommand == [name |-> "none", handle |-> SOCKET_UNUSED, n |-> 0]

AtMost(a, b) == IF a < b THEN a ELSE b
Total(lengths) ==
  LET upto[i \in 0..Len(lengths)] == IF i = 0 THEN 0 ELSE upto[i - 1] + lengths[i]
  IN upto[Len(lengths)]

(***************************************************************************)
(* The socket table, the mutex and the AT channel.                         *)
(***************************************************************************)

\* s is the slot find_socket(h) returns: the first one that holds h.
find_socket(s, h) ==
  /\ sockets[s].modem_handle = h
  /\ \A r \in Slots : r < s => sockets[r].modem_handle # h

NotFound(h) == \A s \in Slots : sockets[s].modem_handle # h

clear_socket(s) == sockets' = [sockets EXCEPT ![s] = UnusedSocket]

\* lock() and unlock(), n times over: receivefrom() locks again inside
\* socket_recvfrom().
LOCK(a, n) == mtx \in {Nobody, a} /\ mtx' = a /\ depth' = depth + n
UNLOCK(a, n) ==
  /\ mtx = a
  /\ depth' = depth - n
  /\ mtx' = IF depth = n THEN Nobody ELSE a

Goto(a, l) == pc' = [pc EXCEPT ![a] = l]

Return(t, r) ==
  /\ Goto(t, "idle")
  /\ ret' = [ret EXCEPT ![t] = r]
  /\ call' = [call EXCEPT ![t] = NoCall]

\* The modem has answered the last command when it takes up this one.
Send(name, h, n) ==
  /\ cmd = NoCommand
  /\ cmd' = [name |-> name, handle |-> h, n |-> n]

\* The lock holder a is in _at->recv() at l.
Receiving(a, l) == pc[a] = l /\ mtx = a
InRecv == {"open", "close", "sendWait", "recvRead", "recvWait", "urcs"}

\* The command a thread asks about at each recv() of an answer.
AwaitedCommand ==
  [l \in {"open", "close", "sendWait", "recvRead"} |->
     CASE l = "open" -> "NSOCR" [] l = "close" -> "NSOCL"
       [] l = "sendWait" -> "NSOSTF" [] l = "recvRead" -> "NSORF"]

Arrived(types) == line # << >> /\ Head(line).type \in types

\* What recv() at l can take the first line for: the answer to its command, be
\* it to an earlier one of that kind, the OK of any answer where it waits for
\* nothing but OK; and an ERROR ends any recv().
OKs == {"OK", "EMPTY", "LATE"}
Matches(l) ==
  \/ Arrived({"ERROR"})
  \/ l \in DOMAIN AwaitedCommand /\ Head(line).to = AwaitedCommand[l]
  \/ l = "close" /\ Arrived(OKs)

GotAnswer(t, l, types) ==
  /\ Receiving(t, l)
  /\ Arrived(types) /\ Matches(l)
  /\ line' = Tail(line)
  /\ UNCHANGED <<faults, hasty>>

\* recv() gives up: no answer will come, or _at_timeout is shorter than the
\* modem may take.
TimedOut(t, l) ==
  /\ Receiving(t, l)
  /\ line = << >> /\ line' = line
  /\ \/ cmd = NoCommand /\ UNCHANGED <<faults, hasty>>
     \/ /\ cmd # NoCommand /\ at_timeout < AnswerTime
        /\ faults > 0 /\ faults' = faults - 1
        /\ hasty' = TRUE

\* The exchange fails: a refusal, an answer of the types given that does not
\* match what the code scans for, or nothing in time.
GotNone(t, l, types) == GotAnswer(t, l, types \cup {"ERROR"}) \/ TimedOut(t, l)

\* Waiting for what never comes ends with an ERROR or in time.
NothingMore ==
  \/ line = << >> /\ line' = line
  \/ Arrived({"ERROR"}) /\ line' = Tail(line)

(***************************************************************************)
(* The URC handler and the event thread.                                   *)
(***************************************************************************)

HandleURC(a) ==
  /\ mtx = a
  /\ pc[a] \in InRecv
  /\ Arrived({"NSONMI"})
  /\ line' = Tail(line)
  /\ UNCHANGED <<handle, lockVars, timeoutVars, threadVars, heap, cmd, modem, faults, hasty>>

NSONMI_URC(a) ==
  /\ HandleURC(a)
  /\ \/ \E s \in Slots :
          /\ find_socket(s, Head(line).handle)
          /\ sockets' = [sockets EXCEPT ![s].pending = @ + Head(line).n]
     \/ NotFound(Head(line).handle) /\ UNCHANGED sockets

\* recv() throws away the lines of answers that it can make nothing of.
SkipLine(a) ==
  /\ mtx = a
  /\ pc[a] \in InRecv
  /\ Arrived({"OK", "EMPTY", "HEAD", "LATE"}) /\ ~Matches(pc[a])
  /\ line' = Tail(line)
  /\ UNCHANGED <<tableVars, lockVars, timeoutVars, threadVars, heap, cmd, modem, faults, hasty>>

EventBegin ==
  /\ pc[EventThread] = "poll"
  /\ line # << >>
  /\ LOCK(EventThread, 1)
  /\ saved' = [saved EXCEPT ![EventThread] = at_timeout]
  /\ at_timeout' = UrcPoll
  /\ Goto(EventThread, "urcs")
  /\ UNCHANGED <<tableVars, call, ret, heap, modemVars>>

EventEnd ==
  /\ Receiving(EventThread, "urcs")
  /\ NothingMore
  /\ at_timeout' = saved[EventThread]
  /\ UNLOCK(EventThread, 1)
  /\ Goto(EventThread, "poll")
  /\ UNCHANGED <<tableVars, call, ret, saved, heap, cmd, modem, faults, hasty>>

(***************************************************************************)
(* Opening, closing, attaching and sending.                                *)
(***************************************************************************)

BeginCall(t, op, n, blk) ==
  /\ op \in Ops
  /\ pc[t] = "idle"
  /\ mtx = t => depth < MaxDepth
  /\ call' = [call EXCEPT ![t] = [NoCall EXCEPT !.size = n, !.blk = blk]]
  /\ ret' = [ret EXCEPT ![t] = "none"]

EndExchange(t, r) ==
  /\ Return(t, r)
  /\ UNLOCK(t, 1)
  /\ UNCHANGED <<timeoutVars, cmd, modem>>

\* socket_open() of a UDP socket: handle[t] is the free slot until the modem
\* has answered, and the application's handle from then on.
socket_open(t) ==
  /\ handle[t] = NoSocket
  /\ BeginCall(t, "open", 0, 0)
  /\ LOCK(t, 1)
  /\ \E s \in Slots : find_socket(s, SOCKET_UNUSED) /\ handle' = [handle EXCEPT ![t] = s]
  /\ Send("NSOCR", SOCKET_UNUSED, 0)
  /\ Goto(t, "open")
  /\ UNCHANGED <<sockets, timeoutVars, heap, line, modem, faults, hasty>>

OpenNoMemory(t) ==
  /\ "open" \in Ops
  /\ pc[t] = "idle" /\ handle[t] = NoSocket
  /\ mtx \in {Nobody, t}
  /\ NotFound(SOCKET_UNUSED)
  /\ Return(t, "NO_MEMORY")
  /\ UNCHANGED <<tableVars, lockVars, timeoutVars, heap, modemVars>>

OpenCreated(t) ==
  /\ GotAnswer(t, "open", {"OK"})
  /\ sockets' = [sockets EXCEPT ![handle[t]] =
                   [UnusedSocket EXCEPT !.modem_handle = Head(line).handle]]
  /\ EndExchange(t, "OK")
  /\ UNCHANGED <<handle, heap>>

OpenFails(t) ==
  /\ GotNone(t, "open", {"HEAD"})
  /\ handle' = [handle EXCEPT ![t] = NoSocket]
  /\ EndExchange(t, "DEVICE_ERROR")
  /\ UNCHANGED <<sockets, heap>>

\* socket_close().  The socket layer above drops its handle whatever the
\* call returns.
socket_close(t) ==
  /\ handle[t] # NoSocket
  /\ BeginCall(t, "close", 0, 0)
  /\ LOCK(t, 1)
  /\ Send("NSOCL", sockets[handle[t]].modem_handle, 0)
  /\ Goto(t, "close")
  /\ UNCHANGED <<tableVars, timeoutVars, heap, line, modem, faults, hasty>>

\* Mutant: clear_socket() is forgotten.
CloseKeepsSlot(t) ==
  /\ GotAnswer(t, "close", OKs)
  /\ handle' = [handle EXCEPT ![t] = NoSocket]
  /\ EndExchange(t, "OK")
  /\ UNCHANGED <<sockets, heap>>

CloseDone(t) ==
  /\ GotAnswer(t, "close", OKs)
  /\ clear_socket(handle[t])
  /\ handle' = [handle EXCEPT ![t] = NoSocket]
  /\ EndExchange(t, "OK")
  /\ UNCHANGED heap

CloseFails(t) ==
  /\ GotNone(t, "close", {"HEAD"})
  /\ handle' = [handle EXCEPT ![t] = NoSocket]
  /\ EndExchange(t, "DEVICE_ERROR")
  /\ UNCHANGED <<sockets, heap>>

\* socket_attach(): no lock.
socket_attach(t) ==
  /\ "attach" \in Ops
  /\ pc[t] = "idle" /\ handle[t] # NoSocket
  /\ \E set \in BOOLEAN : sockets' = [sockets EXCEPT ![handle[t]].callback = set]
  /\ UNCHANGED <<handle, lockVars, timeoutVars, threadVars, heap, modemVars>>

\* socket_sendto(): a packet is sent in blocks, the mutex free in between.  A
\* block never grows again.
socket_sendto(t) ==
  \E n \in 1..MaxSize :
    /\ handle[t] # NoSocket
    /\ BeginCall(t, "sendto", n, MaxWrite)
    /\ Goto(t, "sendLoop")
    /\ UNCHANGED <<tableVars, lockVars, timeoutVars, heap, modemVars>>

\* sendto(), which needs a buffer for the hex string, before it locks.
SendNoBuffer(t) ==
  /\ pc[t] = "sendLoop"
  /\ heap = 0
  /\ Return(t, "DEVICE_ERROR")
  /\ UNCHANGED <<tableVars, lockVars, timeoutVars, heap, modemVars>>

SendBuffer(t) ==
  /\ pc[t] = "sendLoop"
  /\ heap > 0 /\ heap' = heap - 1
  /\ call' = [call EXCEPT ![t].blk = AtMost(@, call[t].size)]
  /\ Goto(t, "sendLock")
  /\ UNCHANGED <<tableVars, lockVars, timeoutVars, ret, modemVars>>

\* Mutant: LOCK() comes after the command has been sent.
SendUnlocked(t) ==
  /\ pc[t] = "sendLock"
  /\ Send("NSOSTF", sockets[handle[t]].modem_handle, call[t].blk)
  /\ Goto(t, "sendWait")
  /\ UNCHANGED <<tableVars, lockVars, timeoutVars, call, ret, heap, line, modem, faults, hasty>>

SendBlock(t) ==
  /\ pc[t] = "sendLock"
  /\ LOCK(t, 1)
  /\ Send("NSOSTF", sockets[handle[t]].modem_handle, call[t].blk)
  /\ Goto(t, "sendWait")
  /\ UNCHANGED <<tableVars, timeoutVars, call, ret, heap, line, modem, faults, hasty>>

\* The number sent was read; what is made of it does not depend on the OK
\* that should follow.  The number of an earlier answer may be more than is
\* left, which is unsigned.
SendGot(t) ==
  /\ GotAnswer(t, "sendWait", {"OK", "HEAD"})
  /\ LET left == (call[t].size - Head(line).n) % SizeMod IN
       \/ /\ left > 0
          /\ call' = [call EXCEPT ![t].size = left]
          /\ Goto(t, "sendLoop")
          /\ UNCHANGED ret
       \/ left = 0 /\ Return(t, "OK")
  /\ UNLOCK(t, 1)
  /\ heap' = heap + 1
  /\ UNCHANGED <<tableVars, timeoutVars, cmd, modem>>

SendFails(t) ==
  /\ GotNone(t, "sendWait", {})
  /\ EndExchange(t, "DEVICE_ERROR")
  /\ heap' = heap + 1
  /\ UNCHANGED tableVars

(***************************************************************************)
(* socket_recvfrom().                                                      *)
(***************************************************************************)

\* The timeout to go back to is read before the loop, without the mutex.
socket_recvfrom(t) ==
  /\ handle[t] # NoSocket
  /\ BeginCall(t, "recvfrom", 0, 0)
  /\ saved' = [saved EXCEPT ![t] = at_timeout]
  /\ Goto(t, "recvLoop")
  /\ UNCHANGED <<tableVars, lockVars, at_timeout, heap, modemVars>>

\* A turn of the loop: n locks, the turn's own timeout.
BeginTurn(t, n) ==
  /\ pc[t] = "recvLoop"
  /\ LOCK(t, n)
  /\ at_timeout' = SocketWait
  /\ UNCHANGED <<tableVars, saved, line, modem, faults, hasty>>

\* Mutant: MAX_READ_SIZE is asked for whatever is pending.
RecvReadsMax(t) ==
  /\ BeginTurn(t, 2)
  /\ heap > 1 /\ heap' = heap - 2
  /\ sockets[handle[t]].pending > 0
  /\ call' = [call EXCEPT ![t].blk = MaxRead]
  /\ Send("NSORF", sockets[handle[t]].modem_handle, MaxRead)
  /\ Goto(t, "recvRead")
  /\ UNCHANGED ret

\* The read buffer is taken from the heap and never given back; receivefrom()
\* takes a second one for the hex string until it returns, and locks again.
RecvRead(t) ==
  /\ BeginTurn(t, 2)
  /\ heap > 1 /\ heap' = heap - 2
  /\ LET pending == sockets[handle[t]].pending IN
       /\ pending > 0
       /\ call' = [call EXCEPT ![t].blk = AtMost(pending, MaxRead)]
       /\ Send("NSORF", sockets[handle[t]].modem_handle, AtMost(pending, MaxRead))
  /\ Goto(t, "recvRead")
  /\ UNCHANGED ret

\* malloc() fails: a return between LOCK() and UNLOCK().
RecvNoBuffer(t) ==
  /\ BeginTurn(t, 1)
  /\ sockets[handle[t]].pending > 0
  /\ heap = 0
  /\ Return(t, "NO_MEMORY")
  /\ UNCHANGED <<heap, cmd>>

RecvWait(t) ==
  /\ BeginTurn(t, 1)
  /\ sockets[handle[t]].pending = 0
  /\ ~call[t].expired
  /\ Goto(t, "recvWait")
  /\ UNCHANGED <<call, ret, heap, cmd>>

\* at_set_timeout(at_timeout) and UNLOCK() at the end of a turn.
EndTurn(t, n) ==
  /\ at_timeout' = saved[t]
  /\ UNLOCK(t, n)
  /\ UNCHANGED <<handle, saved, cmd, modem>>

RecvFails(t) ==
  /\ GotNone(t, "recvRead", {"HEAD", "EMPTY"})
  /\ Return(t, "DEVICE_ERROR")
  /\ EndTurn(t, 2)
  /\ heap' = heap + 1
  /\ UNCHANGED sockets

\* Mutant: what was read stays counted as pending.
RecvGotUncounted(t) ==
  /\ GotAnswer(t, "recvRead", {"OK"})
  /\ Return(t, "OK")
  /\ EndTurn(t, 2)
  /\ heap' = heap + 1
  /\ UNCHANGED sockets

\* One datagram has come; all that was asked for is counted as read.
RecvGot(t) ==
  /\ GotAnswer(t, "recvRead", {"OK"})
  /\ sockets' = [sockets EXCEPT ![handle[t]].pending = @ - call[t].blk]
  /\ Return(t, "OK")
  /\ EndTurn(t, 2)
  /\ heap' = heap + 1

\* The header comes too late for its recv() and only the OK is seen: size is
\* returned as it was when receivefrom() declared it.
RecvSizeUnread(t) ==
  /\ GotAnswer(t, "recvRead", {"LATE"})
  /\ \/ /\ sockets' = [sockets EXCEPT ![handle[t]].pending = @ - call[t].blk]
        /\ Return(t, "OK")
     \/ Return(t, "DEVICE_ERROR") /\ UNCHANGED sockets
  /\ EndTurn(t, 2)
  /\ heap' = heap + 1

RecvWaited(t) ==
  /\ Receiving(t, "recvWait")
  /\ NothingMore
  /\ Goto(t, "recvLoop")
  /\ EndTurn(t, 1)
  /\ UNCHANGED <<sockets, call, ret, heap, faults, hasty>>

\* Mutant: the timer is not looked at.
RecvNeverGivesUp(t) ==
  /\ pc[t] = "recvLoop"
  /\ mtx \in {Nobody, t}
  /\ sockets[handle[t]].pending > 0
  /\ heap = 1 /\ heap' = 0
  /\ Return(t, "NO_MEMORY")
  /\ at_timeout' = saved[t]
  /\ UNCHANGED <<tableVars, lockVars, saved, modemVars>>

\* Turns that send nothing: the timer is past SOCKET_TIMEOUT, or
\* receivefrom() finds no second buffer.
RecvReturns(t) ==
  /\ pc[t] = "recvLoop"
  /\ mtx \in {Nobody, t}
  /\ \/ /\ sockets[handle[t]].pending = 0 /\ call[t].expired
        /\ Return(t, "WOULD_BLOCK")
        /\ UNCHANGED heap
     \/ /\ sockets[handle[t]].pending > 0
        /\ heap = 1 /\ heap' = 0
        /\ Return(t, "NO_MEMORY")
  /\ at_timeout' = saved[t]
  /\ UNCHANGED <<tableVars, lockVars, saved, modemVars>>

\* timer.read_ms() passes SOCKET_TIMEOUT.
TimerExpires(t) ==
  /\ pc[t] \in {"recvLoop", "recvRead", "recvWait"}
  /\ ~call[t].expired
  /\ call' = [call EXCEPT ![t].expired = TRUE]
  /\ UNCHANGED <<tableVars, lockVars, pc, ret, timeoutVars, heap, modemVars>>

(***************************************************************************)
(* The modem and the network (external).                                   *)
(***************************************************************************)

Line(type, to, h, n) == [type |-> type, to |-> to, handle |-> h, n |-> n]
Answer(type, h, n) == Line(type, cmd.name, h, n)

IsOpen(h) == h \in ModemHandles /\ modem[h].open

\* What is left of the datagrams ds once n bytes of the first were read.
Unread(ds, n) == IF n < Head(ds) THEN <<Head(ds) - n>> \o Tail(ds) ELSE Tail(ds)

\* cmd is carried out; its answer would be the line a.
CarryOut(a) ==
  \/ /\ cmd.name = "NSOCR"
     /\ \E h \in ModemHandles :
          /\ ~modem[h].open
          /\ modem' = [modem EXCEPT ![h].open = TRUE]
          /\ a = Answer("OK", h, 0)
  \/ /\ IsOpen(cmd.handle)
     /\ \/ /\ cmd.name = "NSOCL" /\ a = Answer("OK", cmd.handle, 0)
           /\ modem' = [modem EXCEPT ![cmd.handle] = ClosedSocket]
        \/ /\ cmd.name = "NSOSTF" /\ a = Answer("OK", cmd.handle, cmd.n)
           /\ UNCHANGED modem
        \/ /\ cmd.name = "NSORF"
           /\ LET ds == modem[cmd.handle].waiting IN
                \/ ds = << >> /\ a = Answer("EMPTY", cmd.handle, 0) /\ UNCHANGED modem
                \/ /\ ds # << >>
                   /\ a = Answer("OK", cmd.handle, AtMost(cmd.n, Head(ds)))
                   /\ modem' = [modem EXCEPT ![cmd.handle].waiting = Unread(ds, a.n)]

CannotCarryOut ==
  \/ cmd.name = "NSOCR" /\ \A h \in ModemHandles : modem[h].open
  \/ cmd.name # "NSOCR" /\ ~IsOpen(cmd.handle)

Lengths == 0..MaxWrite + MaxLength
Commands == {"NSOCR", "NSOCL", "NSOSTF", "NSORF"}
AnswerLines == [type : {"OK", "EMPTY"}, to : Commands, handle : ModemHandles, n : Lengths]

\* The modem executes the outstanding command.  The answer may get lost, be
\* cut before its OK, or, to a read, begin too late.
ModemExecutes ==
  /\ cmd # NoCommand
  /\ \E a \in AnswerLines :
       /\ CarryOut(a)
       /\ \/ line' = Append(line, a) /\ UNCHANGED faults
          \/ /\ faults > 0 /\ faults' = faults - 1
             /\ \/ UNCHANGED line
                \/ line' = Append(line, [a EXCEPT !.type = "HEAD"])
                \/ cmd.name = "NSORF" /\ line' = Append(line, [a EXCEPT !.type = "LATE"])
  /\ cmd' = NoCommand
  /\ UNCHANGED <<tableVars, lockVars, timeoutVars, threadVars, heap, hasty>>

ModemRefuses ==
  /\ cmd # NoCommand
  /\ \/ CannotCarryOut /\ UNCHANGED faults
     \/ ~CannotCarryOut /\ faults > 0 /\ faults' = faults - 1
  /\ line' = Append(line, Answer("ERROR", cmd.handle, 0))
  /\ cmd' = NoCommand
  /\ UNCHANGED <<tableVars, lockVars, timeoutVars, threadVars, heap, modem, hasty>>

DatagramArrives(h) ==
  /\ modem[h].open
  /\ Len(modem[h].waiting) < MaxWaiting
  /\ Len(line) < MaxLine
  /\ \A s \in Slots : sockets[s].pending <= MaxPending
  /\ \E n \in 1..MaxLength :
       /\ modem' = [modem EXCEPT ![h].waiting = Append(@, n)]
       /\ line' = Append(line, Line("NSONMI", NoCommand.name, h, n))
  /\ UNCHANGED <<tableVars, lockVars, timeoutVars, threadVars, heap, cmd, faults, hasty>>

(***************************************************************************)
(* The system.                                                             *)
(***************************************************************************)

Init ==
  /\ sockets = [s \in Slots |-> UnusedSocket]
  /\ handle = [t \in Threads |-> NoSocket]
  /\ mtx = Nobody /\ depth = 0
  /\ at_timeout = AtDefault
  /\ saved = [a \in Actors |-> AtDefault]
  /\ pc = [a \in Actors |-> IF a = EventThread THEN "poll" ELSE "idle"]
  /\ call = [t \in Threads |-> NoCall]
  /\ ret = [t \in Threads |-> "none"]
  /\ heap = MaxHeap
  /\ cmd = NoCommand
  /\ line = << >>
  /\ modem = [h \in ModemHandles |-> ClosedSocket]
  /\ faults = MaxFaults /\ hasty = FALSE

StartCall(t) ==
  \/ socket_open(t) \/ OpenNoMemory(t) \/ socket_close(t) \/ socket_attach(t)
  \/ socket_sendto(t) \/ socket_recvfrom(t)

\* Steps inside a call that do not wait for the mutex.
ContinueCall(t) ==
  \/ OpenCreated(t) \/ OpenFails(t) \/ CloseDone(t) \/ CloseFails(t)
  \/ SendNoBuffer(t) \/ SendBuffer(t) \/ SendGot(t) \/ SendFails(t)
  \/ RecvGot(t) \/ RecvSizeUnread(t) \/ RecvFails(t) \/ RecvWaited(t)

\* Steps inside a call that take the mutex.
TakeTurn(t) ==
  \/ SendBlock(t) \/ RecvRead(t) \/ RecvNoBuffer(t) \/ RecvWait(t) \/ RecvReturns(t)

Next ==
  \/ \E a \in Actors : NSONMI_URC(a) \/ SkipLine(a)
  \/ EventBegin \/ EventEnd
  \/ \E t \in Threads : StartCall(t) \/ ContinueCall(t) \/ TakeTurn(t) \/ TimerExpires(t)
  \/ ModemExecutes \/ ModemRefuses
  \/ \E h \in ModemHandles : DatagramArrives(h)

Spec == Init /\ [][Next]_vars

\* A runnable thread is scheduled, one that waits for the mutex gets it once
\* it is free again and again, time passes, and the modem answers or not.
Fairness ==
  /\ \A a \in Actors : WF_vars(NSONMI_URC(a) \/ SkipLine(a))
  /\ SF_vars(EventBegin)
  /\ WF_vars(EventEnd)
  /\ \A t \in Threads :
       WF_vars(ContinueCall(t)) /\ WF_vars(TimerExpires(t)) /\ SF_vars(TakeTurn(t))
  /\ WF_vars(ModemExecutes \/ ModemRefuses)

FairSpec == Spec /\ Fairness

(***************************************************************************)
(* Properties.                                                             *)
(***************************************************************************)

SockCtrl == [modem_handle : ModemHandles \cup {SOCKET_UNUSED}, pending : Nat, callback : BOOLEAN]
PCs == InRecv \cup {"idle", "sendLoop", "sendLock", "recvLoop", "poll"}
Results == {"none", "OK", "NO_MEMORY", "DEVICE_ERROR", "WOULD_BLOCK"}
CallState == [size : 0..SizeMod - 1, blk : 0..MaxRead + MaxWrite, expired : BOOLEAN]
Command == [name : Commands \cup {"none"},
            handle : ModemHandles \cup {SOCKET_UNUSED}, n : 0..MaxRead + MaxWrite]
Answers == {"OK", "EMPTY", "HEAD", "LATE", "ERROR"}
LineItem == [type : Answers \cup {"NSONMI"}, to : Commands \cup {"none"},
             handle : ModemHandles \cup {SOCKET_UNUSED}, n : Lengths]
Timeouts == {AtDefault, UrcPoll, SocketWait}

\* Every variable keeps its type, and the mutex is held as often as a nested
\* call can hold it, and once more for every lock left behind.
TypeOK ==
  /\ sockets \in [Slots -> SockCtrl]
  /\ handle \in [Threads -> Slots \cup {NoSocket}]
  /\ mtx \in Actors \cup {Nobody}
  /\ depth \in 0..MaxDepth + 2 /\ (depth = 0 <=> mtx = Nobody)
  /\ at_timeout \in Timeouts /\ saved \in [Actors -> Timeouts]
  /\ pc \in [Actors -> PCs]
  /\ call \in [Threads -> CallState]
  /\ ret \in [Threads -> Results]
  /\ heap \in Nat
  /\ cmd \in Command
  /\ line \in Seq(LineItem)
  /\ modem \in [ModemHandles -> [open : BOOLEAN, waiting : Seq(1..MaxLength)]]
  /\ faults \in 0..MaxFaults /\ hasty \in BOOLEAN

\* How many bytes the unread lines of a type say of the socket h.
BytesOf(x, type, h) == IF x.type = type /\ x.handle = h THEN x.n ELSE 0
BytesInTransit(type, h) == Total([i \in DOMAIN line |-> BytesOf(line[i], type, h)])
AnswersInTransit == {i \in DOMAIN line : line[i].type \in Answers}

\* A command is with the modem, or its answer on the line, only while the
\* thread that sent it holds the mutex and waits for it.
Alternation ==
  /\ cmd # NoCommand =>
       /\ AnswersInTransit = {}
       /\ mtx \in Threads /\ pc[mtx] \in DOMAIN AwaitedCommand
       /\ AwaitedCommand[pc[mtx]] = cmd.name
  /\ AnswersInTransit # {} =>
       /\ mtx \in Threads /\ pc[mtx] \in DOMAIN AwaitedCommand
       /\ \A i, j \in AnswersInTransit : i = j /\ line[i].to = AwaitedCommand[pc[mtx]]

\* No thread can take another's answer, whatever locks were left behind and
\* whichever answers were lost, cut or refused, as long as no recv() has given
\* up on a command that the modem still has.
AnswersReachTheirCaller == ~hasty => Alternation

\* The command that each thread waits to hear about.
Awaited ==
  [t \in Threads |->
     IF pc[t] \in DOMAIN AwaitedCommand THEN AwaitedCommand[pc[t]] ELSE NoCommand.name]

\* How the driver's state maps to that of ATChannel.
Channel == INSTANCE ATChannel WITH
  Clients <- Threads,
  None <- NoCommand.name,
  waiting <- Awaited,
  request <- cmd.name,
  reply <- AnswersInTransit # {}

\* The driver implements the channel of ATChannel, whoever returns with the
\* mutex, as long as no recv() gives up on a command that the modem still has.
ImplementsChannel == Channel!Init /\ [][~hasty' => Channel!Next]_(Channel!vars)

\* The modem answers in time whatever timeout a call can be left with: the 10 ms
\* of handle_event() where socket_recvfrom() is called, which may save and
\* restore them (line 382), AT_PARSER_TIMEOUT where it is not.
Patient ==
  \/ AnswerTime <= UrcPoll
  \/ "recvfrom" \notin Ops /\ AnswerTime <= AtDefault

\* find_socket() is never ambiguous until an answer is lost: URCs that count
\* datagrams reach the socket they are for.
HandlesUnique ==
  faults = MaxFaults =>
    \A r, s \in Slots :
      sockets[r].modem_handle = sockets[s].modem_handle /\ r # s
        => sockets[r].modem_handle = SOCKET_UNUSED

\* socket_recvfrom() relies on "should never fail to read when there is
\* pending data" (line 420): until an answer is lost, what the driver counts
\* as pending, with the URCs still unread, is with the modem or on the line.
PendingIsThere ==
  faults = MaxFaults =>
    \A s \in Slots : LET h == sockets[s].modem_handle IN
      IsOpen(h) =>
        sockets[s].pending + BytesInTransit("NSONMI", h)
          <= Total(modem[h].waiting) + BytesInTransit("OK", h)

\* A callback is only ever registered for a socket its application still has:
\* no URC runs one for a socket that was closed, until an answer is lost.
CallbackHasOwner ==
  faults = MaxFaults =>
    \A s \in Slots : sockets[s].callback => \E t \in Threads : handle[t] = s

\* A call has returned with the mutex (line 403).
MutexKept == \E t \in Threads : mtx = t /\ pc[t] = "idle"

\* As long as no call keeps the mutex every call returns, with any answer lost,
\* cut, refused or not waited for and the nested locks of a read.
CallsReturn == \A t \in Threads : pc[t] # "idle" ~> (pc[t] = "idle" \/ MutexKept)

(***************************************************************************)
(* What the code does not keep.                                            *)
(***************************************************************************)

\* UbloxCellularBaseN2xx.h:431: LOCK() and UNLOCK() "make sure that lock unlock
\* pair is always balanced": a call that has returned has given the mutex back.
MutexReleased == \A t \in Threads : pc[t] = "idle" => mtx # t
================================================================================
