-------------------------- MODULE ATSocketsRefinement --------------------------
(***************************************************************************)
(* ATSockets implements ATChannel, for any number of threads and any       *)
(* faults.  A step of ATSockets is a step of the channel or changes        *)
(* nothing of it; the invariants that make it so are those of              *)
(* ATSocketsProofs.                                                        *)
(***************************************************************************)
EXTENDS ATSocketsProofs

None == NoCommand.name

LEMMA AwaitedNames ==
  /\ DOMAIN AwaitedCommand = Waiting
  /\ \A l \in Waiting : AwaitedCommand[l] \in CommandNames
  /\ None \notin CommandNames
  BY DEF AwaitedCommand, Waiting, CommandNames, None, NoCommand

\* Where a thread goes decides what it waits for.
LEMMA AwaitedAfter ==
  ASSUME ChannelInv, NEW t \in Threads, NEW l, Goto(t, l)
  PROVE  /\ l \in Waiting => Awaited' = [Awaited EXCEPT ![t] = AwaitedCommand[l]]
         /\ l \notin Waiting => Awaited' = [Awaited EXCEPT ![t] = None]
<1>1. DOMAIN AwaitedCommand = Waiting
  BY AwaitedNames
<1>2. /\ pc'[t] = l
      /\ \A u \in Threads : u # t => pc'[u] = pc[u]
  BY DEF ChannelInv, TypeInv, TypeOK, Goto, Actors
<1>3. AwaitedCommand' = AwaitedCommand
  BY DEF AwaitedCommand
<1>4. QED
  BY <1>1, <1>2, <1>3 DEF Awaited, None

\* A thread waits for a command exactly while it is at a pc of Waiting.
LEMMA AwaitedNow ==
  ASSUME NEW t \in Threads
  PROVE  /\ pc[t] \in Waiting => Awaited[t] \in CommandNames
         /\ pc[t] \notin Waiting => Awaited[t] = None
  BY AwaitedNames DEF Awaited, None

LEMMA Stutters ==
  ASSUME Awaited' = Awaited, cmd' = cmd, AnswersInTransit' = {} <=> AnswersInTransit = {}
  PROVE  UNCHANGED Channel!vars
  BY DEF Channel!vars

LEMMA StaysQuiet ==
  ASSUME ChannelInv, NEW t \in Threads, NEW l, Goto(t, l), l \notin Waiting,
         pc[t] \notin Waiting, UNCHANGED <<cmd, line>>
  PROVE  UNCHANGED Channel!vars
<1>1. Awaited[t] = None /\ Awaited' = [Awaited EXCEPT ![t] = None]
  BY AwaitedNow, AwaitedAfter
<1>2. Awaited' = Awaited
  BY <1>1 DEF Awaited
<1>3. QED
  BY <1>2, Stutters DEF AnswersInTransit

LEMMA Asks ==
  ASSUME ChannelInv, NEW t \in Threads, NEW l \in Waiting, Goto(t, l), mtx = Nobody,
         cmd'.name = AwaitedCommand[l], line' = line
  PROVE  Channel!Next
<1>1. cmd = NoCommand /\ AnswersInTransit = {}
  BY Silence
<1>2. \A d \in Threads : Awaited[d] = None
  <2>1. \A d \in Threads : pc[d] \notin Waiting
    BY ThreadsAssumption DEF ChannelInv, TimeoutInv, Holding, Actors
  <2>2. QED
    BY <2>1, AwaitedNow
<1>3. AnswersInTransit' = {}
  BY <1>1 DEF AnswersInTransit
<1>4. Awaited' = [Awaited EXCEPT ![t] = AwaitedCommand[l]]
  BY AwaitedAfter
<1>5. Channel!Ask(t, AwaitedCommand[l])
  BY <1>1, <1>2, <1>3, <1>4 DEF Channel!Ask, None
<1>6. QED
  BY <1>5, AwaitedNames DEF Channel!Next

LEMMA Hears ==
  ASSUME ChannelInv, NEW t \in Threads, NEW l, Goto(t, l), pc[t] \in Waiting, l \notin Waiting,
         cmd = NoCommand, cmd' = cmd, AnswersInTransit' = {}
  PROVE  Channel!Next
<1>1. Awaited[t] # None /\ Awaited' = [Awaited EXCEPT ![t] = None]
  BY AwaitedNow, AwaitedAfter, AwaitedNames
<1>2. Channel!Hear(t)
  BY <1>1 DEF Channel!Hear, None
<1>3. QED
  BY <1>2 DEF Channel!Next

LEMMA HearsAndAsks ==
  ASSUME ChannelInv, NEW t \in Threads, NEW l \in Waiting, Goto(t, l), pc[t] \in Waiting,
         cmd = NoCommand, cmd'.name = AwaitedCommand[l], AnswersInTransit' = {}
  PROVE  Channel!Next
<1>1. Awaited[t] # None /\ Awaited' = [Awaited EXCEPT ![t] = AwaitedCommand[l]]
  BY AwaitedNow, AwaitedAfter, AwaitedNames
<1>2. Channel!HearAndAsk(t, AwaitedCommand[l])
  BY <1>1 DEF Channel!HearAndAsk, None
<1>3. QED
  BY <1>2, AwaitedNames DEF Channel!Next

\* Reading a URC leaves the answers on the line alone.
LEMMA URCTaken ==
  ASSUME ChannelInv, line # << >>, Head(line).type \notin Answers, line' = Tail(line)
  PROVE  AnswersInTransit' = {} <=> AnswersInTransit = {}
<1>1. line \in Seq(LineItem)
  BY DEF ChannelInv, TypeInv, TypeOK
<1>2. AnswersInTransit = {} => AnswersInTransit' = {}
  BY <1>1, AfterTail
<1>3. ASSUME NEW i \in AnswersInTransit
      PROVE  AnswersInTransit' # {}
  <2>1. /\ Len(line) \in Nat /\ Len(line') = Len(line) - 1
        /\ \A k \in 1..Len(line') : line'[k] = line[k + 1]
        /\ Head(line) = line[1]
    BY <1>1
  <2>2. i \in 1..Len(line) /\ line[i].type \in Answers
    BY DEF AnswersInTransit
  <2>3. i # 1
    BY <2>1, <2>2
  <2>4. i - 1 \in 1..Len(line') /\ line'[i - 1] = line[i]
    BY <2>1, <2>2, <2>3
  <2>5. i - 1 \in AnswersInTransit'
    BY <2>2, <2>4 DEF AnswersInTransit
  <2>6. QED
    BY <2>5
<1>4. QED
  BY <1>2, <1>3

LEMMA ChannelNext == ChannelInv /\ [Next]_vars => [Channel!Next]_(Channel!vars)
<1> SUFFICES ASSUME ChannelInv, [Next]_vars
             PROVE  Channel!Next \/ UNCHANGED Channel!vars
  OBVIOUS
<1> USE DEF threadVars, timeoutVars, modemVars, driverVars
<1>a. line \in Seq(LineItem) /\ (\A a \in Actors : pc[a] \in Holding <=> mtx = a)
      /\ Threads \subseteq Actors /\ EventThread \in Actors
  BY DEF ChannelInv, TypeInv, TypeOK, TimeoutInv, Actors
<1>1. ASSUME NEW a \in Actors, RunURC(a)
      PROVE  UNCHANGED Channel!vars
  <2>1. CASE CallCallback(a)
    BY <2>1, Stutters DEF CallCallback, Awaited, AwaitedCommand, AnswersInTransit
  <2>2. CASE \E type \in URCs : HandleURC(a, type)
    <3>1. line # << >> /\ line' = Tail(line) /\ UNCHANGED <<pc, cmd>>
          /\ Head(line).type \notin Answers
      BY <2>2 DEF HandleURC, Arrived, URCs, Answers
    <3>2. AnswersInTransit' = {} <=> AnswersInTransit = {}
      BY <3>1, URCTaken
    <3>3. QED
      BY <3>1, <3>2, Stutters DEF Awaited, AwaitedCommand
  <2>3. QED
    BY <1>1, <2>1, <2>2 DEF RunURC, UUSORD_URC, UUSOCL_URC, UUPSDD_URC, URCs
<1>2. CASE EventBegin \/ EventEnd
  <2>1. \A t \in Threads : pc'[t] = pc[t]
    BY <1>2, ThreadsAssumption
    DEF EventBegin, EventEnd, Goto, ChannelInv, TypeInv, TypeOK, Actors
  <2>2. Awaited' = Awaited
    BY <2>1 DEF Awaited, AwaitedCommand
  <2>3. QED
    BY <1>2, <2>2, Stutters DEF EventBegin, EventEnd, AnswersInTransit
<1>3. ASSUME NEW t \in Threads, StartCall(t)
      PROVE  Channel!Next \/ UNCHANGED Channel!vars
  <2>1. pc[t] \notin Waiting
    BY <1>3
    DEF StartCall, socket_open, OpenNoMemory, socket_close, socket_bind, socket_connect,
        BeginExchange, socket_attach, socket_send, socket_recv, BeginCall, Waiting
  <2>2. CASE socket_open(t) \/ socket_close(t) \/ socket_bind(t) \/ socket_connect(t)
    <3>1. PICK l \in Waiting : Goto(t, l) /\ cmd'.name = AwaitedCommand[l]
      BY <2>2
      DEF socket_open, socket_close, socket_bind, socket_connect, BeginExchange, Send,
          AwaitedCommand, Waiting
    <3>2. mtx = Nobody /\ line' = line
      BY <2>2
      DEF socket_open, socket_close, socket_bind, socket_connect, BeginExchange, LOCK
    <3>3. QED
      BY <3>1, <3>2, Asks
  <2>3. CASE OpenNoMemory(t) \/ socket_attach(t) \/ socket_send(t) \/ socket_recv(t)
    <3>1. PICK l \in {"idle", "attach", "sendLoop", "recvLoop"} : Goto(t, l)
      BY <2>3 DEF OpenNoMemory, socket_attach, socket_send, socket_recv, Return
    <3>2. UNCHANGED <<cmd, line>>
      BY <2>3 DEF OpenNoMemory, socket_attach, socket_send, socket_recv
    <3>3. QED
      BY <2>1, <3>1, <3>2, StaysQuiet DEF Waiting
  <2>4. QED
    BY <1>3, <2>2, <2>3 DEF StartCall
<1>4. ASSUME NEW t \in Threads, ContinueCall(t)
      PROVE  Channel!Next \/ UNCHANGED Channel!vars
  <2>1. CASE \/ OpenCreated(t) \/ OpenFails(t) \/ CloseDone(t) \/ CloseFails(t) \/ BindDone(t)
             \/ BindFails(t) \/ ConnectEnds(t) \/ SendBlockDone(t) \/ SendFails(t) \/ RecvGotData(t)
             \/ RecvFails(t)
    <3>1. UNCHANGED cmd /\ \E l \in Waiting : GotOK(t, l) \/ GotNothing(t, l)
      BY <2>1
      DEF OpenCreated, OpenFails, CloseDone, CloseFails, BindDone, BindFails, ConnectEnds,
          SendBlockDone, SendFails, RecvGotData, RecvFails, EndExchange, EndTurn, Waiting
    <3>2. cmd = NoCommand /\ AnswersInTransit' = {} /\ pc[t] \in Waiting
      BY <3>1, Heard DEF GotOK, GotNothing, Receiving
    <3>3. PICK l \in {"idle", "sendLoop", "recvLoop"} : Goto(t, l)
      BY <2>1
      DEF OpenCreated, OpenFails, CloseDone, CloseFails, BindDone, BindFails, ConnectEnds,
          SendBlockDone, SendFails, RecvGotData, RecvFails, EndExchange, Return
    <3>4. QED
      BY <3>1, <3>2, <3>3, Hears DEF Waiting
  <2>2. CASE RecvCutShort(t)
    <3>1. cmd = NoCommand /\ AnswersInTransit' = {} /\ UNCHANGED cmd
      BY <2>2, AnswerTaken DEF RecvCutShort, EndTurn, Arrived, Answers
    <3>2. QED
      BY <2>2, <3>1, Hears DEF RecvCutShort, Receiving, Return, Waiting
  <2>3. CASE BindTypeKnown(t) \/ BindClosed(t)
    <3>1. PICK l \in Waiting : Goto(t, l) /\ cmd'.name = AwaitedCommand[l]
      BY <2>3 DEF BindTypeKnown, BindClosed, Send, AwaitedCommand, Waiting
    <3>2. cmd = NoCommand /\ AnswersInTransit' = {} /\ pc[t] \in Waiting
      BY <2>3, Heard DEF BindTypeKnown, BindClosed, GotOK, Receiving, Waiting
    <3>3. QED
      BY <3>1, <3>2, HearsAndAsks
  <2>4. CASE AttachData(t) \/ SendReturns(t)
    BY <2>4, StaysQuiet DEF AttachData, SendReturns, Return, Waiting
  <2>5. CASE RecvWaited(t)
    BY <2>5, StaysQuiet DEF RecvWaited, Receiving, EndTurn, Waiting
  <2>6. QED
    BY <1>4, <2>1, <2>2, <2>3, <2>4, <2>5 DEF ContinueCall
<1>5. ASSUME NEW t \in Threads, TakeTurn(t) \/ TimerExpires(t)
      PROVE  Channel!Next \/ UNCHANGED Channel!vars
  <2>1. CASE SendBlock(t) \/ RecvRead(t)
    <3>1. PICK l \in Waiting : Goto(t, l) /\ cmd'.name = AwaitedCommand[l]
      BY <2>1 DEF SendBlock, RecvRead, Send, AwaitedCommand, Waiting
    <3>2. mtx = Nobody /\ line' = line
      BY <2>1 DEF SendBlock, RecvRead, BeginTurn, LOCK
    <3>3. QED
      BY <3>1, <3>2, Asks
  <2>2. CASE RecvWait(t)
    BY <2>2, StaysQuiet DEF RecvWait, BeginTurn, Waiting
  <2>3. CASE RecvReturns(t)
    BY <2>3, StaysQuiet DEF RecvReturns, Return, Waiting
  <2>4. CASE TimerExpires(t)
    BY <2>4, Stutters DEF TimerExpires, Awaited, AwaitedCommand, AnswersInTransit
  <2>5. QED
    BY <1>5, <2>1, <2>2, <2>3, <2>4 DEF TakeTurn
<1>6. CASE ModemExecutes \/ ModemRefuses
  <2>1. UNCHANGED pc /\ cmd # NoCommand /\ cmd' = NoCommand
    BY <1>6 DEF ModemExecutes, ModemRefuses
  <2>2. AwaitedCommand[pc[mtx]] = cmd.name /\ pc[mtx] \in Waiting
    BY <2>1, AwaitedNames DEF ChannelInv, AnswersReachTheirCaller
  <2>3. cmd.name # None /\ cmd'.name = None
    BY <2>1, <2>2, AwaitedNames DEF None
  <2>4. Awaited' = Awaited
    BY <2>1 DEF Awaited, AwaitedCommand
  <2>5. Channel!Answer
    BY <2>3, <2>4 DEF Channel!Answer, None
  <2>6. QED
    BY <2>5 DEF Channel!Next
<1>7. ASSUME NEW h \in ModemHandles, DataArrives(h) \/ RemoteCloses(h) \/ ContextLost(h)
      PROVE  UNCHANGED Channel!vars
  <2>1. PICK x \in LineItem : line' = Append(line, x) /\ x.type \notin Answers
    <3>1. \A type \in URCs, n \in 0..MaxRx :
            Line(type, h, n) \in LineItem /\ Line(type, h, n).type \notin Answers
      BY DEF Line, LineItem, URCs, Answers
    <3>2. modem[h].rx \in 0..MaxRx
      BY DEF ChannelInv, TypeInv, TypeOK, ModemSocket
    <3>3. modem[h].rx + 1..MaxRx \subseteq 0..MaxRx /\ 0 \in 0..MaxRx
      BY <3>2, SizesAssumption
    <3>4. QED
      BY <1>7, <3>1, <3>3 DEF DataArrives, RemoteCloses, ContextLost, URCs
  <2>2. AnswersInTransit' = AnswersInTransit
    BY <1>a, <2>1, AfterAppend
  <2>3. UNCHANGED <<pc, cmd>>
    BY <1>7 DEF DataArrives, RemoteCloses, ContextLost, NetworkStep
  <2>4. QED
    BY <2>2, <2>3, Stutters DEF Awaited, AwaitedCommand
<1>8. CASE UNCHANGED vars
  BY <1>8, Stutters DEF vars, Awaited, AwaitedCommand, AnswersInTransit
<1>9. QED
  BY <1>1, <1>2, <1>3, <1>4, <1>5, <1>6, <1>7, <1>8 DEF Next

LEMMA ChannelInit == Init => Channel!Init
<1> SUFFICES ASSUME Init
             PROVE  Channel!Init
  OBVIOUS
<1>1. \A t \in Threads : pc[t] = "idle"
  BY ThreadsAssumption DEF Init, Actors
<1>2. Awaited = [t \in Threads |-> None]
  BY <1>1, AwaitedNames DEF Awaited, None, Waiting
<1>3. AnswersInTransit = {} /\ cmd = NoCommand
  BY DEF Init, AnswersInTransit
<1>4. QED
  BY <1>2, <1>3 DEF Channel!Init, None

\* The mutex, the serial line and the control flow of the calls implement the
\* channel: one exchange at a time, and each answer to the thread that asked.
THEOREM ChannelImplemented == Spec => ImplementsChannel
<1>1. Spec => []ChannelInv
  BY TypeInvAlways, TimeoutInvAlways, AnswersAreNotMixedUp, PTL DEF ChannelInv
<1>2. QED
  BY <1>1, ChannelInit, ChannelNext, PTL DEF Spec, ImplementsChannel, Channel!Spec

================================================================================
