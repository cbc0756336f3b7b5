# Verification of the u-blox cellular drivers

TLA+ specifications of the cellular drivers this repository's LWM2M client runs
on, and of the client's main program, the TLC runs that check them on small instances, and
theorems checked by TLAPS. Line numbers refer to the files under `src/`; the shorthand `AT`
stands for `ublox-at-cellular-interface/UbloxATCellularInterface.cpp`, `Base` for
`ublox-cellular-base/UbloxCellularBase.cpp`, `N2AT` and `N2Base` for their N2xx
counterparts, `PPP` for `ublox-ppp-cellular-interface/UbloxPPPCellularInterface.cpp`.

## 1. The system

`main.cpp` reads a battery gauge, brings a cellular modem up, connects and then
keeps an LWM2M registration alive from a loop. Its own code is about 7,000 lines
of C++ in six libraries; `mbed-os` and `mbed-client` are only referenced
(`*.lib`), so what the drivers use of them (`ATCmdParser`, `Mutex`, `poll()`) is
modelled as external, from how it is used.

| Component | Code | State it keeps | Operations | Module |
|---|---|---|---|---|
| AT sockets | `AT` 30-222, 413-912 | `_sockets[]`: modem handle, pending bytes, callback, data; `_mtx`; `_at_timeout` | `socket_open/close/bind/connect/send/sendto/recv/recvfrom/attach`, the URC handlers, `handle_event()` | `ATSockets` |
| AT connection | `AT` 224-411, 965-1161 | `_apn`, `_uname`, `_pwd`, `_auth`, deferred SIM operations | `connect`, `disconnect`, `set_*` | `CellularConnect` |
| Modem base | `Base` | `_modem_initialised`, `_pin`, `_sim_pin_check_enabled`, three registration statuses | `init`, `nwk_registration`, `nwk_deregistration`, `deinit`, SIM operations, `CREG_URC`... | `CellularConnect` |
| Battery gauge | `battery-gauge-bq27441/bq27441.cpp` | `gReady`, `gGaugeOn`; in the chip: sealed, configuration update, hibernate | `init`, `enableGauge`, readings, `advanced*` | `BatteryGauge` |
| N2xx sockets | `ublox-at-cellular-interface-n2xx/` (`N2AT`) | table of UDP sockets with a running pending count; the recursive `_mtx` | `socket_open/close/attach/sendto/recvfrom`, `NSONMI_URC`, `handle_event()` | `N2xxSockets` |
| N2xx modem base | `ublox-cellular-base-n2xx/` (`N2Base`), `N2AT` 694-735 | `_modem_initialised`, `reg_status_eps` | `init`, `connect`, `nwk_registration`, `disconnect`, `deinit`, `CEREG_URC` | `N2xxConnect` |
| PPP interface | `ublox-ppp-cellular-interface/` (`PPP`) | `_ppp_connection_up`, `_apn` | `set_credentials`, `connect`, `disconnect`, `deinit` | `PPPInterface` |
| Application, LWM2M wrapper | `main.cpp`, `simpleclient.h` | `buttonPressed`, `_registered` | `main()`, `cbButton`, the callbacks of mbed-client | `LwM2MApp` |

How the modules are built on each other. `ATChannel` is an abstract specification of the
AT channel that all drivers share; `ATSockets` and `N2xxSockets` implement it (`Channel ==
INSTANCE ATChannel WITH ...`). `LwM2MApp` takes the steps of `CellularConnect`,
`N2xxConnect` and `PPPInterface` by `INSTANCE` and is one program on any of the three. A
module `X` has its theorems in `XProofs` (the refinement of `ATSockets` in
`ATSocketsRefinement`), its instances in `MCX`.

How they interact. The application calls the driver from any thread. The driver
talks to the modem over one serial line through one `ATCmdParser`, guarded by one
mutex (`LOCK()`/`UNLOCK()`). The modem answers commands and, between answers,
sends unsolicited result codes (URCs). Whoever waits in `recv()` runs the URC
handlers of the lines that arrive first; while nobody does, the driver's event
thread polls the line (`handle_event()`, `AT` 34-58). So any thread may change any
socket or registration status, in the middle of its own call.

What is hard. URCs change state in the middle of another thread's call; a receive
lets go of the mutex between turns while other threads close, open or drain the
same table; `socket_attach()` takes no lock; the default AT timeout is swapped for
10 ms or 1 s and must come back on every path; any exchange may fail after the
modem has carried it out; a slot of the table may be freed by a URC while an
application still holds a pointer to it; the driver believes a registration from
URCs that may be disabled; a wrong PIN is repeated on every `init()`; the N2xx mutex is
recursive, so a missed `UNLOCK()` is not noticed by the thread that missed it; the line of
the PPP interface carries commands at one time and data at another; the button and the
callbacks of mbed-client come at any moment of a connection attempt.

What makes each part correct:

* sockets: the table names each modem socket once and agrees with the modem; the
  pending counts are exact and never wrap; an answer reaches the thread that asked;
  the timeout and the mutex are handed back; every call returns; a lost context is
  reported;
* connection: OK means a working profile or a loss that is reported; registration
  status follows the network; a ready modem is powered with its SIM unlocked; the
  PIN the driver keeps and the SIM's stay together; repeated `connect()` succeeds;
* battery gauge: a call leaves the chip sealed, out of configuration mode, and
  hibernating unless the gauge is on;
* N2xx: as for the sockets, plus the mutex released on every path; the registration status
  follows the network;
* PPP: no command is sent as data; a live link is never forgotten; `connect()` returns OK
  only with a link;
* application: the registration is updated until the button is pressed, and then the
  program stops with the modem off.

## 2. ATSockets

One application thread per member of `Threads`, the event thread, the modem and the
network, interleaved. `pc[t]` is where a thread is, `call[t]` what is left of its
call, `handle[t]` the `SockCtrl*` its application socket holds. An exchange is three
steps: the thread sends (`Send`, with the mutex), the modem carries the command out
or refuses it (`ModemExecutes`, `ModemRefuses`), the thread reads the answer
(`GotOK`) or finds none (`GotNothing`). Lines travel in order on `line`; the head is
a URC, and then the holder of the mutex must run its handler, or the answer.

| Code | Actions |
|---|---|
| `socket_open` 423-463 | `socket_open`, `OpenNoMemory`, `OpenCreated`, `OpenFails` |
| `socket_close` 465-484 | `socket_close`, `CloseDone`, `CloseFails` |
| `socket_bind` 486-523 | `socket_bind`, `BindTypeKnown`, `BindClosed`, `BindDone`, `BindFails`: three exchanges under one lock |
| `socket_connect` 525-546 | `socket_connect`, `ConnectEnds` |
| `socket_send`, `socket_sendto` 548-651 | `socket_send`, `SendBlock`, `SendBlockDone`, `SendFails`, `SendReturns`: the mutex is released between blocks |
| `socket_recv`, `socket_recvfrom` 653-857 | `socket_recv`, `RecvRead` or `RecvWait` or `RecvReturns` (a turn takes the mutex), `RecvGotData`, `RecvCutShort`, `RecvFails`, `RecvWaited`, `EndTurn` |
| `socket_attach` 875-887 | `socket_attach`, `AttachData`: two stores, no lock |
| `handle_event` 34-58 | `EventBegin`, `EventEnd` |
| URC handlers 128-221 | `UUSORD_URC` (for `UUSORF_URC` too), `CallCallback`, `UUSOCL_URC`, `UUPSDD_URC` |

Data are counted, not carried. `pending` has the width `PendingMod`, so that a
subtraction below zero would wrap as `nsapi_size_t` does. The modem hands out any
free handle, the network sends data, closes connections and drops contexts,
`MaxFaults` commands are refused or their answers lost or cut.

Assumptions about the modem, which is not in the repository: it answers within the
timeout or not at all (an answer that comes after `recv()` gave up is not modelled);
it may interleave URCs with an answer, never split one; the argument of `+UUPSDD`
is looked up as a socket handle, because that is what `UUPSDD_URC` does with it.

### Runs

| Run | Instance | Shows |
|---|---|---|
| `socket_lifecycle` | 2 symmetric threads, 2 slots, 2 handles; open, connect, attach, close, sends of two blocks; all events, no fault | `TypeOK`, `HandlesUnique`, `TablesAgree`, `AnswersReachTheirCaller` |
| `receive` | 2 threads, 2 slots, reads of 1-2 bytes, 2 bytes in the modem | `PendingExact`, `PendingNeverWraps`, `NoSpuriousError`, `OnlyOwnSocket` |
| `socket_liveness` | 2 threads that compete for 1 slot; open, bind, receive, close; one fault, data and context losses, `FairSpec` | `AnswersReachTheirCaller`, `TimeoutRestored`, `ImplementsChannel`, `CallsReturn`, `ContextLossReported` |
| `bind_loses_socket` | 1 thread | finding, section 8 |

`ImplementsChannel` is the refinement: with `waiting` the command that each thread's pc
waits for, `request` the modem's command and `reply` whether an answer is on the line,
every behaviour of `ATSockets` is one of `ATChannel`, in which a client asks only when
nobody else waits and each answer goes to the client that asked. URCs, the event thread,
the table and the timeout are stutters of it.

Why the bounds are enough. Two threads are all an interleaving of a mutex and a
table needs: one in a call, one that changes the table under it. Two slots and two
handles let the tables drift apart and let `find_socket()` be ambiguous. With
`MaxRead = 2` and `MaxRx = 2` an answer is shorter than, equal to and as long as
what is pending; `MaxSize = 3` with `MaxWrite = 2` makes a send of one full and one
partial block. `MaxLine` bounds the URCs under way: two of them can overtake a
command. `PendingMod = 8` is above every legal count, as 2^32 is above the modem's
buffer. `HandlesUnique` and `TablesAgree` are checked without faults and without
`socket_bind()`: with either the code breaks them (a lost answer to a close leaves
the slot taken while the modem's handle is free; the finding about bind below).
`OnlyOwnSocket` is checked on a network that does not close connections (section 8).

Fairness (`FairSpec`). A thread that can go on inside a call does (weak); one that
waits for the mutex gets it in the end (strong: others take it in between; RTX
mutexes serve waiters by priority and then in order); the event thread likewise; the
modem answers or is given up on, because `recv()` has a timeout; a receive's timer
runs. Nothing is assumed of the application or the network.

## 3. CellularConnect

One application thread, the modem with its SIM, the network. An exchange is one step
that finds the line drained (`At`), because `recv()` runs the handlers of everything
that came before the answer; between exchanges URCs arrive and the network acts.
`Answered` and `Fault` are the two outcomes of a `recv()`; after a fault the modem
may or may not have done what it was told.

| Code | Actions |
|---|---|
| `init` Base 688-727 | `InitCall`, `PowerUp`, `SimNotReady`, `SimReady`, `SimPin`, `SetUp`, `InitFails`, `InitDone` |
| `sim_pin_check_enable`, `change_sim_pin` Base 854-902 | operators of those names, used by `SimOperationDone` (at once) and `PendingCheck`, `PendingPin` (deferred) |
| `nwk_registration` Base 729-802 | `AlreadyRegistered`, `EnableURCs`, `SetAutomatic`, `QueryStatus`, `WaitTest`, `WaitRead`, `WaitEnds` |
| `connect` AT 1026-1093 | `connect`, `connectWith` |
| `connect_modem_stack` AT 347-392 | `CheckProfile`, `NextCredentials`, `StoreProfile`, `TryProtocol`, `ReuseExternal`, `ActivateByCid` |
| `disconnect` AT 1095-1105 | `disconnect`, `Deactivate`, `nwk_deregistration` |
| `deinit` Base 842-847 | `deinit`, `HardOff` |
| `CREG_URC`, `CGREG_URC`, `CEREG_URC`, `UUPSDD_URC` | `HandleURC` |

A registration status is abstracted to whether its domain counts as registered
(`is_registered_*`, Base 804-821). The SIM has a PIN, a check that is on or off, and
attempts left. `_uname` and `_pwd` are abstracted to whether both are non-empty. The
identity commands of `init()` are one step that succeeds or fails.

### Runs

| Run | Instance | Shows |
|---|---|---|
| `sim_and_faults` | an L2 modem, LTE and packet domains, every call, one PIN and a new one, all SIM calls at once and deferred, power cycles, one loss, one fault | `TypeOK`, `ReadyModemIsUp`, `NoAttemptWasted`, `BeliefMatchesNetwork`, `ConnectionKnown`, `DeferredCarriedOut` |
| `connect_liveness` | not an L2 modem, a table of three access points of which the first and the last have a login, authentication unknown, three faults, one loss, repeated `connect()`, `FairSpec` | `ConnectionKnown`, `EventuallyConnected` |

`DeferredCarriedOut` says what a deferred operation that `connect()` drops on its way to
the network has come to. A new PIN is in the SIM and in the driver. A switch of the check
is in the driver; it is in the SIM if the driver had to change it or if no exchange has
failed so far. Without the last condition the SIM may be left as it was, because the
driver may take a check that is on for one that is off (Base 662): section 8.

`EventuallyConnected` says that repeated `connect()` calls come to an OK, or that the
driver is for ever left with an access point and an authentication with which the network
refuses it (`CredentialsRefused`). The second does happen, and is the code's doing: it
stores each candidate in `_apn` and overwrites `_auth` (AT 231, 368), so one failed
exchange with a candidate the network accepts moves on to the next and ends the look-up
(section 8). The run's table makes it happen: the `open` access point in the middle,
skipped by a fault, is never tried again.

Why the bounds are enough. Ten turns of the SIM loop, three registrations and 180
turns of waiting become one or two of each: the loops carry no state but their
counter, and one turn that fails and one that succeeds cover them. Two access points,
one with a login, are what a list with more than one candidate needs, three what a
candidate needs that comes after `_auth` has been overwritten and is still followed by
another; two domains
what a status that is registered in one and not in the other needs.
`NoAttemptWasted` and `BeliefMatchesNetwork` speak of runs in which no exchange has
failed yet: after a lost answer to a change of PIN the driver cannot know the PIN.
`EventuallyConnected` is checked for an application that only calls `connect()`; with
`disconnect()` it fails: after a failed AT+CREG=1 or AT+CGREG=1 (Base 745) a URC may stay
disabled, a lost answer to AT+COPS=2 then leaves a status that nobody corrects, and
`connect()` skips the registration for ever.

Fairness: the thread runs, URCs are read (the event thread), the application calls
`connect()` again (`main.cpp` does, every 30 s), and a network that is searched for
is found.

## 4. BatteryGauge

The driver and the chip. A call is up to four steps: `Begin` tests `gReady` and
`gGaugeOn` without the lock, `Wake` and `Measure` are `makeAdcReading()` (lock,
CLEAR_HIBERNATE, unlock, then a second without the lock), `Locked` is all the rest,
between `gpI2c->lock()` and `gpI2c->unlock()`. `Locked` can be one step because the
chip, `gReady` and `gGaugeOn` are only written with the lock held.

Inside it, the driver's routines are operators from a context to the set of contexts
they may end in, one for each member function: `isSealed`, `seal`, `unseal`,
`readExtendedData`, `writeExtendedData`, `setHibernate`, and the public calls built
from them (`Routine`). `Transfer` is one or more I2C transfers; one that fails may
have been carried out. So every prefix of a call that a failing transfer can leave
behind is an outcome, with the seal, CONFIGUPDATE and the hibernate request as it
left them.

`Init` is a new driver on a chip in any state, since `batteryPercentage()` makes a driver
and calls its `init()` for each reading, over a chip that an earlier one has used
(simpleclient.h 74-77).

The chip is external and is modelled from what the driver's comments say of it: an
access wakes it; it is open or sealed and refuses its configuration while sealed; on
the SOFT_RESET that ends a configuration update, and on a RESET, it seals itself if
bit 7 of Update Status is set; a RESET takes its data back to the defaults.

### Runs

| Run | Instance | Shows |
|---|---|---|
| `gauge` | 2 symmetric threads, all calls but `advancedGet`, `advancedSendControlWord`, one failing transfer | `TypeOK`, `GaugeOnAwake`, `HibernatesAgain`, `SealKept`, `UnsealedForGood` |

Why the bounds are enough. The chip's state is finite and the calls repeat without
bound. Two threads cover a reading that overlaps any other call. One failing transfer is
anywhere in a call, and whatever it leaves behind is met by every later call of both
threads. `GaugeOnAwake` and `HibernatesAgain` speak of runs in which no transfer has
failed yet: when a SET_HIBERNATE is carried out and reported as failed the driver cannot
know better. `advancedGet` and `advancedSendControlWord` are modelled, and left out of
the run because they leave the chip awake (section 8).

## 5. N2xxSockets

The UDP sockets of the NB-IoT modem, laid out as `ATSockets`. What differs is what the
code does differently: `NSONMI_URC` adds the length of one datagram to `pending`, a read
fetches one datagram, `socket_recvfrom()` copies the AT timeout before it has the mutex
(N2AT 382), never frees its buffer (N2AT 401) and returns without `UNLOCK()` when it gets
none (N2AT 403). So the mutex is counted (`depth`) and so are the buffers that `malloc()`
can still give (`heap`): a send takes one until its block is done (`SendBuffer`, N2AT 307),
a read loses one and takes another until it returns (`RecvRead`, N2AT 401, 456).

Timeouts. The modem, which is external, takes up one command at a time and takes up to
`AnswerTime` to deal with it. `at_timeout` is the driver's `_at_timeout`, in ms, with the
values the code gives it: 8000, 10 while the event thread polls, 1000 in a read. A `recv()`
gives up when the command has been dealt with and nothing has come, and, which is what the
copy at N2AT 382 makes of it, while the modem still has the command if `at_timeout` is
less than `AnswerTime` (`TimedOut`). The answer of a command given up then meets whatever
is in `recv()` when it comes: a thread that waits for the answer to the same kind of command
takes it for its own (`Matches`), `AT+NSOCL` is content with any `OK`, an `ERROR` ends
anybody's wait, and everyone else throws it away (`SkipLine`). A number of bytes sent that
belongs to an earlier block may be more than is left, and what is left is unsigned
(`SizeMod`). An answer may also be lost, be cut (`HEAD`) or begin after its first `recv()`
has given up, so that only its `OK` is seen (`LATE`); a read of a socket without data is
answered `EMPTY`. The driver sends a command only when the modem has dealt with the last:
what a modem does with a command that overlaps another is not known and is not modelled.

| Code | Actions |
|---|---|
| `socket_open` N2AT 168-204 | `socket_open`, `OpenNoMemory`, `OpenCreated`, `OpenFails` |
| `socket_close` N2AT 207-228 | `socket_close`, `CloseDone`, `CloseFails` |
| `socket_attach` N2AT 527-539 | `socket_attach` |
| `socket_sendto`, `sendto` N2AT 252-338 | `socket_sendto`, `SendNoBuffer`, `SendBuffer`, `SendBlock`, `SendGot`, `SendFails` |
| `socket_recvfrom`, `receivefrom` N2AT 365-498 | `socket_recvfrom`, `BeginTurn`, `RecvRead` or `RecvNoBuffer` or `RecvWait` or `RecvReturns`, `RecvGot`, `RecvSizeUnread`, `RecvFails`, `RecvWaited`, `EndTurn` |
| `handle_event` N2AT 41-64, `NSONMI_URC` N2AT 107-138 | `EventBegin`, `EventEnd`, `NSONMI_URC` |

| Run | Instance | Shows |
|---|---|---|
| `n2xx_sockets` | 2 threads, 2 slots, one modem handle, all calls, a modem that takes up to 1 s, two buffers, one fault, `FairSpec` | `TypeOK`, `HandlesUnique`, `PendingIsThere`, `CallbackHasOwner`, `AnswersReachTheirCaller`, `ImplementsChannel`, `CallsReturn` |
| `n2xx_lock_kept` | 2 threads that open, read and close, no fault | finding, section 8 |

`AnswersReachTheirCaller` and `ImplementsChannel` say that no thread takes another's answer,
whatever is lost, cut, late or refused and whoever keeps the mutex, as long as no `recv()`
has given up on a command that the modem still has. That is an assumption, and the history
variable `hasty` is its negation: the first such `recv()` sets it for good. The code does
not keep it by itself. In the run's instance the 10 ms of the event thread, saved by a read
and restored for good (N2AT 382), are less than the modem's 1 s, so `hasty` is reached, and
beyond it an answer may be taken by another thread; the run then still checks the types and
that every call returns. What suffices for the assumption is a modem that is `Patient`: one
that answers within 10 ms if `socket_recvfrom()` is called, and within `AT_PARSER_TIMEOUT`
if it is not. For such a modem the refinement is a theorem without any condition
(`PatientChannelImplemented`, section 9). An NB-IoT modem is not that fast.

One modem handle for two slots makes every re-use of a handle an ambiguity that
`HandlesUnique` would see; datagrams of one byte with reads of two, and two waiting,
give reads of less than is pending; `MaxPending` keeps datagrams from coming while more than
one byte is counted; with two buffers a read finds both, only its first, or
none, and so does what follows it. `HandlesUnique`, `PendingIsThere` and `CallbackHasOwner`
speak of runs without a fault so far: a lost answer to a close breaks all three.
`CallsReturn` is stated for as long as no call keeps the mutex, because of the finding; the
run has no deadlock check, because the system does stop there: once a thread has kept the
mutex `MaxDepth` times the model's application makes no further call and nobody else can.
The fairness is that of `ATSockets`.

## 6. N2xxConnect and PPPInterface

`N2xxConnect`: `connect()` and `disconnect()` of the N2xx interface on `init()`,
`nwk_registration()` and `deinit()` of its base class, one thread, an exchange a step.
Unlike `UbloxCellularBase` it asks for the status in each registration, and `power_up()`
flushes the line while `power_down()` does not: `urc` is the last report that waits, of a
modem that has been switched off too. The circuit and packet switched statuses are never
set from the line and are left out. 180 seconds of waiting are one step that ends in a
registration or in the next attempt; the modem may have registered at any moment before.

| Code | Actions |
|---|---|
| `init` N2Base 749-780, `power_up` 647-684 | `InitCall`, `PowerUp`, `SetUp`, `Ready` |
| `connect` N2AT 694-719 | `connect`, `Ready`, `AttemptFails` |
| `nwk_registration` N2Base 783-821 | `EnableURC`, `SetAutomatic`, `QueryStatus`, `WaitSeconds` |
| `disconnect` N2AT 722-735, `nwk_deregistration` N2Base 843-863 | `disconnect`, `Settle` |
| `deinit` N2Base 866-870, `power_down` 687-708 | `deinit`, `HardOff` |
| `CEREG_URC` N2Base 473-500, event thread | `HandleURC`, `EventThread` |

`PPPInterface`: the line is in command or data mode (`mode`), the PPP link up or not
(`link`), `up` is `_ppp_connection_up`. In data mode a command is sent to the network and
never answered (`Unheard`). `init()` and `nwk_registration()`, which `CellularConnect`
follows step by step, are one step each here (`InitModem`, `Register`). PPP is external:
a connection comes up or fails in either mode; closing it may fail; the network may end
it, and a modem in data mode that sees no frames gives up.

| Code | Actions |
|---|---|
| `connect` PPP 171-245 | `AlreadyUp`, `connect`, `Ready`, `Register`, `PppConnect`, `Escape`, `AttemptFails` |
| `setup_context_and_credentials` PPP 37-56, `get_next_credentials` 81-92 | `SetContext` |
| `set_atd` PPP 59-68 | `Dial` |
| `disconnect` PPP 248-264 | `disconnect`, `Drain`, `nwk_deregistration` |
| `deinit`, `power_down` Base 558-579, 842-847 | `deinit`, `SoftOff`, `HardOff` |

`CommandsInCommandMode` is about every step that sends a command (`Commanding`), the
AT+CPWROFF of `deinit()` included (`softOff`, Base 558-568). It holds in the program, which
disconnects first (main.cpp 338-339). An application that calls `deinit()` with the link up
sends that command as data; `OnlyOffAsData` says that it is the only one, whatever the order
of calls.

Both modules have a specification of their own, in which the calls come in any order;
the theorems are about that one. TLC checks them inside `LwM2MApp`, and
`ppp_ok_without_link` checks `PPPInterface` alone with one refused dial.

## 7. LwM2MApp

`main()` with `MbedClient`, on the interface `interface` is drawn from (`main.cpp` 39-49
selects one at build time). `at` is where `main()` is; its calls into the interface take
the steps of that interface's module (`Call`), one step of the interface at a time
(`InCall`), so that the button (`cbButton`), the network (`Network`, `Cellular`), the event
thread (`ReadURC`) and the callbacks of mbed-client come between any two of them.
mbed-client is external: it takes requests and answers each when the connection works
(`Connected`), or reports an error.

| Code | Actions |
|---|---|
| `main` main.cpp 269-343 | `Start`, `InitReturned`, `Connect`, `ConnectReturned`, `Disconnect`, `Deinit`, `Stopped` |
| `test_register`, `test_update_register`, `test_unregister` | actions of those names |
| `batteryPercentage` simpleclient.h 70-109 | `batteryPercentage` |
| callbacks simpleclient.h 405-487 | `object_registered`, `object_unregistered`, `registration_updated`, `error` |

| Run | Instance | Shows |
|---|---|---|
| `application` | each of the three interfaces, a table of two access points, the second with a login, two attempts, two faults, two refusals, one loss, one refused request, one failing reading, the button at any moment, `FairSpec` | `TypeOK`, `CommandsInCommandMode`, `LinkIsKnown`, `BeliefFollowsNetwork`, `OkMeansConnected`, `StopsWhenPressed`, `ATUpdatesGoOn` |
| `app_updates_stop` | the PPP interface, nothing fails | finding, section 8 |

Why the bounds are enough. Two attempts of three cover one that fails and one that
succeeds; two faults let the answer to a repetition fail too; with one loss the
connection goes once at any moment and must be had again. The PIN is right and
both access points of the table are accepted: wrong ones are the subject of
`CellularConnect`. The second one is what the program comes to when an exchange with the
first fails, with PPP as with the AT driver. The program stops, so deadlock is not checked.

`OkMeansConnected` is about the two AT drivers, each in its own terms: an OK of the N2xx
comes only while the modem is registered, an OK of the AT driver only while the profile is
active or its loss has been, or will be, reported. Of PPP it says nothing (section 8).
`ATUpdatesGoOn` holds with the same exception as `EventuallyConnected` (section 3): `main()`
leaves the access point to the driver, and a failed exchange may leave the driver with one
that the network refuses with what is left of the authentication.

Fairness: `main()` runs and the modem answers or is given up on (`WF_vars(Main)`),
mbed-client answers a registration while the connection works, the event thread reads
URCs, and a modem that looks for a network finds one. Nothing is assumed of the button,
of losses or of the other callbacks. `StopsWhenPressed` also needs `batteryPercentage()`
to end, and `MaxUnread` bounds the readings that fail: a gauge that never answers would
keep `main()` in it for ever (simpleclient.h 83).

## 8. Findings

Each is the violation run of the property named, which quotes what a header, a comment
or a message promises.

* `bind_loses_socket` (`BindKeepsTheSocket`): `socket_bind()` closes and re-creates
  the modem's socket and then writes the old handle back over the new one (AT 515).
* `n2xx_lock_kept` (`MutexReleased`): `socket_recvfrom()` loses a buffer with each read
  (N2AT 401), and when the heap is empty it returns with the mutex (N2AT 403).
* `ppp_ok_without_link` (`OkMeansLink`): when the modem refuses to dial, `connect()`
  returns the OK of the step before (PPP 219).
* `app_updates_stop` (`UpdatesGoOn`): the PPP interface answers `IS_CONNECTED` while the
  link is up (PPP 173), which the loop takes for a failure (main.cpp 309): after the first
  turn the registration is never updated again.

Further disagreements seen in behaviours of the modules, without a run of their own:

* `socket_recvfrom()` of the N2xx copies the AT timeout without the mutex (N2AT 382), where
  the other copies have "to be inside LOCK()s" (N2Base 653). It may take the event thread's
  10 ms and restore them for good: every later exchange of any thread gives up after 10 ms,
  and its answer meets the next one (`hasty`, section 5).
* A SIM that an earlier, failed `init()` unlocked answers READY and is taken for one that
  needs no PIN (Base 662): a deferred request to switch the check off is dropped by
  `connect()` without an exchange, with the check still on in the SIM.
* The candidate access points are stored in the member that says whether the caller gave
  one, so a `connect()` that fails ends the look-up for good (AT 231, 359).
* `_auth` is overwritten with NONE for credentials without a login and stays so (AT 368),
  where the header says that with `NSAPI_SECURITY_UNKNOWN` all of none, PAP and CHAP are
  tried.
* After a remote close the slot is free while its owner still holds it; another thread
  takes it and the first one's `close()` closes the other's connection (AT 195).
* `UUSOCL_URC()` clears the callback with the socket and calls nothing (AT 195),
  where the header says state changes call it.
* `socket_attach()` stores the callback and then its data without the lock the
  handlers run under (AT 885): after `socket_attach`, before `AttachData`, a
  `+UUSORD` calls the new callback with the old data.
* When the answer to a close is lost the slot stays taken while the modem's handle is free,
  and a later open puts that handle into a second slot (AT 476).
* `disconnect()` deregisters (AT 1100), which its header says it does not.
* `getRemainingPercentage()` hibernates the chip where its comment says it wakes it,
  and then reads (bq27441.cpp 1029).
* `advancedGet()` leaves the chip awake (bq27441.cpp 1144); the header says that every
  call returns it to its lowest power state.
* A second `init()`, which the header asks for after a change of the seal code,
  hibernates a chip whose gauge is on and leaves `gGaugeOn` (bq27441.cpp 637); after
  `advancedReset()` the thresholds without which the chip does not hibernate are gone.
* A chip opened by `advancedUnseal()` and sealed again by `advancedSeal()` is left open
  by the next configuration update, which the driver expects to re-seal it
  (bq27441.cpp 414).
* `getCurrent()` always hands out zero (bq27441.cpp 948).
* makeAdcReading() lets go of the lock while a measurement is taken, and another thread's
  reading may send the chip back to sleep before the value is read, where the comment says
  "Make sure there's a recent reading" (bq27441.cpp 877): `Locked` with `Kind` stale.
* A read of the N2xx that takes less than a datagram leaves `pending` at what the
  block size says (N2AT 412), not at "any remainder" of the datagram, which the modem may
  have thrown away.
* `deinit()`, and a link that the network ends, leave `_ppp_connection_up` set: a later
  `connect()` answers `IS_CONNECTED` (PPP 176). A `deinit()` with the link up also sends its
  AT+CPWROFF as data (Base 558).
* A report that the N2xx modem sent before it was switched off may be read by the event
  thread afterwards, and with a failing query the next `connect()` returns OK on it.
* `test_unregister()` and `disconnect()` follow each other at once (main.cpp 337-338): the
  answer of the server is not waited for.

## 9. Proofs

Every theorem is of the specification without fairness (`Spec`) and for every value of
the constants that the module's named assumption allows: any threads, slots, handles,
sizes and bounds. Each safety property that a passing run checks is proved, some under a
condition that says which program or which network it is about; the runs check the same
formula on a small instance. The argument is always the same: an invariant that implies
the property and is preserved by each action, one lemma per action or per kind of step.
The invariants build on each other in each module, from control (who holds the mutex,
who waits) and types to the channel and from there to the data.

`ATSocketsProofs` (`ThreadsAssumption`, `SizesAssumption`):

* `TimeoutIsRestored`. `TimeoutRestored` speaks of the moment the mutex is free and is
  not inductive; `TimeoutInv` adds that a thread is at a pc of `Holding` exactly while it
  owns the mutex, that it has saved the default while it is at one of `Saving`, and that
  the timeout is the default when nobody is.
* `TypeCorrect`. `TypeInv` adds to `TypeOK` what the arithmetic needs: how much of a call
  is left at each pc and what a read may return. The types of a slot, of the line and of
  a call are lemmas, used opaquely.
* `AnswersAreNotMixedUp`. `ChannelInv` joins `AnswersReachTheirCaller` to `TimeoutInv`
  (only the holder of the mutex is at a waiting pc) and to `TypeInv` (the line is a
  sequence); `Silence` says that outside an exchange nothing is owed.
* `HandlesAreUnique`, `NoSocketIsLeaked`, `PendingIsExact`, `SubtractionIsSafe`, from
  `TableInv`. None of the four is inductive, for all of them speak of the table while
  lines about it are on their way. `TableInv` says what is in transit about each handle:
  every exchange will be answered (`NothingLost`); a URC still finds its slot, a loss is
  the last one about a socket, and the answer that creates or closes a socket comes after
  all of them (`URCsInOrder`); a modem socket is open exactly if a slot holds it that no
  unread line ends, or the answer that creates it waits (`OpenIsKnown`); and `pending`
  after the unread news is what the modem holds, less the answer to the read under way
  (`PendingInv`). It is claimed until the first fault (`FaultlessInv`) and for programs
  that do not call `socket_bind()`, which puts a dead handle back into the table
  (section 8). The network may close sockets and drop contexts at any moment.
* `NoErrorIsSpurious`, `SocketsAreOwn`, from `OwnInv` on top of `TableInv`: each socket
  has one owner, in the table and in the modem, every command names an open socket of the
  thread that sends it, and no read is answered with nothing. Both need a network that only
  delivers data: a remote close frees a slot that the application still holds a handle
  to, and the next `socket_open()` of another thread is given it (section 8).

`ATSocketsRefinement`, under the same assumptions:

* `ChannelImplemented`: `Spec => ImplementsChannel`, that is, `ATSockets` implements
  `ATChannel`. `ChannelInv` above is the invariant: it says that nobody waits unless it
  holds the mutex and that outside an exchange no command and no answer is on the way.
  Each action is a step of the abstract specification or a stutter: `Ask` where a thread
  sends, `Answer` where the modem executes or refuses, `Hear` or `HearAndAsk` where the
  thread goes on.

`N2xxSocketsProofs` (`N2xxAssumption`):

* `TypeCorrect`. `ControlInv` counts the recursive mutex: how often its owner has locked
  it at each pc, with what earlier calls left locked. `TypeInv` adds what is left of each
  call.
* `AnswersAreNotMixedUp` and `ChannelImplemented`, as for `ATSockets`, although a thread
  may keep the mutex after its call (section 8): it then keeps the others out of the
  channel, and its own calls still ask one at a time. Both hold as long as `hasty` is FALSE.
  `HastyInv` says that a hasty `recv()` has used up a fault, so that what holds until the
  first fault can rely on the channel (`UntilAFault`).
* `PatientChannelImplemented`: `Patient` implies `Spec => Channel!Spec`, the refinement with
  no condition on the behaviour and a stated one on the modem. `NeverHasty` needs to know
  which timeouts there can be: `TimeoutInv` says that without `socket_recvfrom()` the timeout
  is the default whenever the event thread is not polling.
* `HandlesAreUnique`, `CallbacksHaveOwners`, from `FaultlessInv`: until an answer is lost,
  the slots in use, the sockets open in the modem and the handles of the application are
  the same, but for the one that is being created or closed.
* `PendingIsKept`: `Spec => []PendingIsThere`, from `PromiseInv`. What a slot has counted,
  with what is announced and unread, is covered by what waits in the modem and what a
  read is being given (`PromiseKept`). To be inductive it must say three more things: a
  handle that is about to be given out has no more announced than waits (`NewPromise`);
  what the line says of a closed socket comes before the answer to its close
  (`LastWords`), so that the next socket of that handle does not count it; and a read
  is answered with no more than the block its thread subtracts (`ReadsOwn`).
  `Total` adds up the members of a sequence by recursion, so its lemmas are inductions.
  They use `NatSetInduction`, about a set of numbers, which follows from the library's
  theorem that a well-founded relation has minimal elements; `Sums` says what the partial
  sums of a sequence are, and that they exist, are unique and end in `Total`.

`CellularConnectProofs` (`ConnectAssumption`):

* `ReadyModemStaysUp`. `ReadyInv` adds that `init()` is only inside its steps while the
  modem is not initialised, that it is powered from the SIM step on and the SIM unlocked
  at the last one.
* `ConnectionStaysKnown`. `KnownInv` carries the claim through the protocol loop of
  `activate_profile()`, where an earlier success may decide the result after the context
  has been lost again, and keeps `disconnect()` and the SIM operations from returning OK
  under the name of `connect()`.
* `TypeCorrect`. `CallFits` adds to the types how far each counter can be at each pc.
* `BeliefFollowsTheNetwork`. `BeliefInv`: until an exchange fails, the status a domain
  will have once the line is read is the network's, wherever URCs are enabled, except
  between the attempt to register and the query that follows it.
* `NoAttemptIsWasted`. `PinInv`: with the right PIN given (`RightPinGiven`), the driver's
  and the SIM's PIN are the same through every change, and no attempt was used.
* `DeferredIsCarriedOut`: an action property; a deferred SIM operation is forgotten only
  by the step that has carried it out. `CheckInv`: until an exchange fails the driver's flag
  is the SIM's setting, so that a check there is no need to switch is the one asked for.

`BatteryGaugeProofs` (`GaugeAssumption`), with one lemma per routine of the driver about
what its transfers can leave in the chip, whichever of them fails:

* `TypeCorrect`, and `UnsealedStaysOpen` for every program.
* `GaugeStaysAwake` and `SealIsKept`, for programs in which `init()` is called until it
  succeeds and not again (`~MayReinit`), as main.cpp does; a second `init()` breaks both.
  `OnceInv`: while one thread is in `init()` the driver is not ready and no other call is
  inside the driver.
* `ChipHibernates`, for the calls that put the chip back to sleep (`PutBackToSleep`):
  `advancedGet()` and `advancedSendControlWord()` leave it awake.

`PPPInterfaceProofs`, for calls in any order and any bounds:

* `TypeCorrect`, with the types of the bounds as its hypothesis (`Sizes`).
* `CommandsStayOffTheLink`: `Spec => []OnlyOffAsData`, for an application that may call
  `deinit()` with the link up. `ModeInv` says in which mode the line is at each pc while
  nothing has failed, and that the line of a live link is in data mode.
* `LinkStaysKnown`, with the same invariant.

`N2xxConnectProofs`, for calls in any order and any number of attempts and losses:

* `TypeCorrect`, as above.
* `BeliefStaysRight`. `BeliefInv` adds that a report that waits says what the network is,
  and which pcs have an initialised, reporting modem.
* `OkIsRegistered`: `Spec => OkMeansRegistered`, from the same invariant.

`LwM2MAppProofs`, for the whole program on any of the three interfaces (`AppAssumption`,
which hands each interface the assumption of its own module):

* `TypeCorrect`. `WholeInv` is the type invariant of the program joined to those of the
  interfaces: the program takes no step in which an interface would leave its types.
* `AppKeepsCommandsOffTheLink` is the stronger `CommandsInCommandMode`: the program's
  invariant adds that the link is down when it calls `deinit()` (`DownByDeinit`).
  `AppKnowsItsLink`, `AppBelievesTheNetwork` and this one use that `PPPStep` and
  `N2xxStep` show that a step of the program is a step of its interface or leaves it
  alone, so that the lemmas of the interface's own proofs apply; `OtherUntouched` shows that an
  interface that is not in use keeps the state it began in.
* `OkIsConnected`: `Spec => OkMeansConnected`. `ConnectionKnown` of the AT driver and
  `Believed` of the N2xx driver hold at the step in which `connect()` returns, and
  `LastCall` says that nothing is called after `deinit()`.

Only model-checked: liveness (`CallsReturn` of both socket drivers, `ContextLossReported`,
`EventuallyConnected`, `StopsWhenPressed`, `ATUpdatesGoOn`), which is out of the prover's
reach. The properties of section 8 are violated and are not theorems. That a modem is
`Patient`, and what it does with overlapping commands, are assumptions about hardware that
neither can check.

## 10. What is not modelled

* `mbed-os`, `mbed-client`, generated and vendored files (`BUILD/`, certificates,
  PDFs), the unit tests' own code.
* Late answers of the AT modem (`ATSockets`): an answer that arrives after its `recv()`
  has timed out and is taken for the next command's. They are modelled for the N2xx, whose
  timeout can be left short, up to a command that overlaps another in the modem.
* `gethostbyname()`, `get_ip_address()` and the `_ip` buffer; the identity strings and
  the radio technology; addresses, ports and payloads.
* The SIM operations of the PPP interface, which are those of the AT interface.
* `reboot()`, `cfun()`, `auto_connect()`, `get_csq()` and `get_cscon()` of the N2xx base
  class, which nothing calls (`get_csq()` would return with the mutex, N2Base 327).
* The creation of the LWM2M objects, the LED and temperature resources, `memoryFree()`.

## 11. Plan

1. `SocketTable`, an abstract specification of what the socket layer promises to one
   application socket (open, data, closed), refined by `ATSockets` where no slot is
   reused; `TableInv` is the invariant its proof needs.
2. Late answers in `ATSockets`; the PPP interface's deferred SIM operations.
3. The pure algorithms, against reference definitions: the checksum of a configuration
   block, the parsing of a URC's numbers into 16 and 32 bits. What holds of them for every
   length can be proved with `NatSetInduction`, as the lemmas about `Total` are.
