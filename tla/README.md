# Verification of the multi-client WebSocket server

TLA+ models, TLC configurations and TLAPS proofs for the firmware in `src/`: an
STM32F746 board that serves web pages, keeps them informed over WebSockets about
an LED and a button, can be built with a Modbus TCP server as well, and drives its
Ethernet controller with a zero-copy receive ring. The program's own logic is in
`Core/Src/freertos.c`, `Core/Src/modbus_port.c` and `LWIP/Target/ethernetif.c`;
everything else is lwIP, FreeRTOS, the vendor's HAL and the nanoMODBUS library.

Line numbers below are lines of the files named, `freertos.c` where none is.

## 1. Inventory

### Components, state, operations

| Component | Code | State | Operations |
|---|---|---|---|
| HTTP thread | `http_server_thread` 369-711, `send_file`, `send_404` | `client_sockets[]` (MAX_WS_CLIENTS + 2 slots), `master_fds`, `max_fd`, the request buffer | select, accept, track or refuse, recv, answer (LED state, POST, file, 404), upgrade and hand over, close |
| WebSocket thread | `websocket_thread` 238-366, `broadcast_to_ws_clients` 957-974 | `clients_sock[]` (MAX_WS_CLIENTS = 4), the last button state | take a descriptor, admit or refuse, broadcast LED and button, poll clients, close |
| Board | `ws_queue` (4 places), thread flag 0x01, pins LD1 and B1 | the same | put/get, set/wait, write/read |
| Sockets | lwIP `sockets.c`, `api_msg.c`, `api_lib.c` | socket table, accept and receive mailboxes, pending errors, send buffers | accept, recv, write, close, fcntl, select |
| Client pages | `control.js`, `control.html`, `spacerockets.html` | one request or WebSocket per connection | GET, POST /led, GET /ws, frames, hang up |
| Ethernet receive | `ethernetif.c` 424-467, 553-566, 827-887; `stm32f7xx_hal_eth.c` 1079-1265 | descriptor ring with three indices, buffer pool, `RxAllocStatus`, `RxPktSemaphore` | DMA write, interrupt, read, rebuild, allocate, free |
| Ethernet transmit | `ethernetif.c` 366-414; `stm32f7xx_hal_eth.c` 1027-1070, 1442-1512 | transmit ring, `TxPktSemaphore` | put, wait, release |
| Link thread | `ethernetif.c` 757-825; `HAL_ETH_Start_IT`, `HAL_ETH_Stop_IT` | link flag, MAC mode, `linkchanged` | poll PHY, stop MAC, start MAC, announce |
| WebSocket frames | `parse_ws_frame`, `create_ws_frame` 868-953 | none | decode, encode |
| Modbus | `tcp_server_thread` 714-839, `modbus_port.c`, `nanomodbus.c`; compiled only with ENABLE_MODBUS_TCP | `clients_sock_arr[]` (MAX_TCP_SOCK_CLIENTS = MEMP_NUM_NETCONN - 1 = 15 slots): per slot `accept_sock`, `in_use` and the buffer `client_data`; the register images | select, accept, track or refuse, recv into the slot and mark it in use, poll: find the first slot in use, carry out, answer there |
| Start-up | `StartDefaultTask` 189-234 | what it has created so far: HTTP thread, WebSocket thread, `ws_thread_id`, `ws_queue` | create the next |

### How they interact

* Both server threads and the TCP/IP thread share the socket table. A descriptor
  is a small integer that names a table entry; `close()` empties the entry and the
  next `accept()` takes the lowest empty one. An upgraded connection is handed to
  the WebSocket thread *by number*, through `ws_queue`, and stays in the HTTP
  thread's select set and slots.
* `POST /led` writes the pin, answers, and sets flag 0x01; the WebSocket thread
  waits for the flag with a timeout, reads the pin and broadcasts.
* The Modbus thread, where it is built, uses the same socket table but shares nothing
  else with the web server. nanoMODBUS calls back into `modbus_port.c` to read
  a request and to write its answer; both calls look for the slot themselves.
* The default task creates the HTTP thread first and `ws_queue` last, and what it created
  already runs in between.
* The EthIf thread (realtime priority) is woken by interrupts and by whoever frees
  a receive buffer into a pool that had run dry; it posts frames to the TCP/IP
  thread. The TCP/IP thread, or a thread inside a socket call, sends with the core
  lock held. The link thread (below normal) stops and restarts the MAC under all
  of them, and sends a gratuitous ARP without the lock.

### What is hard

* Two threads read, write and close one socket in every order; numbers are reused
  behind either's back.
* Calls that fail in the middle: refused connections, a full queue after the 101
  answer has gone, resets, writes cut short, a broadcast that fails for one client.
* `select()` fails for a set with a closed descriptor, and the loop goes on without
  its delay.
* Requests arrive in segments; one `recv()` is taken for one request, by the web server and
  by the Modbus server, and for one WebSocket frame. What its buffer (512, 20 and 256 bytes) or a
  segment's end cuts off is read by the next as if it began there.
* Three things stop a thread for good: `select()` that fails in every round, a `recv()` without a timeout through a
  stale number, a file for a peer that does not read. What they stop includes the freeing of receive buffers.
* A Modbus slot keeps `in_use` and its data when its client goes away, and the poll looks for the
  first slot in use, not for the one just received from.
* A receive pool smaller than what may be in flight: descriptors without buffers,
  reception switched off, and a wake-up by whichever thread frees a buffer.
* The link goes down at any moment of all this, and comes back; a stop switches off the interrupt of every
  descriptor, and only the rebuild of each switches it on again.
* One binary semaphore for two senders.

`PROJECT.json` lists each hazard at its line with the properties that cover it.

### What makes each part correct

* HTTP thread: no open descriptor drops out of sight, every watched descriptor
  keeps a slot, answers go to who asked, requests are answered, the loop blocks.
* WebSocket thread: no LED or button state that lasts goes unannounced, an upgraded
  client is served or closed, a client that closes is closed.
* Receive path: buffers are conserved, the DMA never gets a descriptor without one,
  the three indices agree, a dry pool is always signalled, frames are read once.
* WebSocket frames: a frame received whole is read as sent; the first part of one is never taken for one.
* Modbus: each request is carried out once, as a whole, and answered to whom it is from;
  each open descriptor has its one slot; whole requests are answered.
* Start-up: nobody misses what cannot be signalled yet.
* Transmit path: a sender comes back. Link: a link that stays down is noticed.

## 2. Modules

```
LwipSockets ─┬─ HttpServer ─┐            WsFrame ─┐          EthMac ─┬─ EthRx ─┬─ EthDriver
  Board ─────┼─ WsServer ───┼─ WebServer ─────────┴─ WebFrames       └─ EthTx ─┘      │
             ├─ Clients ────┘      └─(implements) LedPromise  └─ MCWebServer  MCEthDriver
             └─ ModbusServer ─(implements) ModbusService       EthDriver ─(implements) ReceiveService
                    └─ MCModbus

ThreadProofs ── WebServerProofs ── WebRefinement      EthDriverProofs ── EthRestartProofs ── EthServiceProofs
WsFrameProofs   ModbusProofs
```

| Module | Models | Correspondence |
|---|---|---|
| `LwipSockets` | socket layer | `sock` is `sockets[]`; `rxq`, `peer`, `eof` are what a netconn's mailbox and pending error say; `wnd` is room in the send buffer. One operator per call, used by both threads. `Takes` is how much of the queue a `recv()` gets; `listening` is the listening socket, which `CloseListener` ends. `TcpConnect/Deliver/Fin/Rst/Window` are the stack's side. |
| `Board` | queue, flag, pins, start-up | one operator per CMSIS or HAL call. `made` is the last thing `StartDefaultTask` made: before, putting into `ws_queue` is refused and setting the flag has no effect, as both calls answer a NULL object. |
| `HttpServer` | `http_server_thread` | `hpc` names the call the thread is at; a step goes from one call that can block or be preempted to the next. `hfd` is the descriptor in hand, `req` the segments `recv()` put together. |
| `WsServer` | `websocket_thread`, `broadcast_to_ws_clients` | `wpc` likewise; `bbase`, `bidx` are the pointer given to the broadcast and its loop variable. The call for a new client passes a pointer into the array and the full length, so the loop runs past the end: `StackWords` says what may lie there, `WsPastClose` what closing it does. `MayClose` is the rest of a frame or a request that looks like a close. `shown` is a history variable: the LED state last written to a slot's client. |
| `Clients` | the pages | each connection makes one request, headers and body of a POST together or apart, of a length that may exceed the server's buffer (a `"tail"` follows); may send one frame after the 101, whole or as `"head"` and `"tail"`; may close, reset, or stop reading |
| `WebServer` | composition and properties | `Next` interleaves the two threads, the clients, the user and the default task |
| `LedPromise` | what clients are promised about the LED | abstract: a setting, its announcement to everybody, newcomers, leavers. `WebServer` implements it with `led <- LD1`, `told <- Told` (what each slot's client was last sent), `due <- LedPending` (a setting whose broadcast has not read the pin), `owed <- Owed` (slots a broadcast has still to reach) |
| `WsFrame`, `WebFrames` | frame codec; the frames of the web server | `Header` is what `create_ws_frame` writes, `Parse` what `parse_ws_frame` returns for the first bytes of a frame |
| `ModbusServer` | `tcp_server_thread`, `modbus_port.c`, request handling of `nanomodbus.c` | `mpc` names the call the thread is at; `accept_sock`, `in_use`, `client_data` are the slots' fields, `reg` a holding register. `asked`, `answer`, `rest` are the masters' side, `hogged` the HTTP thread's. |
| `ModbusService` | what Modbus clients are promised | abstract: ask, carry out in one step, answer or lose. Implemented with `register <- reg`, `outcome <- Outcome(c)` (the answer in `nmbs.msg`, once its slot is served) |
| `EthMac` | HAL handle, interrupt and DMA enables | the steps of `HAL_ETH_Start_IT` and `HAL_ETH_Stop_IT` |
| `EthRx` | receive path | `own`, `dic`, `buf` are OWN, DIC (no interrupt on completion) and BackupAddr0 of each descriptor, the indices keep their names; `epc`, `fpc` are the EthIf thread and the freeing threads. `UpdateDescriptor` is `ETH_UpdateDescriptor`. `epc = "corrupt"`: a buffer was passed up that EthIf does not own. |
| `EthTx` | transmit path | `tpc` for the two senders, `txRing` the frames in descriptors |
| `EthDriver` | link thread, composition, properties | `lpc` is at a register write or call of the link thread; `hogged`: the HTTP thread keeps the processor, which `Hog` begins at any moment and nothing ends (`HoggingForEver`) |
| `ReceiveService` | what the receive path promises the stack | abstract: a frame arrives in a buffer nobody has, frames are passed up in order, freed in any. Implemented with `arrived <- Arrived` (the buffers of the unread frames, from the read index on) and `lent <- held` |
| `MC*` | symmetry sets and values | |
| `*Proofs` | theorems | section 5 |

### Abstractions

* A request, a frame and an answer are members of small sets. `strstr` over the
  request buffer becomes membership of a segment in `req`.
* Each socket call is one step. lwIP runs its effect under the core lock; the exception is
  `close()`, whose table entry is freed after the lock is released: a thread that uses the
  descriptor in between touches freed memory, which no state of the model stands for.
* What a `recv()` takes is any number of the queued segments, but one at least: lengths of requests are left out, so that each
  buffer may hold any part of the queue. What the server looks for in a request comes in its first segment; an upgrade
  without a key in the bytes read is a request for a file.
* A word behind `clients_sock[]` is any integer, and may differ at each visit. That it becomes -1 when the write to it
  failed is left out, so what else on the stack it was is not disturbed, and so are descriptors of threads that are
  not in the model, such as the Modbus thread's.
* A Modbus request of 12 bytes is three words: transaction and protocol (`mbap`), length, unit and
  function (`func`), address and value (`args`); a slot's buffer is the five words that `recv()`
  may fill. A part of a request, or the words after the fifth, are taken for what they are
  read as in the place where they land; whether a transaction number passes for a length is
  left open (`MayBeRejected`). Longer requests are represented by one of 24 bytes that writes 88 coils: six words, of which
  `recv()` leaves the last for later. One holding register stands for the data; a read past the last register and a function
  without a callback are refused, a read of another unit answers what lies behind the NULL that `get_server()` returns.
* `HAL_ETH_ReleaseTxPacket()` is one step. It writes back `BuffersInUse` as it read it before (1445, 1501), and the stack may
  queue a frame in between (3177) while the link thread releases its announcement: the model keeps the count that the code loses.
* WebSocket payloads are counted, not kept. A 64-bit length is written into its lower half and
  read from its upper half, in the model as in the code; such frames are never sent, since the
  only buffers have 128 and 256 bytes (`FrameAssumption`).
* The default task creates everything successfully; failures end in `Error_Handler()`.
* Interleaving over-approximates priorities in the web server: either thread may run
  between any two calls. In the driver priorities matter, and are modelled: other
  threads move only while EthIf sleeps, the link thread only while all sleep, and
  interrupts and the DMA at any time.
* One descriptor per frame: a buffer (1536 bytes) holds the largest frame.
* Silent connections never time out: SO_RCVTIMEO is not compiled in
  (LWIP_SO_RCVTIMEO is 0), and the socket is made non-blocking just after.
* A restart keeps `dmaIdx`: the controller resumes at its current descriptor.
* Behaviour after `"corrupt"` is undefined, so EthIf stops there; the liveness
  properties of runs that can get there say so.
* Fatal bus errors and frames with receive errors are left out.

## 3. Runs

Passing runs, with the real sizes for comparison: 15 descriptors beside the
listening socket, 6 HTTP slots, 4 WebSocket slots, a queue of 4, 5 connections
(MEMP_NUM_TCP_PCB), 4 descriptors per ring.

| Run | Instance | What it shows |
|---|---|---|
| `faults` | 2 connections, 2 descriptors, 1 HTTP slot, 2 WebSocket slots, queue of 1; upgrade, POST in one or two segments, send buffers that fill, FIN, RST; behind the array a negative word, the listening socket, a client's descriptor, or no descriptor; from start-up on; 1.0 million states | `TypeOK`, `LedFresh`, `StartsEmpty`, `OpenIsWatched`, `WatchedHasSlot` with connections refused, closed and their descriptors reused under the other thread, and the listener closed; `OpenBounded`: the table is no fuller than the slots and the thread's hands; `UpgradedIsKept`: nobody who got his 101 is orphaned; `BlocksOnlyOnNewcomer`; `LedPromiseKept` |
| `closed` | 2 HTTP slots, 1 WebSocket slot, fair; one client sends a frame, whole or cut in two, and closes; the other upgrades, or asks for a page or the LED state, in a request that may exceed the buffer, and may stop reading; frame lengths at the borders of the formats; 0.24 million states | `ClosedAfterFin`, `RequestIsServed`, `UpgradeIsServed`: with stale slots, reused numbers, a blocked `recv()`, a stalled file and a hogging `select()` all reached, each fails in the cases it names only; `HoggingIsFinal`; `AnswersWhoAsked`; `WholeFrameIsRead`, `HeadIsNoFrame` |
| `served` | 2 WebSocket slots, fair; both clients upgrade, or one posts; the other may close, by a FIN, or stop reading; button moves; 0.2 million states | `LedReachesClients`, `ButtonIsNoticed`: although a number is reused under the polling thread, a write of a broadcast fails and `recv()` may block |
| `modbus` | 3 masters that write, read, and ask for a register that is not there or another unit, 2 slots, 3 descriptors, FIN and RST, fair, and a processor that may be hogged; 0.35 million states | `SlotsMatchSockets`, `OneSlotInUse`; `ServiceKept`: the refinement of `ModbusService`; requests of up to 20 bytes in one segment are answered |
| `eth_up` | ring of 2, pool of 3, 2 freeing threads that need not free, stack sends, link up, a processor that may be hogged | `NoFrameTwice`, `ExhaustionIsSignalled`, `RingInOrder`; `ReceiveKept`: the refinement of `ReceiveService`; no wake-up of EthIf is lost (`FrameIsAnnounced`), and a sender is woken by its own frame (`WokenByOwnFrame`); `FrameIsRead`, `SenderReturns` |
| `eth_link` | ring of 2, pool of 2; link down, negotiating or fast; a processor that may be hogged | a restart with frames unread and a dry pool loses no buffer and gives the DMA no bare descriptor; `LinkIsFollowed`: a lost link stops the MAC; `AlignedReadsOnce`, `AlignmentKept`, `OrderKept`, `SignalKept`, `AnnouncementKept`: which steps after a restart, and no others, undo what holds while the link is up |

Why the bounds are enough for what they are used for: a slot or a descriptor is
interesting when it is free, used by one connection, or reused by another while
somebody still holds its number. Two connections and two descriptors reach all
three for both threads; with one HTTP slot the second connection is refused. A
queue of one is full after one upgrade, and `EarlyConns` says who may come before it exists.
In `closed`
the client that leaves and the one that stays quiet share two descriptors, so that the second takes over the number of
the first while a slot or a blocked `recv()` still has it; with one WebSocket slot a second upgrade is refused, which is
what begins the hogging. Three masters for two Modbus slots meet a full table, reuse a slot whose last
client left a request behind, and have two slots served in the order the poll finds them. With a ring of two and a pool of three
the pool runs dry with zero, one and two descriptors bare, and the indices wrap.
Two freeing threads are what the race on `RxAllocStatus` takes. The proofs of section
5 remove the bounds for the properties they cover.

Runs that end in a counterexample are in section 6.

`CHECK_DEADLOCK FALSE` appears where the modelled system really can come to rest:
in the driver, the Modbus server and `VSwallowed` when no further frame, request or
PHY change comes, and in `closed` when one thread is blocked and the other stalled.

Each property of a passing run has a mutant (an operator whose comment starts with
"Mutant of"): the definition changed the way a plausible mistake would, under
which that run must fail.

## 4. Fairness

* Web server: `Spec` with `WF(HttpStep)`, `WF(~Hogging /\ WsStep)` and
  `WF(~Hogging /\ StartStep)`. The
  HTTP thread has osPriorityNormal1, the WebSocket thread and the TCP/IP thread
  osPriorityNormal, and there is nothing above that runs for long: an enabled step
  of the HTTP thread is taken. It sleeps in `select()`, in a tick of `osDelay()` per
  round, and in `send_file`'s retries, so the WebSocket thread and the default task (osPriorityNormal
  too) run again and again, except while `select()` fails at once in each round (`Hogging`). That is why the
  other two conditions are conditional and the liveness properties carry `\/ Hogging`.
  Clients and the user are under no fairness: nothing makes them act.
  `HttpStep` is not enabled while the thread waits in `send_file` for a peer that does not read, nor is `WsStep` in a `recv()`
  that blocks. Three cases are thus the exceptions of these properties, and each names those it needs: `Hogging` (`select()` fails
  in every round), `Stalled` (the file is never read), `Caught` (the newcomer under the blocked `recv()` stays silent). The last two
  count when they last for ever, as `<>[]Stalled` or `<>[]Caught`; they delay in between. `RequestIsServed` has one more, `Polled`: a
  slot of the WebSocket thread names the connection, whose `recv()` may take the request (run `swallowed`).
* Modbus: `WF(~hogged /\ MbStep)`. The HTTP thread is created in every build, with osPriorityNormal1 against the Modbus thread's
  osPriorityNormal. While it does not hog the processor, every enabled step of the Modbus thread is taken; `Hog` says that it may
  begin to at any moment, and `WholeRequestIsAnswered` excludes what comes after. Masters are under no fairness.
* Driver: weak fairness for EthIf, the receive interrupt, and transmission with its
  interrupt. The link thread has the lowest priority (osPriorityBelowNormal) and needs idle time: `[]<>(LinkRuns)` says that
  the processor has it, that is, everybody above comes to rest again and again, unless `hogged`; given that, strong fairness for the
  link thread. Who is in `pbuf_free()` comes out of it, which `LinkRuns` includes. Nobody has to free a frame: a blocked
  WebSocket thread, a stalled HTTP thread or a socket that nobody receives from may hold the pool for ever, and `FrameIsRead` excludes a
  pool that stays dry. EthIf and the interrupts run while the processor is hogged, the freeing threads, the stack and the link
  thread do not. Neither traffic nor sending nor the PHY is fair.

## 5. Proofs

`tlapm` checks all theorems from the module's assumptions on constants
(`LwipAssumption`, `BoardAssumption`, `HttpAssumption`, `WsAssumption`, `ClientsAssumption`,
`FrameAssumption`, `ModbusAssumption`): any number of connections, descriptors, slots and queue places, any integers in the
words behind the array (what is left out of them is under Abstractions). For the driver (`EthRxAssumption`, `EthTxAssumption`,
`EthDriverAssumption`): any ring, any pool of at least as many buffers, any number
of freeing threads, any PHY.

| Theorem (`WebServerProofs`) | States | Argument |
|---|---|---|
| `TypeCorrect` | `Spec => []TypeOK` | one lemma per socket call and one per group of actions of each thread (`ThreadProofs`) |
| `NoLostLedUpdate` | `Spec => []LedFresh` | inductive with `LedInv == LedFresh /\ StaleIsFollowed` |
| `NothingUnwatched` | `Spec => []OpenIsWatched` | inductive with `WatchInv == OpenIsWatched /\ WatchedHasSlot` |
| `WatchedTracked` | `Spec => []WatchedHasSlot` | the same invariant |
| `TableBounded` | `Spec => []OpenBounded` | from `WatchInv`: a map from open descriptors to slots is injective, so there are no more of the first than of the second |
| `NobodyOrphaned` | `Spec => []UpgradedIsKept` | inductive with `TableMatches` |
| `OnlyNewcomerBlocks` | `Spec => BlocksOnlyOnNewcomer` | inductive invariant `BlockingIsNew` |
| `NothingMissedAtStart` | `Spec => []StartsEmpty` | inductive itself: only a message in the queue makes a client, only a flag starts a broadcast |
| `OnlyWhoAskedIsAnswered` | `Spec => []AnswersWhoAsked` | inductive with `AskInv` |
| `PromiseImplemented` (`WebRefinement`) | `Spec => LedPromiseKept` | each step maps to a step of `LedPromise` or to none, given `LedInv` and `StartsEmpty` |
| `HoggingForEver` | `Spec => HoggingIsFinal` | no step of the HTTP thread is enabled but the failing `select()`, nobody else opens a descriptor or changes the set, and a listening socket that was closed stays so |

`LedFresh` alone is not inductive: a broadcast on its way may carry a state the
LED has left since, and would then make a slot stale as it ends. `StaleIsFollowed` says that in
such a case the flag is set or about to be, so another broadcast will follow. The
order of the code matters in both directions: the pin is written before the flag is
set, and read after the flag was cleared.

With start-up in the model a flag may also be lost: `osThreadFlagsSet()` on a `ws_thread_id` that is
still NULL does nothing. `StartsEmpty` is what makes that harmless: the queue, through
which clients come, is created after the identifier is stored.

In the refinement the same facts return: `StaleIsFollowed` is the guard of `LedPromise!Tell` (a
state that is over is told only ahead of another announcement), and the lost flag is an
announcement to nobody. `LedPending` turns false in one place otherwise, the reading of the
pin, where everybody who stays becomes owed.

`AskInv` adds to `AnswersWhoAsked` that requests in a mailbox were sent by the connection's
client (`QueuedWasSent`; a `recv()` that takes a part of the queue leaves the rest of it, `RecvDrains`) and that the descriptor in hand, if it is open, names the connection the
request was read from (`HeldWasSent`): the WebSocket thread may close it meanwhile, but
only the HTTP thread accepts, so nobody can reuse the number.

`OpenIsWatched` and `WatchedHasSlot` go together through `Forget`: closing clears
the *first* slot that holds the number. The select set loses the number in
the same step, so that second slots with the same number do no harm to either
property, only to the number of free slots.

`UpgradedIsKept` lists where the descriptor of an upgraded client may be. It needs to know that a descriptor the
model calls open is of a connection that `accept()` took once: otherwise a connection that was already answered might
come out of the backlog, or have two descriptors of which one is kept and the other not. `TableMatches` says
that: what waits for `accept()` waits once and was told nothing, and no connection has two descriptors.
`KeptIs` turns the property into one about descriptors, so that an action has only to show that it upgrades
nobody (`UpgradesNone`) and takes nobody's place away. `HttpSwitch` does upgrade, and leaves the client in the HTTP
thread's hands; `HttpPut`, `HttpPutTimeout`, `WsGet` and `WsReject` move a client from one place to another; and a place is
given up where `Close` ended the connection (`CloseUpgradesNone`).

`BlockingIsNew` says that a connection which is open and still blocking is the one the HTTP thread got from
`accept()` and has in hand: only `fcntl()` follows, in the next step. So a `recv()` that blocks is one through a number
the WebSocket thread kept from an earlier connection. How long it blocks depends on the client.

| Theorem (`EthDriverProofs`) | States | Argument |
|---|---|---|
| `DriverTypeCorrect` | `Spec => []TypeOK` | one lemma for `UpdateDescriptor`, one per part of the driver |
| `NoBufferLostOrShared` | `Spec => []BuffersConserved` | inductive with `CopyInv == BuffersConserved /\ PostIsHeld` |
| `DmaNeverBare` | `Spec => []DmaHasBuffer` | inductive with `DmaInv == Backed \/ Fresh` |
| `DryPoolIsSignalled` | `Spec => []ExhaustionIsSignalled`, if the PHY never says "down" | inductive with `StaysUp`, by counting buffers |
| `RingStaysInOrder` | `Spec => []RingInOrder`, under the same premise | inductive with `StaysUp` and `DmaHasBuffer` |
| `NoFrameTwiceWhileUp` | `Spec => []NoFrameTwice`, under the same premise | from the same invariant |

`UpdateDescriptor` only moves buffers from the pool to bare descriptors, each to one
(`UpdateConserves`). `PostIsHeld` says that the frame EthIf is posting is one it
holds, so that dropping it gives back a buffer nobody else has.

`DmaHasBuffer` speaks of a running DMA only, and is not inductive: what the DMA owns while
it is stopped matters at the next start. `Backed` drops that condition; it is false
just once, after a boot without link, when all descriptors are the DMA's and
have no buffer. `Fresh` describes that time: the pool is full, so that the first
rebuild gives every descriptor one (`FreshBuild`).

`ExhaustionIsSignalled` rests on counting: a rebuild that leaves a descriptor over has
emptied the pool (`UpdateDry`), and as there are at least as many buffers as
descriptors, one that has no buffer means that some buffer was passed up (`SomeHeld`).
The premise is needed: with restarts the property fails, since the link thread finds the
pool empty in one step and sets the status in a later one.

`RingInOrder` says where on the ring the DMA, the reader and the rebuilder are: going round from the
read index one meets the frames the DMA filled and nobody read, then the descriptors the DMA owns, then
the bare ones that wait to be rebuilt. `Ordered` states that with explicit counts, and one lemma per way the ring moves
(`TakeOrdered` for a read, `BuildOrdered` for a rebuild, `ReceiveOrdered` for the DMA) says which count
goes down and which goes up. `NothingReadAgain` follows: the descriptor at the read index is one that
the DMA filled since it was last read. A restart rebuilds the ring from where the last
rebuild stopped, and the order is lost (run `frame_twice`): hence the premise.

| Theorem (`EthRestartProofs`), for every PHY | States | Argument |
|---|---|---|
| `OnlyRestartMisaligns` | `Spec => AlignmentKept` | a rebuild moves index and count by the same amount, a read the read index and the count |
| `AlignedReadsNothingTwice` | `Spec => []AlignedReadsOnce` | inductive with `ReadInv == BareIsCounted /\ AlignedReadsOnce` |
| `OnlyRestartDisorders` | `Spec => OrderKept` | EthIf and the DMA keep the order (`RxOrder`); a restart of a ring that is the DMA's alone does too (`RestartOrder`), given `DmaInv` |
| `OnlyRestartLosesSignal` | `Spec => SignalKept` | by counting buffers, as for `ExhaustionIsSignalled` |
| `OnlyRestartLosesFrame` | `Spec => AnnouncementKept` | per action: what ends one way of being woken begins another; with `SilentAreOwed` on the DIC bits |

These say of the system *with* restarts what the theorems above say without, each with its exceptions. Those of `AnnouncementKept`
are two: EthIf that wakes before `gState` says started, and a frame in a descriptor whose DIC bit is set. `SilentAreOwed` says where such a
descriptor may be once the MAC runs: after a stop all are, and each rebuild clears the bits of those it gives back while the handle is not ready, so that a set
bit is left only among the descriptors that a rebuild which ran dry has still to come to. While the link stays up there are none (`NoneSilent`). With `%` for
going round the ring, `Aligned` is that index and count of the rebuild lead to the read index. `BareIsCounted` says that,
while they do, a descriptor which is neither the DMA's nor has a buffer is one of those the rebuild counts, and so not one
that `HAL_ETH_ReadData()`, which stops at that count, can reach. The exceptions are real: run `frame_twice` goes through
that of `AlignmentKept`, and `RingInOrder`, `ExhaustionIsSignalled` and `FrameIsAnnounced` are not invariants of
`eth_link`'s instance (TLC finds each violated there).

| Theorem (`EthServiceProofs`), if the PHY never says "down" | States | Argument |
|---|---|---|
| `ReceiveImplemented` | `Spec => ReceiveKept` | each step maps to a step of `ReceiveService` or to none, given `RingInOrder`, `CopyInv` and `DmaHasBuffer` |
| `NoFrameOverlooked` | `Spec => []FrameIsAnnounced` | inductive: the lemma of `AnnouncementKept`, whose exceptions need a MAC that is not started, which `TxInv` excludes, or a bit that only a stop sets |
| `SenderWokenByOwnFrame` | `Spec => []WokenByOwnFrame` | inductive with `TxInv == TxUp /\ OneAtATime` |

In the refinement `Arrived` is the sequence of buffers from the read index up to the first descriptor that holds no
frame. `RingInOrder` is what makes that the order of arrival: a read takes its head, the DMA adds at its end, and a rebuild
changes descriptors behind it only. That the DMA's buffer is neither waiting nor in the stack is `BuffersConserved`.

`OneAtATime` follows one frame of the stack from `low_level_output()` to its release: at any moment there is a frame not
yet sent, or an interrupt pending, or a token, and no two of these. It holds because the link thread, which shares token and status
bit, has nothing to announce while the link stays up; run `sender_stuck` shows what happens when it has.

| Theorem (`ModbusProofs`) | States | Argument |
|---|---|---|
| `ModbusTypes` | `Spec => []TypeOK` | one lemma per part of the thread |
| `SlotsAreTheSockets` | `Spec => []SlotsMatchSockets` | inductive: each `accept()` fills a slot or is closed, each `close()` empties its slot |
| `OnlyTheServedSlot` | `Spec => []OneSlotInUse`, whose premise is `WholeOnly` | requests that come whole are accepted at once, so the slot marked is the one answered |
| `ServiceImplemented` | `Spec => ServiceKept`, if `WholeOnly` | the buffer of the slot in use holds a request of the connection it belongs to |

`WholeOnly`: TCP delivers each request in one segment (`Splitters = {}`), and none is longer than the 20 bytes of one
`recv()`. The server relies on it without saying so; run `modbus_split` shows what happens otherwise.

| Theorem (`WsFrameProofs`) | States | Argument |
|---|---|---|
| `WholeFrames` | `Spec => []WholeFrameIsRead` | by the format of the length; for each, header and parser agree on where the payload starts and how long it is |
| `Heads` | `Spec => []HeadIsNoFrame` | each first part is too short for one of the parser's four tests |

Both hold of every length up to 65535, where the runs try seven. `Heads` is about the first part of a frame only. What is left
of it is read by the next `recv()` from its own first byte, as the length, key or payload happens to say; the model lets it be a
close (`MayClose`), and no property says that it is not.

Only model-checked is liveness, since fairness and ENABLED are beyond the prover: `ClosedAfterFin`, `UpgradeIsServed`,
`RequestIsServed`, `LedReachesClients`, `ButtonIsNoticed`, `WholeRequestIsAnswered`, `FrameIsRead`, `SenderReturns` and
`LinkIsFollowed`. Every safety invariant and action property that a passing run checks, and every refinement, is stated by a
theorem too, those above with their premises.

## 6. Where the code and its comments disagree

| Run | Property | What happens |
|---|---|---|
| `hogging` | `NeverHogging`: "//Prevent CPU hogging" (708) | Every `close()` by the WebSocket thread leaves its number in the HTTP thread's select set; `select()` then fails at once, and the error path (416) skips the delay. The thread of higher priority never blocks again. One upgrade more than MAX_WS_CLIENTS is enough. |
| `post_unread` | `PostReadBeforeAnswer`: "// Send success response" (651) | A POST whose body comes in a second segment switches the LED off and reports success. |
| `swallowed` | `RequestIsAnswered`: README "without losing any of them" | The WebSocket thread's stale slot reads, and drops, the request of the connection that reuses the number. |
| `modbus_split` | `WholeRequestIsAnswered`: README "a TCP server that can handle multiple clients exchanging data using modbus protocol" (7) | A request that comes in two segments, or is longer than the 20 bytes of `recv()`, is looked at in parts, and a part is found wanting; its slot stays in use, since only an answer clears it. From then on each poll, whoever it was received from, reads and answers that slot first, and clients of later slots wait for ever. |
| `frame_twice` | `NoFrameTwice`: comment of `ETH_UpdateDescriptor` | A restart after a stop with a dry pool rebuilds the ring from an index that does not agree with the read index; a buffer already passed up is passed up again. |
| `sender_stuck` | `SenderReturns`: comment on `TxPktSemaphore` | The link thread's ARP and a frame of the stack share one token; the stack waits for ever with the core locked. |

Behaviours met while modelling that contradict no comment, and are therefore not
findings: two slots for one number, so that a connection is refused early; the
initial message also going to later slots and past the array; an LED frame written
into a plain HTTP connection that reuses a stale number; a client closed because the rest of its frame looks like a
close; frames received without an interrupt after a restart with a dry pool; a count of transmit buffers lost;
reads and writes through NULL for a Modbus unit other than 1; a Modbus request longer than 20 bytes carried out
over what the buffer held before; the button's state
missing from what a new client is told; an upgrade answered with 101 and then closed because
the queue does not exist yet; coils that `server_read_coils` writes at their own addresses and not
at their place in the answer, and bounds that admit one index too many (`modbus_port.c` 96); a
64-bit frame length whose upper half is read (902); `ENABLE_TCP_MODBUS` in README.md:23 for what
`app.h` calls ENABLE_MODBUS_TCP; reception that stays off when the link
thread loses a race for the last buffer; frames left unread across a restart; a MAC
started at the last link's speed when negotiation has not ended.

## 7. Not modelled

* Modbus coils, input registers, several registers at once and file records: one register stands for
  the data, and which functions have a callback is modelled. Nor are requests sent before the
  last was answered, of which one `recv()` may take more than one. What the callbacks do with addresses
  is in section 6.
* Both servers built together. README.md:23 advises against it; the interleavings of three threads over one table are
  beyond TLC on top of what `faults` explores.
* `close()` in two steps, `HAL_ETH_ReleaseTxPacket()` in more than one, and the stores of -1 behind `clients_sock[]`: see
  Abstractions.
* What a client makes of a frame cut short by a full send buffer: recorded (`"torn"`), but no page, comment or
  test says what it may rely on.
* Start-up before the threads: `main()`, `MX_LWIP_Init()`, and creations that fail.
* sys_arch, FreeRTOS, lwIP below the socket layer: third-party. Their effect is in `LwipSockets`,
  `Board` and the scheduling of `EthDriver`.
* Transmit: packets of several buffers and a full transmit ring; the ring has a place for each sender.
* File system of the pages (constant data), mbedTLS, ITM output, clock and pin set-up: no logic of
  this program that changes state.

## 8. Plan

Done: `LwipSockets`, `Board` with the start-up order, `HttpServer`, `WsServer`, `Clients`, `WebServer`;
`LedPromise` and its refinement; `WsFrame`; `ModbusServer` and `ModbusService`; `EthMac`, `EthRx`, `EthTx`,
`EthDriver`, `ReceiveService` and its refinement; the theorems of section 5.

What is left, in order:

1. Which restarts keep the receive path whole: from `AlignmentKept` and `OrderKept`, the refinement of `ReceiveService` for
   links that go down only with no frame unread and no descriptor bare.
2. `ModbusServer` with coils and several registers, for the addresses of section 6.
3. What survives a split request: which of the clients of a Modbus server with a slot stuck in use are
   still served.
