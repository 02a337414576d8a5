# Verification of ucoolib

ucoolib is a C++ library for small embedded programs: drivers for the
peripherals of STM32 microcontrollers, device protocols, utilities, and a host
build in which several programs are simulated together.  This directory holds
TLA+ models of its components, TLC configurations that check them on small
instances, and proofs checked by TLAPS.

Every model is translated from the sources under `src/ucoo`; `PROJECT.json`
maps each definition to the lines it stands for.

## 1. Inventory

### The system

A program has one thread, the main program, and interrupt handlers that run
between any two of its instructions.  There is no scheduler and no lock but
`irq_lock`.  A simulated program (target *host*) has no handlers: it is a node
connected to a hub, and messages are dispatched while it waits.

| Component | State | Operations | Hard behaviour |
|---|---|---|---|
| `utils/fifo` | ring `buffer_`, `head_`, `tail_` | push, write / pop, read, read_peek, drop / empty, full, poll | lock-free between two threads, wraps |
| `hal/uart` | two FIFOs, TXEIE, block flag | enable, disable, read, write, poll / isr | handler between the accesses of read and write, lost start, overflow, line errors |
| `hal/exti` | instances, IMR, PR, shared counters, vectors enabled | enable, disable, mask, unmask, destructor / vector handlers | lines that share a vector, nested brackets, edges pending when an object dies |
| `hal/i2c` hard | transfer in progress, slave buffer, shared index and count | send, recv, status, wait / event and error handlers | peripheral advancing during the handler, multi-master, end of reception, errors |
| `hal/i2c` slave data buffer | data to send, data received | update, poll / to_send, to_recv | test before lock, update during an access |
| `hal/i2c` soft | two pins | send, recv, send_recv | error paths that must release the bus |
| `hal/usb` driver | end points, EP0 owner, configuration | ep_write, ep_read, *ready*, ep_setup, set_configuration / isr | who restarts the flow: main program or handler; reset; control requests |
| `hal/usb` applications | control stage and data, CDC RX and TX `Buffer`s | handle_setup, ep_handle_in/out, read, write | stages of control transfers, room for a packet, empty packets |
| `hal/timer` | CR1, reload and compare values, flags | enable, disable, wait_update, enable and disable update, set options | the timer counts between a load of CR1 and its store |
| `hal/spi`, `hal/gpio`, `hal/adc`, `hal/sdram` (targets) | registers | set up, one transfer | little: sequential |
| `hal/frame_buffer` | layers, refresh pending; DMA2D registers; pixels | fill, blit, blend, wait / refresh, write_command, layer_setup / isr | drawing that goes on after the call, reload of layers, end of refresh, clipping |
| `hal/self_programming` | flash controller | erase, write | sectors found by walking a table, sequence of the controller |
| `arch/rcc` | oscillators, PLL, prescalers, wait states | set-up of clocks | the order of the changes |
| host `i2c`, `gpio`, `adc` | slaves, a read in progress, pins, channels | send, recv, outputs, read / message handlers | requests that cross |
| `dev/xmodem` | block number, total, flags | xmodem_receive | lossy line, time-outs, repeated blocks, wrap |
| `dev/avrisp` | frame state, buffer, command in progress | accept_char, read_and_write, proto accept | resynchronisation, shared buffer |
| `dev/lcd`, `dev/usdist` | cursor line; sensor in turn, dates | puts, clear, go; update, read | driver state against device state; timing |
| `base/proto` | parser state | accept, send | incremental parsing |
| `base/fs/romfs`, `intf/file_system`, `arch/syscalls` | table of descriptors, storages of streams, what each has left, file system bound to the calls | enable, disable, open, read, write, close, fstat, isatty, unlink | search by dichotomy, two tables at their limit, who owns a storage |
| `utils/pool`, `buffer`, `trace`, `rate_limit` | free list; begin, end; ring of entries; next date | | reuse, rewind, handlers, modular time |
| `arch/host/mex` | date, request identifier, sequence number | wait, send, request, response / dispatch | messages crossing, nested requests, common date |
| `arch` start-up, `build`, `lib` | | | generated or vendored code, register set-up |

### Interactions

* `Uart` owns two `Fifo`s, each shared by the main program and `isr`.
* `I2cHard` calls an `I2cSlave::DataHandler` (`I2cSlaveDataBuffer`) and a
  finished handler from its interrupt handlers; the finished handler may start
  a transfer.
* `xmodem_receive` uses any `Stream` (a `Uart`, a CDC application, a host
  stream) for the line and another one for the file.
* `UsbApplicationCdcAcm` owns two `Buffer`s, locks interrupts, and calls the
  driver from both sides; the driver calls applications from its handler.
* `I2cHost`, `Gpio` and `AdcHost` of a simulated program, and time, all use the
  `mex::Node` of the program, with messages built by `mex::Msg`.
* `AvrIspFrame` interprets frames and answers them through `AvrIspProto`, which
  drives `AvrIsp`.
* `Dsi` commands `Ltdc` and is called back at the end of a refresh; what it shows
  is drawn by the DMA2D.

### What makes each component correct

Streams: what comes out is what went in, in order, nothing lost or repeated
unless the interface says so, and blocking calls return.  Shared resources: a
counter agrees with what it counts, a bracket restores what it found, a handler
never meets an object that is gone.  Transfers: buffers are not overrun, the
status tells what happened, a transfer ends.  Protocols: an acknowledged block
is a block delivered, a response goes to its request.  Each is spelled out, at
the line where it could go wrong, under "hazards" in `PROJECT.json`.

## 2. Modules

| Component | Modules | Proofs |
|---|---|---|
| Fifo | `FifoChannel` (abstract), `Fifo` | `InterruptProofs` |
| Exti | `Exti` | `InterruptProofs` |
| Uart | `Uart` | `UartProofs` |
| Xmodem | `Transfer` (abstract), `Xmodem` | `ServicesProofs` |
| I2C | `I2cPeripheral`, `I2cSlaveDataBuffer`, `I2cHard`; `I2cSoft` | `I2cProofs` (not `I2cSoft`) |
| USB | `UsbCdc`; `UsbControl` | `UsbCdcProofs` (serial line) |
| AVR programmer, lines | `AvrIsp`, `AvrIspFrame`; `Proto` | |
| Frame buffers | `Surface`, `SdlFrameBuffer`, `Dma2d`, `Dsi` | `DrawingProofs` |
| Clocks, timers, flash | `Rcc`, `Timer`, `SelfProgramming` | `InterruptProofs` (`Rcc`, `Timer`) |
| Simulated programs | `Mex`, `MexMsg`, `HostDevices` | `MexProofs` |
| Files | `Files` | `ServicesProofs` |
| Utilities | `Pool`, `RateLimit`, `Trace` | `ServicesProofs` |

`MC*` modules give constants their values.  Several of them put components that
have nothing in common next to each other: the variable `part`, chosen at the
start and never changed, says which component moves in this behaviour, the others
stay in their initial state.  The state spaces add up, they are not multiplied,
and the properties of a component are checked in all of its behaviours.

### Fifo: `FifoChannel`, `Fifo`, `InterruptProofs`

`Fifo` executes `utils/fifo.tcc` one memory access at a time: `rpc` and `wpc`
are the program counters of reader and writer, `rhead`, `rtail`, `whead`,
`wtail` their local copies of the indices.  `ReadStart`, `CopySlot`,
`ReadCommit`, `DropSlot`... are the loads, slot copies and stores of `read`,
`read_peek`, `pop`, `drop`, `write` and `push`.  Callers follow the rules the
assertions of the code state (no pop without an element, no push without room,
according to *some earlier* look at the FIFO).  `sent` and `received` are
histories.  `FifoChannel` is what a FIFO promises: a bounded first-in first-out
channel where any number of elements that fit goes in, or comes out, in one
step; `ImplementsChannel` is the refinement, identity on the histories.

### Uart: `Uart`, `UartProofs`

`hal/uart/uart.stm32.cc` with its FIFOs replaced by what `FifoChannel`
promises, split at the two accesses through which a FIFO operation meets the
other side: the load of the other index (`ReadSnapshot`, `WriteSnapshot`) and
the store of its own (`ReadCommit`, `WriteCommit`).  A handler is not interrupted
by the main program, but the line does not wait for it: `isrStatus` reads SR,
`isr` reads DR and does the rest, and bytes and errors come, or a byte goes out,
between the two.  What follows the read of DR meets nothing the line changes meanwhile: DR
is written only if SR showed it empty.  The line
delivers bytes, errors and losses (`rxne`, `rxerr`, `rdr`) and takes bytes (`txe`,
`tdr`, `wire`).  `missed` is history: the bytes whose RXNE a read of DR cleared
after SR did not show them.

### Exti: `Exti`, `InterruptProofs`

Lines, the vector of each, the counter of shared vectors; construction and
destruction, enable, disable, mask and unmask in any order, edges at any time,
vector handlers.  `wanted` and `brackets` are what the client knows it did.

### Xmodem: `Transfer`, `Xmodem`, `ServicesProofs`

`xmodem_receive` against a sender that follows the protocol, over a line that
loses or damages frames and answers up to `MaxFaults` times.  Frames are read in
the stages the code reads them in; damage to the first byte of a block may make it
an end of file (`AfterHeader`).  The client takes a block, or only some of it, or
fails.  Block numbers are modulo `Mod` (256 in the
code), so that a file may have more blocks than numbers.  `Transfer` is the
abstract reception, which promises a whole file unless one of these two happened
(`flawless`); `ImplementsTransfer` the refinement.

### I2C: `I2cPeripheral`, `I2cSlaveDataBuffer`, `I2cHard`, `I2cProofs`

`I2cPeripheral` is the hardware and the bus, not code of the repository: SR1
bits, DR and shift register, start, address, bytes, acknowledge, stop, lost
arbitration, bus error, and another master that reads from and writes to us.
`I2cSlaveDataBuffer` is `i2c_slave_data_buffer.cc`; `poll` is split between its
unlocked test and its locked copy.  `I2cHard` extends both with the driver: one
turn of the loop of `ev_isr` is one step, the peripheral advances in between.

### I2C by software: `I2cSoft`

Each write of a line by `i2c_soft.cc` is a step, taken from the list `todo` of
what a function (`send_start`, `send_byte`, `recv_byte`, `send_stop`) still has to
do.  Lines are open drain.  The slave samples SDA on the rise of SCL, moves it on
the fall, refuses any byte it likes, and may hold SCL down.  `SoftIsExact`: the
slave got the bytes which were sent, the master the ones the slave gave, and the
status counts them.

### USB: `UsbCdc`, `UsbCdcProofs`

`UsbCdc` is the CDC application, its two buffers (`utils/buffer.tcc`, as
operators) and the data end points of the driver.  The main program works with interrupts
locked, so one turn of the loops of `read` and `write` is one step; so is each
thing the handler does, but for IN completions: the next packet is written
(`IsrInTx`, `IsrInNotif`) before the flag of the previous one is cleared
(`IsrInClear`).  `ep_write_ready` is called from both sides and sends only if the
handler is not about to.  Controller and host are external: RX FIFO with packets
and completions, IN packets taken when the host wants.  `ImplementsChannels`:
each direction is a `FifoChannel`, with the offered and delivered bytes as its
histories.

### Control transfers: `UsbControl`

Descriptors are built byte for byte, with nested lengths, as the packed types of
`usb_desc.hh` do, and a configuration is read the way a host does.
The rest of `UsbControl` is end point 0: the entries of the RX FIFO (packets and completions),
`ep_setup`, the stages of `UsbApplicationWithSetup`, the requests of
`usb_driver.cc` and of the CDC application, stalls, resets.  One call of the
handler is a step.  The host makes any request of `Requests`, reads less or more
than there is, sends the next SETUP as soon as the previous transfer is over for
it, and gives up when it is refused for ever.

### AVR programmer: `AvrIsp`, `AvrIspFrame`

`AvrIsp` is `avrisp.cc` and the commands of `avrisp_proto.cc` that reach the
memories.  A turn of a loop is a step and the AVR, an external process, goes on in
between: it ignores what comes while it writes its memory, for a time that may be
longer than the programmer expects, and is seen through delays, polls of the value
or of the ready bit.  The extended address is loaded when it changes.
`AvrIspFrame` is the parser of frames and the commands that answer by
themselves; the frame, its interpretation and the answer share one buffer, kept
byte for byte, while the output is written as the line takes it.  The host repeats
a command whose answer does not come.

### Proto: `Proto`

`proto.cc`: `accept` for a character, `send`, a person who types (with quotes),
and a line that changes or loses characters.  Characters on the line carry the
number of their message, which the code does not see; `WholeMessageIsHandled`
uses it.

### Frame buffers: `Surface`, `SdlFrameBuffer`, `Dma2d`, `Dsi`, `DrawingProofs`

`Surface` says what drawing means: which pixel of the source is over a pixel of
the destination, and what its components become, without clipping and without
addresses.  `SdlFrameBuffer` is the loops of the simulated display: clipped
rectangle, pointers and strides.  `Dma2d` computes registers from the same clipping,
then the controller draws line by line while the program goes on, starts another
drawing, or waits.  `Dsi` has the program, the handler and the two controllers:
layer registers are shadowed until a reload, `refresh` waits for the end of the
previous one and of the present one, `write_command` fills the FIFO of the
display.

### Clocks, timers, flash: `Rcc`, `Timer`, `SelfProgramming`

`Rcc` is one step between two waits; oscillators, PLL and switch follow when they
want.  `Timer` loads and stores CR1 in two steps with the timer counting in
between; option lists combine as the templates of `timer.stm32.hh` do.
`SelfProgramming` runs each call to its end, sector by sector or page by page,
on a flash interface that can only do what the real one can.  `EraseOne` is the
program that asks `self_programming_erase_size` first, `EraseSome` any other.

### Simulated programs: `Mex`, `MexProofs`, `MexMsg`, `HostDevices`

`Mex` has the nodes of a simulation and the hub.  `stack[n]` is the calls in
progress in the program of node n: `wait`, `request`, and the handlers `dispatch`
runs in them; `Recv` is common to both loops.  The hub is not in the repository;
it is modelled from what the nodes send it and expect: it forwards messages, sends a
response to who asked, counts IDLE only if the sequence number echoed is the
last one it sent, and advances to the first date waited for when all nodes are
idle.  `MexMsg` is `mex_msg.host.cc`: fields pushed in network order, with signs,
messages enclosed in others, popped in any way the types allow.  `HostDevices` is
the clients: I2C programs that are masters and slaves, pins and ADC channels that
a simulator drives and watches.  Dates are left to `Mex`.

### Files: `Files`, `ServicesProofs`

`streams`, the table of the system calls, holds for each descriptor nothing, the
console or a storage of the pool of `RomFS`; `held` are the storages of files the
program opened by itself.  `rom` has `begin_` and `end_` of each stream as indexes
in the image, `romIndex` and `romData`, which `IsImage` says is what `mkromfs.py`
makes of `romFiles`.  `open_r` and `OpenDirect` start a search (`search`, the
`begin` and `end` of the loop), `SearchTurn` is a turn of it, `Found` and
`NotFound` are its ends: a program has one thread and no handler opens files, so
that nothing else moves in between.  Other calls are one action each.  What is
written, sent to the console or got from it is not looked at, only what the calls
answer.  `askedName` and `readSoFar` are history, `last` is the answer of a call.

### Utilities: `Pool`, `RateLimit`, `Trace`, `ServicesProofs`

`Pool`: constructors and destructors may use the pool, so that `construct` and
`destroy` are split around them.  `RateLimit`: `value` and `next_` modulo `Period`.
`Trace`: the accesses of a trace, and traces by handlers between any two of them;
`index` is not volatile, so the build may reload it or not, and both are tried.

## 3. Runs

| Run | Parts | Shows |
|---|---|---|
| `uart` | | bytes in order both ways, exact but for those that come between SR and DR, no lost start, errors marked, a client turned away is told, blocking writes return |
| `i2c_both` | | accesses of another master with polls and updates, a master transfer among them, restarts, lost arbitration, bus errors: buffers, whole data, exactness |
| `exchanges` | master, mex | receptions of 1 to 6 bytes are exact and transfers end, arbitration lost included; dates not overrun, messages handled at their date, responses matched, requests and waits return |
| `protocols` | xmodem, isp, frame, proto | acknowledged means written, refinement of `Transfer`, termination; memories of the AVR are what its host sent, and reads are exact; frames and lines survive damage, and the parser is in step again after it |
| `usb` | serial, control | assertions hold on both sides, flow always restarted, each direction refines `FifoChannel`, blocking calls return; control transfers end and give the bytes asked for |
| `peripherals` | exti, fifo, soft, sdl, dma, rcc, timer, dsi, msg, bus, pins, flash, pool, rate, trace, files | one group of properties each, below |

In `peripherals`:

| Part | Properties | What it shows |
|---|---|---|
| exti | `CounterIsNumberEnabled`, `EnabledIsServed`, `MaskHolds`, `NeverOrphan` | counters, vectors, nested masks, pending edges |
| fifo | `NoSlotRace`, `NeverHalts`, `PollIsStable`, `ImplementsChannel` | no slot race, assertions hold, `poll` stays a lower bound, refinement of `FifoChannel` |
| soft | `SoftIsExact` | bytes both ways and statuses, lines released |
| sdl, dma | `DrawingIsExact`, `DmaIsExact` | clipping, strides, formats; nothing outside; a drawing is finished when `dma2d_wait` returns |
| rcc | `ClocksAreExact` | no clock ever too fast for flash and regulator, frequencies are what the library says |
| timer | `TimerIsExact` | values in force were asked together, no event is lost, no pulse without a start |
| dsi | `DisplayIsExact`, `Refreshed` | layers are never half set up, refresh sends one frame and returns, commands arrive whole |
| msg | `MsgIsExact` | what is popped is what was pushed, signs and enclosed messages included |
| bus, pins | `HostIsExact` | writes once and in order, reads see what the reader wrote, one pending request, pins and channels agree |
| flash | `FlashIsExact` | what is asked is erased or written, and nothing else; an erase that is refused changes nothing, on STM32F4 nothing before its address; assertions hold for a program that erases what it was told |
| pool | `PoolIsExact` | nothing leaks, nothing is given twice |
| rate | `RateIsLimited` | never too early, nor refused when due |
| trace | `TraceDamageIsLocal` | a handler's trace spoils at most the entry it meets |
| files | `FilesAreExact` | files are found by name and by no other, read exactly to their end, a storage has one owner and comes back, errors are the right ones |

Runs that are expected to fail, each one property against what a comment or an
assertion of the code says (quoted in `PROJECT.json`):

| Run | What the code does |
|---|---|
| `uart_hole` | a byte that comes between the reads of SR and DR is lost without an error character |
| `exti_destroy` | destroying a disabled line corrupts the shared counter |
| `xmodem_stale_dup` | a repeated block then damaged makes the next block acknowledged but not written |
| `i2c_start_lost` | the end of a slave access clears a START asked for |
| `usb_exact_length` | a request for exactly one packet leaves an empty one armed |
| `i2c_host_send_recv` | `send_recv` of a simulated master always fails |

Some properties are conjunctions of named parts (`BothSidesAreSafe` is
`TransmitIsSafe` and `ReceiveIsSafe`, themselves `TxExact`, `RxFaithful`...): the
parts are what to read, and what a theorem would be stated for.

### What the passing properties leave out

These behaviours of the code were met with other values of the constants, or are
the reason a property is worded, or an input chosen, as it is:

* Uart: after `disable` and `enable` with a full TX FIFO, a blocking write spins:
  it only sets TXEIE when the FIFO took something (`uart.stm32.cc:165`).
  `BlockingWriteReturns`, `TxExact` and `TxNotStranded` stop at
  the first `disable`.
* Uart: a read or write that got *some* of its bytes may miss the event for the
  rest, the handler's test being made between the two accesses of the call.
  `NoMissedEvent` speaks of calls that got none: after those the event is sure.
* Uart: the handler reads DR whatever SR showed (`uart.stm32.cc:187-188`).  If it
  runs for the transmitter, a byte that comes between the two reads loses its RXNE
  and is never stored, and nothing marks its place (run `uart_hole`).
  `RxFaithful` allows these holes (`missed`) and no other, and none as long as
  nothing was written.
* Xmodem: nothing protects the first byte of a frame: that of a block damaged into
  0x04 (or lost before the number 4) is an end of file, and `xmodem_receive` acknowledges
  it and returns the size so far (`xmodem.cc:108-109`, 160).  A client that takes less
  than a block, which `xmodem.hh:34-35` allows, has it acknowledged and counted whole
  (149-157).  Success after one of these may be for a truncated file; order and
  repetition of the blocks are claimed with them too.
* Xmodem: with as many blocks as block numbers (`Blocks >= Mod - 1`) `Returns`
  fails: `block_number - 1` is the `int` -1 after the number wrapped, and the
  repetition of the block before is refused for ever (`xmodem.cc:119`).  With
  `MaxLate = 2`, `AckedIsWritten` fails (run `xmodem_stale_dup`).
* I2C: after a bus error the transfer stays busy (`i2c_hard.stm32.cc:383`): the
  run that checks `TransferEnds` has none.  The status of a refused transmission
  counts a byte the slave did not take (395): `TransmissionIsExact` only bounds
  it.  Data written before a repeated start is not provided (319):
  `AccessIsProvided` says so.  If handlers are late (`SlowHandlers`), the error
  of an earlier access stops a new transfer (391) and `TransmissionIsExact`
  fails.
* I2cSoft: a `send_recv` whose address is refused for the reception returns
  without a stop condition, and the next transfer then has no start condition
  either: `unstopped` remembers it and the property stops there.  A last byte
  that is refused is counted as sent.
* Mex: if handlers make requests themselves (`NestedRequests`), requests take
  each other's response and `ResponseMatches` fails (`mex_node.host.cc:95`), and
  the identifier in `req_` is lost (170).
* Simulated I2C: nobody answers a read from an address without a slave, `recv`
  never returns; a slave that is not registered would have its null handler
  called; the count of a read is one byte.  The inputs avoid the three.
* USB: if a packet is taken by the host before the handler that wrote it clears
  the flag of the previous one (`SlowIsr`), its completion is lost with it
  (`usb_dwc_otg.stm32.cc:362`) and `NotStranded` fails; a blocked writer then
  waits for ever.  If the controller disables the OUT end point when it receives
  a packet, and not when its completion is read (`EarlyDisable`), a `read` made
  in between enables it again while the packet still waits (`usb_cdc.cc:186`):
  the host sends one more, which does not fit, and `NeverHalts` fails
  (`usb_dwc_otg.stm32.cc:435`).  An empty OUT packet never happens in the model: the code
  handles it, but with a controller that disables the end point when the
  completion is read, nothing enables it until the next `read` that finds data.
* Control transfers: a request for exactly one packet (run `usb_exact_length`) is
  not among the requests of run `usb`.  A vendor request that sends data is
  refused for ever instead of stalled: `ControlEnds` says so.
* Frames of the programmer: the checksum is an exclusive or and the start byte
  may appear in a command, so that a lost byte can go unseen:
  `OnlyCommands` and `Resynchronises` speak of commands without it.
* Timer: TIM11 is described with the clock of TIM10 (`timer.stm32.tcc:123`): `enable` of
  it gives a clock to the other one, and `disable` of either stops TIM10.  The run has
  a timer with a clock of its own, and so has the theorem.
* Timer: two options which give the same field are refused at compile time only
  if the bits of the second are not all in the first.  `UpdateDisabled` around a
  timer of one pulse may start it again: `OnePulse` holds because the inputs have
  no such use.  The first `wait_update` after `enable` returns at once, since UG
  sets UIF.  The assertion on the input frequency accepts truncated quotients.
* Rcc: a second set-up with other factors while the PLL runs leaves PLLCFGR as it
  is, hardware refusing the write (`Possible` excludes it).
* DMA2D: filling ARGB4444 gives an alpha of 0: `Dma2d` translates it, the
  property is about where pixels go.
* Dsi: nothing but the program keeps a layer from being set up while its registers are
  about to be loaded: `SetupLayer` has as guard that the client called
  `wait_reload` after the previous `layer_setup`.  Without it `LayersAreWhole` fails
  (its mutant).  `refresh` and `write_command` have no such rule.
* Flash: on STM32F4 a size which is no sum of sectors erases all that follows and
  the table is read past its end before the assertion; addresses below flash pass
  the assertion, as it compares signed values; hardware errors of a write to flash
  that is not erased are ignored.  Addresses are in flash; sizes are any, those of
  `self_programming_erase_size` among them.
* RateLimit: `set_limit` truncates the interval, the rate may be a little above
  the limit, and the first permission after it is immediate.
* Trace: if `index` is loaded again after a handler's trace, an entry is skipped
  and keeps an old trace, which `dump` takes for a new one, or for the end of a
  ring that is not full: `skipped` marks these, and only the range of `index` is
  claimed then.  `dump` truncates lines too long to four characters
  (`sizeof (buf - 5)`, a pointer): the text is not in the model.

* Files: closing a console descriptor gives its stream to the pool of `RomFS`
  (`syscalls.newlib.cc:192`), as any descriptor is closed by the file system:
  `close_r` has no such input.  A negative descriptor passes the test of each call
  (`fd < lengthof`): none is given.  A read of nothing returns end of file:
  `ReadCounts` has no zero.  With two file systems, `enable` of one could unregister
  the other since `enabled_` and `root_` have no initial value
  (`file_system.cc:51`): the model has one, with any value of both.

### Bounds

* Fifo: a ring of three slots (`Size = 2`), chunks of one and three, four
  elements: indices wrap, chunks exceed the room, full and empty both occur.
  The proofs are for every size.
* Uart: an RX FIFO of two bytes and a TX FIFO of one, reads and writes of one and two
  bytes, three bytes received and two sent, one `disable`: refusal, waiting, overflow,
  overrun and idle transmitter all occur, and a write that is larger than the FIFO.
  The proof is for every size.
* Exti: two lines on a shared vector and one alone, brackets two deep: the
  smallest where lines disturb each other.  The proofs are for all.
* Xmodem: four blocks and EOT, six faults (every combination of faults on the same
  or neighbouring frames), one late answer; `Mod = 6` keeps numbers apart.
* I2C: transfers of one to six bytes pass through every case of the end of a
  reception (2, 3, more) from every earlier state, and two of them follow each
  other (`exchanges`).  In `i2c_both` transfers of one, two and four bytes meet two
  accesses of up to four bytes, one longer than the slave buffer, and two
  updates.  `I2cSoft`: bytes of two bits, payloads of one and two bytes, two
  transfers, one stretch anywhere.
* Mex: two nodes, two dates, a message and two requests each: two requests of one
  node are what it takes to mistake a response, a message and an IDLE crossing
  what it takes to overtake one.  Messages (`MexMsg`): bytes of two bits, so that
  each format letter meets its limits, four operations.  `HostDevices`: two
  programs, a slave in each, two operations each, so that reads cross.
* USB: packets of one and two bytes, buffers of two packets, reads and writes of
  one and three bytes: partial and whole reads and writes.  Seven bytes written
  are more than buffer and end point hold, seven received fill the buffer, need
  the end point enabled again, and let a read make room for a packet in the
  middle of a full buffer.  The proofs are for every size.  Control
  transfers have the real packet size and descriptors, three requests in a row
  and a reset: what one leaves is met by the next two.
* AVR: pages of two words, two extents of four words, chunks that end before, at and
  across a page and an extent; times shorter and longer than waited for.  Frames: two
  commands, one byte damaged or lost anywhere, a buffer of sixteen bytes.
  `Proto`: two arguments at most, two messages, one character disturbed.
* Drawing: a screen of four by two, rectangles and positions out of it on each
  side, each format, strides; two overlapping drawings for the DMA2D.  The
  display has three by two pixels and three calls.
* Rcc: the set-ups of `arch_init` on both targets and others at the limits of the
  flash, two in a row.  Timer: a counter up to three, four calls.
* Flash: three sectors of two sizes in two banks, one beyond the end, three calls;
  pages of four bytes.  Pool: four storages, any number of calls.  RateLimit: a
  timer that wraps at eight, intervals of three and of four (half a period), counted
  for two periods.  Trace: a ring of four, seven traces: it wraps.
* Files: three files, one of them empty, one name that begins another, names that are
  in no file, before, between and after the others; three descriptors, one of them the
  console, and two storages, so that either table is full first; reads of two
  characters of a file of three.  Calls are not bounded.  The proof is for any image.

A bound is a guard on an environment's or client's action, never on a step of
the code.

### Deadlock

The passing runs say `CHECK_DEADLOCK FALSE` as they may stop rightly: a file is
received, the bounded number of bytes, transfers, drawings or messages is used up.
There, stopping in the middle of something is what the liveness properties
exclude.  `Fifo` and `Exti` never stop, but share a run with parts which do.

### Fairness

* Uart: the main program runs (its `while` loops are its own), a pending enabled
  interrupt is served and its handler goes on, the transmitter shifts bytes out.  Nothing obliges the
  line to bring bytes.
* Xmodem: the receiver runs, the sender answers what it receives; losses are
  bounded, not forbidden.
* I2C: handlers run when their interrupt is pending, the peripheral and the
  slave go on with a transfer; a slave does not hold the clock for ever, and
  other masters end their accesses.
* Mex: programs and hub run.  Handlers return and answer the requests made to
  their node: the guard of `HandlerEnd` says so, the code cannot.
* USB: a call in progress goes on, a pending interrupt is served, the host polls
  its IN end points and sends what it has.
* Frames of the programmer: characters are read and written, the host repeats and
  receives; damage is bounded.
* Dsi: the program's call goes on, the handler is served, the controllers send and
  end frames.

Each is weak fairness of one actor.

### Hardware assumptions

One core executes memory accesses in program order.  CR1 and IMR updates of one
statement are one step where the other side changes no bit that matters (the
modules say where); `Timer` splits them.  TXE and BTF are gone once STOP is
requested; error and stop interrupts are handled before the next start condition
unless `SlowHandlers`.  The USB controller disables the OUT end point when the
completion of a packet is read unless `EarlyDisable`, and an IN packet goes out
after the handler that wrote it returns unless `SlowIsr`; the completion is in
the RX FIFO before the main program runs again; no bus reset follows the
configuration in `UsbCdc`.  In `Xmodem`, a second of silence means that nothing is
on its way, but for `MaxLate` times.  PLL factors cannot be written while it runs;
registers of a timer without a clock cannot be written; layer registers are loaded
between two frames.  In `Uart` reading DR clears RXNE and the error bits SR showed; an
overrun of the byte read that came after stays, and other errors that came between the two
reads may stay or not.  In `Xmodem` the complement and the CRC tell any damage to
what they protect, and the line adds no byte.  Flash cells go from erased to written only.

## 4. Proofs

### Fifo

For every size, element set, chunk set and history bound.  FIFO order is not
inductive: nothing in it says what is in the ring.  `FifoInv` adds

* `RingHolds`: the slots from `head` to `tail` hold, in order, what was sent and
  not received, and their number is the distance of the indices;
* `ReaderHolds`: what the reader copied is the beginning of that, and the tail it
  loaded is no further than the real one;
* `WriterHolds`: the slots from `tail` to the writer's local index hold what it
  is about to publish, and the head it loaded is no further than the real one.

The lemmas on `Distance` do the modular arithmetic once; each action then
preserves each conjunct.  `NoSlotRace`, `FifoOrder`, `ReaderSeesPublished`,
`NeverHalts`, `PollIsStable` follow, and each step of `Fifo` is a step or a
stutter of `FifoChannel` (`FifoImplementsChannel`).

### Exti

For every finite set of lines, assignment of vectors and depth of brackets, from
`ExtiLines` and `ExtiShared` (two lines on a vector share its counter) and, as a
hypothesis of each theorem, that clients do not destroy a disabled line; run
`exti_destroy` shows the hypothesis is needed.  `EnabledIsServed` and
`MaskHolds` depend on what open brackets will restore: `ExtiInv` adds that the
vector of an enabled line is enabled or some bracket saved it as enabled
(`SavedIsKept`), and that no bracket opened inside the one of an enabled line
did (`InnerIsOff`).  The counting lemmas turn "first" and "last" line of a
vector into the tests of the code on its counter.

### Uart

For every size of the two FIFOs, set of counts and bound, from the assumptions
of `Uart` alone.  `BothSidesAreSafe` is not inductive; `IInv` adds

* `MainHolds`: what `read` and `write` decided from the index they loaded stays
  possible whatever the handler does before they store theirs;
* `HandlerHolds`: what SR showed is still there when DR is read, and a handler
  that runs with nothing to receive runs because something was written;
* `LineHolds`: nothing stored is newer than the line, and a good byte in DR is
  newer than all that is stored, and the next one but for those missed; between the
  two reads of the handler the same holds of what SR showed;
* `EventsHold`: a client turned away is told, from the moment the index that
  turned it away was loaded.

`RxFaithful` says which bytes may be missed: `HoleIsMarked`, which says none, is
false (run `uart_hole`).  The steps of the handler are first shown never to shorten what
the main program counted on (the RX FIFO only grows, the TX FIFO only shrinks); each conjunct is
then kept action by action.

### USB serial line

For every size, set of counts and bound, under two hypotheses about the
controller, `~SlowIsr` and `~EarlyDisable`: without the first `NotStranded` is
false, without the second `NeverHalts` is, as TLC shows.  `InHolds` says of each
IN end point that it is both enabled and completed only while its handler
returns, and that what waits in the buffer has its completion, or the handler, to
come.  `OutHolds` says that whatever may still come in fits: the RX FIFO holds at
most one packet with its completion, and the OUT end point is enabled only if a
whole packet fits, or while a completion which will disable it waits.
`InExact` and `OutExact` are the contents: what was given, what is on its way and
what waits are the numbers from one, in order.  Type correctness, `NeverHalts`
and `NotStranded` follow (`SerialLineSafe`), and each direction is a
`FifoChannel` (`SerialLineIsTwoChannels`): a turn of `write` and a packet of the
host are `Send`, a packet taken and a `read` are `Receive`, interrupts stutter.

`SeqFacts` has the facts about sequences these proofs share: a sequence cut in
two, a queue in stages, and sequences of the numbers from one.

### Message exchange

For every finite set of nodes and every bound, in two parts.

Dates need no hypothesis.  That no node is sent past the date it waits for is not
inductive: the hub advances on what it was told.  `DatesInv` adds what makes it
right: the sequence number of the hub is what the node read plus what is on its
way (`AllAreCounted`); an IDLE that echoes the present number is the last message
written and its node still waits (`IdleIsLast`); a node the hub thinks idle has
nothing on its way in either direction (`HubKnows`); a date is first in its queue
and not after the date waited for (`DateIsFirst`); all nodes agree on the date
they will have once they have read it, and what is on its way was sent at that
date (`SameDate`, `SentNow`).

Requests need the hypothesis that handlers make no request themselves
(`NestedRequests = FALSE`): with them two requests of a node are out at once and
`request` takes the first response that comes.  `RequestsInv` follows one request:
it leaves, arrives, is handled, is answered, returns, it is at one of these places
at most, once, and while it is its node is inside `request` for it (`OnePlace`);
messages are at the node they are meant for, and `req_` is what the handler that
runs was called with (`Addressed`).  `ResponseMatches` is then immediate.

### Files

For every image `IsImage` accepts, set of names, size of the table and of the pool.
`FilesInv` adds to `FilesAreExact`

* `SearchIsRight`: a file of the name searched is in what remains, at each turn, and
  the descriptor chosen is still free;
* `RomIsInside`: what a stream has left is inside of the image.

That a turn keeps the first needs names to be totally ordered by `filename_compare`
(`NotBeforeItself`, `NotBothBefore`, `NoneBefore`): two names none of which is
before the other are equal, by the least index where they would differ
(`LeastOf`, from the well-founded order of finite sets).  `ImageIsRight` says what
the indexes of the image delimit, `CharsCut` that two reads in a row are one.
Ownership follows the storage: `Opened`, `Closed` and `Read` are the only calls
that disturb it.

### Xmodem

For every number of blocks, size of block numbers and number of faults.  What is
written is not what was sent when a file is acknowledged too early, so that the
invariant has to say where the sender is: `SenderIsNear`, it is at the last block
written or at the next one, it is at the former only until its acknowledgement
comes back, and `dup` is true only then.  `OneAtATime` (one frame or one answer
is on its way, or the receiver works on it) and `FramesAreNext` (that frame is the
one the sender is at) give that by steps.  Block numbers come in by `Successive`:
two that follow each other differ modulo `Mod`, the only thing the test of the code
needs.

`OneAtATime` is false if one second of silence may be wrong twice, and so is
`AckedIsWritten`, as run `xmodem_stale_dup` shows: `ReceptionIsSafe` (the three parts
of `SafeReception`) and `ReceptionIsTransfer` (each step is a step of `Transfer` or
stutters, a block taken for the end of file and a block taken in part included) have
`MaxLate <= 1` as their hypothesis.  `ShortFilesAreWrittenInOrder`
has none about the line: with fewer blocks than block numbers, whatever
is late, the file has the blocks in order, each once.

### Pool

For every size.  `PoolInv` says that links make a path which starts at `next_free_`,
ends at `nullptr`, meets each free storage once and no other: a sequence without
repetition, which `construct` shortens (`PathTaken`), the end of `destroy`
lengthens (`PathGiven`), and an object written over a storage out of it does not
change (`PathKept`).  `MetIsPath` identifies it with what the destructor meets (`met`,
by the least index where they would differ).

### RateLimit

For every even period and any intervals up to half of it.  `RateInv` relates dates
to ticks counted without wrapping, through `After`, the distance from `next_` to
`timer` modulo `Period`, what the subtraction of unsigned integers gives: until the
interval has passed, `next_` is its end; once it has, and unless a call came too late,
`next_` is no older than the last call, so that the sign bit tells the two apart.

### Drawing

`DmaHolds` and `SdlHolds`: for any surfaces (of any size, stride and format, their
components within the width of the format), any places, in the screen or out of it,
whatever the memory held at first, and any number of calls, a drawing is what `Surface` says, pixel by pixel.  The
assumptions are the types of the arguments and, for the DMA2D, that a surface of
half bytes has lines of whole bytes and is cut on one, as the registers require.

What remains to prove about the loops is one index: `RowsAreApart` (two rows of a
picture do not overlap), `RowAndColumn` and `CellIsInside` (pixels and pairs of a row
and a column are the same) and `ClipKeepsInside` (clipping keeps what is inside and
moves the source as it moves the destination), on any axis.  `LoopsGoThrough` then
says that the loops of `SdlFrameBuffer` reach each pixel of the clipped rectangle, once,
and `SourceIsInside` that none is read out of the surface.  `MixIsBetween` is
about the division of `blend`: a color mixed is between both, whatever alpha is.

`DmaIsExact` speaks of an idle controller only.  `DmaInv` adds the drawing in
progress: the rest of the present one, then the call that waits, makes the
destination what it should be (`Rest`, `Later`), so that the controller's lines can be
taken one by one (`LineIsDrawn`), while the call that waits stays as it was asked.

`DsiHolds`: for any display, surfaces with colors, positions, commands (not empty, and not the one
`refresh` uses itself, `DsiArguments`), number of calls, and delays of handler and
controllers, with the client's rule on `wait_reload`.  Of the three parts of
`DisplayIsExact` only the layers in use are inductive by themselves.  `DsiInv` adds
`LayersHold`, a layer shows what was asked but for the one being set up, and no reload is
pending then; `SendingHolds`, the FIFO has the whole of a command or nothing (`Payload`,
whose bytes `WordsAre` finds by the division of their place by four); and
`RefreshHolds`, the course of a refresh: `Telling`, `Signaled`, `Showing`, `Shown`, `Refreshes`.

### Timer

For any options, pairs of values and bound on calls, in `InterruptProofs`, from
`TimerLimits`, `TimerOptions` (what options combine to is in the range of the
registers; TLC evaluates it) and, as a hypothesis of `TimerHolds`, a clock of its own
for each instance (`OwnClocks`), true of all but TIM11.  That the
values in force were asked together depends on the call in progress: `TimerInv` says
what remains of it (`CallInProgress`).  Once UDIS is stored and until the last access
of a change, the update that would take half of it does not come; but in the middle of
a change, the next values are a pair (`NextIsPair`).  CR1 is stored as it was
loaded, even if the timer stopped itself meanwhile: without one pulse mode in what was
loaded (`Changing`) that makes no pulse, and a pulse which runs was counted as
started (`PulsesToCome`).

### Rcc

`RccHolds`, in `InterruptProofs`: for any sets of arguments and any number of set-ups in
a row, whenever oscillators, PLL and switch follow, `ClocksAreExact`.  It uses
`RccTarget` (ranges) and `RccArguments`: arguments agree as the code asserts, at most 180
MHz on F4, and two set-ups with the same factors have the same crystal, as a board has
one.  TLC evaluates both on the arguments of the run.

What is in use depends on when the switch follows, so `RccInv` says of the source
asked what it says of the one in use (`SourceIsReady`).  HSI fits whatever wait states
and regulator an earlier set-up left (`HsiFits`), which makes it a safe fall back; the
PLL fits from the step that asks for it, since wait states are stored before it
(`EnoughWaitStates`) and the regulator before the PLL starts (`SetupIsAt`).  The PLL,
once on, has the factors of the set-up in progress, or of one that
the library still tells (`PllIsSet`), and nothing it depends on is stopped
(`PllIsDriven`).  `BusesAreTold` and `LcdIsTold` are the frequencies told, outside of a
set-up of the same clocks; the LCD clock needs that a set-up of the system clock
leaves the crystal alone.

### Trace

`TraceHolds`: for any ring, a trace that handlers interrupt damages no other one.  That
`dump` shows what is right says nothing of which entry the next trace takes.
`TraceInv` gives each place an age counted from the oldest one, `Base`, which is
`index` between traces and the place the program has kept during one: the intact
traces are in the order of their ages (`OldOrdered`), none is older than the traces
since (`OldAges`), no recent one is missing (`RecentKept`), and what was never used is
the end of the ring (`RingFilled`).  During a trace, `InProgress` says how far `index`
is from the place kept: as far as handlers have traced, so that what they and the
program write over is older than ENTRIES_NB traces.  `dump` then visits ages in decreasing
order (`DumpPlaces`).  That holds until an entry is skipped, and the range of
`index` after it too.

### I2C

For any counts, buffer sizes, accesses, restarts, lost arbitrations and bus errors,
under the hypothesis of the runs, `~SlowHandlers` (errors and stops are handled
before the next start on the bus): `BothHold`, that a
transfer in either direction is exact whatever the other side does,
`ReceptionHolds`, its hardest part, and `AccessesAreProvided`.

None of these says anything of a transfer in progress.  `Control` says what START,
STOP and SB mean for the driver (`Requests`: a request is there only while the
transfer it was made for is, the bus is ours only with a reason), where bytes may be
in each role (`NoRole`, `Addressing`, `MasterRole`, `SlaveRole`) and how RXNE, TXE and
BTF follow from the two data registers (`Shapes`); master and slave share
`buf_index_` and `buf_count_`, which `SlaveCounts` and `Requests` give to one of them.

`MasterHolds` counts: what was acknowledged plus what is in the registers is
`buf_index_` (`SendData`); what was received plus what is in the registers is what
the slave was made to send (`RecvData`).  The latter also lists the three
states in which a reception can end, by POS for two bytes, by ACK until three are
left, by ACK cleared with two in the registers: leaving one for the next too early
or too late is what "Crappy hardware!" (`i2c_hard.stm32.cc:242-313`) is about.

`SlaveHolds`: bytes given, bytes in the registers and bytes left in the buffer each may
follow those before (`SendsOneUpdate`): once filler, always filler.  What is being
received is in the buffer, up to its size, and in the registers
(`ReceivesAccesses`); what was received, in the data buffer or polled, is the whole of
an access that is over (`OfAccess`), later than those polled before.  An access
that is over was given (`EachIsProvided`), if no restart took the place of its stop.

### Only model-checked

Liveness everywhere (fairness is out of the prover's reach), and all properties
of the modules that have no proof module in the table of section 2.  Where these
compute by recursion over data (checksums and frames of the AVR programmer,
messages), what a definition gives for every input would need
an induction the prover cannot do.

## 5. Plan

What could follow, in this order: a proof of `SelfProgramming`, sequential; `LcdSpi`
and `UsDist`, not modelled yet.

### Not modelled

* `Spi`: loops that wait for a flag and move one byte; a model restates the loop.
* `Lcd`, `UsDist`: planned, sequential.
* Of the system calls: `sbrk`, `exit`, `getpid`, the functions of the C++ support.
* Register set-up of pins, converters and SDRAM, the registers that describe a
  display: single writes, no protocol of their own to get wrong.
* Host implementations that are plain I/O (options, configuration, terminals,
  the socket of the hub), console, tests.
* Mathematics (floating point) and checksum tables: no state.
* Interfaces and dummies: abstract or empty.
* Start-up code, vectors, delays; generated, vendored and third-party code.
