-------------------------------- MODULE AvrIsp --------------------------------
(***************************************************************************)
(* ucoo::AvrIsp (dev/avrisp/avrisp.cc), in-system programming of an AVR,   *)
(* and ucoo::AvrIspProto (dev/avrisp/avrisp_proto.cc), the commands of the *)
(* programmer.                                                             *)
(*                                                                         *)
(* Each turn of a loop over bytes, over polls or over synchronisation tries*)
(* is a step: the device goes on meanwhile.  An SPI instruction is a       *)
(* record, not its four bytes.  The AVR being programmed and the host      *)
(* which sends the commands are not code of the repository: the AVR writes *)
(* its memory for some time, and ignores what it receives meanwhile but    *)
(* polls and reads; the host does what the comments of avrisp.hh ask for.  *)
(***************************************************************************)
EXTENDS Integers, Sequences, FiniteSets, FiniteSetsExt

CONSTANTS AddrSize,         \* 2^16, the values of addr_
          ExtSize,          \* 2^8, the values of ext_addr_
          PageSize,         \* words in a page of flash
          Tries,            \* 150
          Loops,            \* 48
          Extents,          \* addresses the device has, beyond AddrSize
          Starts,           \* addresses the host loads
          Chunks,           \* bytes the host programs at once
          Methods,          \* how the host asks to wait
          Erased,           \* value read from an erased or a busy cell
          SlowTimes,        \* how many polls a write lasts
          Skews,            \* clock pulses to be synchronised
          MaxIspCommands    \* bound: number of commands

ASSUME IspSizes == AddrSize \in Nat \ {0} /\ ExtSize \in Nat \ {0}
                   /\ PageSize \in 1..AddrSize
ASSUME IspMethods == Methods \subseteq {"delay", "value", "rdy_bsy"}
ASSUME IspBounds == {Tries, Loops, MaxIspCommands} \subseteq Nat
                    /\ SlowTimes \subseteq Nat \ {0} /\ Skews \subseteq Nat
                    /\ Extents \in 1..ExtSize

VARIABLES
    addr, ext, lastExt, larger,     \* addr_, ext_addr_, last_ext_addr_,
                                    \* larger_than_64k_
    prog,       \* start_addr_, mode_, flash_; bytes_left_ is zero between
                \* commands: each gives all its data at once
    pollable,   \* pollable_ and poll_addr_: the cell to poll, or nothing
    ispPc,         \* the operation in progress
    data, i,    \* program_continue, read_continue: data, and the loop index
    tries,      \* tries left, or synchronisation loops left
    read,       \* the last byte polled
    status,     \* the status of the answer
    device,     \* the AVR
    session,    \* host: programming mode was entered, nothing has failed since
    cursor,     \* host: address of the next cell, once loaded
    expected,   \* host: what it believes the memories hold
    pending,    \* host: bytes sent of a page which is not written yet
    wanted,     \* host: what it asked to read
    ispCommands     \* commands so far

fields == <<addr, ext, lastExt, larger>>
command == <<prog, data, wanted>>
hostView == <<session, expected, pending>>
ispVars == <<fields, command, pollable, ispPc, i, tries, read, status, device,
             hostView, cursor, ispCommands>>

\* larger_than_64k_ set and last_ext_addr_ not loaded: 0xff.
NotLoaded == ExtSize - 1
FlashCells == {"flash"} \X (0..Extents * AddrSize - 1) \X {0, 1}
EepromCells == {"eeprom"} \X (0..AddrSize - 1) \X {0}
Fuse == <<"fuse", 0, 0>>
Blank == [c \in FlashCells \cup EepromCells \cup {Fuse} |-> Erased]
NoPage == [c \in (0..PageSize - 1) \X {0, 1} |-> Erased]
Nothing == <<"none", 0, 0>>
NoCursor == -1

--------------------------------------------------------------------------------
(* The AVR. *)

Busy(d) == d.busy > 0
Hears(d) == d.enabled /\ ~Busy(d)

\* The cell an instruction is about.
Cell(d, flash, a, side) ==
    IF flash THEN <<"flash", d.ext * AddrSize + a, side>> ELSE <<"eeprom", a, 0>>

LoadExt(d, e) == IF Hears(d) THEN [d EXCEPT !.ext = e] ELSE d

\* The device starts to write cells, for n polls.
Written(d, cells, n) ==
    [d EXCEPT !.memory = [c \in DOMAIN @ |-> IF c \in DOMAIN cells THEN cells[c]
                                                                  ELSE @[c]],
              !.writing = DOMAIN cells, !.busy = n]

WriteMemory(d, flash, a, side, v, n) ==
    IF ~Hears(d) THEN d
    ELSE IF flash /\ d.paged
    THEN [d EXCEPT !.page[<<a % PageSize, side>>] = v]
    ELSE Written(d, [c \in {Cell(d, flash, a, side)} |-> v], n)

WritePage(d, a, n) ==
    IF ~Hears(d) THEN d
    ELSE LET first == a - (a % PageSize)
             cells == {Cell(d, TRUE, first + o, s) : o \in 0..PageSize - 1,
                                                     s \in {0, 1}}
         IN  [Written(d, [c \in cells |-> d.page[<<c[2] % PageSize, c[3]>>]], n)
                EXCEPT !.page = NoPage]

\* What is read while the device writes the cell is the erased value.
ReadMemory(d, c) ==
    IF (Busy(d) /\ c \in d.writing) \/ ~d.enabled \/ c \notin DOMAIN d.memory
    THEN Erased ELSE d.memory[c]

Polled(d) == [d EXCEPT !.busy = IF Busy(d) THEN @ - 1 ELSE 0]
Waited(d) == [d EXCEPT !.busy = 0]

--------------------------------------------------------------------------------
(* The host: one command at a time, its answer awaited. *)

\* A device whose flash is written by pages, or by words.
NewDevice(paged) ==
    [paged |-> paged, memory |-> Blank, page |-> NoPage, ext |-> 0, busy |-> 0,
     writing |-> {}, enabled |-> FALSE, skew |-> 0]

IspInit ==
    /\ addr = 0 /\ ext = 0 /\ lastExt = NotLoaded /\ larger = FALSE
    /\ prog = [start |-> 0, method |-> "delay", page |-> FALSE,
               write |-> FALSE, flash |-> TRUE]
    /\ pollable = Nothing
    /\ ispPc = "idle" /\ data = << >> /\ i = 0 /\ tries = 0 /\ read = Erased
    /\ status = "ok"
    /\ \E paged \in BOOLEAN : device = NewDevice(paged)
    /\ session = FALSE /\ cursor = NoCursor /\ expected = Blank /\ wanted = << >>
    /\ pending = << >>
    /\ ispCommands = 0

Receives ==
    /\ ispPc = "idle" /\ ispCommands < MaxIspCommands
    /\ ispCommands' = ispCommands + 1

\* The answer: what failed or timed out leaves the host without knowledge.
IspAnswer(s) ==
    /\ status' = s
    /\ ispPc' = "idle"
    /\ session' = (session /\ s = "ok")

\* accept: a command of a wrong length, or unknown, changes nothing.
AcceptBadCommand ==
    /\ Receives
    /\ \E s \in {"failed", "unknown"} : status' = s
    /\ UNCHANGED <<fields, command, pollable, ispPc, i, tries, read, device,
                   hostView, cursor>>

\* enter_progmode up to its loop; enable resets the device.
EnterProgmode ==
    /\ Receives
    /\ ext' = 0 /\ lastExt' = NotLoaded /\ larger' = FALSE
    /\ \E skew \in Skews :
         device' = [NewDevice(device.paged) EXCEPT !.memory = device.memory, !.skew = skew]
    /\ \E loops \in {Loops - 1, Loops + 1} :
         tries' = IF loops > Loops THEN Loops ELSE loops
    /\ ispPc' = "synchronise" /\ session' = FALSE /\ cursor' = NoCursor
    /\ pending' = << >>
    /\ UNCHANGED <<addr, command, pollable, i, read, status, expected>>

\* One synchronisation: the device echoes the second byte if it agrees on where
\* a byte starts, else it is given a clock pulse.
Synchronise ==
    /\ ispPc = "synchronise"
    /\ \/ /\ tries > 0 /\ device.skew = 0
          /\ device' = [device EXCEPT !.enabled = TRUE]
          /\ session' = TRUE /\ status' = "ok" /\ ispPc' = "idle"
          /\ UNCHANGED tries
       \/ /\ tries > 0 /\ device.skew > 0
          /\ device' = [device EXCEPT !.skew = @ - 1]
          /\ tries' = tries - 1
          /\ UNCHANGED <<session, status, ispPc>>
       \/ /\ tries = 0
          /\ IspAnswer("failed")
          /\ UNCHANGED <<device, tries>>
    /\ expected' = device.memory
    /\ UNCHANGED <<fields, command, pollable, i, read, cursor, pending, ispCommands>>

\* leave_progmode: the device runs its program.
LeaveProgmode ==
    /\ Receives
    /\ device' = [device EXCEPT !.enabled = FALSE, !.busy = 0, !.page = NoPage]
    /\ status' = "ok" /\ session' = FALSE /\ pending' = << >>
    /\ UNCHANGED <<fields, command, pollable, ispPc, i, tries, read, cursor, expected>>

\* load_address: the host sets bit 31 for a device of more than 64k words.
LoadAddress ==
    /\ Receives /\ pending = << >>
    /\ \E a \in Starts :
         /\ addr' = a % AddrSize
         /\ ext' = (a \div AddrSize) % ExtSize
         /\ lastExt' = NotLoaded
         /\ larger' = (Extents > 1)
         /\ cursor' = a
    /\ status' = "ok"
    /\ UNCHANGED <<command, pollable, ispPc, i, tries, read, device, hostView>>

\* chip_erase: the wait is a delay, or the loop below.
ChipErase ==
    /\ Receives /\ session /\ pending = << >>
    /\ \E n \in SlowTimes, polls \in BOOLEAN :
         LET d == Written(device, [Blank EXCEPT ![Fuse] = device.memory[Fuse]], n)
         IN  IF polls
             THEN /\ device' = d /\ ispPc' = "erasing" /\ tries' = Tries
                  /\ UNCHANGED status
             ELSE /\ device' = Waited(d) /\ status' = "ok" /\ UNCHANGED <<ispPc, tries>>
    /\ expected' = [Blank EXCEPT ![Fuse] = expected[Fuse]]
    /\ UNCHANGED <<fields, command, pollable, i, read, session, cursor, pending>>

\* program_misc: there is no wait, the host waits.
ProgramMisc ==
    /\ Receives /\ session /\ pending = << >>
    /\ \E v \in {Erased, 0} :
         /\ device' = Waited(Written(device, [c \in {Fuse} |-> v], 1))
         /\ expected' = [expected EXCEPT ![Fuse] = v]
    /\ status' = "ok"
    /\ UNCHANGED <<fields, command, pollable, ispPc, i, tries, read, session, cursor,
                   pending>>

\* read_misc: one byte at once.
ReadMisc ==
    /\ Receives /\ session
    /\ wanted' = <<expected[Fuse]>> /\ data' = <<ReadMemory(device, Fuse)>>
    /\ status' = "ok"
    /\ UNCHANGED <<fields, prog, pollable, ispPc, i, tries, read, device, hostView,
                   cursor>>

--------------------------------------------------------------------------------
(* Programming. *)

\* Bytes of flash are by pairs; the cell of byte k from linear address a.
HostCell(flash, a, k) ==
    IF flash THEN <<"flash", a + k \div 2, k % 2>> ELSE <<"eeprom", a + k, 0>>
Advance(flash, n) == IF flash THEN n \div 2 ELSE n

\* What the host expects of the memory after its bytes, and of the rest of a page.
After(flash, whole, a, bytes) ==
    [c \in DOMAIN expected |->
        IF \E k \in 0..Len(bytes) - 1 : c = HostCell(flash, a, k)
        THEN bytes[1 + (CHOOSE k \in 0..Len(bytes) - 1 : c = HostCell(flash, a, k))]
        ELSE IF whole /\ c[1] = "flash" /\ c[2] \div PageSize = a \div PageSize
        THEN Erased ELSE expected[c]]

\* The host may only ask for cells the device has, in one page, and for
\* something to wait for.
InDevice(flash, a, n) ==
    IF flash THEN a + n \div 2 <= Extents * AddrSize ELSE a + n <= AddrSize
InPage(a, n) == (a % PageSize) + n \div 2 <= PageSize

\* accept of PROGRAM_FLASH and PROGRAM_EEPROM, program_begin.  A page is sent by
\* one command or several, the last of them writes it.
ProgramBegin ==
    /\ Receives /\ session /\ cursor # NoCursor
    /\ \E flash, write \in BOOLEAN, bytes \in Chunks, method \in Methods :
         LET page == flash /\ device.paged
             n == Len(bytes)
             sent == pending \o bytes
             first == cursor - Len(pending) \div 2
         IN  /\ pending # << >> => page
             /\ ~page => ~write
             /\ IF flash /\ n % 2 = 1
                THEN /\ IspAnswer("failed")
                     /\ UNCHANGED <<command, pollable, cursor, expected, pending, i>>
                ELSE /\ InDevice(flash, cursor, n) /\ (page => InPage(first, Len(sent)))
                     /\ prog' = [start |-> addr, method |-> method, page |-> page,
                                 write |-> write, flash |-> flash]
                     /\ pollable' = Nothing
                     /\ data' = bytes /\ wanted' = << >> /\ i' = 0
                     /\ ispPc' = "program"
                     /\ expected' = IF page /\ ~write THEN expected
                                    ELSE After(flash, page, first, sent)
                     /\ pending' = IF page /\ ~write THEN sent ELSE << >>
                     /\ cursor' = cursor + Advance(flash, n)
                     /\ UNCHANGED <<session, status>>
    /\ UNCHANGED <<fields, tries, read, device>>

\* The extended address, if it is not the one loaded.
MustLoadExt == larger /\ lastExt # ext
WithExt(d) == IF MustLoadExt THEN LoadExt(d, ext) ELSE d

\* Mutant of NextAddress: the address does not carry.
NextAddressNoCarry ==
    /\ addr' = IF ~prog.flash \/ i % 2 = 1 THEN (addr + 1) % AddrSize ELSE addr
    /\ UNCHANGED ext

\* To the next byte: flash has two per address.
NextAddress ==
    IF ~prog.flash \/ i % 2 = 1
    THEN /\ addr' = (addr + 1) % AddrSize
         /\ ext' = IF addr' = 0 THEN (ext + 1) % ExtSize ELSE ext
    ELSE UNCHANGED <<addr, ext>>

\* How to wait for the end of a write of value v.
WaitMethod(pollableValue) ==
    IF prog.method = "value" /\ ~pollableValue THEN "delay" ELSE prog.method

\* One byte of program_continue, up to its wait.
ProgramByte ==
    /\ ispPc = "program" /\ i < Len(data)
    /\ lastExt' = IF MustLoadExt THEN ext ELSE lastExt
    /\ \E n \in SlowTimes :
         LET v == data[i + 1]
             side == IF prog.flash THEN i % 2 ELSE 0
             d == WriteMemory(WithExt(device), prog.flash, addr, side, v, n)
         IN  IF prog.page
             THEN /\ device' = d
                  /\ pollable' = IF pollable = Nothing /\ v # Erased
                                 THEN <<"flash", addr, side>> ELSE pollable
                  /\ NextAddress /\ i' = i + 1
                  /\ UNCHANGED <<ispPc, tries, read>>
             ELSE /\ UNCHANGED <<pollable, addr, ext, i>>
                  /\ tries' = Tries /\ read' = Erased
                  /\ ispPc' = CASE WaitMethod(v # Erased) = "delay" -> "next"
                             [] WaitMethod(v # Erased) = "value" -> "byteValue"
                             [] OTHER -> "byteReady"
                  /\ device' = IF ispPc' = "next" THEN Waited(d) ELSE d
    /\ UNCHANGED <<larger, command, status, hostView, cursor, ispCommands>>

\* After a wait: next byte, or TIMEOUT when no try is left.
ProgramNext ==
    /\ ispPc = "next"
    /\ IF tries = 0
       THEN IspAnswer("timeout") /\ UNCHANGED <<addr, ext, i>>
       ELSE /\ NextAddress /\ i' = i + 1 /\ ispPc' = "program"
            /\ UNCHANGED <<status, session>>
    /\ UNCHANGED <<lastExt, larger, command, pollable, tries, read, device, expected,
                   pending, cursor, ispCommands>>

\* program_end: write the page, and wait.
ProgramEnd ==
    /\ ispPc = "program" /\ i = Len(data)
    /\ IF prog.page /\ prog.write
       THEN \E n \in SlowTimes :
              LET d == WritePage(device, prog.start, n)
                  method == WaitMethod(pollable # Nothing)
              IN  /\ tries' = Tries /\ read' = Erased
                  /\ ispPc' = CASE method = "delay" -> "written"
                             [] method = "value" -> "pageValue"
                             [] OTHER -> "pageReady"
                  /\ device' = IF method = "delay" THEN Waited(d) ELSE d
                  /\ UNCHANGED <<status, session>>
       ELSE IspAnswer("ok") /\ UNCHANGED <<tries, read, device>>
    /\ UNCHANGED <<fields, command, pollable, i, expected, pending, cursor, ispCommands>>

\* End of program_end, and of chip_erase.
ProgramEnded ==
    /\ ispPc = "written"
    /\ IspAnswer(IF tries = 0 THEN "timeout" ELSE "ok")
    /\ UNCHANGED <<fields, command, pollable, i, tries, read, device, expected,
                   pending, cursor, ispCommands>>

\* Value polling: until the byte is the one written, until the page does not
\* read as erased.
ValueIsRead ==
    IF ispPc = "byteValue" THEN read = data[i + 1] ELSE read # Erased
PollCell ==
    IF ispPc = "byteValue"
    THEN Cell(device, prog.flash, addr, IF prog.flash THEN i % 2 ELSE 0)
    ELSE Cell(device, prog.flash, pollable[2], pollable[3])

PollValue ==
    /\ ispPc \in {"byteValue", "pageValue"}
    /\ IF ~ValueIsRead /\ tries > 0
       THEN /\ read' = ReadMemory(device, PollCell)
            /\ device' = Polled(device)
            /\ tries' = tries - 1
            /\ UNCHANGED ispPc
       ELSE /\ ispPc' = IF ispPc = "byteValue" THEN "next" ELSE "written"
            /\ UNCHANGED <<read, device, tries>>
    /\ UNCHANGED <<fields, command, pollable, i, status, hostView, cursor, ispCommands>>

\* RDY/BSY polling: the test of the loop is itself a poll.
PollReady ==
    /\ ispPc \in {"byteReady", "pageReady", "erasing"}
    /\ device' = Polled(device)
    /\ IF Busy(device) /\ tries > 0
       THEN tries' = tries - 1 /\ UNCHANGED ispPc
       ELSE /\ ispPc' = IF ispPc = "byteReady" THEN "next" ELSE "written"
            /\ UNCHANGED tries
    /\ UNCHANGED <<fields, command, pollable, i, read, status, hostView, cursor,
                   ispCommands>>

--------------------------------------------------------------------------------
(* Reading. *)

\* accept of READ_FLASH and READ_EEPROM, read_begin.
ReadBegin ==
    /\ Receives /\ session /\ cursor # NoCursor /\ pending = << >>
    /\ \E flash \in BOOLEAN, n \in {Len(bytes) : bytes \in Chunks} :
         IF flash /\ n % 2 = 1
         THEN IspAnswer("failed") /\ UNCHANGED <<command, cursor, i>>
         ELSE /\ InDevice(flash, cursor, n)
              /\ prog' = [prog EXCEPT !.flash = flash]
              /\ data' = << >> /\ i' = 0 /\ ispPc' = "read"
              /\ wanted' = [k \in 1..n |-> expected[HostCell(flash, cursor, k - 1)]]
              /\ cursor' = cursor + Advance(flash, n)
              /\ UNCHANGED <<session, status>>
    /\ UNCHANGED <<fields, pollable, tries, read, device, expected, pending>>

\* One byte of read_continue; read_end.
ReadByte ==
    /\ ispPc = "read"
    /\ IF i < Len(wanted)
       THEN LET d == WithExt(device)
            IN  /\ device' = d
                /\ lastExt' = IF MustLoadExt THEN ext ELSE lastExt
                /\ data' = Append(data, ReadMemory(d,
                              Cell(d, prog.flash, addr, IF prog.flash THEN i % 2 ELSE 0)))
                /\ NextAddress /\ i' = i + 1
                /\ UNCHANGED <<ispPc, status, session>>
       ELSE /\ IspAnswer("ok")
            /\ UNCHANGED <<device, lastExt, data, addr, ext, i>>
    /\ UNCHANGED <<larger, prog, wanted, pollable, tries, read, expected, pending, cursor,
                   ispCommands>>

--------------------------------------------------------------------------------
IspNext ==
    \/ AcceptBadCommand \/ EnterProgmode \/ Synchronise \/ LeaveProgmode
    \/ LoadAddress \/ ChipErase \/ ProgramMisc \/ ReadMisc
    \/ ProgramBegin \/ ProgramByte \/ ProgramNext \/ ProgramEnd \/ ProgramEnded
    \/ PollValue \/ PollReady
    \/ ReadBegin \/ ReadByte

IspTypeOK ==
    /\ addr \in 0..AddrSize - 1 /\ {ext, lastExt} \subseteq 0..ExtSize - 1
    /\ larger \in BOOLEAN
    /\ pollable \in FlashCells \cup {Nothing}
    /\ i \in Nat /\ tries \in 0..Max({Tries, Loops})
    /\ status \in {"ok", "failed", "unknown", "timeout"}
    /\ DOMAIN device.memory = DOMAIN Blank

IspIdle == ispPc = "idle" /\ session

\* What the host believes is true, and the device is ready: a command answered OK
\* has been obeyed by the device, at the address the host meant, whether words
\* or pages were written, polled in any way, across the limit of an extended
\* address, and no instruction was sent to a device that could not hear it
\* (program_continue, program_end, chip_erase).
MemoryIsExpected ==
    IspIdle => device.memory = expected /\ ~Busy(device) /\ device.enabled

\* What is read is what the host believes is there, across the limit of an
\* extended address too (read_continue, load_address).
ReadIsExact ==
    ispPc \in {"idle", "read"} /\ wanted # << >> => data = SubSeq(wanted, 1, Len(data))

\* The three, for the run: commands do to the device what the host was told.
ProgrammingIsExact == IspTypeOK /\ MemoryIsExpected /\ ReadIsExact
================================================================================
