---------------------------- MODULE SelfProgramming ----------------------------
(***************************************************************************)
(* ucoo::self_programming_erase and self_programming_write: a program      *)
(* changes the flash memory it is in.  On STM32F4 (self_programming.       *)
(* stm32f4.cc) flash is made of sectors of several sizes in two banks, on  *)
(* STM32F1 (self_programming.stm32f1.cc) of pages.                         *)
(* A call unlocks the memory, waits for it after each access and locks it  *)
(* again; nothing comes in between.                                        *)
(*                                                                         *)
(* An address is relative to the start of flash.  A byte has two bits.     *)
(***************************************************************************)
EXTENDS Integers, Sequences, SequencesExt

CONSTANTS sector_addr,  \* start of each sector, and end of the last one
          Bank,         \* sectors of the first bank: 12
          FlashSize,    \* FLASH_SIZE, which may end before the last sector
          PageSize,     \* on STM32F1
          Word,         \* alignment of a write, 4 on STM32F4 and 2 on STM32F1
          Bufs,         \* what is written
          MaxFlash      \* bound: calls

ASSUME FlashBounds == /\ sector_addr \in Seq(Nat) /\ Bank \in Nat
                      /\ {FlashSize, PageSize, Word} \subseteq Nat \ {0}
                      /\ MaxFlash \in Nat

VARIABLES
    family,         \* "f1", "f4"
    memory,         \* the bytes of flash
    expected,       \* what flash should hold, for the properties
    flashHalted,    \* an assertion failed
    misused,        \* the last call broke a rule of self_programming.hh
    flashCalls

flashVars == <<family, memory, expected, flashHalted, misused, flashCalls>>

Cells == 0..FlashSize - 1
Erased == 3
AreaOf(addr, count) == addr..addr + count - 1

FlashInit ==
    /\ family \in {"f1", "f4"}
    /\ memory = [c \in Cells |-> 0] /\ expected = memory
    /\ flashHalted = FALSE /\ misused = FALSE /\ flashCalls = 0

FlashCall == ~flashHalted /\ flashCalls < MaxFlash /\ flashCalls' = flashCalls + 1

--------------------------------------------------------------------------------
(* The flash interface (hardware): STM32F4 programs bytes and can only clear *)
(* bits; STM32F1 programs half words, that are erased.                       *)

NoSector == Len(sector_addr)
SectorOfSnb(snb) == IF snb >= 16 THEN snb - 16 + Bank
                    ELSE IF snb < Bank THEN snb ELSE NoSector
Wiped(f, area) == [c \in Cells |-> IF c \in area THEN Erased ELSE f[c]]
AndBits(a, b) == (IF (a \div 2) + (b \div 2) = 2 THEN 2 ELSE 0)
                 + (IF (a % 2) + (b % 2) = 2 THEN 1 ELSE 0)
FlashProgrammed(f, addr, buf) ==
    [c \in Cells |->
        IF c - addr + 1 \notin DOMAIN buf THEN f[c]
        ELSE IF family = "f4" THEN AndBits(f[c], buf[c - addr + 1])
        ELSE IF \A h \in AreaOf(2 * (c \div 2), 2) : f[h] = Erased THEN buf[c - addr + 1]
        ELSE f[c]]

--------------------------------------------------------------------------------
\* Mutant of Snb: sectors of the second bank follow those of the first.
SnbPlain(sector) == sector

\* Number of a sector for hardware, there is a hole between banks.
Snb(sector) == IF sector >= Bank THEN sector + 16 - Bank ELSE sector

\* self_programming_erase_size, of the start of a sector or page.
EraseSize(addr) ==
    IF family = "f1" THEN PageSize
    ELSE LET s == CHOOSE k \in 1..Len(sector_addr) - 1 : sector_addr[k] = addr
         IN  sector_addr[s + 1] - addr

\* The loop on sectors: one is erased when its start is reached.  After the table
\* nothing is known, the count can not be met.
EraseSectors(f, addr, count) ==
    FoldLeft(LAMBDA r, s :
                 IF r.count = 0 \/ r.addr # sector_addr[s] THEN r
                 ELSE LET sector == SectorOfSnb(Snb(s - 1)) + 1
                          size == sector_addr[s + 1] - r.addr
                      IN  [addr |-> r.addr + size, count |-> r.count - size,
                           flash |-> IF sector >= Len(sector_addr) THEN r.flash
                                     ELSE Wiped(r.flash, AreaOf(sector_addr[sector],
                                         sector_addr[sector + 1] - sector_addr[sector]))],
             [addr |-> addr, count |-> count, flash |-> f],
             [s \in 1..Len(sector_addr) - 1 |-> s])

\* self_programming_erase on STM32F4: the count is looked at once sectors are erased.
EraseF4(addr, count) ==
    LET r == EraseSectors(memory, addr, count)
    IN  /\ family = "f4"
        /\ memory' = r.flash /\ flashHalted' = (r.count # 0)

\* On STM32F1: address and count are looked at first.
EraseF1(addr, count) ==
    /\ family = "f1"
    /\ IF addr % PageSize = 0 /\ count % PageSize = 0
       THEN memory' = Wiped(memory, AreaOf(addr, count)) /\ UNCHANGED flashHalted
       ELSE flashHalted' = TRUE /\ UNCHANGED memory

\* "must be aligned on erase size": addr is, count may not be.
Aligned(addr, count) ==
    IF family = "f1" THEN addr % PageSize = 0 /\ count % PageSize = 0
    ELSE \E i, j \in DOMAIN sector_addr :
             sector_addr[i] = addr /\ sector_addr[j] = addr + count

\* What flash should hold after an erase.  One that is not aligned changes
\* nothing, but for what comes after the start of a sector on STM32F4: sectors
\* are erased before the assertion fails.
Erasing(addr, count) ==
    IF Aligned(addr, count) THEN Wiped(expected, AreaOf(addr, count))
    ELSE IF family = "f4" /\ addr \in Range(sector_addr)
         THEN [c \in Cells |-> IF c < addr THEN expected[c] ELSE memory'[c]]
    ELSE expected

self_programming_erase(addr, count) ==
    /\ FlashCall /\ count > 0
    /\ IF addr + count > FlashSize
       THEN flashHalted' = TRUE /\ UNCHANGED <<memory, expected>>
       ELSE /\ EraseF4(addr, count) \/ EraseF1(addr, count)
            /\ expected' = Erasing(addr, count)
    /\ UNCHANGED family

\* Any call, and the call of a program that asks for the size first.
EraseSome(addr, count) ==
    /\ self_programming_erase(addr, count)
    /\ misused' = (addr + count > FlashSize \/ ~Aligned(addr, count))

EraseOne(addr) ==
    /\ self_programming_erase(addr, EraseSize(addr))
    /\ misused' = FALSE

EraseStarts == IF family = "f1" THEN {c \in Cells : c % PageSize = 0}
               ELSE Range(sector_addr) \cap Cells

\* Byte after byte, or half word after half word.  Errors of hardware are not looked
\* at.
self_programming_write(addr, buf) ==
    /\ FlashCall
    /\ IF addr % Word = 0 /\ Len(buf) % Word = 0 /\ addr + Len(buf) <= FlashSize
       THEN /\ memory' = FlashProgrammed(memory, addr, buf)
            /\ UNCHANGED flashHalted
            /\ expected' = IF \A c \in AreaOf(addr, Len(buf)) : expected[c] = Erased
                           THEN [c \in Cells |-> IF c - addr + 1 \in DOMAIN buf
                                                 THEN buf[c - addr + 1] ELSE expected[c]]
                           ELSE [c \in Cells |-> IF c \in AreaOf(addr, Len(buf))
                                                 THEN memory'[c] ELSE expected[c]]
       ELSE flashHalted' = TRUE /\ UNCHANGED <<memory, expected>>
    /\ misused' = flashHalted'
    /\ UNCHANGED family

FlashNext ==
    \/ \E addr, count \in Cells : EraseSome(addr, count + 1)
    \/ \E addr \in EraseStarts : EraseOne(addr)
    \/ \E addr \in Cells, buf \in Bufs : self_programming_write(addr, buf)
--------------------------------------------------------------------------------
\* Flash holds what was written to erased places and was not erased since, and
\* nothing else changes, sectors found by walking a table with a hole between
\* banks; an erase that is refused changes nothing, on STM32F4 nothing before
\* its address (self_programming.stm32f4.cc:76-93).  An assertion only fails
\* for a program which broke a rule: never for one that erases what
\* self_programming_erase_size told.
FlashIsExact ==
    /\ memory = expected
    /\ flashHalted => misused
================================================================================
