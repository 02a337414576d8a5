---------------------------- MODULE I2cPeripheral ----------------------------
(***************************************************************************)
(* The I2C peripheral ucoo::I2cHard drives and the bus behind it, as the   *)
(* driver uses them.  None of this is code of the repository.              *)
(*                                                                         *)
(* A byte is a positive number, 0 is no byte.  Bytes a master of ours      *)
(* transfers are numbered from 1.  What another master writes to us has    *)
(* the number of its access as value.                                      *)
(*                                                                         *)
(* Assumed: TXE and BTF are gone once STOP is requested; unless            *)
(* SlowHandlers, errors and stops are handled before the next start or     *)
(* address byte.                                                           *)
(***************************************************************************)
EXTENDS Integers, Sequences

CONSTANTS MaxAccesses,      \* bound: accesses of the other master
          MaxBytes,         \* bound: bytes in one of them
          MaxRestarts,      \* bound: its repeated starts after writing
          MaxArlo,          \* bound: arbitrations lost
          BusErrors,        \* may the bus show errors (BERR)?
          SlowHandlers      \* may interrupts be locked for long?

ASSUME I2cBounds == MaxAccesses \in Nat /\ MaxBytes \in Nat /\ MaxArlo \in Nat
                    /\ MaxRestarts \in Nat
                    /\ {BusErrors, SlowHandlers} \subseteq BOOLEAN

VARIABLES
    cr1,        \* bits set in CR1, of those that change
    itbufen,    \* CR2.ITBUFEN
    sr1,        \* bits set in SR1
    dr, shift,  \* data and shift registers
    role,       \* see Roles
    bus,        \* "free", "us" or "other", who owns the bus
    nacked,     \* the last byte of a transfer was not acknowledged
    acked,      \* master transmission: bytes the slave acknowledged
    clocked,    \* master reception: bytes the slave had to send
    access,     \* accesses of the other master so far
    given,      \* what it was sent during its last access
    length,     \* access -> bytes it wrote
    restarts,   \* repeated starts so far
    arlo        \* arbitrations lost so far

registers == <<cr1, itbufen, sr1, dr, shift>>
remote == <<access, given, length, restarts, arlo>>
hardware == <<registers, role, bus, nacked, acked, clocked, remote>>

Roles == {"none", "address", "mt", "mr", "st", "sr"}
Errors == {"AF", "ARLO", "BERR"}

HardwareInit ==
    /\ cr1 = {"ACK"} /\ itbufen = FALSE /\ sr1 = {}
    /\ dr = 0 /\ shift = 0
    /\ role = "none" /\ bus = "free" /\ nacked = FALSE
    /\ acked = << >> /\ clocked = 0
    /\ access = 0 /\ given = << >>
    /\ length = [i \in 1..MaxAccesses |-> 0]
    /\ restarts = 0 /\ arlo = 0

\* An enabled event or an error interrupt is pending.
EventPending == \/ sr1 \cap {"SB", "ADDR", "BTF", "STOPF"} # {}
                \/ itbufen /\ sr1 \cap {"TXE", "RXNE"} # {}
ErrorPending == sr1 \cap Errors # {}

\* DR is written: the byte goes to the shift register if this one is free.
WriteDR(b) ==
    IF shift = 0
    THEN shift' = b /\ dr' = dr /\ sr1' = sr1 \ {"BTF"}
    ELSE dr' = b /\ shift' = shift /\ sr1' = sr1 \ {"TXE", "BTF"}

\* DR is read: the byte that waits in the shift register takes its place.
ReadDR ==
    /\ dr' = shift /\ shift' = 0
    /\ sr1' = sr1 \ (IF shift = 0 THEN {"RXNE", "BTF"} ELSE {"BTF"})

\* SR2 is read, this clears ADDR; a transmitter then wants data.
ReadSR2 ==
    sr1' = (sr1 \ {"ADDR"}) \cup (IF role \in {"mt", "st"} THEN {"TXE"} ELSE {})

--------------------------------------------------------------------------------
(* As a master. *)

HwStart ==
    /\ "START" \in cr1 /\ bus = "free"
    /\ SlowHandlers \/ ~ErrorPending
    /\ bus' = "us"
    /\ cr1' = cr1 \ {"START"}
    /\ sr1' = sr1 \cup {"SB"}
    /\ nacked' = FALSE /\ acked' = << >> /\ clocked' = 0
    /\ UNCHANGED <<itbufen, dr, shift, role, remote>>

\* The address byte in DR was sent (direction in its LSB).
HwAddressAcked(receive) ==
    /\ role = "address" /\ "STOP" \notin cr1
    /\ role' = IF receive THEN "mr" ELSE "mt"
    /\ sr1' = sr1 \cup {"ADDR"}
    /\ UNCHANGED <<cr1, itbufen, dr, shift, bus, nacked, acked, clocked, remote>>

HwAddressNacked ==
    /\ role = "address" /\ "STOP" \notin cr1
    /\ role' = "none" /\ nacked' = TRUE
    /\ sr1' = sr1 \cup {"AF"}
    /\ UNCHANGED <<cr1, itbufen, dr, shift, bus, acked, clocked, remote>>

HwArbitrationLost ==
    /\ role = "address" /\ arlo < MaxArlo
    /\ role' = "none" /\ bus' = "other"
    /\ sr1' = sr1 \cup {"ARLO"}
    /\ arlo' = arlo + 1
    /\ UNCHANGED <<cr1, itbufen, dr, shift, nacked, acked, clocked, access,
                   given, length, restarts>>

HwStop ==
    /\ "STOP" \in cr1 /\ bus = "us"
    /\ cr1' = cr1 \ {"STOP"}
    /\ bus' = "free" /\ role' = "none"
    /\ UNCHANGED <<itbufen, sr1, dr, shift, nacked, acked, clocked, remote>>

HwBusError ==
    /\ BusErrors /\ role \in {"mt", "mr"} /\ ~nacked
    /\ sr1' = sr1 \cup {"BERR"}
    /\ nacked' = TRUE
    /\ UNCHANGED <<cr1, itbufen, dr, shift, role, bus, acked, clocked, remote>>

--------------------------------------------------------------------------------
(* Bytes, as a master or a slave. *)

\* The byte in the shift register was sent and acknowledged.
HwByteOut ==
    /\ role \in {"mt", "st"} /\ shift # 0 /\ (role = "mt" => ~nacked)
    /\ shift' = dr /\ dr' = 0
    /\ sr1' = sr1 \cup {"TXE"} \cup (IF dr = 0 THEN {"BTF"} ELSE {})
    /\ IF role = "mt"
       THEN acked' = Append(acked, shift) /\ UNCHANGED given
       ELSE given' = Append(given, shift) /\ Len(given) < MaxBytes
            /\ UNCHANGED acked
    /\ UNCHANGED <<cr1, itbufen, role, bus, nacked, clocked, access, length,
                   restarts, arlo>>

\* It was not acknowledged (by the other master, this is the end).
HwByteOutNacked ==
    /\ role \in {"mt", "st"} /\ shift # 0 /\ (role = "mt" => ~nacked)
    /\ shift' = 0
    /\ sr1' = sr1 \cup {"AF"}
    /\ IF role = "mt"
       THEN nacked' = TRUE /\ UNCHANGED <<role, given, dr>>
       ELSE given' = Append(given, shift) /\ role' = "none" /\ dr' = 0
            /\ UNCHANGED nacked
    /\ UNCHANGED <<cr1, itbufen, bus, acked, clocked, access, length,
                   restarts, arlo>>

\* Does the receiver acknowledge this byte?  With POS, ACK is about the byte
\* after the one being received.
Acknowledges == "ACK" \in cr1 \/ ("POS" \in cr1 /\ clocked = 0)

ByteIn(b) ==
    /\ "ADDR" \notin sr1 /\ shift = 0
    /\ IF dr = 0
       THEN dr' = b /\ sr1' = sr1 \cup {"RXNE"} /\ UNCHANGED shift
       ELSE shift' = b /\ sr1' = sr1 \cup {"BTF"} /\ UNCHANGED dr

HwByteInMaster ==
    /\ role = "mr" /\ ~nacked /\ "STOP" \notin cr1
    /\ ByteIn(clocked + 1)
    /\ clocked' = clocked + 1
    /\ nacked' = ~Acknowledges
    /\ UNCHANGED <<cr1, itbufen, role, bus, acked, remote>>

HwByteInSlave ==
    /\ role = "sr" /\ length[access] < MaxBytes
    /\ ByteIn(access)
    /\ length' = [length EXCEPT ![access] = @ + 1]
    /\ UNCHANGED <<cr1, itbufen, role, bus, nacked, acked, clocked, access,
                   given, restarts, arlo>>

--------------------------------------------------------------------------------
(* Another master. *)

OtherStarts ==
    /\ bus = "free" /\ access < MaxAccesses
    /\ bus' = "other"
    /\ UNCHANGED <<registers, role, nacked, acked, clocked, remote>>

\* It addresses us, after a start or a repeated start.
OtherAddresses(receive) ==
    /\ bus = "other" /\ access < MaxAccesses
    /\ role \in {"none", "sr"} /\ dr = 0 /\ shift = 0
    /\ "ADDR" \notin sr1
    /\ SlowHandlers \/ sr1 \cap (Errors \cup {"STOPF"}) = {}
    /\ access' = access + 1
    /\ role' = IF receive THEN "st" ELSE "sr"
    /\ sr1' = (sr1 \ {"TXE", "BTF"}) \cup {"ADDR"}
    /\ given' = << >>
    /\ IF role = "sr" THEN restarts < MaxRestarts /\ restarts' = restarts + 1
       ELSE UNCHANGED restarts
    /\ UNCHANGED <<cr1, itbufen, dr, shift, bus, nacked, acked, clocked, length,
                   arlo>>

OtherStops ==
    /\ bus = "other" /\ shift = 0 /\ "ADDR" \notin sr1
    /\ role \in {"none", "sr"}
    /\ bus' = "free" /\ role' = "none"
    /\ sr1' = (sr1 \ {"TXE", "BTF"}) \cup (IF role = "sr" THEN {"STOPF"} ELSE {})
    /\ UNCHANGED <<cr1, itbufen, dr, shift, nacked, acked, clocked, remote>>

HardwareTypeOK ==
    /\ cr1 \subseteq {"ACK", "START", "STOP", "POS"}
    /\ itbufen \in BOOLEAN /\ nacked \in BOOLEAN
    /\ sr1 \subseteq Errors \cup {"SB", "ADDR", "BTF", "STOPF", "TXE", "RXNE"}
    /\ dr \in Nat /\ shift \in Nat
    /\ role \in Roles /\ bus \in {"free", "us", "other"}
    /\ acked \in Seq(Nat) /\ given \in Seq(Nat) /\ clocked \in Nat
    /\ access \in 0..MaxAccesses /\ arlo \in 0..MaxArlo
    /\ restarts \in 0..MaxRestarts
    /\ length \in [1..MaxAccesses -> 0..MaxBytes]
================================================================================
