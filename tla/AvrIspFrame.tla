------------------------------ MODULE AvrIspFrame ------------------------------
(***************************************************************************)
(* ucoo::AvrIspFrame (dev/avrisp/avrisp_frame.cc), the frames of the       *)
(* programmer's commands, and the commands of AvrIspProto::accept          *)
(* (dev/avrisp/avrisp_proto.cc) which do not reach the memories.           *)
(*                                                                         *)
(* A frame is received, interpreted and answered in one buffer, kept here  *)
(* byte for byte.  The host sends a command, awaits its answer, and sends  *)
(* the command again when nothing comes or the answer is a checksum error. *)
(* On its way to the programmer a byte may be damaged or lost.             *)
(***************************************************************************)
EXTENDS Integers, Sequences, SequencesExt, Bitwise

CONSTANTS FrameBufferSize,  \* CONFIG_UCOO_DEV_AVRISP_FRAME_BUFFER_SIZE
          Commands,         \* data of the commands the host sends
          Signature,        \* CONFIG_UCOO_DEV_AVRISP_PROTO_SIGNATURE, its NUL too
          Damaged,          \* values a byte may be changed to
          WriteSizes,       \* how much the stream takes at once, at most
          MaxFrames,        \* bound: number of commands
          MaxFrameFaults    \* bound: bytes damaged or lost

ASSUME FrameCommands ==
    \A c \in Commands : Len(c) \in 1..FrameBufferSize - 6
ASSUME FrameBounds == MaxFrames \in Nat /\ MaxFrameFaults \in Nat
                      /\ WriteSizes \subseteq Nat \ {0}

Start == 27     \* avrisp_frame_proto_start
Token == 14     \* avrisp_frame_proto_token
Head5 == 5      \* proto_head_
Tail1 == 1      \* proto_tail_

VARIABLES
    state,      \* state_
    seq, len, cksum,    \* seq_, len_, cksum_
    buffer, bufferLen,  \* buffer_, buffer_len_
    sendIndex,  \* buffer_send_index_
    sck,        \* sck_duration_us_
    toIsp, toHost,      \* bytes on the line
    hostSeq, hostCommand,   \* the command to be answered, or none
    hostSck,    \* the parameter the host has set
    frameFaults,
    accepted    \* data given last to AvrIspProto::accept, and the command sent

parser == <<state, seq, len, cksum>>
answer == <<buffer, bufferLen, sendIndex>>
hostSide == <<hostSeq, hostCommand, hostSck>>
frameVars == <<parser, answer, sck, toIsp, toHost, hostSide, frameFaults, accepted>>

FrameInit ==
    /\ state = "start" /\ seq = 0 /\ len = 0 /\ cksum = 0
    /\ buffer = [k \in 0..FrameBufferSize - 1 |-> 0] /\ bufferLen = 0
    /\ sendIndex = -1
    /\ sck = 1
    /\ toIsp = << >> /\ toHost = << >>
    /\ hostSeq = 0 /\ hostCommand = << >> /\ hostSck = 1
    /\ frameFaults = 0 /\ accepted = [data |-> << >>, instead |-> << >>]

\* Exclusive or of bytes.
XorOf == [p \in (0..255) \X (0..255) |-> p[1] ^^ p[2]]
Checksum(bytes) == FoldLeft(LAMBDA a, b : XorOf[a, b], 0, bytes)
\* n bytes of a buffer from index k, and a buffer with bytes from index k.
Bytes(buf, k, n) == [j \in 1..n |-> buf[k + j - 1]]
Put(buf, k, bytes) ==
    [j \in DOMAIN buf |-> IF j - k + 1 \in DOMAIN bytes THEN bytes[j - k + 1]
                                                        ELSE buf[j]]

Ok == 0
Failed == 192
Unknown == 201
CksumError == <<176, 193>>

--------------------------------------------------------------------------------
(* AvrIspProto::accept: each case is the buffer and the answer's length. *)

\* What the device shifts out while the t'th byte is shifted in.
DeviceByte(t) == 100 + t

\* AvrIsp::multi on one buffer: sends from index 4, receives from index 2 once
\* start bytes are sent.
Multi(data, tx, rx, start) ==
    LET turns == IF tx > start + rx THEN tx ELSE start + rx
        Turn(b, t) == IF t > start /\ t - start <= rx
                      THEN [b EXCEPT ![2 + t - start - 1] =
                                DeviceByte(IF t <= tx THEN b[4 + t - 1] ELSE 0)]
                      ELSE b
    IN  FoldLeft(Turn, data, [t \in 1..turns |-> t])

SignOn(data, n) ==
    IF n # 1 THEN [data |-> Put(data, 1, <<Failed>>), len |-> 2]
    ELSE [data |-> Put(data, 1, <<Ok, Len(Signature)>> \o Signature),
          len |-> 3 + Len(Signature)]

\* The parameters: 0x98 SCK_DURATION and 0x9e RESET_POLARITY are set, these and
\* the configured numbers are got.
Settable(p, v) == p = 152 \/ (p = 158 /\ v = 1)
Gettable == {128, 129, 144, 145, 146, 152, 158}
ParameterValue(p) == CASE p = 152 -> sck [] p = 158 -> 1 [] OTHER -> p

Parameter(data, n, set) ==
    IF set /\ n = 3 /\ Settable(data[1], data[2])
    THEN [data |-> Put(data, 1, <<Ok>>), len |-> 2]
    ELSE IF ~set /\ n = 2 /\ data[1] \in Gettable
    THEN [data |-> Put(data, 1, <<Ok, ParameterValue(data[1])>>), len |-> 3]
    ELSE [data |-> Put(data, 1, <<Failed>>), len |-> 2]

SpiMulti(data, n) ==
    IF n < 4 \/ n # 4 + data[2] THEN [data |-> Put(data, 1, <<Failed>>), len |-> 2]
    ELSE LET size == data[2]
             b == Multi(data, data[1], size, data[3])
         IN  [data |-> Put(Put(b, 1, <<Ok>>), 2 + size, <<Ok>>), len |-> 3 + size]

Interpret(data, n) ==
    CASE data[0] = 1  -> SignOn(data, n)
      [] data[0] = 2  -> Parameter(data, n, TRUE)
      [] data[0] = 3  -> Parameter(data, n, FALSE)
      [] data[0] = 29 -> SpiMulti(data, n)
      [] OTHER        -> [data |-> Put(data, 1, <<Unknown>>), len |-> 2]

SckAfter(data, n) ==
    IF data[0] = 2 /\ n = 3 /\ data[1] = 152
    THEN IF data[2] > 1 THEN data[2] ELSE 1
    ELSE sck

--------------------------------------------------------------------------------
(* The frames. *)

\* send_frame, with the answer in the buffer already.
SendFrame(buf, n) ==
    LET header == <<Start, seq, n \div 256, n % 256, Token>>
    IN  /\ buffer' = Put(buf, 0, header \o Bytes(buf, Head5, n)
                                 \o <<Checksum(header \o Bytes(buf, Head5, n))>>)
        /\ bufferLen' = Head5 + n + Tail1
        /\ sendIndex' = 0

\* process: c is the checksum with the last byte.
Process(c) ==
    IF c # 0
    THEN SendFrame(Put(buffer, Head5, CksumError), 2) /\ UNCHANGED <<sck, accepted>>
    ELSE LET data == [k \in 0..FrameBufferSize - Head5 - 1 |-> buffer[Head5 + k]]
             a == Interpret(data, bufferLen)
         IN  /\ SendFrame([k \in DOMAIN buffer |->
                              IF k < Head5 THEN buffer[k] ELSE a.data[k - Head5]], a.len)
             /\ sck' = SckAfter(data, bufferLen)
             /\ accepted' = [data |-> Bytes(data, 0, bufferLen),
                           instead |-> hostCommand]

LengthIsGood(n) == n # 0 /\ n <= FrameBufferSize - Head5 - Tail1

\* accept_char.
AcceptStart(c) ==
    /\ state = "start"
    /\ IF c = Start THEN state' = "seq" /\ cksum' = Start
                    ELSE UNCHANGED <<state, cksum>>
    /\ UNCHANGED <<seq, len, answer, sck, accepted>>

AcceptSeq(c) ==
    /\ state = "seq"
    /\ state' = "lenMsb" /\ seq' = c /\ cksum' = XorOf[cksum, c]
    /\ UNCHANGED <<len, answer, sck, accepted>>

AcceptLenMsb(c) ==
    /\ state = "lenMsb"
    /\ state' = "lenLsb" /\ len' = c * 256 /\ cksum' = XorOf[cksum, c]
    /\ UNCHANGED <<seq, answer, sck, accepted>>

AcceptLenLsb(c) ==
    /\ state = "lenLsb"
    /\ len' = len + c /\ cksum' = XorOf[cksum, c] /\ bufferLen' = 0
    /\ state' = IF LengthIsGood(len + c) THEN "token" ELSE "start"
    /\ UNCHANGED <<seq, buffer, sendIndex, sck, accepted>>

AcceptToken(c) ==
    /\ state = "token"
    /\ IF c = Token THEN state' = "data" /\ cksum' = XorOf[cksum, c]
                    ELSE state' = "start" /\ UNCHANGED cksum
    /\ UNCHANGED <<seq, len, answer, sck, accepted>>

AcceptData(c) ==
    /\ state = "data"
    /\ buffer' = [buffer EXCEPT ![Head5 + bufferLen] = c]
    /\ bufferLen' = bufferLen + 1 /\ cksum' = XorOf[cksum, c]
    /\ state' = IF bufferLen' = len THEN "cksum" ELSE "data"
    /\ UNCHANGED <<seq, len, sendIndex, sck, accepted>>

AcceptCksum(c) ==
    /\ state = "cksum"
    /\ state' = "start" /\ cksum' = XorOf[cksum, c]
    /\ Process(XorOf[cksum, c])
    /\ UNCHANGED <<seq, len>>

\* read_and_write, reading: nothing is read while an answer is being sent.
Reads ==
    /\ sendIndex = -1 /\ toIsp # << >>
    /\ toIsp' = Tail(toIsp)

ReadChar ==
    /\ Reads
    /\ LET c == Head(toIsp)
       IN  \/ AcceptStart(c) \/ AcceptSeq(c) \/ AcceptLenMsb(c) \/ AcceptLenLsb(c)
           \/ AcceptToken(c) \/ AcceptData(c) \/ AcceptCksum(c)
    /\ UNCHANGED <<toHost, hostSide, frameFaults>>

\* Mutant of WriteChars: what follows the last byte is not the end.
WriteCharsAll ==
    /\ sendIndex # -1
    /\ \E n \in WriteSizes :
         LET r == IF n < bufferLen - sendIndex THEN n ELSE bufferLen - sendIndex
         IN  /\ toHost' = toHost \o Bytes(buffer, sendIndex, r)
             /\ sendIndex' = sendIndex + r
    /\ UNCHANGED <<parser, buffer, bufferLen, sck, toIsp, hostSide, frameFaults,
                   accepted>>

\* read_and_write, writing: the stream takes a part.
WriteChars ==
    /\ sendIndex # -1
    /\ \E n \in WriteSizes :
         LET r == IF n < bufferLen - sendIndex THEN n ELSE bufferLen - sendIndex
         IN  /\ toHost' = toHost \o Bytes(buffer, sendIndex, r)
             /\ sendIndex' = IF sendIndex + r = bufferLen THEN -1 ELSE sendIndex + r
    /\ UNCHANGED <<parser, buffer, bufferLen, sck, toIsp, hostSide, frameFaults,
                   accepted>>

--------------------------------------------------------------------------------
(* The host and the line. *)

FrameOf(s, d) ==
    LET f == <<Start, s, Len(d) \div 256, Len(d) % 256, Token>> \o d
    IN  Append(f, Checksum(f))
IsFrame(f) ==
    /\ Len(f) > 6 /\ f[1] = Start /\ f[5] = Token /\ Checksum(f) = 0
    /\ Len(f) = 6 + f[3] * 256 + f[4]
Data(f) == SubSeq(f, 6, Len(f) - 1)

Waiting == hostCommand # << >>
\* Nothing moves: the host has waited long enough.
Quiet == toIsp = << >> /\ toHost = << >> /\ sendIndex = -1

HostSends ==
    /\ ~Waiting /\ Quiet /\ hostSeq < MaxFrames
    /\ \E c \in Commands :
         hostCommand' = c /\ toIsp' = FrameOf(hostSeq + 1, c)
    /\ hostSeq' = hostSeq + 1
    /\ UNCHANGED <<parser, answer, sck, toHost, hostSck, frameFaults, accepted>>

HostRepeats ==
    /\ Waiting /\ Quiet
    /\ toIsp' = FrameOf(hostSeq, hostCommand)
    /\ UNCHANGED <<parser, answer, sck, toHost, hostSide, frameFaults, accepted>>

\* An answer, when the programmer has sent it.
HostReceives ==
    /\ toHost # << >> /\ sendIndex = -1
    /\ toHost' = << >>
    /\ IF Waiting /\ IsFrame(toHost) /\ toHost[2] = hostSeq /\ Data(toHost) # CksumError
       THEN /\ hostCommand' = << >>
            /\ hostSck' = IF Len(hostCommand) = 3 /\ SubSeq(hostCommand, 1, 2) = <<2, 152>>
                          THEN hostCommand[3] ELSE hostSck
       ELSE UNCHANGED <<hostCommand, hostSck>>
    /\ UNCHANGED <<parser, answer, sck, toIsp, hostSeq, frameFaults, accepted>>

\* A byte is damaged, or lost.
Fault ==
    /\ frameFaults < MaxFrameFaults /\ toIsp # << >>
    /\ frameFaults' = frameFaults + 1
    /\ \E k \in 1..Len(toIsp) :
         \/ \E v \in Damaged : v # toIsp[k] /\ toIsp' = [toIsp EXCEPT ![k] = v]
         \/ toIsp' = SubSeq(toIsp, 1, k - 1) \o SubSeq(toIsp, k + 1, Len(toIsp))
    /\ UNCHANGED <<parser, answer, sck, toHost, hostSide, accepted>>

--------------------------------------------------------------------------------
FrameNext ==
    \/ ReadChar \/ WriteChars
    \/ HostSends \/ HostRepeats \/ HostReceives \/ Fault

\* Both sides go on.  Whatever byte is read, accept_char takes it.
FrameFairness == WF_toIsp(Reads) /\ WF_frameVars(WriteChars)
                 /\ WF_frameVars(HostRepeats) /\ WF_frameVars(HostReceives)

FrameTypeOK ==
    /\ state \in {"start", "seq", "lenMsb", "lenLsb", "token", "data", "cksum"}
    /\ {seq, cksum} \subseteq 0..255 /\ len \in 0..65535
    /\ bufferLen \in 0..FrameBufferSize /\ sendIndex \in -1..FrameBufferSize
    /\ DOMAIN buffer = 0..FrameBufferSize - 1

\* Each answer is a whole frame, with the number of a command, and its data is
\* what this command calls for: what is received in place of data to send comes
\* after it was sent, and no byte of an older frame is left in it (process,
\* send_frame, AvrIspProto::accept).
Expected(c) ==
    CASE c = <<1>> -> {<<1, Ok, Len(Signature)>> \o Signature}
      [] Len(c) = 3 /\ c[1] = 2 /\ c[2] = 152 -> {<<2, Ok>>}
      [] c = <<3, 152>> -> {<<3, Ok, hostSck>>}
      [] c[1] = 29 /\ Len(c) >= 4 /\ Len(c) = 4 + c[3] ->
            {<<29, Ok>> \o [j \in 1..c[3] |->
                DeviceByte(IF c[4] + j <= c[2] THEN c[4 + c[4] + j] ELSE 0)] \o <<Ok>>}
      [] OTHER -> {<<c[1], Failed>>, <<c[1], Unknown>>}

AnswerIsExact ==
    toHost # << >> /\ sendIndex = -1 =>
        /\ IsFrame(toHost)
        /\ Data(toHost) # CksumError =>
              Data(toHost) \in Expected(accepted.data)

\* What is interpreted is the command the host sends, never a part of it or the
\* end of one frame and the beginning of the next (accept_char, process).  It
\* holds of commands without the start byte: the exclusive or of the bytes does
\* not see that a byte is missing when the start of the next frame is in its
\* place.
OnlyCommands ==
    Start \notin Range(accepted.instead) => accepted.data = accepted.instead

\* The three, for the run: what a host and the commands see of a damaged line.
FramesAreExact == FrameTypeOK /\ AnswerIsExact /\ OnlyCommands

\* However a frame was damaged or cut, wherever this left the parser, the host
\* gets its answer by repeating its command (accept_char, which has no time-out).
\* It holds of commands without the start byte: the parser may take one that
\* ends with this byte for the start of a frame, each time it is repeated.
Resynchronises ==
    Waiting /\ Start \notin Range(hostCommand) ~> ~Waiting
================================================================================
