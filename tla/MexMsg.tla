--------------------------------- MODULE MexMsg ---------------------------------
(***************************************************************************)
(* ucoo::mex::Msg, MsgPusher and MsgPoper (arch/host/mex/mex_msg.host.cc,  *)
(* mex_msg.hh): a message between simulated programs, built field after    *)
(* field, enclosed in others, sent, and taken apart.                       *)
(*                                                                         *)
(* Payload is kept byte for byte, a byte has ByteBits bits.  A format is a *)
(* tuple of letters.                                                       *)
(***************************************************************************)
EXTENDS Integers, Sequences, SequencesExt, TLC

CONSTANTS ByteBits,     \* 8
          Fields,       \* what is pushed: [fmt, values], or [buffer]
          Types,        \* mtype_t
          MaxMsg        \* bound: operations

ASSUME MsgBytes == ByteBits \in Nat \ {0} /\ MaxMsg \in Nat

VARIABLES
    payload,        \* payload_
    head_skip,      \* head_skip_
    mtype,          \* mtype_
    holds,          \* what the message is made of: sequence of [type] and fields
    popped,         \* what was got last, and what it was
    msgOps

msgVars == <<payload, head_skip, mtype, holds, popped, msgOps>>

default_head_skip == 3

\* calcsize, of a letter then of a format.
letter == ("l" :> 4) @@ ("L" :> 4) @@ ("h" :> 2) @@ ("H" :> 2) @@ ("b" :> 1) @@ ("B" :> 1)
calcsize(fmt) == FoldLeft(LAMBDA n, c : n + letter[c], 0, fmt)

Signed(c) == c \in {"l", "h", "b"}
Bits(c) == ByteBits * letter[c]

\* MsgPusher::push: bytes of a value, the high one first.
ByteOf(v, k) == (v \div 2^(ByteBits * k)) % 2^ByteBits
PushValue(c, v) == [k \in 1..letter[c] |-> ByteOf(v, letter[c] - k)]
PushBytes(fmt, values) == FlattenSeq([k \in DOMAIN fmt |-> PushValue(fmt[k], values[k])])

\* MsgPoper::pop and pop_bytes.
PopValue(c, bytes) ==
    LET r == FoldLeft(LAMBDA v, b : v * 2^ByteBits + b, 0, bytes)
    IN  IF Signed(c) /\ r >= 2^(Bits(c) - 1) THEN r - 2^Bits(c) ELSE r
Before(fmt, k) == calcsize(SubSeq(fmt, 1, k - 1))
PopValues(fmt, bytes) ==
    [k \in DOMAIN fmt |-> PopValue(fmt[k], SubSeq(bytes, Before(fmt, k) + 1,
                                                  Before(fmt, k) + letter[fmt[k]]))]

\* Mutant of MayPop: signs are not looked at.
MayPopSize(c, t) == ByteBits * t.size >= Bits(c)

\* The variables a letter may be popped to, which are signed or not, and the value
\* they get of it.
Variables == [size : {1, 2, 4}, signed : BOOLEAN]
MayPop(c, t) == LET bits == IF t.signed THEN ByteBits * t.size - 1 ELSE ByteBits * t.size
                IN  IF Signed(c) THEN bits >= Bits(c) - 1 /\ t.signed ELSE bits >= Bits(c)
Stored(v, t) == LET n == 2^(ByteBits * t.size)
                IN  IF t.signed /\ v % n >= n \div 2 THEN (v % n) - n ELSE v % n

MsgInit ==
    /\ mtype \in Types /\ head_skip = default_head_skip
    /\ payload = [k \in 1..default_head_skip |-> 0]
    /\ holds = <<[type |-> mtype]>> /\ popped = [got |-> << >>, was |-> << >>]
    /\ msgOps = 0

MsgCall == msgOps < MaxMsg /\ msgOps' = msgOps + 1
len == Len(payload) - head_skip

FieldBytes(f) == IF "fmt" \in DOMAIN f THEN PushBytes(f.fmt, f.values) ELSE f.buffer

push(f) ==
    /\ MsgCall
    /\ payload' = payload \o FieldBytes(f)
    /\ holds' = Append(holds, f)
    /\ UNCHANGED <<head_skip, mtype, popped>>

\* pop, of what comes next.
pop ==
    /\ MsgCall /\ Len(holds) > 1 /\ "type" \notin DOMAIN holds[2]
    /\ LET f == holds[2]
           size == IF "fmt" \in DOMAIN f THEN calcsize(f.fmt) ELSE Len(f.buffer)
           bytes == SubSeq(payload, head_skip + 1, head_skip + size)
       IN  /\ size <= len
           /\ IF "fmt" \in DOMAIN f
              THEN \E t \in Variables :
                     /\ \A k \in DOMAIN f.fmt : MayPop(f.fmt[k], t)
                     /\ popped' = [got |-> [k \in DOMAIN f.fmt |->
                                               Stored(PopValues(f.fmt, bytes)[k], t)],
                                   was |-> f.values]
              ELSE popped' = [got |-> bytes, was |-> f.buffer]
           /\ head_skip' = head_skip + size
    /\ holds' = <<holds[1]>> \o SubSeq(holds, 3, Len(holds))
    /\ UNCHANGED <<payload, mtype>>

\* The message gets a type and a header in front, where bytes are not used.
encapsulate(type, f) ==
    /\ MsgCall /\ calcsize(f.fmt) + 1 <= head_skip
    /\ LET start == head_skip - calcsize(f.fmt) - 1
           header == PushBytes(f.fmt, f.values) \o <<mtype>>
       IN  /\ payload' = [k \in DOMAIN payload |-> IF k - start \in DOMAIN header
                                                   THEN header[k - start] ELSE payload[k]]
           /\ head_skip' = start
    /\ mtype' = type
    /\ holds' = <<[type |-> type], f>> \o holds
    /\ UNCHANGED popped

decapsulate ==
    /\ MsgCall /\ Len(holds) > 1 /\ "type" \in DOMAIN holds[2]
    /\ mtype' = payload[head_skip + 1] /\ head_skip' = head_skip + 1
    /\ holds' = Tail(holds)
    /\ UNCHANGED <<payload, popped>>

\* write to a connection, and the message the other side reads.
Transmit ==
    /\ MsgCall /\ head_skip >= 1
    /\ LET sent == <<mtype>> \o SubSeq(payload, head_skip + 1, Len(payload))
       IN  /\ payload' = [k \in 1..default_head_skip - 1 |-> 0] \o sent
           /\ mtype' = sent[1]
    /\ head_skip' = default_head_skip
    /\ UNCHANGED <<holds, popped>>

MsgNext ==
    \/ \E f \in Fields : push(f)
    \/ \E f \in Fields, t \in Types : "fmt" \in DOMAIN f /\ encapsulate(t, f)
    \/ pop \/ decapsulate \/ Transmit

--------------------------------------------------------------------------------
\* Whatever was pushed, enclosed or sent in between, the message has the type and
\* the length it was given, and what is popped is what was pushed, signs included,
\* in each variable it may be popped to (Msg::push, pop, encapsulate, decapsulate).
MsgIsExact ==
    /\ popped.got = popped.was
    /\ mtype = holds[1].type
    /\ len = FoldLeft(LAMBDA n, f : n + CASE "type" \in DOMAIN f -> 1
                                          [] "fmt" \in DOMAIN f -> calcsize(f.fmt)
                                          [] OTHER -> Len(f.buffer), 0, Tail(holds))
    /\ head_skip <= Len(payload)
================================================================================
