--------------------------------- MODULE Proto ---------------------------------
(***************************************************************************)
(* ucoo::Proto (base/proto/proto.cc), a protocol of lines which programs   *)
(* and people write: accept at one end, send or a person at the other, and *)
(* a line which may lose or change characters between them.                *)
(*                                                                         *)
(* A byte is the pair of its hexadecimal digits, or a quoted character.  A *)
(* character on the line carries the number of its message, which accept   *)
(* does not see.                                                           *)
(***************************************************************************)
EXTENDS Naturals, Sequences, FiniteSets, SequencesExt

CONSTANTS ArgsMax,      \* CONFIG_UCOO_BASE_PROTO_ARGS_MAX_SIZE
          Letters,      \* command letters
          SentArgs,     \* arguments given to send: sequences of bytes
          Typed,        \* what a person types: [chars, cmd, args]
          Noise,        \* what a character may be changed to
          MaxMessages, MaxNoise     \* bounds: messages; characters lost or changed

ASSUME ProtoBounds == {ArgsMax, MaxMessages, MaxNoise} \subseteq Nat

Digits == {"0", "1", "2", "3", "4", "5", "6", "7", "8", "9",
           "a", "b", "c", "d", "e", "f"}
Newline == "\n"
\* std::isprint, of the characters here.
Printable(c) == c # Newline

VARIABLES
    step,       \* step_
    cmd, args,  \* cmd_, args_ up to size_
    digit,      \* the first digit of args_[size_]
    line,       \* characters on their way
    messages,   \* messages sent so far
    broken,     \* numbers of the messages the line has changed
    handled     \* calls of proto_handle, with the number of the last character

protoVars == <<step, cmd, args, digit, line, messages, broken, handled>>

ProtoInit ==
    /\ step = "idle" /\ cmd = "?" /\ args = << >> /\ digit = "0"
    /\ line = << >> /\ messages = << >> /\ broken = {} /\ handled = << >>

--------------------------------------------------------------------------------
(* send. *)

\* send_byte, most significant digit first.
Encode(bytes) == FlattenSeq(bytes)

\* send, send_buf.
Message(c, bytes) == <<"!", c>> \o Encode(bytes) \o <<Newline>>

Puts(chars, c, bytes) ==
    LET m == Len(messages) + 1
    IN  /\ Len(messages) < MaxMessages
        /\ messages' = Append(messages, [cmd |-> c, args |-> bytes])
        /\ line' = line \o [k \in DOMAIN chars |-> [char |-> chars[k], of |-> m]]
        /\ UNCHANGED <<step, cmd, args, digit, broken, handled>>

Send == \E c \in Letters, bytes \in SentArgs : Puts(Message(c, bytes), c, bytes)
Type == \E t \in Typed : Puts(t.chars, t.cmd, t.args)

\* The line changes or loses a character.
Disturb ==
    /\ Cardinality(broken) < MaxNoise
    /\ \E k \in DOMAIN line :
         /\ broken' = broken \cup {line[k].of}
         /\ \/ \E c \in Noise : c # line[k].char
                                /\ line' = [line EXCEPT ![k].char = c]
            \/ line' = RemoveAt(line, k)
    /\ UNCHANGED <<step, cmd, args, digit, messages, handled>>

--------------------------------------------------------------------------------
(* accept, one character. *)

Char == Head(line).char
Gets ==
    /\ line # << >>
    /\ line' = Tail(line)
    /\ UNCHANGED <<messages, broken>>

Handle(c, bytes) ==
    handled' = Append(handled, [cmd |-> c, args |-> bytes, of |-> Head(line).of])
Reject == Handle("?", << >>) /\ step' = "idle" /\ UNCHANGED <<args, digit>>
EndOfFrame == Handle(cmd, args) /\ step' = "idle" /\ UNCHANGED <<args, digit>>

\* Mutant of AcceptBang: only when nothing is received.
AcceptBangWhenIdle ==
    /\ Gets /\ Char = "!"
    /\ step' = IF step = "idle" THEN "bang" ELSE step
    /\ UNCHANGED <<cmd, args, digit, handled>>

\* A new message starts, whatever was being received.
AcceptBang ==
    /\ Gets /\ Char = "!"
    /\ step' = "bang"
    /\ UNCHANGED <<cmd, args, digit, handled>>

AcceptIdle ==
    /\ Gets /\ Char # "!" /\ step = "idle"
    /\ UNCHANGED <<step, cmd, args, digit, handled>>

\* The letter of the command; the digits from a are letters also.
AcceptCommand ==
    /\ Gets /\ Char # "!" /\ step = "bang"
    /\ IF Char \in Letters \cup {"a", "b", "c", "d", "e", "f"}
       THEN /\ cmd' = Char /\ args' = << >> /\ step' = "command"
            /\ UNCHANGED <<digit, handled>>
       ELSE Reject /\ UNCHANGED cmd

\* accept_digit, with n the step after it.
AcceptDigit(n) ==
    IF Len(args) >= ArgsMax \/ Char \notin Digits
    THEN Reject
    ELSE /\ step' = n
         /\ IF n = "command" THEN args' = Append(args, <<digit, Char>>) /\ UNCHANGED digit
                             ELSE digit' = Char /\ UNCHANGED args
         /\ UNCHANGED handled

\* accept_char, with n the step after it.
AcceptChar(n) ==
    IF Len(args) >= ArgsMax \/ ~Printable(Char)
    THEN Reject
    ELSE /\ step' = n /\ args' = Append(args, <<"char", Char>>)
         /\ UNCHANGED <<digit, handled>>

AcceptArg ==
    /\ Gets /\ Char # "!" /\ step = "command"
    /\ CASE Char = Newline -> EndOfFrame
         [] Char = "'"     -> step' = "char" /\ UNCHANGED <<args, digit, handled>>
         [] Char = "\""    -> step' = "string" /\ UNCHANGED <<args, digit, handled>>
         [] OTHER          -> AcceptDigit("digit")
    /\ UNCHANGED cmd

AcceptSecondDigit ==
    /\ Gets /\ Char # "!" /\ step = "digit"
    /\ AcceptDigit("command")
    /\ UNCHANGED cmd

AcceptQuoted ==
    /\ Gets /\ Char # "!" /\ step = "char"
    /\ AcceptChar("command")
    /\ UNCHANGED cmd

AcceptString ==
    /\ Gets /\ Char # "!" /\ step = "string"
    /\ IF Char = Newline THEN EndOfFrame ELSE AcceptChar("string")
    /\ UNCHANGED cmd

ProtoNext ==
    \/ Send \/ Type \/ Disturb
    \/ AcceptBang \/ AcceptIdle \/ AcceptCommand \/ AcceptArg
    \/ AcceptSecondDigit \/ AcceptQuoted \/ AcceptString

--------------------------------------------------------------------------------
\* A message which came whole is handled once, as it was sent, whatever came
\* before it and in the middle of what (accept); one with too many arguments is
\* rejected, once (accept_digit, accept_char).
Received(m) == \A k \in DOMAIN line : line[k].of > m
Calls(m) == SelectSeq(handled, LAMBDA h : h.of = m)

WholeMessageIsHandled ==
    \A m \in DOMAIN messages \ broken : Received(m) =>
        LET e == IF Len(messages[m].args) <= ArgsMax THEN messages[m]
                 ELSE [cmd |-> "?", args |-> << >>]
        IN  Calls(m) = << [cmd |-> e.cmd, args |-> e.args, of |-> m] >>
================================================================================
