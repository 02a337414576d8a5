-------------------------- MODULE I2cSlaveDataBuffer --------------------------
(***************************************************************************)
(* ucoo::I2cSlaveDataBuffer (hal/i2c/i2c_slave_data_buffer.cc): what is    *)
(* sent to and received from a master, shared between the main program,    *)
(* which locks interrupts, and the interrupt handler.                      *)
(***************************************************************************)
EXTENDS Integers, Sequences

CONSTANTS SendSize, RecvSize,   \* sizes of the buffers
          MaxUpdates            \* bound: calls to update

ASSUME BufferSizes == SendSize \in Nat /\ RecvSize \in Nat /\ MaxUpdates \in Nat

VARIABLES sendBuf, recvBuf,     \* send_buf_ and recv_buf_, as long as their counts
          polling,              \* poll is between its test and the lock
          polled,               \* what poll returned so far
          updates               \* calls to update so far

buffer == <<sendBuf, recvBuf, polling, polled, updates>>

First(s, n) == SubSeq(s, 1, IF n < Len(s) THEN n ELSE Len(s))

BufferInit ==
    /\ sendBuf = << >> /\ recvBuf = << >>
    /\ polling = FALSE /\ polled = << >>
    /\ updates = 0

\* update, with interrupts locked; the N-th data is N repeated.
update(count) ==
    /\ ~polling /\ updates < MaxUpdates
    /\ updates' = updates + 1
    /\ sendBuf' = First([i \in 1..count |-> updates'], SendSize)
    /\ UNCHANGED <<recvBuf, polling, polled>>

\* poll: the test made before interrupts are locked...
PollTest ==
    /\ ~polling
    /\ polling' = (recvBuf # << >>)
    /\ UNCHANGED <<sendBuf, recvBuf, polled, updates>>

\* ... and the copy.
PollCopy(count) ==
    /\ polling
    /\ polling' = FALSE
    /\ polled' = Append(polled, First(recvBuf, count))
    /\ recvBuf' = << >>
    /\ UNCHANGED <<sendBuf, updates>>

to_send(count) == First(sendBuf, count)

to_recv(buf) == recvBuf' = First(buf, RecvSize)

BufferTypeOK ==
    /\ sendBuf \in Seq(1..MaxUpdates) /\ Len(sendBuf) <= SendSize
    /\ recvBuf \in Seq(Nat) /\ Len(recvBuf) <= RecvSize
    /\ polling \in BOOLEAN /\ polled \in Seq(Seq(Nat)) /\ updates \in 0..MaxUpdates
================================================================================
