--------------------------------- MODULE Trace ---------------------------------
(***************************************************************************)
(* ucoo::TraceBuffer (utils/trace.tcc): a ring of the last traces, read    *)
(* with a debugger or dumped.  A program traces, and so do interrupt       *)
(* handlers, at any point of it.  Nothing is locked and index is no        *)
(* volatile: the build may keep it in a register or load it again at each  *)
(* access.                                                                 *)
(*                                                                         *)
(* An entry is the trace its string comes from and the one its arguments   *)
(* come from.                                                              *)
(***************************************************************************)
EXTENDS Integers, Sequences, FiniteSets

CONSTANTS entries_nb,
          MaxTraces         \* bound: traces

ASSUME TraceBounds == entries_nb \in Nat \ {0} /\ MaxTraces \in Nat

VARIABLES
    entries, index,
    step,           \* what the program does: "idle", "str", "args" or "index"
    kept,           \* index in a register
    traces,         \* number of traces so far
    mine,           \* the one of the program
    clean,          \* traces that nothing came in between, and not in between
    skipped         \* an entry was skipped

traceVars == <<entries, index, step, kept, traces, mine, clean, skipped>>

EntriesIndex == 0..entries_nb - 1
NoEntry == [str |-> 0, args |-> 0]
Following(i) == (i + 1) % entries_nb

TraceInit ==
    /\ entries = [i \in EntriesIndex |-> NoEntry] /\ index = 0
    /\ step = "idle" /\ kept = 0 /\ traces = 0 /\ mine = 0
    /\ clean = {} /\ skipped = FALSE

\* Where the program writes.
TraceSlot == {kept, index}

TraceStart ==
    /\ step = "idle" /\ traces < MaxTraces
    /\ traces' = traces + 1 /\ mine' = traces + 1
    /\ kept' = index /\ step' = "str"
    /\ clean' = clean \cup {traces + 1}
    /\ UNCHANGED <<entries, index, skipped>>

TraceStr ==
    /\ step = "str"
    /\ \E i \in TraceSlot : entries' = [entries EXCEPT ![i].str = mine]
    /\ step' = "args"
    /\ UNCHANGED <<index, kept, traces, mine, clean, skipped>>

TraceArgs ==
    /\ step = "args"
    /\ \E i \in TraceSlot : entries' = [entries EXCEPT ![i].args = mine]
    /\ step' = "index"
    /\ UNCHANGED <<index, kept, traces, mine, clean, skipped>>

\* Mutant of Advance: the ring has one more entry.
AdvanceMore(i) == (i + 1) % (entries_nb + 1)

Advance(i) == Following(i)

TraceIndex ==
    /\ step = "index"
    /\ \E i \in TraceSlot : index' = Advance(i) /\ skipped' = (skipped \/ i # kept)
    /\ step' = "idle"
    /\ UNCHANGED <<entries, kept, traces, mine, clean>>

\* A trace from an interrupt handler.
TraceHandler ==
    /\ traces < MaxTraces
    /\ traces' = traces + 1
    /\ entries' = [entries EXCEPT ![index] = [str |-> traces + 1, args |-> traces + 1]]
    /\ index' = Advance(index)
    /\ clean' = IF step = "idle" THEN clean \cup {traces + 1} ELSE clean \ {mine}
    /\ UNCHANGED <<step, kept, mine, skipped>>

TraceNext == TraceStart \/ TraceStr \/ TraceArgs \/ TraceIndex \/ TraceHandler

TraceSpec == TraceInit /\ [][TraceNext]_traceVars

--------------------------------------------------------------------------------
\* dump: from index on if this entry is used, from the first one else; all of them
\* up to index, the traced ones.
DumpFrom == IF entries[index].str = 0 THEN 0 ELSE index
DumpLength == IF entries[DumpFrom].str = 0 THEN 0
              ELSE IF DumpFrom = index THEN entries_nb ELSE index - DumpFrom
dump == [k \in 1..DumpLength |-> entries[(DumpFrom + k - 1) % entries_nb]]

Position(t) == CHOOSE k \in DOMAIN dump : dump[k] = [str |-> t, args |-> t]
Dumped == {t \in clean : \E k \in DOMAIN dump : dump[k] = [str |-> t, args |-> t]}

\* Between traces, an interrupted trace costs itself and those that interrupted it:
\* the other ones are dumped in order and of the last ENTRIES_NB traces none is
\* missing.  But if index is loaded again to advance it, an old entry is skipped,
\* which is dumped as if it were the newest, or as the end of a ring not full.
TraceDamageIsLocal ==
    /\ index \in EntriesIndex
    /\ step = "idle" /\ ~skipped =>
        /\ \A t, u \in Dumped : t < u => Position(t) < Position(u)
        /\ \A t \in clean : t > traces - entries_nb => t \in Dumped
================================================================================
