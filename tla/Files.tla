--------------------------------- MODULE Files ---------------------------------
(***************************************************************************)
(* Files of programs: the system calls newlib makes                        *)
(* (arch/syscalls.newlib.cc), the file system they are bound to, and the   *)
(* read only one (base/fs/romfs), on an image made by mkromfs.             *)
(*                                                                         *)
(* A program uses the calls, or RomFS itself.  It does not close the       *)
(* console.  The search of open is made of steps.                          *)
(***************************************************************************)
EXTENDS Integers, Sequences, FiniteSets

CONSTANTS
    romFiles,           \* what mkromfs was given: names and contents
    romIndex, romData,  \* the image: indexes, characters
    FileNames,          \* names programs ask for
    StreamsNb,          \* lengthof (syscalls_streams)
    Consoles,           \* descriptors set to the console
    RomStreams,         \* storages of RomFS::pool_
    ReadCounts

FilesNb == Len(romFiles)
Strings == Seq(Nat)

\* filename_compare (a, b) < 0, which is the order of mkromfs.
NameBefore(a, b) ==
    \/ \E k \in 1..Len(a) : /\ k <= Len(b) /\ a[k] < b[k]
                            /\ \A j \in 1..k - 1 : a[j] = b[j]
    \/ Len(a) < Len(b) /\ \A j \in 1..Len(a) : a[j] = b[j]

\* mkromfs: names in order then contents, each ends where the next one begins.
Part(k) == IF k <= FilesNb THEN romFiles[k].name ELSE romFiles[k - FilesNb].content
Chars(begin, end) == SubSeq(romData, begin + 1, end)
IsImage ==
    /\ romData \in Strings
    /\ romIndex \in [0..2 * FilesNb -> 0..Len(romData)] /\ romIndex[0] = 0
    /\ \A k \in 1..2 * FilesNb :
        /\ romIndex[k] = romIndex[k - 1] + Len(Part(k))
        /\ Chars(romIndex[k - 1], romIndex[k]) = Part(k)

ASSUME FilesBounds ==
    /\ romFiles \in Seq([name : Strings, content : Strings])
    /\ \A i, j \in 1..FilesNb : i < j => NameBefore(romFiles[i].name, romFiles[j].name)
    /\ IsImage
    /\ FileNames \subseteq Strings
    /\ StreamsNb \in Nat /\ RomStreams \in Nat
    /\ Consoles \subseteq 0..StreamsNb - 1
    /\ ReadCounts \subseteq Nat \ {0}

VARIABLES
    enabled_, root_,    \* FileSystem
    registered,         \* is syscalls_file_system set?
    streams,            \* syscalls_streams
    free, held,         \* storages of pool_ free, and open by the program itself
    rom,                \* begin_ and end_ of each RomFSStream
    search,             \* open in progress
    askedName, readSoFar, \* of each stream: name asked for, what was read, for the properties
    last                \* the last call done, for the properties

romVars == <<free, rom, askedName, readSoFar>>
filesVars == <<enabled_, root_, registered, streams, held, search, last, romVars>>

Descriptors == 0..StreamsNb - 1
RomStorages == 1..RomStreams
NoStream == 0
Console == -1
Direct == StreamsNb             \* not a descriptor: RomFS::open is called itself
NoRom == [begin |-> 0, end |-> 0]
Idle == [to |-> -1, name |-> << >>, begin |-> 0, end |-> 0]

Done(op, name, stream, ret, errno) ==
    last' = [op |-> op, name |-> name, stream |-> stream, ret |-> ret, errno |-> errno]
Fails(errno) == Done("failed", << >>, NoStream, -1, errno)
NoResult == [op |-> "none", name |-> << >>, stream |-> NoStream, ret |-> 0, errno |-> "none"]

\* enabled_ and root_ have no initial value.
FilesInit ==
    /\ enabled_ \in BOOLEAN /\ root_ \in BOOLEAN
    /\ registered = FALSE
    /\ streams = [d \in Descriptors |-> IF d \in Consoles THEN Console ELSE NoStream]
    /\ free = RomStorages /\ held = {}
    /\ rom = [s \in RomStorages |-> NoRom]
    /\ search = Idle
    /\ askedName = [s \in RomStorages |-> << >>]
    /\ readSoFar = [s \in RomStorages |-> << >>]
    /\ last = NoResult

TableFull == \A d \in Descriptors : streams[d] # NoStream
IsOpen(d) == d \in Descriptors /\ streams[d] # NoStream
NoOpen == search = Idle

--------------------------------------------------------------------------------
(* FileSystem. *)

fs_enable(root) ==
    /\ NoOpen
    /\ enabled_' = TRUE /\ root_' = root
    /\ registered' = (root \/ (registered /\ ~(enabled_ /\ root_)))
    /\ last' = NoResult
    /\ UNCHANGED <<streams, held, search, romVars>>

fs_disable ==
    /\ NoOpen
    /\ enabled_' = FALSE /\ root_' = FALSE
    /\ registered' = (registered /\ ~(enabled_ /\ root_))
    /\ last' = NoResult
    /\ UNCHANGED <<streams, held, search, romVars>>

--------------------------------------------------------------------------------
(* RomFS. *)

Search(name, to) ==
    /\ search' = [to |-> to, name |-> name, begin |-> 0, end |-> FilesNb]
    /\ last' = NoResult

Middle == search.begin + (search.end - search.begin) \div 2
NameAt(i) == Chars(romIndex[i], romIndex[i + 1])

\* open, a turn of the dichotomy.
SearchTurn ==
    /\ ~NoOpen
    /\ search.begin # search.end
    /\ \/ /\ NameBefore(search.name, NameAt(Middle))
          /\ search' = [search EXCEPT !.end = Middle]
       \/ /\ NameBefore(NameAt(Middle), search.name)
          /\ search' = [search EXCEPT !.begin = Middle + 1]
    /\ UNCHANGED <<enabled_, root_, registered, streams, held, last, romVars>>

\* Its end: who called has the stream.
Opened(s) ==
    /\ s \in free
    /\ free' = free \ {s}
    /\ rom' = [rom EXCEPT ![s] = [begin |-> romIndex[FilesNb + Middle],
                                  end |-> romIndex[FilesNb + Middle + 1]]]
    /\ askedName' = [askedName EXCEPT ![s] = search.name]
    /\ readSoFar' = [readSoFar EXCEPT ![s] = << >>]
    /\ IF search.to = Direct
       THEN held' = held \cup {s} /\ UNCHANGED streams
       ELSE streams' = [streams EXCEPT ![search.to] = s] /\ UNCHANGED held
    /\ Done("open", search.name, s, search.to, "none")

OpenFails(errno) ==
    /\ Done("open", search.name, NoStream, -1, errno)
    /\ UNCHANGED <<streams, held, romVars>>

Found ==
    /\ ~NoOpen
    /\ search.begin # search.end
    /\ ~NameBefore(search.name, NameAt(Middle)) /\ ~NameBefore(NameAt(Middle), search.name)
    /\ search' = Idle
    /\ \/ \E s \in free : Opened(s)
       \/ free = {} /\ OpenFails("ENFILE")
    /\ UNCHANGED <<enabled_, root_, registered>>

NotFound ==
    /\ ~NoOpen
    /\ search.begin = search.end
    /\ search' = Idle
    /\ OpenFails("ENOENT")
    /\ UNCHANGED <<enabled_, root_, registered>>

\* RomFS::open called by the program, which refuses to write.
OpenDirect(name) ==
    /\ NoOpen
    /\ Search(name, Direct) \/ (Fails("EROFS") /\ UNCHANGED search)
    /\ UNCHANGED <<enabled_, root_, registered, streams, held, romVars>>

\* The stream is destroyed, its storage is a link again.
RomClose(s) ==
    /\ free' = free \cup {s}
    /\ rom' = [rom EXCEPT ![s] = NoRom]
    /\ askedName' = [askedName EXCEPT ![s] = << >>]
    /\ readSoFar' = [readSoFar EXCEPT ![s] = << >>]

CloseDirect(s) ==
    /\ NoOpen /\ s \in held
    /\ RomClose(s)
    /\ held' = held \ {s}
    /\ Done("close", << >>, NoStream, 0, "none")
    /\ UNCHANGED <<enabled_, root_, registered, streams, search>>

Least(a, b) == IF a < b THEN a ELSE b
Available(s) == rom[s].end - rom[s].begin

RomRead(s, count) ==
    LET l == Least(count, Available(s))
    IN  /\ readSoFar' = [readSoFar EXCEPT ![s] = @ \o Chars(rom[s].begin, rom[s].begin + l)]
        /\ rom' = [rom EXCEPT ![s].begin = @ + l]
        /\ UNCHANGED <<free, askedName>>

\* RomFSStream::read, poll.
ReadDirect(s, count) ==
    /\ NoOpen /\ s \in held
    /\ RomRead(s, count)
    /\ Done("read", << >>, s, IF Available(s) = 0 THEN -2 ELSE Least(count, Available(s)), "none")
    /\ UNCHANGED <<enabled_, root_, registered, streams, held, search>>

PollDirect(s) ==
    /\ NoOpen /\ s \in held
    /\ Done("poll", << >>, s, Available(s), "none")
    /\ UNCHANGED <<enabled_, root_, registered, streams, held, search, romVars>>

--------------------------------------------------------------------------------
(* System calls. *)

FirstFree == CHOOSE d \in Descriptors :
    streams[d] = NoStream /\ \A e \in 0..d - 1 : streams[e] # NoStream

\* open, flags are those of "r", of "w" or others.
open_r(name, flags) ==
    /\ NoOpen
    /\ \/ ~registered /\ Fails("ENOSYS") /\ UNCHANGED search
       \/ /\ registered /\ TableFull
          /\ Done("open", name, NoStream, -1, "ENFILE") /\ UNCHANGED search
       \/ /\ registered /\ ~TableFull
          /\ \/ flags = "r" /\ Search(name, FirstFree)
             \/ flags = "w" /\ Fails("EROFS") /\ UNCHANGED search
             \/ flags \notin {"r", "w"} /\ Fails("ENOSYS") /\ UNCHANGED search
    /\ UNCHANGED <<enabled_, root_, registered, streams, held, romVars>>

\* Mutant of close_r: the descriptor keeps the stream.
close_rKept(d) ==
    /\ NoOpen /\ (IsOpen(d) => streams[d] # Console)
    /\ IF registered /\ IsOpen(d)
       THEN RomClose(streams[d]) /\ Done("close", << >>, NoStream, 0, "none")
       ELSE Fails("EBADF") /\ UNCHANGED romVars
    /\ UNCHANGED <<enabled_, root_, registered, streams, held, search>>

\* The file system closes any stream: the console is not one of its own.
close_r(d) ==
    /\ NoOpen /\ (IsOpen(d) => streams[d] # Console)
    /\ IF registered /\ IsOpen(d)
       THEN /\ RomClose(streams[d])
            /\ streams' = [streams EXCEPT ![d] = NoStream]
            /\ Done("close", << >>, NoStream, 0, "none")
       ELSE Fails("EBADF") /\ UNCHANGED <<streams, romVars>>
    /\ UNCHANGED <<enabled_, root_, registered, held, search>>

\* What Stream::read and write return, as newlib expects it.
ReadDone(s, r) ==
    \/ r = -2 /\ Done("read", << >>, s, 0, "none")
    \/ r = -1 /\ Fails("EIO")
    \/ r = 0 /\ Fails("EAGAIN")
    \/ r > 0 /\ Done("read", << >>, s, r, "none")
Written(r) ==
    \/ r = -1 /\ Fails("EIO")
    \/ r = 0 /\ Fails("EAGAIN")
    \/ r > 0 /\ Done("write", << >>, NoStream, r, "none")

read_r(d, count) ==
    /\ NoOpen
    /\ \/ ~IsOpen(d) /\ Fails("EBADF") /\ UNCHANGED romVars
       \/ /\ IsOpen(d) /\ streams[d] = Console
          /\ \E r \in -2..count : ReadDone(Console, r)
          /\ UNCHANGED romVars
       \/ /\ IsOpen(d) /\ streams[d] # Console
          /\ RomRead(streams[d], count)
          /\ LET a == Available(streams[d])
             IN  ReadDone(streams[d], IF a = 0 THEN -2 ELSE Least(count, a))
    /\ UNCHANGED <<enabled_, root_, registered, streams, held, search>>

write_r(d, count) ==
    /\ NoOpen
    /\ \/ ~IsOpen(d) /\ Fails("EBADF")
       \/ IsOpen(d) /\ streams[d] = Console /\ \E r \in -1..count : Written(r)
       \/ IsOpen(d) /\ streams[d] # Console /\ Written(-1)
    /\ UNCHANGED <<enabled_, root_, registered, streams, held, search, romVars>>

\* fstat, isatty: all files are character devices, the first three terminals.
fstat_r(d) ==
    /\ NoOpen
    /\ IF IsOpen(d) THEN Done("fstat", << >>, streams[d], 0, "none") ELSE Fails("EBADF")
    /\ UNCHANGED <<enabled_, root_, registered, streams, held, search, romVars>>

isatty_r(d) ==
    /\ NoOpen
    /\ IF IsOpen(d) THEN Done("isatty", << >>, streams[d], IF d < 3 THEN 1 ELSE 0, "none")
       ELSE Fails("EBADF")
    /\ UNCHANGED <<enabled_, root_, registered, streams, held, search, romVars>>

\* RomFS::unlink does nothing.
unlink_r ==
    /\ NoOpen
    /\ IF registered THEN Done("unlink", << >>, NoStream, 0, "none") ELSE Fails("ENOSYS")
    /\ UNCHANGED <<enabled_, root_, registered, streams, held, search, romVars>>

\* lseek, link, times, gettimeofday; kill.
Unimplemented ==
    /\ NoOpen
    /\ Fails("ENOSYS") \/ Fails("EINVAL")
    /\ UNCHANGED <<enabled_, root_, registered, streams, held, search, romVars>>

FilesNext ==
    \/ \E root \in BOOLEAN : fs_enable(root)
    \/ fs_disable
    \/ SearchTurn \/ Found \/ NotFound
    \/ \E name \in FileNames : \/ OpenDirect(name)
                               \/ \E flags \in {"r", "w", "a"} : open_r(name, flags)
    \/ \E s \in RomStorages : \/ CloseDirect(s) \/ PollDirect(s)
                              \/ \E count \in ReadCounts : ReadDirect(s, count)
    \/ \E d \in 0..StreamsNb : \/ close_r(d) \/ fstat_r(d) \/ isatty_r(d)
                               \/ \E count \in ReadCounts : read_r(d, count) \/ write_r(d, count)
    \/ unlink_r \/ Unimplemented

FilesSpec == FilesInit /\ [][FilesNext]_filesVars

--------------------------------------------------------------------------------
(* Properties. *)

\* Each storage is free, or open in one place: none is lost nor given twice.
OneOwner ==
    /\ RomStorages \subseteq free \cup held \cup {streams[d] : d \in Descriptors}
    /\ free \cap held = {}
    /\ \A d, e \in Descriptors :
        streams[d] \in RomStorages =>
            streams[d] \notin free \cup held /\ (streams[e] = streams[d] => e = d)

\* What was read of an open file is the beginning of the file of that name.
ContentIsRight ==
    \A s \in RomStorages \ free : \E k \in 1..FilesNb :
        /\ romFiles[k].name = askedName[s]
        /\ readSoFar[s] \o Chars(rom[s].begin, rom[s].end) = romFiles[k].content

\* What a call answers: no such file, no room, end of file.
AnswerIsRight ==
    /\ last.op = "open" =>
        /\ last.errno = "ENOENT" => \A k \in 1..FilesNb : romFiles[k].name # last.name
        /\ last.errno = "ENFILE" => TableFull \/ free = {}
        /\ last.stream # NoStream => askedName[last.stream] = last.name
    /\ last.op = "read" /\ last.stream \in RomStorages /\ last.ret <= 0 =>
        \E k \in 1..FilesNb : /\ romFiles[k].name = askedName[last.stream]
                              /\ readSoFar[last.stream] = romFiles[k].content

\* The calls are bound to the file system while it is the root one: the assertion of
\* enable (file_system.cc:41) holds.
BoundIsRoot == registered => enabled_ /\ root_

\* Files are found by their name and read from one end to the other, whatever is
\* open, and each storage of the file system comes back when it is closed
\* (romfs.cc:86-129, syscalls.newlib.cc:119-248).
FilesAreExact == OneOwner /\ ContentIsRight /\ AnswerIsRight /\ BoundIsRoot
================================================================================
