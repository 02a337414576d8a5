----------------------------- MODULE ServicesProofs -----------------------------
(***************************************************************************)
(* Proofs about services that need no device: files, pools of objects,     *)
(* rate limits, traces, and the reception of a file by Xmodem.  For any    *)
(* image, the search of open finds each file and nothing else, reads are   *)
(* exact and storages have one owner.  For any size, a pool leaks no       *)
(* storage and gives none twice.  For any period, a limit is neither early *)
(* nor late.  For any ring, a trace that is interrupted damages no other   *)
(* one.  For every file, block number size and number of faults, a         *)
(* reception is a Transfer and what it acknowledges was written, if        *)
(* silence of one second is wrong once at most.                            *)
(***************************************************************************)
EXTENDS Files, Pool, RateLimit, Trace, Xmodem, FiniteSetTheorems, SequenceTheorems,
        WellFoundedInduction, TLAPS

(* Files. *)

Streams == RomStorages \cup {NoStream, Console}

FilesTypes ==
    /\ enabled_ \in BOOLEAN /\ root_ \in BOOLEAN /\ registered \in BOOLEAN
    /\ streams \in [Descriptors -> Streams]
    /\ free \subseteq RomStorages /\ held \subseteq RomStorages
    /\ rom \in [RomStorages -> [begin : Nat, end : Nat]]
    /\ askedName \in [RomStorages -> Strings]
    /\ readSoFar \in [RomStorages -> Strings]
    /\ search \in [to : -1..StreamsNb, name : Strings, begin : Nat, end : Nat]

RomIsInside ==
    \A s \in RomStorages : rom[s].begin <= rom[s].end /\ rom[s].end <= Len(romData)

\* The file is not out of what remains to search; its descriptor is still free.
SearchIsRight ==
    search # Idle =>
        /\ search.to \in 0..StreamsNb
        /\ search.begin <= search.end /\ search.end <= FilesNb
        /\ \A k \in 1..FilesNb :
            romFiles[k].name = search.name => search.begin < k /\ k <= search.end
        /\ search.to # Direct => streams[search.to] = NoStream

FilesInv == FilesTypes /\ RomIsInside /\ SearchIsRight /\ FilesAreExact

--------------------------------------------------------------------------------
(* Least elements, sequences and names. *)

\* A set of natural numbers has a least one.
LEMMA LeastOf ==
  ASSUME NEW T, T \subseteq Nat, T # {}
  PROVE  \E x \in T : \A y \in T : x <= y
  <1> DEFINE U == {0..t - 1 : t \in T}
  <1>1. U # {} /\ U \subseteq FiniteSubsetsOf(Nat)
    <2>1. \A t \in T : IsFiniteSet(0..t - 1) /\ 0..t - 1 \subseteq Nat
      BY FS_Interval
    <2> QED BY <2>1 DEF FiniteSubsetsOf
  <1>2. IsWellFoundedOn(StrictSubsetOrdering(Nat), FiniteSubsetsOf(Nat))
    BY FS_StrictSubsetOrderingWellFounded
  <1>3. PICK u \in U : \A v \in U : <<v, u>> \notin StrictSubsetOrdering(Nat)
    <2> HIDE DEF U
    <2> QED BY <1>1, <1>2, WFMin
  <1>4. PICK x \in T : u = 0..x - 1
    OBVIOUS
  <1>5. \A y \in T : ~(0..y - 1 \subseteq 0..x - 1 /\ 0..y - 1 # 0..x - 1)
    <2> TAKE y \in T
    <2>1. <<0..y - 1, u>> \notin StrictSubsetOrdering(Nat)
      BY <1>3
    <2>2. 0..y - 1 \in SUBSET Nat /\ u \in SUBSET Nat
      BY <1>4
    <2> QED BY <1>4, <2>1, <2>2, Zenon DEF StrictSubsetOrdering
  <1>6. ASSUME NEW y \in T, y < x PROVE FALSE
    <2>1. 0..y - 1 \subseteq 0..x - 1 /\ y \in 0..x - 1 /\ y \notin 0..y - 1
      BY <1>6
    <2> QED BY <1>5, <2>1
  <1> QED BY <1>6

\* filename_compare is an order: no name is before itself, two names are not each
\* before the other, and if none is they are the same.
LEMMA NotBeforeItself ==
  ASSUME NEW a \in Strings
  PROVE  ~NameBefore(a, a)
  <1>1. \A k \in 1..Len(a) : a[k] \in Nat
    BY DEF Strings
  <1>2. Len(a) \in Nat
    BY DEF Strings
  <1> QED BY <1>1, <1>2 DEF NameBefore

LEMMA NotBothBefore ==
  ASSUME NEW a \in Strings, NEW b \in Strings, NameBefore(a, b)
  PROVE  ~NameBefore(b, a)
  <1>1. /\ Len(a) \in Nat /\ Len(b) \in Nat
        /\ \A k \in 1..Len(a) : a[k] \in Nat
        /\ \A k \in 1..Len(b) : b[k] \in Nat
    BY DEF Strings
  <1> SUFFICES ASSUME NameBefore(b, a) PROVE FALSE
    OBVIOUS
  <1>2. CASE Len(a) < Len(b) /\ \A j \in 1..Len(a) : a[j] = b[j]
    BY <1>1, <1>2 DEF NameBefore
  <1>3. CASE \E k \in 1..Len(a) : k <= Len(b) /\ a[k] < b[k] /\ \A j \in 1..k - 1 : a[j] = b[j]
    <2>1. PICK k \in 1..Len(a) : k <= Len(b) /\ a[k] < b[k] /\ \A j \in 1..k - 1 : a[j] = b[j]
      BY <1>3
    <2>2. CASE Len(b) < Len(a) /\ \A j \in 1..Len(b) : b[j] = a[j]
      BY <1>1, <2>1, <2>2
    <2>3. CASE \E i \in 1..Len(b) : i <= Len(a) /\ b[i] < a[i] /\ \A j \in 1..i - 1 : b[j] = a[j]
      <3>1. PICK i \in 1..Len(b) : i <= Len(a) /\ b[i] < a[i] /\ \A j \in 1..i - 1 : b[j] = a[j]
        BY <2>3
      <3>2. i < k \/ i = k \/ k < i
        BY <1>1
      <3>3. i < k => i \in 1..k - 1
        BY <1>1
      <3>4. k < i => k \in 1..i - 1
        BY <1>1
      <3>5. a[i] \in Nat /\ b[i] \in Nat /\ a[k] \in Nat /\ b[k] \in Nat
        BY <1>1, <2>1, <3>1
      <3> QED BY ONLY <2>1, <3>1, <3>2, <3>3, <3>4, <3>5
    <2> QED BY <2>2, <2>3 DEF NameBefore
  <1> QED BY <1>2, <1>3 DEF NameBefore

LEMMA NoneBefore ==
  ASSUME NEW a \in Strings, NEW b \in Strings, ~NameBefore(a, b), ~NameBefore(b, a)
  PROVE  a = b
  <1>1. /\ Len(a) \in Nat /\ Len(b) \in Nat
        /\ \A k \in 1..Len(a) : a[k] \in Nat
        /\ \A k \in 1..Len(b) : b[k] \in Nat
    BY DEF Strings
  <1> DEFINE T == {k \in Nat : k \in 1..Len(a) /\ k \in 1..Len(b) /\ a[k] # b[k]}
  <1>2. T = {}
    <2> SUFFICES ASSUME T # {} PROVE FALSE
      OBVIOUS
    <2>1. PICK k \in T : \A j \in T : k <= j
      <3>1. T \subseteq Nat
        OBVIOUS
      <3> HIDE DEF T
      <3> QED BY <3>1, LeastOf
    <2>2. k \in 1..Len(a) /\ k \in 1..Len(b) /\ a[k] # b[k]
      OBVIOUS
    <2>3. ASSUME NEW j \in 1..k - 1 PROVE a[j] = b[j]
      <3>1. j \in Nat /\ j \in 1..Len(a) /\ j \in 1..Len(b) /\ ~(k <= j)
        BY <1>1, <2>2
      <3> QED BY <2>1, <3>1
    <2>4. a[k] < b[k] \/ b[k] < a[k]
      BY <1>1, <2>2
    <2>5. k <= Len(a) /\ k <= Len(b)
      BY <1>1, <2>2
    <2> QED BY <2>2, <2>3, <2>4, <2>5 DEF NameBefore
  <1>3. \A j \in Nat : j \in 1..Len(a) /\ j \in 1..Len(b) => a[j] = b[j]
    BY <1>2
  <1> HIDE DEF T
  <1>4. Len(a) = Len(b)
    <2>1. ~(Len(a) < Len(b))
      <3> SUFFICES ASSUME Len(a) < Len(b) PROVE FALSE
        OBVIOUS
      <3>1. \A j \in 1..Len(a) : a[j] = b[j]
        BY <1>1, <1>3
      <3> QED BY <3>1 DEF NameBefore
    <2>2. ~(Len(b) < Len(a))
      <3> SUFFICES ASSUME Len(b) < Len(a) PROVE FALSE
        OBVIOUS
      <3>1. \A j \in 1..Len(b) : b[j] = a[j]
        BY <1>1, <1>3
      <3> QED BY <3>1 DEF NameBefore
    <2> QED BY <1>1, <2>1, <2>2
  <1>5. \A j \in 1..Len(a) : a[j] = b[j]
    BY <1>1, <1>3, <1>4
  <1> QED BY <1>4, <1>5, SeqEqual DEF Strings

--------------------------------------------------------------------------------
(* The image. *)

LEMMA Bounds ==
    /\ FilesNb \in Nat /\ StreamsNb \in Nat /\ RomStreams \in Nat
    /\ romData \in Strings /\ Len(romData) \in Nat
    /\ \A k \in 1..FilesNb : romFiles[k].name \in Strings /\ romFiles[k].content \in Strings
    /\ \A k \in 0..2 * FilesNb : romIndex[k] \in 0..Len(romData)
    /\ Descriptors = 0..StreamsNb - 1 /\ Direct \notin Descriptors
    /\ NoStream \notin RomStorages /\ Console \notin RomStorages /\ NoStream # Console
  <1>1. romFiles \in Seq([name : Strings, content : Strings]) /\ romData \in Strings
        /\ romIndex \in [0..2 * FilesNb -> 0..Len(romData)]
        /\ StreamsNb \in Nat /\ RomStreams \in Nat
    BY FilesBounds DEF IsImage
  <1>2. FilesNb \in Nat /\ Len(romData) \in Nat
    BY <1>1 DEF FilesNb, Strings
  <1>3. \A k \in 1..FilesNb : romFiles[k] \in [name : Strings, content : Strings]
    <2> DEFINE F == [name : Strings, content : Strings]
    <2>1. romFiles \in Seq(F)
      BY <1>1
    <2> HIDE DEF F
    <2>2. \A k \in 1..Len(romFiles) : romFiles[k] \in F
      BY <2>1, ElementOfSeq
    <2> QED BY <2>2 DEF F, FilesNb
  <1>4. NoStream \notin RomStorages /\ Console \notin RomStorages /\ NoStream # Console
    BY <1>1 DEF NoStream, Console, RomStorages
  <1>5. Descriptors = 0..StreamsNb - 1 /\ Direct \notin Descriptors
    BY <1>1 DEF Descriptors, Direct
  <1> QED BY <1>1, <1>2, <1>3, <1>4, <1>5

\* What open compares, and what it opens, are the names and contents mkromfs was given.
LEMMA ImageIsRight ==
  ASSUME NEW i \in 0..FilesNb - 1
  PROVE  /\ NameAt(i) = romFiles[i + 1].name
         /\ romIndex[FilesNb + i] <= romIndex[FilesNb + i + 1]
         /\ Chars(romIndex[FilesNb + i], romIndex[FilesNb + i + 1]) = romFiles[i + 1].content
  <1>1. FilesNb \in Nat /\ i \in Nat /\ i < FilesNb
    BY Bounds
  <1>2. \A k \in 1..2 * FilesNb : /\ romIndex[k] = romIndex[k - 1] + Len(Part(k))
                                  /\ Chars(romIndex[k - 1], romIndex[k]) = Part(k)
    BY FilesBounds DEF IsImage
  <1>3. /\ i + 1 \in 1..2 * FilesNb /\ (i + 1) - 1 = i /\ i + 1 <= FilesNb
        /\ FilesNb + i + 1 \in 1..2 * FilesNb /\ (FilesNb + i + 1) - 1 = FilesNb + i
        /\ ~(FilesNb + i + 1 <= FilesNb) /\ (FilesNb + i + 1) - FilesNb = i + 1
    BY <1>1
  <1>4. Part(i + 1) = romFiles[i + 1].name
        /\ Part(FilesNb + i + 1) = romFiles[i + 1].content
    BY <1>3 DEF Part
  <1>5. Chars(romIndex[i], romIndex[i + 1]) = romFiles[i + 1].name
    BY <1>2, <1>3, <1>4
  <1>6. Chars(romIndex[FilesNb + i], romIndex[FilesNb + i + 1]) = romFiles[i + 1].content
    BY <1>2, <1>3, <1>4
  <1>7. romIndex[FilesNb + i + 1] = romIndex[FilesNb + i] + Len(romFiles[i + 1].content)
    BY <1>2, <1>3, <1>4
  <1>8. romIndex[FilesNb + i] \in Nat /\ Len(romFiles[i + 1].content) \in Nat
    <2>1. FilesNb + i \in 0..2 * FilesNb /\ i + 1 \in 1..FilesNb
      BY <1>1
    <2>2. romIndex[FilesNb + i] \in 0..Len(romData) /\ romFiles[i + 1].content \in Strings
      BY <2>1, Bounds
    <2> QED BY <2>2, Bounds DEF Strings
  <1> QED BY <1>5, <1>6, <1>7, <1>8 DEF NameAt

\* A turn of the search leaves out no file of the name searched.
LEMMA SearchKeeps ==
  ASSUME NEW i \in 0..FilesNb - 1, NEW name \in Strings, NEW k \in 1..FilesNb,
         romFiles[k].name = name
  PROVE  /\ NameBefore(name, NameAt(i)) => k <= i
         /\ NameBefore(NameAt(i), name) => i + 1 < k
  <1> DEFINE other == romFiles[i + 1].name
  <1>1. i + 1 \in 1..FilesNb /\ NameAt(i) = other /\ other \in Strings
        /\ k \in Nat /\ i \in Nat
    BY Bounds, ImageIsRight
  <1>2. k < i + 1 => NameBefore(name, other)
    BY <1>1, FilesBounds
  <1>3. i + 1 < k => NameBefore(other, name)
    BY <1>1, FilesBounds
  <1> HIDE DEF other
  <1>4. NameBefore(name, other) => ~NameBefore(other, name)
    BY <1>1, NotBothBefore
  <1>5. k = i + 1 => ~NameBefore(name, other) /\ ~NameBefore(other, name)
    BY <1>1, NotBeforeItself DEF other
  <1>6. k < i + 1 \/ k = i + 1 \/ i + 1 < k
    BY <1>1
  <1>7. k < i + 1 => k <= i
    BY <1>1
  <1> QED BY ONLY <1>1, <1>2, <1>3, <1>4, <1>5, <1>6, <1>7, Zenon

LEMMA CharsOf ==
  ASSUME NEW b \in Nat, NEW e \in Nat, b <= e, e <= Len(romData)
  PROVE  /\ Chars(b, e) \in Strings /\ Len(Chars(b, e)) = e - b
         /\ b = e => Chars(b, e) = << >>
  <1>1. romData \in Seq(Nat) /\ Len(romData) \in Nat
    BY Bounds DEF Strings
  <1>2. b + 1 \in Int /\ e \in Int /\ \A j \in b + 1..e : romData[j] \in Nat
    <2>1. \A j \in b + 1..e : j \in 1..Len(romData)
      BY <1>1
    <2> QED BY <1>1, <2>1, ElementOfSeq
  <1>3. SubSeq(romData, b + 1, e) \in Seq(Nat)
        /\ Len(SubSeq(romData, b + 1, e)) = IF b + 1 <= e THEN e - (b + 1) + 1 ELSE 0
    BY <1>2, SubSeqProperties
  <1>4. b = e => SubSeq(romData, b + 1, e) = << >>
    BY SubSeqEmpty
  <1> QED BY <1>3, <1>4 DEF Chars, Strings

LEMMA CharsCut ==
  \A b, m, e \in Nat, x \in Strings : b <= m /\ m <= e /\ e <= Len(romData) =>
      (x \o Chars(b, m)) \o Chars(m, e) = x \o Chars(b, e)
  <1> TAKE b, m, e \in Nat, x \in Strings
  <1> HAVE b <= m /\ m <= e /\ e <= Len(romData)
  <1>1. romData \in Seq(Nat) /\ Len(romData) \in Nat
    BY Bounds DEF Strings
  <1>2. /\ b + 1 \in 1..Len(romData) + 1 /\ m \in (b + 1) - 1..Len(romData)
        /\ e \in m..Len(romData)
    BY <1>1
  <1>3. Chars(b, m) \o Chars(m, e) = Chars(b, e)
    BY <1>1, <1>2, ConcatAdjacentSubSeq DEF Chars
  <1>4. Chars(b, m) \in Seq(Nat) /\ Chars(m, e) \in Seq(Nat) /\ x \in Seq(Nat)
    <2>1. m <= Len(romData)
      BY <1>1
    <2> QED BY <2>1, CharsOf DEF Strings
  <1>5. (x \o Chars(b, m)) \o Chars(m, e) = x \o (Chars(b, m) \o Chars(m, e))
    <2>1. \A s, t, u \in Seq(Nat) : (s \o t) \o u = s \o (t \o u)
      BY ConcatAssociative, SMTT(30)
    <2> QED BY ONLY <1>4, <2>1, Zenon
  <1> QED BY <1>3, <1>5

--------------------------------------------------------------------------------
(* What calls do of open streams. *)

\* The first free descriptor is one.
LEMMA FreeDescriptor ==
  ASSUME FilesTypes, ~TableFull
  PROVE  FirstFree \in Descriptors /\ streams[FirstFree] = NoStream
  <1> DEFINE T == {d \in Descriptors : streams[d] = NoStream}
  <1>1. T \subseteq Nat /\ T # {}
    BY Bounds DEF TableFull
  <1>2. PICK d \in T : \A e \in T : d <= e
    <2> HIDE DEF T
    <2> QED BY <1>1, LeastOf
  <1>3. ASSUME NEW e \in 0..d - 1 PROVE streams[e] # NoStream
    <2>1. e \in Descriptors /\ ~(d <= e)
      BY <1>1, Bounds
    <2> QED BY <1>2, <2>1
  <1>4. \E f \in Descriptors : streams[f] = NoStream /\ \A e \in 0..f - 1 : streams[e] # NoStream
    BY <1>3
  <1> QED BY <1>4, Zenon DEF FirstFree

\* A call that changes no stream.
LEMMA NothingChanged ==
  ASSUME FilesInv, UNCHANGED <<streams, held, romVars>>
  PROVE  RomIsInside' /\ OneOwner' /\ ContentIsRight'
  <1>1. RomIsInside'
    BY DEF FilesInv, RomIsInside, romVars
  <1>2. OneOwner'
    BY DEF FilesInv, FilesAreExact, OneOwner, romVars
  <1>3. ContentIsRight'
    BY Zenon DEF FilesInv, FilesAreExact, ContentIsRight, romVars
  <1> QED BY <1>1, <1>2, <1>3

\* A stream is closed: its storage is free, and nowhere else.
LEMMA Closed ==
  ASSUME FilesInv, NEW s \in RomStorages, RomClose(s),
         \/ s \in held /\ held' = held \ {s} /\ UNCHANGED streams
         \/ /\ UNCHANGED held
            /\ \E d \in Descriptors : streams[d] = s /\ streams' = [streams EXCEPT ![d] = NoStream]
  PROVE  /\ RomIsInside' /\ OneOwner' /\ ContentIsRight'
         /\ streams' \in [Descriptors -> Streams]
         /\ free' \subseteq RomStorages /\ held' \subseteq RomStorages
         /\ rom' \in [RomStorages -> [begin : Nat, end : Nat]]
         /\ askedName' \in [RomStorages -> Strings] /\ readSoFar' \in [RomStorages -> Strings]
  <1>0. FilesTypes /\ OneOwner
    BY DEF FilesInv, FilesAreExact
  <1>1. /\ streams' \in [Descriptors -> Streams]
        /\ free' \subseteq RomStorages /\ held' \subseteq RomStorages
        /\ rom' \in [RomStorages -> [begin : Nat, end : Nat]]
        /\ askedName' \in [RomStorages -> Strings] /\ readSoFar' \in [RomStorages -> Strings]
    <2>1. << >> \in Strings
      BY DEF Strings
    <2> QED BY <1>0, <2>1 DEF FilesTypes, RomClose, NoRom, Streams
  <1>2. \A t \in RomStorages \ {s} : /\ rom'[t] = rom[t] /\ askedName'[t] = askedName[t]
                                     /\ readSoFar'[t] = readSoFar[t]
    BY <1>0 DEF FilesTypes, RomClose
  <1>3. rom'[s] = NoRom /\ s \in free' /\ free' = free \cup {s}
    BY <1>0 DEF FilesTypes, RomClose
  <1>4. RomIsInside'
    <2>1. 0 <= Len(romData)
      BY Bounds
    <2> QED BY <1>2, <1>3, <2>1 DEF FilesInv, RomIsInside, NoRom
  <1>5. ContentIsRight'
    <2> SUFFICES ASSUME NEW t \in RomStorages \ free'
                 PROVE  \E k \in 1..FilesNb :
                          /\ romFiles[k].name = askedName'[t]
                          /\ readSoFar'[t] \o Chars(rom'[t].begin, rom'[t].end)
                               = romFiles[k].content
      BY DEF ContentIsRight
    <2>1. t \in RomStorages \ free /\ t # s
      BY <1>3
    <2>2. rom'[t] = rom[t] /\ askedName'[t] = askedName[t] /\ readSoFar'[t] = readSoFar[t]
      BY <1>2, <2>1
    <2>3. \E k \in 1..FilesNb :
            /\ romFiles[k].name = askedName[t]
            /\ readSoFar[t] \o Chars(rom[t].begin, rom[t].end) = romFiles[k].content
      BY <2>1 DEF FilesInv, FilesAreExact, ContentIsRight
    <2> QED BY <2>2, <2>3
  <1>6. OneOwner'
    <2>1. CASE s \in held /\ held' = held \ {s} /\ UNCHANGED streams
      <3>1. \A d \in Descriptors : streams[d] # s
        BY <1>0, <2>1 DEF OneOwner
      <3> QED BY <1>0, <1>3, <2>1, <3>1 DEF OneOwner
    <2>2. CASE UNCHANGED held /\ \E d \in Descriptors :
                 streams[d] = s /\ streams' = [streams EXCEPT ![d] = NoStream]
      <3>1. PICK d \in Descriptors : streams[d] = s /\ streams' = [streams EXCEPT ![d] = NoStream]
        BY <2>2
      <3>2. streams'[d] = NoStream /\ \A e \in Descriptors \ {d} : streams'[e] = streams[e]
        BY <1>0, <3>1 DEF FilesTypes
      <3>3. NoStream \notin RomStorages
        BY Bounds
      <3>4. \A e \in Descriptors \ {d} : streams[e] # s
        BY <1>0, <3>1 DEF OneOwner
      <3>5. s \notin held
        BY <1>0, <3>1 DEF OneOwner
      <3>6. RomStorages \subseteq free' \cup held' \cup {streams'[e] : e \in Descriptors}
        <4> SUFFICES ASSUME NEW t \in RomStorages, t \notin free', t \notin held
                     PROVE  \E e \in Descriptors : streams'[e] = t
          BY <2>2
        <4>1. PICK e \in Descriptors : streams[e] = t
          BY <1>0, <1>3 DEF OneOwner
        <4>2. e # d
          BY <1>3, <3>1, <4>1
        <4> QED BY <3>2, <4>1, <4>2
      <3>7. free' \cap held' = {}
        BY <1>0, <1>3, <2>2, <3>5 DEF OneOwner
      <3>8. \A e, f \in Descriptors :
              streams'[e] \in RomStorages =>
                streams'[e] \notin free' \cup held' /\ (streams'[f] = streams'[e] => f = e)
        <4> TAKE e, f \in Descriptors
        <4> HAVE streams'[e] \in RomStorages
        <4>1. e # d /\ streams'[e] = streams[e]
          BY <3>2, <3>3
        <4>2. streams[e] \notin free \cup held /\ (streams[f] = streams[e] => f = e)
          BY <1>0, <4>1 DEF OneOwner
        <4>3. streams'[f] = streams'[e] => f # d
          BY <3>2, <3>3, <4>1
        <4> QED BY <1>3, <2>2, <3>2, <3>4, <4>1, <4>2, <4>3
      <3> QED BY <3>6, <3>7, <3>8 DEF OneOwner
    <2> QED BY <2>1, <2>2
  <1> QED BY <1>1, <1>4, <1>5, <1>6

\* A read: what it gives is what comes next, all was read when nothing is left.
LEMMA Read ==
  ASSUME FilesInv, NEW s \in RomStorages \ free, NEW count \in Nat \ {0}, RomRead(s, count),
         UNCHANGED <<streams, held>>
  PROVE  /\ RomIsInside' /\ OneOwner' /\ ContentIsRight'
         /\ rom' \in [RomStorages -> [begin : Nat, end : Nat]]
         /\ readSoFar' \in [RomStorages -> Strings]
         /\ Available(s) \in Nat
         /\ Available(s) = 0 => \E k \in 1..FilesNb : /\ romFiles[k].name = askedName'[s]
                                                      /\ readSoFar'[s] = romFiles[k].content
  <1>0. FilesTypes /\ OneOwner
    BY DEF FilesInv, FilesAreExact
  <1> DEFINE b == rom[s].begin
             e == rom[s].end
             l == Least(count, Available(s))
             x == readSoFar[s]
  <1>1. /\ b \in Nat /\ e \in Nat /\ b <= e /\ e <= Len(romData) /\ x \in Strings
        /\ Len(romData) \in Nat /\ rom[s] = [begin |-> b, end |-> e]
    BY <1>0, Bounds DEF FilesInv, FilesTypes, RomIsInside
  <1>2. Available(s) = e - b
    BY DEF Available
  <1>3. /\ l \in Nat /\ b + l \in Nat /\ b <= b + l /\ b + l <= e
        /\ Available(s) = 0 => b + l = b /\ b = e
    BY <1>1, <1>2 DEF Least
  <1>4. /\ readSoFar' = [readSoFar EXCEPT ![s] = x \o Chars(b, b + l)]
        /\ rom' = [rom EXCEPT ![s].begin = b + l]
        /\ UNCHANGED <<free, askedName>>
    BY DEF RomRead
  <1> HIDE DEF b, e, l, x
  <1>5. Chars(b, b + l) \in Strings /\ Chars(b, b) = << >>
    <2>1. b + l <= Len(romData) /\ b <= Len(romData)
      BY <1>1, <1>3
    <2>2. Chars(b, b + l) \in Strings
      BY ONLY <1>1, <1>3, <2>1, CharsOf
    <2>3. Chars(b, b) = << >>
      BY <1>1, <2>1, CharsOf
    <2> QED BY <2>2, <2>3
  <1>6. x \o Chars(b, b + l) \in Strings
    BY <1>1, <1>5, ConcatProperties DEF Strings
  <1>7. /\ readSoFar'[s] = x \o Chars(b, b + l)
        /\ rom'[s] = [begin |-> b + l, end |-> e]
        /\ \A t \in RomStorages \ {s} : readSoFar'[t] = readSoFar[t] /\ rom'[t] = rom[t]
    BY <1>0, <1>1, <1>4 DEF FilesTypes
  <1>8. /\ rom' \in [RomStorages -> [begin : Nat, end : Nat]]
        /\ readSoFar' \in [RomStorages -> Strings]
    <2>1. readSoFar' \in [RomStorages -> Strings]
      BY <1>0, <1>4, <1>6 DEF FilesTypes
    <2>2. rom' \in [RomStorages -> [begin : Nat, end : Nat]]
      BY <1>0, <1>1, <1>3, <1>4 DEF FilesTypes
    <2> QED BY <2>1, <2>2
  <1>9. RomIsInside'
    BY <1>1, <1>3, <1>7 DEF FilesInv, RomIsInside
  <1>10. PICK k \in 1..FilesNb : /\ romFiles[k].name = askedName[s]
                                 /\ x \o Chars(b, e) = romFiles[k].content
    BY DEF FilesInv, FilesAreExact, ContentIsRight, x, b, e
  <1>11. (x \o Chars(b, b + l)) \o Chars(b + l, e) = romFiles[k].content
    <2>1. (x \o Chars(b, b + l)) \o Chars(b + l, e) = x \o Chars(b, e)
      <3>2. PICK m \in Nat : m = b + l
        BY ONLY <1>3
      <3>3. b \in Nat /\ e \in Nat /\ x \in Strings /\ b <= m /\ m <= e /\ e <= Len(romData)
        BY ONLY <1>1, <1>3, <3>2
      <3>4. (x \o Chars(b, m)) \o Chars(m, e) = x \o Chars(b, e)
        BY ONLY <3>3, CharsCut, ZenonT(30)
      <3> QED BY ONLY <3>2, <3>4, Zenon
    <2> QED BY ONLY <1>10, <2>1, Zenon
  <1>12. ContentIsRight'
    <2> SUFFICES ASSUME NEW t \in RomStorages \ free
                 PROVE  \E j \in 1..FilesNb :
                          /\ romFiles[j].name = askedName[t]
                          /\ readSoFar'[t] \o Chars(rom'[t].begin, rom'[t].end)
                               = romFiles[j].content
      BY <1>4 DEF ContentIsRight
    <2>1. CASE t = s
      <3>1. rom'[s].begin = b + l /\ rom'[s].end = e
        BY <1>7
      <3>2. readSoFar'[s] \o Chars(rom'[s].begin, rom'[s].end) = romFiles[k].content
        BY ONLY <1>7, <1>11, <3>1, Zenon
      <3>3. /\ romFiles[k].name = askedName[t]
            /\ readSoFar'[t] \o Chars(rom'[t].begin, rom'[t].end) = romFiles[k].content
        BY ONLY <1>10, <2>1, <3>2, Zenon
      <3> QED BY ONLY <3>3, Zenon
    <2>2. CASE t # s
      <3>1. rom'[t] = rom[t] /\ readSoFar'[t] = readSoFar[t]
        BY <1>7, <2>2
      <3>2. \E j \in 1..FilesNb :
              /\ romFiles[j].name = askedName[t]
              /\ readSoFar[t] \o Chars(rom[t].begin, rom[t].end) = romFiles[j].content
        BY DEF FilesInv, FilesAreExact, ContentIsRight
      <3> QED BY ONLY <3>1, <3>2, Zenon
    <2> QED BY <2>1, <2>2
  <1>13. OneOwner'
    BY <1>0, <1>4 DEF OneOwner
  <1>14. Available(s) \in Nat
    BY <1>1, <1>2
  <1>15. ASSUME Available(s) = 0
         PROVE  romFiles[k].name = askedName'[s] /\ readSoFar'[s] = romFiles[k].content
    <2>1. Chars(b, e) = << >> /\ Chars(b, b + l) = << >>
      BY <1>3, <1>5, <1>15
    <2> QED BY <1>4, <1>7, <1>10, <2>1
  <1> QED BY <1>8, <1>9, <1>12, <1>13, <1>14, <1>15

--------------------------------------------------------------------------------
(* Each action keeps the invariant. *)

\* A call which is not an open nor a read answers nothing AnswerIsRight is about.
LEMMA Quiet ==
  ASSUME last'.op # "open", last'.op # "read"
  PROVE  AnswerIsRight'
  BY DEF AnswerIsRight

LEMMA FailsQuietly ==
  ASSUME NEW errno, Fails(errno)
  PROVE  AnswerIsRight'
  <1>1. last'.op = "failed"
    BY DEF Fails, Done
  <1> QED BY <1>1, Quiet

\* A call that changes no stream keeps the invariant, if its answer is right.
LEMMA Still ==
  ASSUME FilesInv, NoOpen, UNCHANGED <<streams, held, search, romVars>>,
         enabled_' \in BOOLEAN, root_' \in BOOLEAN, registered' \in BOOLEAN,
         BoundIsRoot', AnswerIsRight'
  PROVE  FilesInv'
  <1>1. RomIsInside' /\ OneOwner' /\ ContentIsRight'
    BY NothingChanged
  <1>2. FilesTypes'
    BY DEF FilesInv, FilesTypes, romVars
  <1>3. SearchIsRight'
    BY DEF SearchIsRight, NoOpen
  <1> QED BY <1>1, <1>2, <1>3 DEF FilesInv, FilesAreExact

LEMMA SilentCall ==
  ASSUME FilesInv, NoOpen, AnswerIsRight',
         UNCHANGED <<enabled_, root_, registered, streams, held, search, romVars>>
  PROVE  FilesInv'
  <1>1. BoundIsRoot'
    BY DEF FilesInv, FilesAreExact, BoundIsRoot
  <1>2. enabled_' \in BOOLEAN /\ root_' \in BOOLEAN /\ registered' \in BOOLEAN
    BY DEF FilesInv, FilesTypes
  <1> QED BY <1>1, <1>2, Still

LEMMA EnableKeeps ==
  ASSUME FilesInv, NEW root \in BOOLEAN, fs_enable(root)
  PROVE  FilesInv'
  <1>1. registered => enabled_ /\ root_
    BY DEF FilesInv, FilesAreExact, BoundIsRoot
  <1>2. enabled_' = TRUE /\ root_' = root
        /\ registered' = (root \/ (registered /\ ~(enabled_ /\ root_)))
    BY DEF fs_enable
  <1>3. BoundIsRoot'
    BY <1>1, <1>2, Zenon DEF BoundIsRoot
  <1>4. last'.op = "none"
    BY DEF fs_enable, NoResult
  <1>5. enabled_' \in BOOLEAN /\ root_' \in BOOLEAN /\ registered' \in BOOLEAN
    BY <1>2
  <1>6. AnswerIsRight'
    BY <1>4, Quiet
  <1> QED BY <1>3, <1>5, <1>6, Still DEF fs_enable

LEMMA DisableKeeps ==
  ASSUME FilesInv, fs_disable
  PROVE  FilesInv'
  <1>1. registered => enabled_ /\ root_
    BY DEF FilesInv, FilesAreExact, BoundIsRoot
  <1>2. enabled_' = FALSE /\ root_' = FALSE
        /\ registered' = (registered /\ ~(enabled_ /\ root_))
    BY DEF fs_disable
  <1>3. BoundIsRoot'
    BY <1>1, <1>2, Zenon DEF BoundIsRoot
  <1>4. last'.op = "none"
    BY DEF fs_disable, NoResult
  <1>5. enabled_' \in BOOLEAN /\ root_' \in BOOLEAN /\ registered' \in BOOLEAN
    BY <1>2
  <1>6. AnswerIsRight'
    BY <1>4, Quiet
  <1> QED BY <1>3, <1>5, <1>6, Still DEF fs_disable

\* A search begins with all files.
LEMMA SearchBegins ==
  ASSUME FilesInv, NEW name \in Strings, NEW to \in 0..StreamsNb, Search(name, to),
         to # Direct => streams[to] = NoStream,
         UNCHANGED <<enabled_, root_, registered, streams, held, romVars>>
  PROVE  FilesInv'
  <1>1. RomIsInside' /\ OneOwner' /\ ContentIsRight'
    BY NothingChanged
  <1>2. search' = [to |-> to, name |-> name, begin |-> 0, end |-> FilesNb] /\ last'.op = "none"
    BY DEF Search, NoResult
  <1>3. FilesNb \in Nat /\ StreamsNb \in Nat
    BY Bounds
  <1>4. FilesTypes'
    <2>1. search' \in [to : -1..StreamsNb, name : Strings, begin : Nat, end : Nat]
      BY <1>2, <1>3
    <2> QED BY <2>1 DEF FilesInv, FilesTypes, romVars
  <1>5. SearchIsRight'
    <2>1. /\ search'.to = to /\ search'.begin = 0 /\ search'.end = FilesNb
          /\ search'.name = name
      BY <1>2
    <2>2. \A k \in 1..FilesNb : 0 < k /\ k <= FilesNb
      BY <1>3
    <2> QED BY <1>3, <2>1, <2>2 DEF SearchIsRight
  <1>6. AnswerIsRight'
    BY <1>2, Quiet
  <1>7. BoundIsRoot'
    BY DEF FilesInv, FilesAreExact, BoundIsRoot
  <1> QED BY <1>1, <1>4, <1>5, <1>6, <1>7 DEF FilesInv, FilesAreExact

\* The middle of what remains is inside.
LEMMA MiddleIsInside ==
  ASSUME FilesInv, ~NoOpen, search.begin # search.end
  PROVE  /\ Middle \in 0..FilesNb - 1 /\ search.begin <= Middle /\ Middle < search.end
         /\ search.name \in Strings
  <1>1. search.begin \in Nat /\ search.end \in Nat /\ search.name \in Strings
    BY DEF FilesInv, FilesTypes
  <1>2. search.begin <= search.end /\ search.end <= FilesNb
    BY DEF FilesInv, SearchIsRight, NoOpen
  <1>3. \A i, j \in Nat : i < j => /\ i + (j - i) \div 2 \in Nat /\ i <= i + (j - i) \div 2
                                   /\ i + (j - i) \div 2 < j
    OBVIOUS
  <1>4. Middle \in Nat /\ search.begin <= Middle /\ Middle < search.end
    BY <1>1, <1>2, <1>3 DEF Middle
  <1> QED BY <1>1, <1>2, <1>4, Bounds

LEMMA SearchTurnKeeps ==
  ASSUME FilesInv, SearchTurn
  PROVE  FilesInv'
  <1>1. ~NoOpen /\ search.begin # search.end
    BY DEF SearchTurn
  <1>2. Middle \in 0..FilesNb - 1 /\ search.begin <= Middle /\ Middle < search.end
        /\ search.name \in Strings
    BY <1>1, MiddleIsInside
  <1>3. UNCHANGED <<enabled_, root_, registered, streams, held, last, romVars>>
    BY DEF SearchTurn
  <1>4. RomIsInside' /\ OneOwner' /\ ContentIsRight'
    BY <1>3, NothingChanged
  <1>5. AnswerIsRight'
    <2>1. AnswerIsRight
      BY DEF FilesInv, FilesAreExact
    <2> QED BY <1>3, <2>1 DEF AnswerIsRight, TableFull, romVars
  <1>6. BoundIsRoot'
    BY <1>3 DEF FilesInv, FilesAreExact, BoundIsRoot
  <1>7. /\ search \in [to : -1..StreamsNb, name : Strings, begin : Nat, end : Nat]
        /\ search.to \in 0..StreamsNb /\ search.end <= FilesNb
        /\ search.to # Direct => streams[search.to] = NoStream
        /\ \A k \in 1..FilesNb :
            romFiles[k].name = search.name => search.begin < k /\ k <= search.end
    BY <1>1 DEF FilesInv, FilesTypes, SearchIsRight, NoOpen
  <1>8. \A k \in 1..FilesNb : romFiles[k].name = search.name =>
            /\ NameBefore(search.name, NameAt(Middle)) => k <= Middle
            /\ NameBefore(NameAt(Middle), search.name) => Middle + 1 < k
    <2> SUFFICES ASSUME NEW k \in 1..FilesNb, romFiles[k].name = search.name
                 PROVE  /\ NameBefore(search.name, NameAt(Middle)) => k <= Middle
                        /\ NameBefore(NameAt(Middle), search.name) => Middle + 1 < k
      OBVIOUS
    <2> QED BY <1>2, SearchKeeps
  <1>9. FilesTypes' /\ SearchIsRight'
    <2> DEFINE m == Middle
    <2>0. /\ m \in Nat /\ search.begin <= m /\ m < search.end /\ search.begin \in Nat
          /\ search.end \in Nat /\ FilesNb \in Nat
      BY <1>2, <1>7, Bounds
    <2>1. ASSUME NameBefore(search.name, NameAt(m)), search' = [search EXCEPT !.end = m]
          PROVE  FilesTypes' /\ SearchIsRight'
      <3>1. \A k \in 1..FilesNb : romFiles[k].name = search.name => k <= m
        BY <1>8, <2>1
      <3> HIDE DEF m
      <3>2. /\ search' \in [to : -1..StreamsNb, name : Strings, begin : Nat, end : Nat]
            /\ search'.to = search.to /\ search'.name = search.name
            /\ search'.begin = search.begin /\ search'.end = m
        BY <1>7, <2>0, <2>1
      <3>3. FilesTypes'
        BY <1>3, <3>2 DEF FilesInv, FilesTypes, romVars
      <3>4. SearchIsRight'
        BY <1>3, <1>7, <2>0, <3>1, <3>2 DEF SearchIsRight
      <3> QED BY <3>3, <3>4
    <2>2. ASSUME NameBefore(NameAt(m), search.name), search' = [search EXCEPT !.begin = m + 1]
          PROVE  FilesTypes' /\ SearchIsRight'
      <3>1. \A k \in 1..FilesNb : romFiles[k].name = search.name => m + 1 < k
        BY <1>8, <2>2
      <3> HIDE DEF m
      <3>2. /\ search' \in [to : -1..StreamsNb, name : Strings, begin : Nat, end : Nat]
            /\ search'.to = search.to /\ search'.name = search.name
            /\ search'.begin = m + 1 /\ search'.end = search.end
        BY <1>7, <2>0, <2>2
      <3>3. FilesTypes'
        BY <1>3, <3>2 DEF FilesInv, FilesTypes, romVars
      <3>4. SearchIsRight'
        BY <1>3, <1>7, <2>0, <3>1, <3>2 DEF SearchIsRight
      <3> QED BY <3>3, <3>4
    <2> QED BY <2>1, <2>2 DEF SearchTurn
  <1> QED BY <1>4, <1>5, <1>6, <1>9 DEF FilesInv, FilesAreExact

\* A file found is opened: its stream goes to who asked, with the content of the name.
LEMMA OpenedKeeps ==
  ASSUME FilesInv, ~NoOpen, search.begin # search.end,
         ~NameBefore(search.name, NameAt(Middle)), ~NameBefore(NameAt(Middle), search.name),
         NEW s \in free, Opened(s), search' = Idle, UNCHANGED <<enabled_, root_, registered>>
  PROVE  FilesInv'
  <1>1. Middle \in 0..FilesNb - 1 /\ search.name \in Strings
    BY MiddleIsInside
  <1>2. /\ Middle + 1 \in 1..FilesNb /\ Middle \in Nat /\ FilesNb \in Nat
        /\ FilesNb + Middle \in 0..2 * FilesNb /\ FilesNb + Middle + 1 \in 0..2 * FilesNb
    BY <1>1, Bounds
  <1> DEFINE b == romIndex[FilesNb + Middle]
             e == romIndex[FilesNb + Middle + 1]
             k == Middle + 1
             name == search.name
             to == search.to
  <1>3. name = romFiles[k].name /\ Chars(b, e) = romFiles[k].content /\ b <= e
    <2>1. NameAt(Middle) = romFiles[k].name /\ Chars(b, e) = romFiles[k].content /\ b <= e
      BY <1>1, ImageIsRight
    <2>2. NameAt(Middle) \in Strings
      BY <1>2, <2>1, Bounds
    <2>3. search.name = NameAt(Middle)
      BY <1>1, <2>2, NoneBefore
    <2> QED BY ONLY <2>1, <2>3, Zenon
  <1>4. b \in 0..Len(romData) /\ e \in 0..Len(romData) /\ Len(romData) \in Nat
    BY <1>2, Bounds
  <1>5. FilesTypes /\ OneOwner /\ s \in RomStorages /\ s # NoStream
    BY Bounds DEF FilesInv, FilesAreExact, FilesTypes
  <1>6. /\ free' = free \ {s}
        /\ rom' = [rom EXCEPT ![s] = [begin |-> b, end |-> e]]
        /\ askedName' = [askedName EXCEPT ![s] = name]
        /\ readSoFar' = [readSoFar EXCEPT ![s] = << >>]
        /\ \/ to = Direct /\ held' = held \cup {s} /\ UNCHANGED streams
           \/ to # Direct /\ streams' = [streams EXCEPT ![to] = s] /\ UNCHANGED held
    BY DEF Opened
  <1>7. last'.op = "open" /\ last'.name = name /\ last'.stream = s /\ last'.errno = "none"
    BY DEF Opened, Done
  <1>8. to \in 0..StreamsNb /\ (to # Direct => to \in Descriptors /\ streams[to] = NoStream)
    <2>1. to \in 0..StreamsNb /\ (to # Direct => streams[to] = NoStream)
      BY DEF FilesInv, SearchIsRight, NoOpen
    <2> QED BY <2>1, Bounds DEF Direct
  <1> HIDE DEF b, e, k, name, to
  <1>9. /\ rom'[s] = [begin |-> b, end |-> e] /\ askedName'[s] = name /\ readSoFar'[s] = << >>
        /\ \A t \in RomStorages \ {s} : /\ rom'[t] = rom[t] /\ askedName'[t] = askedName[t]
                                        /\ readSoFar'[t] = readSoFar[t]
    BY <1>5, <1>6 DEF FilesTypes
  <1>10. FilesTypes'
    <2>1. << >> \in Strings /\ name \in Strings
      BY <1>1 DEF Strings, name
    <2>2. /\ rom' \in [RomStorages -> [begin : Nat, end : Nat]]
          /\ askedName' \in [RomStorages -> Strings] /\ readSoFar' \in [RomStorages -> Strings]
      BY <1>4, <1>5, <1>6, <2>1 DEF FilesTypes
    <2>3. streams' \in [Descriptors -> Streams] /\ held' \subseteq RomStorages
          /\ free' \subseteq RomStorages
      BY <1>5, <1>6, <1>8 DEF FilesTypes, Streams
    <2>4. search' \in [to : -1..StreamsNb, name : Strings, begin : Nat, end : Nat]
      BY <2>1, Bounds DEF Idle
    <2>5. enabled_' \in BOOLEAN /\ root_' \in BOOLEAN /\ registered' \in BOOLEAN
      BY <1>5 DEF FilesTypes
    <2> QED BY <2>2, <2>3, <2>4, <2>5 DEF FilesTypes
  <1>11. RomIsInside'
    <2> SUFFICES ASSUME NEW t \in RomStorages
                 PROVE  rom'[t].begin <= rom'[t].end /\ rom'[t].end <= Len(romData)
      BY DEF RomIsInside
    <2>1. CASE t = s
      BY <1>3, <1>4, <1>9, <2>1
    <2>2. CASE t # s
      BY <1>9, <2>2 DEF FilesInv, RomIsInside
    <2> QED BY <2>1, <2>2
  <1>12. ContentIsRight'
    <2> SUFFICES ASSUME NEW t \in RomStorages \ free'
                 PROVE  \E j \in 1..FilesNb :
                          /\ romFiles[j].name = askedName'[t]
                          /\ readSoFar'[t] \o Chars(rom'[t].begin, rom'[t].end)
                               = romFiles[j].content
      BY DEF ContentIsRight
    <2>1. CASE t = s
      <3>1. rom'[s].begin = b /\ rom'[s].end = e
        BY <1>9
      <3>2. \A y \in Seq(Nat) : << >> \o y = y
        BY ConcatEmptySeq
      <3>3. romFiles[k].content \in Seq(Nat)
        BY <1>2, Bounds DEF Strings, k
      <3>4. readSoFar'[s] \o Chars(rom'[s].begin, rom'[s].end) = romFiles[k].content
        BY ONLY <1>3, <1>9, <3>1, <3>2, <3>3, Zenon
      <3>5. k \in 1..FilesNb
        BY <1>2 DEF k
      <3>6. /\ romFiles[k].name = askedName'[t]
            /\ readSoFar'[t] \o Chars(rom'[t].begin, rom'[t].end) = romFiles[k].content
        BY ONLY <1>3, <1>9, <2>1, <3>4, Zenon
      <3> QED BY ONLY <3>5, <3>6, Zenon
    <2>2. CASE t # s
      <3>1. t \in RomStorages \ free
        BY <1>6, <2>2
      <3>2. rom'[t] = rom[t] /\ readSoFar'[t] = readSoFar[t] /\ askedName'[t] = askedName[t]
        BY <1>9, <2>2
      <3>3. \E j \in 1..FilesNb :
              /\ romFiles[j].name = askedName[t]
              /\ readSoFar[t] \o Chars(rom[t].begin, rom[t].end) = romFiles[j].content
        BY <3>1 DEF FilesInv, FilesAreExact, ContentIsRight
      <3> QED BY ONLY <3>2, <3>3, Zenon
    <2> QED BY <2>1, <2>2
  <1>13. OneOwner'
    <2>0. s \notin held /\ \A d \in Descriptors : streams[d] # s
      BY <1>5 DEF OneOwner
    <2>1. CASE to = Direct /\ held' = held \cup {s} /\ UNCHANGED streams
      BY <1>5, <1>6, <2>0, <2>1 DEF OneOwner
    <2>2. CASE to # Direct /\ streams' = [streams EXCEPT ![to] = s] /\ UNCHANGED held
      <3>1. streams'[to] = s /\ \A d \in Descriptors \ {to} : streams'[d] = streams[d]
        BY <1>5, <1>8, <2>2 DEF FilesTypes
      <3>2. streams[to] = NoStream /\ NoStream \notin RomStorages /\ to \in Descriptors
        BY <1>8, <2>2, Bounds
      <3>3. RomStorages \subseteq free' \cup held' \cup {streams'[d] : d \in Descriptors}
        <4> SUFFICES ASSUME NEW t \in RomStorages, t \notin free', t \notin held
                     PROVE  \E d \in Descriptors : streams'[d] = t
          BY <2>2
        <4>1. CASE t = s
          BY <3>1, <3>2, <4>1
        <4>2. CASE t # s
          <5>1. PICK d \in Descriptors : streams[d] = t
            BY <1>5, <1>6, <4>2 DEF OneOwner
          <5>2. d # to
            BY <3>2, <5>1
          <5> QED BY <3>1, <5>1, <5>2
        <4> QED BY <4>1, <4>2
      <3>4. free' \cap held' = {}
        BY <1>5, <1>6, <2>2 DEF OneOwner
      <3>5. \A d, f \in Descriptors :
              streams'[d] \in RomStorages =>
                streams'[d] \notin free' \cup held' /\ (streams'[f] = streams'[d] => f = d)
        <4> TAKE d, f \in Descriptors
        <4> HAVE streams'[d] \in RomStorages
        <4>1. CASE d = to
          BY <1>6, <2>0, <2>2, <3>1, <4>1
        <4>2. CASE d # to
          <5>1. streams'[d] = streams[d]
            BY <3>1, <4>2
          <5>2. streams[d] \notin free \cup held /\ (streams[f] = streams[d] => f = d)
            BY <1>5, <5>1 DEF OneOwner
          <5>3. streams'[f] = streams'[d] => f # to
            BY <2>0, <3>1, <5>1
          <5> QED BY <1>6, <2>2, <3>1, <5>1, <5>2, <5>3
        <4> QED BY <4>1, <4>2
      <3> QED BY <3>3, <3>4, <3>5 DEF OneOwner
    <2> QED BY <1>6, <2>1, <2>2
  <1>14. AnswerIsRight'
    BY <1>7, <1>9 DEF AnswerIsRight
  <1>15. BoundIsRoot'
    BY DEF FilesInv, FilesAreExact, BoundIsRoot
  <1>16. SearchIsRight'
    BY DEF SearchIsRight
  <1> QED BY <1>10, <1>11, <1>12, <1>13, <1>14, <1>15, <1>16 DEF FilesInv, FilesAreExact

\* An open that fails at its end.
LEMMA OpenFailsKeeps ==
  ASSUME FilesInv, search' = Idle, NEW errno, OpenFails(errno), AnswerIsRight',
         UNCHANGED <<enabled_, root_, registered>>
  PROVE  FilesInv'
  <1>0. UNCHANGED <<streams, held, romVars>>
    BY DEF OpenFails
  <1>1. RomIsInside' /\ OneOwner' /\ ContentIsRight'
    BY <1>0, NothingChanged
  <1>2. FilesTypes'
    <2>1. << >> \in Strings
      BY DEF Strings
    <2>2. search' \in [to : -1..StreamsNb, name : Strings, begin : Nat, end : Nat]
      BY <2>1, Bounds DEF Idle
    <2> QED BY <1>0, <2>2 DEF FilesInv, FilesTypes, romVars
  <1>3. SearchIsRight'
    BY DEF SearchIsRight
  <1>4. BoundIsRoot'
    BY DEF FilesInv, FilesAreExact, BoundIsRoot
  <1> QED BY <1>1, <1>2, <1>3, <1>4 DEF FilesInv, FilesAreExact

LEMMA FoundKeeps ==
  ASSUME FilesInv, Found
  PROVE  FilesInv'
  <1>1. CASE \E s \in free : Opened(s)
    BY <1>1, OpenedKeeps DEF Found
  <1>2. CASE free = {} /\ OpenFails("ENFILE")
    <2>1. last'.op = "open" /\ last'.errno = "ENFILE" /\ last'.stream = NoStream /\ free' = free
      BY <1>2 DEF OpenFails, Done, romVars
    <2>2. AnswerIsRight'
      BY <1>2, <2>1 DEF AnswerIsRight
    <2> QED BY <1>2, <2>2, OpenFailsKeeps DEF Found
  <1> QED BY <1>1, <1>2 DEF Found

LEMMA NotFoundKeeps ==
  ASSUME FilesInv, NotFound
  PROVE  FilesInv'
  <1>1. \A k \in 1..FilesNb : romFiles[k].name # search.name
    <2>1. search # Idle /\ search.begin = search.end
      BY DEF NotFound, NoOpen
    <2>2. search.begin \in Nat /\ FilesNb \in Nat
      BY Bounds DEF FilesInv, FilesTypes
    <2> QED BY <2>1, <2>2 DEF FilesInv, SearchIsRight
  <1>2. /\ last'.op = "open" /\ last'.errno = "ENOENT" /\ last'.stream = NoStream
        /\ last'.name = search.name
    BY DEF NotFound, OpenFails, Done
  <1>3. AnswerIsRight'
    BY <1>1, <1>2 DEF AnswerIsRight
  <1> QED BY <1>3, OpenFailsKeeps DEF NotFound

LEMMA OpenDirectKeeps ==
  ASSUME FilesInv, NEW name \in FileNames, OpenDirect(name)
  PROVE  FilesInv'
  <1>1. name \in Strings /\ Direct \in 0..StreamsNb
    BY FilesBounds DEF Direct
  <1>2. CASE Search(name, Direct)
    BY <1>1, <1>2, SearchBegins DEF OpenDirect
  <1>3. CASE Fails("EROFS") /\ UNCHANGED search
    BY <1>3, FailsQuietly, SilentCall DEF OpenDirect
  <1> QED BY <1>2, <1>3 DEF OpenDirect

LEMMA OpenCallKeeps ==
  ASSUME FilesInv, NEW name \in FileNames, NEW flags, open_r(name, flags)
  PROVE  FilesInv'
  <1>0. UNCHANGED <<enabled_, root_, registered, streams, held, romVars>> /\ NoOpen
    BY DEF open_r
  <1>1. CASE UNCHANGED search /\ \E errno \in {"ENOSYS", "EROFS"} : Fails(errno)
    <2>1. AnswerIsRight'
      BY <1>1, FailsQuietly
    <2> QED BY <1>0, <1>1, <2>1, SilentCall
  <1>2. CASE TableFull /\ Done("open", name, NoStream, -1, "ENFILE") /\ UNCHANGED search
    <2>1. last'.op = "open" /\ last'.errno = "ENFILE" /\ last'.stream = NoStream
      BY <1>2 DEF Done
    <2>2. TableFull'
      BY <1>0, <1>2 DEF TableFull
    <2>3. AnswerIsRight'
      BY <2>1, <2>2 DEF AnswerIsRight
    <2> QED BY <1>0, <1>2, <2>3, SilentCall
  <1>3. CASE ~TableFull /\ Search(name, FirstFree)
    <2>1. FirstFree \in Descriptors /\ streams[FirstFree] = NoStream
      BY <1>3, FreeDescriptor DEF FilesInv
    <2>2. FirstFree \in 0..StreamsNb /\ name \in Strings
      <3>1. Descriptors \subseteq 0..StreamsNb
        BY Bounds
      <3> QED BY <2>1, <3>1, FilesBounds
    <2> HIDE DEF FirstFree
    <2> QED BY <1>0, <1>3, <2>1, <2>2, SearchBegins
  <1> QED BY <1>1, <1>2, <1>3 DEF open_r

\* A stream is closed: everything about a close but its descriptor.
LEMMA CloseKeeps ==
  ASSUME FilesInv, NoOpen, NEW s \in RomStorages, RomClose(s),
         Done("close", << >>, NoStream, 0, "none"),
         UNCHANGED <<enabled_, root_, registered, search>>,
         \/ s \in held /\ held' = held \ {s} /\ UNCHANGED streams
         \/ /\ UNCHANGED held
            /\ \E d \in Descriptors : streams[d] = s /\ streams' = [streams EXCEPT ![d] = NoStream]
  PROVE  FilesInv'
  <1>1. /\ RomIsInside' /\ OneOwner' /\ ContentIsRight'
        /\ streams' \in [Descriptors -> Streams]
        /\ free' \subseteq RomStorages /\ held' \subseteq RomStorages
        /\ rom' \in [RomStorages -> [begin : Nat, end : Nat]]
        /\ askedName' \in [RomStorages -> Strings] /\ readSoFar' \in [RomStorages -> Strings]
    BY Closed
  <1>2. FilesTypes'
    BY <1>1 DEF FilesInv, FilesTypes
  <1>3. SearchIsRight'
    BY DEF SearchIsRight, NoOpen
  <1>4. AnswerIsRight'
    BY Quiet DEF Done
  <1>5. BoundIsRoot'
    BY DEF FilesInv, FilesAreExact, BoundIsRoot
  <1> QED BY <1>1, <1>2, <1>3, <1>4, <1>5 DEF FilesInv, FilesAreExact

LEMMA CloseDirectKeeps ==
  ASSUME FilesInv, NEW s \in RomStorages, CloseDirect(s)
  PROVE  FilesInv'
  BY CloseKeeps DEF CloseDirect

LEMMA CloseCallKeeps ==
  ASSUME FilesInv, NEW d \in 0..StreamsNb, close_r(d)
  PROVE  FilesInv'
  <1>1. CASE registered /\ IsOpen(d)
    <2>1. d \in Descriptors /\ streams[d] \in RomStorages
      <3>1. d \in Descriptors /\ streams[d] # NoStream /\ streams[d] # Console
        BY <1>1 DEF close_r, IsOpen
      <3> QED BY <3>1 DEF FilesInv, FilesTypes, Streams
    <2> QED BY <1>1, <2>1, CloseKeeps DEF close_r
  <1>2. CASE ~(registered /\ IsOpen(d))
    <2>1. Fails("EBADF") /\ UNCHANGED <<streams, romVars>>
      BY <1>2, Zenon DEF close_r
    <2>2. AnswerIsRight'
      BY <2>1, FailsQuietly
    <2> QED BY <2>1, <2>2, SilentCall DEF close_r
  <1> QED BY <1>1, <1>2

\* A read of a stream, whoever calls: it returns nothing when nothing is left only.
LEMMA ReadKeeps ==
  ASSUME FilesInv, NoOpen, NEW s \in RomStorages \ free, NEW count \in Nat \ {0},
         RomRead(s, count), UNCHANGED <<enabled_, root_, registered, streams, held, search>>,
         \/ last'.op = "failed"
         \/ /\ last'.op = "read" /\ last'.stream = s
            /\ last'.ret <= 0 => Available(s) = 0
  PROVE  FilesInv'
  <1>1. /\ RomIsInside' /\ OneOwner' /\ ContentIsRight'
        /\ rom' \in [RomStorages -> [begin : Nat, end : Nat]]
        /\ readSoFar' \in [RomStorages -> Strings]
        /\ Available(s) = 0 => \E k \in 1..FilesNb : /\ romFiles[k].name = askedName'[s]
                                                     /\ readSoFar'[s] = romFiles[k].content
    BY Read
  <1>2. FilesTypes'
    BY <1>1 DEF FilesInv, FilesTypes, RomRead
  <1>3. SearchIsRight'
    BY DEF SearchIsRight, NoOpen
  <1>4. AnswerIsRight'
    <2>1. CASE last'.op = "failed"
      BY <2>1, Quiet
    <2>2. CASE last'.op = "read" /\ last'.stream = s /\ (last'.ret <= 0 => Available(s) = 0)
      BY <1>1, <2>2 DEF AnswerIsRight
    <2> QED BY <2>1, <2>2
  <1>5. BoundIsRoot'
    BY DEF FilesInv, FilesAreExact, BoundIsRoot
  <1> QED BY <1>1, <1>2, <1>3, <1>4, <1>5 DEF FilesInv, FilesAreExact

\* What is left of an open stream, and how much of it a read gives.
LEMMA WhatIsLeft ==
  ASSUME FilesInv, NEW s \in RomStorages, NEW count \in ReadCounts
  PROVE  /\ count \in Nat \ {0} /\ Available(s) \in Nat
         /\ Available(s) # 0 => Least(count, Available(s)) > 0
  <1>1. count \in Nat \ {0}
    BY FilesBounds
  <1>2. Available(s) \in Nat
    BY DEF FilesInv, FilesTypes, RomIsInside, Available
  <1> QED BY <1>1, <1>2 DEF Least

LEMMA ReadDirectKeeps ==
  ASSUME FilesInv, NEW s \in RomStorages, NEW count \in ReadCounts, ReadDirect(s, count)
  PROVE  FilesInv'
  <1>1. s \in RomStorages \ free
    BY DEF ReadDirect, FilesInv, FilesAreExact, OneOwner
  <1>2. /\ count \in Nat \ {0} /\ Available(s) \in Nat
        /\ Available(s) # 0 => Least(count, Available(s)) > 0
    BY WhatIsLeft
  <1>3. last'.op = "read" /\ last'.stream = s
        /\ last'.ret = IF Available(s) = 0 THEN -2 ELSE Least(count, Available(s))
    BY DEF ReadDirect, Done
  <1>4. last'.ret <= 0 => Available(s) = 0
    <2> SUFFICES ASSUME Available(s) # 0 PROVE ~(last'.ret <= 0)
      OBVIOUS
    <2>1. last'.ret = Least(count, Available(s)) /\ Least(count, Available(s)) \in Nat
      BY <1>2, <1>3 DEF Least
    <2> QED BY <1>2, <2>1
  <1> QED BY <1>1, <1>2, <1>3, <1>4, ReadKeeps DEF ReadDirect

LEMMA ReadCallKeeps ==
  ASSUME FilesInv, NEW d \in 0..StreamsNb, NEW count \in ReadCounts, read_r(d, count)
  PROVE  FilesInv'
  <1>0. UNCHANGED <<enabled_, root_, registered, streams, held, search>> /\ NoOpen
    BY DEF read_r
  <1>1. CASE Fails("EBADF") /\ UNCHANGED romVars
    BY <1>0, <1>1, FailsQuietly, SilentCall
  <1>2. CASE (\E r \in -2..count : ReadDone(Console, r)) /\ UNCHANGED romVars
    <2>1. last'.op = "failed" \/ (last'.op = "read" /\ last'.stream = Console)
      BY <1>2 DEF ReadDone, Fails, Done
    <2>2. AnswerIsRight'
      BY <2>1, Bounds DEF AnswerIsRight
    <2> QED BY <1>0, <1>2, <2>2, SilentCall
  <1>3. CASE IsOpen(d) /\ streams[d] # Console
    <2> DEFINE s == streams[d]
               a == Available(s)
    <2>1. s \in RomStorages \ free
      <3>1. d \in Descriptors /\ s # NoStream /\ s # Console
        BY <1>3 DEF IsOpen
      <3>2. s \in RomStorages
        BY <3>1 DEF FilesInv, FilesTypes, Streams
      <3> QED BY <3>1, <3>2 DEF FilesInv, FilesAreExact, OneOwner
    <2>2. count \in Nat \ {0} /\ a \in Nat /\ (a # 0 => Least(count, a) > 0)
      BY <2>1, WhatIsLeft
    <2>3. RomRead(s, count) /\ ReadDone(s, IF a = 0 THEN -2 ELSE Least(count, a))
      BY <1>3 DEF read_r
    <2> HIDE DEF s, a
    <2>4. last'.op = "failed"
          \/ (last'.op = "read" /\ last'.stream = s /\ (last'.ret <= 0 => a = 0))
      <3>1. CASE a = 0
        BY <2>3, <3>1 DEF ReadDone, Fails, Done
      <3>2. CASE a # 0
        <4>1. Least(count, a) \in Nat /\ Least(count, a) > 0
          BY <2>2, <3>2 DEF Least
        <4>2. ReadDone(s, Least(count, a))
          BY <2>3, <3>2
        <4>3. PICK r \in Nat : r = Least(count, a)
          BY <4>1
        <4>4. r > 0 /\ ReadDone(s, r)
          BY ONLY <4>1, <4>2, <4>3, Zenon
        <4>5. Done("read", << >>, s, r, "none")
          BY <4>4 DEF ReadDone
        <4> QED BY <4>4, <4>5 DEF Done
      <3> QED BY <3>1, <3>2
    <2> QED BY <1>0, <2>1, <2>2, <2>3, <2>4, ReadKeeps DEF a
  <1> QED BY <1>1, <1>2, <1>3 DEF read_r

LEMMA WriteCallKeeps ==
  ASSUME FilesInv, NEW d \in 0..StreamsNb, NEW count \in ReadCounts, write_r(d, count)
  PROVE  FilesInv'
  <1>1. last'.op = "failed" \/ last'.op = "write"
    BY DEF write_r, Written, Fails, Done
  <1>2. AnswerIsRight'
    BY <1>1, Quiet
  <1> QED BY <1>2, SilentCall DEF write_r

LEMMA OthersKeep ==
  ASSUME FilesInv,
         \/ \E s \in RomStorages : PollDirect(s)
         \/ \E d \in 0..StreamsNb : fstat_r(d) \/ isatty_r(d)
         \/ unlink_r \/ Unimplemented
  PROVE  FilesInv'
  <1>1. last'.op \in {"failed", "poll", "fstat", "isatty", "unlink"}
    BY DEF PollDirect, fstat_r, isatty_r, unlink_r, Unimplemented, Fails, Done
  <1>2. UNCHANGED <<enabled_, root_, registered, streams, held, search, romVars>> /\ NoOpen
    BY DEF PollDirect, fstat_r, isatty_r, unlink_r, Unimplemented
  <1> QED BY <1>1, <1>2, Quiet, SilentCall

--------------------------------------------------------------------------------
(* The theorems. *)

LEMMA FilesInitially ==
  ASSUME FilesInit
  PROVE  FilesInv
  <1>1. FilesTypes
    <2>1. << >> \in Strings /\ 0 \in Nat
      BY DEF Strings
    <2>2. streams \in [Descriptors -> Streams]
      BY DEF FilesInit, Streams
    <2>3. /\ rom \in [RomStorages -> [begin : Nat, end : Nat]]
          /\ askedName \in [RomStorages -> Strings] /\ readSoFar \in [RomStorages -> Strings]
      BY <2>1 DEF FilesInit, NoRom
    <2>4. search \in [to : -1..StreamsNb, name : Strings, begin : Nat, end : Nat]
      BY <2>1, Bounds DEF FilesInit, Idle
    <2>5. /\ enabled_ \in BOOLEAN /\ root_ \in BOOLEAN /\ registered \in BOOLEAN
          /\ free \subseteq RomStorages /\ held \subseteq RomStorages
      BY DEF FilesInit
    <2> QED BY <2>2, <2>3, <2>4, <2>5 DEF FilesTypes
  <1>2. RomIsInside
    BY Bounds DEF FilesInit, RomIsInside, NoRom
  <1>3. SearchIsRight
    BY DEF FilesInit, SearchIsRight
  <1>4. OneOwner
    BY Bounds DEF FilesInit, OneOwner
  <1>5. ContentIsRight /\ AnswerIsRight /\ BoundIsRoot
    BY DEF FilesInit, ContentIsRight, AnswerIsRight, NoResult, BoundIsRoot
  <1> QED BY <1>1, <1>2, <1>3, <1>4, <1>5 DEF FilesInv, FilesAreExact

\* The inductive invariant: what is read and what is left of each open stream is the
\* file asked for, and the file searched is in what remains (romfs.cc:86-134).
THEOREM FilesInvariant == FilesSpec => []FilesInv
  <1>1. FilesInit => FilesInv
    BY FilesInitially
  <1>2. ASSUME FilesInv, [FilesNext]_filesVars PROVE FilesInv'
    <2>1. CASE \E root \in BOOLEAN : fs_enable(root)
      BY <1>2, <2>1, EnableKeeps
    <2>2. CASE fs_disable
      BY <1>2, <2>2, DisableKeeps
    <2>3. CASE SearchTurn \/ Found \/ NotFound
      BY <1>2, <2>3, SearchTurnKeeps, FoundKeeps, NotFoundKeeps
    <2>4. CASE \E name \in FileNames : OpenDirect(name)
                                       \/ \E flags \in {"r", "w", "a"} : open_r(name, flags)
      BY <1>2, <2>4, OpenDirectKeeps, OpenCallKeeps
    <2>5. CASE \E s \in RomStorages : CloseDirect(s)
                                      \/ \E count \in ReadCounts : ReadDirect(s, count)
      BY <1>2, <2>5, CloseDirectKeeps, ReadDirectKeeps
    <2>6. CASE \E d \in 0..StreamsNb : close_r(d) \/ \E count \in ReadCounts :
                                                       read_r(d, count) \/ write_r(d, count)
      BY <1>2, <2>6, CloseCallKeeps, ReadCallKeeps, WriteCallKeeps
    <2>7. CASE \/ \E s \in RomStorages : PollDirect(s)
               \/ \E d \in 0..StreamsNb : fstat_r(d) \/ isatty_r(d)
               \/ unlink_r \/ Unimplemented
      BY <1>2, <2>7, OthersKeep
    <2>8. CASE UNCHANGED filesVars
      <3>1. UNCHANGED <<enabled_, root_, registered, streams, held, search, last, romVars>>
        BY <2>8 DEF filesVars
      <3>2. UNCHANGED <<free, rom, askedName, readSoFar>>
        BY <3>1 DEF romVars
      <3>3. RomIsInside' /\ OneOwner' /\ ContentIsRight'
        BY <1>2, <3>1, NothingChanged
      <3>4. FilesTypes' /\ SearchIsRight'
        BY <1>2, <3>1, <3>2 DEF FilesInv, FilesTypes, SearchIsRight
      <3>5. AnswerIsRight'
        BY <1>2, <3>1, <3>2 DEF FilesInv, FilesAreExact, AnswerIsRight, TableFull
      <3>6. BoundIsRoot'
        BY <1>2, <3>1 DEF FilesInv, FilesAreExact, BoundIsRoot
      <3> QED BY <3>3, <3>4, <3>5, <3>6 DEF FilesInv, FilesAreExact
    <2> QED BY <1>2, <2>1, <2>2, <2>3, <2>4, <2>5, <2>6, <2>7, <2>8, Zenon DEF FilesNext
  <1> QED BY <1>1, <1>2, PTL DEF FilesSpec

\* Files are found by name and by no other, read exactly, and storages have one owner,
\* for every image, table and pool (syscalls.newlib.cc, romfs.cc).
THEOREM FilesHold == FilesSpec => []FilesAreExact
  <1>1. FilesInv => FilesAreExact
    BY DEF FilesInv
  <1> QED BY <1>1, FilesInvariant, PTL

--------------------------------------------------------------------------------
(* Pools of objects. *)

FreeStorages == Storages \ (Live \cup constructing)

PoolTypes ==
    /\ pool \in [Storages -> Storages \cup {nullptr, Object}]
    /\ next_free \in Storages \cup {nullptr}
    /\ constructing \subseteq Storages /\ destroying \subseteq Live
    /\ constructing \cap Live = {}

\* From first on, links lead through each storage of F, once, to nullptr.
Path(links, first, F, n, p) ==
    /\ p \in [1..n -> F]
    /\ \A i, j \in 1..n : p[i] = p[j] => i = j
    /\ \A s \in F : \E i \in 1..n : p[i] = s
    /\ first = IF n = 0 THEN nullptr ELSE p[1]
    /\ \A i \in 1..n : links[p[i]] = IF i = n THEN nullptr ELSE p[i + 1]

IsPath(links, first, F) == \E n \in Nat : \E p : Path(links, first, F, n, p)

PoolInv ==
    /\ PoolTypes
    /\ IsPath(pool, next_free, FreeStorages)
    /\ got.is = nullptr <=> got.free = 0

LEMMA FiniteStorages ==
  /\ PoolSize \in Nat \ {0} /\ IsFiniteSet(Storages) /\ Cardinality(Storages) = PoolSize
  /\ nullptr \notin Storages /\ Object \notin Storages /\ nullptr # Object
<1>1. PoolSize \in Nat \ {0}
  BY PoolBounds
<1>2. QED
  BY <1>1, FS_Interval DEF Storages, nullptr, Object

\* The first one is taken.
LEMMA PathTaken ==
  ASSUME NEW links, NEW first, NEW F, first # nullptr, IsPath(links, first, F)
  PROVE  first \in F /\ IsPath(links, links[first], F \ {first})
<1>0. PICK n \in Nat : \E p : Path(links, first, F, n, p)
  BY DEF IsPath
<1>1. PICK p : Path(links, first, F, n, p)
  BY <1>0
<1>2. n > 0 /\ first = p[1] /\ p[1] \in F
  BY <1>1 DEF Path
<1> DEFINE q == [i \in 1..(n - 1) |-> p[i + 1]]
<1>3. q \in [1..(n - 1) -> F \ {first}]
  BY <1>1, <1>2 DEF Path
<1>4. \A i, j \in 1..(n - 1) : q[i] = q[j] => i = j
  BY <1>1 DEF Path
<1>5. \A s \in F \ {first} : \E i \in 1..(n - 1) : q[i] = s
  <2> TAKE s \in F \ {first}
  <2>1. PICK i \in 1..n : p[i] = s
    BY <1>1 DEF Path
  <2>2. i # 1
    BY <1>2, <2>1
  <2>3. i - 1 \in 1..(n - 1) /\ q[i - 1] = s
    BY <2>1, <2>2
  <2>4. QED
    BY <2>3
<1>6. links[first] = IF n - 1 = 0 THEN nullptr ELSE q[1]
  BY <1>1, <1>2 DEF Path
<1>7. \A i \in 1..(n - 1) : links[q[i]] = IF i = n - 1 THEN nullptr ELSE q[i + 1]
  BY <1>1 DEF Path
<1>8. n - 1 \in Nat
  BY <1>2
<1> HIDE DEF q
<1>9. Path(links, links[first], F \ {first}, n - 1, q)
  BY <1>3, <1>4, <1>5, <1>6, <1>7 DEF Path
<1>10. QED
  BY <1>2, <1>8, <1>9 DEF IsPath

\* One is given back.
LEMMA PathGiven ==
  ASSUME NEW links, NEW others, NEW first, NEW F, NEW s, s \notin F, s # nullptr,
         IsPath(links, first, F), others[s] = first, \A t \in F : others[t] = links[t]
  PROVE  IsPath(others, s, F \cup {s})
<1>0. PICK n \in Nat : \E p : Path(links, first, F, n, p)
  BY DEF IsPath
<1>1. PICK p : Path(links, first, F, n, p)
  BY <1>0
<1> DEFINE q == [i \in 1..(n + 1) |-> IF i = 1 THEN s ELSE p[i - 1]]
<1>2. \A i \in 1..n : p[i] \in F
  BY <1>1 DEF Path
<1>3. q \in [1..(n + 1) -> F \cup {s}]
  BY <1>2
<1>4. \A i, j \in 1..(n + 1) : q[i] = q[j] => i = j
  BY <1>1, <1>2 DEF Path
<1>5. \A t \in F \cup {s} : \E i \in 1..(n + 1) : q[i] = t
  <2> TAKE t \in F \cup {s}
  <2>1. CASE t = s
    BY <2>1
  <2>2. CASE t \in F
    <3>1. PICK i \in 1..n : p[i] = t
      BY <1>1, <2>2 DEF Path
    <3>2. i + 1 \in 1..(n + 1) /\ q[i + 1] = t
      BY <3>1
    <3>3. QED
      BY <3>2
  <2>3. QED
    BY <2>1, <2>2
<1>6. s = IF n + 1 = 0 THEN nullptr ELSE q[1]
  OBVIOUS
<1>7. \A i \in 1..(n + 1) : others[q[i]] = IF i = n + 1 THEN nullptr ELSE q[i + 1]
  <2> TAKE i \in 1..(n + 1)
  <2>1. CASE i = 1
    BY <1>1, <2>1 DEF Path
  <2>2. CASE i # 1
    <3>1. i - 1 \in 1..n /\ q[i] = p[i - 1] /\ others[p[i - 1]] = links[p[i - 1]]
      BY <1>2, <2>2
    <3>2. links[p[i - 1]] = IF i - 1 = n THEN nullptr ELSE p[i]
      BY <1>1, <3>1 DEF Path
    <3>3. i # n + 1 => q[i + 1] = p[i]
      BY <2>2
    <3>4. QED
      BY <3>1, <3>2, <3>3
  <2>3. QED
    BY <2>1, <2>2
<1> HIDE DEF q
<1>8. Path(others, s, F \cup {s}, n + 1, q)
  BY <1>3, <1>4, <1>5, <1>6, <1>7 DEF Path
<1>9. QED
  BY <1>8 DEF IsPath

\* Links of other storages do not matter.
LEMMA PathKept ==
  ASSUME NEW links, NEW others, NEW first, NEW F,
         IsPath(links, first, F), \A t \in F : others[t] = links[t]
  PROVE  IsPath(others, first, F)
<1>0. PICK n \in Nat : \E p : Path(links, first, F, n, p)
  BY DEF IsPath
<1>1. PICK p : Path(links, first, F, n, p)
  BY <1>0
<1>2. \A i \in 1..n : others[p[i]] = links[p[i]]
  BY <1>1 DEF Path
<1>3. Path(others, first, F, n, p)
  BY <1>1, <1>2 DEF Path
<1>4. QED
  BY <1>3 DEF IsPath

\* The list is empty when no storage is free, and not before.
LEMMA EmptyWhenFull ==
  ASSUME PoolTypes, IsPath(pool, next_free, FreeStorages)
  PROVE  next_free = nullptr <=> PoolSize - Cardinality(Live \cup constructing) = 0
<1> DEFINE used == Live \cup constructing
<1>1. used \in SUBSET Storages
  BY DEF PoolTypes, Live
<1>2. used = Storages <=> FreeStorages = {}
  BY <1>1 DEF FreeStorages
<1>3. next_free = nullptr <=> FreeStorages = {}
  <2>0. PICK n \in Nat : \E p : Path(pool, next_free, FreeStorages, n, p)
    BY DEF IsPath
  <2>1. PICK p : Path(pool, next_free, FreeStorages, n, p)
    BY <2>0
  <2>2. n = 0 <=> FreeStorages = {}
    BY <2>1 DEF Path
  <2>3. n # 0 => next_free \in FreeStorages
    BY <2>1 DEF Path
  <2>4. nullptr \notin FreeStorages
    BY FiniteStorages DEF FreeStorages
  <2>5. n = 0 => next_free = nullptr
    BY <2>1 DEF Path
  <2>6. QED
    BY <2>2, <2>3, <2>4, <2>5
<1> HIDE DEF used
<1>4. IsFiniteSet(used) /\ (Cardinality(used) = PoolSize => used = Storages)
  BY <1>1, FiniteStorages, FS_Subset
<1>5. Cardinality(used) \in Nat
  BY <1>4, FS_CardinalityType
<1>6. used = Storages => Cardinality(used) = PoolSize
  BY FiniteStorages
<1>7. PoolSize - Cardinality(used) = 0 <=> Cardinality(used) = PoolSize
  BY <1>5, FiniteStorages
<1>8. QED
  BY <1>2, <1>3, <1>4, <1>6, <1>7 DEF used

LEMMA constructKeeps ==
  ASSUME PoolInv, construct
  PROVE  PoolInv'
<1>1. PoolTypes /\ IsPath(pool, next_free, FreeStorages)
  BY DEF PoolInv
<1>2. UNCHANGED <<pool, destroying, Live>>
  BY DEF construct, Live
<1>3. got'.is = nullptr <=> got'.free = 0
  BY <1>1, EmptyWhenFull DEF construct
<1>4. CASE next_free = nullptr
  <2>1. UNCHANGED <<next_free, constructing>>
    BY <1>4 DEF construct
  <2>2. QED
    BY <1>1, <1>2, <1>3, <2>1 DEF PoolInv, PoolTypes, FreeStorages
<1>5. CASE next_free # nullptr
  <2>1. next_free' = pool[next_free] /\ constructing' = constructing \cup {next_free}
    BY <1>5 DEF construct, Take
  <2>2. /\ next_free \in FreeStorages
        /\ IsPath(pool, pool[next_free], FreeStorages \ {next_free})
    BY <1>1, <1>5, PathTaken
  <2>3. FreeStorages' = FreeStorages \ {next_free}
    BY <1>2, <2>1 DEF FreeStorages
  <2>4. IsPath(pool', next_free', FreeStorages')
    BY <1>2, <2>1, <2>2, <2>3
  <2>5. next_free \in Storages /\ next_free \notin Live
    BY <2>2 DEF FreeStorages
  <2>6. pool[next_free] \in Storages \cup {nullptr}
    BY <1>1, <2>5 DEF PoolTypes, Live
  <2>7. PoolTypes'
    BY <1>1, <1>2, <2>1, <2>5, <2>6 DEF PoolTypes
  <2>8. QED
    BY <1>3, <2>4, <2>7 DEF PoolInv
<1>6. QED
  BY <1>4, <1>5

LEMMA ConstructedKeeps ==
  ASSUME PoolInv, NEW s \in Storages, Constructed(s)
  PROVE  PoolInv'
<1>1. PoolTypes /\ IsPath(pool, next_free, FreeStorages)
  BY DEF PoolInv
<1>2. /\ s \in constructing /\ pool' = [pool EXCEPT ![s] = Object]
      /\ constructing' = constructing \ {s} /\ UNCHANGED <<next_free, destroying, got>>
  BY DEF Constructed
<1>3. Live' = Live \cup {s}
  BY <1>1, <1>2 DEF PoolTypes, Live
<1>4. FreeStorages' = FreeStorages
  BY <1>2, <1>3 DEF FreeStorages
<1>5. \A t \in FreeStorages : pool'[t] = pool[t]
  BY <1>1, <1>2 DEF PoolTypes, FreeStorages
<1>6. IsPath(pool', next_free', FreeStorages')
  BY <1>1, <1>2, <1>4, <1>5, PathKept
<1>7. PoolTypes'
  BY <1>1, <1>2, <1>3 DEF PoolTypes
<1>8. QED
  BY <1>2, <1>6, <1>7 DEF PoolInv

LEMMA destroyKeeps ==
  ASSUME PoolInv, NEW s \in Storages, destroy(s)
  PROVE  PoolInv'
BY DEF PoolInv, PoolTypes, destroy, FreeStorages, Live

LEMMA DestroyedKeeps ==
  ASSUME PoolInv, NEW s \in Storages, Destroyed(s)
  PROVE  PoolInv'
<1>1. PoolTypes /\ IsPath(pool, next_free, FreeStorages)
  BY DEF PoolInv
<1>2. /\ s \in Live /\ pool' = [pool EXCEPT ![s] = next_free] /\ next_free' = s
      /\ destroying' = destroying \ {s} /\ UNCHANGED <<constructing, got>>
  BY <1>1 DEF Destroyed, PoolTypes
<1>3. Live' = Live \ {s}
  BY <1>1, <1>2, FiniteStorages DEF PoolTypes, Live
<1>4. s \notin FreeStorages /\ FreeStorages' = FreeStorages \cup {s}
  BY <1>1, <1>2, <1>3 DEF FreeStorages, PoolTypes
<1>5. pool'[s] = next_free /\ \A t \in FreeStorages : pool'[t] = pool[t]
  BY <1>1, <1>2, <1>4 DEF PoolTypes, FreeStorages
<1>6. s # nullptr
  BY FiniteStorages
<1>7. IsPath(pool', s, FreeStorages \cup {s})
  BY <1>1, <1>4, <1>5, <1>6, PathGiven
<1>8. PoolTypes'
  BY <1>1, <1>2, <1>3 DEF PoolTypes
<1>9. QED
  BY <1>2, <1>4, <1>7, <1>8 DEF PoolInv

\* Storages are linked in order to begin with.
LEMMA PoolInitially == PoolInit => PoolInv
<1> SUFFICES ASSUME PoolInit
             PROVE  PoolInv
  OBVIOUS
<1>1. Live = {}
  BY FiniteStorages DEF PoolInit, Live, Storages, Object, nullptr
<1>2. FreeStorages = 1..PoolSize
  BY <1>1 DEF PoolInit, FreeStorages, Storages
<1>3. PoolTypes
  BY <1>1, FiniteStorages DEF PoolInit, PoolTypes, Storages
<1>4. Path(pool, next_free, FreeStorages, PoolSize, [i \in 1..PoolSize |-> i])
  BY <1>2, FiniteStorages DEF PoolInit, Path, Storages
<1>5. got.is = nullptr <=> got.free = 0
  BY DEF PoolInit
<1>6. QED
  BY <1>3, <1>4, <1>5, FiniteStorages DEF PoolInv, IsPath

\* The links that met follows are the path.
LEMMA MetIsPath ==
  ASSUME NEW n \in Nat, NEW p, Path(pool, next_free, FreeStorages, n, p)
  PROVE  /\ n <= PoolSize
         /\ met = [k \in 0..PoolSize |-> IF k < n THEN p[k + 1] ELSE nullptr]
<1>1. n <= PoolSize
  <2>1. p \in Injection(1..n, Storages)
    BY DEF Path, Injection, IsInjective, FreeStorages
  <2>2. Cardinality(1..n) <= PoolSize
    BY <2>1, FiniteStorages, FS_Injection
  <2>3. Cardinality(1..n) = n
    BY FS_Interval
  <2>4. QED
    BY <2>2, <2>3
<1> DEFINE e == [k \in 0..PoolSize |-> IF k < n THEN p[k + 1] ELSE nullptr]
           Eq(f) == f = [k \in 0..PoolSize |-> IF k = 0 THEN next_free ELSE Link(f[k - 1])]
<1>2. \A k \in 0..PoolSize : e[k] = IF k = 0 THEN next_free ELSE Link(e[k - 1])
  <2> TAKE k \in 0..PoolSize
  <2>1. CASE k = 0
    BY <2>1 DEF Path
  <2>2. CASE k # 0 /\ k <= n
    <3>1. k \in 1..n /\ k - 1 \in 0..PoolSize /\ e[k - 1] = p[k]
      BY <2>2, FiniteStorages
    <3>2. p[k] \in Storages
      BY <3>1 DEF Path, FreeStorages
    <3>3. Link(e[k - 1]) = IF k = n THEN nullptr ELSE p[k + 1]
      BY <3>1, <3>2 DEF Link, Path
    <3>4. QED
      BY <2>2, <3>3
  <2>3. CASE k > n
    <3>1. k - 1 \in 0..PoolSize /\ e[k - 1] = nullptr /\ e[k] = nullptr
      BY <2>3, FiniteStorages
    <3>2. QED
      BY <2>3, <3>1, FiniteStorages DEF Link
  <2>4. QED
    BY <2>1, <2>2, <2>3
<1>3. Eq(e)
  BY <1>2
<1>4. met = CHOOSE f : Eq(f)
  BY DEF met
<1>5. Eq(met)
  <2> HIDE DEF e, Eq
  <2>1. QED
    BY <1>3, <1>4
<1>6. ASSUME NEW k \in 0..PoolSize, met[k] # e[k]
      PROVE  FALSE
  <2> DEFINE T == {i \in 0..PoolSize : met[i] # e[i]}
  <2>1. PICK i \in T : \A j \in T : i <= j
    <3>1. T \subseteq Nat /\ T # {}
      BY <1>6
    <3> HIDE DEF T
    <3>2. QED
      BY <3>1, LeastOf
  <2>2. i # 0 => met[i - 1] = e[i - 1]
    <3>1. i # 0 => i - 1 \in 0..PoolSize /\ i - 1 \notin T
      BY <2>1, FiniteStorages
    <3>2. QED
      BY <3>1
  <2>3. met[i] = IF i = 0 THEN next_free ELSE Link(met[i - 1])
    BY <1>5
  <2> HIDE DEF e
  <2>4. e[i] = IF i = 0 THEN next_free ELSE Link(e[i - 1])
    BY <1>2
  <2>5. QED
    BY <2>2, <2>3, <2>4
<1>7. DOMAIN met = 0..PoolSize /\ met = [k \in 0..PoolSize |-> met[k]]
  BY <1>5
<1>8. met = e
  BY <1>6, <1>7
<1>9. QED
  BY <1>1, <1>8

\* ~Pool counts each free storage, and no other.
LEMMA ListIsExact ==
  ASSUME PoolInv
  PROVE  PoolIsExact
<1>0. PICK n \in Nat : \E p : Path(pool, next_free, FreeStorages, n, p)
  BY DEF PoolInv, IsPath
<1>1. PICK p : Path(pool, next_free, FreeStorages, n, p)
  BY <1>0
<1>2. n <= PoolSize /\ met = [k \in 0..PoolSize |-> IF k < n THEN p[k + 1] ELSE nullptr]
  BY <1>1, MetIsPath
<1>3. met[PoolSize] = nullptr
  BY <1>2, FiniteStorages
<1>4. \A k \in 0..PoolSize : met[k] # nullptr => met[k] \in FreeStorages
  BY <1>1, <1>2 DEF Path
<1>5. \A s \in FreeStorages : \E k \in 0..PoolSize : met[k] = s
  <2> TAKE s \in FreeStorages
  <2>1. PICK i \in 1..n : p[i] = s
    BY <1>1 DEF Path
  <2>2. i - 1 \in 0..PoolSize /\ met[i - 1] = s
    BY <1>2, <2>1, FiniteStorages
  <2>3. QED
    BY <2>2
<1>6. nullptr \notin FreeStorages
  BY FiniteStorages DEF FreeStorages
<1>7. FreeList = FreeStorages
  BY <1>4, <1>5, <1>6 DEF FreeList
<1>8. QED
  BY <1>3, <1>7 DEF PoolIsExact, PoolInv, FreeStorages

\* The free list has each storage no object is in, nor is being made in, and no
\* other, for pools of every size, whatever constructors and destructors do.
THEOREM PoolHolds == PoolSpec => []PoolIsExact
<1>1. PoolInv /\ [PoolNext]_poolVars => PoolInv'
  <2> SUFFICES ASSUME PoolInv, [PoolNext]_poolVars
               PROVE  PoolInv'
    OBVIOUS
  <2>1. CASE UNCHANGED poolVars
    BY <2>1 DEF poolVars, PoolInv, PoolTypes, FreeStorages, Live
  <2>2. QED
    BY <2>1, constructKeeps, ConstructedKeeps, destroyKeeps, DestroyedKeeps DEF PoolNext
<1>2. QED
  BY <1>1, PoolInitially, ListIsExact, PTL DEF PoolSpec

--------------------------------------------------------------------------------
(* Rate limits. *)

Half == Period \div 2

\* How far the timer is after next_, modulo Period.
After == IF timer >= next_ THEN timer - next_ ELSE timer - next_ + Period

RateTypes ==
    /\ timer \in 0..(Period - 1) /\ next_ \in 0..(Period - 1)
    /\ interval \in Intervals
    /\ since \in Nat /\ quiet \in Nat /\ slow \in BOOLEAN

\* Before the interval has passed, next_ is its end; once it has, and unless a call
\* came too late, next_ is no older than the last call.
RateInv ==
    /\ RateTypes
    /\ since < interval => After = Period + since - interval
    /\ ~slow /\ since >= interval /\ quiet < Half => After <= quiet
    /\ RateIsLimited

LEMMA PeriodIsEven ==
  /\ Period \in Nat \ {0} /\ Half \in Nat \ {0} /\ Period = 2 * Half /\ Intervals \subseteq 0..Half
  /\ MaxSince = 2 * Period
BY RateBounds DEF Half, MaxSince

LEMMA Wrapped ==
  ASSUME NEW x \in Int
  PROVE  /\ 0 <= x /\ x < Period => x % Period = x
         /\ Period <= x /\ x < 2 * Period => x % Period = x - Period
         /\ -Period <= x /\ x < 0 => x % Period = x + Period
BY PeriodIsEven

LEMMA DueIsRecent ==
  ASSUME RateTypes
  PROVE  /\ Due <=> After < Half
         /\ After \in 0..(Period - 1)
<1>1. timer - next_ \in Int
  BY PeriodIsEven DEF RateTypes
<1>2. (timer - next_) % Period = After
  BY <1>1, PeriodIsEven, Wrapped DEF RateTypes, After
<1>3. After \in 0..(Period - 1)
  BY PeriodIsEven DEF RateTypes, After
<1>4. Due <=> After < Half
  BY <1>2 DEF Due, Half
<1>5. QED
  BY <1>3, <1>4

\* next_ is set to the end of the interval that begins.
LEMMA IntervalBegins ==
  ASSUME RateTypes, interval' = interval, timer' = timer, next_' = (timer + interval) % Period
  PROVE  /\ next_' \in 0..(Period - 1)
         /\ 0 < interval => After' = Period - interval
         /\ interval = 0 => After' = 0
<1>1. timer \in Int /\ interval \in Int /\ 0 <= timer /\ timer < Period /\ 0 <= interval
      /\ interval <= Half /\ Period = 2 * Half /\ 0 < Half /\ Half \in Int /\ Period \in Int
  BY PeriodIsEven DEF RateTypes
<1>2. next_' = IF timer + interval < Period THEN timer + interval ELSE timer + interval - Period
  BY <1>1, Wrapped
<1>3. QED
  BY <1>1, <1>2 DEF After

LEMMA TimerTicksKeeps ==
  ASSUME RateInv, TimerTicks
  PROVE  RateInv'
<1>1. RateTypes
  BY DEF RateInv
<1>2. timer' = IF timer + 1 < Period THEN timer + 1 ELSE 0
  BY <1>1, Wrapped, PeriodIsEven DEF RateTypes, TimerTicks
<1>3. RateTypes'
  BY <1>1, <1>2, PeriodIsEven DEF RateTypes, TimerTicks
<1>4. After' = IF After + 1 < Period THEN After + 1 ELSE 0
  BY <1>1, <1>2, PeriodIsEven DEF RateTypes, After, TimerTicks
<1>5. since' < interval' => After' = Period + since' - interval'
  BY <1>1, <1>4, PeriodIsEven DEF RateInv, RateTypes, TimerTicks
<1>6. ~slow' /\ since' >= interval' /\ quiet' < Half => After' <= quiet'
  <2>1. quiet' < Half => quiet < Half /\ quiet' = quiet + 1
    BY <1>1, PeriodIsEven DEF RateTypes, TimerTicks, Half
  <2> SUFFICES ASSUME ~slow', since' >= interval', quiet' < Half
               PROVE  After' <= quiet'
    OBVIOUS
  <2>2. CASE since >= interval
    <3>1. After <= quiet /\ quiet < Half /\ quiet' = quiet + 1
      BY <2>1, <2>2 DEF RateInv, TimerTicks
    <3>2. After \in 0..(Period - 1) /\ quiet \in Nat
      BY <1>1, DueIsRecent DEF RateTypes
    <3>3. QED
      BY <1>4, <3>1, <3>2, PeriodIsEven
  <2>3. CASE since < interval
    BY <1>1, <1>4, <2>1, <2>3, PeriodIsEven DEF RateInv, RateTypes, TimerTicks
  <2>4. QED
    BY <1>1, <2>2, <2>3, PeriodIsEven DEF RateTypes
<1>7. RateIsLimited'
  BY DEF RateInv, RateIsLimited, TimerTicks
<1>8. QED
  BY <1>3, <1>5, <1>6, <1>7 DEF RateInv

\* Permission and the interval agree, if the call is not too late.
LEMMA DueMeansPassed ==
  ASSUME RateInv
  PROVE  /\ Due => since >= interval
         /\ ~slow /\ quiet < Half /\ since >= interval => Due /\ After <= quiet
<1>1. RateTypes /\ After \in 0..(Period - 1) /\ (Due <=> After < Half)
  BY DueIsRecent DEF RateInv
<1>2. QED
  BY <1>1, PeriodIsEven DEF RateInv, RateTypes

LEMMA operatorKeeps ==
  ASSUME RateInv, operator
  PROVE  RateInv'
<1>1. RateTypes
  BY DEF RateInv
<1>2. quiet' = 0 /\ (slow' <=> slow \/ quiet >= Half) /\ slow' \in BOOLEAN
  BY <1>1 DEF RateTypes, operator, RateCall, Half
<1>3. RateIsLimited'
  <2>1. ~slow' => ~slow /\ quiet < Half
    BY <1>1, <1>2, PeriodIsEven DEF RateTypes
  <2>2. QED
    BY <2>1, DueMeansPassed DEF operator, RateIsLimited
<1>4. CASE Due
  <2>1. interval' = interval /\ timer' = timer /\ next_' = (timer + interval) % Period /\ since' = 0
    BY <1>4 DEF operator
  <2>2. /\ next_' \in 0..(Period - 1)
        /\ 0 < interval => After' = Period - interval
        /\ interval = 0 => After' = 0
    BY <1>1, <2>1, IntervalBegins
  <2>3. RateTypes'
    BY <1>1, <1>2, <2>1, <2>2 DEF RateTypes
  <2>4. QED
    BY <1>1, <1>2, <1>3, <2>1, <2>2, <2>3, PeriodIsEven DEF RateInv, RateTypes
<1>5. CASE ~Due
  <2>1. UNCHANGED <<timer, interval, next_, since>> /\ After' = After
    BY <1>5 DEF operator, After
  <2>2. RateTypes'
    BY <1>1, <1>2, <2>1 DEF RateTypes
  <2>3. ~slow' => since < interval
    BY <1>1, <1>2, <1>5, DueMeansPassed, PeriodIsEven DEF RateTypes
  <2>4. QED
    BY <1>1, <1>3, <2>1, <2>2, <2>3, PeriodIsEven DEF RateInv, RateTypes
<1>6. QED
  BY <1>4, <1>5

LEMMA refreshKeeps ==
  ASSUME RateInv, refresh
  PROVE  RateInv'
<1>1. RateTypes
  BY DEF RateInv
<1>2. /\ quiet' = 0 /\ (slow' <=> slow \/ quiet >= Half) /\ slow' \in BOOLEAN
      /\ UNCHANGED <<timer, interval, since, granted>>
  BY <1>1 DEF RateTypes, refresh, RateCall, Half
<1>3. RateIsLimited'
  BY <1>2 DEF RateInv, RateIsLimited
<1>4. CASE Due
  <2>1. next_' = timer /\ After' = 0 /\ since >= interval
    BY <1>1, <1>2, <1>4, DueMeansPassed, PeriodIsEven DEF refresh, After, RateTypes
  <2>2. RateTypes'
    BY <1>1, <1>2, <2>1 DEF RateTypes
  <2>3. QED
    BY <1>1, <1>2, <1>3, <2>1, <2>2, PeriodIsEven DEF RateInv, RateTypes
<1>5. CASE ~Due
  <2>1. next_' = next_ /\ After' = After
    BY <1>2, <1>5 DEF refresh, After
  <2>2. RateTypes'
    BY <1>1, <1>2, <2>1 DEF RateTypes
  <2>3. ~slow' => since < interval
    BY <1>1, <1>2, <1>5, DueMeansPassed, PeriodIsEven DEF RateTypes
  <2>4. QED
    BY <1>1, <1>2, <1>3, <2>1, <2>2, <2>3, PeriodIsEven DEF RateInv, RateTypes
<1>6. QED
  BY <1>4, <1>5

LEMMA resetKeeps ==
  ASSUME RateInv, reset
  PROVE  RateInv'
<1>1. RateTypes
  BY DEF RateInv
<1>2. /\ next_' \in 0..(Period - 1)
      /\ 0 < interval => After' = Period - interval
      /\ interval = 0 => After' = 0
  BY <1>1, IntervalBegins DEF reset
<1>3. RateTypes' /\ RateIsLimited'
  BY <1>1, <1>2 DEF RateTypes, RateInv, RateIsLimited, reset
<1>4. QED
  BY <1>1, <1>2, <1>3, PeriodIsEven DEF RateInv, RateTypes, reset

LEMMA set_limitKeeps ==
  ASSUME RateInv, NEW i \in Intervals, set_limit(i)
  PROVE  RateInv'
<1>1. RateTypes /\ i \in 0..Half
  BY PeriodIsEven DEF RateInv
<1>2. timer' = timer /\ next_' = timer /\ interval' = i /\ since' = 2 * Period /\ quiet' = 0
  BY PeriodIsEven DEF set_limit
<1>3. After' = 0 /\ since' >= interval'
  BY <1>1, <1>2, PeriodIsEven DEF After, RateTypes
<1>4. RateTypes' /\ RateIsLimited'
  <2>1. since' \in Nat /\ quiet' \in Nat
    BY <1>2, PeriodIsEven
  <2>2. QED
    BY <1>1, <1>2, <2>1 DEF RateTypes, RateInv, RateIsLimited, set_limit
<1>5. QED
  BY <1>1, <1>2, <1>3, <1>4, PeriodIsEven DEF RateInv, RateTypes

\* Permission is never given early, nor refused late to a program that calls at least
\* once in half a period, for every even period of the timer and every interval of at
\* most half of it: where timer and next_ wrap does not matter.
THEOREM RateHolds == RateSpec => []RateIsLimited
<1>1. RateInit => RateInv
  <2> SUFFICES ASSUME RateInit
               PROVE  RateInv
    OBVIOUS
  <2>1. After = 0
    BY DEF RateInit, After
  <2>2. RateTypes
    <3>1. since = 2 * Period /\ 2 * Period \in Nat /\ 0 \in 0..(Period - 1)
      BY PeriodIsEven DEF RateInit
    <3>2. QED
      BY <3>1 DEF RateInit, RateTypes
  <2>3. since >= interval
    <3>1. interval \in 0..Half /\ since = 2 * Period
      BY PeriodIsEven DEF RateInit
    <3>2. QED
      BY <3>1, PeriodIsEven
  <2>4. QED
    BY <2>1, <2>2, <2>3, PeriodIsEven DEF RateInit, RateTypes, RateInv, RateIsLimited, NoAnswer
<1>2. RateInv /\ [RateNext]_rateVars => RateInv'
  <2> SUFFICES ASSUME RateInv, [RateNext]_rateVars
               PROVE  RateInv'
    OBVIOUS
  <2>1. CASE UNCHANGED rateVars
    BY <2>1 DEF rateVars, RateInv, RateTypes, After, RateIsLimited
  <2>2. QED
    BY <2>1, TimerTicksKeeps, operatorKeeps, refreshKeeps, resetKeeps, set_limitKeeps DEF RateNext
<1>3. RateInv => RateIsLimited
  BY DEF RateInv
<1>4. QED
  BY <1>1, <1>2, <1>3, PTL DEF RateSpec

--------------------------------------------------------------------------------
(* Traces. *)

\* The oldest place, and the number of traces, before the one of the program.
Base == IF step = "idle" THEN index ELSE kept
Before == IF step = "idle" THEN traces ELSE mine - 1
Old == IF step = "idle" THEN clean ELSE clean \ {mine}

\* How many places before the last one is s?
Age(s) == IF s < Base THEN Base - 1 - s ELSE Base - 1 - s + entries_nb

Intact(s) == entries[s].str \in Old /\ entries[s].args = entries[s].str

TraceTypes ==
    /\ traces \in Nat /\ mine \in 0..traces /\ skipped \in BOOLEAN
    /\ entries \in [EntriesIndex -> [str : 0..traces, args : 0..traces]]
    /\ index \in EntriesIndex /\ kept \in EntriesIndex
    /\ step \in {"idle", "str", "args", "index"}
    /\ clean \subseteq 1..traces /\ Old \subseteq 1..Before
    /\ step # "idle" => mine > 0

\* What is intact is in order, and recent traces are there.
OldOrdered ==
    \A s, r \in EntriesIndex :
        Intact(s) /\ Intact(r) => (entries[s].str < entries[r].str <=> Age(r) < Age(s))
OldAges == \A s \in EntriesIndex : Intact(s) => Age(s) <= Before - entries[s].str
RecentKept ==
    \A t \in Old : t > traces - entries_nb =>
        \E s \in EntriesIndex : Intact(s) /\ entries[s].str = t

\* The ring is full, or its first part is.
RingFilled ==
    /\ \A s \in EntriesIndex : s < Base => entries[s].str # 0
    /\ \/ \A s \in EntriesIndex : entries[s].str # 0
       \/ \A s \in EntriesIndex : Intact(s) => s < Base

\* A trace in progress: handlers traced after the place the program has kept, which is
\* written over, by them or by it.
InProgress ==
    step # "idle" =>
        /\ traces - mine < entries_nb => Age(index) = entries_nb - 1 - (traces - mine)
        /\ IF mine \in clean
           THEN /\ traces = mine
                /\ \A s \in EntriesIndex : s # kept => entries[s].str # mine
                /\ step # "str" => entries[kept].str = mine
                /\ step = "index" => entries[kept].args = mine
           ELSE traces > mine /\ entries[kept].str >= mine /\ entries[kept].args >= mine

TraceInv ==
    TraceTypes /\ (~skipped => OldOrdered /\ OldAges /\ RecentKept /\ RingFilled /\ InProgress)

--------------------------------------------------------------------------------
\* The place after one, and its age.
LEMMA EntriesFollow ==
  ASSUME NEW n \in 0..2 * entries_nb - 1
  PROVE  n % entries_nb = IF n < entries_nb THEN n ELSE n - entries_nb
BY TraceBounds

LEMMA FollowingIs ==
  ASSUME NEW i \in EntriesIndex
  PROVE  /\ Following(i) \in EntriesIndex
         /\ Following(i) = IF i + 1 = entries_nb THEN 0 ELSE i + 1
<1>1. PICK n \in 0..2 * entries_nb - 1 : n = i + 1
  BY TraceBounds DEF EntriesIndex
<1>2. n % entries_nb = IF n < entries_nb THEN n ELSE n - entries_nb
  BY EntriesFollow, Zenon
<1>3. Following(i) = n % entries_nb
  BY <1>1 DEF Following
<1>4. n < entries_nb \/ n = entries_nb
  BY <1>1, TraceBounds DEF EntriesIndex
<1> QED BY <1>1, <1>2, <1>3, <1>4, TraceBounds DEF EntriesIndex

\* Ages are those of the places: the next one is the oldest.
LEMMA Ages ==
  ASSUME Base \in EntriesIndex
  PROVE  /\ \A s \in EntriesIndex : Age(s) \in 0..entries_nb - 1
         /\ \A s, r \in EntriesIndex : Age(s) = Age(r) => s = r
         /\ Age(Base) = entries_nb - 1
         /\ \A s \in EntriesIndex :
                Age(s) > 0 => Age(Following(s)) = Age(s) - 1
<1>1. /\ \A s \in EntriesIndex : Age(s) \in 0..entries_nb - 1
      /\ \A s, r \in EntriesIndex : Age(s) = Age(r) => s = r
      /\ Age(Base) = entries_nb - 1
  BY TraceBounds DEF Age, EntriesIndex
<1>2. ASSUME NEW s \in EntriesIndex, Age(s) > 0 PROVE Age(Following(s)) = Age(s) - 1
  <2>1. Following(s) = IF s + 1 = entries_nb THEN 0 ELSE s + 1
    BY FollowingIs
  <2>2. CASE s + 1 = entries_nb
    BY <1>2, <2>1, <2>2, TraceBounds DEF Age, EntriesIndex
  <2>3. CASE s + 1 # entries_nb
    BY <1>2, <2>1, <2>3, TraceBounds DEF Age, EntriesIndex
  <2> QED BY <2>2, <2>3
<1> QED BY <1>1, <1>2

\* When the next place follows the old one, that one is the last and the others are
\* one older.
LEMMA AgesAdvance ==
  ASSUME NEW b \in EntriesIndex, b = Base, Base' = Following(b)
  PROVE  /\ Base' \in EntriesIndex
         /\ Age(b)' = 0
         /\ \A s \in EntriesIndex : s # b => Age(s)' = Age(s) + 1
<1>1. Base' = IF b + 1 = entries_nb THEN 0 ELSE b + 1
  BY FollowingIs
<1>2. CASE b + 1 = entries_nb
  BY <1>1, <1>2, TraceBounds DEF Age, EntriesIndex
<1>3. CASE b + 1 # entries_nb
  BY <1>1, <1>3, TraceBounds DEF Age, EntriesIndex
<1> QED BY <1>2, <1>3

LEMMA TraceBase ==
  ASSUME TraceTypes
  PROVE  Base \in EntriesIndex /\ Before \in Nat /\ Before <= traces
BY DEF TraceTypes, Base, Before

--------------------------------------------------------------------------------
(* Writes. *)

\* What the program, or a handler that interrupts it, writes over is no recent trace.
LEMMA WrittenOverIsOld ==
  ASSUME TraceInv, ~skipped, step # "idle", NEW i \in TraceSlot
  PROVE  i \in EntriesIndex /\ (Intact(i) => entries[i].str <= traces - entries_nb)
<1>1. /\ Base = kept /\ Before = mine - 1 /\ kept \in EntriesIndex
      /\ index \in EntriesIndex /\ mine \in 0..traces /\ traces \in Nat
      /\ \A s \in EntriesIndex : entries[s].str \in 0..traces
  BY DEF TraceInv, TraceTypes, Base, Before
<1>2. i = kept \/ i = index
  BY DEF TraceSlot
<1>3. ASSUME Intact(i) PROVE Age(i) <= mine - 1 - entries[i].str
  BY <1>1, <1>2, <1>3 DEF TraceInv, OldAges
<1>4. Age(kept) = entries_nb - 1 /\ Age(i) \in 0..entries_nb - 1
  BY <1>1, <1>2, Ages
<1>5. traces - mine < entries_nb => Age(index) = entries_nb - 1 - (traces - mine)
  BY DEF TraceInv, InProgress
<1>6. ASSUME Intact(i), i = kept PROVE entries[i].str <= traces - entries_nb
  BY <1>1, <1>3, <1>4, <1>6, TraceBounds
<1>7. ASSUME Intact(i), i = index PROVE entries[i].str <= traces - entries_nb
  <2>1. /\ Age(i) <= mine - 1 - entries[i].str
        /\ traces - mine < entries_nb => Age(i) = entries_nb - 1 - (traces - mine)
    BY <1>3, <1>5, <1>7
  <2>2. /\ Age(i) \in Nat /\ entries[i].str \in Nat /\ mine \in Nat /\ traces \in Nat
        /\ entries_nb \in Nat
    BY <1>1, <1>2, <1>4, TraceBounds
  <2> QED BY ONLY <2>1, <2>2
<1> QED BY <1>1, <1>2, <1>6, <1>7

\* What is recent after more traces was before.
LEMMA StillRecent ==
  ASSUME NEW m \in Nat, NEW n \in Nat, NEW k \in Nat, NEW t \in Nat,
         m <= n, t > n - k
  PROVE  t > m - k
OBVIOUS

\* A trace in progress that writes an entry leaves the other ones in order.
LEMMA WriteKeeps ==
  ASSUME TraceInv, ~skipped, step # "idle",
         NEW i \in TraceSlot,
         \A s \in EntriesIndex : s # i => entries'[s] = entries[s],
         ~(entries'[i].str \in Old /\ entries'[i].args = entries'[i].str),
         entries[i].str # 0 => entries'[i].str # 0,
         Base' = Base, Before' = Before, Old' = Old,
         traces' \in Nat, traces <= traces'
  PROVE  (OldOrdered /\ OldAges /\ RecentKept /\ RingFilled)'
<1>1. /\ Base \in EntriesIndex /\ Before \in Nat /\ traces \in Nat /\ i \in EntriesIndex
      /\ \A s \in EntriesIndex : entries[s].str \in Nat
  BY TraceBase, WrittenOverIsOld DEF TraceInv, TraceTypes
<1>2. \A s \in EntriesIndex : s # i => entries'[s] = entries[s]
  OBVIOUS
<1>3. \A s \in EntriesIndex : Age(s)' = Age(s)
  BY DEF Age
<1>4. \A s \in EntriesIndex :
        Intact(s)' => s # i /\ Intact(s) /\ entries'[s] = entries[s]
  BY <1>2 DEF Intact
<1>5. \A s \in EntriesIndex : s # i /\ Intact(s) => Intact(s)'
  BY <1>2 DEF Intact
<1>6. OldOrdered'
  <2> SUFFICES ASSUME NEW s \in EntriesIndex, NEW r \in EntriesIndex,
                      Intact(s)', Intact(r)'
               PROVE  (entries[s].str < entries[r].str <=> Age(r) < Age(s))'
    BY DEF OldOrdered
  <2>1. Intact(s) /\ Intact(r) /\ entries'[s] = entries[s] /\ entries'[r] = entries[r]
    BY <1>4
  <2>2. entries[s].str < entries[r].str <=> Age(r) < Age(s)
    BY <2>1 DEF TraceInv, OldOrdered
  <2> QED BY <1>3, <2>1, <2>2
<1>7. OldAges'
  BY <1>3, <1>4 DEF TraceInv, OldAges
<1>8. RecentKept'
  <2> SUFFICES ASSUME NEW t \in Old, t > traces' - entries_nb
               PROVE  \E s \in EntriesIndex : Intact(s)' /\ entries'[s].str = t
    BY DEF RecentKept
  <2>1. t \in Nat
    BY <1>1 DEF TraceInv, TraceTypes
  <2>2. t > traces - entries_nb
    <3>1. traces \in Nat /\ traces' \in Nat /\ entries_nb \in Nat
      BY <1>1, TraceBounds
    <3> QED BY <2>1, <3>1, StillRecent
  <2>3. PICK s \in EntriesIndex : Intact(s) /\ entries[s].str = t
    BY <2>2 DEF TraceInv, RecentKept
  <2>4. s # i
    BY <1>1, <2>1, <2>2, <2>3, WrittenOverIsOld, TraceBounds
  <2> QED BY <1>2, <1>5, <2>3, <2>4
<1>9. RingFilled'
  <2>1. \A s \in EntriesIndex : entries[s].str # 0 => entries'[s].str # 0
    BY <1>2
  <2>2. \A s \in EntriesIndex : Intact(s)' => Intact(s)
    BY <1>4
  <2> QED BY <2>1, <2>2 DEF TraceInv, RingFilled
<1> QED BY <1>6, <1>7, <1>8, <1>9

\* A trace that is complete is the newest one, at the place which was the oldest.
LEMMA AdvanceKeeps ==
  ASSUME TraceInv, ~skipped, NEW b \in EntriesIndex, b = Base, Base' = Following(b),
         NEW n \in Nat, n = Before', traces' = n, Before < n, traces <= n,
         entries' \in [EntriesIndex -> [str : Nat, args : Nat]],
         \A s \in EntriesIndex : s # b => entries'[s] = entries[s],
         entries'[b].str # 0,
         \/ /\ Old' = Old \cup {n} /\ entries'[b].str = n /\ entries'[b].args = n
            /\ \A s \in EntriesIndex : s # b => entries[s].str # n
         \/ Old' = Old /\ ~Intact(b)'
  PROVE  (OldOrdered /\ OldAges /\ RecentKept /\ RingFilled)'
<1>1. /\ Before \in Nat /\ Old \subseteq 1..Before
      /\ \A s \in EntriesIndex : entries[s].str \in Nat /\ entries'[s].str \in Nat
  BY TraceBase DEF TraceInv, TraceTypes
<1>2. /\ Age(b)' = 0
      /\ \A s \in EntriesIndex : s # b => Age(s)' = Age(s) + 1
  BY AgesAdvance
<1>3. /\ Age(b) = entries_nb - 1
      /\ \A s \in EntriesIndex : Age(s) \in Nat
  <2>1. \A s \in EntriesIndex : Age(s) \in 0..entries_nb - 1
    BY Ages
  <2>2. Age(Base) = entries_nb - 1
    BY Ages
  <2> QED BY <2>1, <2>2, TraceBounds
<1>4. ASSUME NEW s \in EntriesIndex, s # b, Intact(s)'
      PROVE  Intact(s) /\ entries[s].str < n
  <2>1. entries[s].str \in Old
    BY <1>4 DEF Intact
  <2>2. entries[s].str <= Before
    BY <1>1, <2>1
  <2> QED BY <1>1, <1>4, <2>1, <2>2 DEF Intact
<1>5. Intact(b)' => entries'[b].str = n
  OBVIOUS
<1>6. \A s \in EntriesIndex : s # b /\ Intact(s) => Intact(s)'
  BY DEF Intact
<1>7. OldOrdered'
  <2> SUFFICES ASSUME NEW s \in EntriesIndex, NEW r \in EntriesIndex,
                      Intact(s)', Intact(r)'
               PROVE  (entries[s].str < entries[r].str <=> Age(r) < Age(s))'
    BY DEF OldOrdered
  <2>1. CASE s = b
    <3>1. CASE r = b
      BY <1>1, <1>2, <2>1, <3>1
    <3>2. CASE r # b
      <4>1. entries'[s].str = n /\ entries'[r] = entries[r] /\ entries[r].str < n
        BY <1>4, <1>5, <2>1, <3>2
      <4>2. Age(s)' = 0 /\ Age(r)' = Age(r) + 1 /\ Age(r) \in Nat
        BY <1>2, <1>3, <2>1, <3>2
      <4> QED BY <1>1, <4>1, <4>2
    <3> QED BY <3>1, <3>2
  <2>2. CASE s # b /\ r = b
    <3>1. entries'[r].str = n /\ entries'[s] = entries[s] /\ entries[s].str < n
      BY <1>4, <1>5, <2>2
    <3>2. Age(r)' = 0 /\ Age(s)' = Age(s) + 1 /\ Age(s) \in Nat
      BY <1>2, <1>3, <2>2
    <3> QED BY <1>1, <3>1, <3>2
  <2>3. CASE s # b /\ r # b
    <3>1. Intact(s) /\ Intact(r) /\ entries'[s] = entries[s] /\ entries'[r] = entries[r]
      BY <1>4, <2>3
    <3>2. entries[s].str < entries[r].str <=> Age(r) < Age(s)
      BY <3>1 DEF TraceInv, OldOrdered
    <3>3. Age(s)' = Age(s) + 1 /\ Age(r)' = Age(r) + 1 /\ Age(s) \in Nat /\ Age(r) \in Nat
      BY <1>2, <1>3, <2>3
    <3> QED BY <3>1, <3>2, <3>3
  <2> QED BY <2>1, <2>2, <2>3
<1>8. OldAges'
  <2> SUFFICES ASSUME NEW s \in EntriesIndex, Intact(s)'
               PROVE  Age(s)' <= n - entries'[s].str
    BY DEF OldAges
  <2>1. CASE s = b
    BY <1>2, <1>5, <2>1
  <2>2. CASE s # b
    <3>1. Intact(s) /\ entries'[s] = entries[s] /\ Age(s)' = Age(s) + 1
      BY <1>2, <1>4, <2>2
    <3>2. Age(s) <= Before - entries[s].str
      BY <3>1 DEF TraceInv, OldAges
    <3>3. entries[s].str \in Nat /\ Age(s) \in Nat
      BY <1>1, <1>3
    <3> QED BY <1>1, <3>1, <3>2, <3>3
  <2> QED BY <2>1, <2>2
<1>9. RecentKept'
  <2> SUFFICES ASSUME NEW t \in Old', t > n - entries_nb
               PROVE  \E s \in EntriesIndex : Intact(s)' /\ entries'[s].str = t
    BY DEF RecentKept
  <2>1. CASE t \in Old
    <3>1. t \in Nat /\ t > traces - entries_nb
      <4>1. t \in Nat
        BY <1>1, <2>1
      <4>2. traces \in Nat /\ entries_nb \in Nat
        BY TraceBounds DEF TraceInv, TraceTypes
      <4> QED BY <4>1, <4>2, StillRecent
    <3>2. PICK s \in EntriesIndex : Intact(s) /\ entries[s].str = t
      BY <2>1, <3>1 DEF TraceInv, RecentKept
    <3>3. Age(s) <= Before - t
      BY <3>2 DEF TraceInv, OldAges
    <3>4. s # b
      <4> SUFFICES ASSUME s = b PROVE FALSE
        OBVIOUS
      <4>1. /\ Before \in Nat /\ t \in Nat /\ n \in Nat /\ entries_nb \in Nat
            /\ entries_nb - 1 <= Before - t /\ Before < n /\ t > n - entries_nb
        BY <1>1, <1>3, <3>1, <3>3, TraceBounds
      <4> QED BY ONLY <4>1
    <3> QED BY <1>6, <3>2, <3>4
  <2>2. CASE t \notin Old
    <3>1. t = n /\ n \in Old' /\ entries'[b].str = n /\ entries'[b].args = n
      BY <2>2
    <3> QED BY <3>1 DEF Intact
  <2> QED BY <2>1, <2>2
<1>10. RingFilled'
  <2>1. Following(b) = IF b + 1 = entries_nb THEN 0 ELSE b + 1
    BY FollowingIs
  <2>2. \A s \in EntriesIndex : s < b \/ s = b => entries'[s].str # 0
    BY DEF TraceInv, RingFilled
  <2>3. \A s \in EntriesIndex : entries[s].str # 0 => entries'[s].str # 0
    OBVIOUS
  <2>4. \A s \in EntriesIndex : Intact(s)' => s = b \/ Intact(s)
    BY <1>4
  <2>5. CASE b + 1 = entries_nb
    <3>1. \A s \in EntriesIndex : entries'[s].str # 0 /\ ~(s < 0)
      BY <2>2, <2>5, TraceBounds DEF EntriesIndex
    <3> QED BY <2>1, <2>5, <3>1 DEF RingFilled
  <2>6. CASE b + 1 # entries_nb
    <3>1. \A s \in EntriesIndex : s < b + 1 => entries'[s].str # 0
      BY <2>2, TraceBounds DEF EntriesIndex
    <3>2. \/ \A s \in EntriesIndex : entries'[s].str # 0
          \/ \A s \in EntriesIndex : Intact(s)' => s < b + 1
      <4>1. \/ \A s \in EntriesIndex : entries[s].str # 0
            \/ \A s \in EntriesIndex : Intact(s) => s < b
        BY DEF TraceInv, RingFilled
      <4>2. b < b + 1 /\ \A s \in EntriesIndex : s < b => s < b + 1
        BY TraceBounds DEF EntriesIndex
      <4> QED BY <2>3, <2>4, <4>1, <4>2
    <3> QED BY <2>1, <2>6, <3>1, <3>2 DEF RingFilled
  <2> QED BY <2>5, <2>6
<1> QED BY <1>7, <1>8, <1>9, <1>10

--------------------------------------------------------------------------------
(* Steps. *)

LEMMA TraceInitially ==
  ASSUME TraceInit
  PROVE  TraceInv
<1>1. 0 \in EntriesIndex /\ 0 % entries_nb = 0
  BY TraceBounds DEF EntriesIndex
<1>2. TraceTypes
  <2>1. /\ index = 0 /\ step = "idle" /\ kept = 0 /\ traces = 0 /\ mine = 0
        /\ clean = {} /\ skipped = FALSE
    BY DEF TraceInit
  <2>2. Old = {}
    BY <2>1 DEF Old
  <2>3. entries \in [EntriesIndex -> [str : 0..0, args : 0..0]]
    BY DEF TraceInit, NoEntry
  <2>4. entries \in [EntriesIndex -> [str : 0..traces, args : 0..traces]]
    BY <2>1, <2>3, Zenon
  <2>5. Old \subseteq 1..Before /\ clean \subseteq 1..traces
    BY <2>1, <2>2
  <2>6. /\ traces \in Nat /\ mine \in 0..traces /\ index \in EntriesIndex
        /\ kept \in EntriesIndex
    BY <1>1, <2>1
  <2>7. skipped \in BOOLEAN /\ step = "idle"
    BY <2>1
  <2> QED BY <2>4, <2>5, <2>6, <2>7, Zenon DEF TraceTypes
<1>3. \A s \in EntriesIndex : ~Intact(s)
  BY DEF TraceInit, Intact, Old
<1>4. Base = 0 /\ Old = {} /\ step = "idle" /\ \A s \in EntriesIndex : ~(s < 0)
  BY DEF TraceInit, Base, Old, EntriesIndex
<1> QED BY <1>2, <1>3, <1>4
        DEF TraceInv, OldOrdered, OldAges, RecentKept, RingFilled, InProgress

LEMMA TraceTypesKept ==
  ASSUME TraceInv, TraceNext
  PROVE  TraceTypes'
<1>1. /\ traces \in Nat /\ mine \in 0..traces /\ skipped \in BOOLEAN
      /\ entries \in [EntriesIndex -> [str : 0..traces, args : 0..traces]]
      /\ index \in EntriesIndex /\ kept \in EntriesIndex
      /\ step \in {"idle", "str", "args", "index"}
      /\ clean \subseteq 1..traces /\ Old \subseteq 1..Before
      /\ step # "idle" => mine > 0
  BY DEF TraceInv, TraceTypes
<1>2. \A i \in TraceSlot : i \in EntriesIndex /\ Advance(i) \in EntriesIndex
  BY <1>1, FollowingIs DEF TraceSlot, Advance
<1>3. CASE TraceStart
  <2>1. /\ traces' = traces + 1 /\ mine' = traces + 1 /\ kept' = index /\ step' = "str"
        /\ step = "idle" /\ clean' = clean \cup {traces + 1}
        /\ entries' = entries /\ index' = index /\ skipped' = skipped
    BY <1>3 DEF TraceStart
  <2>2. entries \in [EntriesIndex -> [str : 0..traces + 1, args : 0..traces + 1]]
    <3>1. 0..traces \subseteq 0..traces + 1
      BY <1>1
    <3> QED BY <1>1, <3>1
  <2>3. traces + 1 \in Nat /\ traces + 1 \in 0..traces + 1 /\ traces + 1 > 0
        /\ clean \cup {traces + 1} \subseteq 1..traces + 1
    BY <1>1
  <2>4. Old' = (clean \cup {traces + 1}) \ {traces + 1} /\ Before' = mine' - 1
    <3>1. step' # "idle"
      BY <2>1
    <3>2. Old' = clean' \ {mine'} /\ Before' = mine' - 1
      BY <3>1 DEF Old, Before
    <3>3. clean' = clean \cup {traces + 1} /\ mine' = traces + 1
      BY <2>1
    <3>4. Old' = (clean \cup {traces + 1}) \ {traces + 1}
      BY <3>2, <3>3, Zenon
    <3> QED BY <3>2, <3>4, Zenon
  <2>5. Old' \subseteq 1..Before'
    <3>1. mine' - 1 = traces
      BY <1>1, <2>1
    <3> QED BY <1>1, <2>4, <3>1
  <2> QED BY <1>1, <2>1, <2>2, <2>3, <2>5 DEF TraceTypes
<1>4. CASE TraceStr
  <2>1. /\ step = "str" /\ step' = "args"
        /\ UNCHANGED <<index, kept, traces, mine, clean, skipped>>
    BY <1>4 DEF TraceStr
  <2>2. entries' \in [EntriesIndex -> [str : 0..traces, args : 0..traces]]
    BY <1>1, <1>2, <1>4 DEF TraceStr
  <2>3. Old' = Old /\ Before' = Before
    BY <2>1 DEF Old, Before
  <2> QED BY <1>1, <2>1, <2>2, <2>3 DEF TraceTypes
<1>5. CASE TraceArgs
  <2>1. /\ step = "args" /\ step' = "index"
        /\ UNCHANGED <<index, kept, traces, mine, clean, skipped>>
    BY <1>5 DEF TraceArgs
  <2>2. entries' \in [EntriesIndex -> [str : 0..traces, args : 0..traces]]
    BY <1>1, <1>2, <1>5 DEF TraceArgs
  <2>3. Old' = Old /\ Before' = Before
    BY <2>1 DEF Old, Before
  <2> QED BY <1>1, <2>1, <2>2, <2>3 DEF TraceTypes
<1>6. CASE TraceIndex
  <2>1. PICK i \in TraceSlot : index' = Advance(i) /\ skipped' = (skipped \/ i # kept)
    BY <1>6 DEF TraceIndex
  <2>2. step' = "idle" /\ UNCHANGED <<entries, kept, traces, mine, clean>>
    BY <1>6 DEF TraceIndex
  <2>3. skipped' \in BOOLEAN
    BY <2>1
  <2>4. Old' = clean /\ Before' = traces
    BY <2>2 DEF Old, Before
  <2> QED BY <1>1, <1>2, <2>1, <2>2, <2>3, <2>4 DEF TraceTypes
<1>7. CASE TraceHandler
  <2>1. /\ traces' = traces + 1 /\ index' = Advance(index)
        /\ entries' = [entries EXCEPT ![index] = [str |-> traces + 1, args |-> traces + 1]]
        /\ clean' = IF step = "idle" THEN clean \cup {traces + 1} ELSE clean \ {mine}
        /\ UNCHANGED <<step, kept, mine, skipped>>
    BY <1>7 DEF TraceHandler
  <2>2. entries' \in [EntriesIndex -> [str : 0..traces + 1, args : 0..traces + 1]]
    <3>1. 0..traces \subseteq 0..traces + 1 /\ traces + 1 \in 0..traces + 1
      BY <1>1
    <3> QED BY <1>1, <2>1, <3>1
  <2>3. traces + 1 \in Nat /\ mine \in 0..traces + 1 /\ clean' \subseteq 1..traces + 1
    BY <1>1, <2>1
  <2>4. Old' \subseteq 1..Before'
    <3>1. CASE step = "idle"
      <4>1. Old' = clean' /\ Before' = traces + 1
        BY <2>1, <3>1 DEF Old, Before
      <4> QED BY <2>3, <4>1
    <3>2. CASE step # "idle"
      <4>1. Old' = (clean \ {mine}) \ {mine} /\ Before' = Before /\ Old = clean \ {mine}
        BY <2>1, <3>2 DEF Old, Before
      <4> QED BY <1>1, <4>1
    <3> QED BY <3>1, <3>2
  <2>5. index' \in EntriesIndex
    BY <1>2, <2>1 DEF TraceSlot
  <2> QED BY <1>1, <2>1, <2>2, <2>3, <2>4, <2>5 DEF TraceTypes
<1> QED BY <1>3, <1>4, <1>5, <1>6, <1>7 DEF TraceNext

LEMMA TraceStartKeeps ==
  ASSUME TraceInv, ~skipped, TraceStart
  PROVE  (OldOrdered /\ OldAges /\ RecentKept /\ RingFilled /\ InProgress)'
<1>1. /\ step = "idle" /\ traces' = traces + 1 /\ mine' = traces + 1
      /\ kept' = index /\ step' = "str" /\ clean' = clean \cup {traces + 1}
      /\ entries' = entries /\ index' = index
  BY DEF TraceStart
<1>2. /\ traces \in Nat /\ clean \subseteq 1..traces /\ index \in EntriesIndex
      /\ \A s \in EntriesIndex : entries[s].str \in 0..traces
      /\ Old = clean /\ Base = index /\ Before = traces
  BY <1>1 DEF TraceInv, TraceTypes, Old, Base, Before
<1>3. Base' = Base /\ Before' = Before /\ Old' = Old
  <2>1. Base' = index /\ Before' = mine' - 1
        /\ Old' = (clean \cup {traces + 1}) \ {traces + 1}
    <3>1. step' # "idle"
      BY <1>1
    <3>2. Base' = kept' /\ Before' = mine' - 1 /\ Old' = clean' \ {mine'}
      BY <3>1 DEF Base, Before, Old
    <3>3. clean' = clean \cup {traces + 1} /\ mine' = traces + 1 /\ kept' = index
      BY <1>1
    <3>4. Old' = (clean \cup {traces + 1}) \ {traces + 1}
      BY <3>2, <3>3, Zenon
    <3> QED BY <3>2, <3>3, <3>4, Zenon
  <2>2. mine' - 1 = traces /\ traces + 1 \notin clean
    BY <1>1, <1>2
  <2> QED BY <1>2, <2>1, <2>2
<1>4. \A s \in EntriesIndex : (Intact(s)' <=> Intact(s)) /\ Age(s)' = Age(s)
  BY <1>1, <1>3 DEF Intact, Age
<1>5. OldOrdered' /\ OldAges' /\ RingFilled'
  BY <1>1, <1>3, <1>4 DEF TraceInv, OldOrdered, OldAges, RingFilled
<1>6. RecentKept'
  <2> SUFFICES ASSUME NEW t \in Old', t > traces' - entries_nb
               PROVE  \E s \in EntriesIndex : Intact(s)' /\ entries'[s].str = t
    BY DEF RecentKept
  <2>1. t \in Old /\ t \in Nat /\ entries_nb \in Nat
    <3>1. Old' = Old /\ Old = clean
      BY <1>2, <1>3
    <3>2. t \in clean
      BY <3>1
    <3>3. t \in 1..traces /\ traces \in Nat
      BY <1>2, <3>2
    <3>4. entries_nb \in Nat
      BY TraceBounds
    <3> QED BY <3>1, <3>2, <3>3, <3>4
  <2>2. t > traces - entries_nb
    BY <1>1, <1>2, <2>1
  <2> QED BY <1>1, <2>1, <1>4, <2>2 DEF TraceInv, RecentKept
<1>7. InProgress'
  <2>1. Age(index)' = entries_nb - 1
    <3>1. Age(Base) = entries_nb - 1
      BY <1>2, Ages
    <3>2. PICK b \in EntriesIndex : b = index
      BY <1>2
    <3> QED BY <1>1, <1>2, <1>4, <3>1, <3>2
  <2>2. traces' - mine' = 0 /\ mine' \in clean' /\ traces' = mine'
    BY <1>1, <1>2
  <2>3. \A s \in EntriesIndex : entries'[s].str # mine'
    BY <1>1, <1>2
  <2>4. entries_nb - 1 - (traces' - mine') = entries_nb - 1
    BY <2>2, TraceBounds
  <2> QED BY <1>1, <2>1, <2>2, <2>3, <2>4 DEF InProgress
<1> QED BY <1>5, <1>6, <1>7

\* The program, if nothing came in between, writes at the place it has kept.
LEMMA WritesAtKept ==
  ASSUME TraceInv, ~skipped, step # "idle", mine \in clean
  PROVE  index = kept /\ traces = mine
<1>1. traces = mine
  BY DEF TraceInv, InProgress
<1>2. traces \in Nat /\ index \in EntriesIndex /\ kept \in EntriesIndex /\ Base = kept
  BY DEF TraceInv, TraceTypes, Base
<1>3. Age(index) = entries_nb - 1
  <2>1. traces - mine = 0
    BY <1>1, <1>2
  <2> QED BY <2>1, TraceBounds DEF TraceInv, InProgress
<1>4. Age(kept) = entries_nb - 1
  BY <1>2, Ages
<1> QED BY <1>1, <1>2, <1>3, <1>4, Ages

LEMMA TraceWriteKeeps ==
  ASSUME TraceInv, ~skipped, TraceStr \/ TraceArgs
  PROVE  (OldOrdered /\ OldAges /\ RecentKept /\ RingFilled /\ InProgress)'
<1>1. /\ step \in {"str", "args"} /\ step' = IF step = "str" THEN "args" ELSE "index"
      /\ UNCHANGED <<index, kept, traces, mine, clean>>
  BY DEF TraceStr, TraceArgs
<1>2. PICK i \in TraceSlot :
        entries' = IF step = "str" THEN [entries EXCEPT ![i].str = mine]
                                   ELSE [entries EXCEPT ![i].args = mine]
  BY DEF TraceStr, TraceArgs
<1>3. /\ traces \in Nat /\ mine \in 0..traces /\ mine > 0 /\ mine \in Nat
      /\ entries \in [EntriesIndex -> [str : Nat, args : Nat]]
      /\ kept \in EntriesIndex /\ i \in EntriesIndex
  <2>1. /\ traces \in Nat /\ mine \in 0..traces /\ mine > 0
        /\ entries \in [EntriesIndex -> [str : 0..traces, args : 0..traces]]
        /\ kept \in EntriesIndex
    BY <1>1 DEF TraceInv, TraceTypes
  <2>2. 0..traces \subseteq Nat
    BY <2>1
  <2>3. i \in EntriesIndex
    BY <1>1, WrittenOverIsOld
  <2> QED BY <2>1, <2>2, <2>3
<1>4. mine \notin Old
  BY <1>1 DEF Old
<1>5. /\ entries' \in [EntriesIndex -> [str : Nat, args : Nat]]
      /\ \A s \in EntriesIndex : s # i => entries'[s] = entries[s]
      /\ step = "str" => entries'[i].str = mine /\ entries'[i].args = entries[i].args
      /\ step # "str" => entries'[i].str = entries[i].str /\ entries'[i].args = mine
  <2>1. CASE step = "str"
    BY <1>2, <1>3, <2>1
  <2>2. CASE step # "str"
    BY <1>2, <1>3, <2>2
  <2> QED BY <2>1, <2>2
<1>6. ~(entries'[i].str \in Old /\ entries'[i].args = entries'[i].str)
  BY <1>4, <1>5
<1>7. entries[i].str # 0 => entries'[i].str # 0
  BY <1>3, <1>5
<1>8. Base' = Base /\ Before' = Before /\ Old' = Old
  BY <1>1 DEF Base, Before, Old
<1>9. (OldOrdered /\ OldAges /\ RecentKept /\ RingFilled)'
  <2>1. step # "idle" /\ traces' \in Nat /\ traces <= traces'
    BY <1>1, <1>3
  <2> QED BY <1>5, <1>6, <1>7, <1>8, <2>1, WriteKeeps
<1>10. InProgress'
  <2>1. Age(index)' = Age(index)
    BY <1>1, <1>8 DEF Age
  <2>2. /\ traces - mine < entries_nb => Age(index) = entries_nb - 1 - (traces - mine)
        /\ IF mine \in clean
           THEN /\ traces = mine
                /\ \A s \in EntriesIndex : s # kept => entries[s].str # mine
                /\ step # "str" => entries[kept].str = mine
           ELSE traces > mine /\ entries[kept].str >= mine /\ entries[kept].args >= mine
    BY <1>1 DEF TraceInv, InProgress
  <2>4. CASE mine \in clean
    <3>1. i = kept
      BY <1>1, <2>4, WritesAtKept DEF TraceSlot
    <3>2. entries'[kept].str = mine
      BY <2>2, <1>5, <2>4, <3>1
    <3>3. step # "str" => entries'[kept].args = mine
      BY <1>5, <3>1
    <3>4. \A s \in EntriesIndex : s # kept => entries'[s].str # mine
      BY <2>2, <1>5, <2>4, <3>1
    <3> QED BY <1>1, <2>1, <2>2, <2>4, <3>2, <3>3, <3>4 DEF InProgress
  <2>5. CASE mine \notin clean
    <3>1. entries'[kept].str >= mine /\ entries'[kept].args >= mine
      <4>1. CASE i # kept
        BY <1>3, <2>2, <1>5, <2>5, <4>1
      <4>2. CASE i = kept
        BY <1>3, <2>2, <1>5, <2>5, <4>2
      <4> QED BY <4>1, <4>2
    <3> QED BY <1>1, <2>1, <2>2, <2>5, <3>1 DEF InProgress
  <2> QED BY <2>4, <2>5
<1> QED BY <1>9, <1>10

LEMMA TraceIndexKeeps ==
  ASSUME TraceInv, ~skipped', TraceIndex
  PROVE  ~skipped /\ (OldOrdered /\ OldAges /\ RecentKept /\ RingFilled /\ InProgress)'
<1>1. PICK i \in TraceSlot : index' = Advance(i) /\ skipped' = (skipped \/ i # kept)
  BY DEF TraceIndex
<1>2. ~skipped /\ i = kept
  BY <1>1
<1>3. /\ step = "index" /\ step' = "idle" /\ index' = Following(kept)
      /\ UNCHANGED <<entries, kept, traces, mine, clean>>
  BY <1>1, <1>2 DEF TraceIndex, Advance
<1>4. /\ traces \in Nat /\ mine \in 0..traces /\ mine > 0 /\ kept \in EntriesIndex
      /\ entries \in [EntriesIndex -> [str : 0..traces, args : 0..traces]]
      /\ clean \subseteq 1..traces /\ Old \subseteq 1..mine - 1
  BY <1>3 DEF TraceInv, TraceTypes, Before
<1>5. /\ Base = kept /\ Before = mine - 1 /\ Old = clean \ {mine}
      /\ Base' = Following(kept) /\ Before' = traces /\ Old' = clean
  BY <1>3 DEF Base, Before, Old
<1>6. IF mine \in clean
      THEN /\ traces = mine
           /\ \A s \in EntriesIndex : s # kept => entries[s].str # mine
           /\ entries[kept].str = mine /\ entries[kept].args = mine
      ELSE traces > mine /\ entries[kept].str >= mine /\ entries[kept].args >= mine
  BY <1>2, <1>3 DEF TraceInv, InProgress
<1>7. PICK b \in EntriesIndex : b = kept
  BY <1>4
<1>8. PICK n \in Nat : n = traces
  BY <1>4
<1>9. entries' \in [EntriesIndex -> [str : Nat, args : Nat]]
  <2>1. 0..traces \subseteq Nat
    BY <1>4
  <2> QED BY <1>3, <1>4, <2>1
<1>10. /\ Before < n /\ entries'[b].str # 0
       /\ entries[b].str \in Nat
  BY <1>3, <1>4, <1>5, <1>6, <1>7, <1>8
<1>11. \/ /\ Old' = Old \cup {n} /\ entries'[b].str = n /\ entries'[b].args = n
          /\ \A s \in EntriesIndex : s # b => entries[s].str # n
       \/ Old' = Old /\ ~Intact(b)'
  <2>1. CASE mine \in clean
    BY <1>3, <1>5, <1>6, <1>7, <1>8, <2>1
  <2>2. CASE mine \notin clean
    <3>1. Old' = Old
      BY <1>5, <2>2
    <3>2. entries[b].str >= mine
      BY <1>6, <1>7, <2>2
    <3>3. entries[b].str \notin Old
      BY <1>4, <1>10, <3>2
    <3> QED BY <1>3, <3>1, <3>3 DEF Intact
  <2> QED BY <2>1, <2>2
<1>12. (OldOrdered /\ OldAges /\ RecentKept /\ RingFilled)'
  <2>1. /\ b = Base /\ Base' = Following(b) /\ n = Before' /\ traces' = n /\ traces <= n
        /\ \A s \in EntriesIndex : s # b => entries'[s] = entries[s]
    BY <1>3, <1>5, <1>7, <1>8
  <2> QED BY <1>2, <1>9, <1>10, <1>11, <2>1, AdvanceKeeps
<1>13. InProgress'
  BY <1>3 DEF InProgress
<1> QED BY <1>2, <1>12, <1>13

LEMMA TraceHandlerKeeps ==
  ASSUME TraceInv, ~skipped, TraceHandler
  PROVE  (OldOrdered /\ OldAges /\ RecentKept /\ RingFilled /\ InProgress)'
<1>1. /\ traces' = traces + 1 /\ index' = Following(index)
      /\ entries' = [entries EXCEPT ![index] = [str |-> traces + 1, args |-> traces + 1]]
      /\ clean' = IF step = "idle" THEN clean \cup {traces + 1} ELSE clean \ {mine}
      /\ UNCHANGED <<step, kept, mine>>
  BY DEF TraceHandler, Advance
<1>2. /\ traces \in Nat /\ mine \in 0..traces /\ index \in EntriesIndex
      /\ kept \in EntriesIndex /\ clean \subseteq 1..traces /\ Old \subseteq 1..Before
      /\ entries \in [EntriesIndex -> [str : 0..traces, args : 0..traces]]
      /\ step # "idle" => mine > 0
  BY DEF TraceInv, TraceTypes
<1>3. Base \in EntriesIndex /\ Before \in Nat /\ Before <= traces
  BY TraceBase DEF TraceInv
<1>4. PICK n \in Nat : n = traces + 1
  BY <1>2
<1>5. PICK b \in EntriesIndex : b = index
  BY <1>2
<1>6. /\ \A s \in EntriesIndex : s # b => entries'[s] = entries[s]
      /\ entries'[b].str = n /\ entries'[b].args = n
  BY <1>1, <1>2, <1>4, <1>5
<1>7. /\ entries' \in [EntriesIndex -> [str : Nat, args : Nat]]
      /\ \A s \in EntriesIndex : entries[s].str \in 0..traces /\ entries[s].args \in 0..traces
  <2>1. 0..traces \subseteq Nat /\ traces + 1 \in Nat
    BY <1>2
  <2> QED BY <1>1, <1>2, <2>1
<1>8. n > 0 /\ n > traces /\ n \notin clean /\ n \notin Old
  BY <1>2, <1>3, <1>4
<1>9. CASE step = "idle"
  <2>1. /\ Base = b /\ Before = traces /\ Old = clean
        /\ Base' = index' /\ Before' = traces' /\ Old' = clean'
    BY <1>1, <1>5, <1>9 DEF Base, Before, Old
  <2>2. /\ Base' = Following(b) /\ Before' = n /\ Old' = Old \cup {n} /\ traces' = n
        /\ Before < n /\ traces <= n
    BY <1>1, <1>2, <1>4, <1>5, <1>9, <2>1
  <2>3. \A s \in EntriesIndex : s # b => entries[s].str # n
    BY <1>2, <1>4, <1>7
  <2>4. (OldOrdered /\ OldAges /\ RecentKept /\ RingFilled)'
    BY <1>6, <1>7, <1>8, <2>1, <2>2, <2>3, AdvanceKeeps
  <2>5. InProgress'
    BY <1>1, <1>9 DEF InProgress
  <2> QED BY <2>4, <2>5
<1>10. CASE step # "idle"
  <2>1. /\ Base = kept /\ Base' = kept /\ Before' = Before
        /\ Old = clean \ {mine} /\ Old' = clean' \ {mine} /\ clean' = clean \ {mine}
    BY <1>1, <1>10 DEF Base, Before, Old
  <2>2. Old' = Old
    BY <2>1
  <2>3. b \in TraceSlot /\ traces' \in Nat /\ traces <= traces'
    BY <1>1, <1>2, <1>5 DEF TraceSlot
  <2>4. (OldOrdered /\ OldAges /\ RecentKept /\ RingFilled)'
    <3>1. ~(entries'[b].str \in Old /\ entries'[b].args = entries'[b].str)
      BY <1>6, <1>8
    <3>2. entries'[b].str # 0
      BY <1>6, <1>8
    <3> QED BY <1>6, <1>10, <2>1, <2>2, <2>3, <3>1, <3>2, WriteKeeps
  <2>5. \A s \in EntriesIndex : Age(s)' = Age(s)
    BY <2>1 DEF Age
  <2>6. /\ traces - mine < entries_nb => Age(index) = entries_nb - 1 - (traces - mine)
        /\ IF mine \in clean
           THEN traces = mine
           ELSE traces > mine /\ entries[kept].str >= mine /\ entries[kept].args >= mine
    BY <1>10 DEF TraceInv, InProgress
  <2>7. ASSUME traces + 1 - mine < entries_nb
        PROVE  Age(index)' = entries_nb - 1 - (traces + 1 - mine)
    <3>1. PICK j \in EntriesIndex : j = Following(b)
      BY FollowingIs
    <3>2. Age(b) = entries_nb - 1 - (traces - mine)
      <4>1. traces - mine < entries_nb
        BY <1>2, <2>7, TraceBounds
      <4> QED BY <1>5, <2>6, <4>1
    <3>3. Age(b) > 0 /\ Age(b) - 1 = entries_nb - 1 - (traces + 1 - mine)
      BY <1>2, <2>7, <3>2, TraceBounds
    <3>4. Age(Following(b)) = Age(b) - 1
      BY <1>3, <3>3, Ages
    <3>5. Age(j) = Age(b) - 1
      BY <3>1, <3>4, Zenon
    <3>6. j = index'
      BY <1>1, <1>5, <3>1
    <3>7. Age(index)' = Age(j)'
      BY <3>6 DEF Age
    <3> QED BY <2>5, <3>3, <3>5, <3>7
  <2>8. traces + 1 > mine /\ mine \notin clean'
    BY <1>2, <2>1
  <2>9. entries'[kept].str >= mine /\ entries'[kept].args >= mine
    <3>1. CASE b = kept
      BY <1>2, <1>4, <1>6, <3>1
    <3>2. CASE b # kept
      <4>1. mine \notin clean
        BY <1>5, <1>10, <3>2, WritesAtKept
      <4> QED BY <1>2, <1>6, <2>6, <3>2, <4>1
    <3> QED BY <3>1, <3>2
  <2>10. InProgress'
    <3>1. traces' = traces + 1 /\ mine' = mine /\ kept' = kept
      BY <1>1
    <3>2. traces' - mine' < entries_nb =>
            Age(index)' = entries_nb - 1 - (traces' - mine')
      <4>1. traces' - mine' = traces + 1 - mine
        BY <1>2, <3>1
      <4> QED BY <2>7, <4>1, Zenon
    <3>3. traces' > mine' /\ mine' \notin clean'
      BY <2>8, <3>1
    <3>4. entries'[kept'].str >= mine' /\ entries'[kept'].args >= mine'
      BY <2>9, <3>1
    <3> QED BY <3>2, <3>3, <3>4 DEF InProgress
  <2> QED BY <2>4, <2>10
<1> QED BY <1>9, <1>10

LEMMA TraceNextKeeps ==
  ASSUME TraceInv, [TraceNext]_traceVars
  PROVE  TraceInv'
<1>1. CASE UNCHANGED traceVars
  <2>1. Base' = Base /\ Before' = Before /\ Old' = Old
    BY <1>1 DEF traceVars, Base, Before, Old
  <2>2. \A s \in EntriesIndex : (Intact(s)' <=> Intact(s)) /\ Age(s)' = Age(s)
    BY <1>1, <2>1 DEF traceVars, Intact, Age
  <2>3. Age(index)' = Age(index)
    BY <1>1, <2>1 DEF traceVars, Age
  <2>4. TraceTypes'
    BY <1>1, <2>1 DEF TraceInv, TraceTypes, traceVars
  <2>5. ~skipped => (OldOrdered /\ OldAges /\ RecentKept /\ RingFilled)'
    BY <1>1, <2>1, <2>2
       DEF TraceInv, OldOrdered, OldAges, RecentKept, RingFilled, traceVars
  <2>6. ~skipped => InProgress'
    BY <1>1, <2>3 DEF TraceInv, InProgress, traceVars
  <2>7. skipped' <=> skipped
    BY <1>1 DEF traceVars
  <2> QED BY <2>4, <2>5, <2>6, <2>7 DEF TraceInv
<1>2. CASE TraceNext
  <2>1. TraceTypes'
    BY <1>2, TraceTypesKept
  <2>2. ASSUME ~skipped'
        PROVE  (OldOrdered /\ OldAges /\ RecentKept /\ RingFilled /\ InProgress)'
    <3>1. CASE TraceStart
      <4>1. ~skipped
        BY <2>2, <3>1 DEF TraceStart
      <4> QED BY <3>1, <4>1, TraceStartKeeps
    <3>2. CASE TraceStr \/ TraceArgs
      <4>1. ~skipped
        BY <2>2, <3>2 DEF TraceStr, TraceArgs
      <4> QED BY <3>2, <4>1, TraceWriteKeeps
    <3>3. CASE TraceIndex
      BY <2>2, <3>3, TraceIndexKeeps
    <3>4. CASE TraceHandler
      <4>1. ~skipped
        BY <2>2, <3>4 DEF TraceHandler
      <4> QED BY <3>4, <4>1, TraceHandlerKeeps
    <3> QED BY <1>2, <3>1, <3>2, <3>3, <3>4 DEF TraceNext
  <2> QED BY <2>1, <2>2 DEF TraceInv
<1> QED BY <1>1, <1>2

--------------------------------------------------------------------------------
(* The dump. *)

\* The dump goes from old places to new ones and leaves out none that is intact.
DumpPlace(k) == (DumpFrom + k - 1) % entries_nb

LEMMA DumpPlaces ==
  ASSUME TraceInv, step = "idle", ~skipped
  PROVE  /\ DumpLength \in Nat
         /\ \A k \in 1..DumpLength :
                DumpPlace(k) \in EntriesIndex /\ Age(DumpPlace(k)) = DumpLength - k
         /\ \A s \in EntriesIndex : Intact(s) => Age(s) < DumpLength
<1>1. /\ index \in EntriesIndex /\ Base = index /\ Old \subseteq 1..traces
      /\ traces \in Nat /\ \A s \in EntriesIndex : Age(s) \in 0..entries_nb - 1
  <2>1. index \in EntriesIndex /\ Base = index /\ Old \subseteq 1..traces /\ traces \in Nat
    BY DEF TraceInv, TraceTypes, Base, Before
  <2> QED BY <2>1, Ages
<1>2. CASE entries[index].str # 0
  <2>1. DumpFrom = index /\ DumpLength = entries_nb
    BY <1>2 DEF DumpFrom, DumpLength
  <2>2. ASSUME NEW k \in 1..entries_nb
        PROVE  DumpPlace(k) \in EntriesIndex /\ Age(DumpPlace(k)) = entries_nb - k
    <3>1. PICK n \in 0..2 * entries_nb - 1 : n = index + k - 1
      BY <1>1, TraceBounds DEF EntriesIndex
    <3>2. n % entries_nb = IF n < entries_nb THEN n ELSE n - entries_nb
      BY EntriesFollow
    <3>3. PICK s \in EntriesIndex : s = IF n < entries_nb THEN n ELSE n - entries_nb
      <4>1. CASE n < entries_nb
        BY <4>1, TraceBounds DEF EntriesIndex
      <4>2. CASE ~(n < entries_nb)
        BY <4>2, TraceBounds DEF EntriesIndex
      <4> QED BY <4>1, <4>2
    <3>4. DumpPlace(k) = s
      BY <2>1, <3>1, <3>2, <3>3 DEF DumpPlace
    <3>5. Age(s) = entries_nb - k
      <4>1. CASE n < entries_nb
        BY <1>1, <3>1, <3>3, <4>1, TraceBounds DEF Age, EntriesIndex
      <4>2. CASE ~(n < entries_nb)
        BY <1>1, <3>1, <3>3, <4>2, TraceBounds DEF Age, EntriesIndex
      <4> QED BY <4>1, <4>2
    <3> QED BY <3>4, <3>5
  <2> QED BY <1>1, <2>1, <2>2, TraceBounds
<1>3. CASE entries[index].str = 0
  <2>1. /\ DumpFrom = 0
        /\ \A s \in EntriesIndex : s < index => entries[s].str # 0
        /\ \A s \in EntriesIndex : Intact(s) => s < index
    BY <1>1, <1>3 DEF DumpFrom, TraceInv, RingFilled
  <2>2. CASE index = 0
    <3>1. DumpLength = 0
      BY <1>3, <2>1, <2>2 DEF DumpLength
    <3>2. \A s \in EntriesIndex : ~(s < 0)
      BY DEF EntriesIndex
    <3> QED BY <2>1, <2>2, <3>1, <3>2
  <2>3. CASE index # 0
    <3>1. 0 \in EntriesIndex /\ 0 < index
      BY <1>1, <2>3, TraceBounds DEF EntriesIndex
    <3>2. DumpLength = index - 0
      BY <2>1, <2>3, <3>1 DEF DumpLength
    <3>3. DumpLength = index /\ index \in Nat
      BY <1>1, <3>2 DEF EntriesIndex
    <3>4. ASSUME NEW k \in 1..index
          PROVE  DumpPlace(k) \in EntriesIndex /\ Age(DumpPlace(k)) = index - k
      <4>1. PICK s \in EntriesIndex : s = k - 1 /\ s < index
        BY <1>1, TraceBounds DEF EntriesIndex
      <4>2. s \in 0..2 * entries_nb - 1 /\ s < entries_nb
        BY TraceBounds DEF EntriesIndex
      <4>3. s % entries_nb = s
        BY <4>2, EntriesFollow
      <4>4. DumpPlace(k) = s
        BY <2>1, <4>1, <4>3 DEF DumpPlace
      <4>5. Age(s) = index - k
        BY <1>1, <4>1, TraceBounds DEF Age, EntriesIndex
      <4> QED BY <4>4, <4>5
    <3>5. \A s \in EntriesIndex : s < index => Age(s) < index
      BY <1>1 DEF Age, EntriesIndex
    <3> QED BY <2>1, <3>3, <3>4, <3>5
  <2> QED BY <2>2, <2>3
<1> QED BY <1>2, <1>3

LEMMA DumpIsRight ==
  ASSUME TraceInv
  PROVE  TraceDamageIsLocal
<1>1. index \in EntriesIndex
  BY DEF TraceInv, TraceTypes
<1> SUFFICES ASSUME step = "idle", ~skipped
             PROVE  /\ \A t, u \in Dumped : t < u => Position(t) < Position(u)
                    /\ \A t \in clean : t > traces - entries_nb => t \in Dumped
  BY <1>1 DEF TraceDamageIsLocal
<1>2. /\ Base = index /\ Old = clean /\ DOMAIN dump = 1..DumpLength
      /\ entries \in [EntriesIndex -> [str : 0..traces, args : 0..traces]]
      /\ \A k \in 1..DumpLength : dump[k] = entries[DumpPlace(k)]
  BY DEF TraceInv, TraceTypes, Base, Old, dump, DumpPlace
<1>3. /\ DumpLength \in Nat
      /\ \A k \in 1..DumpLength :
             DumpPlace(k) \in EntriesIndex /\ Age(DumpPlace(k)) = DumpLength - k
      /\ \A s \in EntriesIndex : Intact(s) => Age(s) < DumpLength
  BY DumpPlaces
<1>4. ASSUME NEW t \in Dumped
      PROVE  /\ Position(t) \in 1..DumpLength
             /\ Intact(DumpPlace(Position(t))) /\ entries[DumpPlace(Position(t))].str = t
  <2>1. t \in clean /\ \E k \in DOMAIN dump : dump[k] = [str |-> t, args |-> t]
    BY DEF Dumped
  <2>2. PICK k \in DOMAIN dump : k = Position(t) /\ dump[k] = [str |-> t, args |-> t]
    BY <2>1 DEF Position
  <2>3. entries[DumpPlace(k)] = [str |-> t, args |-> t]
    BY <1>2, <2>2
  <2>4. Intact(DumpPlace(k)) /\ entries[DumpPlace(k)].str = t
    BY <1>2, <2>1, <2>3 DEF Intact
  <2> QED BY <1>2, <2>2, <2>4
<1>5. ASSUME NEW t \in Dumped, NEW u \in Dumped, t < u
      PROVE  Position(t) < Position(u)
  <2>1. PICK p \in 1..DumpLength :
          p = Position(t) /\ Intact(DumpPlace(p)) /\ entries[DumpPlace(p)].str = t
    BY <1>4
  <2>2. PICK q \in 1..DumpLength :
          q = Position(u) /\ Intact(DumpPlace(q)) /\ entries[DumpPlace(q)].str = u
    BY <1>4
  <2>3. Age(DumpPlace(q)) < Age(DumpPlace(p))
    BY <1>3, <1>5, <2>1, <2>2 DEF TraceInv, OldOrdered
  <2> QED BY <1>3, <2>1, <2>2, <2>3
<1>6. ASSUME NEW t \in clean, t > traces - entries_nb
      PROVE  t \in Dumped
  <2>1. PICK s \in EntriesIndex : Intact(s) /\ entries[s].str = t
    BY <1>2, <1>6 DEF TraceInv, RecentKept
  <2>2. Age(s) \in 0..entries_nb - 1 /\ Age(s) < DumpLength
    <3>1. Base \in EntriesIndex
      BY <1>1, <1>2
    <3> QED BY <1>3, <2>1, <3>1, Ages
  <2>3. PICK k \in 1..DumpLength : k = DumpLength - Age(s)
    BY <1>3, <2>2, TraceBounds
  <2>4. DumpPlace(k) = s
    <3>1. Age(DumpPlace(k)) = Age(s)
      BY <1>3, <2>2, <2>3
    <3> QED BY <1>1, <1>2, <1>3, <3>1, Ages
  <2>5. entries[s] = [str |-> t, args |-> t]
    BY <1>2, <2>1 DEF Intact
  <2> QED BY <1>2, <2>4, <2>5 DEF Dumped
<1> QED BY <1>5, <1>6

\* With a ring of any size, and interrupt handlers that trace at any point of a trace of
\* the program, a trace that is interrupted costs itself and those which interrupted it:
\* unless an entry was skipped, dump shows the other ones in order, and all those of the
\* last ENTRIES_NB traces (TraceBuffer::trace and dump, utils/trace.tcc).
THEOREM TraceHolds == TraceSpec => []TraceDamageIsLocal
<1>1. TraceInv /\ [TraceNext]_traceVars => TraceInv'
  BY TraceNextKeeps
<1> QED BY <1>1, TraceInitially, DumpIsRight, PTL DEF TraceSpec

--------------------------------------------------------------------------------
(* Xmodem. *)

USE DEF client

Frames == [type : {"block", "eot"}, k : 1..Blocks + 1, damage : Stages \cup {"none"}]

\* The receiver owes an answer.
AtReceiver == pc \in {"number", "data", "finish"} \/ (pc = "send" /\ ok)

NothingOnLine == forth = << >> /\ back = << >>

\* A frame or an answer is on its way, or the receiver has it: one at most.
OneAtATime ==
    /\ forth = << >> \/ (forth = <<Head(forth)>> /\ Head(forth) \in Frames)
    /\ back = << >> \/ (back = <<Head(back)>> /\ Head(back) \in Answers)
    /\ forth = << >> \/ back = << >>
    /\ AtReceiver => NothingOnLine
    /\ pc = "send" /\ ~ok /\ late = 0 => NothingOnLine

\* What the receiver counts is what it wrote.
Counted ==
    /\ Len(written) <= Blocks
    /\ total # -1 => total = Len(written) /\ blockNumber = (Len(written) + 1) % Mod
    /\ total = -1 => pc \in {"finish", "returned"}
    /\ pc # "send" => ~ok

IsNext(f) == f.k = next /\ (f.type = "block" <=> next <= Blocks)

\* Frames on their way, or being read, are the one the sender is at.
FramesAreNext ==
    /\ forth # << >> => IsNext(Head(forth))
    /\ AtReceiver => IsNext(frame)
    /\ pc \in {"number", "data"} => next <= Blocks
    /\ pc = "finish" /\ total # -1 /\ ~FalseEnd => next > Blocks

Acked == back # << >> /\ Head(back) = "ack"

\* The sender is at the last block written, or at the next one; it only leaves the
\* former when its acknowledgement comes, and dup is set while it does not.
SenderIsNear ==
    pc \notin {"finish", "returned"} =>
        /\ next \in {Len(written), Len(written) + 1}
        /\ back # << >> => Head(back) # "can"
        /\ Acked \/ ok => next = Len(written)
        /\ dup => next = Len(written) /\ ~Acked /\ ~ok
        /\ pc = "data" /\ ~dup => next = Len(written) + 1

Whole ==
    pc \in {"finish", "returned"} /\ total # -1 /\ ~FalseEnd => Len(written) = Blocks

XmodemInv ==
    /\ TypeOK /\ OneAtATime /\ Counted /\ FramesAreNext /\ SenderIsNear /\ Whole
    /\ WrittenInOrder

--------------------------------------------------------------------------------
(* Remainders. *)

LEMMA Quotient ==
  ASSUME NEW M \in Nat \ {0}, NEW x \in Nat
  PROVE  \E q \in Int, r \in 0..(M - 1) : r = x % M /\ x = M * q + r
<1> DEFINE q == x \div M
           r == x % M
<1>1. q \in Int /\ r \in 0..(M - 1)
  OBVIOUS
<1>2. r = x - M * q
  OBVIOUS
<1>3. r = x % M
  OBVIOUS
<1> HIDE DEF q, r
<1>4. x = M * q + r
  BY <1>1, <1>2
<1>5. QED
  BY <1>1, <1>3, <1>4, Zenon

LEMMA Remainder ==
  ASSUME NEW M \in Nat \ {0}, NEW q \in Int, NEW r \in 0..(M - 1), NEW x \in Int, x = M * q + r
  PROVE  x % M = r
OBVIOUS

\* Numbers that follow each other have different remainders.
LEMMA NextRemainder ==
  ASSUME NEW M \in Nat \ {0, 1}, NEW x \in Nat, NEW y \in Nat, y = x + 1
  PROVE  ((x % M) + 1) % M = y % M /\ y % M # x % M
<1>1. PICK q \in Int, r \in 0..(M - 1) : r = x % M /\ x = M * q + r
  BY Quotient
<1>2. y = M * q + r + 1
  BY <1>1
<1>3. CASE r + 1 < M
  <2>1. PICK s \in 0..(M - 1) : s = r + 1
    BY <1>3
  <2>2. y = M * q + s
    BY <1>2, <2>1
  <2>3. y % M = s
    BY ONLY M \in Nat \ {0}, q \in Int, s \in 0..(M - 1), y \in Int, <2>2, Remainder
  <2>4. (r + 1) % M = s
    BY <2>1
  <2>5. s # r
    BY <2>1
  <2>6. QED
    BY <1>1, <2>3, <2>4, <2>5, Zenon
<1>4. CASE r + 1 = M
  <2>1. PICK t \in Int : t = q + 1
    OBVIOUS
  <2>2. y = M * t + 0
    BY <1>2, <1>4, <2>1
  <2>3. y % M = 0
    BY ONLY M \in Nat \ {0}, t \in Int, 0 \in 0..(M - 1), y \in Int, <2>2, Remainder
  <2>4. (r + 1) % M = 0 /\ r # 0
    BY <1>4
  <2>5. QED
    BY <1>1, <2>3, <2>4, Zenon
<1>5. QED
  BY <1>3, <1>4

LEMMA Successive ==
  \A n \in Nat : n % Mod # (n + 1) % Mod /\ (((n + 1) % Mod) + 1) % Mod = (n + 2) % Mod
<1>1. TAKE n \in Nat
<1>2. PICK a \in Nat, b \in Nat : a = n + 1 /\ b = n + 2 /\ b = a + 1
  OBVIOUS
<1>0. Mod \in Nat \ {0, 1}
  BY XmodemBounds
<1>3. a % Mod # n % Mod
  BY <1>0, <1>2, NextRemainder, Zenon
<1>4. ((a % Mod) + 1) % Mod = b % Mod
  BY <1>0, <1>2, NextRemainder, Zenon
<1>5. QED
  BY <1>2, <1>3, <1>4, Zenon

--------------------------------------------------------------------------------
(* The line. *)

LEMMA One ==
  ASSUME NEW x
  PROVE  Append(<< >>, x) = <<x>> /\ Head(<<x>>) = x /\ Tail(<<x>>) = << >> /\ <<x>> # << >>
  OBVIOUS

LEMMA OneIsSeq ==
  ASSUME NEW S, NEW x \in S
  PROVE  << >> \in Seq(S) /\ <<x>> \in Seq(S)
  OBVIOUS

\* An answer is on its way, alone, or lost.
LEMMA Answered ==
  ASSUME NEW a \in Answers, Answer(a), back = << >>, TypeOK
  PROVE  /\ faults' \in 0..MaxFaults /\ back' \in Seq(Answers)
         /\ back' = << >> \/ (back' = <<a>> /\ Head(back') = a)
  <1>1. faults' \in 0..MaxFaults
    BY XmodemBounds DEF Answer, Lost, TypeOK
  <1>2. back' = << >> \/ back' = <<a>>
    BY One DEF Answer
  <1> QED BY <1>1, <1>2, One, OneIsSeq

\* So is a frame.
LEMMA Transmitted ==
  ASSUME NEW n \in 1..Blocks + 1, Transmit(Frame(n)), forth = << >>, TypeOK
  PROVE  /\ faults' \in 0..MaxFaults
         /\ \/ forth' = << >>
            \/ /\ forth' = <<Head(forth')>> /\ Head(forth') \in Frames
               /\ Head(forth').k = n /\ (Head(forth').type = "block" <=> n <= Blocks)
  <1> DEFINE f == Frame(n)
  <1>1. f \in Frames /\ f.k = n /\ (f.type = "block" <=> n <= Blocks)
    BY XmodemBounds DEF Frame, Frames, EOT, Block, Stages
  <1>2. faults' \in 0..MaxFaults
    BY XmodemBounds DEF Transmit, Lost, TypeOK
  <1> HIDE DEF f
  <1>3. ASSUME NEW g \in Frames, g.k = n, g.type = "block" <=> n <= Blocks, forth' = Append(forth, g)
        PROVE  /\ forth' = <<Head(forth')>> /\ Head(forth') \in Frames
               /\ Head(forth').k = n /\ (Head(forth').type = "block" <=> n <= Blocks)
    <2>1. forth' = <<g>>
      BY <1>3, One
    <2>2. Head(forth') = g
      BY <2>1, One
    <2> QED BY <1>3, <2>1, <2>2
  <1>4. ASSUME NEW s \in Stages
        PROVE  LET g == [f EXCEPT !.damage = s]
               IN  g \in Frames /\ g.k = n /\ (g.type = "block" <=> n <= Blocks)
    BY <1>1 DEF Frames
  <1>5. \/ forth' = Append(forth, f)
        \/ \E s \in Stages : forth' = Append(forth, [f EXCEPT !.damage = s])
        \/ forth' = forth
    BY DEF Transmit, Stages, f
  <1> QED BY <1>1, <1>2, <1>3, <1>4, <1>5

--------------------------------------------------------------------------------
(* XmodemInv is inductive. *)

LEMMA Start ==
  Init => XmodemInv
  <1> SUFFICES ASSUME Init
               PROVE  XmodemInv
    OBVIOUS
  <1>1. Len(<< >>) = 0 /\ << >> \in Seq(1..Blocks) /\ << >> \in Seq(Answers)
    OBVIOUS
  <1>2. EOT \in Frames
    BY XmodemBounds DEF EOT, Frames, Stages
  <1>3. TypeOK
    <2>1. frame \in Frames
      BY <1>2 DEF Init
    <2>2. written \in Seq(1..Blocks) /\ back \in Seq(Answers)
      BY <1>1 DEF Init
    <2>3. blockNumber \in 0..(Mod - 1) /\ total \in -1..Blocks /\ next \in 1..(Blocks + 1)
      BY XmodemBounds DEF Init
    <2>4. faults \in 0..MaxFaults /\ late \in 0..MaxLate
      BY XmodemBounds DEF Init
    <2>5. {started, ok, dup} \subseteq BOOLEAN
      BY DEF Init
    <2> QED BY <2>1, <2>2, <2>3, <2>4, <2>5 DEF Init, TypeOK, Frames
  <1>4. 1 % Mod = 1
    BY XmodemBounds
  <1> QED
    BY <1>1, <1>3, <1>4, XmodemBounds
    DEF Init, XmodemInv, OneAtATime, AtReceiver, NothingOnLine, Counted, FramesAreNext, SenderIsNear,
        Acked, Whole, WrittenInOrder

\* It has no frame, no answer on the line when the receiver owes one.
LEMMA SendAckKeeps ==
  ASSUME XmodemInv, SendAck
  PROVE  XmodemInv'
  <1>1. forth = << >> /\ back = << >>
    BY DEF SendAck, XmodemInv, OneAtATime, AtReceiver, NothingOnLine
  <1>2. /\ faults' \in 0..MaxFaults /\ back' \in Seq(Answers)
        /\ back' = << >> \/ (back' = <<"ack">> /\ Head(back') = "ack")
    BY <1>1, Answered DEF SendAck, XmodemInv, Answers
  <1>3. TypeOK'
    BY <1>2 DEF SendAck, XmodemInv, TypeOK, senderVars
  <1>4. OneAtATime'
    BY <1>1, <1>2 DEF SendAck, OneAtATime, AtReceiver, NothingOnLine, Answers
  <1>5. Counted'
    BY DEF SendAck, XmodemInv, Counted
  <1>6. FramesAreNext'
    BY <1>1 DEF SendAck, FramesAreNext, AtReceiver
  <1>7. SenderIsNear'
    BY <1>1, <1>2 DEF SendAck, senderVars, XmodemInv, SenderIsNear, Acked
  <1>8. Whole' /\ WrittenInOrder'
    BY DEF SendAck, XmodemInv, Whole, WrittenInOrder
  <1> QED BY <1>3, <1>4, <1>5, <1>6, <1>7, <1>8 DEF XmodemInv

LEMMA PurgeKeeps ==
  ASSUME XmodemInv, Purge
  PROVE  XmodemInv'
  <1> USE DEF Purge, locals, senderVars, XmodemInv
  <1>1. forth' = << >>
    BY One DEF OneAtATime
  <1>2. TypeOK'
    BY DEF TypeOK
  <1>3. OneAtATime'
    BY <1>1 DEF OneAtATime, AtReceiver, NothingOnLine
  <1>4. Counted' /\ Whole' /\ WrittenInOrder'
    BY DEF Counted, Whole, WrittenInOrder
  <1>5. FramesAreNext'
    BY <1>1 DEF FramesAreNext, AtReceiver, IsNext
  <1>6. SenderIsNear'
    BY DEF SenderIsNear, Acked
  <1> QED BY <1>2, <1>3, <1>4, <1>5, <1>6

\* The purge ends in silence the second time, if it did not the first.
LEMMA SendNackKeeps ==
  ASSUME XmodemInv, SendNack, MaxLate <= 1
  PROVE  XmodemInv'
  <1> DEFINE a == IF started THEN "nack" ELSE "c"
  <1>0. a \in {"nack", "c"} /\ a \in Answers
    BY DEF Answers
  <1>1. forth = << >> /\ back = << >> /\ late' \in 0..MaxLate
    BY XmodemBounds DEF SendNack, TimeOut, XmodemInv, TypeOK, OneAtATime, NothingOnLine
  <1>2. Answer(a)
    BY DEF SendNack
  <1> HIDE DEF a
  <1>3. /\ faults' \in 0..MaxFaults /\ back' \in Seq(Answers)
        /\ back' = << >> \/ (back' = <<a>> /\ Head(back') = a)
    BY <1>0, <1>1, <1>2, Answered DEF XmodemInv
  <1>4. TypeOK'
    BY <1>1, <1>3 DEF SendNack, locals, senderVars, XmodemInv, TypeOK
  <1>5. OneAtATime'
    BY <1>0, <1>1, <1>3 DEF SendNack, locals, OneAtATime, AtReceiver, NothingOnLine
  <1>6. Counted' /\ Whole' /\ WrittenInOrder'
    BY DEF SendNack, locals, XmodemInv, Counted, Whole, WrittenInOrder
  <1>7. FramesAreNext'
    BY <1>1 DEF SendNack, locals, FramesAreNext, AtReceiver, XmodemInv, Counted
  <1>8. SenderIsNear'
    BY <1>0, <1>1, <1>3 DEF SendNack, locals, senderVars, XmodemInv, SenderIsNear, Acked
  <1> QED BY <1>4, <1>5, <1>6, <1>7, <1>8 DEF XmodemInv

\* If something was on the line, the next second of silence is true.
LEMMA HeaderTimeOutKeeps ==
  ASSUME XmodemInv, HeaderTimeOut
  PROVE  XmodemInv'
  <1> USE DEF HeaderTimeOut, locals, senderVars, XmodemInv
  <1>1. NothingOnLine \/ late' = late + 1
    BY DEF TimeOut, NothingOnLine
  <1>2. ~ok /\ late \in Nat
    BY XmodemBounds DEF Counted, TypeOK
  <1>3. TypeOK'
    BY XmodemBounds DEF TimeOut, TypeOK
  <1>4. OneAtATime'
    BY <1>1, <1>2 DEF OneAtATime, AtReceiver, NothingOnLine
  <1>5. Counted' /\ Whole' /\ WrittenInOrder'
    BY DEF Counted, Whole, WrittenInOrder
  <1>6. FramesAreNext'
    BY <1>2 DEF FramesAreNext, AtReceiver, IsNext
  <1>7. SenderIsNear'
    BY <1>2 DEF SenderIsNear, Acked
  <1> QED BY <1>3, <1>4, <1>5, <1>6, <1>7

\* EOT comes when the whole file was written: next is above Blocks.  What is taken for
\* EOT may come before.
LEMMA HeaderKeeps ==
  ASSUME XmodemInv, Header
  PROVE  XmodemInv'
  <1> USE DEF Header, locals, senderVars, XmodemInv
  <1>1. forth' = << >> /\ back' = << >> /\ frame' \in Frames /\ IsNext(frame')
    <2>1. forth = <<Head(forth)>> /\ Head(forth) \in Frames /\ back = << >>
      BY DEF OneAtATime
    <2>2. forth' = << >>
      BY <2>1, One
    <2> QED BY <2>1, <2>2 DEF FramesAreNext, IsNext
  <1>2. /\ pc' \in {"send", "finish", "number"} /\ ~ok' /\ total' = Len(written)
        /\ pc' = "finish" /\ ~FalseEnd' => next > Blocks
        /\ pc' = "number" => next <= Blocks
    <2>0. total' # -1 /\ frame' = Head(forth) /\ pc' \in AfterHeader(frame')
      BY DEF Counted, OneAtATime
    <2>1. pc' = "finish" /\ ~FalseEnd' => frame'.type = "eot"
      BY <1>1, <2>0 DEF FalseEnd, Frames
    <2>2. pc' = "number" => frame'.type = "block"
      BY <1>1, <2>0 DEF Frames, AfterHeader
    <2>3. next > Blocks <=> ~(next <= Blocks)
      BY XmodemBounds DEF TypeOK
    <2>4. pc' = "finish" /\ ~FalseEnd' => next > Blocks
      BY <1>1, <2>1, <2>3 DEF IsNext
    <2>5. pc' = "number" => next <= Blocks
      BY <1>1, <2>2 DEF IsNext
    <2>6. pc' \in {"send", "finish", "number"} /\ ~ok' /\ total' = Len(written)
      BY <2>0 DEF Counted, AfterHeader
    <2> QED BY <2>4, <2>5, <2>6
  <1>3. TypeOK'
    BY <1>1, <1>2 DEF TypeOK, Frames
  <1>4. OneAtATime'
    BY <1>1, <1>2 DEF OneAtATime, NothingOnLine
  <1>5. Counted'
    BY <1>2 DEF Counted
  <1>6. FramesAreNext'
    BY <1>1, <1>2 DEF FramesAreNext, IsNext
  <1>7. SenderIsNear'
    BY <1>1, <1>2 DEF SenderIsNear, Acked
  <1>8. Whole'
    BY <1>2, XmodemBounds DEF Whole, SenderIsNear, Counted, TypeOK
  <1>9. WrittenInOrder'
    BY DEF WrittenInOrder
  <1> QED BY <1>3, <1>4, <1>5, <1>6, <1>7, <1>8, <1>9

\* The number read tells the sender's block from the one before, as they differ by one.
LEMMA NumberKeeps ==
  ASSUME XmodemInv, Number
  PROVE  XmodemInv'
  <1> DEFINE c == frame.k % Mod
             good == frame.damage # "number"
             L == Len(written)
  <1>1. /\ pc = "number" /\ ~ok /\ total = L /\ blockNumber = (L + 1) % Mod
        /\ IsNext(frame) /\ next <= Blocks /\ NothingOnLine /\ next \in {L, L + 1}
        /\ L \in Nat /\ blockNumber \in Int
    BY DEF Number, XmodemInv, Counted, FramesAreNext, OneAtATime, AtReceiver, SenderIsNear, TypeOK
  <1>2. L % Mod # (L + 1) % Mod
    BY <1>1, Successive
  <1>3. IsPrevious(c) => next = L
    <2>1. next = L + 1 => c = blockNumber
      BY <1>1 DEF IsNext
    <2>2. c = blockNumber => c # blockNumber - 1
      BY <1>1
    <2> QED BY <1>1, <2>1, <2>2 DEF IsPrevious
  <1>4. c = blockNumber => next = L + 1
    BY <1>1, <1>2 DEF IsNext
  <1>5. /\ pc' \in {"data", "send"}
        /\ dup' <=> dup \/ (good /\ IsPrevious(c))
        /\ pc' = "data" => IsPrevious(c) \/ c = blockNumber
        /\ pc' = "data" => good
    BY DEF Number
  <1>6. TypeOK'
    <2>1. dup' \in BOOLEAN
      BY DEF Number
    <2> QED BY <1>5, <2>1 DEF Number, senderVars, XmodemInv, TypeOK
  <1>7. OneAtATime'
    BY <1>1, <1>5 DEF Number, XmodemInv, OneAtATime, AtReceiver, NothingOnLine
  <1>8. Counted'
    BY <1>1, <1>5 DEF Number, XmodemInv, Counted
  <1>9. FramesAreNext'
    BY <1>1, <1>5 DEF Number, senderVars, XmodemInv, FramesAreNext, AtReceiver, IsNext
  <1>10. SenderIsNear'
    <2>1. dup' => next = L
      BY <1>1, <1>3, <1>5 DEF XmodemInv, SenderIsNear
    <2>2. pc' = "data" /\ ~dup' => next = L + 1
      BY <1>4, <1>5
    <2> QED BY <1>1, <2>1, <2>2 DEF Number, senderVars, NothingOnLine, SenderIsNear, Acked
  <1>11. Whole' /\ WrittenInOrder'
    BY <1>5 DEF Number, XmodemInv, Whole, WrittenInOrder
  <1> QED BY <1>6, <1>7, <1>8, <1>9, <1>10, <1>11 DEF XmodemInv

LEMMA BadDataKeeps ==
  ASSUME XmodemInv, BadData
  PROVE  XmodemInv'
  <1> USE DEF BadData, locals, senderVars, XmodemInv
  <1>1. TypeOK'
    BY DEF TypeOK
  <1>2. OneAtATime'
    BY DEF OneAtATime, AtReceiver, NothingOnLine
  <1>3. Counted' /\ Whole' /\ WrittenInOrder'
    BY DEF Counted, Whole, WrittenInOrder
  <1>4. FramesAreNext'
    BY DEF FramesAreNext, AtReceiver, IsNext
  <1>5. SenderIsNear'
    BY DEF SenderIsNear, Acked
  <1> QED BY <1>1, <1>2, <1>3, <1>4, <1>5

LEMMA DuplicateKeeps ==
  ASSUME XmodemInv, Duplicate
  PROVE  XmodemInv'
  <1> USE DEF Duplicate, senderVars, XmodemInv
  <1>1. TypeOK'
    BY DEF TypeOK
  <1>2. OneAtATime'
    BY DEF OneAtATime, AtReceiver, NothingOnLine
  <1>3. Counted' /\ Whole' /\ WrittenInOrder'
    BY DEF Counted, Whole, WrittenInOrder
  <1>4. FramesAreNext'
    BY DEF FramesAreNext, AtReceiver, IsNext
  <1>5. SenderIsNear'
    BY DEF SenderIsNear, Acked
  <1> QED BY <1>1, <1>2, <1>3, <1>4, <1>5

\* The block is the next one.
LEMMA NewBlockKeeps ==
  ASSUME XmodemInv, NewBlock
  PROVE  XmodemInv'
  <1> DEFINE L == Len(written)
  <1>1. /\ pc = "data" /\ total = L /\ blockNumber = (L + 1) % Mod /\ frame.k = L + 1 /\ next = L + 1
        /\ next <= Blocks /\ IsNext(frame) /\ NothingOnLine
        /\ L \in Nat /\ written \in Seq(1..Blocks)
    BY DEF NewBlock, XmodemInv, Counted, FramesAreNext, OneAtATime, AtReceiver, SenderIsNear, TypeOK,
           IsNext
  <1>2. /\ written' \in Seq(1..Blocks) /\ Len(written') = L + 1
        /\ \A i \in 1..(L + 1) : written'[i] = i
    <2>1. written' = Append(written, L + 1) /\ L + 1 \in 1..Blocks
      BY <1>1, XmodemBounds DEF NewBlock
    <2>2. \A i \in 1..L : written[i] = i
      BY DEF XmodemInv, WrittenInOrder
    <2> QED BY ONLY <1>1, <2>1, <2>2
  <1>3. blockNumber' = (L + 2) % Mod /\ total' = L + 1
    <2>1. (((L + 1) % Mod) + 1) % Mod = (L + 2) % Mod
      BY <1>1, Successive
    <2> QED BY <1>1, <2>1 DEF NewBlock
  <1>4. TypeOK'
    <2>1. blockNumber' \in 0..(Mod - 1) /\ total' \in -1..Blocks
      BY <1>1, <1>3, XmodemBounds
    <2> QED BY <1>2, <2>1 DEF NewBlock, senderVars, XmodemInv, TypeOK
  <1>5. OneAtATime'
    BY <1>1 DEF NewBlock, XmodemInv, OneAtATime, AtReceiver, NothingOnLine
  <1>6. Counted'
    BY <1>1, <1>2, <1>3 DEF NewBlock, Counted
  <1>7. FramesAreNext'
    BY <1>1 DEF NewBlock, senderVars, FramesAreNext, AtReceiver, IsNext, NothingOnLine
  <1>8. SenderIsNear'
    BY <1>1, <1>2 DEF NewBlock, senderVars, SenderIsNear, Acked, NothingOnLine
  <1>9. Whole' /\ WrittenInOrder'
    BY <1>2 DEF NewBlock, Whole, WrittenInOrder
  <1> QED BY <1>4, <1>5, <1>6, <1>7, <1>8, <1>9 DEF XmodemInv

LEMMA WriteFailsKeeps ==
  ASSUME XmodemInv, WriteFails
  PROVE  XmodemInv'
  <1> USE DEF WriteFails, senderVars, XmodemInv
  <1>1. TypeOK'
    BY XmodemBounds DEF TypeOK
  <1>2. OneAtATime'
    BY DEF OneAtATime, AtReceiver, NothingOnLine
  <1>3. Counted' /\ Whole' /\ WrittenInOrder' /\ SenderIsNear'
    BY DEF Counted, Whole, WrittenInOrder, SenderIsNear
  <1>4. FramesAreNext'
    BY DEF FramesAreNext, AtReceiver, IsNext
  <1> QED BY <1>1, <1>2, <1>3, <1>4

LEMMA FinishKeeps ==
  ASSUME XmodemInv, Finish
  PROVE  XmodemInv'
  <1> DEFINE a == IF total = -1 THEN "can" ELSE "ack"
  <1>1. a \in Answers /\ Answer(a)
    BY DEF Finish, Answers
  <1>2. forth = << >> /\ back = << >>
    BY DEF Finish, XmodemInv, OneAtATime, AtReceiver, NothingOnLine
  <1> HIDE DEF a
  <1>3. /\ faults' \in 0..MaxFaults /\ back' \in Seq(Answers)
        /\ back' = << >> \/ (back' = <<a>> /\ Head(back') = a)
    BY <1>1, <1>2, Answered DEF XmodemInv
  <1>4. TypeOK'
    BY <1>3 DEF Finish, locals, senderVars, XmodemInv, TypeOK
  <1>5. OneAtATime'
    BY <1>1, <1>2, <1>3 DEF Finish, locals, XmodemInv, OneAtATime, AtReceiver, Counted
  <1>6. Counted' /\ Whole' /\ WrittenInOrder' /\ SenderIsNear'
    BY DEF Finish, locals, XmodemInv, Counted, Whole, FalseEnd, WrittenInOrder, SenderIsNear
  <1>7. FramesAreNext'
    BY <1>2 DEF Finish, locals, XmodemInv, FramesAreNext, AtReceiver
  <1> QED BY <1>4, <1>5, <1>6, <1>7 DEF XmodemInv

--------------------------------------------------------------------------------
(* The sender's steps: the line carried its answer, so the receiver waits. *)

LEMMA Received ==
  ASSUME XmodemInv, NEW a, SenderAnswered(a)
  PROVE  /\ forth = << >> /\ back = <<a>> /\ back' = << >> /\ Head(back) = a
         /\ ~AtReceiver /\ ~ok /\ (pc = "send" => late # 0)
  <1>1. back # << >> /\ Head(back) = a /\ back' = Tail(back)
    BY DEF SenderAnswered
  <1>2. forth = << >> /\ back = <<a>> /\ ~AtReceiver /\ (pc = "send" => ok \/ late # 0)
    BY <1>1 DEF XmodemInv, OneAtATime, NothingOnLine
  <1>3. ~ok
    BY <1>2 DEF XmodemInv, Counted, AtReceiver
  <1> QED BY <1>1, <1>2, <1>3, One

LEMMA SenderResendsKeeps ==
  ASSUME XmodemInv, SenderResends
  PROVE  XmodemInv'
  <1>1. PICK a \in {"c", "nack"} : SenderAnswered(a)
    BY DEF SenderResends
  <1>2. /\ forth = << >> /\ back = <<a>> /\ back' = << >> /\ Head(back) = a
        /\ ~AtReceiver /\ ~ok /\ (pc = "send" => late # 0)
    BY <1>1, Received
  <1>3. next \in 1..Blocks + 1
    BY DEF XmodemInv, TypeOK
  <1>4. /\ faults' \in 0..MaxFaults
        /\ \/ forth' = << >>
           \/ /\ forth' = <<Head(forth')>> /\ Head(forth') \in Frames
              /\ Head(forth').k = next /\ (Head(forth').type = "block" <=> next <= Blocks)
    BY <1>2, <1>3, Transmitted DEF XmodemInv, SenderResends
  <1> USE DEF SenderResends, locals, senderVars, XmodemInv
  <1>5. TypeOK'
    BY <1>2, <1>4, OneIsSeq DEF TypeOK
  <1>6. OneAtATime'
    BY <1>2, <1>4 DEF OneAtATime, AtReceiver, NothingOnLine
  <1>7. Counted' /\ Whole' /\ WrittenInOrder'
    BY DEF Counted, Whole, FalseEnd, WrittenInOrder
  <1>8. FramesAreNext'
    BY <1>2, <1>4 DEF FramesAreNext, AtReceiver, IsNext
  <1>9. SenderIsNear'
    BY <1>2 DEF SenderIsNear, Acked
  <1> QED BY <1>5, <1>6, <1>7, <1>8, <1>9

\* The acknowledgement told it that the block it is at was written.
LEMMA SenderAdvancesKeeps ==
  ASSUME XmodemInv, SenderAdvances
  PROVE  XmodemInv'
  <1>1. /\ forth = << >> /\ back = <<"ack">> /\ back' = << >> /\ Head(back) = "ack"
        /\ ~AtReceiver /\ ~ok /\ (pc = "send" => late # 0)
    BY Received DEF SenderAdvances
  <1>2. next \in 1..Blocks + 1 /\ next <= Blocks /\ next' = next + 1 /\ next' \in 1..Blocks + 1
    BY XmodemBounds DEF SenderAdvances, XmodemInv, TypeOK
  <1>3. /\ faults' \in 0..MaxFaults
        /\ \/ forth' = << >>
           \/ /\ forth' = <<Head(forth')>> /\ Head(forth') \in Frames
              /\ Head(forth').k = next' /\ (Head(forth').type = "block" <=> next' <= Blocks)
    BY <1>1, <1>2, Transmitted DEF XmodemInv, SenderAdvances
  <1> USE DEF SenderAdvances, locals, XmodemInv
  <1>4. TypeOK'
    BY <1>1, <1>2, <1>3, OneIsSeq DEF TypeOK
  <1>5. OneAtATime'
    BY <1>1, <1>3 DEF OneAtATime, AtReceiver, NothingOnLine
  <1>6. Counted' /\ Whole' /\ WrittenInOrder'
    BY DEF Counted, Whole, FalseEnd, WrittenInOrder
  <1>7. FramesAreNext'
    BY <1>1, <1>2, <1>3 DEF FramesAreNext, AtReceiver, IsNext
  <1>8. SenderIsNear'
    <2> SUFFICES ASSUME pc \notin {"finish", "returned"}
                 PROVE  SenderIsNear'
      BY DEF SenderIsNear
    <2>1. next = Len(written) /\ ~dup
      BY <1>1 DEF SenderIsNear, Acked
    <2> QED BY <1>1, <1>2, <2>1 DEF SenderIsNear, Acked, AtReceiver
  <1> QED BY <1>4, <1>5, <1>6, <1>7, <1>8

LEMMA SenderEndsKeeps ==
  ASSUME XmodemInv, SenderEnds
  PROVE  XmodemInv'
  <1>1. PICK a : SenderAnswered(a)
    BY DEF SenderEnds
  <1>2. back' = << >> /\ ~AtReceiver
    BY <1>1, Received
  <1>3. sender' \in {"done", "cancelled"}
    BY DEF SenderEnds
  <1> USE DEF SenderEnds, locals, XmodemInv
  <1>4. TypeOK'
    BY <1>2, <1>3, OneIsSeq DEF TypeOK
  <1>5. OneAtATime'
    BY <1>2 DEF OneAtATime, AtReceiver, NothingOnLine
  <1>6. Counted' /\ Whole' /\ WrittenInOrder'
    BY DEF Counted, Whole, FalseEnd, WrittenInOrder
  <1>7. FramesAreNext'
    BY <1>2 DEF FramesAreNext, AtReceiver, IsNext
  <1>8. SenderIsNear'
    BY <1>2 DEF SenderIsNear, Acked, AtReceiver
  <1> QED BY <1>4, <1>5, <1>6, <1>7, <1>8

LEMMA Keeps ==
  ASSUME XmodemInv, [Next]_vars, MaxLate <= 1
  PROVE  XmodemInv'
  <1>1. CASE UNCHANGED vars
    BY <1>1
    DEF vars, locals, senderVars, XmodemInv, TypeOK, OneAtATime, AtReceiver, NothingOnLine, Counted,
        FramesAreNext, IsNext, SenderIsNear, Acked, Whole, FalseEnd, WrittenInOrder
  <1>2. CASE Receiver
    BY <1>2, SendAckKeeps, PurgeKeeps, SendNackKeeps, HeaderTimeOutKeeps, HeaderKeeps, NumberKeeps,
       BadDataKeeps, DuplicateKeeps, NewBlockKeeps, WriteFailsKeeps, FinishKeeps
    DEF Receiver
  <1>3. CASE Sender
    BY <1>3, SenderResendsKeeps, SenderAdvancesKeeps, SenderEndsKeeps DEF Sender
  <1> QED BY <1>1, <1>2, <1>3 DEF Next

THEOREM ReceptionKeepsXmodemInv ==
  ASSUME MaxLate <= 1
  PROVE  Spec => []XmodemInv
  <1>1. Init => XmodemInv
    BY Start
  <1>2. XmodemInv /\ [Next]_vars => XmodemInv'
    BY Keeps
  <1> QED BY <1>1, <1>2, PTL DEF Spec

--------------------------------------------------------------------------------
(* What a reception promises. *)

\* xmodem_receive only acknowledges a block it gave to its client, and what it gave
\* is the beginning of the file, each block once, for every file, size of the block
\* number and loss, if one second of silence is wrong once at most.
THEOREM ReceptionIsSafe ==
  ASSUME MaxLate <= 1
  PROVE  Spec => []SafeReception
  <1>1. XmodemInv => SafeReception
    <2> SUFFICES ASSUME XmodemInv
                 PROVE  SafeReception
      OBVIOUS
    <2>1. AckedIsWritten
      <3> SUFFICES ASSUME pc = "send", ok
                   PROVE  \E i \in 1..Len(written) : written[i] = frame.k
        BY DEF AckedIsWritten
      <3>1. frame.k = Len(written) /\ Len(written) \in 1..Len(written)
        BY DEF XmodemInv, FramesAreNext, AtReceiver, IsNext, SenderIsNear, TypeOK
      <3>2. written[Len(written)] = Len(written)
        BY <3>1 DEF XmodemInv, WrittenInOrder
      <3> QED BY <3>1, <3>2
    <2> QED BY <2>1 DEF SafeReception, XmodemInv
  <1>2. Spec => []XmodemInv
    BY ReceptionKeepsXmodemInv
  <1> QED BY <1>1, <1>2, PTL

Flawless == ~short /\ ~FalseEnd

\* A block accepted is a block delivered, the return of xmodem_receive is the result,
\* and the rest is not seen from outside.
LEMMA StepIsTransfer ==
  ASSUME XmodemInv, [Next]_vars
  PROVE  [Reception!Next]_<<written, Flawless, Result>>
  <1>0. short \in BOOLEAN
    BY DEF XmodemInv, TypeOK
  <1>1. ASSUME pc \notin {"finish", "returned"}, UNCHANGED <<written, short>>,
               pc' \notin {"finish", "returned"}
        PROVE  UNCHANGED <<written, Flawless, Result>>
    BY <1>1 DEF Result, Flawless, FalseEnd
  <1>2. CASE UNCHANGED vars
    BY <1>2 DEF vars, locals, Result, Flawless, FalseEnd
  <1>3. CASE NewBlock
    <2>1. Result = "none" /\ Result' = "none" /\ (Flawless <=> ~short) /\ (Flawless' <=> ~short')
          /\ short' \in {short, TRUE}
      BY <1>3 DEF NewBlock, Result, Flawless, FalseEnd
    <2>2. /\ written \in Seq(1..Blocks) /\ pc = "data" /\ ~dup
          /\ frame.k = next /\ next = Len(written) + 1 /\ next <= Blocks
      BY <1>3 DEF NewBlock, XmodemInv, TypeOK, FramesAreNext, AtReceiver, IsNext, SenderIsNear
    <2>3. Len(written) < Blocks /\ written' = Append(written, Len(written) + 1)
      BY <1>3, <2>2, XmodemBounds DEF NewBlock
    <2>4. Flawless' \in {Flawless, FALSE}
      BY <1>0, <2>1, Zenon DEF Flawless
    <2> QED BY <2>1, <2>3, <2>4 DEF Reception!Next, Reception!Deliver, Flawless
  <1>4. CASE Finish
    <2>1. /\ Result = "none" /\ UNCHANGED <<written, short, total, frame>>
          /\ Result' = IF total = -1 THEN "failed" ELSE "ok"
          /\ pc = "finish" /\ pc' = "returned"
      BY <1>4 DEF Finish, locals, Result
    <2>2. Flawless' = Flawless
      BY <2>1 DEF Flawless, FalseEnd
    <2>3. total # -1 => (Flawless => Len(written) = Blocks)
      BY <2>1 DEF XmodemInv, Whole, Flawless
    <2> QED BY <2>1, <2>2, <2>3 DEF Reception!Next, Reception!Succeed, Reception!Fail, Flawless
  <1>5. CASE Sender
    BY <1>5 DEF Sender, SenderResends, SenderAdvances, SenderEnds, locals, Result, Flawless, FalseEnd
  <1>6. CASE SendAck \/ Purge \/ SendNack \/ HeaderTimeOut
    BY <1>1, <1>6 DEF SendAck, Purge, SendNack, HeaderTimeOut
  <1>7. CASE Number \/ BadData \/ Duplicate
    BY <1>1, <1>7 DEF Number, BadData, Duplicate
  <1>8. CASE WriteFails
    BY <1>8 DEF WriteFails, Result, Flawless, FalseEnd
  <1>9. CASE Header
    <2>1. Result = "none" /\ Result' = "none" /\ UNCHANGED <<written, short>> /\ ~FalseEnd
      BY <1>9 DEF Header, AfterHeader, Result, FalseEnd
    <2>2. CASE FalseEnd'
      BY <2>1, <2>2 DEF Reception!Next, Reception!MistakeEnd, Flawless
    <2>3. CASE ~FalseEnd'
      BY <2>1, <2>3 DEF Flawless
    <2> QED BY <2>2, <2>3
  <1> QED BY <1>2, <1>3, <1>4, <1>5, <1>6, <1>7, <1>8, <1>9 DEF Next, Receiver

\* Under the same hypothesis, a reception is a Transfer: blocks are given once each,
\* in order, and success is only reported for whole files, unless a first byte was
\* taken for EOT (xmodem.cc:108-109) or the client took less than a block
\* (xmodem.cc:149-155).
THEOREM ReceptionIsTransfer ==
  ASSUME MaxLate <= 1
  PROVE  Spec => ImplementsTransfer
  <1>1. Init => Reception!Init
    BY DEF Init, Reception!Init, Result, FalseEnd
  <1>2. XmodemInv /\ [Next]_vars => [Reception!Next]_<<written, Flawless, Result>>
    BY StepIsTransfer
  <1>3. Spec => []XmodemInv
    BY ReceptionKeepsXmodemInv
  <1> QED BY <1>1, <1>2, <1>3, PTL
         DEF Spec, ImplementsTransfer, Reception!Spec, Reception!transferVars, Flawless

--------------------------------------------------------------------------------
(* However late the line: files of fewer blocks than there are numbers. *)

GoodFrames == {f \in Frames : f.type = "block" => f.k <= Blocks}

\* A number names one block of the file.
NumbersTell ==
    /\ forth \in Seq(GoodFrames) /\ frame \in GoodFrames
    /\ written \in Seq(1..Blocks) /\ Len(written) <= Blocks /\ next \in 1..(Blocks + 1)
    /\ pc \notin {"finish", "returned"} => blockNumber = (Len(written) + 1) % Mod
    /\ pc \in {"number", "data"} => frame.type = "block"
    /\ pc = "data" /\ ~dup => frame.k % Mod = blockNumber

LEMMA TransmitsGood ==
  ASSUME forth \in Seq(GoodFrames), NEW n \in 1..(Blocks + 1), Transmit(Frame(n))
  PROVE  forth' \in Seq(GoodFrames)
  <1> DEFINE f == Frame(n)
  <1>1. f \in GoodFrames
    BY XmodemBounds DEF Frame, GoodFrames, Frames, EOT, Block, Stages
  <1>2. ASSUME NEW s \in Stages
        PROVE  [f EXCEPT !.damage = s] \in GoodFrames
    BY <1>1 DEF GoodFrames, Frames
  <1>3. \E g \in GoodFrames : forth' = Append(forth, g) \/ forth' = forth
    BY <1>1, <1>2 DEF Transmit, Stages
  <1> QED BY <1>3, AppendProperties

LEMMA NumbersKeepTelling ==
  ASSUME Blocks < Mod, NumbersTell, WrittenInOrder, [Next]_vars
  PROVE  NumbersTell' /\ WrittenInOrder'
  <1> USE DEF NumbersTell, WrittenInOrder
  <1>1. CASE UNCHANGED vars
    BY <1>1 DEF vars, locals, senderVars
  <1>2. CASE SendAck \/ SendNack \/ HeaderTimeOut
    BY <1>2 DEF SendAck, SendNack, HeaderTimeOut, locals, senderVars
  <1>3. CASE Purge
    <2>1. forth' \in Seq(GoodFrames)
      BY <1>3, HeadTailProperties DEF Purge
    <2> QED BY <1>3, <2>1 DEF Purge, locals, senderVars
  <1>4. CASE Header
    <2>1. forth' \in Seq(GoodFrames) /\ frame' \in GoodFrames
      BY <1>4, HeadTailProperties DEF Header
    <2>2. pc' \notin {"finish", "returned"} /\ pc' = "number" => frame'.type = "block"
      BY <1>4, <2>1 DEF Header, AfterHeader, GoodFrames, Frames
    <2>3. pc = "header" /\ pc' \in {"send", "finish", "number"}
      BY <1>4 DEF Header, AfterHeader
    <2> QED BY <1>4, <2>1, <2>2, <2>3 DEF Header, locals, senderVars
  <1>5. CASE Number
    <2>1. pc' = "data" /\ ~dup' => frame.k % Mod = blockNumber
      BY <1>5 DEF Number
    <2>2. pc = "number" /\ pc' \in {"send", "data"}
      BY <1>5 DEF Number
    <2> QED BY <1>5, <2>1, <2>2 DEF Number, senderVars
  <1>6. CASE BadData \/ Duplicate \/ WriteFails \/ Finish
    BY <1>6 DEF BadData, Duplicate, WriteFails, Finish, locals, senderVars
  <1>7. CASE NewBlock
    <2>1. PICK L \in Nat : L = Len(written)
      OBVIOUS
    <2>2. PICK k \in 1..Blocks : k = frame.k
      BY <1>7 DEF NewBlock, GoodFrames, Frames
    <2>3. k = L + 1
      <3>1. k % Mod = (L + 1) % Mod
        BY <1>7, <2>1, <2>2 DEF NewBlock
      <3>2. L <= Blocks
        BY <2>1
      <3> QED BY ONLY <3>1, <3>2, k \in 1..Blocks, L \in Nat, Blocks < Mod, XmodemBounds
    <2>4. /\ written' \in Seq(1..Blocks) /\ Len(written') = L + 1
          /\ \A i \in 1..(L + 1) : written'[i] = i
      <3>1. written' = Append(written, k)
        BY <1>7, <2>2 DEF NewBlock
      <3> QED BY <2>1, <2>3, <3>1
    <2>5. blockNumber' = (L + 2) % Mod
      <3>1. (((L + 1) % Mod) + 1) % Mod = (L + 2) % Mod
        BY Successive
      <3> QED BY <1>7, <2>1, <3>1 DEF NewBlock
    <2>6. L + 1 <= Blocks
      BY <2>3
    <2> QED BY <1>7, <2>4, <2>5, <2>6 DEF NewBlock, senderVars
  <1>8. CASE SenderResends
    <2>1. forth' \in Seq(GoodFrames)
      BY <1>8, TransmitsGood DEF SenderResends
    <2> QED BY <1>8, <2>1 DEF SenderResends, locals, senderVars
  <1>9. CASE SenderAdvances
    <2>1. next' \in 1..(Blocks + 1)
      BY <1>9, XmodemBounds DEF SenderAdvances
    <2>2. forth' \in Seq(GoodFrames)
      BY <1>9, <2>1, TransmitsGood DEF SenderAdvances
    <2> QED BY <1>9, <2>1, <2>2 DEF SenderAdvances, locals
  <1>10. CASE SenderEnds
    BY <1>10 DEF SenderEnds, locals
  <1> QED
    BY <1>1, <1>2, <1>3, <1>4, <1>5, <1>6, <1>7, <1>8, <1>9, <1>10 DEF Next, Receiver, Sender

\* However often the line is late, a file of fewer blocks than there are numbers is
\* written in order, each block once: what an early nack can lose (xmodem_stale_dup)
\* is the end of it.
THEOREM ShortFilesAreWrittenInOrder ==
  ASSUME Blocks < Mod
  PROVE  Spec => []WrittenInOrder
  <1>1. Init => NumbersTell /\ WrittenInOrder
    <2> SUFFICES ASSUME Init
                 PROVE  NumbersTell /\ WrittenInOrder
      OBVIOUS
    <2>1. << >> \in Seq(GoodFrames) /\ << >> \in Seq(1..Blocks) /\ Len(<< >>) = 0
      OBVIOUS
    <2>2. EOT \in GoodFrames
      BY XmodemBounds DEF EOT, GoodFrames, Frames, Stages
    <2>3. (0 + 1) % Mod = 1
      BY XmodemBounds
    <2> QED BY <2>1, <2>2, <2>3, XmodemBounds DEF Init, NumbersTell, WrittenInOrder
  <1>2. NumbersTell /\ WrittenInOrder /\ [Next]_vars => (NumbersTell /\ WrittenInOrder)'
    BY NumbersKeepTelling
  <1> QED BY <1>1, <1>2, PTL DEF Spec
================================================================================
