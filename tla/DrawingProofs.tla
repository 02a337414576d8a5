----------------------------- MODULE DrawingProofs -----------------------------
(***************************************************************************)
(* Proofs about drawing, by the program (SdlFrameBuffer) and by a          *)
(* controller that goes on meanwhile (Dma2d).  For any surfaces, sizes,    *)
(* positions and colors, and any number of calls, each pixel under what is *)
(* drawn takes what is drawn there, and no other pixel changes.  And about *)
(* showing it (Dsi): for any panel, layers and commands, frames show       *)
(* layers which are whole, and the display gets each command.              *)
(***************************************************************************)
EXTENDS SdlFrameBuffer, Dma2d, Dsi, SequenceTheorems, TLAPS

--------------------------------------------------------------------------------
(* Pictures. *)

\* Clipping keeps what is inside, and moves the source as it moves the destination.
LEMMA ClipKeepsInside ==
  ASSUME NEW x \in Int, NEW w \in Int, NEW width \in Nat, NEW k, k = Clip(x, w, width)
  PROVE  /\ k.at \in Nat /\ k.from \in Nat /\ k.size \in Int
         /\ k.from - k.at = -x
         /\ k.size > 0 => k.at + k.size <= width /\ k.from + k.size <= w
         /\ \A i \in 0..width - 1 : i \in x..x + w - 1 <=> i \in k.at..k.at + k.size - 1
<1>1. CASE x < 0
  <2>1. k.at = 0 /\ k.from = -x /\ k.size = IF 0 + (w + x) > width THEN width - 0 ELSE w + x
    BY <1>1 DEF Clip
  <2>2. k.size = IF w + x > width THEN width ELSE w + x
    BY <2>1
  <2> QED BY <1>1, <2>1, <2>2
<1>2. CASE x >= 0
  <2>1. k.at = x /\ k.from = 0 /\ k.size = IF x + w > width THEN width - x ELSE w
    BY <1>2 DEF Clip
  <2> QED BY <1>2, <2>1
<1> QED BY <1>1, <1>2

\* The rows of a surface do not overlap.
LEMMA RowsAreApart ==
  ASSUME NEW s \in Nat, NEW a \in Nat, NEW b \in Nat, NEW x \in 0..s - 1, NEW y \in 0..s - 1,
         a * s + x = b * s + y
  PROVE  a = b /\ x = y
<1>1. ASSUME NEW i \in Nat, NEW j \in Nat, i < j
      PROVE  i * s + s <= j * s
  <2>1. PICK k \in Nat : j = i + 1 + k
    <3>1. j - i - 1 \in Nat /\ j = i + 1 + (j - i - 1)
      BY <1>1
    <3> QED BY <3>1
  <2>2. j * s = i * s + s + k * s /\ k * s >= 0 /\ i * s \in Nat
    BY <2>1
  <2> QED BY <2>2
<1>2. ~(a < b)
  <2>1. SUFFICES ASSUME a < b PROVE FALSE
    OBVIOUS
  <2>2. a * s + s <= b * s /\ a * s \in Nat /\ b * s \in Nat
    BY <1>1, <2>1
  <2> QED BY <2>2
<1>3. ~(b < a)
  <2>1. SUFFICES ASSUME b < a PROVE FALSE
    OBVIOUS
  <2>2. b * s + s <= a * s /\ a * s \in Nat /\ b * s \in Nat
    BY <1>1, <2>1
  <2> QED BY <2>2
<1>4. a = b
  BY <1>2, <1>3
<1>5. a * s \in Nat
  OBVIOUS
<1> QED BY <1>4, <1>5

LEMMA Divided ==
  ASSUME NEW p \in Nat, NEW s \in Nat, s > 0
  PROVE  p \div s \in Nat /\ p % s \in 0..s - 1 /\ p = (p \div s) * s + (p % s)
OBVIOUS

\* The rows of a picture hold all its pixels.
LEMMA RowAndColumn ==
  ASSUME NEW h \in Nat, NEW s \in Nat, NEW p \in 0..h * s - 1
  PROVE  /\ p \div s \in 0..h - 1 /\ p % s \in 0..s - 1
         /\ p = (p \div s) * s + (p % s)
<1>1. p \in Nat /\ p < h * s
  OBVIOUS
<1>2. s > 0
  BY <1>1
<1>3. p \div s \in Nat /\ p % s \in 0..s - 1 /\ p = (p \div s) * s + (p % s)
  BY <1>1, <1>2, Divided
<1>4. p \div s < h
  <2>1. SUFFICES ASSUME p \div s >= h PROVE FALSE
    BY <1>1, <1>3
  <2>2. PICK q \in Nat, z \in 0..s - 1 : q = p \div s /\ p = q * s + z
    BY <1>3
  <2>3. PICK k \in Nat : q = h + k
    <3>1. q - h \in Nat /\ q = h + (q - h)
      BY <1>1, <2>1, <2>2
    <3> QED BY <3>1
  <2>4. q * s = h * s + k * s /\ k * s >= 0 /\ h * s \in Nat
    BY <1>1, <2>3
  <2>5. p >= h * s
    BY <1>1, <2>2, <2>4
  <2> QED BY <1>1, <2>5
<1> QED BY <1>1, <1>3, <1>4

\* And nothing else.
LEMMA CellIsInside ==
  ASSUME NEW h \in Nat, NEW s \in Nat, NEW y \in 0..h - 1, NEW x \in 0..s - 1
  PROVE  y * s + x \in 0..h * s - 1
<1>1. PICK k \in Nat : h = y + 1 + k
  <2>1. h - y - 1 \in Nat /\ h = y + 1 + (h - y - 1)
    OBVIOUS
  <2> QED BY <2>1
<1>2. h * s = y * s + s + k * s /\ k * s \in Nat /\ y * s \in Nat
  BY <1>1
<1> QED BY <1>2

\* The pixels of a line which is drawn are those of a row, from a column on.
LEMMA LineIsInRow ==
  ASSUME NEW h \in Nat, NEW s \in Nat, NEW p \in 0..h * s - 1, NEW y \in Nat, NEW x \in Nat,
         NEW n \in Nat, x + n <= s
  PROVE  LET to == y * s + x
         IN  /\ p \in to..to + n - 1 <=> p \div s = y /\ p % s \in x..x + n - 1
             /\ p \div s = y => p - to = (p % s) - x
<1>1. PICK r \in Nat, c \in 0..s - 1 : r = p \div s /\ c = p % s /\ p = r * s + c
  BY RowAndColumn
<1>2. s \in Nat /\ r * s \in Nat /\ y * s \in Nat
  BY <1>1
<1>3. ASSUME r = y
      PROVE  /\ p - (y * s + x) = c - x
             /\ p \in (y * s + x)..(y * s + x) + n - 1 <=> c \in x..x + n - 1
  BY <1>1, <1>2, <1>3
<1>4. ASSUME p \in (y * s + x)..(y * s + x) + n - 1
      PROVE  r = y
  <2>1. PICK d \in 0..n - 1 : p = y * s + (x + d)
    <3>1. p - (y * s + x) \in 0..n - 1 /\ p = y * s + (x + (p - (y * s + x)))
      BY <1>1, <1>2, <1>4
    <3> QED BY <3>1
  <2>2. x + d \in 0..s - 1
    BY <2>1, <1>2
  <2>3. r * s + c = y * s + (x + d)
    BY <1>1, <2>1
  <2>4. c \in 0..s - 1 /\ r \in Nat
    BY <1>1
  <2> QED BY <1>2, <2>2, <2>3, <2>4, RowsAreApart
<1> QED BY <1>1, <1>3, <1>4

--------------------------------------------------------------------------------
(* Dma2d. *)

Pixels == 0..Destination.h * Destination.stride - 1
Column(p) == p % Destination.stride
Row(p) == p \div Destination.stride

\* What a call draws over, not cut.
Place(c) == IF c.op = "fill" THEN c.rect
            ELSE [x |-> c.at.x, y |-> c.at.y, w |-> c.surface.w, h |-> c.surface.h]
Under(r, x, y) == x \in r.x..r.x + r.w - 1 /\ y \in r.y..r.y + r.h - 1

\* What it draws there.
Put(c, x, y, old) ==
    Drawn(c.op, old, IF c.op = "fill" THEN << >> ELSE Over(c.surface, c.at.x, c.at.y, x, y),
          IF c.op = "fill" THEN OutputColor(c.color) ELSE c.color)

\* What a pixel becomes once the rows from the first one left are drawn, then once
\* the call which waits is done.
Rest(c, first, p, old) == IF Row(p) >= first THEN Should(c, p, old) ELSE old
Later(c, p, old) == IF c = NoCall THEN old ELSE Should(c, p, old)

FirstLeft(c) == ClipY(c).at + ClipY(c).size - line

DmaTypes ==
    /\ line \in Nat
    /\ dst = [p \in Pixels |-> dst[p]]
    /\ shown = [p \in Pixels |-> shown[p]]

\* A call which waits has something to draw, or no pixel.
CallWaits ==
    asked # NoCall => asked \in Calls /\ OnBytes(asked)
                      /\ ClipX(asked).size >= 0 /\ ClipY(asked).size >= 0

\* The registers are those of the call in progress.
InProgress(c) ==
    /\ OnBytes(c) /\ ClipX(c).size > 0 /\ ClipY(c).size >= line
    /\ reg = Programmed(c, ClipX(c), ClipY(c))

IdleIsDrawn == line = 0 => \A p \in Pixels : shown[p] = Later(asked, p, dst[p])
RestIsDrawn ==
    line > 0 =>
        \E c \in Calls : /\ InProgress(c)
                         /\ \A p \in Pixels :
                              shown[p] = Later(asked, p, Rest(c, FirstLeft(c), p, dst[p]))

DmaInv == DmaTypes /\ CallWaits /\ IdleIsDrawn /\ RestIsDrawn

LEMMA DestinationIs ==
  /\ Destination.h \in Nat /\ Destination.w \in Nat /\ Destination.stride \in Nat
  /\ Destination.w <= Destination.stride /\ bpp[Destination.format] \in {16, 24, 32}
  /\ Destination.pixels = [p \in Pixels |-> Destination.pixels[p]]
<1>1. IsSurface(Destination) /\ HasColor(Destination.format)
  BY DmaSurfacesAre
<1> QED BY <1>1 DEF IsSurface, HasColor, Formats, bpp, Pixels

LEMMA PixelIsAt ==
  ASSUME NEW p \in Pixels
  PROVE  /\ Row(p) \in 0..Destination.h - 1 /\ Column(p) \in 0..Destination.stride - 1
         /\ p = Row(p) * Destination.stride + Column(p)
<1>1. PICK h \in Nat, s \in Nat : h = Destination.h /\ s = Destination.stride
  BY DestinationIs
<1>2. p \in 0..h * s - 1
  BY <1>1 DEF Pixels
<1>3. p \div s \in 0..h - 1 /\ p % s \in 0..s - 1 /\ p = (p \div s) * s + (p % s)
  BY <1>2, RowAndColumn
<1> QED BY <1>1, <1>3 DEF Row, Column

--------------------------------------------------------------------------------
(* Calls of Dma2d. *)

LEMMA CallIs ==
  ASSUME NEW c \in Calls
  PROVE  /\ c.op \in {"fill", "blit", "blend"} /\ c # NoCall
         /\ c.op # "fill" => IsSurface(c.surface) /\ c.surface \in DmaSurfaces
         /\ Place(c).x \in Int /\ Place(c).y \in Int /\ Place(c).w \in Int /\ Place(c).h \in Int
         /\ ClipX(c) = DmaClip(Place(c).x, Place(c).w, Destination.w)
         /\ ClipY(c) = DmaClip(Place(c).y, Place(c).h, Destination.h)
<1>1. CASE \E r \in DmaRects, k \in DmaColors : c = [op |-> "fill", rect |-> r, color |-> k]
  <2>1. PICK r \in DmaRects : c.op = "fill" /\ c.rect = r
    BY <1>1
  <2>2. r.x \in Int /\ r.y \in Int /\ r.w \in Int /\ r.h \in Int
    BY DmaSurfacesAre
  <2>3. Place(c) = r
    BY <2>1 DEF Place
  <2>4. ClipX(c) = DmaClip(r.x, r.w, Destination.w) /\ ClipY(c) = DmaClip(r.y, r.h, Destination.h)
    BY <2>1 DEF ClipX, ClipY
  <2> QED BY <2>1, <2>2, <2>3, <2>4 DEF NoCall
<1>2. CASE \E s \in DmaSurfaces, at \in DmaPositions :
             c.op \in {"blit", "blend"} /\ c.surface = s /\ c.at = at
  <2>1. PICK s \in DmaSurfaces, at \in DmaPositions :
               c.op \in {"blit", "blend"} /\ c.surface = s /\ c.at = at
    BY <1>2
  <2>2. IsSurface(s) /\ at.x \in Int /\ at.y \in Int
    BY DmaSurfacesAre
  <2>3. s.w \in Int /\ s.h \in Int
    BY <2>2 DEF IsSurface
  <2>4. Place(c).x = at.x /\ Place(c).y = at.y /\ Place(c).w = s.w /\ Place(c).h = s.h
    BY <2>1 DEF Place
  <2>5. /\ ClipX(c) = DmaClip(at.x, s.w, Destination.w)
        /\ ClipY(c) = DmaClip(at.y, s.h, Destination.h)
    BY <2>1 DEF ClipX, ClipY
  <2> QED BY <2>1, <2>2, <2>3, <2>4, <2>5 DEF NoCall
<1> QED BY <1>1, <1>2 DEF Calls

\* What a call cuts is what it draws over, in the destination.
LEMMA CutIsUnder ==
  ASSUME NEW c \in Calls
  PROVE  LET cx == ClipX(c)
             cy == ClipY(c)
         IN  /\ cx.at \in Nat /\ cx.from \in Nat /\ cx.size \in Int
             /\ cy.at \in Nat /\ cy.from \in Nat /\ cy.size \in Int
             /\ cx.from - cx.at = -Place(c).x /\ cy.from - cy.at = -Place(c).y
             /\ cx.size > 0 => cx.at + cx.size <= Destination.w
             /\ \A x \in 0..Destination.w - 1, y \in 0..Destination.h - 1 :
                   Under(Place(c), x, y) <=> /\ x \in cx.at..cx.at + cx.size - 1
                                             /\ y \in cy.at..cy.at + cy.size - 1
<1>1. PICK r : r = Place(c)
  OBVIOUS
<1>2. /\ r.x \in Int /\ r.y \in Int /\ r.w \in Int /\ r.h \in Int
      /\ ClipX(c) = DmaClip(r.x, r.w, Destination.w)
      /\ ClipY(c) = DmaClip(r.y, r.h, Destination.h)
  BY <1>1, CallIs
<1>3. PICK cx : cx = ClipX(c)
  OBVIOUS
<1>4. PICK cy : cy = ClipY(c)
  OBVIOUS
<1>5. /\ cx.at \in Nat /\ cx.from \in Nat /\ cx.size \in Int /\ cx.from - cx.at = -r.x
      /\ cx.size > 0 => cx.at + cx.size <= Destination.w
      /\ \A i \in 0..Destination.w - 1 : i \in r.x..r.x + r.w - 1 <=> i \in cx.at..cx.at + cx.size - 1
  <2>1. PICK x \in Int : x = r.x
    BY <1>2
  <2>2. PICK w \in Int : w = r.w
    BY <1>2
  <2>3. PICK width \in Nat : width = Destination.w
    BY DestinationIs
  <2>4. cx = Clip(x, w, width)
    BY <1>2, <1>3, <2>1, <2>2, <2>3 DEF Clip, DmaClip
  <2>5. /\ cx.at \in Nat /\ cx.from \in Nat /\ cx.size \in Int /\ cx.from - cx.at = -x
        /\ cx.size > 0 => cx.at + cx.size <= width
        /\ \A i \in 0..width - 1 : i \in x..x + w - 1 <=> i \in cx.at..cx.at + cx.size - 1
    BY <2>4, ClipKeepsInside, Zenon
  <2> QED BY <2>1, <2>2, <2>3, <2>5
<1>6. /\ cy.at \in Nat /\ cy.from \in Nat /\ cy.size \in Int /\ cy.from - cy.at = -r.y
      /\ \A i \in 0..Destination.h - 1 : i \in r.y..r.y + r.h - 1 <=> i \in cy.at..cy.at + cy.size - 1
  <2>1. PICK x \in Int : x = r.y
    BY <1>2
  <2>2. PICK w \in Int : w = r.h
    BY <1>2
  <2>3. PICK width \in Nat : width = Destination.h
    BY DestinationIs
  <2>4. cy = Clip(x, w, width)
    BY <1>2, <1>4, <2>1, <2>2, <2>3 DEF Clip, DmaClip
  <2>5. /\ cy.at \in Nat /\ cy.from \in Nat /\ cy.size \in Int /\ cy.from - cy.at = -x
        /\ cy.size > 0 => cy.at + cy.size <= width
        /\ \A i \in 0..width - 1 : i \in x..x + w - 1 <=> i \in cy.at..cy.at + cy.size - 1
    BY <2>4, ClipKeepsInside, Zenon
  <2> QED BY <2>1, <2>2, <2>3, <2>5
<1> QED BY <1>1, <1>3, <1>4, <1>5, <1>6 DEF Under

\* A pixel is drawn where both spans are, and nowhere else.
LEMMA ShouldBePut ==
  ASSUME NEW c \in Calls, NEW p \in Pixels, NEW old
  PROVE  LET cx == ClipX(c)
             cy == ClipY(c)
         IN  /\ Column(p) \in cx.at..cx.at + cx.size - 1 /\ Row(p) \in cy.at..cy.at + cy.size - 1
                   => Should(c, p, old) = Put(c, Column(p), Row(p), old)
             /\ ~(Column(p) \in cx.at..cx.at + cx.size - 1 /\ Row(p) \in cy.at..cy.at + cy.size - 1)
                   => Should(c, p, old) = old
<1>1. PICK x \in 0..Destination.stride - 1, y \in 0..Destination.h - 1 :
         x = Column(p) /\ y = Row(p)
  BY PixelIsAt
<1>2. PICK cx : cx = ClipX(c)
  OBVIOUS
<1>3. PICK cy : cy = ClipY(c)
  OBVIOUS
<1>4. /\ cx.at \in Nat /\ cx.size \in Int /\ cy.at \in Nat /\ cy.size \in Int
      /\ cx.size > 0 => cx.at + cx.size <= Destination.w
      /\ x < Destination.w =>
           (Under(Place(c), x, y) <=> /\ x \in cx.at..cx.at + cx.size - 1
                                      /\ y \in cy.at..cy.at + cy.size - 1)
  BY <1>1, <1>2, <1>3, CutIsUnder, DestinationIs
<1>5. x \in cx.at..cx.at + cx.size - 1 => x < Destination.w
  BY <1>1, <1>4, DestinationIs
<1>6. x < Destination.w /\ Under(Place(c), x, y) <=> /\ x \in cx.at..cx.at + cx.size - 1
                                                     /\ y \in cy.at..cy.at + cy.size - 1
  BY <1>4, <1>5
<1>7. Should(c, p, old) = IF x < Destination.w /\ Under(Place(c), x, y)
                          THEN Put(c, x, y, old) ELSE old
  <2>1. x >= Destination.w <=> ~(x < Destination.w)
    BY <1>1, DestinationIs
  <2>2. x = p % Destination.stride /\ y = p \div Destination.stride
    BY <1>1 DEF Column, Row
  <2>3. CASE x >= Destination.w
    BY <2>1, <2>2, <2>3 DEF Should
  <2>4. CASE x < Destination.w /\ c.op = "fill"
    BY <2>1, <2>2, <2>4 DEF Should, Put, Place, Under
  <2>5. CASE x < Destination.w /\ c.op # "fill"
    BY <2>1, <2>2, <2>5 DEF Should, Put, Place, Under, Covers
  <2> QED BY <2>1, <2>3, <2>4, <2>5
<1> QED BY <1>1, <1>2, <1>3, <1>6, <1>7

--------------------------------------------------------------------------------
(* Lines. *)

\* The controller finds the pixel an address was computed from: pixels of half a
\* byte are two by two.
LEMMA PixelOfAddress ==
  ASSUME NEW s, IsSurface(s), NEW x \in Nat, NEW y \in Nat,
         s.format = "A4" => s.stride % 2 = 0 /\ x % 2 = 0
  PROVE  Pixel(s.format, Address(s, x, y)) = y * s.stride + x
<1>1. PICK stride \in Nat : stride = s.stride
  BY DEF IsSurface
<1>2. PICK n \in Nat : n = y * stride + x
  OBVIOUS
<1>3. PICK b \in {32, 24, 16, 8, 4} : b = bpp[s.format] /\ (b = 4 => s.format = "A4")
  BY DEF IsSurface, Formats, bpp
<1>4. b = 4 => n % 2 = 0
  <2>1. SUFFICES ASSUME stride % 2 = 0, x % 2 = 0 PROVE n % 2 = 0
    BY <1>1, <1>3
  <2>2. PICK i \in Nat, j \in Nat : stride = 2 * i /\ x = 2 * j
    <3>1. stride \div 2 \in Nat /\ x \div 2 \in Nat
      OBVIOUS
    <3>2. stride = 2 * (stride \div 2) /\ x = 2 * (x \div 2)
      BY <2>1
    <3> QED BY <3>1, <3>2
  <2>3. n = 2 * (y * i + j) /\ y * i + j \in Nat
    BY <1>2, <2>2
  <2> QED BY <2>3
<1>5. Pixel(s.format, Address(s, x, y)) = (((n * b) \div 8) * 8) \div b
  BY <1>1, <1>2, <1>3 DEF Pixel, Address
<1>6. (((n * b) \div 8) * 8) \div b = n
  <2>1. CASE b = 32
    BY <2>1
  <2>2. CASE b = 24
    BY <2>2
  <2>3. CASE b = 16
    BY <2>3
  <2>4. CASE b = 8
    BY <2>4
  <2>5. CASE b = 4
    BY <1>4, <2>5
  <2> QED BY <1>3, <2>1, <2>2, <2>3, <2>4, <2>5
<1> QED BY <1>1, <1>2, <1>5, <1>6

\* What the controller is told.
LEMMA RegistersAre ==
  ASSUME NEW c \in Calls, NEW cx, NEW cy, cx = ClipX(c), cy = ClipY(c),
         NEW r, r = Programmed(c, cx, cy)
  PROVE  /\ r.mode = c.op /\ r.pl = cx.size /\ r.nl = cy.size
         /\ r.omar = Address(Destination, cx.at, cy.at)
         /\ r.oor = Destination.stride - cx.size
         /\ r.color = IF c.op = "fill" THEN OutputColor(c.color) ELSE c.color
         /\ c.op # "fill" => /\ r.source = c.surface /\ r.fgmar = Address(c.surface, cx.from, cy.from)
                             /\ r.fgor = c.surface.stride - cx.size
<1>1. CASE c.op = "fill"
  BY <1>1 DEF Programmed, Registers
<1>2. CASE c.op # "fill"
  BY <1>2 DEF Programmed, Registers
<1> QED BY <1>1, <1>2

\* A step of the controller draws one row of the call, exactly.
LEMMA LineIsDrawn ==
  ASSUME NEW c \in Calls, InProgress(c), line \in Nat, Controller, NEW p \in Pixels,
         dst = [q \in Pixels |-> dst[q]]
  PROVE  dst'[p] = IF Row(p) = FirstLeft(c) THEN Should(c, p, dst[p]) ELSE dst[p]
<1>1. PICK cx : cx = ClipX(c)
  OBVIOUS
<1>2. PICK cy : cy = ClipY(c)
  OBVIOUS
<1>3. /\ cx.at \in Nat /\ cx.from \in Nat /\ cx.size \in Nat /\ cx.size > 0
      /\ cy.at \in Nat /\ cy.from \in Nat /\ cy.size \in Nat /\ cy.size >= line /\ line > 0
      /\ cx.from - cx.at = -Place(c).x /\ cy.from - cy.at = -Place(c).y
      /\ cx.at + cx.size <= Destination.stride
  <2>1. /\ cx.at \in Nat /\ cx.from \in Nat /\ cx.size \in Int
        /\ cy.at \in Nat /\ cy.from \in Nat /\ cy.size \in Int
        /\ cx.from - cx.at = -Place(c).x /\ cy.from - cy.at = -Place(c).y
        /\ cx.size > 0 => cx.at + cx.size <= Destination.w
    BY <1>1, <1>2, CutIsUnder
  <2>2. cx.size > 0 /\ cy.size >= line /\ line > 0
    BY <1>1, <1>2 DEF InProgress, Controller
  <2>3. cx.at + cx.size <= Destination.stride
    BY <2>1, <2>2, DestinationIs
  <2>4. cx.size \in Nat /\ cy.size \in Nat
    BY <2>1, <2>2
  <2> QED BY <2>1, <2>2, <2>3, <2>4
<1>4. PICK row \in Nat : row = cy.size - line /\ FirstLeft(c) = cy.at + row
  BY <1>2, <1>3 DEF FirstLeft
<1>5. /\ reg.mode = c.op /\ reg.pl = cx.size /\ reg.nl = cy.size
      /\ reg.omar = Address(Destination, cx.at, cy.at)
      /\ reg.oor = Destination.stride - cx.size
      /\ reg.color = IF c.op = "fill" THEN OutputColor(c.color) ELSE c.color
      /\ c.op # "fill" => /\ reg.source = c.surface
                          /\ reg.fgmar = Address(c.surface, cx.from, cy.from)
                          /\ reg.fgor = c.surface.stride - cx.size
  BY <1>1, <1>2, RegistersAre DEF InProgress
<1>6. PICK y \in Nat : y = cy.at + row
  BY <1>3, <1>4
<1> DEFINE to == Pixel(Destination.format, reg.omar) + (reg.nl - line) * (reg.pl + reg.oor)
           from == Pixel(reg.source.format, reg.fgmar) + (reg.nl - line) * (reg.pl + reg.fgor)
<1>7. to = y * Destination.stride + cx.at
  <2>1. PICK stride \in Nat : stride = Destination.stride
    BY DestinationIs
  <2>2. Pixel(Destination.format, reg.omar) = cy.at * stride + cx.at
    <3>1. IsSurface(Destination) /\ Destination.format # "A4"
      BY DmaSurfacesAre DEF HasColor
    <3> QED BY <1>3, <1>5, <2>1, <3>1, PixelOfAddress
  <2>3. reg.pl + reg.oor = stride
    BY <1>3, <1>5, <2>1
  <2>4. to = (cy.at * stride + cx.at) + row * stride
    BY <1>4, <1>5, <2>2, <2>3
  <2>5. y * stride = cy.at * stride + row * stride
    BY <1>3, <1>6
  <2> QED BY <1>3, <2>1, <2>4, <2>5
<1>8. /\ p \in to..to + reg.pl - 1 <=> Row(p) = y /\ Column(p) \in cx.at..cx.at + cx.size - 1
      /\ Row(p) = y => p - to = Column(p) - cx.at
  <2>1. PICK h \in Nat, s \in Nat : h = Destination.h /\ s = Destination.stride
    BY DestinationIs
  <2>2. PICK x \in Nat, n \in Nat : x = cx.at /\ n = cx.size /\ x + n <= s
    BY <1>3, <2>1
  <2>3. p \in 0..h * s - 1 /\ to = y * s + x /\ reg.pl = n
    BY <1>5, <1>7, <2>1, <2>2 DEF Pixels
  <2>4. /\ p \in (y * s + x)..(y * s + x) + n - 1 <=> p \div s = y /\ p % s \in x..x + n - 1
        /\ p \div s = y => p - (y * s + x) = (p % s) - x
    BY <2>2, <2>3, LineIsInRow
  <2> HIDE DEF to
  <2> QED BY <2>1, <2>2, <2>3, <2>4 DEF Row, Column
<1>9. dst'[p] = IF p \in to..to + reg.pl - 1
                THEN Drawn(reg.mode, dst[p],
                           IF reg.mode = "fill" THEN << >>
                           ELSE reg.source.pixels[from + p - to], reg.color)
                ELSE dst[p]
  BY DEF Controller
<1>10. CASE Row(p) = y /\ Column(p) \in cx.at..cx.at + cx.size - 1
  <2>1. Should(c, p, dst[p]) = Put(c, Column(p), Row(p), dst[p])
    <3>1. y \in cy.at..cy.at + cy.size - 1
      BY <1>3, <1>4, <1>6
    <3> QED BY <1>1, <1>2, <1>10, <3>1, ShouldBePut
  <2>2. c.op # "fill" => reg.source.pixels[from + p - to] = Over(c.surface, c.at.x, c.at.y, Column(p), Row(p))
    <3>1. SUFFICES ASSUME c.op # "fill"
                   PROVE  from + p - to
                            = (Row(p) - c.at.y) * c.surface.stride + Column(p) - c.at.x
      BY <1>5 DEF Over
    <3>2. IsSurface(c.surface) /\ (c.surface.format = "A4" => c.surface.stride % 2 = 0 /\ cx.from % 2 = 0)
      BY <3>1, <1>1, CallIs, DmaSurfacesAre DEF InProgress, OnBytes
    <3>3. PICK stride \in Nat : stride = c.surface.stride
      BY <3>2 DEF IsSurface
    <3>4. Pixel(reg.source.format, reg.fgmar) = cy.from * stride + cx.from
      BY <1>3, <1>5, <3>1, <3>2, <3>3, PixelOfAddress
    <3>5. reg.pl + reg.fgor = stride
      BY <1>3, <1>5, <3>1, <3>3
    <3>6. from = (cy.from * stride + cx.from) + row * stride
      BY <1>4, <1>5, <3>4, <3>5
    <3>7. PICK x \in Nat : x = Column(p) /\ p - to = x - cx.at
      BY <1>8, <1>10, PixelIsAt
    <3>8. Place(c).x = c.at.x /\ Place(c).y = c.at.y /\ c.at.x \in Int /\ c.at.y \in Int
      BY <3>1, CallIs DEF Place
    <3>9. PICK x0 \in Int, y0 \in Int : x0 = c.at.x /\ y0 = y - c.at.y
      <4>1. y - c.at.y \in Int
        BY <3>8
      <4> QED BY <3>8, <4>1
    <3>10. PICK at \in Nat, left \in Nat, top \in Nat :
             at = cx.at /\ left = cx.from /\ top = cy.from
      BY <1>3
    <3>11. left - at = -x0 /\ top + row = y0
      <4>1. left - at = -x0
        BY <1>3, <3>8, <3>9, <3>10
      <4>2. cy.from - cy.at = -c.at.y
        BY <1>3, <3>8
      <4> QED BY <1>3, <1>6, <3>8, <3>9, <3>10, <4>1, <4>2
    <3>12. (top * stride + left) + row * stride + (x - at) = y0 * stride + x - x0
      <4>1. (top + row) * stride = top * stride + row * stride
        OBVIOUS
      <4>2. y0 * stride = top * stride + row * stride
        BY <3>11, <4>1
      <4>3. top * stride \in Int /\ row * stride \in Int
        OBVIOUS
      <4> QED BY <3>11, <4>2, <4>3
    <3>13. from + p - to = from + (p - to)
      <4>1. from \in Int
        BY <1>3, <3>6
      <4>2. to \in Int /\ p \in Int
        <5>1. PICK s \in Nat : s = Destination.stride
          BY DestinationIs
        <5>2. y * s + cx.at \in Int
          BY <1>3
        <5> QED BY <1>7, <5>1, <5>2, DestinationIs DEF Pixels
      <4> HIDE DEF from, to
      <4> QED BY <4>1, <4>2
    <3> HIDE DEF from, to
    <3> QED BY <1>10, <3>3, <3>6, <3>7, <3>9, <3>10, <3>12, <3>13
  <2> HIDE DEF from, to
  <2>3. dst'[p] = Put(c, Column(p), Row(p), dst[p])
    BY <1>5, <1>8, <1>9, <1>10, <2>2 DEF Put
  <2> QED BY <1>4, <1>6, <1>10, <2>1, <2>3
<1>11. CASE ~(Row(p) = y /\ Column(p) \in cx.at..cx.at + cx.size - 1)
  <2>1. dst'[p] = dst[p]
    BY <1>8, <1>9, <1>11
  <2>2. Row(p) = y => Should(c, p, dst[p]) = dst[p]
    BY <1>1, <1>2, <1>11, ShouldBePut
  <2> QED BY <1>4, <1>6, <2>1, <2>2
<1> QED BY <1>10, <1>11

--------------------------------------------------------------------------------
(* Steps of Dma2d. *)

LEMMA DmaInitially ==
  ASSUME DmaInit
  PROVE  DmaInv
<1>1. line = 0 /\ asked = NoCall /\ dst = Destination.pixels /\ shown = Destination.pixels
  BY DEF DmaInit
<1>2. DmaTypes
  BY <1>1, DestinationIs DEF DmaTypes
<1>3. CallWaits
  BY <1>1 DEF CallWaits
<1>4. IdleIsDrawn
  BY <1>1 DEF IdleIsDrawn, Later
<1>5. RestIsDrawn
  BY <1>1 DEF RestIsDrawn
<1> QED BY <1>2, <1>3, <1>4, <1>5 DEF DmaInv

\* A call which returns at once draws nothing.
LEMMA OutsideIsKept ==
  ASSUME NEW c \in Calls, ClipX(c).size <= 0 \/ ClipY(c).size <= 0, NEW p \in Pixels, NEW old
  PROVE  Should(c, p, old) = old
<1>1. PICK cx : cx = ClipX(c)
  OBVIOUS
<1>2. PICK cy : cy = ClipY(c)
  OBVIOUS
<1>3. cx.at \in Nat /\ cx.size \in Int /\ cy.at \in Nat /\ cy.size \in Int
  BY <1>1, <1>2, CutIsUnder
<1>4. ~(Column(p) \in cx.at..cx.at + cx.size - 1 /\ Row(p) \in cy.at..cy.at + cy.size - 1)
  BY <1>1, <1>2, <1>3
<1> QED BY <1>1, <1>2, <1>4, ShouldBePut

LEMMA DmaCallKeeps ==
  ASSUME DmaInv, DmaCall
  PROVE  DmaInv'
<1>1. asked = NoCall /\ UNCHANGED <<dst, reg, line>>
  BY DEF DmaCall
<1>2. PICK c \in Calls :
         /\ OnBytes(c)
         /\ asked' = IF ClipX(c).size < 0 \/ ClipY(c).size < 0 THEN NoCall ELSE c
         /\ shown' = [p \in DOMAIN shown |-> Should(c, p, shown[p])]
  BY DEF DmaCall
<1>3. ClipX(c).size \in Int /\ ClipY(c).size \in Int
  BY CutIsUnder
<1>4. DOMAIN shown = Pixels
  BY DEF DmaInv, DmaTypes
<1>5. \A p \in Pixels : shown'[p] = Should(c, p, shown[p])
  BY <1>2, <1>4
<1>6. \A p \in Pixels : \A old : Later(asked', p, old) = Should(c, p, old)
  <2>1. CASE ClipX(c).size < 0 \/ ClipY(c).size < 0
    <3>1. asked' = NoCall
      BY <1>2, <2>1
    <3>2. ClipX(c).size <= 0 \/ ClipY(c).size <= 0
      BY <1>3, <2>1
    <3> QED BY <3>1, <3>2, OutsideIsKept DEF Later
  <2>2. CASE ~(ClipX(c).size < 0 \/ ClipY(c).size < 0)
    <3>1. asked' = c /\ c # NoCall
      BY <1>2, <2>2, CallIs
    <3> QED BY <3>1 DEF Later
  <2> QED BY <2>1, <2>2
<1>7. DmaTypes'
  BY <1>1, <1>2, <1>4 DEF DmaInv, DmaTypes
<1>8. CallWaits'
  <2>1. SUFFICES ASSUME asked' # NoCall
                 PROVE  /\ asked' \in Calls /\ OnBytes(asked')
                        /\ ClipX(asked').size >= 0 /\ ClipY(asked').size >= 0
    BY DEF CallWaits, ClipX, ClipY
  <2>2. asked' = c /\ ~(ClipX(c).size < 0 \/ ClipY(c).size < 0)
    BY <1>2, <2>1
  <2> QED BY <1>2, <1>3, <2>2
<1>9. IdleIsDrawn'
  <2>1. SUFFICES ASSUME line = 0, NEW p \in Pixels
                 PROVE  shown'[p] = Later(asked', p, dst[p])
    BY <1>1 DEF IdleIsDrawn
  <2>2. shown[p] = dst[p]
    BY <1>1, <2>1 DEF DmaInv, IdleIsDrawn, Later
  <2> QED BY <1>5, <1>6, <2>2
<1>10. RestIsDrawn'
  <2>1. SUFFICES ASSUME line > 0
                 PROVE  \E d \in Calls : /\ InProgress(d)'
                                         /\ \A p \in Pixels : shown'[p]
                                              = Later(asked', p, Rest(d, FirstLeft(d), p, dst[p])')
    BY <1>1 DEF RestIsDrawn
  <2>2. PICK d \in Calls :
           /\ InProgress(d)
           /\ \A p \in Pixels : shown[p] = Later(asked, p, Rest(d, FirstLeft(d), p, dst[p]))
    BY <2>1 DEF DmaInv, RestIsDrawn
  <2>3. InProgress(d)' /\ FirstLeft(d)' = FirstLeft(d)
    BY <1>1, <2>2 DEF InProgress, FirstLeft
  <2>4. \A p \in Pixels : shown[p] = Rest(d, FirstLeft(d), p, dst[p])
    BY <1>1, <2>2 DEF Later
  <2>5. \A p \in Pixels : shown'[p] = Later(asked', p, Rest(d, FirstLeft(d), p, dst[p]))
    BY <1>5, <1>6, <2>4
  <2> QED BY <1>1, <2>3, <2>5 DEF Rest
<1> QED BY <1>7, <1>8, <1>9, <1>10 DEF DmaInv

LEMMA StartKeeps ==
  ASSUME DmaInv, Start
  PROVE  DmaInv'
<1>1. /\ asked # NoCall /\ line = 0 /\ asked' = NoCall /\ UNCHANGED <<dst, shown>>
      /\ reg' = Programmed(asked, ClipX(asked), ClipY(asked))
      /\ line' = IF reg'.pl = 0 THEN 0 ELSE reg'.nl
  BY DEF Start, Starts, dma2d_wait
<1>2. PICK c \in Calls : c = asked
  BY <1>1 DEF DmaInv, CallWaits
<1>3. PICK cx : cx = ClipX(c)
  OBVIOUS
<1>4. PICK cy : cy = ClipY(c)
  OBVIOUS
<1>5. OnBytes(c) /\ cx.size >= 0 /\ cy.size >= 0
  BY <1>1, <1>2, <1>3, <1>4 DEF DmaInv, CallWaits
<1>6. cx.at \in Nat /\ cx.size \in Nat /\ cy.at \in Nat /\ cy.size \in Nat
  BY <1>3, <1>4, <1>5, CutIsUnder
<1>7. PICK r : r = Programmed(c, cx, cy)
  OBVIOUS
<1>8. reg' = r /\ line' = IF cx.size = 0 THEN 0 ELSE cy.size
  <2>1. r.pl = cx.size /\ r.nl = cy.size
    BY <1>3, <1>4, <1>7, RegistersAre
  <2> QED BY <1>1, <1>2, <1>3, <1>4, <1>7, <2>1
<1>9. \A p \in Pixels : shown[p] = Should(c, p, dst[p])
  BY <1>1, <1>2 DEF DmaInv, IdleIsDrawn, Later
<1>10. DmaTypes' /\ CallWaits'
  BY <1>1, <1>6, <1>8 DEF DmaInv, DmaTypes, CallWaits
<1>11. IdleIsDrawn'
  <2>1. SUFFICES ASSUME line' = 0, NEW p \in Pixels
                 PROVE  shown[p] = dst[p]
    BY <1>1 DEF IdleIsDrawn, Later
  <2>2. cx.size <= 0 \/ cy.size <= 0
    BY <1>6, <1>8, <2>1
  <2> QED BY <1>3, <1>4, <1>9, <2>2, OutsideIsKept
<1>12. RestIsDrawn'
  <2>1. SUFFICES ASSUME line' > 0
                 PROVE  /\ InProgress(c)'
                        /\ \A p \in Pixels : shown'[p]
                             = Later(asked', p, Rest(c, FirstLeft(c), p, dst[p])')
    BY DEF RestIsDrawn
  <2>2. cx.size > 0 /\ line' = cy.size
    BY <1>6, <1>8, <2>1
  <2>3. InProgress(c)'
    BY <1>3, <1>4, <1>5, <1>6, <1>7, <1>8, <2>2 DEF InProgress
  <2>4. FirstLeft(c)' = cy.at
    BY <1>4, <1>6, <2>2 DEF FirstLeft
  <2>5. ASSUME NEW p \in Pixels
        PROVE  shown[p] = Rest(c, cy.at, p, dst[p])
    <3>1. CASE Row(p) >= cy.at
      BY <1>9, <3>1 DEF Rest
    <3>2. CASE ~(Row(p) >= cy.at)
      <4>1. Row(p) \notin cy.at..cy.at + cy.size - 1
        BY <1>6, <3>2
      <4>2. Should(c, p, dst[p]) = dst[p]
        BY <1>3, <1>4, <4>1, ShouldBePut
      <4> QED BY <1>9, <3>2, <4>2 DEF Rest
    <3> QED BY <3>1, <3>2
  <2>6. \A p \in Pixels : Rest(c, FirstLeft(c), p, dst[p])' = Rest(c, cy.at, p, dst[p])
    BY <1>1, <2>4 DEF Rest
  <2>7. ASSUME NEW p \in Pixels
        PROVE  shown'[p] = Later(asked', p, Rest(c, FirstLeft(c), p, dst[p])')
    BY <1>1, <2>5, <2>6 DEF Later
  <2> QED BY <2>3, <2>7
<1> QED BY <1>10, <1>11, <1>12 DEF DmaInv

LEMMA ControllerKeeps ==
  ASSUME DmaInv, Controller
  PROVE  DmaInv'
<1>1. line \in Nat /\ line > 0 /\ line' = line - 1 /\ UNCHANGED <<reg, asked, shown>>
  BY DEF Controller, DmaInv, DmaTypes
<1>2. PICK c \in Calls :
         /\ InProgress(c)
         /\ \A p \in Pixels : shown[p] = Later(asked, p, Rest(c, FirstLeft(c), p, dst[p]))
  BY <1>1 DEF DmaInv, RestIsDrawn
<1>3. dst = [p \in Pixels |-> dst[p]] /\ dst' = [p \in Pixels |-> dst'[p]]
  <2>1. dst = [p \in Pixels |-> dst[p]]
    BY DEF DmaInv, DmaTypes
  <2>2. DOMAIN dst = Pixels
    BY <2>1
  <2> QED BY <2>1, <2>2 DEF Controller
<1>4. \A p \in Pixels :
         dst'[p] = IF Row(p) = FirstLeft(c) THEN Should(c, p, dst[p]) ELSE dst[p]
  BY <1>1, <1>2, <1>3, LineIsDrawn
<1>5. PICK cy : cy = ClipY(c) /\ cy.at \in Nat /\ cy.size \in Int /\ cy.size >= line
  BY <1>2, CutIsUnder DEF InProgress
<1>6. FirstLeft(c) = cy.at + cy.size - line /\ FirstLeft(c)' = cy.at + cy.size - line + 1
  BY <1>1, <1>5 DEF FirstLeft
<1>7. PICK first \in Int : first = FirstLeft(c) /\ FirstLeft(c)' = first + 1
  BY <1>1, <1>5, <1>6
<1>8. ASSUME NEW p \in Pixels
      PROVE  Rest(c, first, p, dst[p]) = Rest(c, first + 1, p, dst'[p])
  <2>1. Row(p) \in Nat
    BY PixelIsAt, DestinationIs
  <2>2. CASE Row(p) = first
    BY <1>4, <1>7, <2>1, <2>2 DEF Rest
  <2>3. CASE Row(p) # first
    <3>1. dst'[p] = dst[p]
      BY <1>4, <1>7, <2>3
    <3>2. Row(p) >= first <=> Row(p) >= first + 1
      BY <2>1, <2>3
    <3> QED BY <3>1, <3>2 DEF Rest
  <2> QED BY <2>2, <2>3
<1>9. ASSUME NEW p \in Pixels
      PROVE  shown'[p] = Later(asked', p, Rest(c, first + 1, p, dst'[p]))
  BY <1>1, <1>2, <1>7, <1>8
<1>10. DmaTypes' /\ CallWaits'
  BY <1>1, <1>3 DEF DmaInv, DmaTypes, CallWaits, ClipX, ClipY, OnBytes
<1>11. IdleIsDrawn'
  <2>1. SUFFICES ASSUME line' = 0, NEW p \in Pixels
                 PROVE  Rest(c, first + 1, p, dst'[p]) = dst'[p]
    BY <1>9 DEF IdleIsDrawn
  <2>2. CASE Row(p) >= first + 1
    <3>1. first + 1 = cy.at + cy.size
      BY <1>1, <1>5, <1>6, <1>7, <2>1
    <3>2. Row(p) \notin cy.at..cy.at + cy.size - 1
      <4>1. Row(p) \in Nat
        BY PixelIsAt, DestinationIs
      <4> QED BY <1>5, <2>2, <3>1, <4>1
    <3>3. Should(c, p, dst'[p]) = dst'[p]
      BY <1>5, <3>2, ShouldBePut
    <3> QED BY <3>3 DEF Rest
  <2>3. CASE ~(Row(p) >= first + 1)
    BY <2>3 DEF Rest
  <2> QED BY <2>2, <2>3
<1>12. RestIsDrawn'
  <2>1. InProgress(c)'
    BY <1>1, <1>2, <1>5 DEF InProgress
  <2>2. \A p \in Pixels : Rest(c, FirstLeft(c), p, dst[p])' = Rest(c, first + 1, p, dst'[p])
    BY <1>7 DEF Rest
  <2>3. \A p \in Pixels : shown'[p] = Later(asked', p, Rest(c, FirstLeft(c), p, dst[p])')
    BY <1>9, <2>2
  <2> QED BY <2>1, <2>3 DEF RestIsDrawn
<1> QED BY <1>10, <1>11, <1>12 DEF DmaInv

LEMMA DmaStepKeeps ==
  ASSUME DmaInv, [DmaNext]_dmaVars
  PROVE  DmaInv'
<1>1. CASE DmaNext
  BY <1>1, DmaCallKeeps, StartKeeps, ControllerKeeps DEF DmaNext
<1>2. CASE UNCHANGED dmaVars
  <2>1. UNCHANGED <<dst, reg, line, asked, shown>>
    BY <1>2 DEF dmaVars
  <2>2. DmaTypes' /\ CallWaits' /\ IdleIsDrawn'
    BY <2>1 DEF DmaInv, DmaTypes, CallWaits, IdleIsDrawn
  <2>3. RestIsDrawn'
    BY <2>1 DEF DmaInv, RestIsDrawn, InProgress, FirstLeft
  <2> QED BY <2>2, <2>3 DEF DmaInv
<1> QED BY <1>1, <1>2

\* For any surfaces, of any size and format, any places, and any number of calls,
\* however late the controller is: once it is idle the destination is what the calls
\* were to make it, in their order (dma2d_fill, dma2d_blit, dma2d_blend, dma2d_wait).
THEOREM DmaHolds == DmaSpec => []DmaIsExact
<1>1. DmaInit => DmaInv
  BY DmaInitially
<1>2. DmaInv /\ [DmaNext]_dmaVars => DmaInv'
  BY DmaStepKeeps
<1>3. DmaInv => DmaIsExact
  <2>1. SUFFICES ASSUME DmaInv, line = 0, asked = NoCall PROVE dst = shown
    BY DEF DmaIsExact
  <2>2. \A p \in Pixels : shown[p] = dst[p]
    BY <2>1 DEF DmaInv, IdleIsDrawn, Later
  <2>3. dst = [p \in Pixels |-> dst[p]] /\ shown = [p \in Pixels |-> shown[p]]
    BY <2>1 DEF DmaInv, DmaTypes
  <2>4. [p \in Pixels |-> dst[p]] = [p \in Pixels |-> shown[p]]
    BY <2>2
  <2> QED BY <2>3, <2>4
<1> QED BY <1>1, <1>2, <1>3, PTL DEF DmaSpec

--------------------------------------------------------------------------------
(* SdlFrameBuffer. *)

\* A pixel of the screen.
Argb == [1..4 -> 0..255]

\* DrawingIsExact says all of the last call: what remains is what a pixel holds.
SdlInv == pixels \in [Screen -> Argb] /\ DrawingIsExact

\* The pixel p as the loops reach it.
Cell(cx, cy, p) == [p |-> p, i |-> X(p) - cx.at, j |-> Y(p) - cy.at]
Reached(cx, cy) == IF cx.size < 0 \/ cy.size < 0 THEN {} ELSE Goes(cx, cy)
Inside(cx, cy, p) == X(p) \in cx.at..cx.at + cx.size - 1 /\ Y(p) \in cy.at..cy.at + cy.size - 1

LEMMA ScreenIs ==
  ASSUME NEW p \in Screen
  PROVE  X(p) \in 0..ScreenW - 1 /\ Y(p) \in 0..ScreenH - 1 /\ p = Y(p) * ScreenW + X(p)
<1>1. ScreenW \in Nat /\ ScreenH \in Nat
  BY ScreenSize
<1>2. p \in 0..ScreenH * ScreenW - 1
  BY <1>1 DEF Screen
<1> QED BY <1>1, <1>2, RowAndColumn DEF X, Y

\* The loops go through the clipped rectangle, each pixel once.
LEMMA LoopsGoThrough ==
  ASSUME NEW x \in Int, NEW w \in Int, NEW y \in Int, NEW h \in Int,
         NEW cx, NEW cy, cx = Clip(x, w, ScreenW), cy = Clip(y, h, ScreenH),
         NEW gs, gs = Reached(cx, cy)
  PROVE  /\ \A p \in Screen : Inside(cx, cy, p) <=> X(p) \in x..x + w - 1 /\ Y(p) \in y..y + h - 1
         /\ \A p \in Screen : Inside(cx, cy, p) <=> \E g \in gs : g.p = p
         /\ \A p \in Screen : Inside(cx, cy, p) => (CHOOSE g \in gs : g.p = p) = Cell(cx, cy, p)
         /\ \A g \in gs : /\ g.p \in Screen /\ cx.size > 0 /\ cy.size > 0
                          /\ g.i \in 0..cx.size - 1 /\ g.j \in 0..cy.size - 1
<1>1. ScreenW \in Nat /\ ScreenH \in Nat
  BY ScreenSize
<1>2. /\ cx.at \in Nat /\ cx.size \in Int
      /\ cx.size > 0 => cx.at + cx.size <= ScreenW
      /\ \A i \in 0..ScreenW - 1 : i \in x..x + w - 1 <=> i \in cx.at..cx.at + cx.size - 1
  BY <1>1, ClipKeepsInside
<1>3. /\ cy.at \in Nat /\ cy.size \in Int
      /\ cy.size > 0 => cy.at + cy.size <= ScreenH
      /\ \A i \in 0..ScreenH - 1 : i \in y..y + h - 1 <=> i \in cy.at..cy.at + cy.size - 1
  BY <1>1, ClipKeepsInside
<1>4. ASSUME NEW p \in Screen
      PROVE  Inside(cx, cy, p) <=> X(p) \in x..x + w - 1 /\ Y(p) \in y..y + h - 1
  BY <1>2, <1>3, ScreenIs DEF Inside
<1>5. ASSUME NEW g \in gs
      PROVE  /\ g.i \in 0..cx.size - 1 /\ g.j \in 0..cy.size - 1 /\ cx.size > 0 /\ cy.size > 0
             /\ g = [p |-> g.p, i |-> g.i, j |-> g.j]
             /\ g.p = (cy.at + g.j) * ScreenW + (cx.at + g.i)
  <2>1. PICK i \in 0..cx.size - 1, j \in 0..cy.size - 1 :
           g = [p |-> cy.at * ScreenW + cx.at + j * (cx.size + (ScreenW - cx.size)) + i,
                i |-> i, j |-> j]
    BY <1>5 DEF Goes, Reached
  <2>2. cx.size + (ScreenW - cx.size) = ScreenW
    BY <1>1, <1>2
  <2>3. cy.at * ScreenW + cx.at + j * ScreenW + i = (cy.at + j) * ScreenW + (cx.at + i)
    <3>1. (cy.at + j) * ScreenW = cy.at * ScreenW + j * ScreenW
      BY <1>1, <1>3
    <3>2. cy.at * ScreenW \in Int /\ j * ScreenW \in Int
      BY <1>1, <1>3
    <3> QED BY <1>2, <3>1, <3>2
  <2>4. cx.size > 0 /\ cy.size > 0
    BY <1>2, <1>3
  <2> QED BY <2>1, <2>2, <2>3, <2>4
<1>6. ASSUME NEW g \in gs
      PROVE  g.p \in Screen /\ X(g.p) = cx.at + g.i /\ Y(g.p) = cy.at + g.j
  <2>1. PICK a \in 0..ScreenH - 1, b \in 0..ScreenW - 1 : a = cy.at + g.j /\ b = cx.at + g.i
    BY <1>1, <1>2, <1>3, <1>5
  <2>2. g.p = a * ScreenW + b
    BY <1>5, <2>1
  <2>3. g.p \in 0..ScreenH * ScreenW - 1
    BY <1>1, <2>2, CellIsInside
  <2>4. g.p \in Screen
    BY <1>1, <2>3 DEF Screen
  <2>5. PICK q \in Screen : q = g.p
    BY <2>4
  <2>6. PICK v \in 0..ScreenW - 1, u \in Nat : v = X(q) /\ u = Y(q) /\ q = u * ScreenW + v
    BY <1>1, ScreenIs
  <2>7. a * ScreenW + b = u * ScreenW + v /\ a \in Nat
    BY <2>2, <2>5, <2>6
  <2>8. a = u /\ b = v
    BY <1>1, <2>7, RowsAreApart
  <2> QED BY <2>1, <2>4, <2>5, <2>6, <2>8
<1>7. ASSUME NEW p \in Screen, Inside(cx, cy, p)
      PROVE  Cell(cx, cy, p) \in gs
  <2>1. PICK i \in 0..cx.size - 1, j \in 0..cy.size - 1 :
           i = X(p) - cx.at /\ j = Y(p) - cy.at /\ X(p) = cx.at + i /\ Y(p) = cy.at + j
    BY <1>1, <1>2, <1>3, <1>7, ScreenIs DEF Inside
  <2>2. p = cy.at * ScreenW + cx.at + j * (cx.size + (ScreenW - cx.size)) + i
    <3>1. cx.size + (ScreenW - cx.size) = ScreenW
      BY <1>1, <1>2
    <3>2. (cy.at + j) * ScreenW = cy.at * ScreenW + j * ScreenW
      BY <1>1, <1>3
    <3>3. p = (cy.at + j) * ScreenW + (cx.at + i)
      BY <2>1, ScreenIs
    <3>4. cy.at * ScreenW \in Int /\ j * ScreenW \in Int
      BY <1>1, <1>3
    <3> QED BY <1>2, <3>1, <3>2, <3>3, <3>4
  <2>3. Cell(cx, cy, p) = [p |-> cy.at * ScreenW + cx.at + j * (cx.size + (ScreenW - cx.size)) + i,
                           i |-> i, j |-> j]
    BY <2>1, <2>2 DEF Cell
  <2>4. Cell(cx, cy, p) \in Goes(cx, cy)
    BY <2>3 DEF Goes
  <2>5. ~(cx.size < 0 \/ cy.size < 0)
    BY <1>2, <1>3
  <2> QED BY <2>4, <2>5 DEF Reached
<1>8. ASSUME NEW p \in Screen, NEW g \in gs, g.p = p
      PROVE  Inside(cx, cy, p) /\ g = Cell(cx, cy, p)
  <2>1. X(p) = cx.at + g.i /\ Y(p) = cy.at + g.j
    BY <1>6, <1>8
  <2>2. Inside(cx, cy, p)
    BY <1>2, <1>3, <1>5, <2>1 DEF Inside
  <2>3. g.i = X(p) - cx.at /\ g.j = Y(p) - cy.at
    BY <1>2, <1>3, <1>5, <2>1
  <2> QED BY <1>5, <1>8, <2>2, <2>3 DEF Cell
<1>9. ASSUME NEW p \in Screen
      PROVE  Inside(cx, cy, p) <=> \E g \in gs : g.p = p
  <2>1. Cell(cx, cy, p).p = p
    BY DEF Cell
  <2> QED BY <1>7, <1>8, <2>1
<1>10. ASSUME NEW p \in Screen, Inside(cx, cy, p)
       PROVE  (CHOOSE g \in gs : g.p = p) = Cell(cx, cy, p)
  <2>1. \E g \in gs : g.p = p
    BY <1>9, <1>10
  <2>2. PICK g \in gs : g.p = p /\ g = CHOOSE q \in gs : q.p = p
    BY <2>1
  <2> QED BY <1>8, <2>2
<1> QED BY <1>4, <1>5, <1>6, <1>9, <1>10

\* Sources are inside of the surface, and move as the destination does.
LEMMA SourceIsInside ==
  ASSUME NEW s, IsSurface(s), NEW x \in Int, NEW y \in Int, NEW cx, NEW cy,
         cx = Clip(x, s.w, ScreenW), cy = Clip(y, s.h, ScreenH)
  PROVE  /\ \A g : /\ cx.size > 0 /\ cy.size > 0
                   /\ g.i \in 0..cx.size - 1 /\ g.j \in 0..cy.size - 1
                   => Source(s, cx, cy, g) \in DOMAIN s.pixels
         /\ \A p \in Screen :
              Inside(cx, cy, p) =>
                s.pixels[Source(s, cx, cy, Cell(cx, cy, p))] = Over(s, x, y, X(p), Y(p))
<1>1. PICK w \in Nat, h \in Nat, stride \in Nat :
         w = s.w /\ h = s.h /\ stride = s.stride /\ w <= stride
  BY DEF IsSurface
<1>2. ScreenW \in Nat /\ ScreenH \in Nat
  BY ScreenSize
<1>3. /\ cx.at \in Nat /\ cx.from \in Nat /\ cx.size \in Int /\ cx.from - cx.at = -x
      /\ cx.size > 0 => cx.from + cx.size <= w
  <2>1. PICK c \in Int, n \in Int, width \in Nat, k \in {cx} :
           k = cx /\ k = Clip(c, n, width) /\ c = x /\ n = w /\ width = ScreenW
    BY <1>1, <1>2
  <2>2. k = Clip(c, n, width)
    BY <2>1
  <2>3. /\ k.at \in Nat /\ k.from \in Nat /\ k.size \in Int /\ k.from - k.at = -c
        /\ k.size > 0 => k.at + k.size <= width /\ k.from + k.size <= n
        /\ \A i \in 0..width - 1 : i \in c..c + n - 1 <=> i \in k.at..k.at + k.size - 1
    BY <2>2, ClipKeepsInside, ZenonT(60)
  <2> QED BY <2>1, <2>3
<1>4. /\ cy.at \in Nat /\ cy.from \in Nat /\ cy.size \in Int /\ cy.from - cy.at = -y
      /\ cy.size > 0 => cy.from + cy.size <= h
  <2>1. PICK c \in Int, n \in Int, width \in Nat, k \in {cy} :
           k = cy /\ k = Clip(c, n, width) /\ c = y /\ n = h /\ width = ScreenH
    BY <1>1, <1>2
  <2>2. k = Clip(c, n, width)
    BY <2>1
  <2>3. /\ k.at \in Nat /\ k.from \in Nat /\ k.size \in Int /\ k.from - k.at = -c
        /\ k.size > 0 => k.at + k.size <= width /\ k.from + k.size <= n
        /\ \A i \in 0..width - 1 : i \in c..c + n - 1 <=> i \in k.at..k.at + k.size - 1
    BY <2>2, ClipKeepsInside, ZenonT(60)
  <2> QED BY <2>1, <2>3
<1>5. ASSUME NEW g, cx.size > 0 /\ cy.size > 0,
             g.i \in 0..cx.size - 1 /\ g.j \in 0..cy.size - 1
      PROVE  Source(s, cx, cy, g) \in DOMAIN s.pixels
  <2>1. PICK a \in 0..h - 1, b \in 0..stride - 1 : a = cy.from + g.j /\ b = cx.from + g.i
    BY <1>1, <1>3, <1>4, <1>5
  <2>2. a * stride + b \in 0..h * stride - 1
    BY CellIsInside
  <2>3. Source(s, cx, cy, g) = a * stride + b
    <3>1. a * stride \in Int
      OBVIOUS
    <3> QED BY <1>1, <1>3, <1>5, <2>1, <3>1 DEF Source
  <2>4. DOMAIN s.pixels = 0..h * stride - 1
    BY <1>1 DEF IsSurface
  <2> QED BY <2>2, <2>3, <2>4
<1>6. ASSUME NEW p \in Screen, Inside(cx, cy, p)
      PROVE  s.pixels[Source(s, cx, cy, Cell(cx, cy, p))] = Over(s, x, y, X(p), Y(p))
  <2>1. X(p) \in Int /\ Y(p) \in Int
    BY ScreenIs
  <2>2. cy.from + (Y(p) - cy.at) = Y(p) - y
    BY <1>4, <2>1
  <2>3. PICK m \in Int : m = (Y(p) - y) * stride
    BY <2>1
  <2>4. m + cx.from + (X(p) - cx.at) = m + X(p) - x
    BY <1>3, <2>1
  <2>5. Source(s, cx, cy, Cell(cx, cy, p)) = m + cx.from + (X(p) - cx.at)
    BY <1>1, <2>2, <2>3 DEF Source, Cell
  <2>6. Over(s, x, y, X(p), Y(p)) = s.pixels[m + X(p) - x]
    BY <1>1, <2>3 DEF Over
  <2> QED BY <2>4, <2>5, <2>6
<1> QED BY <1>5, <1>6

--------------------------------------------------------------------------------
(* Components. *)

LEMMA DepthIs ==
  ASSUME NEW format \in Formats, NEW k \in 1..3
  PROVE  /\ Depth(format)[k] \in {8, 6, 5, 4}
         /\ Greatest(Depth(format)[1]) = IF format \in {"ARGB4444", "A4"} THEN 15
                                         ELSE IF format = "RGB565" THEN 31 ELSE 255
<1>1. format \in {"ARGB8888", "RGB888", "RGB565", "ARGB4444", "A8", "A4"}
  BY DEF Formats, bpp
<1>2. CASE format \in {"ARGB8888", "RGB888", "A8"}
  BY <1>2 DEF Depth, Greatest
<1>3. CASE format = "RGB565"
  BY <1>3 DEF Depth, Greatest
<1>4. CASE format \in {"ARGB4444", "A4"}
  BY <1>4 DEF Depth, Greatest
<1> QED BY <1>1, <1>2, <1>3, <1>4

LEMMA ExpandIsByte ==
  ASSUME NEW n \in {8, 6, 5, 4}, NEW v \in Nat, v <= Greatest(n)
  PROVE  Expand(v, n) \in 0..255
<1>1. CASE n = 8
  BY <1>1 DEF Expand, Greatest
<1>2. CASE n = 6
  BY <1>2 DEF Expand, Greatest
<1>3. CASE n = 5
  BY <1>3 DEF Expand, Greatest
<1>4. CASE n = 4
  BY <1>4 DEF Expand, Greatest
<1> QED BY <1>1, <1>2, <1>3, <1>4

Rgb8 == [1..3 -> 0..255]

LEMMA TupleIsSeq ==
  ASSUME NEW n \in Nat \ {0}, NEW s \in [1..n -> 0..255]
  PROVE  s \in Seq(0..255) /\ Len(s) = n
<1>1. s \in Seq(0..255)
  BY SeqDef
<1>2. PICK m \in Nat : m = Len(s) /\ DOMAIN s = 1..m
  BY <1>1, LenProperties
<1>3. 1..n = 1..m
  BY <1>2
<1>4. n \in 1..m
  BY <1>3
<1>5. m \in 1..n
  BY <1>3, <1>4
<1> QED BY <1>1, <1>2, <1>4, <1>5

LEMMA TailOfArgb ==
  ASSUME NEW px \in Argb
  PROVE  Tail(px) \in Rgb8 /\ Tail(px) = [k \in 1..3 |-> px[k + 1]]
<1>1. px \in Seq(0..255) /\ Len(px) = 4
  <2>1. px \in [1..4 -> 0..255]
    BY DEF Argb
  <2>2. PICK n \in Nat \ {0} : n = 4 /\ px \in [1..n -> 0..255]
    BY <2>1
  <2>3. px \in Seq(0..255) /\ Len(px) = n
    BY <2>2, TupleIsSeq
  <2> QED BY <2>2, <2>3
<1>2. /\ Tail(px) \in Seq(0..255) /\ Len(Tail(px)) = 3
      /\ \A k \in 1..3 : Tail(px)[k] = px[k + 1]
  <2>1. px # << >>
    <3>1. PICK n \in Nat : n = Len(px) /\ n # 0
      BY <1>1
    <3>2. Len(<< >>) = 0
      BY EmptySeq
    <3> QED BY <3>1, <3>2
  <2>2. /\ Tail(px) \in Seq(0..255) /\ Len(Tail(px)) = Len(px) - 1
        /\ \A k \in 1..Len(Tail(px)) : Tail(px)[k] = px[k + 1]
    BY <1>1, <2>1, HeadTailProperties
  <2>3. Len(Tail(px)) = 3
    BY <1>1, <2>2
  <2> QED BY <2>2, <2>3
<1>3. Tail(px) \in Rgb8
  <2>1. Tail(px) \in [1..Len(Tail(px)) -> 0..255]
    BY <1>2, LenProperties
  <2> QED BY <1>2, <2>1 DEF Rgb8
<1> QED BY <1>2, <1>3 DEF Rgb8

LEMMA OpaqueIs ==
  ASSUME NEW s \in Rgb8
  PROVE  /\ <<255>> \o s \in Argb /\ Tail(<<255>> \o s) = s
         /\ \A k \in 1..3 : (<<255>> \o s)[k + 1] = s[k]
<1>1. s \in Seq(0..255) /\ Len(s) = 3
  <2>1. s \in [1..3 -> 0..255]
    BY DEF Rgb8
  <2>2. PICK n \in Nat \ {0} : n = 3 /\ s \in [1..n -> 0..255]
    BY <2>1
  <2>3. s \in Seq(0..255) /\ Len(s) = n
    BY <2>2, TupleIsSeq
  <2> QED BY <2>2, <2>3
<1>2. <<255>> \in Seq(0..255) /\ Len(<<255>>) = 1
  OBVIOUS
<1>3. PICK t : t = <<255>> \o s
  OBVIOUS
<1>4. /\ t \in Seq(0..255) /\ Len(t) = 4
      /\ \A i \in 1..4 : t[i] = IF i <= 1 THEN <<255>>[i] ELSE s[i - 1]
  <2>1. PICK u \in Seq(0..255) : u = <<255>> /\ Len(u) = 1
    BY <1>2
  <2>2. /\ u \o s \in Seq(0..255) /\ Len(u \o s) = Len(u) + Len(s)
        /\ \A i \in 1..Len(u) + Len(s) :
              (u \o s)[i] = IF i <= Len(u) THEN u[i] ELSE s[i - Len(u)]
    BY <1>1, ConcatProperties, ZenonT(60)
  <2>3. Len(u) + Len(s) = 4
    BY <1>1, <2>1
  <2> QED BY <1>3, <2>1, <2>2, <2>3
<1>5. t \in Argb
  <2>1. t \in [1..Len(t) -> 0..255]
    BY <1>4, LenProperties
  <2> QED BY <1>4, <2>1 DEF Argb
<1>6. \A k \in 1..3 : t[k + 1] = s[k]
  <2>1. SUFFICES ASSUME NEW k \in 1..3 PROVE t[k + 1] = s[k]
    OBVIOUS
  <2>2. k + 1 \in 1..4 /\ ~(k + 1 <= 1) /\ (k + 1) - 1 = k
    OBVIOUS
  <2> QED BY <1>4, <2>2
<1>7. Tail(t) = s
  <2>1. Tail(t) = [k \in 1..3 |-> t[k + 1]]
    BY <1>5, TailOfArgb
  <2>2. s = [k \in 1..3 |-> s[k]]
    BY DEF Rgb8
  <2> QED BY <1>6, <2>1, <2>2
<1> QED BY <1>3, <1>5, <1>6, <1>7

\* Colors in 8 bits, whatever the format.
LEMMA ColorIs ==
  ASSUME NEW format \in Formats, NEW px, IsPixel(format, px), HasColor(format)
  PROVE  /\ ExpandRgb(format, Rgb(format, px)) \in Rgb8
         /\ format = "ARGB8888" => px \in Argb /\ Tail(px) = ExpandRgb(format, Rgb(format, px))
<1>1. PICK rgb : rgb = Rgb(format, px)
  OBVIOUS
<1>2. \A k \in 1..3 : rgb[k] \in Nat /\ rgb[k] <= Greatest(Depth(format)[k])
  <2>1. \A k \in 1..3 : rgb[k] <= Greatest(Depth(format)[k])
    BY <1>1 DEF IsPixel
  <2>2. CASE HasAlpha(format)
    <3>1. px \in Argb
      BY <2>2 DEF IsPixel, Argb
    <3>2. rgb \in Rgb8
      BY <1>1, <2>2, <3>1, TailOfArgb DEF Rgb
    <3> QED BY <2>1, <3>2 DEF Rgb8
  <2>3. CASE ~HasAlpha(format)
    <3>1. rgb = px /\ px \in [1..3 -> 0..255]
      BY <1>1, <2>3 DEF IsPixel, Rgb
    <3> QED BY <2>1, <3>1
  <2> QED BY <2>2, <2>3
<1>3. \A k \in 1..3 : Expand(rgb[k], Depth(format)[k]) \in 0..255
  <2>1. SUFFICES ASSUME NEW k \in 1..3 PROVE Expand(rgb[k], Depth(format)[k]) \in 0..255
    OBVIOUS
  <2>2. PICK n \in {8, 6, 5, 4} : n = Depth(format)[k]
    BY DepthIs
  <2>3. PICK v \in Nat : v = rgb[k] /\ v <= Greatest(n)
    BY <1>2, <2>2
  <2> QED BY <2>2, <2>3, ExpandIsByte
<1>4. ExpandRgb(format, rgb) \in Rgb8
  BY <1>3 DEF ExpandRgb, Rgb8
<1>5. ASSUME format = "ARGB8888"
      PROVE  px \in Argb /\ Tail(px) = ExpandRgb(format, rgb)
  <2>1. HasAlpha(format) /\ \A k \in 1..3 : Depth(format)[k] = 8
    BY <1>5 DEF HasAlpha, Depth
  <2>2. px \in Argb
    BY <2>1 DEF IsPixel, Argb
  <2>3. rgb = Tail(px) /\ Tail(px) = [k \in 1..3 |-> px[k + 1]]
    BY <1>1, <2>1, <2>2, TailOfArgb DEF Rgb
  <2>4. ExpandRgb(format, rgb) = [k \in 1..3 |-> rgb[k]]
    BY <2>1 DEF ExpandRgb, Expand
  <2> QED BY <2>2, <2>3, <2>4
<1> QED BY <1>1, <1>4, <1>5

\* The greatest values of alpha.
Alphas == {15, 255}
Most(format) == IF format \in {"ARGB4444", "A4"} THEN 15 ELSE 255

\* Mixing is between both, and a rounding away from the exact value.
LEMMA MixIsBetween ==
  ASSUME NEW o \in 0..255, NEW r \in 0..255, NEW max \in Nat, max \in Alphas, NEW a \in 0..max,
         NEW v, v = (o * (max - a) + r * a) \div max
  PROVE  /\ v \in 0..255
         /\ v <= IF r > o THEN r ELSE o
         /\ v >= IF r > o THEN o ELSE r
         /\ Near(v, o * (max - a) + r * a, max)
<1>1. PICK n \in Int : n = o * (max - a) + r * a
  OBVIOUS
<1>2. /\ r > o => o * max <= n /\ n <= r * max
      /\ ~(r > o) => r * max <= n /\ n <= o * max
  <2>1. PICK b \in 0..max : b = max - a
    OBVIOUS
  <2>2. o * max = o * a + o * b /\ r * max = r * a + r * b
    <3>1. max = a + b
      BY <2>1
    <3> QED BY <3>1
  <2>3. n = o * b + r * a
    BY <1>1, <2>1
  <2>4. /\ r > o => o * a <= r * a /\ o * b <= r * b
        /\ ~(r > o) => r * a <= o * a /\ r * b <= o * b
    <3>1. ASSUME NEW i \in Nat, NEW j \in Nat, NEW k \in Nat, i <= j
          PROVE  i * k <= j * k
      <4>1. PICK d \in Nat : j = i + d
        <5>1. j - i \in Nat /\ j = i + (j - i)
          BY <3>1
        <5> QED BY <5>1
      <4>2. j * k = i * k + d * k /\ d * k \in Nat /\ i * k \in Nat
        BY <4>1
      <4> QED BY <4>2
    <3>2. o \in Nat /\ r \in Nat /\ a \in Nat /\ b \in Nat
      OBVIOUS
    <3>3. r > o => o <= r
      OBVIOUS
    <3>4. ~(r > o) => r <= o
      OBVIOUS
    <3> QED BY <3>1, <3>2, <3>3, <3>4
  <2>5. PICK oa \in Int, ob \in Int, ra \in Int, rb \in Int :
           oa = o * a /\ ob = o * b /\ ra = r * a /\ rb = r * b
    OBVIOUS
  <2>6. PICK om \in Int, rm \in Int : om = o * max /\ rm = r * max
    OBVIOUS
  <2>7. n = ob + ra /\ om = oa + ob /\ rm = ra + rb
    BY <2>2, <2>3, <2>5, <2>6
  <2>8. /\ r > o => oa <= ra /\ ob <= rb
        /\ ~(r > o) => ra <= oa /\ rb <= ob
    BY <2>4, <2>5
  <2>9. /\ r > o => om <= n /\ n <= rm
        /\ ~(r > o) => rm <= n /\ n <= om
    BY <2>7, <2>8
  <2> QED BY <2>6, <2>9
<1>3. v = n \div max
  BY <1>1
<1>4. CASE max = 15
  <2>1. v \in Int /\ 15 * v <= n /\ n < 15 * v + 15
    BY <1>1, <1>3, <1>4
  <2>2. /\ r > o => o * 15 <= n /\ n <= r * 15
        /\ ~(r > o) => r * 15 <= n /\ n <= o * 15
    BY <1>2, <1>4
  <2>3. /\ r > o => o <= v /\ v <= r
        /\ ~(r > o) => r <= v /\ v <= o
    BY <2>1, <2>2
  <2>4. v * 15 - n \in -15..15
    <3>1. PICK d \in Int : d = 15 * v - n
      <4>1. 15 * v - n \in Int
        BY <1>1, <2>1
      <4> QED BY <4>1
    <3>2. -15 <= d /\ d <= 0
      BY <1>1, <2>1, <3>1
    <3>3. v * 15 = 15 * v
      BY <2>1
    <3> QED BY <3>1, <3>2, <3>3
  <2>5. Near(v, n, max)
    BY <2>4, <1>4 DEF Near
  <2>6. Near(v, o * (max - a) + r * a, max)
    BY <1>1, <2>5, Zenon
  <2>7. v \in 0..255 /\ v <= (IF r > o THEN r ELSE o) /\ v >= (IF r > o THEN o ELSE r)
    BY <2>1, <2>3
  <2> QED BY <2>6, <2>7
<1>5. CASE max = 255
  <2>1. v \in Int /\ 255 * v <= n /\ n < 255 * v + 255
    BY <1>1, <1>3, <1>5
  <2>2. /\ r > o => o * 255 <= n /\ n <= r * 255
        /\ ~(r > o) => r * 255 <= n /\ n <= o * 255
    BY <1>2, <1>5
  <2>3. /\ r > o => o <= v /\ v <= r
        /\ ~(r > o) => r <= v /\ v <= o
    BY <2>1, <2>2
  <2>4. v * 255 - n \in -255..255
    <3>1. PICK d \in Int : d = 255 * v - n
      <4>1. 255 * v - n \in Int
        BY <1>1, <2>1
      <4> QED BY <4>1
    <3>2. -255 <= d /\ d <= 0
      BY <1>1, <2>1, <3>1
    <3>3. v * 255 = 255 * v
      BY <2>1
    <3> QED BY <3>1, <3>2, <3>3
  <2>5. Near(v, n, max)
    BY <2>4, <1>5 DEF Near
  <2>6. Near(v, o * (max - a) + r * a, max)
    BY <1>1, <2>5, Zenon
  <2>7. v \in 0..255 /\ v <= (IF r > o THEN r ELSE o) /\ v >= (IF r > o THEN o ELSE r)
    BY <2>1, <2>3
  <2> QED BY <2>6, <2>7
<1> QED BY <1>4, <1>5 DEF Alphas

Mixes(new, old, rgb, a, max) ==
    \A k \in 1..3 : /\ new[k + 1] <= IF rgb[k] > old[k + 1] THEN rgb[k] ELSE old[k + 1]
                    /\ new[k + 1] >= IF rgb[k] > old[k + 1] THEN old[k + 1] ELSE rgb[k]
                    /\ Near(new[k + 1], old[k + 1] * (max - a) + rgb[k] * a, max)

LEMMA MixedIs ==
  ASSUME NEW old \in Argb, NEW rgb \in Rgb8, NEW max \in Nat, max \in Alphas, NEW a \in 0..max
  PROVE  Mixed(old, rgb, a, max) \in Argb /\ Mixes(Mixed(old, rgb, a, max), old, rgb, a, max)
<1>0. PICK px : px = Mixed(old, rgb, a, max)
  OBVIOUS
<1>1. PICK s : s = [k \in 1..3 |-> (old[k + 1] * (max - a) + rgb[k] * a) \div max]
  OBVIOUS
<1>2. ASSUME NEW k \in 1..3
      PROVE  /\ s[k] \in 0..255
             /\ s[k] <= IF rgb[k] > old[k + 1] THEN rgb[k] ELSE old[k + 1]
             /\ s[k] >= IF rgb[k] > old[k + 1] THEN old[k + 1] ELSE rgb[k]
             /\ Near(s[k], old[k + 1] * (max - a) + rgb[k] * a, max)
  <2>1. PICK o \in 0..255, r \in 0..255 : o = old[k + 1] /\ r = rgb[k]
    <3>1. k + 1 \in 1..4
      OBVIOUS
    <3>2. old[k + 1] \in 0..255
      BY <3>1 DEF Argb
    <3>3. rgb[k] \in 0..255
      BY DEF Rgb8
    <3> QED BY <3>2, <3>3
  <2>2. PICK v : v = (o * (max - a) + r * a) \div max
    OBVIOUS
  <2>3. s[k] = v
    BY <1>1, <2>1, <2>2
  <2>4. v \in 0..255 /\ v <= (IF r > o THEN r ELSE o) /\ v >= (IF r > o THEN o ELSE r)
        /\ Near(v, o * (max - a) + r * a, max)
    <3>1. v \in 0..255
      BY <2>2, MixIsBetween, ZenonT(60)
    <3>2. v <= (IF r > o THEN r ELSE o)
      BY <2>2, MixIsBetween, ZenonT(60)
    <3>3. v >= (IF r > o THEN o ELSE r)
      BY <2>2, MixIsBetween, ZenonT(60)
    <3>4. Near(v, o * (max - a) + r * a, max)
      BY <2>2, MixIsBetween, ZenonT(60)
    <3> QED BY <3>1, <3>2, <3>3, <3>4
  <2> QED BY <2>1, <2>3, <2>4
<1>3. s \in Rgb8
  BY <1>1, <1>2 DEF Rgb8
<1>4. px = <<255>> \o s
  BY <1>0, <1>1 DEF Mixed
<1>5. px \in Argb /\ \A k \in 1..3 : px[k + 1] = s[k]
  <2>1. <<255>> \o s \in Argb /\ \A k \in 1..3 : (<<255>> \o s)[k + 1] = s[k]
    BY <1>3, OpaqueIs, Zenon
  <2> QED BY <1>4, <2>1
<1>6. Mixes(px, old, rgb, a, max)
  BY <1>2, <1>5 DEF Mixes
<1> QED BY <1>0, <1>5, <1>6

LEMMA AlphaIs ==
  ASSUME NEW format \in Formats, NEW px, IsPixel(format, px), NEW ca \in 0..255
  PROVE  /\ Most(format) \in Nat /\ Most(format) \in Alphas /\ Alpha(format, px, ca) \in 0..Most(format)
         /\ ca = 255 => Alpha(format, px, ca) = IF HasAlpha(format) THEN px[1] ELSE 255
<1>0. PICK max \in Nat : max = Most(format) /\ max \in Alphas
  BY DEF Most, Alphas
<1>1. CASE HasAlpha(format)
  <2>1. PICK a \in Nat : a = px[1] /\ a <= max /\ a \in 0..255
    <3>1. px[1] <= Greatest(Depth(format)[1]) /\ format # "RGB565"
      BY <1>1 DEF IsPixel, HasAlpha
    <3>2. Greatest(Depth(format)[1]) = max
      BY <1>0, <3>1, DepthIs DEF Most
    <3>3. px[1] \in 0..255
      BY <1>1 DEF IsPixel
    <3> QED BY <3>1, <3>2, <3>3
  <2>2. Alpha(format, px, ca) = (a * ca) \div 255
    BY <1>1, <2>1 DEF Alpha
  <2>3. a * ca \in Nat /\ a * ca <= a * 255
    <3>1. PICK d \in Nat : ca + d = 255
      <4>1. 255 - ca \in Nat /\ ca + (255 - ca) = 255
        OBVIOUS
      <4> QED BY <4>1
    <3>2. a * 255 = a * ca + a * d /\ a * d \in Nat /\ a * ca \in Nat
      BY <3>1
    <3> QED BY <3>2
  <2>4. (a * ca) \div 255 \in 0..a
    <3>1. PICK n \in Nat : n = a * ca /\ n <= a * 255
      BY <2>3
    <3>2. n \div 255 \in 0..a
      BY <3>1
    <3> QED BY <3>1, <3>2
  <2>5. ca = 255 => (a * ca) \div 255 = a
    OBVIOUS
  <2> QED BY <1>0, <1>1, <2>1, <2>2, <2>4, <2>5
<1>2. CASE ~HasAlpha(format)
  <2>1. max = 255
    BY <1>0, <1>2 DEF HasAlpha, Most
  <2> QED BY <1>0, <1>2, <2>1 DEF Alpha
<1> QED BY <1>1, <1>2

--------------------------------------------------------------------------------
(* Calls of SdlFrameBuffer. *)

LEMMA FillIsExact ==
  ASSUME SdlInv, ~asserted, NEW c \in Colors, fill(c)
  PROVE  SdlInv'
<1>1. c \in Argb
  BY SdlArguments DEF Argb
<1>2. /\ pixels' = [p \in Screen |-> c] /\ draw' = [op |-> "fill", color |-> c]
      /\ outOf' = {} /\ ~asserted'
  BY DEF fill
<1> QED BY <1>1, <1>2 DEF SdlInv, DrawingIsExact

LEMMA FillRectIsExact ==
  ASSUME SdlInv, ~asserted, NEW c \in Colors, NEW r \in Rects, fill_rect(c, r)
  PROVE  SdlInv'
<1>1. c \in Argb /\ r.x \in Int /\ r.y \in Int /\ r.w \in Int /\ r.h \in Int
  BY SdlArguments DEF Argb
<1>2. PICK cx, cy : cx = Clip(r.x, r.w, ScreenW) /\ cy = Clip(r.y, r.h, ScreenH)
  OBVIOUS
<1>3. PICK gs : gs = Reached(cx, cy)
  OBVIOUS
<1>4. /\ before' = pixels /\ draw' = [op |-> "fill_rect", color |-> c, rect |-> r] /\ ~asserted'
      /\ outOf' = {g \in gs : g.p \notin Screen}
      /\ pixels' = IF outOf' # {} THEN pixels
                   ELSE [p \in Screen |-> IF \E g \in gs : g.p = p THEN c ELSE pixels[p]]
  BY <1>2, <1>3 DEF fill_rect, Draws, Reached
<1>5. /\ \A p \in Screen : Inside(cx, cy, p) <=> X(p) \in r.x..r.x + r.w - 1 /\ Y(p) \in r.y..r.y + r.h - 1
      /\ \A p \in Screen : Inside(cx, cy, p) <=> \E g \in gs : g.p = p
      /\ \A g \in gs : g.p \in Screen
  <2>1. PICK x \in Int, w \in Int, y \in Int, h \in Int : x = r.x /\ w = r.w /\ y = r.y /\ h = r.h
    BY <1>1
  <2>2. cx = Clip(x, w, ScreenW)
    BY <1>2, <2>1
  <2>3. cy = Clip(y, h, ScreenH)
    BY <1>2, <2>1
  <2>4. /\ \A p \in Screen : Inside(cx, cy, p) <=> X(p) \in x..x + w - 1 /\ Y(p) \in y..y + h - 1
        /\ \A p \in Screen : Inside(cx, cy, p) <=> \E g \in gs : g.p = p
        /\ \A g \in gs : g.p \in Screen
    BY <1>3, <2>2, <2>3, LoopsGoThrough, SMTT(60)
  <2> QED BY <2>1, <2>4
<1>6. outOf' = {}
  BY <1>4, <1>5
<1>7. /\ pixels' \in [Screen -> Argb]
      /\ \A p \in Screen : pixels'[p] = IF Inside(cx, cy, p) THEN c ELSE pixels[p]
  BY <1>1, <1>4, <1>5, <1>6 DEF SdlInv
<1> QED BY <1>4, <1>5, <1>6, <1>7 DEF SdlInv, DrawingIsExact

\* What drawing a surface goes through.
LEMMA SurfaceIsOver ==
  ASSUME NEW s \in Surfaces, NEW at \in Positions,
         NEW cx, NEW cy, cx = Clip(at.x, s.w, ScreenW), cy = Clip(at.y, s.h, ScreenH),
         NEW gs, gs = Reached(cx, cy)
  PROVE  /\ s.format \in Formats
         /\ \A g \in gs : g.p \in Screen /\ Source(s, cx, cy, g) \in DOMAIN s.pixels
         /\ \A p \in Screen : (\E g \in gs : g.p = p) <=> Covers(s, at.x, at.y, X(p), Y(p))
         /\ \A p \in Screen :
              Covers(s, at.x, at.y, X(p), Y(p)) =>
                LET px == s.pixels[Source(s, cx, cy, CHOOSE g \in gs : g.p = p)]
                IN  px = Over(s, at.x, at.y, X(p), Y(p)) /\ IsPixel(s.format, px)
<1>1. IsSurface(s) /\ at.x \in Int /\ at.y \in Int /\ s.w \in Int /\ s.h \in Int
  BY SdlSurfaces, SdlArguments DEF IsSurface
<1>2. /\ \A p \in Screen : Inside(cx, cy, p) <=> Covers(s, at.x, at.y, X(p), Y(p))
      /\ \A p \in Screen : Inside(cx, cy, p) <=> \E g \in gs : g.p = p
      /\ \A p \in Screen : Inside(cx, cy, p) => (CHOOSE g \in gs : g.p = p) = Cell(cx, cy, p)
      /\ \A g \in gs : /\ g.p \in Screen /\ cx.size > 0 /\ cy.size > 0
                       /\ g.i \in 0..cx.size - 1 /\ g.j \in 0..cy.size - 1
  <2>1. PICK x \in Int, w \in Int, y \in Int, h \in Int :
           x = at.x /\ w = s.w /\ y = at.y /\ h = s.h
    BY <1>1
  <2>2. cx = Clip(x, w, ScreenW)
    BY <2>1
  <2>3. cy = Clip(y, h, ScreenH)
    BY <2>1
  <2>4. /\ \A p \in Screen : Inside(cx, cy, p) <=> X(p) \in x..x + w - 1 /\ Y(p) \in y..y + h - 1
        /\ \A p \in Screen : Inside(cx, cy, p) <=> \E g \in gs : g.p = p
        /\ \A p \in Screen : Inside(cx, cy, p) => (CHOOSE g \in gs : g.p = p) = Cell(cx, cy, p)
        /\ \A g \in gs : /\ g.p \in Screen /\ cx.size > 0 /\ cy.size > 0
                         /\ g.i \in 0..cx.size - 1 /\ g.j \in 0..cy.size - 1
    BY <2>2, <2>3, LoopsGoThrough, SMTT(60)
  <2> QED BY <2>1, <2>4 DEF Covers
<1>3. /\ \A g : /\ cx.size > 0 /\ cy.size > 0
                /\ g.i \in 0..cx.size - 1 /\ g.j \in 0..cy.size - 1
                => Source(s, cx, cy, g) \in DOMAIN s.pixels
      /\ \A p \in Screen :
           Inside(cx, cy, p) =>
             s.pixels[Source(s, cx, cy, Cell(cx, cy, p))] = Over(s, at.x, at.y, X(p), Y(p))
  BY <1>1, SourceIsInside
<1>4. \A g \in gs : g.p \in Screen /\ Source(s, cx, cy, g) \in DOMAIN s.pixels
  BY <1>2, <1>3
<1>5. ASSUME NEW p \in Screen, Covers(s, at.x, at.y, X(p), Y(p))
      PROVE  LET px == s.pixels[Source(s, cx, cy, CHOOSE g \in gs : g.p = p)]
             IN  px = Over(s, at.x, at.y, X(p), Y(p)) /\ IsPixel(s.format, px)
  <2>1. Inside(cx, cy, p)
    BY <1>2, <1>5
  <2>2. PICK q \in gs : q = CHOOSE g \in gs : g.p = p
    BY <1>2, <2>1
  <2>3. q = Cell(cx, cy, p)
    BY <1>2, <2>1, <2>2
  <2>4. s.pixels[Source(s, cx, cy, q)] = Over(s, at.x, at.y, X(p), Y(p))
    BY <1>3, <2>1, <2>3
  <2>5. IsPixel(s.format, s.pixels[Source(s, cx, cy, q)])
    BY <1>4, SdlSurfaces
  <2> QED BY <2>2, <2>4, <2>5
<1>6. s.format \in Formats
  BY <1>1 DEF IsSurface
<1> QED BY <1>2, <1>4, <1>5, <1>6

LEMMA BlitIsExact ==
  ASSUME SdlInv, ~asserted, NEW s \in Surfaces, NEW at \in Positions, blit(s, at)
  PROVE  SdlInv'
<1>1. PICK cx, cy : cx = Clip(at.x, s.w, ScreenW) /\ cy = Clip(at.y, s.h, ScreenH)
  OBVIOUS
<1>2. PICK gs : gs = Reached(cx, cy)
  OBVIOUS
<1> DEFINE From(p) == s.pixels[Source(s, cx, cy, CHOOSE g \in gs : g.p = p)]
<1>3. /\ before' = pixels /\ draw' = [op |-> "blit", surface |-> s, at |-> at] /\ ~asserted'
      /\ outOf' = {g \in gs : \/ g.p \notin Screen
                              \/ {s} # {} /\ \A t \in {s} : Source(t, cx, cy, g) \notin DOMAIN t.pixels}
      /\ pixels' = IF outOf' # {} THEN pixels
                   ELSE [p \in Screen |-> IF \E g \in gs : g.p = p
                                          THEN Blitted(s.format, From(p)) ELSE pixels[p]]
      /\ HasColor(s.format)
  BY <1>1, <1>2 DEF blit, Draws, Reached
<1>4. /\ s.format \in Formats
      /\ \A g \in gs : g.p \in Screen /\ Source(s, cx, cy, g) \in DOMAIN s.pixels
      /\ \A p \in Screen : (\E g \in gs : g.p = p) <=> Covers(s, at.x, at.y, X(p), Y(p))
      /\ \A p \in Screen : Covers(s, at.x, at.y, X(p), Y(p)) =>
            From(p) = Over(s, at.x, at.y, X(p), Y(p)) /\ IsPixel(s.format, From(p))
  <2>1. cx = Clip(at.x, s.w, ScreenW)
    BY <1>1
  <2>2. cy = Clip(at.y, s.h, ScreenH)
    BY <1>1
  <2> QED BY <1>2, <2>1, <2>2, SurfaceIsOver, SMTT(60)
<1>5. outOf' = {}
  BY <1>3, <1>4
<1>6. ASSUME NEW px, IsPixel(s.format, px)
      PROVE  /\ Blitted(s.format, px) \in Argb
             /\ Tail(Blitted(s.format, px)) = ExpandRgb(s.format, Rgb(s.format, px))
  <2>1. /\ ExpandRgb(s.format, Rgb(s.format, px)) \in Rgb8
        /\ s.format = "ARGB8888" => px \in Argb /\ Tail(px) = ExpandRgb(s.format, Rgb(s.format, px))
    BY <1>3, <1>4, <1>6, ColorIs
  <2>2. PICK rgb \in Rgb8 : rgb = ExpandRgb(s.format, Rgb(s.format, px))
    BY <2>1
  <2>3. <<255>> \o rgb \in Argb /\ Tail(<<255>> \o rgb) = rgb
    BY OpaqueIs
  <2> QED BY <2>1, <2>2, <2>3 DEF Blitted
<1> HIDE DEF From
<1>7. /\ pixels' \in [Screen -> Argb]
      /\ \A p \in Screen :
           LET px == Over(s, at.x, at.y, X(p), Y(p))
           IN  IF Covers(s, at.x, at.y, X(p), Y(p))
               THEN Tail(pixels'[p]) = ExpandRgb(s.format, Rgb(s.format, px))
               ELSE pixels'[p] = pixels[p]
  <2>1. pixels' = [p \in Screen |-> IF Covers(s, at.x, at.y, X(p), Y(p))
                                    THEN Blitted(s.format, From(p)) ELSE pixels[p]]
    BY <1>3, <1>4, <1>5
  <2>2. \A p \in Screen : Covers(s, at.x, at.y, X(p), Y(p)) =>
            /\ Blitted(s.format, From(p)) \in Argb
            /\ Tail(Blitted(s.format, From(p))) =
                 ExpandRgb(s.format, Rgb(s.format, Over(s, at.x, at.y, X(p), Y(p))))
    BY <1>4, <1>6
  <2> QED BY <2>1, <2>2 DEF SdlInv
<1> QED BY <1>3, <1>5, <1>7 DEF SdlInv, DrawingIsExact

\* Half bytes are refused at odd columns and for odd sizes only.
LEMMA OddIsSomewhere ==
  ASSUME NEW x \in Int, NEW w \in Nat, NEW stride \in Nat, NEW width \in Nat,
         NEW c, c = Clip(x, w, width), \E v \in {stride, c.from, c.size} : v % 2 = 1
  PROVE  \E v \in {x, w, stride, width} : v % 2 = 1
<1>1. SUFFICES ASSUME x % 2 = 0, w % 2 = 0, stride % 2 = 0, width % 2 = 0
               PROVE  \A v \in {stride, c.from, c.size} : v % 2 = 0
  BY DEF Clip
<1>2. PICK i \in Int, j \in Int, k \in Int : x = 2 * i /\ w = 2 * j /\ width = 2 * k
  <2>1. x = 2 * (x \div 2) /\ w = 2 * (w \div 2) /\ width = 2 * (width \div 2)
    BY <1>1
  <2> QED BY <2>1
<1>3. c.from \in {0, 2 * (-i)}
  BY <1>2 DEF Clip
<1>4. c.size \in {2 * j, 2 * (j + i), 2 * k, 2 * (k - i)}
  BY <1>2 DEF Clip
<1> QED BY <1>1, <1>3, <1>4

\* A pixel which is blended.
LEMMA BlendedIs ==
  ASSUME NEW s \in Surfaces, s.format \in Formats, NEW px, IsPixel(s.format, px),
         NEW old \in Argb, NEW color \in Argb
  PROVE  LET rgb == IF HasColor(s.format) THEN ExpandRgb(s.format, Rgb(s.format, px))
                    ELSE Tail(color)
             new == Mixed(old, rgb, Alpha(s.format, px, color[1]), Most(s.format))
         IN  new \in Argb /\ Blended(s, px, color, old, new)
<1>1. PICK rgb \in Rgb8 : rgb = IF HasColor(s.format) THEN ExpandRgb(s.format, Rgb(s.format, px))
                                ELSE Tail(color)
  <2>1. HasColor(s.format) => ExpandRgb(s.format, Rgb(s.format, px)) \in Rgb8
    BY ColorIs
  <2>2. Tail(color) \in Rgb8
    BY TailOfArgb
  <2> QED BY <2>1, <2>2
<1>2. PICK ca \in 0..255 : ca = color[1]
  BY DEF Argb
<1>3. PICK max \in Nat : max = Most(s.format)
  BY <1>2, AlphaIs
<1>4. max \in Alphas
  BY <1>2, <1>3, AlphaIs
<1>5. PICK a \in 0..max : /\ a = Alpha(s.format, px, ca)
                          /\ ca = 255 => a = IF HasAlpha(s.format) THEN px[1] ELSE 255
  BY <1>2, <1>3, AlphaIs
<1>6. PICK new \in Argb : new = Mixed(old, rgb, a, max) /\ Mixes(new, old, rgb, a, max)
  BY <1>4, MixedIs
<1>7. max = IF HasAlpha(s.format) THEN IF s.format \in {"ARGB4444", "A4"} THEN 15 ELSE 255 ELSE 255
  BY <1>3 DEF HasAlpha, Most
<1>8. Blended(s, px, color, old, new)
  <2> DEFINE d == IF HasAlpha(s.format)
                  THEN IF s.format \in {"ARGB4444", "A4"} THEN 15 ELSE 255 ELSE 255
             al == IF HasAlpha(s.format) THEN px[1] ELSE 255
             col == IF HasColor(s.format) THEN ExpandRgb(s.format, Rgb(s.format, px))
                    ELSE Tail(color)
  <2>1. d = max /\ col = rgb /\ (color[1] = 255 => al = a)
    BY <1>1, <1>2, <1>5, <1>7
  <2> HIDE DEF d, al, col
  <2>2. ASSUME NEW k \in 1..3
        PROVE  /\ new[k + 1] <= IF col[k] > old[k + 1] THEN col[k] ELSE old[k + 1]
               /\ new[k + 1] >= IF col[k] > old[k + 1] THEN old[k + 1] ELSE col[k]
               /\ color[1] = 255 => Near(new[k + 1], old[k + 1] * (d - al) + col[k] * al, d)
    <3>1. /\ new[k + 1] <= IF col[k] > old[k + 1] THEN col[k] ELSE old[k + 1]
          /\ new[k + 1] >= IF col[k] > old[k + 1] THEN old[k + 1] ELSE col[k]
      BY <1>6, <2>1 DEF Mixes
    <3>2. ASSUME color[1] = 255
          PROVE  Near(new[k + 1], old[k + 1] * (d - al) + col[k] * al, d)
      <4>1. Near(new[k + 1], old[k + 1] * (max - a) + rgb[k] * a, max)
        BY <1>6 DEF Mixes
      <4>2. d = max /\ col = rgb /\ al = a
        BY <2>1, <3>2
      <4> QED BY <4>1, <4>2, Zenon
    <3> QED BY <3>1, <3>2
  <2> QED BY <2>2 DEF Blended, d, al, col
<1> QED BY <1>1, <1>2, <1>3, <1>5, <1>6, <1>8

LEMMA BlendIsExact ==
  ASSUME SdlInv, ~asserted, NEW s \in Surfaces, NEW at \in Positions, NEW c \in Colors,
         blend(s, at, c)
  PROVE  SdlInv'
<1>1. PICK cx, cy : cx = Clip(at.x, s.w, ScreenW) /\ cy = Clip(at.y, s.h, ScreenH)
  OBVIOUS
<1>2. PICK gs : gs = Reached(cx, cy)
  OBVIOUS
<1>3. c \in Argb /\ IsSurface(s) /\ at.x \in Int /\ at.y \in Int
  BY SdlArguments, SdlSurfaces DEF Argb
<1>4. CASE HalfBytes(s, cx) /\ cx.size >= 0 /\ cy.size >= 0
  <2>1. /\ asserted' = TRUE /\ draw' = [op |-> "odd", surface |-> s, at |-> at]
        /\ pixels' = pixels /\ outOf' = outOf
    BY <1>1, <1>4 DEF blend
  <2>2. PICK x \in Int, w \in Nat, stride \in Nat, width \in Nat :
           x = at.x /\ w = s.w /\ stride = s.stride /\ width = ScreenW
    BY <1>3, ScreenSize DEF IsSurface
  <2>3. cx = Clip(x, w, width)
    BY <1>1, <2>2
  <2>4. \E v \in {stride, cx.from, cx.size} : v % 2 = 1
    BY <1>4, <2>2 DEF HalfBytes
  <2>5. \E v \in {x, w, stride, width} : v % 2 = 1
    BY <2>3, <2>4, OddIsSomewhere
  <2>6. \E v \in {at.x, s.w, s.stride, ScreenW} : v % 2 = 1
    BY <2>2, <2>5
  <2> QED BY <2>1, <2>6 DEF SdlInv, DrawingIsExact
<1>5. CASE ~(HalfBytes(s, cx) /\ cx.size >= 0 /\ cy.size >= 0)
  <2> DEFINE From(p) == s.pixels[Source(s, cx, cy, CHOOSE g \in gs : g.p = p)]
             Color(px) == IF HasColor(s.format) THEN ExpandRgb(s.format, Rgb(s.format, px))
                          ELSE Tail(c)
             New(px, old) == Mixed(old, Color(px), Alpha(s.format, px, c[1]), Most(s.format))
  <2>1. /\ before' = pixels /\ ~asserted'
        /\ draw' = [op |-> "blend", surface |-> s, at |-> at, color |-> c]
        /\ outOf' = {g \in gs : \/ g.p \notin Screen
                                \/ {s} # {} /\ \A t \in {s} : Source(t, cx, cy, g) \notin DOMAIN t.pixels}
        /\ pixels' = IF outOf' # {} THEN pixels
                     ELSE [p \in Screen |-> IF \E g \in gs : g.p = p
                                            THEN New(From(p), pixels[p]) ELSE pixels[p]]
    BY <1>1, <1>2, <1>5 DEF blend, Draws, Reached, Most
  <2>2. /\ s.format \in Formats
        /\ \A g \in gs : g.p \in Screen /\ Source(s, cx, cy, g) \in DOMAIN s.pixels
        /\ \A p \in Screen : (\E g \in gs : g.p = p) <=> Covers(s, at.x, at.y, X(p), Y(p))
        /\ \A p \in Screen : Covers(s, at.x, at.y, X(p), Y(p)) =>
              From(p) = Over(s, at.x, at.y, X(p), Y(p)) /\ IsPixel(s.format, From(p))
    <3>1. cx = Clip(at.x, s.w, ScreenW)
      BY <1>1
    <3>2. cy = Clip(at.y, s.h, ScreenH)
      BY <1>1
    <3> QED BY <1>2, <3>1, <3>2, SurfaceIsOver
  <2>3. outOf' = {}
    BY <2>1, <2>2
  <2>4. ASSUME NEW px, IsPixel(s.format, px), NEW old \in Argb
        PROVE  New(px, old) \in Argb /\ Blended(s, px, c, old, New(px, old))
    BY <1>3, <2>2, <2>4, BlendedIs
  <2> HIDE DEF New, From
  <2>5. pixels' = [p \in Screen |-> IF Covers(s, at.x, at.y, X(p), Y(p))
                                    THEN New(From(p), pixels[p]) ELSE pixels[p]]
    BY <2>1, <2>2, <2>3
  <2>6. \A p \in Screen : Covers(s, at.x, at.y, X(p), Y(p)) =>
            /\ New(From(p), pixels[p]) \in Argb
            /\ Blended(s, Over(s, at.x, at.y, X(p), Y(p)), c, pixels[p], New(From(p), pixels[p]))
    BY <2>2, <2>4 DEF SdlInv
  <2>7. /\ pixels' \in [Screen -> Argb]
        /\ \A p \in Screen :
             IF Covers(s, at.x, at.y, X(p), Y(p))
             THEN Blended(s, Over(s, at.x, at.y, X(p), Y(p)), c, pixels[p], pixels'[p])
             ELSE pixels'[p] = pixels[p]
    BY <2>5, <2>6 DEF SdlInv
  <2> QED BY <2>1, <2>3, <2>7 DEF SdlInv, DrawingIsExact
<1> QED BY <1>4, <1>5

\* For any surfaces, of any size and format, any places (out of the screen too), any
\* colors and any number of calls: what is drawn is where it was asked for and nothing
\* else changes, no pixel out of the screen or of the surface is used, a color mixed is
\* between both and next to the exact one, and the assertions fail for half bytes at odd
\* places only (SdlFrameBuffer::fill, fill_rect, blit, blend).
THEOREM SdlHolds == SdlSpec => []DrawingIsExact
<1>1. SdlInit => SdlInv
  <2>1. SUFFICES ASSUME SdlInit PROVE SdlInv
    OBVIOUS
  <2>2. pixels \in [Screen -> Argb]
    BY <2>1, SdlArguments DEF SdlInit, Screen, Argb
  <2> QED BY <2>1, <2>2 DEF SdlInit, SdlInv, DrawingIsExact
<1>2. SdlInv /\ [SdlNext]_sdlVars => SdlInv'
  <2>1. SUFFICES ASSUME SdlInv, [SdlNext]_sdlVars PROVE SdlInv'
    OBVIOUS
  <2>2. CASE SdlNext
    BY <2>1, <2>2, FillIsExact, FillRectIsExact, BlitIsExact, BlendIsExact DEF SdlNext
  <2>3. CASE UNCHANGED sdlVars
    BY <2>1, <2>3 DEF sdlVars, SdlInv, DrawingIsExact
  <2> QED BY <2>1, <2>2, <2>3
<1>3. SdlInv => DrawingIsExact
  BY DEF SdlInv
<1> QED BY <1>1, <1>2, <1>3, PTL DEF SdlSpec

--------------------------------------------------------------------------------
(* Dsi: what the invariant is. *)

Byte == 0..255

\* The shape of what is kept.
DsiTypes ==
    /\ video_mode \in BOOLEAN /\ refreshing \in BOOLEAN /\ tear \in BOOLEAN
    /\ frame \in BOOLEAN /\ reload \in BOOLEAN
    /\ wcr \in [dsien : BOOLEAN, ltdcen : BOOLEAN] /\ wisr \subseteq {"te", "er"}
    /\ frames \in [sent : Nat, te : Nat, wait : BOOLEAN]
    /\ sending = [header |-> sending.header, payload |-> sending.payload,
                  data |-> sending.data, got |-> sending.got]
    /\ sending.data \in Seq(Byte)
    /\ dsiPc.at \in {"idle", "layer", "write", "ask", "spin"}

\* A layer is shown where it was asked.
Shows(r, w) ==
    \A px \in 0..PanelW - 1, py \in 0..PanelH - 1 : ByRegisters(r, px, py) = AsAsked(w, px, py)

\* The registers of a layer are at the place they are to be.
Corner(at) == <<Horizontal[1] + Horizontal[2] + at.x, Vertical[1] + Vertical[2] + at.y>>
EndCorner(s, at) == <<Horizontal[1] + Horizontal[2] + at.x + s.w - 1,
                      Vertical[1] + Vertical[2] + at.y + s.h - 1>>

\* The layer which is being set up is not loaded before its end.
LayersHold ==
    /\ layers = [l \in Layer |-> layers[l]] /\ wanted = [l \in Layer |-> wanted[l]]
    /\ \A l \in Layer : {"from", "to"} \subseteq DOMAIN layers[l]
    /\ \A l \in Layer : ~(dsiPc.at = "layer" /\ dsiPc.layer = l) => Shows(layers[l], wanted[l])
    /\ dsiPc.at = "layer" =>
        /\ ~reload /\ dsiPc.layer \in Layer
        /\ dsiPc.surface \in LayerSurfaces /\ dsiPc.where \in LayerPositions
        /\ layers[dsiPc.layer].from = Corner(dsiPc.where)
        /\ layers[dsiPc.layer].to = EndCorner(dsiPc.surface, dsiPc.where)
    /\ \A l \in Layer : Shows(loaded_layers[l], shown_layers[l])

\* What is in the FIFO is the whole of a command, or nothing.
SendingHolds ==
    /\ dsiPc.at = "write" =>
        /\ dsiPc.data \in Seq(Byte) /\ dsiPc.data # << >> /\ dsiPc.next \in {"idle", "spin"}
        /\ dsiPc.data = SetTearOn <=> dsiPc.next = "spin"
    /\ sending.header # << >> =>
        /\ sending.data # << >> /\ sending.header = <<Header(sending.data)>>
        /\ sending.payload = Payload(sending.data)
    /\ CommandIsExact

\* How far a refresh is: nothing moves, the display was told to signal TE, the
\* frame was allowed, it was sent, its end was handled.
Quiet == ~frame /\ ~wcr.ltdcen /\ wisr = {}
Told == sending.header # << >> /\ sending.data = SetTearOn
Untold == ~tear /\ ~Told
Resting == Quiet /\ Untold /\ ~refreshing
Counted(sent, te, wait) == frames = [sent |-> sent, te |-> te, wait |-> wait]
Asking(wait) == Quiet /\ Untold /\ refreshing /\ Counted(0, 0, wait)
Signals == IF frames.wait THEN 1 ELSE 0
Telling == refreshing /\ Quiet /\ (tear <=> ~Told) /\ Counted(0, 0, TRUE)
Signaled == refreshing /\ Untold /\ ~frame /\ ~wcr.ltdcen /\ wisr = {"te"} /\ Counted(0, 1, TRUE)
Showing == refreshing /\ Untold /\ wcr.ltdcen /\ wisr = {} /\ frames.sent = 0 /\ frames.te = Signals
Shown == /\ refreshing /\ Untold /\ ~frame /\ ~wcr.ltdcen /\ wisr = {"er"}
         /\ frames.sent = 1 /\ frames.te = Signals
Refreshes == Resting /\ frames.sent = 1 /\ frames.te = Signals

RefreshHolds ==
    ~video_mode =>
        /\ dsiPc.at \in {"idle", "layer"} => Resting
        /\ dsiPc.at = "write" /\ dsiPc.next = "idle" => Resting
        /\ dsiPc.at = "write" /\ dsiPc.next = "spin" => Asking(TRUE)
        /\ dsiPc.at = "ask" => dsiPc.wait \in BOOLEAN /\ Asking(dsiPc.wait)
        /\ dsiPc.at = "spin" => Telling \/ Signaled \/ Showing \/ Shown \/ Refreshes

DsiInv == DsiTypes /\ LayersHold /\ SendingHolds /\ RefreshHolds

--------------------------------------------------------------------------------
(* Layers. *)

\* What is set up, and what is asked, is in these sets.
LEMMA DsiArgumentsAre ==
  /\ PanelW \in Nat /\ PanelH \in Nat
  /\ \A k \in {1, 2} : Horizontal[k] \in Nat /\ Vertical[k] \in Nat
  /\ \A s \in LayerSurfaces : IsSurface(s) /\ HasColor(s.format)
  /\ \A at \in LayerPositions : at.x \in Int /\ at.y \in Int
BY DsiSizes, DsiArguments

\* Formats with colors have whole bytes.
LEMMA WholeBytes ==
  ASSUME NEW s, IsSurface(s), HasColor(s.format)
  PROVE  \E b \in {2, 3, 4} : bpp[s.format] = 8 * b
<1>1. s.format \in {"ARGB8888", "RGB888", "RGB565", "ARGB4444"}
  BY DEF IsSurface, HasColor, Formats, bpp
<1> QED BY <1>1 DEF bpp

\* The offset of a line and that of a pixel in it make that of the pixel.
LEMMA OffsetIsSum ==
  ASSUME NEW b \in {2, 3, 4}, NEW y \in Int, NEW x \in Int, NEW stride \in Nat
  PROVE  y * ((stride * (8 * b)) \div 8) + (x * (8 * b)) \div 8
           = ((y * stride + x) * (8 * b)) \div 8
<1>1. \A z \in Int : (z * (8 * b)) \div 8 = z * b
  BY SMTT(30)
<1>2. y * stride \in Int /\ y * stride + x \in Int
  OBVIOUS
<1>3. y * (stride * b) = (y * stride) * b
  OBVIOUS
<1>4. \A p \in Int : p * b + x * b = (p + x) * b
  OBVIOUS
<1>5. (y * stride) * b + x * b = (y * stride + x) * b
  BY <1>2, <1>4
<1> QED BY <1>1, <1>2, <1>3, <1>5

\* The registers of a layer at the end of set up.
SetUp(r, s, at) ==
    r = [on |-> TRUE, from |-> Corner(at), to |-> EndCorner(s, at), pixels |-> s,
         pitch |-> (s.stride * bpp[s.format]) \div 8,
         length |-> (s.w * bpp[s.format]) \div 8 + 3, lines |-> s.h]

\* A layer which is set up shows its surface where it was asked.
LEMMA RegistersShow ==
  ASSUME NEW s \in LayerSurfaces, NEW at \in LayerPositions, NEW r, SetUp(r, s, at)
  PROVE  Shows(r, [on |-> TRUE, surface |-> s, where |-> at])
<1> DEFINE w == [on |-> TRUE, surface |-> s, where |-> at]
<1>1. SUFFICES ASSUME NEW px \in 0..PanelW - 1, NEW py \in 0..PanelH - 1
               PROVE  ByRegisters(r, px, py) = AsAsked(w, px, py)
  BY DEF Shows
<1>2. PICK b \in {2, 3, 4} : bpp[s.format] = 8 * b
  BY WholeBytes, DsiArgumentsAre
<1>3. /\ s.w \in Nat /\ s.h \in Nat /\ s.stride \in Nat /\ at.x \in Int /\ at.y \in Int
      /\ px \in Int /\ py \in Int
  <2>1. IsSurface(s) /\ at.x \in Int /\ at.y \in Int /\ PanelW \in Nat /\ PanelH \in Nat
    BY DsiArgumentsAre
  <2>2. {s.w, s.h, s.stride} \subseteq Nat
    BY <2>1 DEF IsSurface
  <2> QED BY <2>1, <2>2, <1>1
<1>4. Horizontal[1] \in Nat /\ Horizontal[2] \in Nat /\ Vertical[1] \in Nat /\ Vertical[2] \in Nat
  BY DsiArgumentsAre
<1> DEFINE h == Timing(Horizontal, PanelW).back + 1 + px
           v == Timing(Vertical, PanelH).back + 1 + py
<1>5. h = Horizontal[1] + Horizontal[2] + px /\ v = Vertical[1] + Vertical[2] + py
  BY <1>3, <1>4 DEF Timing
<1>6. /\ r.from[1] = Horizontal[1] + Horizontal[2] + at.x
      /\ r.from[2] = Vertical[1] + Vertical[2] + at.y
      /\ r.to[1] = Horizontal[1] + Horizontal[2] + at.x + s.w - 1
      /\ r.to[2] = Vertical[1] + Vertical[2] + at.y + s.h - 1
      /\ r.lines = s.h /\ r.pixels = s /\ r.on /\ r.pitch = (s.stride * bpp[s.format]) \div 8
  BY DEF SetUp, Corner, EndCorner
<1>7. /\ h - r.from[1] = px - at.x /\ v - r.from[2] = py - at.y
      /\ h \in r.from[1]..r.to[1] <=> px \in at.x..at.x + s.w - 1
      /\ v \in r.from[2]..r.to[2] <=> py \in at.y..at.y + s.h - 1
      /\ v \in r.from[2]..r.to[2] => v - r.from[2] < r.lines
  BY <1>3, <1>4, <1>5, <1>6
<1>8. (py - at.y) * ((s.stride * (8 * b)) \div 8) + ((px - at.x) * (8 * b)) \div 8
        = (((py - at.y) * s.stride + (px - at.x)) * (8 * b)) \div 8
  <2> DEFINE y == py - at.y
             x == px - at.x
             stride == s.stride
  <2>1. y \in Int /\ x \in Int /\ stride \in Nat
    BY <1>3
  <2> HIDE DEF y, x, stride
  <2>2. y * ((stride * (8 * b)) \div 8) + (x * (8 * b)) \div 8
          = ((y * stride + x) * (8 * b)) \div 8
    BY <2>1, OffsetIsSum
  <2> QED BY <2>2 DEF y, x, stride
<1>9. (py - at.y) * s.stride + (px - at.x) = (py - at.y) * s.stride + px - at.x
  <2>1. (py - at.y) * s.stride \in Int
    BY <1>3
  <2> QED BY <2>1, <1>3
<1>10. /\ w.on /\ w.surface = s /\ w.where = at
  OBVIOUS
<1> HIDE DEF h, v, w
<1>11. ByRegisters(r, px, py)
         = IF r.on /\ h \in r.from[1]..r.to[1] /\ v \in r.from[2]..r.to[2] /\ v - r.from[2] < r.lines
           THEN <<r.pixels, (v - r.from[2]) * r.pitch
                            + ((h - r.from[1]) * bpp[r.pixels.format]) \div 8>>
           ELSE << >>
  BY DEF ByRegisters, h, v
<1>12. AsAsked(w, px, py)
         = IF px \in at.x..at.x + s.w - 1 /\ py \in at.y..at.y + s.h - 1
           THEN <<s, (((py - at.y) * s.stride + px - at.x) * bpp[s.format]) \div 8>>
           ELSE << >>
  BY <1>10 DEF AsAsked, Covers
<1>13. (v - r.from[2]) * r.pitch + ((h - r.from[1]) * bpp[r.pixels.format]) \div 8
         = (((py - at.y) * s.stride + px - at.x) * bpp[s.format]) \div 8
  BY <1>2, <1>6, <1>7, <1>8, <1>9
<1>14. CASE px \in at.x..at.x + s.w - 1 /\ py \in at.y..at.y + s.h - 1
  BY <1>14, <1>6, <1>7, <1>11, <1>12, <1>13
<1>15. CASE ~(px \in at.x..at.x + s.w - 1 /\ py \in at.y..at.y + s.h - 1)
  BY <1>15, <1>7, <1>11, <1>12
<1> QED BY <1>14, <1>15 DEF w

--------------------------------------------------------------------------------
(* Commands. *)

\* The parts of a number of bytes and of the rank of one: whole words and what is left.
LEMMA WordOf ==
  ASSUME NEW k \in Nat, k >= 1
  PROVE  LET i == (k + 3) \div 4
             j == ((k - 1) % 4) + 1
         IN  i \in Nat /\ i >= 1 /\ j \in 1..4 /\ k = 4 * i - 4 + j
<1>1. PICK m \in Nat : k = m + 1
  <2>1. k - 1 \in Nat /\ k = (k - 1) + 1
    OBVIOUS
  <2> QED BY <2>1
<1>2. (k + 3) \div 4 = m \div 4 + 1 /\ (k - 1) % 4 = m % 4
  BY <1>1
<1>3. m \div 4 \in Nat /\ m % 4 \in 0..3 /\ m = 4 * (m \div 4) + (m % 4)
  BY <1>1
<1> QED BY <1>1, <1>2, <1>3

\* s is the part of data from m to n.
IsCut(s, data, m, n) ==
    /\ s \in Seq(Byte) /\ Len(s) = IF m <= n THEN n - m + 1 ELSE 0
    /\ \A j \in 1..n - m + 1 : s[j] = data[m + j - 1]

LEMMA CutBytes ==
  ASSUME NEW data \in Seq(Byte), NEW m \in Nat, NEW n \in Nat, m >= 1, n <= Len(data)
  PROVE  IsCut(SubSeq(data, m, n), data, m, n)
<1>1. \A j \in m..n : data[j] \in Byte
  <2>1. TAKE j \in m..n
  <2>2. j \in 1..Len(data)
    BY LenProperties
  <2> QED BY <2>2, ElementOfSeq
<1>2. /\ SubSeq(data, m, n) \in Seq(Byte)
      /\ Len(SubSeq(data, m, n)) = IF m <= n THEN n - m + 1 ELSE 0
      /\ \A j \in 1..n - m + 1 : SubSeq(data, m, n)[j] = data[m + j - 1]
  BY <1>1, SubSeqProperties
<1> QED BY <1>2 DEF IsCut

\* The words of a command which are full, then the last one.
LEMMA WordsAre ==
  ASSUME NEW data \in Seq(Byte), NEW q \in Nat, q = Len(data) \div 4,
         NEW r \in 0..3, Len(data) = 4 * q + r
  PROVE  /\ FullWords(data) \in Seq(Seq(Byte)) /\ Len(FullWords(data)) = q
         /\ \A i \in 1..q, j \in 1..4 : FullWords(data)[i][j] = data[4 * i - 4 + j]
         /\ LastWord(data) \in Seq(Byte) /\ Len(LastWord(data)) = r
         /\ \A j \in 1..r : LastWord(data)[j] = data[4 * q + j]
<1>1. FullWords(data) = [k \in 1..q |-> SubSeq(data, 4 * k - 3, 4 * k)]
  BY DEF FullWords
<1>2. ASSUME NEW i \in 1..q
      PROVE  /\ SubSeq(data, 4 * i - 3, 4 * i) \in Seq(Byte)
             /\ \A j \in 1..4 : SubSeq(data, 4 * i - 3, 4 * i)[j] = data[4 * i - 4 + j]
  <2> DEFINE m == 4 * i - 3
             n == 4 * i
  <2>1. m \in Nat /\ n \in Nat /\ m >= 1 /\ n <= Len(data)
    OBVIOUS
  <2>2. n - m + 1 = 4 /\ \A j \in 1..4 : m + j - 1 = 4 * i - 4 + j
    OBVIOUS
  <2> HIDE DEF m, n
  <2>3. IsCut(SubSeq(data, m, n), data, m, n)
    BY <2>1, CutBytes
  <2>4. SubSeq(data, m, n) \in Seq(Byte) /\ \A j \in 1..4 : SubSeq(data, m, n)[j] = data[4 * i - 4 + j]
    BY <2>2, <2>3 DEF IsCut
  <2> QED BY <2>4 DEF m, n
<1>3. FullWords(data) \in Seq(Seq(Byte)) /\ Len(FullWords(data)) = q
  <2>1. \A k \in 1..q : SubSeq(data, 4 * k - 3, 4 * k) \in Seq(Byte)
    BY <1>2
  <2>2. ASSUME NEW W, \A k \in 1..q : SubSeq(data, 4 * k - 3, 4 * k) \in W
        PROVE  /\ [k \in 1..q |-> SubSeq(data, 4 * k - 3, 4 * k)] \in Seq(W)
               /\ Len([k \in 1..q |-> SubSeq(data, 4 * k - 3, 4 * k)]) = q
    BY <2>2
  <2> QED BY <1>1, <2>1, <2>2
<1> DEFINE m == 4 * q + 1
           n == Len(data)
<1>4. LastWord(data) = SubSeq(data, m, n)
  BY DEF LastWord
<1>5. /\ n - m + 1 = r /\ (m <= n <=> r # 0)
      /\ \A j \in 1..r : m + j - 1 = 4 * q + j
  OBVIOUS
<1>6. m \in Nat /\ n \in Nat /\ m >= 1 /\ n <= Len(data)
  OBVIOUS
<1> HIDE DEF m, n
<1>7. IsCut(LastWord(data), data, m, n)
  BY <1>4, <1>6, CutBytes
<1>8. LastWord(data) \in Seq(Byte) /\ Len(LastWord(data)) = r
  BY <1>5, <1>7 DEF IsCut
<1>9. \A j \in 1..r : LastWord(data)[j] = data[4 * q + j]
  BY <1>5, <1>7 DEF IsCut
<1>10. \A i \in 1..q, j \in 1..4 : FullWords(data)[i][j] = data[4 * i - 4 + j]
  <2>1. ASSUME NEW i \in 1..q, NEW j \in 1..4
        PROVE  FullWords(data)[i][j] = data[4 * i - 4 + j]
    <3>1. FullWords(data)[i] = SubSeq(data, 4 * i - 3, 4 * i)
      BY <1>1
    <3>2. SubSeq(data, 4 * i - 3, 4 * i)[j] = data[4 * i - 4 + j]
      BY <1>2
    <3> QED BY <3>1, <3>2
  <2> QED BY <2>1
<1> QED BY <1>3, <1>8, <1>9, <1>10, Zenon

\* The payload of a long packet holds the bytes of the command, and no more words than
\* they need; that of a short one is empty.
LEMMA PayloadIs ==
  ASSUME NEW data \in Seq(Byte)
  PROVE  /\ Len(data) <= 2 => Payload(data) = << >>
         /\ Len(data) > 2 =>
                /\ Payload(data) \in Seq(Seq(Byte))
                /\ Len(Payload(data)) = (Len(data) + 3) \div 4
                /\ \A k \in 1..Len(data) : PayloadByte(Payload(data), k) = data[k]
<1> DEFINE q == Len(data) \div 4
           r == Len(data) % 4
<1>1. Len(data) \in Nat /\ q \in Nat /\ r \in 0..3 /\ Len(data) = 4 * q + r
  <2>1. Len(data) \in Nat
    BY LenProperties
  <2> QED BY <2>1
<1>2. q = Len(data) \div 4
  OBVIOUS
<1> HIDE DEF q, r
<1>3. /\ FullWords(data) \in Seq(Seq(Byte)) /\ Len(FullWords(data)) = q
      /\ \A i \in 1..q, j \in 1..4 : FullWords(data)[i][j] = data[4 * i - 4 + j]
      /\ LastWord(data) \in Seq(Byte) /\ Len(LastWord(data)) = r
      /\ \A j \in 1..r : LastWord(data)[j] = data[4 * q + j]
  BY <1>1, <1>2, WordsAre
<1>4. LastWord(data) = << >> <=> r = 0
  BY <1>3, EmptySeq
<1>5. ASSUME Len(data) <= 2 PROVE Payload(data) = << >>
  <2>1. q = 0
    BY <1>1, <1>5
  <2>2. FullWords(data) = << >>
    BY <1>3, <2>1, EmptySeq
  <2>3. Payload(data) = << >> \o << >>
    BY <1>5, <2>2, <1>1 DEF Payload
  <2> QED BY <2>3, ConcatEmptySeq, EmptySeq
<1>6. ASSUME Len(data) > 2
      PROVE  /\ Payload(data) \in Seq(Seq(Byte))
             /\ Len(Payload(data)) = (Len(data) + 3) \div 4
             /\ \A k \in 1..Len(data) : PayloadByte(Payload(data), k) = data[k]
  <2> DEFINE last == IF r # 0 THEN <<LastWord(data)>> ELSE << >>
             size == IF r # 0 THEN 1 ELSE 0
  <2>1. Payload(data) = FullWords(data) \o last
    BY <1>4, <1>6 DEF Payload
  <2>2. last \in Seq(Seq(Byte)) /\ Len(last) = size /\ (r # 0 => last[1] = LastWord(data))
    BY <1>3
  <2> HIDE DEF last
  <2>3. /\ Payload(data) \in Seq(Seq(Byte)) /\ Len(Payload(data)) = q + size
        /\ \A i \in 1..q + size : Payload(data)[i] = IF i <= q THEN FullWords(data)[i] ELSE last[i - q]
    <3> DEFINE W == Seq(Byte)
               words == FullWords(data)
    <3>1. words \in Seq(W) /\ last \in Seq(W) /\ Len(words) = q /\ Len(last) = size
      BY <1>3, <2>2
    <3> HIDE DEF W, words
    <3>2. /\ words \o last \in Seq(W) /\ Len(words \o last) = Len(words) + Len(last)
          /\ \A i \in 1..Len(words) + Len(last) :
                 (words \o last)[i] = IF i <= Len(words) THEN words[i] ELSE last[i - Len(words)]
      BY <3>1, ConcatProperties
    <3>3. Payload(data) = words \o last
      BY <2>1 DEF words
    <3>4. /\ Payload(data) \in Seq(W) /\ Len(Payload(data)) = q + size
          /\ \A i \in 1..q + size : Payload(data)[i] = IF i <= q THEN words[i] ELSE last[i - q]
      BY <3>1, <3>2, <3>3
    <3> QED BY <3>4 DEF W, words
  <2>4. (Len(data) + 3) \div 4 = q + size
    BY <1>1
  <2>5. ASSUME NEW k \in 1..Len(data)
        PROVE  PayloadByte(Payload(data), k) = data[k]
    <3> DEFINE i == (k + 3) \div 4
               j == ((k - 1) % 4) + 1
    <3>1. k \in Nat /\ k >= 1
      BY <1>1
    <3>2. i \in Nat /\ i >= 1 /\ j \in 1..4 /\ k = 4 * i - 4 + j
      BY <3>1, WordOf
    <3>3. PayloadByte(Payload(data), k) = Payload(data)[i][j]
      BY DEF PayloadByte
    <3> HIDE DEF i, j
    <3>4. CASE i <= q
      <4>1. i \in 1..q /\ i \in 1..q + size
        BY <3>2, <3>4, <1>1
      <4>2. Payload(data)[i] = FullWords(data)[i]
        BY <2>3, <3>4, <4>1
      <4>3. FullWords(data)[i][j] = data[4 * i - 4 + j]
        BY <1>3, <3>2, <4>1
      <4> QED BY <3>2, <3>3, <4>2, <4>3
    <3>5. CASE i > q
      <4>1. i = q + 1 /\ r # 0 /\ size = 1 /\ j \in 1..r /\ k = 4 * q + j
        BY <3>2, <3>5, <1>1
      <4>2. Payload(data)[q + 1] = last[1]
        <5>1. q + 1 \in 1..q + size /\ ~(q + 1 <= q) /\ (q + 1) - q = 1
          BY <4>1, <1>1
        <5> QED BY <2>3, <5>1
      <4>3. last[1] = LastWord(data)
        BY <2>2, <4>1
      <4>4. LastWord(data)[j] = data[4 * q + j]
        BY <1>3, <4>1
      <4> QED BY <3>3, <4>1, <4>2, <4>3, <4>4
    <3> QED BY <3>2, <3>4, <3>5, <1>1
  <2> QED BY <2>3, <2>4, <2>5
<1> QED BY <1>5, <1>6

\* The display gets the command, and nothing of it is left.
\* A packet of one or two bytes holds them; a long one tells how many there are.
LEMMA ShortFields ==
  ASSUME NEW h, NEW type \in {"short 0", "short 1"}, NEW bytes, NEW count,
         h = [type |-> type, bytes |-> bytes, count |-> count]
  PROVE  h.type # "long" /\ h.bytes = bytes
OBVIOUS

LEMMA ShortHeader ==
  ASSUME NEW data, Len(data) = 1 \/ Len(data) = 2
  PROVE  Header(data).type # "long" /\ Header(data).bytes = data
<1>1. CASE Len(data) = 1
  <2>1. Header(data) = [type |-> "short 0", bytes |-> data, count |-> 1]
    BY <1>1 DEF Header
  <2> QED BY <2>1, ShortFields
<1>2. CASE Len(data) = 2
  <2>1. Header(data) = [type |-> "short 1", bytes |-> data, count |-> 2]
    BY <1>2 DEF Header
  <2> QED BY <2>1, ShortFields
<1> QED BY <1>1, <1>2

LEMMA LongHeader ==
  ASSUME NEW data, NEW n \in Nat, Len(data) = n, n > 2
  PROVE  Header(data).type = "long" /\ Header(data).count = Len(data)
<1>1. ~(Len(data) = 1) /\ ~(Len(data) = 2)
  OBVIOUS
<1>2. Header(data) = [type |-> "long", bytes |-> << >>, count |-> Len(data)]
  BY <1>1 DEF Header
<1> QED BY <1>2

\* What the display gets of a packet, and what stays in the FIFO.
LEMMA PacketIs ==
  ASSUME NEW data \in Seq(Byte), data # << >>
  PROVE  /\ (IF Header(data).type # "long" THEN Header(data).bytes
             ELSE [k \in 1..Header(data).count |-> PayloadByte(Payload(data), k)]) = data
         /\ (IF Header(data).type # "long" THEN Payload(data)
             ELSE SubSeq(Payload(data), (Header(data).count + 3) \div 4 + 1,
                         Len(Payload(data)))) = << >>
<1>1. Len(data) \in Nat /\ Len(data) >= 1
  BY EmptySeq
<1>2. CASE Len(data) <= 2
  <2>1. Header(data).type # "long" /\ Header(data).bytes = data
    <3>1. PICK n \in Nat : Len(data) = n
      BY <1>1
    <3>2. n = 1 \/ n = 2
      BY <1>1, <1>2, <3>1
    <3>3. Len(data) = 1 \/ Len(data) = 2
      BY <3>1, <3>2
    <3> QED BY <3>3, ShortHeader
  <2>2. Payload(data) = << >>
    BY <1>2, PayloadIs
  <2> QED BY <2>1, <2>2
<1>3. CASE Len(data) > 2
  <2>1. Header(data).type = "long" /\ Header(data).count = Len(data)
    <3>1. PICK n \in Nat : Len(data) = n
      BY <1>1
    <3>2. n > 2
      BY <1>3, <3>1
    <3> QED BY <3>1, <3>2, LongHeader
  <2>2. /\ Payload(data) \in Seq(Seq(Byte)) /\ Len(Payload(data)) = (Len(data) + 3) \div 4
        /\ \A k \in 1..Len(data) : PayloadByte(Payload(data), k) = data[k]
    BY <1>3, PayloadIs
  <2>3. [k \in 1..Len(data) |-> PayloadByte(Payload(data), k)] = data
    <3>1. data = [k \in 1..Len(data) |-> data[k]]
      BY LenProperties
    <3> QED BY <2>2, <3>1
  <2>4. SubSeq(Payload(data), Len(Payload(data)) + 1, Len(Payload(data))) = << >>
    <3>1. Len(Payload(data)) \in Nat
      BY <2>2, LenProperties
    <3>2. /\ Len(Payload(data)) < Len(Payload(data)) + 1
          /\ Len(Payload(data)) \in Int /\ Len(Payload(data)) + 1 \in Int
      BY <3>1
    <3> QED BY <3>2, SubSeqEmpty
  <2> QED BY <2>1, <2>2, <2>3, <2>4
<1> QED BY <1>1, <1>2, <1>3

LEMMA PacketIsSent ==
  ASSUME DsiTypes, SendingHolds, SendPacket
  PROVE  /\ sending' = [header |-> << >>, payload |-> << >>, data |-> sending.data,
                        got |-> sending.data]
         /\ tear' = (tear \/ sending.data = SetTearOn)
         /\ sending.header # << >>
<1> DEFINE h == sending.header[1]
           got == IF h.type # "long" THEN h.bytes
                  ELSE [k \in 1..h.count |-> PayloadByte(sending.payload, k)]
           left == IF h.type # "long" THEN sending.payload
                   ELSE SubSeq(sending.payload, (h.count + 3) \div 4 + 1, Len(sending.payload))
<1>1. /\ sending.header # << >> /\ tear' = (tear \/ got = SetTearOn)
      /\ sending' = [header |-> << >>, data |-> sending.data, got |-> got, payload |-> left]
  BY DEF SendPacket
<1>2. /\ sending.data # << >> /\ sending.header = <<Header(sending.data)>>
      /\ sending.payload = Payload(sending.data) /\ sending.data \in Seq(Byte)
  BY <1>1 DEF SendingHolds, DsiTypes
<1>3. h = Header(sending.data)
  BY <1>2
<1>4. got = sending.data /\ left = << >>
  BY <1>2, <1>3, PacketIs
<1> HIDE DEF got, left
<1>5. sending' = [header |-> << >>, data |-> sending.data, got |-> sending.data, payload |-> << >>]
  BY <1>1, <1>4
<1>6. tear' = (tear \/ sending.data = SetTearOn)
  BY <1>1, <1>4
<1> QED BY <1>1, <1>5, <1>6

--------------------------------------------------------------------------------
(* What steps keep. *)

\* Steps which send and write nothing.
LEMMA SentSoFar ==
  ASSUME SendingHolds, UNCHANGED sending, UNCHANGED dsiPc \/ dsiPc'.at # "write"
  PROVE  SendingHolds'
BY DEF SendingHolds, CommandIsExact

LEMMA SendingStays ==
  ASSUME DsiInv, DsiNext
  PROVE  SendingHolds'
<1> USE DEF DsiInv
<1>1. ASSUME NEW l \in Layer, NEW s \in LayerSurfaces, NEW at \in LayerPositions,
             SetupLayer(l, s, at)
      PROVE  SendingHolds'
  BY <1>1, SentSoFar DEF SetupLayer
<1>2. ASSUME NEW data \in DsiCommands, WriteCall(data)
      PROVE  SendingHolds'
  <2>1. data \in Seq(Byte) /\ data # << >> /\ data # SetTearOn
    BY DsiArguments DEF Byte
  <2>2. UNCHANGED sending /\ dsiPc' = [at |-> "write", data |-> data, next |-> "idle"]
    BY <1>2 DEF WriteCall
  <2> QED BY <2>1, <2>2 DEF SendingHolds, CommandIsExact
<1>3. ASSUME NEW wait \in BOOLEAN, Refresh(wait)
      PROVE  SendingHolds'
  BY <1>3, SentSoFar DEF Refresh
<1>4. CASE SetupBuffer
  BY <1>4, SentSoFar DEF SetupBuffer
<1>5. CASE write_command
  <2>1. /\ dsiPc.data \in Seq(Byte) /\ dsiPc.data # << >> /\ dsiPc.next \in {"idle", "spin"}
        /\ dsiPc' = [at |-> dsiPc.next]
        /\ sending' = [sending EXCEPT !.header = <<Header(dsiPc.data)>>,
                                      !.payload = Payload(dsiPc.data), !.data = dsiPc.data]
    BY <1>5 DEF SendingHolds, write_command
  <2>2. /\ sending'.header = <<Header(dsiPc.data)>> /\ sending'.payload = Payload(dsiPc.data)
        /\ sending'.data = dsiPc.data
    BY <2>1 DEF DsiTypes
  <2>3. sending'.header # << >> /\ dsiPc'.at # "write"
    BY <2>1, <2>2
  <2> QED BY <2>1, <2>2, <2>3 DEF SendingHolds, CommandIsExact
<1>6. CASE Ask
  <2>1. UNCHANGED sending
    BY <1>6 DEF Ask
  <2>2. \/ dsiPc' = [at |-> "write", data |-> SetTearOn, next |-> "spin"]
        \/ dsiPc' = [at |-> "spin"]
    BY <1>6 DEF Ask
  <2>3. SetTearOn \in Seq(Byte) /\ SetTearOn # << >>
    BY DEF SetTearOn, Byte
  <2> QED BY <2>1, <2>2, <2>3, SentSoFar DEF SendingHolds, CommandIsExact
<1>7. CASE RefreshDone
  BY <1>7, SentSoFar DEF RefreshDone
<1>8. CASE DsiHandler
  BY <1>8, SentSoFar DEF DsiHandler
<1>9. CASE SendPacket
  <2>1. /\ sending' = [header |-> << >>, payload |-> << >>, data |-> sending.data,
                       got |-> sending.data]
        /\ UNCHANGED dsiPc
    BY <1>9, PacketIsSent DEF SendPacket
  <2> QED BY <2>1 DEF SendingHolds, CommandIsExact
<1>10. CASE TearingEffect
  BY <1>10, SentSoFar DEF TearingEffect
<1>11. CASE FrameStarts \/ FrameEnds
  BY <1>11, SentSoFar DEF FrameStarts, FrameEnds
<1>12. CASE Reload
  BY <1>12, SentSoFar DEF Reload
<1> QED BY <1>1, <1>2, <1>3, <1>4, <1>5, <1>6, <1>7, <1>8, <1>9, <1>10, <1>11, <1>12
        DEF DsiNext, DsiCalls, DsiGoesOn, DsiSends, DsiFrames

\* Steps which are not about layers.
LEMMA LayersUntouched ==
  ASSUME LayersHold, UNCHANGED <<layers, loaded_layers, reload, shown_layers, wanted>>,
         UNCHANGED dsiPc \/ (dsiPc'.at # "layer" /\ dsiPc.at # "layer")
  PROVE  LayersHold'
BY DEF LayersHold

LEMMA LayersStay ==
  ASSUME DsiInv, DsiNext
  PROVE  LayersHold'
<1> USE DEF DsiInv
<1>1. ASSUME NEW l \in Layer, NEW s \in LayerSurfaces, NEW at \in LayerPositions,
             SetupLayer(l, s, at)
      PROVE  LayersHold'
  <2>1. /\ dsiPc.at = "idle" /\ ~reload
        /\ dsiPc' = [at |-> "layer", layer |-> l, surface |-> s, where |-> at]
        /\ UNCHANGED <<loaded_layers, reload, shown_layers, wanted>>
    BY <1>1 DEF SetupLayer, DsiCall, wait_reload
  <2> DEFINE from == <<Horizontal[1] + Horizontal[2] + at.x, Vertical[1] + Vertical[2] + at.y>>
             to == <<Horizontal[1] + Horizontal[2] + at.x + s.w - 1,
                     Vertical[1] + Vertical[2] + at.y + s.h - 1>>
  <2>2. layers' = [layers EXCEPT ![l].from = from, ![l].to = to]
    BY <1>1 DEF SetupLayer
  <2>3. from = Corner(at) /\ to = EndCorner(s, at)
    BY DEF Corner, EndCorner
  <2> HIDE DEF from, to
  <2>4. /\ layers = [k \in Layer |-> layers[k]] /\ {"from", "to"} \subseteq DOMAIN layers[l]
        /\ \A k \in Layer : {"from", "to"} \subseteq DOMAIN layers[k]
        /\ \A k \in Layer : Shows(layers[k], wanted[k])
        /\ wanted = [k \in Layer |-> wanted[k]]
        /\ \A k \in Layer : Shows(loaded_layers[k], shown_layers[k])
    BY <2>1 DEF LayersHold
  <2>5. /\ layers' = [k \in Layer |-> layers'[k]]
        /\ \A k \in Layer : k # l => layers'[k] = layers[k]
        /\ layers'[l].from = from /\ layers'[l].to = to
        /\ DOMAIN layers'[l] = DOMAIN layers[l]
    BY <2>2, <2>4
  <2>6. /\ dsiPc'.at = "layer" /\ dsiPc'.layer = l /\ dsiPc'.surface = s /\ dsiPc'.where = at
    BY <2>1
  <2>7. \A k \in Layer : {"from", "to"} \subseteq DOMAIN layers'[k]
    BY <2>4, <2>5
  <2>8. \A k \in Layer : ~(dsiPc'.at = "layer" /\ dsiPc'.layer = k) => Shows(layers'[k], wanted'[k])
    BY <2>1, <2>4, <2>5, <2>6
  <2>9. \A k \in Layer : Shows(loaded_layers'[k], shown_layers'[k])
    BY <2>1, <2>4
  <2>10. wanted' = [k \in Layer |-> wanted'[k]]
    BY <2>1, <2>4
  <2> QED BY <2>1, <2>3, <2>5, <2>6, <2>7, <2>8, <2>9, <2>10 DEF LayersHold
<1>2. ASSUME NEW data \in DsiCommands, WriteCall(data)
      PROVE  LayersHold'
  BY <1>2, LayersUntouched DEF WriteCall, DsiCall
<1>3. ASSUME NEW wait \in BOOLEAN, Refresh(wait)
      PROVE  LayersHold'
  BY <1>3, LayersUntouched DEF Refresh, DsiCall
<1>4. CASE SetupBuffer
  <2> DEFINE l == dsiPc.layer
             s == dsiPc.surface
             at == dsiPc.where
  <2>1. /\ dsiPc.at = "layer" /\ dsiPc' = [at |-> "idle"] /\ UNCHANGED <<loaded_layers, shown_layers>>
        /\ layers' = [layers EXCEPT
                ![l] = [on |-> TRUE, from |-> layers[l].from, to |-> layers[l].to, pixels |-> s,
                        pitch |-> (s.stride * bpp[s.format]) \div 8,
                        length |-> (s.w * bpp[s.format]) \div 8 + 3, lines |-> s.h]]
        /\ wanted' = [wanted EXCEPT ![l] = [on |-> TRUE, surface |-> s, where |-> at]]
    BY <1>4 DEF SetupBuffer
  <2>2. /\ l \in Layer /\ s \in LayerSurfaces /\ at \in LayerPositions
        /\ layers[l].from = Corner(at) /\ layers[l].to = EndCorner(s, at)
        /\ layers = [k \in Layer |-> layers[k]] /\ wanted = [k \in Layer |-> wanted[k]]
        /\ \A k \in Layer : {"from", "to"} \subseteq DOMAIN layers[k]
        /\ \A k \in Layer : k # l => Shows(layers[k], wanted[k])
        /\ \A k \in Layer : Shows(loaded_layers[k], shown_layers[k])
    BY <2>1 DEF LayersHold
  <2> HIDE DEF l, s, at
  <2>3. /\ layers' = [k \in Layer |-> layers'[k]] /\ wanted' = [k \in Layer |-> wanted'[k]]
        /\ \A k \in Layer : k # l => layers'[k] = layers[k] /\ wanted'[k] = wanted[k]
        /\ wanted'[l] = [on |-> TRUE, surface |-> s, where |-> at]
        /\ layers'[l] = [on |-> TRUE, from |-> layers[l].from, to |-> layers[l].to, pixels |-> s,
                         pitch |-> (s.stride * bpp[s.format]) \div 8,
                         length |-> (s.w * bpp[s.format]) \div 8 + 3, lines |-> s.h]
    BY <2>1, <2>2
  <2>4. SetUp(layers'[l], s, at)
    BY <2>2, <2>3 DEF SetUp
  <2>5. Shows(layers'[l], wanted'[l])
    BY <2>2, <2>3, <2>4, RegistersShow
  <2>6. "from" \in DOMAIN layers'[l] /\ "to" \in DOMAIN layers'[l]
    BY <2>3
  <2>7. \A k \in Layer : {"from", "to"} \subseteq DOMAIN layers'[k]
    BY <2>2, <2>3, <2>6
  <2>8. \A k \in Layer : Shows(layers'[k], wanted'[k])
    BY <2>2, <2>3, <2>5
  <2>9. \A k \in Layer : Shows(loaded_layers'[k], shown_layers'[k])
    BY <2>1, <2>2
  <2>10. dsiPc'.at # "layer"
    BY <2>1
  <2> QED BY <2>3, <2>7, <2>8, <2>9, <2>10 DEF LayersHold
<1>5. CASE write_command
  <2>1. dsiPc.next # "layer"
    BY <1>5 DEF SendingHolds, write_command
  <2> QED BY <1>5, <2>1, LayersUntouched DEF write_command
<1>6. CASE Ask
  BY <1>6, LayersUntouched DEF Ask
<1>7. CASE RefreshDone
  BY <1>7, LayersUntouched DEF RefreshDone
<1>8. CASE DsiHandler
  BY <1>8, LayersUntouched DEF DsiHandler
<1>9. CASE SendPacket \/ TearingEffect
  BY <1>9, LayersUntouched DEF SendPacket, TearingEffect
<1>10. CASE FrameStarts \/ FrameEnds
  BY <1>10, LayersUntouched DEF FrameStarts, FrameEnds
<1>11. CASE Reload
  <2>1. /\ reload /\ loaded_layers' = layers /\ shown_layers' = wanted
        /\ UNCHANGED <<dsiPc, layers, wanted>>
    BY <1>11 DEF Reload
  <2>2. dsiPc.at # "layer" /\ \A k \in Layer : Shows(layers[k], wanted[k])
    BY <2>1 DEF LayersHold
  <2>3. \A k \in Layer : Shows(loaded_layers'[k], shown_layers'[k])
    BY <2>1, <2>2
  <2>4. \A k \in Layer : Shows(layers'[k], wanted'[k])
    BY <2>1, <2>2
  <2>5. /\ layers' = [k \in Layer |-> layers'[k]] /\ wanted' = [k \in Layer |-> wanted'[k]]
        /\ \A k \in Layer : {"from", "to"} \subseteq DOMAIN layers'[k]
    BY <2>1 DEF LayersHold
  <2> QED BY <2>1, <2>2, <2>3, <2>4, <2>5 DEF LayersHold
<1> QED BY <1>1, <1>2, <1>3, <1>4, <1>5, <1>6, <1>7, <1>8, <1>9, <1>10, <1>11
        DEF DsiNext, DsiCalls, DsiGoesOn, DsiSends, DsiFrames

LEMMA DsiTypesStay ==
  ASSUME DsiInv, DsiNext
  PROVE  DsiTypes'
<1> USE DEF DsiInv
<1>1. UNCHANGED video_mode
  BY DEF DsiNext
<1>2. ASSUME NEW l \in Layer, NEW s \in LayerSurfaces, NEW at \in LayerPositions,
             SetupLayer(l, s, at)
      PROVE  DsiTypes'
  BY <1>1, <1>2 DEF SetupLayer, DsiTypes
<1>3. ASSUME NEW data \in DsiCommands, WriteCall(data)
      PROVE  DsiTypes'
  BY <1>1, <1>3 DEF WriteCall, DsiTypes
<1>4. ASSUME NEW wait \in BOOLEAN, Refresh(wait)
      PROVE  DsiTypes'
  BY <1>1, <1>4 DEF Refresh, DsiTypes
<1>5. CASE SetupBuffer
  BY <1>1, <1>5 DEF SetupBuffer, DsiTypes
<1>6. CASE write_command
  <2>1. dsiPc.data \in Seq(Byte) /\ dsiPc.next \in {"idle", "spin"}
    BY <1>6 DEF write_command, SendingHolds
  <2> DEFINE header == <<Header(dsiPc.data)>>
             payload == Payload(dsiPc.data)
  <2>2. /\ sending' = [sending EXCEPT !.header = header, !.payload = payload, !.data = dsiPc.data]
        /\ dsiPc' = [at |-> dsiPc.next]
        /\ UNCHANGED <<refreshing, wcr, wisr, tear, frame, frames, reload>>
    BY <1>6 DEF write_command
  <2> HIDE DEF header, payload
  <2> QED BY <1>1, <2>1, <2>2 DEF DsiTypes
<1>7. CASE Ask
  <2>1. wcr' = wcr \/ wcr' = [wcr EXCEPT !.ltdcen = TRUE]
    BY <1>7 DEF Ask
  <2>2. dsiPc'.at \in {"write", "spin"}
    BY <1>7 DEF Ask
  <2>3. UNCHANGED <<refreshing, wisr, sending, tear, frame, frames, reload>>
    BY <1>7 DEF Ask
  <2> QED BY <1>1, <2>1, <2>2, <2>3 DEF DsiTypes
<1>8. CASE RefreshDone
  BY <1>1, <1>8 DEF RefreshDone, DsiTypes
<1>9. CASE DsiHandler
  BY <1>1, <1>9 DEF DsiHandler, DsiTypes
<1>10. CASE SendPacket
  <2>1. /\ sending' = [header |-> << >>, payload |-> << >>, data |-> sending.data,
                       got |-> sending.data]
        /\ tear' = (tear \/ sending.data = SetTearOn)
    BY <1>10, PacketIsSent
  <2>2. UNCHANGED <<refreshing, dsiPc, wcr, wisr, frame, frames, reload>>
    BY <1>10 DEF SendPacket
  <2> QED BY <1>1, <2>1, <2>2 DEF DsiTypes
<1>11. CASE TearingEffect
  <2>1. frames' \in [sent : Nat, te : Nat, wait : BOOLEAN]
    <3>1. frames' = [frames EXCEPT !.te = frames.te + 1] /\ frames.te + 1 \in Nat
      BY <1>11 DEF TearingEffect, DsiTypes
    <3> QED BY <3>1 DEF DsiTypes
  <2>2. /\ tear' = FALSE /\ wisr' = wisr \cup {"te"}
        /\ UNCHANGED <<refreshing, dsiPc, wcr, sending, frame, reload>>
    BY <1>11 DEF TearingEffect
  <2> QED BY <1>1, <2>1, <2>2 DEF DsiTypes
<1>12. CASE FrameStarts
  BY <1>1, <1>12 DEF FrameStarts, DsiTypes
<1>13. CASE FrameEnds
  <2>1. frames' \in [sent : Nat, te : Nat, wait : BOOLEAN]
    <3>1. /\ frames' = frames \/ frames' = [frames EXCEPT !.sent = frames.sent + 1]
          /\ frames.sent + 1 \in Nat
      BY <1>13 DEF FrameEnds, DsiTypes
    <3> QED BY <3>1 DEF DsiTypes
  <2>2. /\ frame' = FALSE /\ wcr' = [wcr EXCEPT !.ltdcen = video_mode]
        /\ wisr' = wisr \/ wisr' = wisr \cup {"er"}
        /\ UNCHANGED <<refreshing, dsiPc, sending, tear, reload>>
    BY <1>13 DEF FrameEnds
  <2> QED BY <1>1, <2>1, <2>2 DEF DsiTypes
<1>14. CASE Reload
  BY <1>1, <1>14 DEF Reload, DsiTypes
<1> QED BY <1>2, <1>3, <1>4, <1>5, <1>6, <1>7, <1>8, <1>9, <1>10, <1>11, <1>12, <1>13, <1>14
        DEF DsiNext, DsiCalls, DsiGoesOn, DsiSends, DsiFrames

\* A refresh goes through its states, whatever is interleaved.
LEMMA RefreshStays ==
  ASSUME DsiInv, DsiNext
  PROVE  RefreshHolds'
<1> USE DEF DsiInv
<1> SUFFICES ASSUME ~video_mode
             PROVE  RefreshHolds'
  BY DEF RefreshHolds, DsiNext
<1> USE DEF Resting, Quiet, Untold, Told
<1>0. \/ Quiet /\ Untold
      \/ dsiPc.at = "spin" /\ (Telling \/ Signaled \/ Showing \/ Shown)
  <2>1. CASE dsiPc.at = "spin"
    BY <2>1 DEF RefreshHolds, Refreshes
  <2>2. CASE dsiPc.at \in {"idle", "layer"}
    BY <2>2 DEF RefreshHolds
  <2>3. CASE dsiPc.at = "write"
    <3>1. dsiPc.next = "idle" \/ dsiPc.next = "spin"
      BY <2>3 DEF SendingHolds
    <3> QED BY <2>3, <3>1 DEF RefreshHolds, Asking
  <2>4. CASE dsiPc.at = "ask"
    BY <2>4 DEF RefreshHolds, Asking
  <2> QED BY <2>1, <2>2, <2>3, <2>4 DEF DsiTypes
<1>1. ASSUME NEW l \in Layer, NEW s \in LayerSurfaces, NEW at \in LayerPositions,
             SetupLayer(l, s, at)
      PROVE  RefreshHolds'
  BY <1>1 DEF SetupLayer, DsiCall, RefreshHolds, DsiTypes
<1>2. ASSUME NEW data \in DsiCommands, WriteCall(data)
      PROVE  RefreshHolds'
  BY <1>2 DEF WriteCall, DsiCall, RefreshHolds
<1>3. ASSUME NEW wait \in BOOLEAN, Refresh(wait)
      PROVE  RefreshHolds'
  BY <1>3 DEF Refresh, DsiCall, RefreshHolds, Asking, Counted
<1>4. CASE SetupBuffer
  BY <1>4 DEF SetupBuffer, RefreshHolds, DsiTypes
<1>5. CASE write_command
  <2>1. /\ dsiPc.at = "write" /\ dsiPc' = [at |-> dsiPc.next] /\ dsiPc.next \in {"idle", "spin"}
        /\ dsiPc.data = SetTearOn <=> dsiPc.next = "spin"
        /\ UNCHANGED <<refreshing, wcr, wisr, tear, frame, frames>>
    BY <1>5 DEF write_command, SendingHolds
  <2> DEFINE header == <<Header(dsiPc.data)>>
             payload == Payload(dsiPc.data)
  <2>2. header # << >>
    OBVIOUS
  <2>3. sending' = [sending EXCEPT !.header = header, !.payload = payload, !.data = dsiPc.data]
    BY <1>5 DEF write_command
  <2> HIDE DEF header, payload
  <2>4. sending'.header # << >> /\ sending'.data = dsiPc.data
    BY <2>2, <2>3 DEF DsiTypes
  <2>5. CASE dsiPc.next = "idle"
    BY <2>1, <2>4, <2>5 DEF RefreshHolds
  <2>6. CASE dsiPc.next = "spin"
    <3>1. Asking(TRUE)
      BY <2>1, <2>6 DEF RefreshHolds
    <3>2. Telling'
      BY <3>1, <2>1, <2>4, <2>6 DEF Asking, Telling, Counted
    <3> QED BY <2>1, <2>6, <3>2 DEF RefreshHolds
  <2> QED BY <2>1, <2>5, <2>6
<1>6. CASE Ask
  <2>1. dsiPc.wait \in BOOLEAN /\ Asking(dsiPc.wait)
    BY <1>6 DEF Ask, RefreshHolds
  <2>2. CASE dsiPc.wait
    <3>1. /\ dsiPc' = [at |-> "write", data |-> SetTearOn, next |-> "spin"]
          /\ UNCHANGED <<refreshing, wcr, wisr, sending, tear, frame, frames>>
      BY <1>6, <2>2 DEF Ask
    <3>2. Asking(TRUE)
      BY <2>1, <2>2
    <3>3. Asking(TRUE)'
      BY <3>1, <3>2 DEF Asking, Counted
    <3> QED BY <3>1, <3>3 DEF RefreshHolds
  <2>3. CASE ~dsiPc.wait
    <3>1. /\ dsiPc' = [at |-> "spin"] /\ wcr' = [wcr EXCEPT !.ltdcen = TRUE]
          /\ UNCHANGED <<refreshing, wisr, sending, tear, frame, frames>>
      BY <1>6, <2>3 DEF Ask
    <3>2. Asking(FALSE)
      BY <2>1, <2>3
    <3>3. Showing'
      BY <3>1, <3>2 DEF Asking, Counted, Showing, Signals, DsiTypes
    <3> QED BY <3>1, <3>3 DEF RefreshHolds
  <2> QED BY <2>2, <2>3
<1>7. CASE RefreshDone
  <2>1. Resting
    BY <1>7 DEF RefreshDone, RefreshHolds, Telling, Signaled, Showing, Shown, Refreshes
  <2> QED BY <1>7, <2>1 DEF RefreshDone, RefreshHolds
<1>8. ASSUME UNCHANGED dsiPc, dsiPc.at = "spin",
             (Telling \/ Signaled \/ Showing \/ Shown \/ Refreshes)'
      PROVE  RefreshHolds'
  BY <1>8 DEF RefreshHolds
<1>9. CASE DsiHandler
  <2>1. wisr # {} /\ UNCHANGED <<dsiPc, sending, tear, frame, frames>>
    BY <1>9 DEF DsiHandler
  <2>2. dsiPc.at = "spin" /\ (Signaled \/ Shown)
    BY <1>0, <2>1 DEF Telling, Showing
  <2>3. CASE Signaled
    <3>1. wisr' = {} /\ wcr' = [wcr EXCEPT !.ltdcen = TRUE] /\ UNCHANGED refreshing
      BY <1>9, <2>3 DEF DsiHandler, Signaled
    <3>2. Showing'
      BY <2>1, <2>3, <3>1 DEF Signaled, Showing, Signals, Counted, DsiTypes
    <3> QED BY <1>8, <2>1, <2>2, <3>2
  <2>4. CASE Shown
    <3>1. wisr' = {} /\ ~refreshing' /\ UNCHANGED wcr
      BY <1>9, <2>4 DEF DsiHandler, Shown
    <3>2. Refreshes'
      BY <2>1, <2>4, <3>1 DEF Shown, Refreshes, Signals
    <3> QED BY <1>8, <2>1, <2>2, <3>2
  <2> QED BY <2>2, <2>3, <2>4
<1>10. CASE SendPacket
  <2>1. /\ sending' = [header |-> << >>, payload |-> << >>, data |-> sending.data,
                       got |-> sending.data]
        /\ tear' = (tear \/ sending.data = SetTearOn) /\ sending.header # << >>
    BY <1>10, PacketIsSent
  <2>2. UNCHANGED <<refreshing, dsiPc, wcr, wisr, frame, frames>>
    BY <1>10 DEF SendPacket
  <2>3. sending'.header = << >> /\ ~Told'
    BY <2>1
  <2>4. Untold => Untold'
    BY <2>1, <2>3
  <2>5. Telling => Telling'
    BY <2>1, <2>2, <2>3 DEF Telling, Counted
  <2> HIDE DEF Untold, Told
  <2> QED BY <2>2, <2>4, <2>5
          DEF RefreshHolds, Asking, Signaled, Showing, Shown, Refreshes, Signals, Counted
<1>11. CASE TearingEffect
  <2>1. /\ tear /\ tear' = FALSE /\ wisr' = wisr \cup {"te"}
        /\ frames' = [frames EXCEPT !.te = @ + 1]
        /\ UNCHANGED <<refreshing, dsiPc, wcr, sending, frame>>
    BY <1>11 DEF TearingEffect
  <2>2. dsiPc.at = "spin" /\ Telling
    BY <1>0, <2>1 DEF Signaled, Showing, Shown
  <2>3. Signaled'
    <3>1. frames = [sent |-> 0, te |-> 0, wait |-> TRUE] /\ refreshing /\ ~frame /\ ~wcr.ltdcen
          /\ wisr = {} /\ ~Told
      BY <2>1, <2>2 DEF Telling, Counted
    <3>2. frames' = [sent |-> 0, te |-> 1, wait |-> TRUE]
      <4>1. frames' = [frames EXCEPT !.te = frames.te + 1]
        BY <2>1
      <4>2. frames = [sent |-> 0, te |-> 0, wait |-> TRUE]
        BY <3>1
      <4>3. frames.te + 1 = 1
        BY <4>2
      <4> QED BY <4>1, <4>2, <4>3
    <3>3. wisr' = {"te"} /\ ~Told' /\ ~tear'
      BY <2>1, <3>1
    <3> QED BY <2>1, <3>1, <3>2, <3>3 DEF Signaled, Counted
  <2> QED BY <1>8, <2>1, <2>2, <2>3
<1>12. CASE FrameStarts
  <2>1. wcr.ltdcen /\ frame' = TRUE /\ UNCHANGED <<refreshing, dsiPc, wcr, wisr, sending, tear, frames>>
    BY <1>12 DEF FrameStarts
  <2>2. dsiPc.at = "spin" /\ Showing
    BY <1>0, <2>1 DEF Telling, Signaled, Shown
  <2>3. Showing'
    BY <2>1, <2>2 DEF Showing, Signals
  <2> QED BY <1>8, <2>1, <2>2, <2>3
<1>13. CASE FrameEnds
  <2>1. /\ frame /\ frame' = FALSE /\ wcr' = [wcr EXCEPT !.ltdcen = FALSE]
        /\ wisr' = wisr \cup {"er"} /\ frames' = [frames EXCEPT !.sent = @ + 1]
        /\ UNCHANGED <<refreshing, dsiPc, sending, tear>>
    BY <1>13 DEF FrameEnds, DsiTypes
  <2>2. dsiPc.at = "spin" /\ Showing
    BY <1>0, <2>1 DEF Telling, Signaled, Shown
  <2>3. Shown'
    BY <2>1, <2>2 DEF Showing, Shown, Signals, DsiTypes
  <2> QED BY <1>8, <2>1, <2>2, <2>3
<1>14. CASE Reload
  BY <1>14 DEF Reload, RefreshHolds, Asking, Telling, Signaled, Showing, Shown, Refreshes,
               Signals, Counted
<1> QED BY <1>1, <1>2, <1>3, <1>4, <1>5, <1>6, <1>7, <1>9, <1>10, <1>11, <1>12, <1>13, <1>14
        DEF DsiNext, DsiCalls, DsiGoesOn, DsiSends, DsiFrames

LEMMA DsiStarts == DsiInit => DsiInv
<1> SUFFICES ASSUME DsiInit PROVE DsiInv
  OBVIOUS
<1>1. DsiTypes
  BY EmptySeq DEF DsiInit, DsiTypes
<1>2. LayersHold
  <2>1. Shows(NoLayer, [on |-> FALSE])
    BY DEF Shows, NoLayer, ByRegisters, AsAsked
  <2>2. {"from", "to"} \subseteq DOMAIN NoLayer
    BY DEF NoLayer
  <2>3. /\ layers = [l \in Layer |-> NoLayer] /\ loaded_layers = layers
        /\ wanted = [l \in Layer |-> [on |-> FALSE]] /\ shown_layers = wanted
        /\ dsiPc.at = "idle"
    BY DEF DsiInit
  <2>4. \A l \in Layer : layers[l] = NoLayer /\ wanted[l] = [on |-> FALSE]
    BY <2>3
  <2> QED BY <2>1, <2>2, <2>3, <2>4 DEF LayersHold
<1>3. SendingHolds
  BY DEF DsiInit, SendingHolds, CommandIsExact
<1>4. RefreshHolds
  BY DEF DsiInit, RefreshHolds, Resting, Quiet, Untold, Told
<1> QED BY <1>1, <1>2, <1>3, <1>4 DEF DsiInv

LEMMA DsiInvIsEnough == DsiInv => DisplayIsExact
<1> SUFFICES ASSUME DsiInv PROVE DisplayIsExact
  OBVIOUS
<1> USE DEF DsiInv
<1>1. LayersAreWhole
  BY DEF LayersHold, LayersAreWhole, Shows
<1>2. RefreshIsExact
  BY DEF RefreshHolds, RefreshIsExact, Telling, Signaled, Showing, Shown, Refreshes, Resting,
         Quiet, Signals
<1>3. CommandIsExact
  BY DEF SendingHolds
<1> QED BY <1>1, <1>2, <1>3 DEF DisplayIsExact

LEMMA DsiStutters ==
  ASSUME DsiInv, UNCHANGED dsiVars
  PROVE  DsiInv'
BY DEF DsiInv, dsiVars, DsiTypes, LayersHold, SendingHolds, CommandIsExact, RefreshHolds, Resting,
       Quiet, Untold, Told, Asking, Counted, Telling, Signaled, Showing, Shown, Refreshes, Signals

\* Whatever the panel, the surfaces, their places and the commands: a frame shows layers
\* which are whole, each where it was asked, a refresh which returns sent one frame, and
\* the display got the bytes of each command (hal/frame_buffer/dsi.stm32f4.cc and
\* ltdc.stm32f4.cc, with the interrupt and the controllers at any place between).
THEOREM DsiHolds == DsiSpec => []DisplayIsExact
<1>1. DsiInit => DsiInv
  BY DsiStarts
<1>2. DsiInv /\ [DsiNext]_dsiVars => DsiInv'
  <2> SUFFICES ASSUME DsiInv, [DsiNext]_dsiVars PROVE DsiInv'
    OBVIOUS
  <2>1. CASE DsiNext
    BY <2>1, DsiTypesStay, LayersStay, SendingStays, RefreshStays DEF DsiInv
  <2>2. CASE UNCHANGED dsiVars
    BY <2>2, DsiStutters
  <2> QED BY <2>1, <2>2
<1>3. DsiInv => DisplayIsExact
  BY DsiInvIsEnough
<1> QED BY <1>1, <1>2, <1>3, PTL DEF DsiSpec
================================================================================
