--------------------------------- MODULE Dma2d ---------------------------------
(***************************************************************************)
(* dma2d_fill, dma2d_blit, dma2d_blend and dma2d_wait                      *)
(* (hal/frame_buffer/dma2d.stm32f4.cc): a surface drawn by the DMA2D       *)
(* controller, which goes on while the program does something else.        *)
(*                                                                         *)
(* The controller is not code of the repository: once started it draws a   *)
(* line at a time from its registers, then it is idle.  How it converts    *)
(* and blends is its own: a pixel drawn is the tuple of what it is made of.*)
(***************************************************************************)
EXTENDS Surface

CONSTANTS Destination,      \* the surface drawn to
          DmaSurfaces,      \* what is drawn
          DmaRects,         \* what is filled
          DmaPositions,     \* where: [x, y]
          DmaColors,        \* <<a, r, g, b>>
          MaxDmaDraws       \* bound

ASSUME DmaSurfacesAre ==
    /\ \A s \in DmaSurfaces \cup {Destination} : IsSurface(s)
    /\ \A s \in DmaSurfaces : s.format = "A4" => s.stride % 2 = 0
    /\ HasColor(Destination.format) /\ MaxDmaDraws \in Nat
    /\ DmaRects \subseteq [x : Int, y : Int, w : Int, h : Int]
    /\ DmaPositions \subseteq [x : Int, y : Int]

VARIABLES
    dst,        \* the pixels of the destination
    reg,        \* the registers, see Registers
    line,       \* lines left to draw, 0 when idle: CR.START
    asked,      \* a call which waits for the controller
    shown,      \* what the pixels should be after the calls so far
    dmaDraws

dmaVars == <<dst, reg, line, asked, shown, dmaDraws>>

NoCall == [op |-> "none"]

\* OMAR, OOR, PL and NL of NLR, FGMAR with the surface it is an address of, FGOR,
\* and what is drawn: the mode, OCOLR or FGCOLR and the constant alpha.
Registers == [mode |-> "none", omar |-> 0, oor |-> 0, pl |-> 0, nl |-> 0,
              source |-> Destination, fgmar |-> 0, fgor |-> 0, color |-> << >>]

DmaInit ==
    /\ dst = Destination.pixels /\ shown = dst
    /\ reg = Registers /\ line = 0 /\ asked = NoCall /\ dmaDraws = 0

--------------------------------------------------------------------------------
(* The calls. *)

DmaClip(x, w, width) ==
    LET at == IF x < 0 THEN 0 ELSE x
        size == IF x < 0 THEN w + x ELSE w
    IN  [at |-> at, from |-> IF x < 0 THEN -x ELSE 0,
         size |-> IF at + size > width THEN width - at ELSE size]

ClipX(c) == IF c.op = "fill" THEN DmaClip(c.rect.x, c.rect.w, Destination.w)
            ELSE DmaClip(c.at.x, c.surface.w, Destination.w)
ClipY(c) == IF c.op = "fill" THEN DmaClip(c.rect.y, c.rect.h, Destination.h)
            ELSE DmaClip(c.at.y, c.surface.h, Destination.h)

\* A color in the format of the destination; ARGB4444 is filled without alpha.
Reduce(v, n) == CASE n = 8 -> v [] n = 6 -> v \div 4 [] n = 5 -> v \div 8 [] n = 4 -> v \div 16
OutputColor(color) ==
    LET format == Destination.format
        rgb == [k \in 1..3 |-> Reduce(color[k + 1], Depth(format)[k])]
    IN  CASE format \in {"ARGB8888", "RGB888"} -> color
          [] format = "RGB565" -> rgb
          [] format = "ARGB4444" -> <<0>> \o rgb

Address(s, x, y) == ((y * s.stride + x) * bpp[s.format]) \div 8

\* The registers for a call.
Programmed(c, cx, cy) ==
    LET out == [Registers EXCEPT
                  !.mode = c.op, !.omar = Address(Destination, cx.at, cy.at),
                  !.oor = Destination.stride - cx.size, !.pl = cx.size, !.nl = cy.size]
    IN  IF c.op = "fill" THEN [out EXCEPT !.color = OutputColor(c.color)]
        ELSE [out EXCEPT !.source = c.surface, !.color = c.color,
                         !.fgmar = Address(c.surface, cx.from, cy.from),
                         !.fgor = c.surface.stride - cx.size]

Calls == {[op |-> "fill", rect |-> r, color |-> c] : r \in DmaRects, c \in DmaColors}
         \cup {[op |-> "blit", surface |-> s, at |-> at, color |-> << >>] :
                    s \in DmaSurfaces, at \in DmaPositions}
         \cup {[op |-> "blend", surface |-> s, at |-> at, color |-> c] :
                    s \in DmaSurfaces, at \in DmaPositions, c \in DmaColors}
\* Surfaces of half bytes begin on a whole one, cut or not, as they do for
\* SdlFrameBuffer.
OnBytes(c) == c.op # "fill" /\ c.surface.format = "A4" => ClipX(c).from % 2 = 0

\* A pixel drawn.
Drawn(mode, old, source, color) ==
    CASE mode = "fill"  -> <<mode, color>>
      [] mode = "blit"  -> source
      [] mode = "blend" -> <<mode, old, source, color>>

\* What pixel p should be after a call.
Should(c, p, old) ==
    LET x == p % Destination.stride
        y == p \div Destination.stride
    IN  IF x >= Destination.w THEN old
        ELSE IF c.op = "fill"
        THEN IF /\ x \in c.rect.x..c.rect.x + c.rect.w - 1
                /\ y \in c.rect.y..c.rect.y + c.rect.h - 1
             THEN Drawn(c.op, old, << >>, OutputColor(c.color)) ELSE old
        ELSE IF Covers(c.surface, c.at.x, c.at.y, x, y)
        THEN Drawn(c.op, old, Over(c.surface, c.at.x, c.at.y, x, y), c.color) ELSE old

\* Up to dma2d_wait: the clipping, and the return when there is nothing.
DmaCall ==
    /\ asked = NoCall /\ dmaDraws < MaxDmaDraws
    /\ dmaDraws' = dmaDraws + 1
    /\ \E c \in Calls :
         /\ OnBytes(c)
         /\ asked' = IF ClipX(c).size < 0 \/ ClipY(c).size < 0 THEN NoCall ELSE c
         /\ shown' = [p \in DOMAIN shown |-> Should(c, p, shown[p])]
    /\ UNCHANGED <<dst, reg, line>>

Starts ==
    /\ reg' = Programmed(asked, ClipX(asked), ClipY(asked))
    /\ line' = IF reg'.pl = 0 THEN 0 ELSE reg'.nl
    /\ asked' = NoCall
    /\ UNCHANGED <<dst, shown, dmaDraws>>

\* Mutant of dma2d_wait: it is left out.
dma2d_waitNot == TRUE

\* After dma2d_wait.  The controller refuses to draw lines of no pixel.
dma2d_wait == line = 0
Start == asked # NoCall /\ dma2d_wait /\ Starts

--------------------------------------------------------------------------------
(* The controller. *)

\* One line: addresses go on by the pixels of a line and the offset.
Pixel(format, address) == (address * 8) \div bpp[format]
Controller ==
    /\ line > 0
    /\ line' = line - 1
    /\ LET row == reg.nl - line
           to == Pixel(Destination.format, reg.omar) + row * (reg.pl + reg.oor)
           from == Pixel(reg.source.format, reg.fgmar) + row * (reg.pl + reg.fgor)
       IN  dst' = [p \in DOMAIN dst |->
                    IF p \in to..to + reg.pl - 1
                    THEN Drawn(reg.mode, dst[p],
                               IF reg.mode = "fill" THEN << >>
                               ELSE reg.source.pixels[from + p - to], reg.color)
                    ELSE dst[p]]
    /\ UNCHANGED <<reg, asked, shown, dmaDraws>>

DmaNext == DmaCall \/ Start \/ Controller

DmaSpec == DmaInit /\ [][DmaNext]_dmaVars

\* Once the controller is idle the destination is what the calls were to make it,
\* in their order, as if each had drawn at once each pixel under what it draws: no
\* register of a drawing is changed before its end, clipping and addresses are
\* right, and the pixels between two lines are kept (dma2d_wait, dma2d_fill,
\* dma2d_blit, dma2d_blend).
DmaIsExact == line = 0 /\ asked = NoCall => dst = shown
================================================================================
