---------------------------- MODULE SdlFrameBuffer ----------------------------
(***************************************************************************)
(* ucoo::SdlFrameBuffer (hal/frame_buffer/sdl_frame_buffer.host.cc): the   *)
(* frame buffer of simulated programs, drawn by the program itself.        *)
(*                                                                         *)
(* The loops on lines and pixels are the indexes they go through, from the *)
(* clipped rectangle, the pointers and the strides of the code.            *)
(***************************************************************************)
EXTENDS Surface

CONSTANTS ScreenW, ScreenH,     \* width and height
          Surfaces,             \* what is drawn
          Rects,                \* what is filled
          Positions,            \* where: [x, y]
          Colors,               \* <<a, r, g, b>>
          FirstPixels,          \* what new may leave in pixels_, which is not cleared
          MaxDraws              \* bound

ASSUME ScreenSize == {ScreenW, ScreenH} \subseteq Nat \ {0} /\ MaxDraws \in Nat
ASSUME SdlSurfaces ==
    \A s \in Surfaces : IsSurface(s) /\ \A p \in DOMAIN s.pixels : IsPixel(s.format, s.pixels[p])
ASSUME SdlArguments ==
    /\ Rects \subseteq [x : Int, y : Int, w : Int, h : Int] /\ Positions \subseteq [x : Int, y : Int]
    /\ Colors \subseteq [1..4 -> 0..255]
    /\ FirstPixels \subseteq [0..ScreenW * ScreenH - 1 -> [1..4 -> 0..255]]

VARIABLES
    pixels,     \* pixels_
    before,     \* pixels_ before the last call
    draw,       \* the last call
    outOf,      \* indexes it used out of pixels_, or of the surface
    asserted,   \* an assertion failed
    draws

sdlVars == <<pixels, before, draw, outOf, asserted, draws>>

Screen == 0..ScreenW * ScreenH - 1

SdlInit ==
    /\ pixels \in FirstPixels
    /\ before = pixels /\ draw = [op |-> "none"] /\ outOf = {} /\ asserted = FALSE
    /\ draws = 0

--------------------------------------------------------------------------------
(* One axis: where drawing begins, in the destination and in the source, and *)
(* how many pixels are drawn.                                                 *)

\* Mutant of Clip: what is out on the left is cut in the destination only.
ClipFromStart(x, w, width) ==
    LET at == IF x < 0 THEN 0 ELSE x
        size == IF x < 0 THEN w + x ELSE w
    IN  [at |-> at, from |-> 0, size |-> IF at + size > width THEN width - at ELSE size]

Clip(x, w, width) ==
    LET at == IF x < 0 THEN 0 ELSE x
        size == IF x < 0 THEN w + x ELSE w
    IN  [at |-> at, from |-> IF x < 0 THEN -x ELSE 0,
         size |-> IF at + size > width THEN width - at ELSE size]

\* The pixels of the destination a clipped rectangle goes through, with the
\* line and the column: p moves on by the rest of the line after each line.
Goes(cx, cy) ==
    LET skip == ScreenW - cx.size
    IN  {[p |-> cy.at * ScreenW + cx.at + j * (cx.size + skip) + i, i |-> i, j |-> j] :
            i \in 0..cx.size - 1, j \in 0..cy.size - 1}
Source(s, cx, cy, g) == (cy.from + g.j) * s.stride + cx.from + g.i

Draws(op, cx, cy, s, Value(_, _)) ==
    LET gs == IF cx.size < 0 \/ cy.size < 0 THEN {} ELSE Goes(cx, cy)
        At(p) == CHOOSE g \in gs : g.p = p
    IN  /\ before' = pixels /\ draw' = op /\ draws' = draws + 1
        /\ outOf' = {g \in gs : g.p \notin Screen
                                \/ (s # {} /\ \A t \in s : Source(t, cx, cy, g) \notin DOMAIN t.pixels)}
        /\ pixels' = IF outOf' # {} THEN pixels
                     ELSE [p \in Screen |-> IF \E g \in gs : g.p = p
                                            THEN Value(At(p), pixels[p]) ELSE pixels[p]]

--------------------------------------------------------------------------------
(* Drawing. *)

fill(color) ==
    /\ pixels' = [p \in Screen |-> color]
    /\ before' = pixels /\ draw' = [op |-> "fill", color |-> color] /\ draws' = draws + 1
    /\ outOf' = {} /\ UNCHANGED asserted

fill_rect(color, rect) ==
    /\ Draws([op |-> "fill_rect", color |-> color, rect |-> rect],
             Clip(rect.x, rect.w, ScreenW), Clip(rect.y, rect.h, ScreenH), {},
             LAMBDA g, old : color)
    /\ UNCHANGED asserted

\* Alpha is not kept but from ARGB8888; there is nothing to draw in A8 and A4.
Blitted(format, px) == IF format = "ARGB8888" THEN px
                       ELSE <<255>> \o ExpandRgb(format, Rgb(format, px))
blit(s, at) ==
    LET cx == Clip(at.x, s.w, ScreenW)
        cy == Clip(at.y, s.h, ScreenH)
        Value(g, old) == Blitted(s.format, s.pixels[Source(s, cx, cy, g)])
    IN  /\ HasColor(s.format)
        /\ Draws([op |-> "blit", surface |-> s, at |-> at], cx, cy, {s}, Value)
        /\ UNCHANGED asserted

\* Alpha has the width of the format's, and is scaled by the constant one.
Alpha(format, px, ca) == IF HasAlpha(format) THEN (px[1] * ca) \div 255 ELSE ca
Mixed(old, rgb, a, max) ==
    <<255>> \o [k \in 1..3 |-> (old[k + 1] * (max - a) + rgb[k] * a) \div max]

\* What A4 refuses: two pixels in a byte are drawn at once.
HalfBytes(s, cx) == s.format = "A4" /\ \E v \in {s.stride, cx.from, cx.size} : v % 2 = 1

blend(s, at, color) ==
    LET cx == Clip(at.x, s.w, ScreenW)
        cy == Clip(at.y, s.h, ScreenH)
        max == IF s.format \in {"ARGB4444", "A4"} THEN 15 ELSE 255
        Value(g, old) ==
            LET px == s.pixels[Source(s, cx, cy, g)]
                rgb == IF HasColor(s.format) THEN ExpandRgb(s.format, Rgb(s.format, px))
                       ELSE Tail(color)
            IN  Mixed(old, rgb, Alpha(s.format, px, color[1]), max)
        odd == HalfBytes(s, cx)
    IN  IF odd /\ cx.size >= 0 /\ cy.size >= 0
        THEN /\ asserted' = TRUE /\ draw' = [op |-> "odd", surface |-> s, at |-> at]
             /\ UNCHANGED <<pixels, before, outOf, draws>>
        ELSE /\ Draws([op |-> "blend", surface |-> s, at |-> at, color |-> color],
                      cx, cy, {s}, Value)
             /\ UNCHANGED asserted

SdlNext ==
    /\ ~asserted /\ draws < MaxDraws
    /\ \/ \E c \in Colors : fill(c)
       \/ \E c \in Colors, r \in Rects : fill_rect(c, r)
       \/ \E s \in Surfaces, at \in Positions : blit(s, at)
       \/ \E s \in Surfaces, at \in Positions, c \in Colors : blend(s, at, c)

SdlSpec == SdlInit /\ [][SdlNext]_sdlVars

--------------------------------------------------------------------------------
\* What pixel p of the screen was, and is.
X(p) == p % ScreenW
Y(p) == p \div ScreenW

Blended(s, px, color, old, new) ==
    LET d == IF HasAlpha(s.format) THEN IF s.format \in {"ARGB4444", "A4"} THEN 15 ELSE 255
             ELSE 255
        a == IF HasAlpha(s.format) THEN px[1] ELSE 255
        rgb == IF HasColor(s.format) THEN ExpandRgb(s.format, Rgb(s.format, px))
               ELSE Tail(color)
    IN  \A k \in 1..3 :
            /\ new[k + 1] <= IF rgb[k] > old[k + 1] THEN rgb[k] ELSE old[k + 1]
            /\ new[k + 1] >= IF rgb[k] > old[k + 1] THEN old[k + 1] ELSE rgb[k]
            /\ color[1] = 255 => Near(new[k + 1], old[k + 1] * (d - a) + rgb[k] * a, d)

\* A drawing changes the pixels under what is drawn, to what is drawn there, and
\* no other, wherever the surface or the rectangle is (fill, blit, blend): the
\* reference has no clipping.  No pixel is used out of the screen or of the
\* surface.  A surface of half bytes is drawn if it is cut on whole ones, as it
\* is at even columns.
DrawingIsExact ==
    /\ outOf = {}
    /\ asserted => \E v \in {draw.at.x, draw.surface.w, draw.surface.stride, ScreenW} :
                        v % 2 = 1
    /\ \A p \in Screen :
         CASE draw.op = "fill" -> pixels[p] = draw.color
           [] draw.op = "fill_rect" ->
                pixels[p] = IF X(p) \in draw.rect.x..draw.rect.x + draw.rect.w - 1
                               /\ Y(p) \in draw.rect.y..draw.rect.y + draw.rect.h - 1
                            THEN draw.color ELSE before[p]
           [] draw.op \in {"blit", "blend"} ->
                LET s == draw.surface
                    old == before[p]
                IN  IF ~Covers(s, draw.at.x, draw.at.y, X(p), Y(p)) THEN pixels[p] = old
                    ELSE LET px == Over(s, draw.at.x, draw.at.y, X(p), Y(p))
                         IN  IF draw.op = "blit"
                             THEN Tail(pixels[p]) = ExpandRgb(s.format, Rgb(s.format, px))
                             ELSE Blended(s, px, draw.color, old, pixels[p])
           [] OTHER -> asserted \/ draws = 0
================================================================================
