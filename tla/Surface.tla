-------------------------------- MODULE Surface --------------------------------
(***************************************************************************)
(* ucoo::Surface (intf/frame_buffer.hh) and what drawing means: for each   *)
(* pixel of the destination, which pixel of the source goes there, without *)
(* clipping nor addresses.  The drivers are SdlFrameBuffer and Dma2d.      *)
(*                                                                         *)
(* A pixel is the tuple of its components, at the width of its format.     *)
(***************************************************************************)
EXTENDS Integers, Sequences

\* Bits per pixel.
bpp == [ARGB8888 |-> 32, RGB888 |-> 24, RGB565 |-> 16, ARGB4444 |-> 16, A8 |-> 8, A4 |-> 4]
Formats == DOMAIN bpp

\* A surface of w by h pixels, whose line y begins at pixel y * stride.
IsSurface(s) ==
    /\ s.format \in Formats /\ {s.w, s.h, s.stride} \subseteq Nat /\ s.stride >= s.w
    /\ s.pixels = [p \in 0..s.h * s.stride - 1 |-> s.pixels[p]]

\* Width of the components of a format, and their alpha if it has one.
Depth(format) == CASE format \in {"ARGB8888", "RGB888", "A8"} -> <<8, 8, 8>>
                   [] format = "RGB565"   -> <<5, 6, 5>>
                   [] format \in {"ARGB4444", "A4"} -> <<4, 4, 4>>
HasAlpha(format) == format \in {"ARGB8888", "ARGB4444", "A8", "A4"}
HasColor(format) == format \notin {"A8", "A4"}
Rgb(format, px) == IF HasAlpha(format) THEN Tail(px) ELSE px

\* Components have the width of the format.
Greatest(n) == CASE n = 8 -> 255 [] n = 6 -> 63 [] n = 5 -> 31 [] n = 4 -> 15
IsPixel(format, px) ==
    /\ px \in [1..(IF HasAlpha(format) THEN 1 ELSE 0) + (IF HasColor(format) THEN 3 ELSE 0) -> 0..255]
    /\ HasAlpha(format) => px[1] <= Greatest(Depth(format)[1])
    /\ HasColor(format) => \A k \in 1..3 : Rgb(format, px)[k] <= Greatest(Depth(format)[k])

\* The pixel of a surface that is over pixel (px, py) of the destination when
\* the surface is at (x, y).
Covers(s, x, y, px, py) == px \in x..x + s.w - 1 /\ py \in y..y + s.h - 1
Over(s, x, y, px, py) == s.pixels[(py - y) * s.stride + px - x]

--------------------------------------------------------------------------------
(* Components.  A value of 255 goes from 0 to 255, whatever the width.  *)

\* v, out of n bits, in 8 bits: its bits are repeated.
Expand(v, n) == CASE n = 8 -> v
                  [] n = 6 -> 4 * v + v \div 16
                  [] n = 5 -> 8 * v + v \div 4
                  [] n = 4 -> 16 * v + v
ExpandRgb(format, rgb) == [k \in 1..3 |-> Expand(rgb[k], Depth(format)[k])]

\* v is what is nearest to n / d, or next to it.
Near(v, n, d) == v * d - n \in -d..d
================================================================================
