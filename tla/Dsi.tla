---------------------------------- MODULE Dsi ----------------------------------
(***************************************************************************)
(* ucoo::Dsi and ucoo::Ltdc (hal/frame_buffer/dsi.stm32f4.cc and           *)
(* ltdc.stm32f4.cc): a display which is sent the picture of two layers, at *)
(* each refresh in command mode, all the time in video mode.               *)
(*                                                                         *)
(* The program, the interrupt handler, the controllers and the display run *)
(* concurrently.  Controllers and display are not code of the repository:  *)
(* layer registers are used from the next reload on, a frame is sent when  *)
(* LTDCEN is set and ends with ERIF, the display signals TE once after it  *)
(* is told set_tear_on.                                                    *)
(***************************************************************************)
EXTENDS Surface

CONSTANTS PanelW, PanelH,   \* width_, heigth_
          Horizontal, Vertical, \* <<sync, back porch, front porch>>
          LayerSurfaces,    \* what layers show
          LayerPositions,   \* where: [x, y]
          DsiCommands,      \* sequences of bytes
          MaxDsi            \* bound: calls

SetTearOn == <<53, 0>>      \* DCS_SET_TEAR_ON

ASSUME DsiSizes == /\ {PanelW, PanelH, MaxDsi} \subseteq Nat
                   /\ {Horizontal, Vertical} \subseteq [1..3 -> Nat]
ASSUME DsiArguments ==
    /\ \A s \in LayerSurfaces : IsSurface(s) /\ HasColor(s.format)
    /\ LayerPositions \subseteq [x : Int, y : Int]
    /\ \A data \in DsiCommands : data \in Seq(0..255) /\ data \notin {<< >>, SetTearOn}

VARIABLES
    video_mode,     \* video_mode_
    refreshing,     \* refreshing_
    dsiPc,          \* where the program is
    wcr,            \* WCR: [dsien, ltdcen]
    wisr,           \* flags of WISR: TEIF and ERIF
    sending,        \* GHCR and GPDR not sent yet; the last command, and what was got
    tear,           \* the display is to signal TE
    frame,          \* a frame is being sent
    frames,         \* frames sent and TE signaled since refresh was called
    layers, loaded_layers,  \* registers of the layers, and those in use
    reload,         \* SRCR.VBR
    wanted, shown_layers,   \* layers asked, and when those in use were loaded
    dsiCalls

dsiVars == <<video_mode, refreshing, dsiPc, wcr, wisr, sending, tear, frame, frames, layers,
             loaded_layers, reload, wanted, shown_layers, dsiCalls>>

Layer == {0, 1}
NoLayer == [on |-> FALSE, from |-> << >>, to |-> << >>]

\* The counters of a line or of a frame, each one less than a sum.
Timing(t, size) == [sync |-> t[1] - 1, back |-> t[1] + t[2] - 1,
                    active |-> t[1] + t[2] + size - 1, total |-> t[1] + t[2] + size + t[3] - 1]

\* After enable.
DsiInit ==
    /\ video_mode \in BOOLEAN /\ refreshing = FALSE /\ dsiPc = [at |-> "idle"]
    /\ wcr = [dsien |-> TRUE, ltdcen |-> video_mode] /\ wisr = {}
    /\ sending = [header |-> << >>, payload |-> << >>, data |-> << >>, got |-> << >>]
    /\ tear = FALSE /\ frame = FALSE /\ frames = [sent |-> 0, te |-> 0, wait |-> FALSE]
    /\ layers = [l \in Layer |-> NoLayer] /\ loaded_layers = layers /\ reload = FALSE
    /\ wanted = [l \in Layer |-> [on |-> FALSE]] /\ shown_layers = wanted /\ dsiCalls = 0

--------------------------------------------------------------------------------
(* Layers. *)

DsiCall == dsiPc.at = "idle" /\ dsiCalls < MaxDsi /\ dsiCalls' = dsiCalls + 1

\* Mutant of wait_reload: nothing is waited for.
wait_reload_not == TRUE

\* The program waits until what it set up before is loaded.
wait_reload == ~reload

\* layer_setup: the DSI wrapper is stopped, and the position is written.
SetupLayer(l, s, at) ==
    LET h == Horizontal[1] + Horizontal[2] + at.x
        v == Vertical[1] + Vertical[2] + at.y
    IN  /\ DsiCall /\ wait_reload
        /\ wcr' = [wcr EXCEPT !.dsien = video_mode]
        /\ layers' = [layers EXCEPT ![l].from = <<h, v>>, ![l].to = <<h + s.w - 1, v + s.h - 1>>]
        /\ dsiPc' = [at |-> "layer", layer |-> l, surface |-> s, where |-> at]
        /\ UNCHANGED <<refreshing, wisr, sending, tear, frame, frames, loaded_layers, reload,
                       shown_layers, wanted>>

\* The format, the address, the length of a line and of the offset between two,
\* and the number of lines; then they are to be loaded.
SetupBuffer ==
    /\ dsiPc.at = "layer"
    /\ LET s == dsiPc.surface
           l == dsiPc.layer
       IN  /\ layers' = [layers EXCEPT
                ![l] = [on |-> TRUE, from |-> layers[l].from, to |-> layers[l].to, pixels |-> s,
                        pitch |-> (s.stride * bpp[s.format]) \div 8,
                        length |-> (s.w * bpp[s.format]) \div 8 + 3, lines |-> s.h]]
           /\ wanted' = [wanted EXCEPT ![l] = [on |-> TRUE, surface |-> s, where |-> dsiPc.where]]
    /\ reload' = TRUE
    /\ wcr' = [wcr EXCEPT !.dsien = TRUE]
    /\ dsiPc' = [at |-> "idle"]
    /\ UNCHANGED <<refreshing, wisr, sending, tear, frame, frames, loaded_layers, shown_layers,
                   dsiCalls>>

--------------------------------------------------------------------------------
(* write_command. *)

\* Words of four bytes, the last one is left out when no long packet needs it.
FullWords(data) == [k \in 1..Len(data) \div 4 |-> SubSeq(data, 4 * k - 3, 4 * k)]
LastWord(data) == SubSeq(data, 4 * (Len(data) \div 4) + 1, Len(data))
Payload(data) == FullWords(data) \o (IF Len(data) > 2 /\ LastWord(data) # << >>
                                     THEN <<LastWord(data)>> ELSE << >>)
PayloadByte(payload, k) == payload[(k + 3) \div 4][((k - 1) % 4) + 1]

\* The packet: its type, and its bytes or how many they are.
Header(data) ==
    CASE Len(data) = 1 -> [type |-> "short 0", bytes |-> data, count |-> 1]
      [] Len(data) = 2 -> [type |-> "short 1", bytes |-> data, count |-> 2]
      [] OTHER -> [type |-> "long", bytes |-> << >>, count |-> Len(data)]

BothEmpty(fifo) == fifo.header = << >> /\ fifo.payload = << >>

\* Mutant of write_command: the last word is written for short packets too.
write_command_all ==
    /\ dsiPc.at = "write" /\ BothEmpty(sending)
    /\ LET data == dsiPc.data
           last == IF LastWord(data) # << >> THEN <<LastWord(data)>> ELSE << >>
       IN  sending' = [sending EXCEPT !.header = <<Header(data)>>,
                                      !.payload = FullWords(data) \o last, !.data = data]
    /\ dsiPc' = [at |-> dsiPc.next]
    /\ UNCHANGED <<refreshing, wcr, wisr, tear, frame, frames, layers, loaded_layers, reload,
                   shown_layers, wanted, dsiCalls>>

\* Both FIFO are waited for.
write_command ==
    /\ dsiPc.at = "write" /\ BothEmpty(sending)
    /\ sending' = [sending EXCEPT !.header = <<Header(dsiPc.data)>>,
                                  !.payload = Payload(dsiPc.data), !.data = dsiPc.data]
    /\ dsiPc' = [at |-> dsiPc.next]
    /\ UNCHANGED <<refreshing, wcr, wisr, tear, frame, frames, layers, loaded_layers, reload,
                   shown_layers, wanted, dsiCalls>>

\* A command of the program; it does not ask for TE by itself.
WriteCall(data) ==
    /\ DsiCall
    /\ dsiPc' = [at |-> "write", data |-> data, next |-> "idle"]
    /\ UNCHANGED <<refreshing, wcr, wisr, sending, tear, frame, frames, layers, loaded_layers,
                   reload, shown_layers, wanted>>

--------------------------------------------------------------------------------
(* refresh, in command mode. *)

Refresh(wait) ==
    /\ ~video_mode /\ DsiCall
    /\ refreshing' = TRUE
    /\ dsiPc' = [at |-> "ask", wait |-> wait]
    /\ frames' = [sent |-> 0, te |-> 0, wait |-> wait]
    /\ UNCHANGED <<wcr, wisr, sending, tear, frame, layers, loaded_layers, reload, shown_layers,
                   wanted>>

Ask ==
    /\ dsiPc.at = "ask"
    /\ IF dsiPc.wait
       THEN /\ dsiPc' = [at |-> "write", data |-> SetTearOn, next |-> "spin"]
            /\ UNCHANGED wcr
       ELSE dsiPc' = [at |-> "spin"] /\ wcr' = [wcr EXCEPT !.ltdcen = TRUE]
    /\ UNCHANGED <<refreshing, wisr, sending, tear, frame, frames, layers, loaded_layers, reload,
                   shown_layers, wanted, dsiCalls>>

RefreshDone ==
    /\ dsiPc.at = "spin" /\ ~refreshing
    /\ dsiPc' = [at |-> "idle"]
    /\ UNCHANGED <<refreshing, wcr, wisr, sending, tear, frame, frames, layers, loaded_layers,
                   reload, shown_layers, wanted, dsiCalls>>

\* interrupt<Irq::DSI>: one flag at a time.
DsiHandler ==
    /\ wisr # {}
    /\ IF "te" \in wisr
       THEN wisr' = wisr \ {"te"} /\ wcr' = [wcr EXCEPT !.ltdcen = TRUE] /\ UNCHANGED refreshing
       ELSE wisr' = wisr \ {"er"} /\ refreshing' = FALSE /\ UNCHANGED wcr
    /\ UNCHANGED <<dsiPc, sending, tear, frame, frames, layers, loaded_layers, reload,
                   shown_layers, wanted, dsiCalls>>

--------------------------------------------------------------------------------
(* The controllers and the display. *)

\* A packet is sent: what the display gets of it.
SendPacket ==
    /\ sending.header # << >>
    /\ LET h == sending.header[1]
           got == IF h.type # "long" THEN h.bytes
                  ELSE [k \in 1..h.count |-> PayloadByte(sending.payload, k)]
       IN  /\ sending' = [header |-> << >>, data |-> sending.data, got |-> got,
                          payload |-> IF h.type # "long" THEN sending.payload
                                      ELSE SubSeq(sending.payload, (h.count + 3) \div 4 + 1,
                                                  Len(sending.payload))]
           /\ tear' = (tear \/ got = SetTearOn)
    /\ UNCHANGED <<refreshing, dsiPc, wcr, wisr, frame, frames, layers, loaded_layers, reload,
                   shown_layers, wanted, dsiCalls>>

TearingEffect ==
    /\ tear /\ tear' = FALSE
    /\ wisr' = wisr \cup {"te"} /\ frames' = [frames EXCEPT !.te = @ + 1]
    /\ UNCHANGED <<refreshing, dsiPc, wcr, sending, frame, layers, loaded_layers, reload,
                   shown_layers, wanted, dsiCalls>>

FrameStarts ==
    /\ ~frame /\ wcr.dsien /\ wcr.ltdcen
    /\ frame' = TRUE
    /\ UNCHANGED <<refreshing, dsiPc, wcr, wisr, sending, tear, frames, layers, loaded_layers,
                   reload, shown_layers, wanted, dsiCalls>>

FrameEnds ==
    /\ frame /\ frame' = FALSE
    /\ wcr' = [wcr EXCEPT !.ltdcen = video_mode]
    /\ wisr' = IF video_mode THEN wisr ELSE wisr \cup {"er"}
    /\ frames' = IF video_mode THEN frames ELSE [frames EXCEPT !.sent = @ + 1]
    /\ UNCHANGED <<refreshing, dsiPc, sending, tear, layers, loaded_layers, reload, shown_layers,
                   wanted, dsiCalls>>

\* Between two frames.
Reload ==
    /\ reload /\ ~frame
    /\ reload' = FALSE /\ loaded_layers' = layers /\ shown_layers' = wanted
    /\ UNCHANGED <<refreshing, dsiPc, wcr, wisr, sending, tear, frame, frames, layers, wanted,
                   dsiCalls>>

DsiCalls ==
    \/ \E l \in Layer, s \in LayerSurfaces, at \in LayerPositions : SetupLayer(l, s, at)
    \/ \E data \in DsiCommands : WriteCall(data)
    \/ \E wait \in BOOLEAN : Refresh(wait)
DsiGoesOn == SetupBuffer \/ write_command \/ Ask \/ RefreshDone
DsiSends == SendPacket \/ TearingEffect
DsiFrames == FrameStarts \/ FrameEnds

DsiNext == /\ UNCHANGED video_mode
           /\ DsiCalls \/ DsiGoesOn \/ DsiHandler \/ DsiSends \/ DsiFrames \/ Reload

DsiSpec == DsiInit /\ [][DsiNext]_dsiVars

\* The program goes on, the handler is called, packets are sent, the display answers
\* and a frame which is enabled is sent to its end.
dsiMoves == <<refreshing, dsiPc, wcr, wisr, sending, tear, frame, frames, layers,
              loaded_layers, reload, wanted, shown_layers, dsiCalls>>
DsiFairness == /\ WF_dsiMoves(DsiGoesOn) /\ WF_dsiMoves(DsiHandler)
               /\ WF_dsiMoves(DsiSends) /\ WF_dsiMoves(DsiFrames)

--------------------------------------------------------------------------------
(* Properties. *)

\* Which byte of which surface pixel (px, py) of the panel shows, by the registers
\* and as it was asked.
ByRegisters(r, px, py) ==
    LET h == Timing(Horizontal, PanelW).back + 1 + px
        v == Timing(Vertical, PanelH).back + 1 + py
    IN  IF r.on /\ h \in r.from[1]..r.to[1] /\ v \in r.from[2]..r.to[2] /\ v - r.from[2] < r.lines
        THEN <<r.pixels, (v - r.from[2]) * r.pitch + ((h - r.from[1]) * bpp[r.pixels.format]) \div 8>>
        ELSE << >>
AsAsked(w, px, py) ==
    IF w.on /\ Covers(w.surface, w.where.x, w.where.y, px, py)
    THEN <<w.surface, (((py - w.where.y) * w.surface.stride + px - w.where.x)
                       * bpp[w.surface.format]) \div 8>>
    ELSE << >>

\* A frame shows each layer where it was asked, from its surface, never a layer
\* half set up: the controller loads the registers between two frames while the
\* program may be writing them (Ltdc::layer_setup, Ltdc::wait_reload).
LayersAreWhole ==
    \A l \in Layer, px \in 0..PanelW - 1, py \in 0..PanelH - 1 :
        ByRegisters(loaded_layers[l], px, py) = AsAsked(shown_layers[l], px, py)

\* A refresh which returns has sent one frame, all of it, and after TE if it was
\* asked; no frame is sent after, so what is drawn then is not seen half drawn
\* (Dsi::refresh, interrupt<Irq::DSI>).
RefreshIsExact ==
    ~video_mode =>
        /\ dsiPc.at = "spin" /\ ~refreshing =>
                frames.sent = 1 /\ frames.te = IF frames.wait THEN 1 ELSE 0
        /\ dsiPc.at = "idle" => ~frame /\ ~wcr.ltdcen /\ wisr = {} /\ ~refreshing

\* The display gets the bytes which were written, however many they are, whatever
\* is still to be sent (Dsi::write_command).
CommandIsExact ==
    sending.header = << >> => sending.got = sending.data /\ sending.payload = << >>

DisplayIsExact == LayersAreWhole /\ RefreshIsExact /\ CommandIsExact

\* refresh returns, whatever command was sent before (Dsi::refresh,
\* Dsi::write_command).
Refreshed == dsiPc.at \in {"ask", "spin"} ~> dsiPc.at = "idle"
================================================================================
