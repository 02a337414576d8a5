----------------------------- MODULE MCPeripherals -----------------------------
(***************************************************************************)
(* Instances of drivers for TLC.  They have nothing in common: each        *)
(* behaviour is one of a part, the state spaces add up.                    *)
(***************************************************************************)
EXTENDS Exti, I2cSoft, SdlFrameBuffer, Dma2d, Fifo, Rcc, MCTimer, Dsi, MexMsg,
        MCHostDevices, SelfProgramming, Pool, RateLimit, Trace, Files

VARIABLE part

partVars == <<extiVars, softVars, sdlVars, dmaVars, vars, rccVars, timerVars, dsiVars,
              msgVars, hostVars, flashVars, poolVars, rateVars, traceVars, filesVars, part>>

\* Two lines sharing a vector and a line alone.
MCLines == {0, 5, 6}
MCVector == (0 :> "EXTI0") @@ (5 :> "EXTI9_5") @@ (6 :> "EXTI9_5")
MCShared == {"EXTI9_5"}

\* Bytes of two bits, an address of one.
MCAddress == <<TRUE>>
MCPayloads == {<<<<TRUE, FALSE>>>>, <<<<FALSE, TRUE>>, <<TRUE, TRUE>>>>}
MCSlaveBytes == {<<FALSE, TRUE>>, <<TRUE, FALSE>>}

\* Every format, with and without a stride, from out of the screen on each side
\* to inside of it.
Pic(format, w, h, stride, Px(_)) ==
    [format |-> format, w |-> w, h |-> h, stride |-> stride,
     pixels |-> [k \in 0..h * stride - 1 |-> Px(k)]]
MCSurfaces == {Pic("ARGB8888", 2, 2, 3, LAMBDA k : <<40 * k, 10 * k, 255, 20>>),
               Pic("RGB888", 4, 1, 4, LAMBDA k : <<10 * k, 255, 20>>),
               Pic("RGB565", 2, 2, 2, LAMBDA k : <<k, 63 - k, 31>>),
               Pic("ARGB4444", 2, 2, 2, LAMBDA k : <<5 * k, k, 15, 3>>),
               Pic("A8", 2, 2, 3, LAMBDA k : <<50 * k>>),
               Pic("A4", 2, 2, 4, LAMBDA k : <<k>>)}
MCRects == [x : {-2, -1, 0, 2}, y : {-1, 0, 1}, w : {0, 1, 4}, h : {1, 3}]
MCPositions == [x : -3..4, y : -3..3]
MCFirstPixels == {[p \in 0..7 |-> <<255, 16 * p, 0, 255 - 16 * p>>]}
MCColors == {<<255, 1, 2, 3>>, <<128, 255, 0, 77>>}

MCDestination == Pic("RGB565", 3, 2, 4, LAMBDA k : <<k>>)
MCDmaSurfaces == {Pic("ARGB8888", 4, 2, 5, LAMBDA k : <<"s", k>>),
                  Pic("RGB888", 2, 1, 2, LAMBDA k : <<"r", k>>),
                  Pic("A4", 2, 2, 4, LAMBDA k : <<"a", k>>)}
MCDmaRects == {[x |-> -1, y |-> 1, w |-> 3, h |-> 2], [x |-> 2, y |-> -1, w |-> 2, h |-> 2],
               [x |-> 3, y |-> 0, w |-> 1, h |-> 1]}
MCDmaPositions == [x : {-2, -1, 0, 2, 4}, y : {-1, 0, 1, 3}]
MCDmaColors == {<<255, 8, 16, 24>>}

\* A layer in the corner or not, three bytes a pixel or two, and a stride.
MCLayerSurfaces == {Pic("RGB888", 2, 1, 3, LAMBDA k : <<k>>),
                    Pic("ARGB4444", 1, 2, 1, LAMBDA k : <<k>>)}
MCLayerPositions == {[x |-> 0, y |-> 0], [x |-> 1, y |-> 0]}
MCPorches == <<2, 1, 1>>
MCDsiCommands == {<<1>>, <<1, 2>>, <<1, 2, 3>>, <<1, 2, 3, 4>>, <<5, 4, 3, 2, 1>>}

\* Each format letter, of bytes of two bits, with signs; a buffer; nothing.
MCFields == {[fmt |-> <<"b", "H">>, values |-> <<-2, 13>>],
             [fmt |-> <<"B">>, values |-> <<3>>],
             [fmt |-> <<"b">>, values |-> <<-1>>],
             [fmt |-> <<"l", "h">>, values |-> <<-100, -8>>],
             [fmt |-> <<"L">>, values |-> <<200>>],
             [fmt |-> <<"h">>, values |-> <<5>>],
             [buffer |-> <<1, 0>>],
             [fmt |-> << >>, values |-> << >>]}

\* The set-up of arch_init on each target, others without oscillator, with buses
\* divided or not, at the limits of the flash.
Arguments(on, sys, h, m, n, p, q, pre1, pre2, w) ==
    [target |-> on, sys |-> sys, hse |-> h, m |-> m, n |-> n, p |-> p, q |-> q,
     pre1 |-> pre1, pre2 |-> pre2, perWs |-> w]
MCClockSetups == {Arguments("f4", 120, 8, 4, 120, 2, 5, 4, 2, 30),
                  Arguments("f4", 120, 8, 4, 120, 2, 5, 2, 1, 30),
                  Arguments("f4", 168, 8, 8, 336, 2, 7, 4, 2, 30),
                  Arguments("f4", 48, 0, 8, 48, 2, 2, 1, 1, 20),
                  Arguments("f4", 66, 0, 16, 132, 2, 4, 2, 1, 22),
                  Arguments("f1", 72, 12, 1, 6, 1, 1, 2, 1, 24),
                  Arguments("f1", 48, 24, 2, 4, 1, 1, 2, 2, 24),
                  Arguments("f1", 24, 0, 1, 6, 1, 1, 1, 1, 24)}
MCSaiSetups == {[n |-> 192, r |-> 4, div |-> 2], [n |-> 100, r |-> 2, div |-> 4]}

\* Sectors of two sizes in two banks, the last one is after the end of flash.
MCSectors == <<0, 2, 6, 8, 12>>
MCBufs == {<<1, 2>>, <<2, 0, 3, 1>>}

\* Three files, one of them empty, a name that begins another one.
MCRomFiles == <<[name |-> <<1>>, content |-> <<7, 8, 9>>],
                [name |-> <<1, 2>>, content |-> << >>], [name |-> <<2>>, content |-> <<7>>]>>
MCRomIndex == 0 :> 0 @@ 1 :> 1 @@ 2 :> 3 @@ 3 :> 4 @@ 4 :> 7 @@ 5 :> 7 @@ 6 :> 8
MCRomData == <<1, 1, 2, 2, 7, 8, 9, 7>>
MCFileNames == {<<1>>, <<1, 2>>, <<2>>, <<1, 1>>, <<3>>}

\* What may have several values at first has them in its own part only.
PartsInit ==
    /\ part \in {"exti", "soft", "sdl", "dma", "fifo", "rcc", "timer", "dsi",
              "msg", "bus", "pins", "flash", "pool", "rate", "trace", "files"}
    /\ ExtiInit /\ SoftInit /\ SdlInit /\ DmaInit /\ Init /\ RccInit /\ TimerInit /\ DsiInit
    /\ MsgInit /\ HostInit /\ FlashInit /\ PoolInit /\ RateInit /\ TraceInit /\ FilesInit
    /\ part # "fifo" => \A i, j \in Slot : buffer[i] = buffer[j] /\ buffer[i] = CHOOSE d \in Data : TRUE
    /\ part # "rcc" => target = "f4"
    /\ part # "dsi" => ~video_mode
    /\ part # "msg" => mtype = 1
    /\ part # "flash" => family = "f1"
    /\ part # "rate" => interval = 4
    /\ part # "files" => ~enabled_ /\ ~root_

PartsNext ==
    /\ UNCHANGED part
    /\ IF part = "exti" THEN ExtiNext ELSE UNCHANGED extiVars
    /\ IF part = "soft" THEN SoftNext ELSE UNCHANGED softVars
    /\ IF part = "sdl" THEN SdlNext ELSE UNCHANGED sdlVars
    /\ IF part = "dma" THEN DmaNext ELSE UNCHANGED dmaVars
    /\ IF part = "fifo" THEN Next ELSE UNCHANGED vars
    /\ IF part = "rcc" THEN RccNext ELSE UNCHANGED rccVars
    /\ IF part = "timer" THEN TimerNext ELSE UNCHANGED timerVars
    /\ IF part = "dsi" THEN DsiNext ELSE UNCHANGED dsiVars
    /\ IF part = "msg" THEN MsgNext ELSE UNCHANGED msgVars
    /\ IF part \in {"bus", "pins"}
       THEN HostStep \/ (part = "bus" /\ BusOp) \/ (part = "pins" /\ PinOp)
       ELSE UNCHANGED hostVars
    /\ IF part = "flash" THEN FlashNext ELSE UNCHANGED flashVars
    /\ IF part = "pool" THEN PoolNext ELSE UNCHANGED poolVars
    /\ IF part = "rate" THEN RateNext ELSE UNCHANGED rateVars
    /\ IF part = "trace" THEN TraceNext ELSE UNCHANGED traceVars
    /\ IF part = "files" THEN FilesNext ELSE UNCHANGED filesVars

PartsSpec == PartsInit /\ [][PartsNext]_partVars /\ DsiFairness
================================================================================
