------------------------------ MODULE UsbControl ------------------------------
(***************************************************************************)
(* Control transfers: end point 0 of ucoo::UsbDriverDwcOtg                 *)
(* (hal/usb/usb_dwc_otg.stm32.cc), ucoo::UsbDriver (hal/usb/usb_driver.cc),*)
(* which gives each request to an application, and the stages of           *)
(* UsbApplicationWithSetup and UsbApplicationBasic                         *)
(* (hal/usb/usb_application.cc), with the descriptors they give.           *)
(*                                                                         *)
(* One call of the interrupt handler is a step.  The controller and the    *)
(* host are not code of the repository: a SETUP is always accepted and     *)
(* clears the stall; other packets are refused until the driver is ready   *)
(* for them, and the host gives up when it is refused for ever.            *)
(***************************************************************************)
EXTENDS Integers, Sequences, SequencesExt, FiniteSets

CONSTANTS BulkSize,         \* CONFIG_UCOO_HAL_USB_EP_SIZE
          Requests,         \* requests of the host: [kind, desc, length]
          MaxRequests, MaxResets    \* bounds

ASSUME ControlBounds == MaxRequests \in Nat /\ MaxResets \in Nat

--------------------------------------------------------------------------------
(* The descriptors a device gives to its host (hal/usb/usb_desc.hh,          *)
(* hal/usb/usb_cdc_desc.hh): sequences of bytes.  The packed types which     *)
(* hold a descriptor and the ones under it are concatenations; sizeof is Len. *)

Word(w) == <<w % 256, w \div 256>>

\* bLength, bDescriptorType and the fields: the length is the one of this
\* descriptor only, a byte.
Desc(type, fields) == <<(Len(fields) + 2) % 256, type>> \o fields

DeviceType == 1
ConfigurationType == 2
StringType == 3
InterfaceType == 4
EndpointType == 5
CsInterfaceType == 36

usb_device_desc(bcd, class, sub, protocol, size0, vendor, product, version, iVendor, iProduct, iSerial, n) ==
    Desc(DeviceType, Word(bcd) \o <<class, sub, protocol, size0>>
                     \o Word(vendor) \o Word(product) \o Word(version)
                     \o <<iVendor, iProduct, iSerial, n>>)

usb_configuration_desc(interfaces, value, iConf, attributes, power, subs) ==
    LET sub == FlattenSeq(subs)
    IN  Desc(ConfigurationType,
             Word(9 + Len(sub)) \o <<interfaces, value, iConf, attributes, power>>)
        \o sub

usb_interface_desc(number, alternate, endpoints, class, subClass, protocol, iInterface, subs) ==
    Desc(InterfaceType, <<number, alternate, endpoints, class, subClass, protocol,
                          iInterface>>)
    \o FlattenSeq(subs)

usb_endpoint_desc(address, attributes, maxPacket, interval) ==
    Desc(EndpointType, <<address, attributes>> \o Word(maxPacket) \o <<interval>>)

usb_endpoint_desc_bulk(address, maxPacket) == usb_endpoint_desc(address, 2, maxPacket, 0)

\* Characters, or languages, of sixteen bits.
usb_string_desc(string) == Desc(StringType, FlattenSeq([k \in DOMAIN string |->
                                                            Word(string[k])]))

usb_cdc_header_desc(bcdCDC) == Desc(CsInterfaceType, <<0>> \o Word(bcdCDC))

usb_cdc_call_management_desc(capabilities, interface) ==
    Desc(CsInterfaceType, <<1, capabilities, interface>>)

usb_cdc_abstract_control_management_desc(capabilities) ==
    Desc(CsInterfaceType, <<2, capabilities>>)

usb_cdc_union_desc(control, subordinates) ==
    Desc(CsInterfaceType, <<6, control>> \o subordinates)

--------------------------------------------------------------------------------
(* The descriptors of the CDC application, with end points of epSize bytes. *)

EndPointRx == 1
EndPointTx == 129
EndPointNotif == 130

device_desc == usb_device_desc(512, 2, 0, 0, 64, 4617, 1, 256, 1, 2, 0, 1)

configuration_desc(epSize) ==
    usb_configuration_desc(2, 1, 0, 128, 50, <<
        usb_interface_desc(0, 0, 1, 2, 2, 1, 0, <<
            usb_endpoint_desc(EndPointNotif, 3, 16, 128),
            usb_cdc_header_desc(272),
            usb_cdc_call_management_desc(0, 1),
            usb_cdc_abstract_control_management_desc(2),
            usb_cdc_union_desc(0, <<1>>)>>),
        usb_interface_desc(1, 0, 2, 10, 0, 0, 0, <<
            usb_endpoint_desc_bulk(EndPointRx, epSize),
            usb_endpoint_desc_bulk(EndPointTx, epSize)>>)>>)

--------------------------------------------------------------------------------
(* How a host reads a configuration: from descriptor to descriptor, by their *)
(* lengths (USB 2.0, 9.5).                                                   *)

TotalLength(d) == d[3] + 256 * d[4]

Starts(d) ==
    LET next[k \in Nat] == IF k > Len(d) \/ d[k] = 0 THEN {}
                           ELSE {k} \cup next[k + d[k]]
    IN  next[1]

OfType(d, type) == {k \in Starts(d) : d[k + 1] = type}

\* The descriptors fill the total length, and each interface is followed by the
\* end points it announces.
IsConfiguration(d) ==
    LET starts == Starts(d)
        Until(k) == {j \in OfType(d, EndpointType) : j > k /\
                        \A l \in OfType(d, InterfaceType) : l <= k \/ j < l}
    IN  /\ TotalLength(d) = Len(d)
        /\ \E k \in starts : k + d[k] = Len(d) + 1
        /\ Cardinality(OfType(d, InterfaceType)) = d[5]
        /\ \A k \in OfType(d, InterfaceType) : Cardinality(Until(k)) = d[k + 4]

--------------------------------------------------------------------------------
(* End point 0 and the host. *)

PacketSize == 64        \* USB_CONTROL_END_POINT_SIZE
LineCodingSize == 7     \* sizeof (line_coding_)
NoData == -1            \* data_ is null

VARIABLES
    dev,            \* the driver, the applications and the registers of EP0
    rx,             \* the RX FIFO
    phase, request, \* host: stage of the transfer, and its request
    gotIn, toSend,    \* host: bytes received, bytes to send
    hostAddress,    \* host: the address it gave
    outcome,        \* host: how the last transfer ended
    requests, resets

hostVars == <<phase, request, gotIn, toSend, hostAddress, outcome, requests, resets>>
controlVars == <<dev, rx, hostVars>>

Descriptors == [device |-> device_desc,
                configuration |-> configuration_desc(BulkSize),
                language |-> usb_string_desc(<<1033>>)]
Kinds == {"get_descriptor", "set_address", "set_configuration", "set_interface",
          "set_control_line_state", "set_line_coding", "vendor_in", "vendor_out"}
ASSUME ControlRequests == \A r \in Requests :
    r.kind \in Kinds /\ r.length \in Nat /\ r.desc \in DOMAIN Descriptors \cup {"none"}
Min2(a, b) == IF a < b THEN a ELSE b
Apps == {"basic", "cdc"}

ControlInit ==
    /\ dev = [configuration |-> -1, address |-> 0, owner |-> "none",
              stage |-> [a \in Apps |-> "Idle"],
              data |-> [a \in Apps |-> << >>], null |-> [a \in Apps |-> TRUE],
              size |-> [a \in Apps |-> 0],
              epena |-> FALSE, xfrc |-> FALSE, stall |-> FALSE, packet |-> << >>,
              armed |-> FALSE, length |-> 0, setup |-> << >>, halted |-> FALSE]
    /\ rx = << >>
    /\ phase = "idle" /\ request = << >> /\ gotIn = << >> /\ toSend = 0
    /\ hostAddress = 0 /\ outcome = "none"
    /\ requests = 0 /\ resets = 0

--------------------------------------------------------------------------------
(* The driver. *)

ep0_write(d, bytes) ==
    [d EXCEPT !.halted = @ \/ d.epena, !.epena = TRUE,
              !.packet = SubSeq(bytes, 1, Min2(Len(bytes), PacketSize))]
ep0_stall(d) == [d EXCEPT !.stall = TRUE]
ep0_read_ready(d) == [d EXCEPT !.armed = TRUE]
\* Address bits are set in a register which only a reset clears.
set_address(d, a) == [d EXCEPT !.halted = @ \/ (d.address \notin {0, a}), !.address = a]
set_configuration(d, c) ==
    IF c = d.configuration THEN d
    ELSE [d EXCEPT !.halted = @ \/ d.configuration # -1, !.configuration = c]

--------------------------------------------------------------------------------
(* UsbApplicationWithSetup, for application a. *)

Stage(d, a, s) == [d EXCEPT !.stage[a] = s]
send_status(d, a) == Stage(ep0_write(d, << >>), a, "HostToDeviceStatusIN")

\* What is left to send after a packet, or a null data_ if it was a short one.
Left(d, a, bytes) ==
    LET short == Len(bytes) < PacketSize
    IN  [d EXCEPT !.null[a] = short,
                  !.data[a] = IF short THEN << >>
                              ELSE SubSeq(bytes, PacketSize + 1, Len(bytes))]

send(d, a, bytes) == Stage(Left(ep0_write(d, bytes), a, bytes), a, "DeviceToHostIN")

recv(d, a, n) ==
    Stage(ep0_read_ready([d EXCEPT !.size[a] = n]), a, "HostToDeviceOUT")

\* Mutant of setup_ep_handle_in: the status is awaited but not asked for.
setup_ep_handle_inNotReady(d, a) ==
    CASE d.stage[a] = "DeviceToHostIN" /\ ~d.null[a] ->
            Left(ep0_write(d, d.data[a]), a, d.data[a])
      [] d.stage[a] = "DeviceToHostIN" /\ d.null[a] ->
            Stage(d, a, "DeviceToHostStatusOUT")
      [] d.stage[a] = "HostToDeviceStatusIN" -> Stage(d, a, "Idle")
      [] OTHER -> Stage(ep0_stall(d), a, "Idle")

\* A packet went out.
setup_ep_handle_in(d, a) ==
    CASE d.stage[a] = "DeviceToHostIN" /\ ~d.null[a] ->
            Left(ep0_write(d, d.data[a]), a, d.data[a])
      [] d.stage[a] = "DeviceToHostIN" /\ d.null[a] ->
            Stage(ep0_read_ready(d), a, "DeviceToHostStatusOUT")
      [] d.stage[a] = "HostToDeviceStatusIN" -> Stage(d, a, "Idle")
      [] OTHER -> Stage(ep0_stall(d), a, "Idle")

\* recv_done of the CDC application; the basic one never receives data.
recv_done(d, a) == IF a = "cdc" THEN send_status(d, a) ELSE [d EXCEPT !.halted = TRUE]

\* A packet of n bytes came; it is read if it fits.
setup_ep_handle_out(d, a, n) ==
    IF d.stage[a] = "HostToDeviceOUT" /\ n <= d.size[a]
    THEN LET e == [d EXCEPT !.size[a] = @ - n, !.length = 0]
         IN  IF n < PacketSize THEN recv_done(e, a) ELSE e
    ELSE IF d.stage[a] = "DeviceToHostStatusOUT" /\ n = 0 THEN Stage(d, a, "Idle")
    ELSE Stage(ep0_stall(d), a, "Idle")

--------------------------------------------------------------------------------
(* The requests. *)

\* UsbApplicationBasic::handle_setup and send_descriptor; d itself if it is not
\* for this application.
BasicSetup(d, r) ==
    CASE r.kind = "set_address" ->
            send_status(set_address(d, r.length + 1), "basic")
      [] r.kind = "set_configuration" -> send_status(set_configuration(d, 1), "basic")
      [] r.kind = "set_interface" -> send_status(d, "basic")
      [] r.kind = "get_descriptor" /\ r.desc # "none" ->
            LET bytes == Descriptors[r.desc]
            IN  send(d, "basic", SubSeq(bytes, 1, Min2(Len(bytes), r.length)))
      [] OTHER -> d

\* UsbApplicationCdcAcm::handle_setup, as far as end point 0 goes.
CdcSetup(d, r) ==
    CASE r.kind = "set_control_line_state" -> send_status(d, "cdc")
      [] r.kind = "set_line_coding" -> recv(d, "cdc", LineCodingSize)
      [] OTHER -> d

\* UsbDriver::handle_setup: the first application that handles the request is
\* given what follows.
handle_setup(d, r) ==
    LET free == [d EXCEPT !.owner = "none"]
        basic == BasicSetup(free, r)
        cdc == CdcSetup(free, r)
    IN  IF basic # free THEN [basic EXCEPT !.owner = "basic"]
        ELSE IF cdc # free THEN [cdc EXCEPT !.owner = "cdc"]
        ELSE ep0_stall(free)

--------------------------------------------------------------------------------
(* The interrupt handler. *)

\* isr_rx_fifo, one entry.
RxEntry(d, e) ==
    CASE e.status = "Setup" -> [d EXCEPT !.setup = e.request]
      [] e.status = "SetupCompleted" -> handle_setup(d, d.setup)
      [] e.status = "Out" ->
            LET received == [d EXCEPT !.length = e.count]
                f == IF d.owner = "none" THEN ep0_stall(received)
                     ELSE setup_ep_handle_out(received, d.owner, e.count)
            IN  [f EXCEPT !.halted = @ \/ f.length # 0]
      [] e.status = "OutCompleted" -> d

\* UsbDriver::ep_handle_in, and the end of its interrupt.
InCompleted(d) ==
    [(IF d.owner = "none" THEN ep0_stall(d) ELSE setup_ep_handle_in(d, d.owner))
        EXCEPT !.xfrc = FALSE]

\* isr: an entry of the RX FIFO first, then the IN end point.
ControlIsr ==
    /\ ~dev.halted
    /\ rx # << >> \/ dev.xfrc
    /\ LET d == IF rx = << >> THEN dev ELSE RxEntry(dev, Head(rx))
       IN  dev' = IF dev.xfrc THEN InCompleted(d) ELSE d
    /\ rx' = IF rx = << >> THEN rx ELSE Tail(rx)
    /\ UNCHANGED hostVars

\* isr and handle_reset: end point 0 is set up again, and nothing else.
BusReset ==
    /\ ~dev.halted /\ phase = "idle" /\ rx = << >> /\ ~dev.xfrc /\ ~dev.epena
    /\ resets < MaxResets /\ resets' = resets + 1
    /\ dev' = [dev EXCEPT !.address = 0, !.stall = FALSE]
    /\ hostAddress' = 0
    /\ UNCHANGED <<rx, phase, request, gotIn, toSend, outcome, requests>>

--------------------------------------------------------------------------------
(* The controller and the host. *)

Entry(status) == [status |-> status, count |-> 0, request |-> << >>]

HostSetup ==
    /\ phase = "idle" /\ requests < MaxRequests
    /\ \E r \in Requests :
         /\ request' = r
         /\ rx' = rx \o <<[Entry("Setup") EXCEPT !.request = r], Entry("SetupCompleted")>>
         /\ toSend' = IF r.kind \in {"set_line_coding", "vendor_out"} THEN r.length ELSE 0
         /\ phase' = CASE r.kind \in {"get_descriptor", "vendor_in"} -> "in"
                       [] r.kind \in {"set_line_coding", "vendor_out"} -> "out"
                       [] OTHER -> "statusIn"
    /\ dev' = [dev EXCEPT !.stall = FALSE]
    /\ gotIn' = << >>
    /\ requests' = requests + 1
    /\ UNCHANGED <<hostAddress, outcome, resets>>

Ends(o) ==
    /\ phase' = "idle" /\ outcome' = o
    /\ hostAddress' = IF o = "done" /\ request.kind = "set_address"
                      THEN request.length + 1 ELSE hostAddress
Taken(d) == [d EXCEPT !.epena = FALSE, !.xfrc = TRUE, !.packet = << >>]
\* The RX FIFO has the SETUP: its answer is not ready.
Pending == \E k \in DOMAIN rx : rx[k].status \in {"Setup", "SetupCompleted"}

HostDataIn ==
    /\ phase = "in" /\ ~Pending
    /\ IF dev.stall THEN Ends("stalled") /\ UNCHANGED <<dev, gotIn>>
       ELSE /\ dev.epena
            /\ gotIn' = gotIn \o dev.packet
            /\ dev' = Taken(dev)
            /\ IF Len(dev.packet) < PacketSize \/ Len(gotIn') >= request.length
               THEN phase' = "statusOut" ELSE phase' = "in"
            /\ UNCHANGED <<outcome, hostAddress>>
    /\ UNCHANGED <<rx, request, toSend, requests, resets>>

HostStatusIn ==
    /\ phase = "statusIn" /\ ~Pending
    /\ IF dev.stall THEN Ends("stalled") /\ UNCHANGED dev
       ELSE dev.epena /\ Ends(IF dev.packet = << >> THEN "done" ELSE "wrong")
            /\ dev' = Taken(dev)
    /\ UNCHANGED <<rx, request, gotIn, toSend, requests, resets>>

Receives(n) ==
    /\ dev.armed
    /\ dev' = [dev EXCEPT !.armed = FALSE]
    /\ rx' = rx \o <<[Entry("Out") EXCEPT !.count = n], Entry("OutCompleted")>>

HostStatusOut ==
    /\ phase = "statusOut" /\ Receives(0)
    /\ Ends("done")
    /\ UNCHANGED <<request, gotIn, toSend, requests, resets>>

HostDataOut ==
    /\ phase = "out" /\ ~Pending
    /\ Receives(Min2(toSend, PacketSize))
    /\ toSend' = toSend - Min2(toSend, PacketSize)
    /\ phase' = IF toSend' = 0 THEN "statusIn" ELSE "out"
    /\ UNCHANGED <<request, gotIn, hostAddress, outcome, requests, resets>>

\* Nothing moves and what the host waits for does not come.
Stuck ==
    /\ phase # "idle" /\ rx = << >> /\ ~dev.xfrc
    /\ CASE phase \in {"in", "statusIn"} -> ~dev.stall /\ ~dev.epena
         [] phase \in {"out", "statusOut"} -> ~dev.armed

HostGivesUp ==
    /\ Stuck
    /\ Ends("abandoned")
    /\ UNCHANGED <<dev, rx, request, gotIn, toSend, requests, resets>>

--------------------------------------------------------------------------------
ControlNext ==
    \/ ControlIsr \/ BusReset
    \/ HostSetup \/ HostDataIn \/ HostStatusIn \/ HostStatusOut \/ HostDataOut \/ HostGivesUp
ControlSpec == ControlInit /\ [][ControlNext]_controlVars

Supported(r) == r.kind \notin {"vendor_in", "vendor_out"} /\ (r.kind = "get_descriptor"
                                                              => r.desc # "none")

\* The assertions hold: no packet is written to an end point that has one, what
\* is received is read (usb_dwc_otg.stm32.cc:163, 436).
ControlNeverHalts == ~dev.halted

\* A transfer the device supports ends, and with success; another one which
\* sends nothing to the device is refused.  In particular a request that follows
\* at once, its SETUP in the FIFO when the end of the previous transfer is still
\* to be handled, is not answered with the state of this transfer
\* (UsbApplicationWithSetup, UsbDriver::handle_setup).
ControlEnds ==
    /\ Stuck => request.kind = "vendor_out"
    /\ phase = "idle" /\ request # << >> =>
          outcome = CASE Supported(request) -> "done"
                      [] request.kind = "vendor_out" -> "abandoned"
                      [] OTHER -> "stalled"

\* The host receives the bytes it asked for, and a whole configuration is one it
\* can read: its lengths lead from descriptor to descriptor and to its end
\* (UsbApplicationBasic::send_descriptor, usb_desc.hh).
ControlIsExact ==
    phase = "idle" /\ request # << >> /\ Supported(request) =>
        /\ request.kind = "get_descriptor" =>
              LET whole == Descriptors[request.desc]
              IN  /\ gotIn = SubSeq(whole, 1, Min2(Len(whole), request.length))
                  /\ request.desc = "configuration" /\ request.length >= Len(whole)
                        => IsConfiguration(gotIn)
        /\ hostAddress = dev.address

ControlTypeOK ==
    /\ dev.configuration \in {-1, 1} /\ dev.owner \in Apps \cup {"none"}
    /\ \A a \in Apps :
         /\ dev.stage[a] \in {"Idle", "DeviceToHostIN", "DeviceToHostStatusOUT",
                              "HostToDeviceOUT", "HostToDeviceStatusIN"}
         /\ dev.null[a] => dev.data[a] = << >>
    /\ Len(dev.packet) <= PacketSize
    /\ phase \in {"idle", "in", "statusOut", "out", "statusIn"}

\* The four, for the run.
ControlTransfersAreExact ==
    ControlTypeOK /\ ControlNeverHalts /\ ControlEnds /\ ControlIsExact
================================================================================
