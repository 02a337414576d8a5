----------------------------- MODULE MCUsbControl -----------------------------
(* Instances of UsbControl for TLC. *)
EXTENDS UsbControl

Ask(kind, desc, length) == [kind |-> kind, desc |-> desc, length |-> length]

\* The requests the device knows, and vendor requests, which it does not.
MCRequests ==
    {Ask("get_descriptor", "device", n) : n \in {8, 64}} \cup
    {Ask("get_descriptor", "configuration", n) : n \in {9, 67, 255}} \cup
    {Ask("get_descriptor", d, 255) : d \in {"language", "none"}} \cup
    {Ask(k, "none", 0) : k \in {"set_address", "set_configuration", "set_interface",
                                "set_control_line_state"}} \cup
    {Ask(k, "none", 7) : k \in {"set_line_coding", "vendor_in", "vendor_out"}}

\* A host which asks for one whole packet of a longer descriptor.
MCExactLength ==
    {Ask("get_descriptor", "configuration", 64), Ask("get_descriptor", "device", 64)}
================================================================================
