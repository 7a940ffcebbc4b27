---------------------------- MODULE MCUsbDriver ----------------------------
(* Requests whose reply has three packets, or is cut to two full ones, or   *)
(* is empty; reports from the host that are taken, and ignored; and the     *)
(* three requests that change the state of the driver or of the host.       *)
EXTENDS UsbDriver

Rq(n, w) == [name |-> n, wLength |-> w]

MCRequests ==
    { Rq("SET_ADDRESS", 0), Rq("SET_CONFIGURATION", 0), Rq("SET_INTERFACE", 0),
      Rq("DEVICE", 256), Rq("CONFIG", 16), Rq("NO_DESCRIPTOR", 2),
      Rq("SET_FEATURE", 17), Rq("SET_OTHER", 2) }
=============================================================================
