------------------------------ MODULE UsbDriver ------------------------------
(***************************************************************************)
(* The software USB driver of firmware/usbdrv in the configuration of      *)
(* usbconfig.h, between the main loop of firmware/main.c and a host.       *)
(*                                                                         *)
(* The interrupt routine (asmcommon.inc) answers the bus: it runs with     *)
(* interrupts disabled, so one transaction of the host is one step.        *)
(* usbPoll (usbdrv.c) runs in the main loop and shares the receive and     *)
(* transmit buffers with it, so every access of usbPoll to what they share *)
(* is a step of its own.                                                   *)
(*                                                                         *)
(* A packet is known by the request it belongs to and its place in it; its *)
(* bytes, their encoding and their CRC are left out.  usbFunctionSetup and *)
(* usbFunctionWrite are seen through what they return to the driver; what  *)
(* they do is in SensorApp.                                                *)
(***************************************************************************)
EXTENDS Integers

CONSTANTS
    Requests,               \* what the host asks: [name, wLength]
    MaxRequests,            \* bound on the requests of the host
    MaxFaults               \* bound on lost handshakes, data packets and reports of
                            \* the device, transfers the host gives up and bus
                            \* resets, taken together

USB_NO_MSG == 255
USBPID_NAK == 90            \* 0x5a; bit 4 is set in every handshake
USBPID_SETUP == 45
USBPID_OUT == 225

\* The length of the replies of usbDriverSetup, those to GET_DESCRIPTOR by the
\* descriptor that is asked for (0 for one that this build does not have), and
\* of usbFunctionSetup.
StandardReply ==
    [GET_STATUS |-> 2, SET_ADDRESS |-> 0, GET_CONFIGURATION |-> 1,
     SET_CONFIGURATION |-> 0, GET_INTERFACE |-> 1, SET_INTERFACE |-> 0]
DescriptorReply ==
    [DEVICE |-> 18, CONFIG |-> 34, STRING_0 |-> 4, STRING_VENDOR |-> 44,
     STRING_DEVICE |-> 18, HID |-> 9, HID_REPORT |-> 49, NO_DESCRIPTOR |-> 0]
ClassReply ==
    [GET_INPUT |-> 2, GET_MUX |-> 2, GET_DATA |-> 17, SET_FEATURE |-> USB_NO_MSG,
     SET_OTHER |-> 0]

Standard == DOMAIN StandardReply
Descriptors == DOMAIN DescriptorReply
Reads  == {"GET_STATUS", "GET_CONFIGURATION", "GET_INTERFACE", "GET_INPUT", "GET_MUX",
           "GET_DATA"} \cup Descriptors
Writes == {"SET_FEATURE", "SET_OTHER"}      \* requests with data from the host

\* After these the host starts anew with the toggle of endpoint 1.
Configures == {"SET_CONFIGURATION", "SET_INTERFACE"}

ASSUME UsbDriverAssumption ==
    /\ \A rq \in Requests :
         /\ rq.name \in Standard \cup Descriptors \cup DOMAIN ClassReply
         /\ rq.wLength \in 0..256
         /\ rq.wLength > 0 <=> rq.name \in Reads \cup Writes
    /\ MaxRequests \in Nat /\ MaxFaults \in Nat

VARIABLES
    \* Received data: two buffers, the one being filled, the length of the
    \* packet in the other one (0 when it is free), and its token.
    usbRxBuf, usbInputBuf, usbRxLen, usbCurrentTok, usbRxToken,
    \* Data to send on endpoint 0 and on endpoint 1.
    usbTxLen, usbTxBuf, usbTxStatus1,
    usbDeviceAddr, usbNewDeviceAddr,
    \* The message being sent.
    usbMsgAt, usbMsgLen, usbMsgFlags,
    \* The main program: its place, the local len of usbPoll, the progress of
    \* usbFunctionWrite, the request it serves, and the report it measures.
    pc, len, usb_transfer, served, input_report,
    host, bus,
    spent                   \* the faults so far

rxvars   == <<usbRxBuf, usbInputBuf, usbRxLen, usbCurrentTok, usbRxToken>>
txvars   == <<usbTxLen, usbTxBuf>>
addrvars == <<usbDeviceAddr, usbNewDeviceAddr>>
msgvars  == <<usbMsgAt, usbMsgLen, usbMsgFlags>>
appvars  == <<usb_transfer, served>>
mainvars == <<pc, len, appvars, input_report>>
vars == <<rxvars, txvars, usbTxStatus1, addrvars, msgvars, mainvars, host, bus, spent>>

DATA0 == 0
DATA1 == 1
Lesser(a, b) == IF a < b THEN a ELSE b
Handshake(l) == (l \div 16) % 2 = 1     \* usbTxLen & 0x10

\* The n bytes from place "at" of request "req"; a SETUP packet carries rq.
NoRequest == [name |-> "none", wLength |-> 0]
Packet(req, at, n) == [req |-> req, at |-> at, len |-> n, rq |-> NoRequest]
SetupPacket(req, rq) == [Packet(req, 0, 8) EXCEPT !.rq = rq]
Nothing == Packet(0, 0, 0)

Init ==
    /\ usbRxBuf = [b \in 0..1 |-> Nothing] /\ usbInputBuf = 0
    /\ usbRxLen = 0 /\ usbCurrentTok = 0 /\ usbRxToken = 0
    /\ usbTxLen = USBPID_NAK
    /\ usbTxBuf = [tok |-> DATA0, pkt |-> Nothing]
    /\ usbTxStatus1 = [len |-> USBPID_NAK, tok |-> DATA1, lo |-> 0, hi |-> 0]
    /\ usbDeviceAddr = 0 /\ usbNewDeviceAddr = 0
    /\ usbMsgAt = 0 /\ usbMsgLen = USB_NO_MSG /\ usbMsgFlags = "none"
    /\ pc = "rx" /\ len = 0 /\ input_report = 0
    /\ usb_transfer = [count |-> 0, max |-> 0] /\ served = 0
    /\ host = [phase |-> "idle", req |-> 0, rq |-> NoRequest, done |-> 0,
               tog |-> DATA1, addr |-> 0, ep1 |-> [tog |-> DATA0, synced |-> TRUE]]
    /\ bus = "up"
    /\ spent = [acks |-> 0, data |-> 0, reports |-> 0, aborts |-> 0, resets |-> 0]

------------------------------------------------------------------------------
(***************************************************************************)
(* The main loop: usbPoll.                                                 *)
(***************************************************************************)
Step(from, to) == pc = from /\ pc' = to /\ UNCHANGED <<host, spent>>

\* A mistake: the receive buffer is marked as available before it is read.
PollRx_frees_early ==
    /\ Step("rx", IF usbRxLen >= 3 THEN "process" ELSE "tx")
    /\ len' = usbRxLen - 3
    /\ usbRxLen' = IF usbRxLen >= 3 THEN 0 ELSE usbRxLen
    /\ bus' = IF bus = "reset" THEN "noticed" ELSE bus
    /\ UNCHANGED <<usbRxBuf, usbInputBuf, usbCurrentTok, usbRxToken, txvars,
                   usbTxStatus1, addrvars, msgvars, appvars, input_report>>

PollRx ==
    /\ Step("rx", IF usbRxLen >= 3 THEN "process" ELSE "tx")
    /\ len' = usbRxLen - 3
    /\ bus' = IF bus = "reset" THEN "noticed" ELSE bus
    /\ UNCHANGED <<rxvars, txvars, usbTxStatus1, addrvars, msgvars, appvars,
                   input_report>>

\* usbProcessRx reads the buffer that is not being filled.
Data == usbRxBuf[1 - usbInputBuf]

\* A reply is cut to what the host asked for; the length of the request has
\* two bytes, that of a reply one.
Reply(rq) == CASE rq.name \in Standard    -> StandardReply[rq.name]
               [] rq.name \in Descriptors -> DescriptorReply[rq.name]
               [] OTHER                   -> ClassReply[rq.name]
ReplyLen(rq) ==
    IF Reply(rq) # USB_NO_MSG /\ rq.wLength < 256
    THEN Lesser(Reply(rq), rq.wLength) ELSE Reply(rq)

\* The rest of usbDriverSetup: a new address is kept until the status packet;
\* another interface resets the toggle of endpoint 1, also of a packet that
\* waits to be sent.  And the rest of usbFunctionSetup.
DriverSetup(rq) ==
    /\ usbNewDeviceAddr' = IF rq.name = "SET_ADDRESS" THEN 1 ELSE usbNewDeviceAddr
    /\ usbTxStatus1' = IF rq.name = "SET_INTERFACE"
                       THEN [usbTxStatus1 EXCEPT !.tok = DATA1] ELSE usbTxStatus1
FunctionSetup(rq) ==
    usb_transfer' = IF rq.name \in Writes
                    THEN [count |-> 0, max |-> Lesser(rq.wLength % 256, 17)] ELSE usb_transfer

\* Mistakes: a reply to the request before is left to be sent; the address is
\* changed at once.
ProcessSetup_keeps_pending ==
    /\ usbTxBuf' = [usbTxBuf EXCEPT !.tok = DATA0]
    /\ usbMsgAt' = 0
    /\ usbMsgLen' = ReplyLen(Data.rq)
    /\ usbMsgFlags' = IF Reply(Data.rq) = USB_NO_MSG THEN "user_rw" ELSE "none"
    /\ DriverSetup(Data.rq) /\ FunctionSetup(Data.rq)
    /\ served' = Data.req
    /\ UNCHANGED <<usbTxLen, usbDeviceAddr>>

ProcessSetup_assigns ==
    /\ usbTxLen' = USBPID_NAK
    /\ usbTxBuf' = [usbTxBuf EXCEPT !.tok = DATA0]
    /\ usbMsgAt' = 0
    /\ usbMsgLen' = ReplyLen(Data.rq)
    /\ usbMsgFlags' = IF Reply(Data.rq) = USB_NO_MSG THEN "user_rw" ELSE "none"
    /\ DriverSetup(Data.rq) /\ FunctionSetup(Data.rq)
    /\ usbDeviceAddr' = usbNewDeviceAddr'
    /\ served' = Data.req

\* A SETUP aborts what is being transmitted and starts a new message.
ProcessSetup ==
    /\ usbTxLen' = USBPID_NAK
    /\ usbTxBuf' = [usbTxBuf EXCEPT !.tok = DATA0]
    /\ usbMsgAt' = 0
    /\ usbMsgLen' = ReplyLen(Data.rq)
    /\ usbMsgFlags' = IF Reply(Data.rq) = USB_NO_MSG THEN "user_rw" ELSE "none"
    /\ DriverSetup(Data.rq) /\ FunctionSetup(Data.rq)
    /\ served' = Data.req
    /\ UNCHANGED usbDeviceAddr

\* usbFunctionWrite takes what is missing and says whether it was the last.
Taken == Lesser(usb_transfer.max - usb_transfer.count, len)
Final == usb_transfer.count + Taken = usb_transfer.max

\* A mistake: the final packet is not followed by a status packet.
ProcessOut_no_status ==
    /\ usb_transfer' = IF usbMsgFlags = "user_rw"
                       THEN [usb_transfer EXCEPT !.count = @ + Taken] ELSE usb_transfer
    /\ UNCHANGED <<usbMsgAt, usbMsgLen, usbMsgFlags, txvars, usbTxStatus1, addrvars, served>>

ProcessOut ==
    /\ usb_transfer' = IF usbMsgFlags = "user_rw"
                       THEN [usb_transfer EXCEPT !.count = @ + Taken] ELSE usb_transfer
    /\ usbMsgLen' = IF usbMsgFlags = "user_rw" /\ Final THEN 0 ELSE usbMsgLen
    /\ UNCHANGED <<usbMsgAt, usbMsgFlags, txvars, usbTxStatus1, addrvars, served>>

ProcessRx ==
    /\ Step("process", "free")
    /\ IF usbRxToken = USBPID_SETUP THEN ProcessSetup ELSE ProcessOut
    /\ UNCHANGED <<rxvars, len, input_report, bus>>

\* Mark the receive buffer as available.
FreeRx ==
    /\ Step("free", "tx")
    /\ usbRxLen' = 0
    /\ UNCHANGED <<usbRxBuf, usbInputBuf, usbCurrentTok, usbRxToken, txvars,
                   usbTxStatus1, addrvars, msgvars, len, appvars, input_report, bus>>

\* Is the transmit system idle and a message pending?
PollTx ==
    /\ Step("tx", IF Handshake(usbTxLen) /\ usbMsgLen # USB_NO_MSG
                  THEN "build" ELSE "line")
    /\ UNCHANGED <<rxvars, txvars, usbTxStatus1, addrvars, msgvars, len, appvars,
                   input_report, bus>>

\* usbBuildTxBlock fills the buffer, and then hands it to the interrupt
\* routine.  A mistake: a packet takes all that is left of the message.
BuildTxBlock_unlimited ==
    /\ Step("build", "send")
    /\ usbTxBuf' = [tok |-> 1 - usbTxBuf.tok, pkt |-> Packet(served, usbMsgAt, usbMsgLen)]
    /\ usbMsgAt' = usbMsgAt + usbMsgLen
    /\ usbMsgLen' = USB_NO_MSG
    /\ UNCHANGED <<rxvars, usbTxLen, usbTxStatus1, addrvars, usbMsgFlags, len,
                   appvars, input_report, bus>>

BuildTxBlock ==
    /\ Step("build", "send")
    /\ LET wantLen == Lesser(usbMsgLen, 8)
       IN /\ usbTxBuf' = [tok |-> 1 - usbTxBuf.tok, pkt |-> Packet(served, usbMsgAt, wantLen)]
          /\ usbMsgAt' = usbMsgAt + wantLen
          /\ usbMsgLen' = IF wantLen < 8 THEN USB_NO_MSG ELSE usbMsgLen - wantLen
    /\ UNCHANGED <<rxvars, usbTxLen, usbTxStatus1, addrvars, usbMsgFlags, len,
                   appvars, input_report, bus>>

SendTxBlock ==
    /\ Step("send", "line")
    /\ usbTxLen' = usbTxBuf.pkt.len + 4
    /\ UNCHANGED <<rxvars, usbTxBuf, usbTxStatus1, addrvars, msgvars, len, appvars,
                   input_report, bus>>

\* A reset of the bus is noticed at the end of usbPoll.
LineStatus ==
    /\ Step("line", "ready")
    /\ IF bus = "up" THEN UNCHANGED <<addrvars, bus>>
       ELSE /\ usbNewDeviceAddr' = 0 /\ usbDeviceAddr' = 0
            /\ bus' = IF bus = "noticed" THEN "over" ELSE bus
    /\ UNCHANGED <<rxvars, txvars, usbTxStatus1, msgvars, len, appvars, input_report>>

(***************************************************************************)
(* The rest of the loop of main: usbInterruptIsReady and usbSetInterrupt,  *)
(* byte by byte, then a new measurement, or none.                          *)
(***************************************************************************)
IntrFrame == UNCHANGED <<rxvars, txvars, addrvars, msgvars, len, appvars,
                         input_report, bus>>

\* A mistake: the packet is handed over before it is filled.
InterruptReady_publishes ==
    /\ Step("ready", IF Handshake(usbTxStatus1.len) THEN "lo" ELSE "sample")
    /\ usbTxStatus1' = IF Handshake(usbTxStatus1.len)
                       THEN [usbTxStatus1 EXCEPT !.tok = 1 - @, !.len = 6]
                       ELSE usbTxStatus1
    /\ IntrFrame

InterruptReady ==
    /\ Step("ready", IF Handshake(usbTxStatus1.len) THEN "lo" ELSE "sample")
    /\ usbTxStatus1' = IF Handshake(usbTxStatus1.len)
                       THEN [usbTxStatus1 EXCEPT !.tok = 1 - @] ELSE usbTxStatus1
    /\ IntrFrame

SetInterruptLo ==
    /\ Step("lo", "hi") /\ IntrFrame
    /\ usbTxStatus1' = [usbTxStatus1 EXCEPT !.lo = input_report]

SetInterruptHi ==
    /\ Step("hi", "len") /\ IntrFrame
    /\ usbTxStatus1' = [usbTxStatus1 EXCEPT !.hi = input_report]

SetInterruptLen ==
    /\ Step("len", "sample") /\ IntrFrame
    /\ usbTxStatus1' = [usbTxStatus1 EXCEPT !.len = 6]

Sample ==
    /\ Step("sample", "rx")
    /\ input_report' \in {0, 1}
    /\ UNCHANGED <<rxvars, txvars, usbTxStatus1, addrvars, msgvars, len, appvars, bus>>

Turn == \/ PollRx \/ ProcessRx \/ FreeRx \/ PollTx \/ BuildTxBlock \/ SendTxBlock
        \/ LineStatus \/ InterruptReady \/ SetInterruptLo \/ SetInterruptHi
        \/ SetInterruptLen \/ Sample

------------------------------------------------------------------------------
(***************************************************************************)
(* The interrupt routine.  addr is where the host sends the packet: 0 or 1 *)
(* for this device, 2 for another one.                                     *)
(***************************************************************************)
Accepted(addr, pkt) == addr = usbDeviceAddr /\ usbRxLen = 0

\* A mistake: empty packets are stored like others.
HandleSetupOrOut_stores_empty(addr, token, pkt) ==
    /\ usbCurrentTok' = IF addr = usbDeviceAddr THEN token ELSE 0
    /\ usbRxBuf' = [usbRxBuf EXCEPT ![usbInputBuf] = pkt]
    /\ IF usbCurrentTok' # 0 /\ usbRxLen = 0
       THEN /\ usbRxLen' = pkt.len + 3
            /\ usbRxToken' = usbCurrentTok'
            /\ usbInputBuf' = 1 - usbInputBuf
       ELSE UNCHANGED <<usbRxLen, usbRxToken, usbInputBuf>>

\* A token and the data packet behind it.  Every packet on the bus is received
\* into the buffer; it is kept when it is for this device and not empty, and
\* the other buffer is free.
HandleSetupOrOut(addr, token, pkt) ==
    /\ usbCurrentTok' = IF addr = usbDeviceAddr THEN token ELSE 0
    /\ usbRxBuf' = [usbRxBuf EXCEPT ![usbInputBuf] = pkt]
    /\ IF usbCurrentTok' # 0 /\ usbRxLen = 0 /\ pkt.len > 0
       THEN /\ usbRxLen' = pkt.len + 3
            /\ usbRxToken' = usbCurrentTok'
            /\ usbInputBuf' = 1 - usbInputBuf
       ELSE UNCHANGED <<usbRxLen, usbRxToken, usbInputBuf>>

\* IN on endpoint 0 is answered with data: the packet is given up at once, and
\* a new address takes effect.
HandleIn ==
    /\ host.addr = usbDeviceAddr /\ usbRxLen = 0 /\ ~Handshake(usbTxLen)
    /\ usbTxLen' = USBPID_NAK
    /\ usbDeviceAddr' = usbNewDeviceAddr

\* IN on endpoint 1.
HandleIn1 ==
    /\ host.addr = usbDeviceAddr /\ usbRxLen = 0 /\ ~Handshake(usbTxStatus1.len)
    /\ usbTxStatus1' = [usbTxStatus1 EXCEPT !.len = USBPID_NAK]
    /\ usbDeviceAddr' = usbNewDeviceAddr

------------------------------------------------------------------------------
(***************************************************************************)
(* The host: one control transfer after the other.  A transaction that is  *)
(* answered with NAK or not at all is repeated.                            *)
(***************************************************************************)
\* One more fault of a kind.
Fault(kind) ==
    /\ spent.acks + spent.data + spent.reports + spent.aborts + spent.resets < MaxFaults
    /\ spent' = [spent EXCEPT ![kind] = @ + 1]

Host == bus = "up" /\ UNCHANGED <<mainvars, msgvars, bus>>

\* Before it has an address a device is only asked for its descriptor, and not
\* after a SET_ADDRESS that was abandoned: that is made again.
Begin(rq) ==
    /\ Host
    /\ host.phase = "idle" /\ host.req < MaxRequests
    /\ rq.name = "SET_ADDRESS" => host.addr = 0
    /\ host.addr = 0 =>
         \/ rq.name = "SET_ADDRESS"
         \/ rq.name = "DEVICE" /\ host.rq.name # "SET_ADDRESS"
    /\ host' = [host EXCEPT !.phase = "setup", !.req = @ + 1, !.rq = rq,
                            !.done = 0, !.tog = DATA1,
                            !.ep1.synced = @ /\ rq.name \notin Configures]
    /\ UNCHANGED <<rxvars, txvars, usbTxStatus1, addrvars, spent>>

\* What an acknowledged packet leads to.
AfterSetup == [host EXCEPT !.phase = CASE host.rq.name \in Reads  -> "in"
                                       [] host.rq.name \in Writes -> "out"
                                       [] OTHER -> "statusIn"]
OutLen   == Lesser(8, host.rq.wLength - host.done)
AfterOut == [host EXCEPT !.done = @ + OutLen,
                         !.phase = IF host.done + OutLen = host.rq.wLength
                                   THEN "statusIn" ELSE "out"]
AfterStatus == [host EXCEPT !.phase = "idle"]

\* The packet the host has to send now, its token, and the state it leads to.
Sending ==
    CASE host.phase = "setup" -> <<USBPID_SETUP, SetupPacket(host.req, host.rq), AfterSetup>>
      [] host.phase = "out"   -> <<USBPID_OUT, Packet(host.req, host.done, OutLen), AfterOut>>
      [] OTHER                -> <<USBPID_OUT, Nothing, AfterStatus>>
MaySend == host.phase \in {"setup", "out", "statusOut"}

SendAcked ==
    /\ Host /\ MaySend
    /\ Accepted(host.addr, Sending[2])
    /\ HandleSetupOrOut(host.addr, Sending[1], Sending[2])
    /\ host' = Sending[3]
    /\ UNCHANGED <<txvars, usbTxStatus1, addrvars, spent>>

\* The device acknowledges, and the host does not hear it.
SendAckLost ==
    /\ Host /\ MaySend /\ Fault("acks")
    /\ Accepted(host.addr, Sending[2])
    /\ HandleSetupOrOut(host.addr, Sending[1], Sending[2])
    /\ UNCHANGED <<txvars, usbTxStatus1, addrvars, host>>

SendRefused ==
    /\ Host /\ MaySend
    /\ ~Accepted(host.addr, Sending[2])
    /\ HandleSetupOrOut(host.addr, Sending[1], Sending[2])
    /\ UNCHANGED <<txvars, usbTxStatus1, addrvars, host, spent>>

\* What the host makes of a data packet: one that does not have the expected
\* toggle is taken for a repetition.
HostGets(tok, pkt) ==
    IF tok # host.tog THEN host
    ELSE IF host.phase = "statusIn"
    THEN [host EXCEPT !.phase = "idle",
                      !.addr = IF host.rq.name = "SET_ADDRESS" THEN 1 ELSE @,
                      !.ep1.tog = IF host.rq.name \in Configures THEN DATA0 ELSE @]
    ELSE [host EXCEPT !.done = @ + pkt.len, !.tog = 1 - @,
                      !.phase = IF pkt.len < 8 \/ host.done + pkt.len = host.rq.wLength
                                THEN "statusOut" ELSE "in"]

MayReceive == host.phase \in {"in", "statusIn"}

Receive ==
    /\ Host /\ MayReceive /\ HandleIn
    /\ host' = HostGets(usbTxBuf.tok, usbTxBuf.pkt)
    /\ UNCHANGED <<rxvars, usbTxBuf, usbTxStatus1, usbNewDeviceAddr, spent>>

ReceiveLost ==
    /\ Host /\ MayReceive /\ HandleIn
    /\ Fault("data")
    /\ UNCHANGED <<rxvars, usbTxBuf, usbTxStatus1, usbNewDeviceAddr, host>>

\* The host polls endpoint 1 of a device that has its address.  A packet with
\* the wrong toggle is dropped as a repetition, and either way the host then
\* expects the other toggle.  ep1.synced is history: nothing that sets the
\* toggles apart has happened since the last report that reached the host.
ReceiveReport ==
    /\ Host /\ host.addr = 1 /\ HandleIn1
    /\ host' = [host EXCEPT !.ep1 =
                  [tog    |-> 1 - usbTxStatus1.tok,
                   synced |-> host.phase = "idle" \/ host.rq.name \notin Configures]]
    /\ UNCHANGED <<rxvars, txvars, usbNewDeviceAddr, spent>>

\* The device gives the report up when it has sent it.
ReceiveReportLost ==
    /\ Host /\ host.addr = 1 /\ HandleIn1
    /\ Fault("reports")
    /\ host' = [host EXCEPT !.ep1.synced = FALSE]
    /\ UNCHANGED <<rxvars, txvars, usbNewDeviceAddr>>

\* Traffic for another device on the same bus.
OtherDevice ==
    /\ Host
    /\ HandleSetupOrOut(2, USBPID_OUT, Packet(0, 0, 8))
    /\ UNCHANGED <<txvars, usbTxStatus1, addrvars, host, spent>>

Abort ==
    /\ Host
    /\ host.phase # "idle" /\ Fault("aborts")
    /\ host' = [host EXCEPT !.phase = "idle"]
    /\ UNCHANGED <<rxvars, txvars, usbTxStatus1, addrvars>>

(***************************************************************************)
(* A reset of the bus lasts 10 ms or more, at least one whole turn of the  *)
(* main loop: bus is "reset" until a turn of usbPoll starts and "noticed"  *)
(* until it ends.                                                          *)
(***************************************************************************)
BusReset ==
    /\ bus = "up" /\ Fault("resets")
    /\ bus' = "reset"
    /\ host' = [host EXCEPT !.phase = "idle", !.rq = NoRequest, !.addr = 0,
                            !.ep1 = [tog |-> DATA0, synced |-> FALSE]]
    /\ UNCHANGED <<rxvars, txvars, usbTxStatus1, addrvars, msgvars, mainvars>>

BusResetEnds ==
    /\ bus = "over"
    /\ bus' = "up"
    /\ UNCHANGED <<rxvars, txvars, usbTxStatus1, addrvars, msgvars, mainvars, host, spent>>

Next == \/ Turn
        \/ \E rq \in Requests : Begin(rq)
        \/ SendAcked \/ SendAckLost \/ SendRefused \/ Receive \/ ReceiveLost
        \/ ReceiveReport \/ ReceiveReportLost \/ OtherDevice \/ Abort
        \/ BusReset \/ BusResetEnds

Spec == Init /\ [][Next]_vars

\* The main loop never blocks, a host repeats a transaction until it is
\* answered, and a reset ends.
FairSpec == Spec /\ WF_vars(Turn) /\ WF_vars(SendAcked) /\ WF_vars(Receive)
                 /\ WF_vars(BusResetEnds)

------------------------------------------------------------------------------
(***************************************************************************)
(* Properties.                                                             *)
(***************************************************************************)

\* Every variable has its type: a packet fits its buffer of 11 bytes, and a
\* transmit length is that of a packet or a handshake (usbdrv.c:24-38).
TypeOK ==
    /\ usbInputBuf \in {0, 1} /\ usbRxLen \in 0..11
    /\ usbCurrentTok \in {0, USBPID_SETUP, USBPID_OUT}
    /\ usbRxToken \in {0, USBPID_SETUP, USBPID_OUT}
    /\ usbTxLen \in 4..12 \cup {USBPID_NAK}
    /\ usbTxBuf.tok \in {0, 1} /\ usbTxBuf.pkt.len \in 0..8
    /\ usbTxStatus1 \in [len: {6, USBPID_NAK}, tok: {0, 1}, lo: {0, 1}, hi: {0, 1}]
    /\ usbDeviceAddr \in {0, 1} /\ usbNewDeviceAddr \in {0, 1}
    /\ usbMsgLen \in 0..49 \cup {USB_NO_MSG} /\ usbMsgFlags \in {"none", "user_rw"}
    /\ usb_transfer.count <= usb_transfer.max

\* The device is about to answer a host that waits with data.
Ready == /\ bus = "up" /\ MayReceive /\ host.addr = usbDeviceAddr
         /\ usbRxLen = 0 /\ ~Handshake(usbTxLen)

\* What the device sends to a host that waits belongs to the request the host
\* is making, although usbPoll puts replies together while the interrupt
\* routine goes on receiving (usbdrv.c:443-444, 586-590, asmcommon.inc:131-136).
\* Unless a packet got lost it is the next part of the reply, and the host
\* gets the whole of it (usbdrv.c:467-474, 524-539).
ReplyExact ==
    LET pkt == usbTxBuf.pkt
        whole == ReplyLen(host.rq)
    IN Ready =>
        /\ pkt.req = host.req
        /\ spent.data = 0 =>
            /\ usbTxBuf.tok = host.tog
            /\ host.phase = "statusIn" => pkt.len = 0
            /\ host.phase = "in" =>
                pkt.at = host.done /\ pkt.len = Lesser(8, whole - host.done)

\* usbFunctionWrite is given the packets of the request it serves, in order and
\* without a gap; a packet twice only after a lost handshake, because the data
\* toggle is not checked (usbdrv.c:474-481, asmcommon.inc:119-127).
WriteExact ==
    [][(pc = "process" /\ usb_transfer'.count > usb_transfer.count) =>
        /\ Data.req = served
        /\ spent.acks = 0 => Data.at = usb_transfer.count
        /\ Data.at <= usb_transfer.count]_vars

\* "We must not NAK next SETUP" (asmcommon.inc:118): the receive buffer is free
\* when a host that ended its last transfer starts the next one.
SetupReady ==
    (host.phase = "setup" /\ bus = "up" /\ spent.acks = 0 /\ spent.aborts = 0)
        => usbRxLen = 0

\* The host and the device agree on the address, which changes with the status
\* packet of SET_ADDRESS and not before (usbdrvasm12.inc:372-378), and a reset
\* of the bus leaves nothing of an address that was about to be set
\* (usbdrv.c:597-598).
AddressAgrees == (bus = "up" /\ spent.data = 0) => usbDeviceAddr = host.addr

\* A report on endpoint 1 is sent whole: the packet the interrupt routine may
\* send holds the two bytes of one measurement (usbdrv.c:221-243).  And it has
\* the toggle the host expects, unless a report got lost (asmcommon.inc:163-176),
\* the bus was reset, or the host set the configuration or the interface since
\* the last report that reached it: so one such event costs at most one report
\* more, the one that is dropped for its toggle.
InterruptWhole ==
    LET report == usbTxStatus1
    IN ~Handshake(report.len) =>
        /\ report.lo = report.hi
        /\ host.ep1.synced => report.tok = host.ep1.tog

\* Every transfer of the host ends, unless the device's data got lost: that it
\* gives up when it has sent it (asmcommon.inc:154-161).
TransferEnds ==
    (host.phase # "idle") ~> (host.phase = "idle" \/ spent.data > 0)
==============================================================================
