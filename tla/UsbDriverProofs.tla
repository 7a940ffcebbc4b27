---------------------------- MODULE UsbDriverProofs ----------------------------
(***************************************************************************)
(* Proofs about UsbDriver, for every set of requests of the host and every *)
(* number of requests and faults.                                          *)
(*                                                                         *)
(* The inductive invariant follows a packet on its way: received, waiting, *)
(* served, replied to, built, sent.  Most of it holds whatever gets lost;  *)
(* the places and toggles of Replied and the address of Addressed need     *)
(* that no data of the device got lost, and the equalities of Written that *)
(* the host heard every handshake, as the properties do.                   *)
(***************************************************************************)
EXTENDS UsbDriver, TLAPS

\* The phases of the host, the places of usbPoll, and a packet with its history.
Phases == {"idle", "setup", "in", "out", "statusIn", "statusOut"}
Places == {"rx", "process", "free", "tx", "build", "send", "line", "ready", "lo", "hi",
           "len", "sample"}
Packets == [req : Nat, at : Nat, len : 0..8, rq : Requests \cup {NoRequest}]

\* The types, TypeOK among them, and those of the history of the host.
Typing ==
    /\ usbRxBuf \in [0..1 -> Packets] /\ usbInputBuf \in {0, 1} /\ usbRxLen \in 0..11
    /\ usbCurrentTok \in {0, USBPID_SETUP, USBPID_OUT}
    /\ usbRxToken \in {0, USBPID_SETUP, USBPID_OUT}
    /\ usbTxLen \in 4..12 \cup {USBPID_NAK}
    /\ usbTxBuf \in [tok : {0, 1}, pkt : Packets]
    /\ usbTxStatus1 \in [len: {6, USBPID_NAK}, tok: {0, 1}, lo: {0, 1}, hi: {0, 1}]
    /\ usbDeviceAddr \in {0, 1} /\ usbNewDeviceAddr \in {0, 1}
    /\ usbMsgAt \in Nat /\ usbMsgLen \in 0..49 \cup {USB_NO_MSG}
    /\ usbMsgFlags \in {"none", "user_rw"}
    /\ pc \in Places /\ len \in Int /\ served \in Nat /\ input_report \in {0, 1}
    /\ usb_transfer \in [count : Nat, max : 0..17] /\ usb_transfer.count <= usb_transfer.max
    /\ host \in [phase : Phases, req : Nat, rq : Requests \cup {NoRequest}, done : Nat,
                 tog : {0, 1}, addr : {0, 1},
                 ep1 : [tog : {0, 1}, synced : BOOLEAN]]
    /\ bus \in {"up", "reset", "noticed", "over"}
    /\ spent \in [acks : Nat, data : Nat, reports : Nat, aborts : Nat, resets : Nat]

\* The host is in a phase that its request has, and has data left in one with
\* data.
Sensible ==
    /\ host.phase # "idle" => host.rq \in Requests
    /\ host.phase \in {"setup", "out", "statusIn"} => host.tog = DATA1
    /\ host.phase = "setup" => host.done = 0
    /\ host.phase = "in" => host.rq.name \in Reads /\ host.done < host.rq.wLength
    /\ host.phase = "out" => host.rq.name \in Writes /\ host.done < host.rq.wLength
    /\ host.phase = "statusIn" => host.rq.name \notin Reads

\* A packet waits in the receive buffer, and usbProcessRx has not yet seen it.
SetupWaits == usbRxLen # 0 /\ pc # "free" /\ usbRxToken = USBPID_SETUP
OutWaits == usbRxLen # 0 /\ pc # "free" /\ usbRxToken = USBPID_OUT

\* What usbPoll takes from the receive buffer: it was stored with its length
\* and token, by this request or one before, and is there until FreeRx.
Received ==
    /\ usbRxLen # 0 =>
         /\ usbRxToken # 0 /\ Data.len > 0 /\ usbRxLen = Data.len + 3 /\ Data.req <= host.req
         /\ usbRxToken = USBPID_SETUP => Data.rq \in Requests
    /\ pc = "process" => usbRxLen # 0 /\ len = usbRxLen - 3
    /\ pc = "free" => usbRxLen # 0

\* usbPoll builds a packet only when the transmit buffer is free (usbdrv.c:586);
\* a packet built or sent is part of the request that is served.
Sent ==
    /\ pc \in {"build", "send"} => Handshake(usbTxLen)
    /\ pc = "build" => usbMsgLen # USB_NO_MSG
    /\ ~Handshake(usbTxLen) \/ pc = "send" => usbTxBuf.pkt.req = served
    /\ served <= host.req

\* A reset that a turn of usbPoll has noticed finds the receive buffer empty at
\* the end of that turn, and from then on nothing is left of the old address.
ResetSeen ==
    /\ bus = "noticed" =>
         /\ pc \in {"process", "free", "tx", "build", "send", "line"}
         /\ pc \in {"tx", "build", "send", "line"} => usbRxLen = 0
    /\ bus = "over" => usbRxLen = 0 /\ usbNewDeviceAddr = 0 /\ usbDeviceAddr = 0
    /\ bus # "up" => /\ host.phase = "idle" /\ host.addr = 0
                     /\ host.rq = NoRequest /\ ~host.ep1.synced

\* The request the host is making is the one that waits, or that is served; a
\* packet of the data stage waits only after its SETUP packet was served.
Served ==
    /\ host.phase \in {"in", "out", "statusIn", "statusOut"} =>
         IF SetupWaits THEN Data.req = host.req ELSE served = host.req
    /\ host.phase # "idle" /\ SetupWaits /\ Data.req = host.req =>
         Data.rq = host.rq /\ host.done = 0 /\ host.tog = DATA1
    /\ OutWaits => Data.req = served
    /\ host.phase \in {"in", "out", "statusIn"} /\ ~SetupWaits =>
         usbMsgFlags = (IF Reply(host.rq) = USB_NO_MSG THEN "user_rw" ELSE "none")

\* A packet is ready for the host, or about to be.
Pending == pc = "send" \/ ~Handshake(usbTxLen)

\* Whatever the host lost, it has not got more than was sent, and what was built
\* is within the reply: so a reply never goes on past the length asked for.
Within ==
    host.phase = "in" /\ ~SetupWaits =>
        /\ usbMsgLen # USB_NO_MSG =>
             host.done <= usbMsgAt /\ usbMsgAt + usbMsgLen <= ReplyLen(host.rq)
        /\ Pending =>
             /\ host.done <= usbTxBuf.pkt.at
             /\ usbTxBuf.pkt.at + usbTxBuf.pkt.len <= ReplyLen(host.rq)
             /\ usbMsgLen # USB_NO_MSG => usbTxBuf.pkt.at + usbTxBuf.pkt.len <= usbMsgAt

\* When no data got lost, toggle and place of what waits, and what is left of the
\* message, are those the host expects; after SETUP the device sends DATA1 first.
Replied ==
    spent.data = 0 /\ ~SetupWaits =>
        /\ host.phase = "in" =>
             LET rest == ReplyLen(host.rq) - host.done
                 n == Lesser(8, rest)
             IN /\ rest >= 0
                /\ IF Pending
                   THEN /\ usbTxBuf.tok = host.tog
                        /\ usbTxBuf.pkt.at = host.done /\ usbTxBuf.pkt.len = n
                        /\ usbMsgAt = host.done + n
                        /\ usbMsgLen = IF n < 8 THEN USB_NO_MSG ELSE rest - n
                   ELSE usbTxBuf.tok = 1 - host.tog /\ usbMsgAt = host.done /\ usbMsgLen = rest
        /\ host.phase \in {"out", "statusIn"} =>
             /\ usbMsgLen \in {0, USB_NO_MSG}
             /\ IF Pending THEN usbTxBuf.tok = DATA1 /\ usbTxBuf.pkt.len = 0
                ELSE usbTxBuf.tok = DATA0

\* A new address waits in usbNewDeviceAddr only while the host sets it, and the
\* host that gets the status packet of SET_ADDRESS finds it there.
Addressed ==
    spent.data = 0 /\ bus = "up" =>
        /\ usbDeviceAddr = host.addr
        /\ \/ usbNewDeviceAddr = usbDeviceAddr
           \/ usbNewDeviceAddr = 1 /\ host.addr = 0 /\ host.rq.name = "SET_ADDRESS"
        /\ SetupWaits /\ Data.rq.name = "SET_ADDRESS" =>
             host.addr = 0 /\ host.rq.name = "SET_ADDRESS"
        /\ host.phase # "idle" /\ host.rq.name = "SET_ADDRESS" =>
             host.addr = 0
        /\ host.phase = "statusIn" /\ host.rq.name = "SET_ADDRESS" /\ ~SetupWaits =>
             usbNewDeviceAddr = 1

\* usbSetInterrupt is filling the packet of endpoint 1.
Filling == pc \in {"lo", "hi", "len"}

\* The packet of endpoint 1 is filled only while it is not to be sent, with one
\* measurement; a toggle is reset, there or at the host, only when they may differ.
Reported ==
    /\ Filling => Handshake(usbTxStatus1.len)
    /\ pc \in {"hi", "len"} => usbTxStatus1.lo = input_report
    /\ pc = "len" => usbTxStatus1.hi = input_report
    /\ ~Handshake(usbTxStatus1.len) => usbTxStatus1.lo = usbTxStatus1.hi
    /\ host.ep1.synced =>
         usbTxStatus1.tok = IF Filling \/ ~Handshake(usbTxStatus1.len)
                            THEN host.ep1.tog ELSE 1 - host.ep1.tog
    /\ SetupWaits /\ Data.rq.name = "SET_INTERFACE" => ~host.ep1.synced
    /\ host.phase # "idle" /\ host.rq.name \in Configures => ~host.ep1.synced

\* Unless a handshake got lost or a transfer was given up, the last packet of a
\* transfer is received, or sent, only when the receive buffer is free.
Free ==
    spent.acks = 0 /\ spent.aborts = 0 /\ bus = "up" /\ host.phase \in {"idle", "setup"} =>
        usbRxLen = 0

\* Where a request that came to place "at" has filled the record.
Reached(at) == Lesser(at, usb_transfer.max)

\* The part of the record that is filled is what has been received, without the
\* packet that waits; a lost handshake only makes a packet come again.
Written ==
    usbMsgFlags = "user_rw" =>
        /\ OutWaits =>
             /\ Reached(Data.at) <= usb_transfer.count
             /\ spent.acks = 0 => usb_transfer.count = Reached(Data.at)
             /\ host.phase = "out" =>
                  /\ host.done <= Data.at + Data.len
                  /\ spent.acks = 0 => host.done = Data.at + Data.len
        /\ host.phase = "out" /\ ~OutWaits /\ ~SetupWaits =>
             /\ Reached(host.done) <= usb_transfer.count
             /\ spent.acks = 0 => usb_transfer.count = Reached(host.done)

\* The inductive invariant.
IInv == /\ Typing /\ Sensible /\ Received /\ Sent /\ ResetSeen /\ Served /\ Within
        /\ Replied /\ Addressed /\ Reported /\ Free /\ Written

------------------------------------------------------------------------------
\* A length of a packet with its sync, token and CRC bytes is no handshake.
LEMMA HandshakeIs ==
  (\A l \in 4..12 : ~Handshake(l)) /\ ~Handshake(6) /\ Handshake(USBPID_NAK)
<1>1. \A l \in 4..12 : l \div 16 = 0
  OBVIOUS
<1>2. 90 \div 16 = 5 /\ 5 % 2 = 1 /\ 0 % 2 = 0
  OBVIOUS
<1> QED BY <1>1, <1>2 DEF Handshake, USBPID_NAK

\* The names of the requests, one by one.
LEMMA NamesAre ==
  /\ Standard = {"GET_STATUS", "SET_ADDRESS", "GET_CONFIGURATION", "SET_CONFIGURATION",
                 "GET_INTERFACE", "SET_INTERFACE"}
  /\ Descriptors = {"DEVICE", "CONFIG", "STRING_0", "STRING_VENDOR", "STRING_DEVICE", "HID",
                    "HID_REPORT", "NO_DESCRIPTOR"}
  /\ \A name \in Reads : name \notin Writes /\ name # "SET_ADDRESS" /\ name # "SET_FEATURE"
  /\ DOMAIN ClassReply = {"GET_INPUT", "GET_MUX", "GET_DATA", "SET_FEATURE", "SET_OTHER"}
BY DEF Standard, StandardReply, Descriptors, DescriptorReply, ClassReply, Reads, Writes

\* What the driver and the application reply (usbdrv.c:308-414, main.c:145-191).
LEMMA ReplyIs ==
  \A rq \in Requests :
    /\ rq.wLength \in 0..256
    /\ rq.name \in Reads => Reply(rq) \in 0..49 /\ rq.wLength > 0
    /\ rq.name \in Writes => rq.wLength > 0
    /\ rq.name = "SET_FEATURE" => Reply(rq) = USB_NO_MSG
    /\ rq.name \notin Reads /\ rq.name # "SET_FEATURE" => Reply(rq) = 0
<1> TAKE rq \in Requests
<1>1. rq.wLength \in 0..256 /\ rq.name \in Standard \cup Descriptors \cup DOMAIN ClassReply
      /\ (rq.wLength > 0 <=> rq.name \in Reads \cup Writes)
  BY UsbDriverAssumption DEF UsbDriverAssumption
<1>2. rq.name \in Reads => Reply(rq) \in 0..49
  BY <1>1, NamesAre DEF Reads, Reply, StandardReply, DescriptorReply, ClassReply
<1>3. rq.name = "SET_FEATURE" => Reply(rq) = USB_NO_MSG
  BY <1>1, NamesAre DEF Reads, Reply, StandardReply, DescriptorReply, ClassReply
<1>4. rq.name \notin Reads /\ rq.name # "SET_FEATURE" => Reply(rq) = 0
  BY <1>1, NamesAre DEF Reads, Reply, StandardReply, DescriptorReply, ClassReply
<1> QED BY <1>1, <1>2, <1>3, <1>4

\* What is sent of a reply is not longer than what the host asked for
\* (usbdrv.c:467-471).
LEMMA ReplyLenIs ==
  \A rq \in Requests :
    /\ rq.name \in Reads => ReplyLen(rq) \in 0..49 /\ ReplyLen(rq) <= rq.wLength
    /\ rq.name = "SET_FEATURE" => ReplyLen(rq) = USB_NO_MSG
    /\ rq.name \notin Reads /\ rq.name # "SET_FEATURE" => ReplyLen(rq) = 0
<1> TAKE rq \in Requests
<1>1. rq.wLength \in Nat
  BY ReplyIs
<1>2. CASE rq.name \in Reads
  BY <1>1, <1>2, ReplyIs, NamesAre DEF ReplyLen, Lesser, USB_NO_MSG
<1>3. CASE rq.name = "SET_FEATURE"
  BY <1>3, ReplyIs, NamesAre DEF ReplyLen
<1>4. CASE rq.name \notin Reads /\ rq.name # "SET_FEATURE"
  BY <1>1, <1>4, ReplyIs DEF ReplyLen, Lesser, USB_NO_MSG
<1> QED BY <1>2, <1>3, <1>4, NamesAre

\* Packets are what Packets says.
LEMMA PacketsAre ==
  /\ \A req, at \in Nat, n \in 0..8 :
       Packet(req, at, n) = [req |-> req, at |-> at, len |-> n, rq |-> NoRequest]
       /\ Packet(req, at, n) \in Packets
  /\ \A req \in Nat, rq \in Requests :
       SetupPacket(req, rq) = [req |-> req, at |-> 0, len |-> 8, rq |-> rq]
       /\ SetupPacket(req, rq) \in Packets
  /\ Nothing \in Packets /\ Nothing.len = 0 /\ Nothing.req = 0
<1>1. \A req, at \in Nat, n \in 0..8 : Packet(req, at, n) \in Packets
  BY DEF Packet, Packets
<1>2. \A req \in Nat, rq \in Requests :
        SetupPacket(req, rq) = [req |-> req, at |-> 0, len |-> 8, rq |-> rq]
  BY DEF SetupPacket, Packet
<1>3. \A req \in Nat, rq \in Requests :
        [req |-> req, at |-> 0, len |-> 8, rq |-> rq] \in Packets
  BY DEF Packets
<1>4. Nothing \in Packets /\ Nothing.len = 0 /\ Nothing.req = 0
  <2>1. Packet(0, 0, 0) \in Packets
    BY <1>1
  <2> QED BY <2>1 DEF Nothing, Packet
<1>5. \A req, at \in Nat, n \in 0..8 :
       Packet(req, at, n) = [req |-> req, at |-> at, len |-> n, rq |-> NoRequest]
  BY DEF Packet
<1> QED BY <1>1, <1>2, <1>3, <1>4, <1>5

\* The lesser of two numbers, and the next part of w bytes of which d are done.
LEMMA LesserIs ==
  /\ \A a, b \in Int : Lesser(a, b) \in {a, b} /\ Lesser(a, b) <= a /\ Lesser(a, b) <= b
  /\ \A d \in Nat, w \in Int : d < w => Lesser(8, w - d) \in 1..8 /\ d + Lesser(8, w - d) <= w
BY DEF Lesser

\* The packet the host sends now.
LEMMA SendingIs ==
  ASSUME Typing, Sensible
  PROVE  /\ host.phase = "setup" =>
              /\ Sending[1] = USBPID_SETUP /\ Sending[3] = AfterSetup
              /\ Sending[2] = [req |-> host.req, at |-> 0, len |-> 8, rq |-> host.rq]
         /\ host.phase = "out" =>
              /\ Sending[1] = USBPID_OUT /\ Sending[3] = AfterOut
              /\ OutLen \in 1..8 /\ host.done + OutLen <= host.rq.wLength
              /\ Sending[2] = [req |-> host.req, at |-> host.done, len |-> OutLen, rq |-> NoRequest]
         /\ host.phase = "statusOut" =>
              Sending[1] = USBPID_OUT /\ Sending[3] = AfterStatus /\ Sending[2].len = 0
         /\ MaySend => Sending[1] \in {USBPID_SETUP, USBPID_OUT} /\ Sending[2] \in Packets
<1>0. host.req \in Nat /\ host.done \in Nat
  BY DEF Typing
<1>1. CASE host.phase = "setup"
  <2>1. Sending = <<USBPID_SETUP, SetupPacket(host.req, host.rq), AfterSetup>>
    BY <1>1 DEF Sending
  <2>2. host.rq \in Requests
    BY <1>1 DEF Sensible
  <2> QED BY <1>0, <1>1, <2>1, <2>2, PacketsAre
<1>2. CASE host.phase = "out"
  <2>1. Sending = <<USBPID_OUT, Packet(host.req, host.done, OutLen), AfterOut>>
    BY <1>2 DEF Sending
  <2>2. host.rq \in Requests /\ host.done < host.rq.wLength
    BY <1>2 DEF Sensible
  <2>3. host.rq.wLength \in 0..256
    BY <2>2, ReplyIs
  <2>4. OutLen \in 1..8 /\ host.done + OutLen <= host.rq.wLength
    <3>1. host.rq.wLength \in Int
      BY <2>3
    <3> QED BY <1>0, <2>2, <3>1, LesserIs DEF OutLen
  <2>5. Packet(host.req, host.done, OutLen) \in Packets
    <3>1. OutLen \in 0..8
      BY <2>4
    <3> QED BY <1>0, <3>1, PacketsAre, Zenon
  <2>6. /\ Sending[1] = USBPID_OUT /\ Sending[3] = AfterOut
        /\ Sending[2] = Packet(host.req, host.done, OutLen)
    BY <2>1
  <2> QED BY <1>2, <2>4, <2>5, <2>6 DEF Packet
<1>3. CASE host.phase = "statusOut"
  <2>1. Sending = <<USBPID_OUT, Nothing, AfterStatus>>
    BY <1>3 DEF Sending
  <2> QED BY <1>3, <2>1, PacketsAre
<1> QED BY <1>1, <1>2, <1>3 DEF MaySend

\* What the interrupt routine does with a packet (asmcommon.inc:55-128).
Store(token, pkt) ==
    /\ usbRxLen = 0 /\ pkt.len > 0
    /\ usbRxLen' = pkt.len + 3 /\ usbRxToken' = token /\ Data' = pkt
Keep == UNCHANGED <<usbRxLen, usbRxToken>> /\ Data' = Data

\* A packet is stored when it is for this device, not empty and the buffer is
\* free; otherwise what waits is kept.
LEMMA HandleIs ==
  ASSUME Typing, NEW addr, NEW token \in {USBPID_SETUP, USBPID_OUT}, NEW pkt \in Packets,
         HandleSetupOrOut(addr, token, pkt)
  PROVE  /\ IF addr = usbDeviceAddr /\ usbRxLen = 0 /\ pkt.len > 0
            THEN Store(token, pkt) ELSE Keep
         /\ usbRxBuf' \in [0..1 -> Packets] /\ usbInputBuf' \in {0, 1} /\ usbRxLen' \in 0..11
         /\ usbCurrentTok' \in {0, USBPID_SETUP, USBPID_OUT}
         /\ usbRxToken' \in {0, USBPID_SETUP, USBPID_OUT}
<1>1. usbCurrentTok' = (IF addr = usbDeviceAddr THEN token ELSE 0)
      /\ usbRxBuf' = [usbRxBuf EXCEPT ![usbInputBuf] = pkt]
  BY DEF HandleSetupOrOut
<1>2. usbRxBuf \in [0..1 -> Packets] /\ usbInputBuf \in {0, 1} /\ usbRxLen \in 0..11
      /\ usbRxToken \in {0, USBPID_SETUP, USBPID_OUT}
  BY DEF Typing
<1>3. usbRxBuf' \in [0..1 -> Packets]
      /\ usbRxBuf'[usbInputBuf] = pkt /\ usbRxBuf'[1 - usbInputBuf] = Data
  BY <1>1, <1>2 DEF Data
<1>4. token # 0 /\ pkt.len \in 0..8
  BY DEF USBPID_SETUP, USBPID_OUT, Packets
<1>5. CASE addr = usbDeviceAddr /\ usbRxLen = 0 /\ pkt.len > 0
  <2>1. usbRxLen' = pkt.len + 3 /\ usbRxToken' = token /\ usbInputBuf' = 1 - usbInputBuf
    BY <1>1, <1>4, <1>5 DEF HandleSetupOrOut
  <2>2. Data' = pkt
    BY <1>2, <1>3, <2>1 DEF Data
  <2>3. Store(token, pkt)
    BY <1>5, <2>1, <2>2 DEF Store
  <2> QED BY <1>1, <1>2, <1>3, <1>4, <1>5, <2>1, <2>3
<1>6. CASE ~(addr = usbDeviceAddr /\ usbRxLen = 0 /\ pkt.len > 0)
  <2>1. UNCHANGED <<usbRxLen, usbRxToken, usbInputBuf>>
    BY <1>1, <1>4, <1>6 DEF HandleSetupOrOut
  <2>2. Data' = Data
    BY <1>3, <2>1 DEF Data
  <2>3. Keep
    BY <2>1, <2>2 DEF Keep
  <2> QED BY <1>1, <1>2, <1>3, <1>6, <2>1, <2>3
<1> QED BY <1>5, <1>6

\* A turn of the main loop leaves the host alone, and what is in the receive
\* buffers; only FreeRx makes one available (usbdrv.c:586-590).
LEMMA TurnIs ==
  ASSUME Turn
  PROVE  /\ UNCHANGED <<host, spent, usbRxBuf, usbInputBuf, usbCurrentTok, usbRxToken>>
         /\ Data' = Data
         /\ usbRxLen' = usbRxLen \/ (pc = "free" /\ pc' = "tx" /\ usbRxLen' = 0)
<1>1. /\ UNCHANGED <<host, spent, usbRxBuf, usbInputBuf, usbCurrentTok, usbRxToken>>
      /\ usbRxLen' = usbRxLen \/ (pc = "free" /\ pc' = "tx" /\ usbRxLen' = 0)
  BY DEF Turn, PollRx, ProcessRx, FreeRx, PollTx, BuildTxBlock, SendTxBlock, LineStatus,
         InterruptReady, SetInterruptLo, SetInterruptHi, SetInterruptLen, Sample, Step,
         IntrFrame, rxvars
<1> QED BY <1>1 DEF Data

\* What the host knows after one of its steps; req counts its requests.
HostIs(phase, done, tog, addr, ep1) ==
    /\ host'.phase = phase /\ host'.req = host.req /\ host'.rq = host.rq
    /\ host'.done = done /\ host'.tog = tog /\ host'.addr = addr /\ host'.ep1 = ep1
    /\ host' = [phase |-> phase, req |-> host.req, rq |-> host.rq, done |-> done,
                tog |-> tog, addr |-> addr, ep1 |-> ep1]

\* The fields of the host.
LEMMA HostFields ==
  ASSUME Typing
  PROVE  /\ host = [phase |-> host.phase, req |-> host.req, rq |-> host.rq, done |-> host.done,
                    tog |-> host.tog, addr |-> host.addr, ep1 |-> host.ep1]
         /\ host.phase \in Phases /\ host.req \in Nat /\ host.rq \in Requests \cup {NoRequest}
         /\ host.done \in Nat /\ host.tog \in {0, 1} /\ host.addr \in {0, 1}
         /\ host.ep1 \in [tog : {0, 1}, synced : BOOLEAN]
         /\ host.ep1.tog \in {0, 1} /\ host.ep1.synced \in BOOLEAN
BY DEF Typing

\* A fault is counted, and no other kind of fault.
LEMMA FaultIs ==
  ASSUME Typing, NEW kind \in {"acks", "data", "reports", "aborts", "resets"}, Fault(kind)
  PROVE  /\ spent' \in [acks : Nat, data : Nat, reports : Nat, aborts : Nat, resets : Nat]
         /\ \A k \in {"acks", "data", "reports", "aborts", "resets"} :
              spent'[k] = IF k = kind THEN spent[k] + 1 ELSE spent[k]
         /\ spent'[kind] # 0
<1>1. /\ spent \in [acks : Nat, data : Nat, reports : Nat, aborts : Nat, resets : Nat]
      /\ spent' = [spent EXCEPT ![kind] = spent[kind] + 1]
  BY DEF Typing, Fault
<1> QED BY <1>1

\* What a packet that is acknowledged leads to.
LEMMA SendAckedIs ==
  ASSUME Typing, Sensible, SendAcked
  PROVE  /\ UNCHANGED <<txvars, usbTxStatus1, addrvars, spent, mainvars, msgvars, bus>>
         /\ bus = "up" /\ MaySend /\ usbRxLen = 0
         /\ host.phase = "setup" =>
              /\ Store(USBPID_SETUP, [req |-> host.req, at |-> 0, len |-> 8, rq |-> host.rq])
              /\ HostIs(CASE host.rq.name \in Reads  -> "in"
                          [] host.rq.name \in Writes -> "out"
                          [] OTHER -> "statusIn",
                        host.done, host.tog, host.addr, host.ep1)
         /\ host.phase = "out" =>
              /\ Store(USBPID_OUT, [req |-> host.req, at |-> host.done, len |-> OutLen,
                                    rq |-> NoRequest])
              /\ HostIs(IF host.done + OutLen = host.rq.wLength THEN "statusIn" ELSE "out",
                        host.done + OutLen, host.tog, host.addr, host.ep1)
         /\ host.phase = "statusOut" =>
              Keep /\ HostIs("idle", host.done, host.tog, host.addr, host.ep1)
<1>1. /\ UNCHANGED <<txvars, usbTxStatus1, addrvars, spent, mainvars, msgvars, bus>>
      /\ bus = "up" /\ MaySend /\ usbRxLen = 0 /\ host.addr = usbDeviceAddr
      /\ HandleSetupOrOut(host.addr, Sending[1], Sending[2])
      /\ host' = Sending[3]
  BY DEF SendAcked, Host, Accepted
<1>2. Sending[1] \in {USBPID_SETUP, USBPID_OUT} /\ Sending[2] \in Packets
  BY <1>1, SendingIs
<1>3. IF Sending[2].len > 0 THEN Store(Sending[1], Sending[2]) ELSE Keep
  BY <1>1, <1>2, HandleIs
<1>4. CASE host.phase = "setup"
  <2>1. /\ Store(USBPID_SETUP, [req |-> host.req, at |-> 0, len |-> 8, rq |-> host.rq])
        /\ host' = AfterSetup
    BY <1>1, <1>3, <1>4, SendingIs
  <2>2. HostIs(CASE host.rq.name \in Reads  -> "in"
                          [] host.rq.name \in Writes -> "out"
                          [] OTHER -> "statusIn",
                        host.done, host.tog, host.addr, host.ep1)
    BY <2>1, HostFields DEF AfterSetup, HostIs
  <2> QED BY <1>1, <1>4, <2>1, <2>2
<1>5. CASE host.phase = "out"
  <2>1. /\ Store(USBPID_OUT, [req |-> host.req, at |-> host.done, len |-> OutLen,
                              rq |-> NoRequest])
        /\ host' = AfterOut
    BY <1>1, <1>3, <1>5, SendingIs
  <2>2. HostIs(IF host.done + OutLen = host.rq.wLength THEN "statusIn" ELSE "out",
               host.done + OutLen, host.tog, host.addr, host.ep1)
    BY <2>1, HostFields DEF AfterOut, HostIs
  <2> QED BY <1>1, <1>5, <2>1, <2>2
<1>6. CASE host.phase = "statusOut"
  <2>1. Keep /\ host' = AfterStatus
    BY <1>1, <1>3, <1>6, SendingIs
  <2>2. HostIs("idle", host.done, host.tog, host.addr, host.ep1)
    BY <2>1, HostFields DEF AfterStatus, HostIs
  <2> QED BY <1>1, <1>6, <2>1, <2>2
<1> QED BY <1>1, <1>4, <1>5, <1>6 DEF MaySend

\* The same packet is received, and the host does not know.
LEMMA SendAckLostIs ==
  ASSUME Typing, Sensible, SendAckLost
  PROVE  /\ UNCHANGED <<txvars, usbTxStatus1, addrvars, host, mainvars, msgvars, bus>>
         /\ bus = "up" /\ MaySend /\ usbRxLen = 0 /\ Fault("acks")
         /\ host.phase = "setup" =>
              Store(USBPID_SETUP, [req |-> host.req, at |-> 0, len |-> 8, rq |-> host.rq])
         /\ host.phase = "out" =>
              Store(USBPID_OUT, [req |-> host.req, at |-> host.done, len |-> OutLen,
                                 rq |-> NoRequest])
         /\ host.phase = "statusOut" => Keep
<1>1. /\ UNCHANGED <<txvars, usbTxStatus1, addrvars, host, mainvars, msgvars, bus>>
      /\ bus = "up" /\ MaySend /\ usbRxLen = 0 /\ host.addr = usbDeviceAddr /\ Fault("acks")
      /\ HandleSetupOrOut(host.addr, Sending[1], Sending[2])
  BY DEF SendAckLost, Host, Accepted
<1>2. Sending[1] \in {USBPID_SETUP, USBPID_OUT} /\ Sending[2] \in Packets
  BY <1>1, SendingIs
<1>3. IF Sending[2].len > 0 THEN Store(Sending[1], Sending[2]) ELSE Keep
  BY <1>1, <1>2, HandleIs
<1>4. host.phase = "setup" =>
        Store(USBPID_SETUP, [req |-> host.req, at |-> 0, len |-> 8, rq |-> host.rq])
  BY <1>3, SendingIs
<1>5. host.phase = "out" =>
        Store(USBPID_OUT, [req |-> host.req, at |-> host.done, len |-> OutLen,
                           rq |-> NoRequest])
  BY <1>3, SendingIs
<1>6. host.phase = "statusOut" => Keep
  BY <1>3, SendingIs
<1> QED BY <1>1, <1>4, <1>5, <1>6

\* A packet that is refused, or for another device, is forgotten.
LEMMA ForgottenIs ==
  ASSUME Typing, Sensible, SendRefused \/ OtherDevice
  PROVE  /\ UNCHANGED <<txvars, usbTxStatus1, addrvars, host, spent, mainvars, msgvars, bus>>
         /\ bus = "up" /\ Keep
<1>1. CASE SendRefused
  <2>1. /\ UNCHANGED <<txvars, usbTxStatus1, addrvars, host, spent, mainvars, msgvars, bus>>
        /\ bus = "up" /\ MaySend /\ ~(host.addr = usbDeviceAddr /\ usbRxLen = 0)
        /\ HandleSetupOrOut(host.addr, Sending[1], Sending[2])
    BY <1>1 DEF SendRefused, Host, Accepted
  <2>2. Sending[1] \in {USBPID_SETUP, USBPID_OUT} /\ Sending[2] \in Packets
    BY <2>1, SendingIs
  <2> QED BY <2>1, <2>2, HandleIs
<1>2. CASE OtherDevice
  <2>1. /\ UNCHANGED <<txvars, usbTxStatus1, addrvars, host, spent, mainvars, msgvars, bus>>
        /\ bus = "up" /\ HandleSetupOrOut(2, USBPID_OUT, Packet(0, 0, 8))
    BY <1>2 DEF OtherDevice, Host
  <2>2. usbDeviceAddr # 2
    BY DEF Typing
  <2>3. Packet(0, 0, 8) \in Packets
    BY PacketsAre
  <2>4. Keep
    BY <2>1, <2>2, <2>3, HandleIs
  <2> QED BY <2>1, <2>4
<1> QED BY <1>1, <1>2

\* The host gets what waits on endpoint 0.
LEMMA ReceiveIs ==
  ASSUME Typing, Receive
  PROVE  /\ UNCHANGED <<rxvars, usbTxBuf, usbTxStatus1, usbNewDeviceAddr, spent, mainvars,
                        msgvars, bus, Data>>
         /\ bus = "up" /\ MayReceive /\ host.addr = usbDeviceAddr /\ usbRxLen = 0
         /\ ~Handshake(usbTxLen) /\ usbTxLen' = USBPID_NAK /\ usbDeviceAddr' = usbNewDeviceAddr
         /\ usbTxBuf.tok # host.tog => host' = host
         /\ usbTxBuf.tok = host.tog /\ host.phase = "statusIn" =>
              HostIs("idle", host.done, host.tog,
                     IF host.rq.name = "SET_ADDRESS" THEN 1 ELSE host.addr,
                     IF host.rq.name \in Configures THEN [host.ep1 EXCEPT !.tog = DATA0]
                     ELSE host.ep1)
         /\ usbTxBuf.tok = host.tog /\ host.phase = "in" =>
              LET n == usbTxBuf.pkt.len
              IN HostIs(IF n < 8 \/ host.done + n = host.rq.wLength THEN "statusOut" ELSE "in",
                        host.done + n, 1 - host.tog, host.addr, host.ep1)
<1>1. /\ UNCHANGED <<rxvars, usbTxBuf, usbTxStatus1, usbNewDeviceAddr, spent, mainvars,
                     msgvars, bus>>
      /\ bus = "up" /\ MayReceive /\ host.addr = usbDeviceAddr /\ usbRxLen = 0
      /\ ~Handshake(usbTxLen) /\ usbTxLen' = USBPID_NAK /\ usbDeviceAddr' = usbNewDeviceAddr
      /\ host' = HostGets(usbTxBuf.tok, usbTxBuf.pkt)
  BY DEF Receive, Host, HandleIn
<1>2. Data' = Data
  BY <1>1 DEF Data, rxvars
<1>3. usbTxBuf.tok # host.tog => host' = host
  BY <1>1 DEF HostGets
<1>4. usbTxBuf.tok = host.tog /\ host.phase = "statusIn" =>
        HostIs("idle", host.done, host.tog,
               IF host.rq.name = "SET_ADDRESS" THEN 1 ELSE host.addr,
               IF host.rq.name \in Configures THEN [host.ep1 EXCEPT !.tog = DATA0]
               ELSE host.ep1)
  BY <1>1, HostFields DEF HostGets, HostIs
<1>5. usbTxBuf.tok = host.tog /\ host.phase = "in" =>
        LET n == usbTxBuf.pkt.len
        IN HostIs(IF n < 8 \/ host.done + n = host.rq.wLength THEN "statusOut" ELSE "in",
                  host.done + n, 1 - host.tog, host.addr, host.ep1)
  BY <1>1, HostFields DEF HostGets, HostIs
<1> QED BY <1>1, <1>2, <1>3, <1>4, <1>5

\* What waits gets lost.
LEMMA ReceiveLostIs ==
  ASSUME Typing, ReceiveLost
  PROVE  /\ UNCHANGED <<rxvars, usbTxBuf, usbTxStatus1, usbNewDeviceAddr, host, mainvars,
                        msgvars, bus, Data>>
         /\ bus = "up" /\ MayReceive /\ usbRxLen = 0 /\ Fault("data")
         /\ usbTxLen' = USBPID_NAK /\ usbDeviceAddr' = usbNewDeviceAddr
BY DEF ReceiveLost, Host, HandleIn, Data, rxvars

\* What the host then knows of endpoint 1.
Got1 == [tog    |-> 1 - usbTxStatus1.tok,
         synced |-> host.phase = "idle" \/ host.rq.name \notin Configures]

\* The host gets what waits on endpoint 1.
LEMMA ReceiveReportIs ==
  ASSUME Typing, ReceiveReport
  PROVE  /\ UNCHANGED <<rxvars, txvars, usbNewDeviceAddr, spent, mainvars, msgvars, bus, Data>>
         /\ bus = "up" /\ host.addr = 1 /\ host.addr = usbDeviceAddr /\ usbRxLen = 0
         /\ ~Handshake(usbTxStatus1.len) /\ usbDeviceAddr' = usbNewDeviceAddr
         /\ usbTxStatus1' = [usbTxStatus1 EXCEPT !.len = USBPID_NAK]
         /\ HostIs(host.phase, host.done, host.tog, host.addr, Got1)
<1>1. /\ UNCHANGED <<rxvars, txvars, usbNewDeviceAddr, spent, mainvars, msgvars, bus>>
      /\ bus = "up" /\ host.addr = 1 /\ host.addr = usbDeviceAddr /\ usbRxLen = 0
      /\ ~Handshake(usbTxStatus1.len) /\ usbDeviceAddr' = usbNewDeviceAddr
      /\ usbTxStatus1' = [usbTxStatus1 EXCEPT !.len = USBPID_NAK]
      /\ host' = [host EXCEPT !.ep1 = Got1]
  BY DEF ReceiveReport, Host, HandleIn1, Got1
<1>2. Data' = Data
  BY <1>1 DEF Data, rxvars
<1>3. HostIs(host.phase, host.done, host.tog, host.addr, Got1)
  BY <1>1, HostFields DEF HostIs
<1> QED BY <1>1, <1>2, <1>3

\* The report gets lost on its way.
LEMMA ReceiveReportLostIs ==
  ASSUME Typing, ReceiveReportLost
  PROVE  /\ UNCHANGED <<rxvars, txvars, usbNewDeviceAddr, mainvars, msgvars, bus, Data>>
         /\ bus = "up" /\ host.addr = 1 /\ host.addr = usbDeviceAddr /\ usbRxLen = 0
         /\ ~Handshake(usbTxStatus1.len) /\ usbDeviceAddr' = usbNewDeviceAddr
         /\ usbTxStatus1' = [usbTxStatus1 EXCEPT !.len = USBPID_NAK] /\ Fault("reports")
         /\ HostIs(host.phase, host.done, host.tog, host.addr,
                   [host.ep1 EXCEPT !.synced = FALSE])
<1>1. /\ UNCHANGED <<rxvars, txvars, usbNewDeviceAddr, mainvars, msgvars, bus>>
      /\ bus = "up" /\ host.addr = 1 /\ host.addr = usbDeviceAddr /\ usbRxLen = 0
      /\ ~Handshake(usbTxStatus1.len) /\ usbDeviceAddr' = usbNewDeviceAddr
      /\ usbTxStatus1' = [usbTxStatus1 EXCEPT !.len = USBPID_NAK] /\ Fault("reports")
      /\ host' = [host EXCEPT !.ep1 = [host.ep1 EXCEPT !.synced = FALSE]]
  BY DEF ReceiveReportLost, Host, HandleIn1
<1>2. Data' = Data
  BY <1>1 DEF Data, rxvars
<1>3. HostIs(host.phase, host.done, host.tog, host.addr, [host.ep1 EXCEPT !.synced = FALSE])
  BY <1>1, HostFields DEF HostIs
<1> QED BY <1>1, <1>2, <1>3

\* Either way it is given up.
LEMMA ReportIs ==
  ASSUME Typing, ReceiveReport \/ ReceiveReportLost
  PROVE  /\ UNCHANGED <<rxvars, txvars, usbNewDeviceAddr, mainvars, msgvars, bus, Data>>
         /\ bus = "up" /\ host.addr = 1 /\ host.addr = usbDeviceAddr /\ usbRxLen = 0
         /\ ~Handshake(usbTxStatus1.len) /\ usbDeviceAddr' = usbNewDeviceAddr
         /\ usbTxStatus1' = [usbTxStatus1 EXCEPT !.len = USBPID_NAK]
         /\ host'.ep1 \in [tog : {0, 1}, synced : BOOLEAN]
         /\ HostIs(host.phase, host.done, host.tog, host.addr, host'.ep1)
         /\ spent' \in [acks : Nat, data : Nat, reports : Nat, aborts : Nat, resets : Nat]
         /\ \A kind \in {"acks", "data", "aborts", "resets"} : spent'[kind] = spent[kind]
<1>1. CASE ReceiveReport
  <2>1. usbTxStatus1.tok \in {0, 1}
        /\ spent \in [acks : Nat, data : Nat, reports : Nat, aborts : Nat, resets : Nat]
    BY DEF Typing
  <2>2. Got1 \in [tog : {0, 1}, synced : BOOLEAN]
    BY <2>1 DEF Got1
  <2> QED BY <1>1, <2>1, <2>2, ReceiveReportIs DEF HostIs
<1>2. CASE ReceiveReportLost
  <2>1. [host.ep1 EXCEPT !.synced = FALSE] \in [tog : {0, 1}, synced : BOOLEAN]
    BY HostFields
  <2> QED BY <1>2, <2>1, ReceiveReportLostIs, FaultIs DEF HostIs
<1> QED BY <1>1, <1>2

\* What the host knows of endpoint 1 when it has begun with rq.
Begun1(rq) == [host.ep1 EXCEPT !.synced = host.ep1.synced /\ rq.name \notin Configures]

\* The host starts a transfer.
LEMMA BeginIs ==
  ASSUME Typing, NEW rq \in Requests, Begin(rq)
  PROVE  /\ UNCHANGED <<rxvars, txvars, usbTxStatus1, addrvars, spent, mainvars, msgvars, bus,
                        Data>>
         /\ bus = "up" /\ host.phase = "idle"
         /\ rq.name = "SET_ADDRESS" => host.addr = 0
         /\ host.addr = 0 =>
              \/ rq.name = "SET_ADDRESS"
              \/ rq.name = "DEVICE" /\ host.rq.name # "SET_ADDRESS"
         /\ host'.phase = "setup" /\ host'.req = host.req + 1 /\ host'.rq = rq
         /\ host'.done = 0 /\ host'.tog = DATA1 /\ host'.addr = host.addr
         /\ host'.ep1 = Begun1(rq)
         /\ host' = [phase |-> host'.phase, req |-> host'.req, rq |-> rq, done |-> host'.done,
                     tog |-> host'.tog, addr |-> host'.addr, ep1 |-> host'.ep1]
<1>1. /\ UNCHANGED <<rxvars, txvars, usbTxStatus1, addrvars, spent, mainvars, msgvars, bus>>
      /\ bus = "up" /\ host.phase = "idle"
      /\ rq.name = "SET_ADDRESS" => host.addr = 0
      /\ host.addr = 0 =>
           \/ rq.name = "SET_ADDRESS"
           \/ rq.name = "DEVICE" /\ host.rq.name # "SET_ADDRESS"
      /\ host' = [host EXCEPT !.phase = "setup", !.req = host.req + 1, !.rq = rq,
                              !.done = 0, !.tog = DATA1,
                              !.ep1 = Begun1(rq)]
  BY DEF Begin, Host, Begun1
<1>2. Data' = Data
  BY <1>1 DEF Data, rxvars
<1>3. host' = [phase |-> "setup", req |-> host.req + 1, rq |-> rq, done |-> 0, tog |-> DATA1,
               addr |-> host.addr,
               ep1 |-> Begun1(rq)]
  BY <1>1, HostFields
<1> QED BY <1>1, <1>2, <1>3

\* The host gives up a transfer.
LEMMA AbortIs ==
  ASSUME Typing, Abort
  PROVE  /\ UNCHANGED <<rxvars, txvars, usbTxStatus1, addrvars, mainvars, msgvars, bus, Data>>
         /\ bus = "up" /\ Fault("aborts")
         /\ HostIs("idle", host.done, host.tog, host.addr, host.ep1)
<1>1. /\ UNCHANGED <<rxvars, txvars, usbTxStatus1, addrvars, mainvars, msgvars, bus>>
      /\ bus = "up" /\ Fault("aborts") /\ host' = [host EXCEPT !.phase = "idle"]
  BY DEF Abort, Host
<1>2. Data' = Data
  BY <1>1 DEF Data, rxvars
<1>3. HostIs("idle", host.done, host.tog, host.addr, host.ep1)
  BY <1>1, HostFields DEF HostIs
<1> QED BY <1>1, <1>2, <1>3

\* The host resets the bus.
LEMMA BusResetIs ==
  ASSUME Typing, BusReset
  PROVE  /\ UNCHANGED <<rxvars, txvars, usbTxStatus1, addrvars, mainvars, msgvars, Data>>
         /\ bus = "up" /\ bus' = "reset" /\ Fault("resets")
         /\ host' = [phase |-> "idle", req |-> host.req, rq |-> NoRequest, done |-> host.done,
                     tog |-> host.tog, addr |-> 0, ep1 |-> [tog |-> DATA0, synced |-> FALSE]]
<1>1. /\ UNCHANGED <<rxvars, txvars, usbTxStatus1, addrvars, mainvars, msgvars>>
      /\ bus = "up" /\ bus' = "reset" /\ Fault("resets")
      /\ host' = [host EXCEPT !.phase = "idle", !.rq = NoRequest, !.addr = 0,
                              !.ep1 = [tog |-> DATA0, synced |-> FALSE]]
  BY DEF BusReset
<1> QED BY <1>1, HostFields DEF Data, rxvars

\* The reset ends.
LEMMA BusResetEndsIs ==
  ASSUME BusResetEnds
  PROVE  /\ UNCHANGED <<rxvars, txvars, usbTxStatus1, addrvars, mainvars, msgvars, host, spent,
                        Data>>
         /\ bus = "over" /\ bus' = "up"
BY DEF BusResetEnds, Data, rxvars

\* The packet that waits is a packet.
LEMMA DataIs ==
  ASSUME Typing
  PROVE  Data \in Packets /\ Data.req \in Nat /\ Data.at \in Nat /\ Data.len \in 0..8
         /\ Data.rq \in Requests \cup {NoRequest}
<1>1. Data \in Packets
  BY DEF Typing, Data
<1> QED BY <1>1 DEF Packets

\* What usbProcessRx does with a SETUP packet (usbdrv.c:439-473).
LEMMA ProcessSetupIs ==
  ASSUME Typing, Received, ProcessRx, usbRxToken = USBPID_SETUP
  PROVE  /\ SetupWaits /\ Data.rq \in Requests /\ pc = "process" /\ pc' = "free"
         /\ UNCHANGED <<rxvars, len, input_report, bus, usbDeviceAddr>>
         /\ usbTxLen' = USBPID_NAK
         /\ usbTxBuf'.tok = DATA0 /\ usbTxBuf'.pkt = usbTxBuf.pkt
         /\ usbTxBuf' = [tok |-> DATA0, pkt |-> usbTxBuf.pkt]
         /\ usbMsgAt' = 0 /\ usbMsgLen' = ReplyLen(Data.rq)
         /\ usbMsgFlags' = IF Reply(Data.rq) = USB_NO_MSG THEN "user_rw" ELSE "none"
         /\ DriverSetup(Data.rq) /\ FunctionSetup(Data.rq)
         /\ served' = Data.req
<1>1. /\ pc = "process" /\ pc' = "free" /\ ProcessSetup
      /\ UNCHANGED <<rxvars, len, input_report, bus>>
  BY DEF ProcessRx, Step
<1>2. SetupWaits /\ Data.rq \in Requests
  BY <1>1 DEF Received, SetupWaits
<1>3. usbTxBuf \in [tok : {0, 1}, pkt : Packets] /\ usbTxBuf' = [usbTxBuf EXCEPT !.tok = DATA0]
  BY <1>1 DEF Typing, ProcessSetup
<1>4. usbTxBuf' = [tok |-> DATA0, pkt |-> usbTxBuf.pkt]
  BY <1>3
<1> QED BY <1>1, <1>2, <1>4 DEF ProcessSetup

\* And with one of the data stage (usbdrv.c:474-484).
LEMMA ProcessOutIs ==
  ASSUME Typing, Received, ProcessRx, usbRxToken # USBPID_SETUP
  PROVE  /\ OutWaits /\ pc = "process" /\ pc' = "free" /\ len = Data.len /\ Data.len \in 1..8
         /\ UNCHANGED <<rxvars, len, input_report, bus, addrvars, txvars, usbTxStatus1, usbMsgAt,
                        usbMsgFlags, served>>
         /\ usbMsgFlags = "user_rw" =>
              /\ usb_transfer' = [count |-> usb_transfer.count + Taken, max |-> usb_transfer.max]
              /\ usbMsgLen' = IF Final THEN 0 ELSE usbMsgLen
         /\ usbMsgFlags # "user_rw" => UNCHANGED <<usb_transfer, usbMsgLen>>
<1>1. /\ pc = "process" /\ pc' = "free" /\ ProcessOut
      /\ UNCHANGED <<rxvars, len, input_report, bus>>
  BY DEF ProcessRx, Step
<1>2. usbRxToken \in {0, USBPID_SETUP, USBPID_OUT} /\ usb_transfer \in [count : Nat, max : 0..17]
  BY DEF Typing
<1>3. OutWaits
  BY <1>1, <1>2 DEF Received, OutWaits
<1>4. len = Data.len /\ Data.len > 0
  BY <1>1, DataIs DEF Received
<1>5. len = Data.len /\ Data.len \in 1..8
  BY <1>4, DataIs
<1>6. usbMsgFlags = "user_rw" =>
        /\ usb_transfer' = [usb_transfer EXCEPT !.count = usb_transfer.count + Taken]
        /\ usbMsgLen' = IF Final THEN 0 ELSE usbMsgLen
  BY <1>1 DEF ProcessOut
<1>7. usbMsgFlags = "user_rw" =>
        usb_transfer' = [count |-> usb_transfer.count + Taken, max |-> usb_transfer.max]
  BY <1>2, <1>6
<1> QED BY <1>1, <1>3, <1>5, <1>6, <1>7 DEF ProcessOut

\* usbFunctionWrite takes what comes, or what is missing.
LEMMA TakenIs ==
  ASSUME Typing, len \in 1..8
  PROVE  /\ Taken \in 0..8 /\ usb_transfer.count + Taken <= usb_transfer.max
         /\ usb_transfer.count + Taken = Lesser(usb_transfer.count + len, usb_transfer.max)
         /\ Taken # 0 => usb_transfer.count < usb_transfer.max
<1>1. /\ usb_transfer.count \in Nat /\ usb_transfer.max \in 0..17
      /\ usb_transfer.count <= usb_transfer.max
  BY DEF Typing
<1>2. \A c \in Nat, m \in 0..17, n \in 1..8 : c <= m =>
        LET t == Lesser(m - c, n)
        IN t \in 0..8 /\ c + t <= m /\ c + t = Lesser(c + n, m) /\ (t # 0 => c < m)
  BY DEF Lesser
<1> QED BY <1>1, <1>2 DEF Taken

\* usbBuildTxBlock: 8 bytes, or the rest of the message when it has fewer.
LEMMA BuildIs ==
  ASSUME Typing, Sent, BuildTxBlock
  PROVE  /\ pc = "build" /\ pc' = "send" /\ usbMsgLen \in 0..49
         /\ UNCHANGED <<rxvars, usbTxLen, usbTxStatus1, addrvars, usbMsgFlags, len, appvars,
                        input_report, bus>>
         /\ LET n == Lesser(usbMsgLen, 8)
            IN /\ n \in 0..8 /\ n = Lesser(8, usbMsgLen)
               /\ usbTxBuf'.tok = 1 - usbTxBuf.tok
               /\ usbTxBuf'.pkt = [req |-> served, at |-> usbMsgAt, len |-> n, rq |-> NoRequest]
               /\ usbTxBuf' \in [tok : {0, 1}, pkt : Packets]
               /\ usbMsgAt' = usbMsgAt + n
               /\ usbMsgLen' = IF n < 8 THEN USB_NO_MSG ELSE usbMsgLen - n
<1> DEFINE n == Lesser(usbMsgLen, 8)
<1>1. /\ pc = "build" /\ pc' = "send"
      /\ UNCHANGED <<rxvars, usbTxLen, usbTxStatus1, addrvars, usbMsgFlags, len, appvars,
                     input_report, bus>>
      /\ usbTxBuf' = [tok |-> 1 - usbTxBuf.tok, pkt |-> Packet(served, usbMsgAt, n)]
      /\ usbMsgAt' = usbMsgAt + n
      /\ usbMsgLen' = IF n < 8 THEN USB_NO_MSG ELSE usbMsgLen - n
  BY DEF BuildTxBlock, Step
<1>2. usbMsgLen \in 0..49
  BY <1>1 DEF Typing, Sent
<1>3. n \in 0..8 /\ n = Lesser(8, usbMsgLen)
  BY <1>2 DEF Lesser
<1>4. usbTxBuf.tok \in {0, 1} /\ usbMsgAt \in Nat /\ served \in Nat
  BY DEF Typing
<1>5. Packet(served, usbMsgAt, n) = [req |-> served, at |-> usbMsgAt, len |-> n, rq |-> NoRequest]
      /\ Packet(served, usbMsgAt, n) \in Packets
  BY <1>3, <1>4, PacketsAre
<1> HIDE DEF n
<1>6. /\ usbTxBuf'.tok = 1 - usbTxBuf.tok
      /\ usbTxBuf'.pkt = [req |-> served, at |-> usbMsgAt, len |-> n, rq |-> NoRequest]
  BY <1>1, <1>5
<1>7. usbTxBuf' \in [tok : {0, 1}, pkt : Packets]
  BY <1>1, <1>4, <1>5
<1> QED BY <1>1, <1>2, <1>3, <1>6, <1>7 DEF n

------------------------------------------------------------------------------
\* A step of the main loop keeps the types.
LEMMA TurnTyped ==
  ASSUME Typing, Received, Sent, Turn
  PROVE  Typing'
<1>1. CASE PollRx
  <2>1. usbRxLen - 3 \in Int
    BY DEF Typing
  <2> QED BY <1>1, <2>1
      DEF Typing, PollRx, Step, rxvars, txvars, addrvars, msgvars, appvars, Places
<1>2. CASE ProcessRx
  <2>1. CASE usbRxToken = USBPID_SETUP
    <3>1. /\ UNCHANGED <<rxvars, len, input_report, bus, usbDeviceAddr, host, spent>>
          /\ Data.rq \in Requests /\ pc' = "free" /\ usbTxLen' = USBPID_NAK /\ usbMsgAt' = 0
          /\ usbTxBuf' = [tok |-> DATA0, pkt |-> usbTxBuf.pkt]
          /\ usbMsgLen' = ReplyLen(Data.rq)
          /\ usbMsgFlags' = IF Reply(Data.rq) = USB_NO_MSG THEN "user_rw" ELSE "none"
          /\ served' = Data.req
      BY <1>2, <2>1, ProcessSetupIs, TurnIs
    <3>2. usbTxBuf' \in [tok : {0, 1}, pkt : Packets]
      BY <3>1 DEF Typing, DATA0
    <3>3. usbMsgLen' \in 0..49 \cup {USB_NO_MSG}
      BY <3>1, ReplyLenIs
    <3>4. usbNewDeviceAddr' \in {0, 1}
      BY <1>2, <2>1, ProcessSetupIs DEF DriverSetup, Typing
    <3>5. usbTxStatus1' \in [len: {6, USBPID_NAK}, tok: {0, 1}, lo: {0, 1}, hi: {0, 1}]
      BY <1>2, <2>1, ProcessSetupIs DEF DriverSetup, Typing, DATA1
    <3>6. usb_transfer' \in [count : Nat, max : 0..17] /\ usb_transfer'.count <= usb_transfer'.max
      <4>1. FunctionSetup(Data.rq)
        BY <1>2, <2>1, ProcessSetupIs
      <4>2. Lesser(Data.rq.wLength % 256, 17) \in 0..17
        <5>1. Data.rq.wLength \in 0..256
          BY <3>1, ReplyIs
        <5>2. Data.rq.wLength % 256 \in Nat
          BY <5>1
        <5> QED BY <5>2 DEF Lesser
      <4> QED BY <4>1, <4>2 DEF FunctionSetup, Typing
    <3> QED BY <3>1, <3>2, <3>3, <3>4, <3>5, <3>6, DataIs DEF Typing, rxvars, Places
  <2>2. CASE usbRxToken # USBPID_SETUP
    <3>1. /\ UNCHANGED <<rxvars, len, input_report, bus, addrvars, txvars, usbTxStatus1,
                         usbMsgAt, usbMsgFlags, served, host, spent>>
          /\ pc' = "free" /\ len \in 1..8
      BY <1>2, <2>2, ProcessOutIs, TurnIs
    <3>2. usb_transfer' \in [count : Nat, max : 0..17] /\ usb_transfer'.count <= usb_transfer'.max
      <4>1. /\ usb_transfer \in [count : Nat, max : 0..17]
            /\ usb_transfer.count <= usb_transfer.max
        BY DEF Typing
      <4>2. Taken \in 0..8 /\ usb_transfer.count + Taken <= usb_transfer.max
        BY <3>1, TakenIs
      <4> QED BY <1>2, <2>2, <4>1, <4>2, ProcessOutIs
    <3>3. usbMsgLen' \in 0..49 \cup {USB_NO_MSG}
      BY <1>2, <2>2, ProcessOutIs DEF Typing
    <3> QED BY <3>1, <3>2, <3>3 DEF Typing, rxvars, txvars, addrvars, Places
  <2> QED BY <2>1, <2>2
<1>3. CASE FreeRx
  BY <1>3 DEF Typing, FreeRx, Step, txvars, addrvars, msgvars, appvars, Places
<1>4. CASE PollTx
  BY <1>4 DEF Typing, PollTx, Step, rxvars, txvars, addrvars, msgvars, appvars, Places
<1>5. CASE BuildTxBlock
  <2>1. usbMsgAt' \in Nat /\ usbMsgLen' \in 0..49 \cup {USB_NO_MSG}
    <3> DEFINE n == Lesser(usbMsgLen, 8)
    <3>1. usbMsgAt' = usbMsgAt + n /\ n \in 0..8 /\ n = Lesser(8, usbMsgLen)
          /\ usbMsgLen' = (IF n < 8 THEN USB_NO_MSG ELSE usbMsgLen - n)
          /\ usbMsgLen \in 0..49 /\ usbMsgAt \in Nat
      BY <1>5, BuildIs DEF Typing
    <3>2. n <= usbMsgLen
      BY <3>1, LesserIs
    <3> HIDE DEF n
    <3> QED BY <3>1, <3>2
  <2>2. /\ UNCHANGED <<rxvars, usbTxLen, usbTxStatus1, addrvars, usbMsgFlags, len, appvars,
                        input_report, bus, host, spent>>
        /\ pc' = "send" /\ usbTxBuf' \in [tok : {0, 1}, pkt : Packets]
    BY <1>5, BuildIs, TurnIs
  <2> QED BY <2>1, <2>2 DEF Typing, rxvars, addrvars, appvars, Places
<1>6. CASE SendTxBlock
  <2>1. usbTxLen' \in 4..12
    <3>1. usbTxBuf.pkt.len \in 0..8
      BY DEF Typing, Packets
    <3> QED BY <1>6, <3>1 DEF SendTxBlock
  <2> QED BY <1>6, <2>1
      DEF Typing, SendTxBlock, Step, rxvars, addrvars, msgvars, appvars, Places
<1>7. CASE LineStatus
  BY <1>7 DEF Typing, LineStatus, Step, rxvars, txvars, addrvars, msgvars, appvars, Places
<1>8. CASE InterruptReady \/ SetInterruptLo \/ SetInterruptHi \/ SetInterruptLen
  <2>1. usbTxStatus1' \in [len: {6, USBPID_NAK}, tok: {0, 1}, lo: {0, 1}, hi: {0, 1}]
    BY <1>8 DEF Typing, InterruptReady, SetInterruptLo, SetInterruptHi, SetInterruptLen
  <2> QED BY <1>8, <2>1
      DEF Typing, InterruptReady, SetInterruptLo, SetInterruptHi, SetInterruptLen, IntrFrame,
          Step, rxvars, txvars, addrvars, msgvars, appvars, Places
<1>9. CASE Sample
  BY <1>9 DEF Typing, Sample, Step, rxvars, txvars, addrvars, msgvars, appvars, Places
<1> QED BY <1>1, <1>2, <1>3, <1>4, <1>5, <1>6, <1>7, <1>8, <1>9 DEF Turn

\* The host's steps leave the main program where it is.
LEMMA HostTyped ==
  ASSUME Typing, Sensible, Next, ~Turn
  PROVE  Typing'
<1> DEFINE Rx == /\ usbRxBuf \in [0..1 -> Packets] /\ usbInputBuf \in {0, 1}
                 /\ usbRxLen \in 0..11 /\ usbCurrentTok \in {0, USBPID_SETUP, USBPID_OUT}
                 /\ usbRxToken \in {0, USBPID_SETUP, USBPID_OUT}
           Hosts == [phase : Phases, req : Nat, rq : Requests \cup {NoRequest}, done : Nat,
                     tog : {0, 1}, addr : {0, 1}, ep1 : [tog : {0, 1}, synced : BOOLEAN]]
           Spents == [acks : Nat, data : Nat, reports : Nat, aborts : Nat, resets : Nat]
<1>1. Rx /\ host \in Hosts /\ spent \in Spents
  BY DEF Typing
<1>2. ASSUME UNCHANGED <<txvars, usbTxStatus1, addrvars, mainvars, msgvars, bus>>, Rx',
             host' \in Hosts, spent' \in Spents
      PROVE  Typing'
  BY <1>2 DEF Typing, txvars, addrvars, msgvars, mainvars, appvars
<1>3. ASSUME NEW addr, MaySend, HandleSetupOrOut(addr, Sending[1], Sending[2])
      PROVE  Rx'
  BY <1>3, SendingIs, HandleIs
<1>4. CASE \E rq \in Requests : Begin(rq)
  <2>1. PICK rq \in Requests : Begin(rq)
    BY <1>4
  <2>2. host' \in Hosts
    <3>1. Begun1(rq) \in [tog : {0, 1}, synced : BOOLEAN]
      BY HostFields DEF Begun1
    <3> QED BY <2>1, <3>1, BeginIs, HostFields DEF Phases, DATA1
  <2> QED BY <1>1, <1>2, <2>1, <2>2, BeginIs DEF rxvars
<1>5. CASE SendAcked
  <2>1. host' \in Hosts
    <3>1. host.phase = "out" => OutLen \in Nat
      BY SendingIs
    <3>2. MaySend
      BY <1>5 DEF SendAcked
    <3> HIDE DEF Rx
    <3>3. CASE host.phase = "setup"
      BY <1>5, <3>3, SendAckedIs, HostFields DEF HostIs, Phases
    <3>4. CASE host.phase = "out"
      BY <1>5, <3>1, <3>4, SendAckedIs, HostFields DEF HostIs, Phases
    <3>5. CASE host.phase = "statusOut"
      BY <1>5, <3>5, SendAckedIs, HostFields DEF HostIs, Phases
    <3> QED BY <3>2, <3>3, <3>4, <3>5 DEF MaySend
  <2>2. Rx'
    BY <1>3, <1>5 DEF SendAcked
  <2> HIDE DEF Rx
  <2> QED BY <1>1, <1>2, <1>5, <2>1, <2>2, SendAckedIs
<1>6. CASE SendAckLost
  <2>1. Rx'
    BY <1>3, <1>6 DEF SendAckLost
  <2>2. spent' \in Spents
    BY <1>6, SendAckLostIs, FaultIs
  <2> HIDE DEF Rx
  <2> QED BY <1>1, <1>2, <1>6, <2>1, <2>2, SendAckLostIs
<1>7. CASE SendRefused \/ OtherDevice
  <2>1. ASSUME SendRefused PROVE Rx'
    BY <1>3, <2>1 DEF SendRefused
  <2>2. ASSUME OtherDevice PROVE Rx'
    <3>1. HandleSetupOrOut(2, USBPID_OUT, Packet(0, 0, 8))
      BY <2>2 DEF OtherDevice
    <3>2. 0 \in Nat /\ 8 \in 0..8
      OBVIOUS
    <3>3. Packet(0, 0, 8) \in Packets
      BY <3>2, PacketsAre, Zenon
    <3> QED BY <3>1, <3>3, HandleIs
  <2>3. Rx'
    BY <1>7, <2>1, <2>2
  <2> HIDE DEF Rx
  <2> QED BY <1>1, <1>2, <1>7, <2>3, ForgottenIs
<1>8. CASE Receive
  <2>0. Rx' /\ spent' = spent /\ usbTxBuf.pkt.len \in Nat
    BY <1>1, <1>8, ReceiveIs DEF rxvars, Typing, Packets
  <2> HIDE DEF Rx
  <2>1. host' \in Hosts
    <3>1. CASE usbTxBuf.tok # host.tog
      BY <1>1, <1>8, <3>1, ReceiveIs
    <3>2. CASE usbTxBuf.tok = host.tog /\ host.phase = "statusIn"
      <4>1. [host.ep1 EXCEPT !.tog = DATA0] \in [tog : {0, 1}, synced : BOOLEAN]
        BY HostFields DEF DATA0
      <4> QED BY <1>8, <3>2, <4>1, ReceiveIs, HostFields DEF HostIs, Phases
    <3>3. CASE usbTxBuf.tok = host.tog /\ host.phase = "in"
      BY <1>8, <2>0, <3>3, ReceiveIs, HostFields DEF HostIs, Phases
    <3> QED BY <1>8, <3>1, <3>2, <3>3, ReceiveIs DEF MayReceive
  <2>2. /\ usbTxLen' \in 4..12 \cup {USBPID_NAK} /\ usbDeviceAddr' \in {0, 1}
        /\ UNCHANGED <<usbTxBuf, usbTxStatus1, usbNewDeviceAddr, mainvars, msgvars, bus>>
    BY <1>8, ReceiveIs DEF Typing
  <2> QED BY <1>1, <2>0, <2>1, <2>2 DEF Typing, Rx, mainvars, appvars, msgvars
<1>9. CASE ReceiveLost
  <2>1. Rx' /\ spent' \in Spents
    BY <1>1, <1>9, ReceiveLostIs, FaultIs DEF rxvars
  <2>2. /\ usbTxLen' \in 4..12 \cup {USBPID_NAK} /\ usbDeviceAddr' \in {0, 1}
        /\ UNCHANGED <<usbTxBuf, usbTxStatus1, usbNewDeviceAddr, host, mainvars, msgvars, bus>>
    BY <1>9, ReceiveLostIs DEF Typing
  <2> QED BY <2>1, <2>2 DEF Typing, mainvars, appvars, msgvars
<1>10. CASE ReceiveReport \/ ReceiveReportLost
  <2>1. Rx' /\ spent' \in Spents
    BY <1>1, <1>10, ReportIs DEF rxvars
  <2>2. usbTxStatus1.tok \in {0, 1}
        /\ usbTxStatus1' \in [len: {6, USBPID_NAK}, tok: {0, 1}, lo: {0, 1}, hi: {0, 1}]
        /\ usbDeviceAddr' \in {0, 1}
    BY <1>10, ReportIs DEF Typing
  <2> HIDE DEF Rx
  <2>3. host' \in Hosts
    BY <1>10, <2>2, ReportIs, HostFields DEF HostIs
  <2>4. UNCHANGED <<txvars, usbNewDeviceAddr, mainvars, msgvars, bus>>
    BY <1>10, ReportIs
  <2> QED BY <1>1, <2>1, <2>2, <2>3, <2>4 DEF Typing, Rx, txvars, mainvars, appvars, msgvars
<1>11. CASE Abort
  <2>1. Rx' /\ spent' \in Spents
    BY <1>1, <1>11, AbortIs, FaultIs DEF rxvars
  <2> HIDE DEF Rx
  <2>2. host' \in Hosts
    BY <1>11, AbortIs, HostFields DEF HostIs, Phases
  <2> QED BY <1>2, <1>11, <2>1, <2>2, AbortIs
<1>12. CASE BusReset
  <2>1. Rx' /\ spent' \in Spents
    BY <1>1, <1>12, BusResetIs, FaultIs DEF rxvars
  <2> HIDE DEF Rx
  <2>2. host' \in Hosts
    <3>1. [tog |-> DATA0, synced |-> FALSE] \in [tog : {0, 1}, synced : BOOLEAN]
      BY DEF DATA0
    <3>2. "idle" \in Phases /\ NoRequest \in Requests \cup {NoRequest} /\ 0 \in {0, 1}
      BY DEF Phases
    <3>3. host' = [phase |-> "idle", req |-> host.req, rq |-> NoRequest, done |-> host.done,
                   tog |-> host.tog, addr |-> 0, ep1 |-> [tog |-> DATA0, synced |-> FALSE]]
      BY <1>12, BusResetIs
    <3> QED BY <3>1, <3>2, <3>3, HostFields
  <2>3. UNCHANGED <<txvars, usbTxStatus1, addrvars, mainvars, msgvars>> /\ bus' = "reset"
    BY <1>12, BusResetIs
  <2> QED BY <2>1, <2>2, <2>3 DEF Typing, Rx, txvars, addrvars, mainvars, appvars, msgvars
<1>13. CASE BusResetEnds
  BY <1>1, <1>13 DEF BusResetEnds, Typing, rxvars, txvars, addrvars, mainvars, appvars, msgvars
<1> QED BY <1>4, <1>5, <1>6, <1>7, <1>8, <1>9, <1>10, <1>11, <1>12, <1>13 DEF Next

------------------------------------------------------------------------------
\* What waits in the receive buffer is served by ProcessRx, and by nothing else.
LEMMA TurnWaits ==
  ASSUME Received, Turn
  PROVE  /\ pc = "process" <=> ProcessRx
         /\ pc = "process" => ~SetupWaits' /\ ~OutWaits'
         /\ pc # "process" => (SetupWaits' <=> SetupWaits) /\ (OutWaits' <=> OutWaits)
<1>1. pc = "process" <=> ProcessRx
  BY DEF Turn, PollRx, ProcessRx, FreeRx, PollTx, BuildTxBlock, SendTxBlock, LineStatus,
         InterruptReady, SetInterruptLo, SetInterruptHi, SetInterruptLen, Sample, Step
<1>2. pc = "process" => pc' = "free"
  BY <1>1 DEF ProcessRx, Step
<1>3. pc # "process" => pc' # "free"
  BY DEF Turn, PollRx, ProcessRx, FreeRx, PollTx, BuildTxBlock, SendTxBlock, LineStatus,
         InterruptReady, SetInterruptLo, SetInterruptHi, SetInterruptLen, Sample, Step
<1>4. usbRxToken' = usbRxToken /\ (pc # "free" => usbRxLen' = usbRxLen)
      /\ (pc = "free" => usbRxLen' = 0)
  <2>1. usbRxToken' = usbRxToken /\ (pc # "free" => usbRxLen' = usbRxLen)
    BY TurnIs
  <2>2. pc = "free" => usbRxLen' = 0
    BY DEF Turn, PollRx, ProcessRx, FreeRx, PollTx, BuildTxBlock, SendTxBlock, LineStatus,
           InterruptReady, SetInterruptLo, SetInterruptHi, SetInterruptLen, Sample, Step
  <2> QED BY <2>1, <2>2
<1>5. pc = "process" => ~SetupWaits' /\ ~OutWaits'
  BY <1>2 DEF SetupWaits, OutWaits
<1>6. pc # "process" => (SetupWaits' <=> SetupWaits) /\ (OutWaits' <=> OutWaits)
  BY <1>3, <1>4 DEF SetupWaits, OutWaits
<1> QED BY <1>1, <1>5, <1>6

\* A packet is only received into a buffer that is free.
LEMMA StoreIs ==
  ASSUME Received, UNCHANGED pc,
         NEW token \in {USBPID_SETUP, USBPID_OUT}, NEW pkt, pkt.len \in 1..8, Store(token, pkt)
  PROVE  /\ ~SetupWaits /\ ~OutWaits /\ pc \notin {"process", "free"}
         /\ usbRxLen' # 0 /\ usbRxLen' = pkt.len + 3 /\ usbRxToken' = token /\ Data' = pkt
         /\ token = USBPID_SETUP => SetupWaits' /\ ~OutWaits'
         /\ token = USBPID_OUT => OutWaits' /\ ~SetupWaits'
<1>1. /\ usbRxLen = 0 /\ usbRxLen' = pkt.len + 3 /\ usbRxToken' = token /\ Data' = pkt
      /\ usbRxLen' # 0
  BY DEF Store
<1>2. pc \notin {"process", "free"} /\ pc' = pc
  BY <1>1 DEF Received
<1> QED BY <1>1, <1>2 DEF SetupWaits, OutWaits, USBPID_SETUP, USBPID_OUT

\* What waits goes on waiting when it is not served.
LEMMA KeptWaits ==
  ASSUME UNCHANGED <<usbRxLen, usbRxToken, pc>>
  PROVE  (SetupWaits' <=> SetupWaits) /\ (OutWaits' <=> OutWaits)
BY DEF SetupWaits, OutWaits

\* Nothing waits in a buffer that is free.
LEMMA FreeWaits ==
  ASSUME usbRxLen = 0
  PROVE  ~SetupWaits /\ ~OutWaits
BY DEF SetupWaits, OutWaits

\* What becomes of the receive buffer in a step of the host.
LEMMA HostSteps ==
  ASSUME Typing, Sensible, Next, ~Turn
  PROVE  /\ UNCHANGED <<mainvars, msgvars, usbTxBuf, usbNewDeviceAddr>>
         /\ \/ Keep
            \/ /\ SendAcked \/ SendAckLost
               /\ \/ /\ host.phase = "setup"
                     /\ Store(USBPID_SETUP, [req |-> host.req, at |-> 0, len |-> 8,
                                             rq |-> host.rq])
                  \/ /\ host.phase = "out" /\ OutLen \in 1..8
                     /\ Store(USBPID_OUT, [req |-> host.req, at |-> host.done, len |-> OutLen,
                                           rq |-> NoRequest])
         /\ host.req <= host'.req
<1>1. host.req \in Nat
  BY DEF Typing
<1>2. CASE \E rq \in Requests : Begin(rq)
  <2>1. PICK rq \in Requests : Begin(rq)
    BY <1>2
  <2>2. /\ UNCHANGED <<mainvars, msgvars, txvars, addrvars, rxvars, Data>>
        /\ host'.req = host.req + 1
    BY <2>1, BeginIs
  <2> QED BY <1>1, <2>2 DEF Keep, rxvars, txvars, addrvars
<1>3. CASE SendAcked
  <2>1. /\ UNCHANGED <<mainvars, msgvars, txvars, addrvars>> /\ MaySend
    BY <1>3, SendAckedIs
  <2>2. CASE host.phase = "setup"
    BY <1>1, <1>3, <2>1, <2>2, SendAckedIs DEF txvars, addrvars, HostIs
  <2>3. CASE host.phase = "out"
    BY <1>1, <1>3, <2>1, <2>3, SendAckedIs, SendingIs DEF txvars, addrvars, HostIs
  <2>4. CASE host.phase = "statusOut"
    BY <1>1, <1>3, <2>1, <2>4, SendAckedIs DEF txvars, addrvars, HostIs
  <2> QED BY <2>1, <2>2, <2>3, <2>4 DEF MaySend
<1>4. CASE SendAckLost
  <2>1. /\ UNCHANGED <<mainvars, msgvars, txvars, addrvars, host>> /\ MaySend
    BY <1>4, SendAckLostIs
  <2>2. CASE host.phase = "setup"
    BY <1>1, <1>4, <2>1, <2>2, SendAckLostIs DEF txvars, addrvars
  <2>3. CASE host.phase = "out"
    BY <1>1, <1>4, <2>1, <2>3, SendAckLostIs, SendingIs DEF txvars, addrvars
  <2>4. CASE host.phase = "statusOut"
    BY <1>1, <1>4, <2>1, <2>4, SendAckLostIs DEF txvars, addrvars
  <2> QED BY <2>1, <2>2, <2>3, <2>4 DEF MaySend
<1>5. CASE SendRefused \/ OtherDevice
  BY <1>1, <1>5, ForgottenIs DEF txvars, addrvars
<1>6. CASE Receive
  <2>1. /\ UNCHANGED <<rxvars, usbTxBuf, usbNewDeviceAddr, mainvars, msgvars, Data>>
        /\ MayReceive
    BY <1>6, ReceiveIs
  <2>2. host'.req = host.req
    BY <1>6, <2>1, ReceiveIs DEF MayReceive, HostIs
  <2> QED BY <1>1, <2>1, <2>2 DEF Keep, rxvars
<1>7. CASE ReceiveLost
  BY <1>1, <1>7, ReceiveLostIs DEF Keep, rxvars
<1>8. CASE ReceiveReport \/ ReceiveReportLost
  <2>1. /\ UNCHANGED <<rxvars, txvars, usbNewDeviceAddr, mainvars, msgvars, Data>>
        /\ host'.req = host.req
    BY <1>8, ReportIs DEF HostIs
  <2> QED BY <1>1, <2>1 DEF Keep, rxvars, txvars
<1>9. CASE Abort
  <2>1. /\ UNCHANGED <<rxvars, txvars, addrvars, mainvars, msgvars, Data>>
        /\ host'.req = host.req
    BY <1>9, AbortIs DEF HostIs
  <2> QED BY <1>1, <2>1 DEF Keep, rxvars, txvars, addrvars
<1>10. CASE BusReset
  <2>1. /\ UNCHANGED <<rxvars, txvars, addrvars, mainvars, msgvars, Data>>
        /\ host'.req = host.req
    BY <1>10, BusResetIs
  <2> QED BY <1>1, <2>1 DEF Keep, rxvars, txvars, addrvars
<1>11. CASE BusResetEnds
  <2>1. /\ UNCHANGED <<rxvars, txvars, addrvars, mainvars, msgvars, Data, host>>
    BY <1>11, BusResetEndsIs
  <2> QED BY <1>1, <2>1 DEF Keep, rxvars, txvars, addrvars
<1> QED BY <1>2, <1>3, <1>4, <1>5, <1>6, <1>7, <1>8, <1>9, <1>10, <1>11 DEF Next

\* Every part of the invariant is kept by a step.  Received: PollRx looks only at
\* a buffer that was filled, and only FreeRx frees it.
LEMMA ReceivedStep ==
  ASSUME Typing, Sensible, Received, Next
  PROVE  Received'
<1>0. usbRxLen \in 0..11 /\ host.req \in Nat /\ Data \in Packets
  BY DataIs DEF Typing
<1>1. CASE Turn
  <2>1. UNCHANGED <<host, usbRxToken, Data>>
    BY <1>1, TurnIs
  <2>2. CASE PollRx
    <3>1. usbRxLen' = usbRxLen /\ len' = usbRxLen - 3
          /\ pc' = IF usbRxLen >= 3 THEN "process" ELSE "tx"
      BY <2>2 DEF PollRx, rxvars, Step
    <3> QED BY <1>0, <2>1, <3>1 DEF Received
  <2>3. CASE ProcessRx
    <3>1. usbRxLen' = usbRxLen /\ pc' = "free" /\ pc = "process"
      BY <2>3 DEF ProcessRx, rxvars, Step
    <3> QED BY <2>1, <3>1 DEF Received
  <2>4. CASE FreeRx
    <3>1. usbRxLen' = 0 /\ pc' = "tx"
      BY <2>4 DEF FreeRx, Step
    <3> QED BY <2>1, <3>1 DEF Received
  <2>5. CASE ~PollRx /\ ~ProcessRx /\ ~FreeRx
    <3>1. usbRxLen' = usbRxLen /\ pc' \notin {"process", "free"}
      BY <1>1, <2>5
      DEF Turn, PollTx, BuildTxBlock, SendTxBlock, LineStatus, InterruptReady,
          SetInterruptLo, SetInterruptHi, SetInterruptLen, Sample, Step, IntrFrame, rxvars
    <3> QED BY <2>1, <3>1 DEF Received
  <2> QED BY <2>2, <2>3, <2>4, <2>5
<1>2. CASE ~Turn
  <2>1. UNCHANGED <<pc, len>> /\ host.req <= host'.req /\ host'.req \in Nat
    <3>1. host'.req \in Nat
      BY <1>2, HostTyped DEF Typing
    <3> QED BY <1>2, <3>1, HostSteps DEF mainvars
  <2>2. CASE Keep
    BY <1>0, <2>1, <2>2 DEF Keep, Received, Packets
  <2>3. CASE host.phase = "setup"
             /\ Store(USBPID_SETUP, [req |-> host.req, at |-> 0, len |-> 8, rq |-> host.rq])
    <3>1. host.rq \in Requests
      BY <2>3 DEF Sensible
    <3>2. /\ usbRxLen' = 11 /\ usbRxToken' = USBPID_SETUP /\ pc \notin {"process", "free"}
          /\ Data' = [req |-> host.req, at |-> 0, len |-> 8, rq |-> host.rq]
      BY <2>1, <2>3 DEF Store, Received
    <3> QED BY <2>1, <3>1, <3>2 DEF Received, USBPID_SETUP
  <2>4. CASE host.phase = "out" /\ OutLen \in 1..8 /\
             Store(USBPID_OUT, [req |-> host.req, at |-> host.done, len |-> OutLen,
                                rq |-> NoRequest])
    <3>2. /\ usbRxLen' = OutLen + 3 /\ usbRxToken' = USBPID_OUT /\ pc \notin {"process", "free"}
          /\ Data' = [req |-> host.req, at |-> host.done, len |-> OutLen, rq |-> NoRequest]
      BY <2>1, <2>4 DEF Store, Received
    <3> QED BY <2>1, <2>4, <3>2 DEF Received, USBPID_OUT, USBPID_SETUP
  <2> QED BY <1>2, <2>2, <2>3, <2>4, HostSteps
<1> QED BY <1>1, <1>2

\* Sent: a packet is built from idle, and SETUP aborts what was built.
LEMMA SentStep ==
  ASSUME Typing, Sensible, Received, Sent, Next
  PROVE  Sent'
<1>0. host.req \in Nat /\ served \in Nat /\ Data.req \in Nat
  BY DataIs DEF Typing
<1>1. CASE Turn
  <2>0. host' = host
    BY <1>1, TurnIs
  <2>1. CASE ProcessRx
    <3>1. CASE usbRxToken = USBPID_SETUP
      <4>1. /\ pc' = "free" /\ usbTxLen' = USBPID_NAK /\ served' = Data.req
            /\ Data.req <= host.req
        BY <2>1, <3>1, ProcessSetupIs DEF Received, SetupWaits
      <4> QED BY <2>0, <4>1, HandshakeIs DEF Sent
    <3>2. CASE usbRxToken # USBPID_SETUP
      <4>1. UNCHANGED <<usbTxLen, usbTxBuf, served>> /\ pc' = "free"
        BY <2>1, <3>2, ProcessOutIs DEF txvars
      <4> QED BY <2>0, <4>1 DEF Sent, Handshake
    <3> QED BY <3>1, <3>2
  <2>2. CASE PollTx
    <3>1. /\ UNCHANGED <<usbTxLen, usbTxBuf, served, usbMsgLen>>
          /\ pc' = (IF Handshake(usbTxLen) /\ usbMsgLen # USB_NO_MSG THEN "build" ELSE "line")
      BY <2>2 DEF PollTx, Step, txvars, msgvars, appvars
    <3> QED BY <2>0, <3>1 DEF Sent, Handshake
  <2>3. CASE BuildTxBlock
    <3>1. UNCHANGED <<usbTxLen, served>> /\ pc' = "send" /\ pc = "build"
          /\ usbTxBuf'.pkt.req = served
      BY <2>3, BuildIs DEF appvars
    <3> QED BY <2>0, <3>1 DEF Sent, Handshake
  <2>4. CASE SendTxBlock
    <3>1. UNCHANGED <<usbTxBuf, served>> /\ pc' = "line" /\ pc = "send"
      BY <2>4 DEF SendTxBlock, Step, appvars
    <3> QED BY <2>0, <3>1 DEF Sent
  <2>5. CASE ~ProcessRx /\ ~PollTx /\ ~BuildTxBlock /\ ~SendTxBlock
    <3>1. UNCHANGED <<usbTxLen, usbTxBuf, served>> /\ pc' \notin {"build", "send"}
      BY <1>1, <2>5
      DEF Turn, PollRx, FreeRx, LineStatus, InterruptReady, SetInterruptLo, SetInterruptHi,
          SetInterruptLen, Sample, Step, IntrFrame, txvars, appvars
    <3> QED BY <2>0, <3>1 DEF Sent, Handshake
  <2> QED BY <2>1, <2>2, <2>3, <2>4, <2>5
<1>2. CASE ~Turn
  <2>1. UNCHANGED <<pc, served, usbMsgLen, usbTxBuf>> /\ host.req <= host'.req
        /\ host'.req \in Nat
    <3>1. host'.req \in Nat
      BY <1>2, HostTyped DEF Typing
    <3> QED BY <1>2, <3>1, HostSteps DEF mainvars, msgvars, appvars
  <2>2. usbTxLen' = usbTxLen \/ usbTxLen' = USBPID_NAK
    <3>1. CASE Receive \/ ReceiveLost
      BY <3>1, ReceiveIs, ReceiveLostIs
    <3>2. CASE ~Receive /\ ~ReceiveLost
      BY <1>2, <3>2
      DEF Next, Begin, SendAcked, SendAckLost, SendRefused, ReceiveReport, ReceiveReportLost,
          OtherDevice, Abort, BusReset, BusResetEnds, txvars
    <3> QED BY <3>1, <3>2
  <2>3. CASE usbTxLen' = usbTxLen
    BY <1>0, <2>1, <2>3 DEF Sent, Handshake
  <2>4. CASE usbTxLen' = USBPID_NAK
    BY <1>0, <2>1, <2>4, HandshakeIs DEF Sent
  <2> QED BY <2>2, <2>3, <2>4
<1> QED BY <1>1, <1>2

\* ResetSeen: the turn that notices a reset empties the receive buffer before it
\* clears the addresses, and nothing comes in meanwhile.
LEMMA ResetSeenStep ==
  ASSUME Typing, Sensible, Received, ResetSeen, Next
  PROVE  ResetSeen'
<1>0. usbRxLen \in 0..11 /\ Data.len \in 0..8 /\ (usbRxLen # 0 => usbRxLen >= 3)
  BY DataIs DEF Typing, Received
<1>1. CASE Turn
  <2>1. host' = host
    BY <1>1, TurnIs
  <2>2. CASE PollRx
    <3>1. /\ UNCHANGED <<usbRxLen, usbNewDeviceAddr, usbDeviceAddr>>
          /\ pc' = (IF usbRxLen >= 3 THEN "process" ELSE "tx")
          /\ bus' = IF bus = "reset" THEN "noticed" ELSE bus
      BY <2>2 DEF PollRx, Step, rxvars, addrvars
    <3> QED BY <1>0, <2>1, <3>1 DEF ResetSeen
  <2>3. CASE ProcessRx
    <3>1. UNCHANGED <<usbRxLen, bus>> /\ pc' = "free" /\ pc = "process"
      BY <2>3 DEF ProcessRx, Step, rxvars
    <3> QED BY <2>1, <3>1 DEF ResetSeen, Received
  <2>4. CASE FreeRx
    <3>1. usbRxLen' = 0 /\ UNCHANGED <<bus, usbNewDeviceAddr, usbDeviceAddr>> /\ pc' = "tx"
      BY <2>4 DEF FreeRx, Step, addrvars
    <3> QED BY <2>1, <3>1 DEF ResetSeen
  <2>5. CASE PollTx \/ BuildTxBlock \/ SendTxBlock
    <3>1. /\ UNCHANGED <<usbRxLen, bus, usbNewDeviceAddr, usbDeviceAddr>>
          /\ pc \in {"tx", "build", "send"} /\ pc' \in {"build", "send", "line"}
      BY <2>5 DEF PollTx, BuildTxBlock, SendTxBlock, Step, rxvars, addrvars
    <3> QED BY <2>1, <3>1 DEF ResetSeen
  <2>6. CASE LineStatus
    <3>1. /\ usbRxLen' = usbRxLen /\ pc = "line"
          /\ IF bus = "up" THEN bus' = bus
             ELSE /\ usbNewDeviceAddr' = 0 /\ usbDeviceAddr' = 0
                  /\ bus' = IF bus = "noticed" THEN "over" ELSE bus
      BY <2>6 DEF LineStatus, Step, rxvars
    <3> QED BY <2>1, <3>1 DEF ResetSeen
  <2>7. CASE InterruptReady \/ SetInterruptLo \/ SetInterruptHi \/ SetInterruptLen \/ Sample
    <3>1. /\ UNCHANGED <<usbRxLen, bus, usbNewDeviceAddr, usbDeviceAddr>>
          /\ pc \in {"ready", "lo", "hi", "len", "sample"}
      BY <2>7
      DEF InterruptReady, SetInterruptLo, SetInterruptHi, SetInterruptLen, Sample, Step,
          IntrFrame, rxvars, addrvars
    <3> QED BY <2>1, <3>1 DEF ResetSeen
  <2> QED BY <1>1, <2>2, <2>3, <2>4, <2>5, <2>6, <2>7 DEF Turn
<1>2. CASE BusReset
  <2>1. /\ bus' = "reset" /\ host'.phase = "idle" /\ host'.rq = NoRequest /\ host'.addr = 0
        /\ ~host'.ep1.synced
    BY <1>2, BusResetIs
  <2> QED BY <2>1 DEF ResetSeen
<1>3. CASE ~Turn /\ ~BusReset
  <2>1. bus' = "up"
    BY <1>3
    DEF Next, Begin, SendAcked, SendAckLost, SendRefused, Receive, ReceiveLost, ReceiveReport,
        ReceiveReportLost, OtherDevice, Abort, BusResetEnds, Host
  <2> QED BY <2>1 DEF ResetSeen
<1> QED BY <1>1, <1>2, <1>3

\* Sensible: with Within, the host does not wait for data past the end.
LEMMA SensibleStep ==
  ASSUME Typing, Sensible, Within, Next
  PROVE  Sensible'
<1>1. CASE UNCHANGED host
  BY <1>1 DEF Sensible
<1>2. CASE \E rq \in Requests : Begin(rq)
  <2>1. PICK rq \in Requests : Begin(rq)
    BY <1>2
  <2>2. host'.phase = "setup" /\ host'.rq = rq /\ host'.done = 0 /\ host'.tog = DATA1
    BY <2>1, BeginIs
  <2> QED BY <2>2 DEF Sensible
<1>3. CASE SendAcked
  <2>1. MaySend
    BY <1>3 DEF SendAcked
  <2>2. CASE host.phase = "setup"
    <3>1. host.rq \in Requests /\ host.tog = DATA1 /\ host.done = 0
      BY <2>2 DEF Sensible
    <3>2. host.rq.name \in Reads \cup Writes => 0 < host.rq.wLength
      BY <3>1, ReplyIs
    <3>3. /\ host'.phase = (CASE host.rq.name \in Reads  -> "in"
                             [] host.rq.name \in Writes -> "out"
                             [] OTHER -> "statusIn")
          /\ host'.rq = host.rq /\ host'.done = host.done /\ host'.tog = host.tog
      BY <1>3, <2>2, SendAckedIs DEF HostIs
    <3> QED BY <3>1, <3>2, <3>3 DEF Sensible
  <2>3. CASE host.phase = "out"
    <3>1. host.rq \in Requests /\ host.rq.name \in Writes /\ host.tog = DATA1
      BY <2>3 DEF Sensible
    <3>2. /\ host'.phase = (IF host.done + OutLen = host.rq.wLength THEN "statusIn" ELSE "out")
          /\ host'.rq = host.rq /\ host'.done = host.done + OutLen /\ host'.tog = host.tog
      BY <1>3, <2>3, SendAckedIs DEF HostIs
    <3>3. host.done + OutLen # host.rq.wLength => host.done + OutLen < host.rq.wLength
      <4> DEFINE d == host.done
                 w == host.rq.wLength
      <4>1. OutLen \in 1..8 /\ d + OutLen <= w /\ d \in Nat /\ w \in 0..256
        BY <2>3, <3>1, SendingIs, HostFields, ReplyIs
      <4> HIDE DEF d, w
      <4>2. d + OutLen # w => d + OutLen < w
        BY <4>1
      <4> QED BY <4>2 DEF d, w
    <3> QED BY <3>1, <3>2, <3>3, NamesAre DEF Sensible
  <2>4. CASE host.phase = "statusOut"
    <3>1. host'.phase = "idle"
      BY <1>3, <2>4, SendAckedIs DEF HostIs
    <3> QED BY <3>1 DEF Sensible
  <2> QED BY <2>1, <2>2, <2>3, <2>4 DEF MaySend
<1>4. CASE Receive
  <2>1. /\ ~SetupWaits /\ Pending /\ MayReceive
    BY <1>4, ReceiveIs, FreeWaits DEF Pending
  <2>2. CASE usbTxBuf.tok # host.tog
    BY <1>1, <1>4, <2>2, ReceiveIs
  <2>3. CASE usbTxBuf.tok = host.tog /\ host.phase = "statusIn"
    <3>1. host'.phase = "idle"
      BY <1>4, <2>3, ReceiveIs DEF HostIs
    <3> QED BY <3>1 DEF Sensible
  <2>4. CASE usbTxBuf.tok = host.tog /\ host.phase = "in"
    <3> DEFINE n == usbTxBuf.pkt.len
               d == host.done
               w == host.rq.wLength
    <3>1. host.rq \in Requests /\ host.rq.name \in Reads
      BY <2>4 DEF Sensible
    <3>2. /\ host'.phase = (IF n < 8 \/ d + n = w THEN "statusOut" ELSE "in")
          /\ host'.rq = host.rq /\ host'.done = d + n
      BY <1>4, <2>4, ReceiveIs DEF HostIs
    <3>3. d <= usbTxBuf.pkt.at /\ usbTxBuf.pkt.at + n <= ReplyLen(host.rq)
      BY <2>1, <2>4 DEF Within
    <3>4. usbTxBuf.pkt.at \in Nat /\ n \in 0..8 /\ d \in Nat /\ w \in 0..256
          /\ ReplyLen(host.rq) \in 0..49 /\ ReplyLen(host.rq) <= w
      <4>1. usbTxBuf.pkt.at \in Nat /\ n \in 0..8
        BY DEF Typing, Packets
      <4> QED BY <3>1, <4>1, HostFields, ReplyIs, ReplyLenIs
    <3> HIDE DEF n, d, w
    <3>5. d + n <= w
      BY <3>3, <3>4
    <3>6. d + n # w => d + n < w
      BY <3>4, <3>5
    <3>7. host'.rq.wLength = w
      BY <3>2 DEF w
    <3> QED BY <3>1, <3>2, <3>6, <3>7 DEF Sensible
  <2> QED BY <2>1, <2>2, <2>3, <2>4 DEF MayReceive
<1>5. CASE ReceiveReport \/ ReceiveReportLost
  <2>1. host'.phase = host.phase /\ host'.rq = host.rq /\ host'.done = host.done
        /\ host'.tog = host.tog
    BY <1>5, ReportIs DEF HostIs
  <2> QED BY <2>1 DEF Sensible
<1>6. CASE Abort \/ BusReset
  <2>1. host'.phase = "idle"
    BY <1>6, AbortIs, BusResetIs DEF HostIs
  <2> QED BY <2>1 DEF Sensible
<1> QED BY <1>1, <1>2, <1>3, <1>4, <1>5, <1>6, TurnIs, SendAckLostIs, ForgottenIs, ReceiveLostIs,
           BusResetEndsIs DEF Next

\* Served: nothing is received for the host's next packet before its SETUP packet
\* is served, because there is one receive buffer to wait in.
LEMMA ServedStep ==
  ASSUME Typing, Sensible, Received, Served, Next
  PROVE  Served'
<1> DEFINE Flags(rq) == IF Reply(rq) = USB_NO_MSG THEN "user_rw" ELSE "none"
<1>0. /\ host.req \in Nat /\ Data.req \in Nat /\ (SetupWaits => Data.req <= host.req)
  BY DataIs, HostFields DEF Received, SetupWaits
<1>1. CASE Turn
  <2>1. host' = host /\ Data' = Data
    BY <1>1, TurnIs
  <2>2. CASE ProcessRx
    <3>1. ~SetupWaits' /\ ~OutWaits'
      BY <1>1, <2>2, TurnWaits
    <3>2. CASE usbRxToken = USBPID_SETUP
      <4>1. SetupWaits /\ served' = Data.req /\ usbMsgFlags' = Flags(Data.rq)
        BY <2>2, <3>2, ProcessSetupIs
      <4> HIDE DEF Flags
      <4>2. host.phase \in {"in", "out", "statusIn", "statusOut"} => Data.req = host.req
        BY <4>1 DEF Served
      <4>3. host.phase \in {"in", "out", "statusIn"} => Data.rq = host.rq
        BY <4>1, <4>2 DEF Served
      <4> QED BY <2>1, <3>1, <4>1, <4>2, <4>3 DEF Served, Flags
    <3>3. CASE usbRxToken # USBPID_SETUP
      <4>1. ~SetupWaits /\ served' = served /\ usbMsgFlags' = usbMsgFlags
        BY <2>2, <3>3, ProcessOutIs DEF SetupWaits
      <4> QED BY <2>1, <3>1, <4>1 DEF Served
    <3> QED BY <3>2, <3>3
  <2>3. CASE ~ProcessRx
    <3>1. (SetupWaits' <=> SetupWaits) /\ (OutWaits' <=> OutWaits)
      BY <1>1, <2>3, TurnWaits
    <3>2. served' = served /\ usbMsgFlags' = usbMsgFlags
      BY <1>1, <2>3
      DEF Turn, PollRx, FreeRx, PollTx, BuildTxBlock, SendTxBlock, LineStatus, InterruptReady,
          SetInterruptLo, SetInterruptHi, SetInterruptLen, Sample, IntrFrame, msgvars, appvars
    <3> QED BY <2>1, <3>1, <3>2 DEF Served
  <2> QED BY <2>2, <2>3
<1>2. CASE ~Turn
  <2>1. UNCHANGED <<pc, served, usbMsgFlags>>
    BY <1>2, HostSteps DEF mainvars, appvars, msgvars
  <2>2. CASE SendAcked \/ SendAckLost
    <3>0. MaySend /\ usbRxLen = 0 /\ ~SetupWaits /\ ~OutWaits
      BY <2>2, SendAckedIs, SendAckLostIs, FreeWaits
    <3>1. CASE host.phase = "setup"
      <4> DEFINE pkt == [req |-> host.req, at |-> 0, len |-> 8, rq |-> host.rq]
      <4>1. Store(USBPID_SETUP, pkt) /\ pkt.len \in 1..8
        BY <2>2, <3>1, SendAckedIs, SendAckLostIs
      <4>2. SetupWaits' /\ ~OutWaits' /\ Data' = pkt
        BY <2>1, <4>1, StoreIs
      <4>3. host'.req = host.req /\ host'.rq = host.rq /\ host'.done = host.done
            /\ host'.tog = host.tog
        BY <2>2, <3>1, SendAckedIs, SendAckLostIs DEF HostIs
      <4>4. host.done = 0 /\ host.tog = DATA1
        BY <3>1 DEF Sensible
      <4> QED BY <4>2, <4>3, <4>4 DEF Served
    <3>2. CASE host.phase = "out"
      <4> DEFINE pkt == [req |-> host.req, at |-> host.done, len |-> OutLen, rq |-> NoRequest]
      <4>1. Store(USBPID_OUT, pkt) /\ pkt.len \in 1..8
        BY <2>2, <3>2, SendAckedIs, SendAckLostIs, SendingIs
      <4>2. OutWaits' /\ ~SetupWaits' /\ Data' = pkt
        BY <2>1, <4>1, StoreIs
      <4>3. host'.req = host.req /\ host'.rq = host.rq
        BY <2>2, <3>2, SendAckedIs, SendAckLostIs DEF HostIs
      <4>4. served = host.req /\ usbMsgFlags = Flags(host.rq)
        BY <3>0, <3>2 DEF Served
      <4>5. Data'.req = host.req
        BY <4>2
      <4> HIDE DEF Flags
      <4> QED BY <2>1, <4>2, <4>3, <4>4, <4>5 DEF Served, Flags
    <3>3. CASE host.phase = "statusOut"
      <4>1. Keep
        BY <2>2, <3>3, SendAckedIs, SendAckLostIs
      <4>2. ~SetupWaits' /\ ~OutWaits'
        BY <2>1, <3>0, <4>1, KeptWaits DEF Keep
      <4>3. host'.phase = "idle" \/ host' = host
        BY <2>2, <3>3, SendAckedIs, SendAckLostIs DEF HostIs
      <4> QED BY <2>1, <3>0, <3>3, <4>2, <4>3 DEF Served
    <3> QED BY <3>0, <3>1, <3>2, <3>3 DEF MaySend
  <2>3. CASE ~SendAcked /\ ~SendAckLost
    <3>1. Keep
      BY <1>2, <2>3, HostSteps
    <3>2. (SetupWaits' <=> SetupWaits) /\ (OutWaits' <=> OutWaits) /\ Data' = Data
      BY <2>1, <3>1, KeptWaits DEF Keep
    <3>3. CASE UNCHANGED host
      BY <2>1, <3>2, <3>3 DEF Served
    <3>4. CASE \E rq \in Requests : Begin(rq)
      <4>1. host'.phase = "setup" /\ host'.req = host.req + 1
        BY <3>4, BeginIs
      <4>2. SetupWaits => Data.req # host'.req
        BY <1>0, <4>1
      <4> QED BY <2>1, <3>2, <4>1, <4>2 DEF Served
    <3>5. CASE Receive
      <4>1. ~SetupWaits /\ MayReceive
        BY <3>5, ReceiveIs, FreeWaits
      <4>2. host' = host \/ /\ host'.req = host.req /\ host'.rq = host.rq
                            /\ \/ host'.phase = "idle"
                               \/ host.phase = "in" /\ host'.phase \in {"in", "statusOut"}
        BY <3>5, <4>1, ReceiveIs DEF MayReceive, HostIs
      <4> QED BY <2>1, <3>2, <4>1, <4>2 DEF Served
    <3>6. CASE ReceiveReport \/ ReceiveReportLost
      <4>1. /\ host'.phase = host.phase /\ host'.req = host.req /\ host'.rq = host.rq
            /\ host'.done = host.done /\ host'.tog = host.tog
        BY <3>6, ReportIs DEF HostIs
      <4> QED BY <2>1, <3>2, <4>1 DEF Served
    <3>7. CASE Abort \/ BusReset
      <4>1. host'.phase = "idle"
        BY <3>7, AbortIs, BusResetIs DEF HostIs
      <4> QED BY <2>1, <3>2, <4>1 DEF Served
    <3> QED BY <1>2, <2>3, <3>3, <3>4, <3>5, <3>6, <3>7, ForgottenIs, ReceiveLostIs,
               BusResetEndsIs DEF Next
  <2> QED BY <2>2, <2>3
<1> QED BY <1>1, <1>2

\* A host that gets a reply has made a request with a reply, and its data is
\* not handed to usbFunctionWrite; one without has at most an empty packet.
LEMMA ServedIs ==
  ASSUME Typing, Sensible, Served
  PROVE  /\ host.phase = "in" => ReplyLen(host.rq) \in 0..49
         /\ host.phase = "in" /\ ~SetupWaits => usbMsgFlags = "none"
         /\ host.phase \in {"out", "statusIn"} => ReplyLen(host.rq) \in {0, USB_NO_MSG}
         /\ host.phase \in {"in", "out", "statusIn"} /\ SetupWaits =>
              Data.rq = host.rq /\ host.done = 0 /\ host.tog = DATA1
<1>1. host.phase \in {"in", "out", "statusIn"} /\ SetupWaits =>
        Data.rq = host.rq /\ host.done = 0 /\ host.tog = DATA1
  BY DEF Served
<1>2. CASE host.phase = "in"
  <2>1. host.rq \in Requests /\ host.rq.name \in Reads
    BY <1>2 DEF Sensible
  <2>2. Reply(host.rq) # USB_NO_MSG
    BY <2>1, ReplyIs DEF USB_NO_MSG
  <2>3. ~SetupWaits => usbMsgFlags = "none"
    BY <1>2, <2>2 DEF Served
  <2> QED BY <1>1, <1>2, <2>1, <2>3, ReplyLenIs
<1>3. CASE host.phase \in {"out", "statusIn"}
  <2>1. host.rq \in Requests /\ host.rq.name \notin Reads
    BY <1>3, NamesAre DEF Sensible
  <2> QED BY <1>1, <1>3, <2>1, ReplyLenIs
<1> QED BY <1>1, <1>2, <1>3

\* Within: a packet is built from what is left of the message.
LEMMA WithinStep ==
  ASSUME Typing, Sensible, Received, Sent, Served, Within, Next
  PROVE  Within'
<1> SUFFICES ASSUME host'.phase = "in", ~SetupWaits'
             PROVE  /\ usbMsgLen' # USB_NO_MSG =>
                         /\ host'.done <= usbMsgAt'
                         /\ usbMsgAt' + usbMsgLen' <= ReplyLen(host'.rq)
                    /\ Pending' =>
                         /\ host'.done <= usbTxBuf'.pkt.at
                         /\ usbTxBuf'.pkt.at + usbTxBuf'.pkt.len <= ReplyLen(host'.rq)
                         /\ usbMsgLen' # USB_NO_MSG =>
                              usbTxBuf'.pkt.at + usbTxBuf'.pkt.len <= usbMsgAt'
  BY DEF Within
<1>0. host.done \in Nat /\ usbMsgAt \in Nat /\ usbMsgLen \in 0..49 \cup {USB_NO_MSG}
  BY DEF Typing
<1>1. CASE Turn
  <2>1. host' = host
    BY <1>1, TurnIs
  <2>2. host.phase = "in" /\ ReplyLen(host.rq) \in 0..49
    BY <2>1, ServedIs
  <2>3. CASE ProcessRx
    <3>1. CASE usbRxToken = USBPID_SETUP
      <4>1. SetupWaits /\ pc' = "free" /\ usbTxLen' = USBPID_NAK /\ usbMsgAt' = 0
            /\ usbMsgLen' = ReplyLen(Data.rq)
        BY <2>3, <3>1, ProcessSetupIs
      <4>2. Data.rq = host.rq /\ host.done = 0 /\ ~Pending'
        BY <2>2, <4>1, ServedIs, HandshakeIs DEF Pending
      <4> QED BY <2>1, <2>2, <4>1, <4>2
    <3>2. CASE usbRxToken # USBPID_SETUP
      <4>1. ~SetupWaits /\ pc = "process" /\ pc' = "free"
            /\ UNCHANGED <<usbTxLen, usbTxBuf, usbMsgAt>>
            /\ (usbMsgFlags # "user_rw" => usbMsgLen' = usbMsgLen)
        BY <2>3, <3>2, ProcessOutIs DEF SetupWaits, txvars
      <4>2. usbMsgLen' = usbMsgLen
        BY <2>2, <4>1, ServedIs
      <4>3. Pending' <=> Pending
        BY <4>1 DEF Pending, Handshake
      <4> QED BY <2>1, <2>2, <4>1, <4>2, <4>3 DEF Within
    <3> QED BY <3>1, <3>2
  <2>4. CASE BuildTxBlock
    <3> DEFINE n == Lesser(usbMsgLen, 8)
               d == host.done
               r == ReplyLen(host.rq)
    <3>0. ~SetupWaits
      <4>1. pc # "process"
        BY <2>4, BuildIs
      <4> QED BY <1>1, <4>1, TurnWaits
    <3>1. /\ n \in 0..8 /\ n = Lesser(8, usbMsgLen) /\ usbMsgLen \in 0..49
          /\ usbTxBuf'.pkt.at = usbMsgAt /\ usbTxBuf'.pkt.len = n
          /\ usbMsgAt' = usbMsgAt + n
          /\ usbMsgLen' = IF n < 8 THEN USB_NO_MSG ELSE usbMsgLen - n
      BY <2>4, BuildIs
    <3>2. n <= usbMsgLen
      BY <3>1, LesserIs
    <3>3. usbMsgLen # USB_NO_MSG
      BY <3>1 DEF USB_NO_MSG
    <3>4. d <= usbMsgAt /\ usbMsgAt + usbMsgLen <= r /\ d \in Nat /\ r \in 0..49
      BY <2>2, <3>0, <3>3, HostFields DEF Within
    <3> HIDE DEF n, d, r
    <3>5. /\ usbMsgAt + n <= r /\ d <= usbMsgAt + n
          /\ n = 8 => usbMsgAt + n + (usbMsgLen - n) <= r
      BY <1>0, <3>1, <3>2, <3>4
    <3>6. /\ usbMsgLen' # USB_NO_MSG => d <= usbMsgAt' /\ usbMsgAt' + usbMsgLen' <= r
          /\ d <= usbTxBuf'.pkt.at
          /\ usbTxBuf'.pkt.at + usbTxBuf'.pkt.len <= r
          /\ usbTxBuf'.pkt.at + usbTxBuf'.pkt.len <= usbMsgAt'
      BY <1>0, <3>1, <3>4, <3>5
    <3> QED BY <2>1, <3>6 DEF d, r
  <2>5. CASE ~ProcessRx /\ ~BuildTxBlock
    <3>1. ~SetupWaits
      BY <1>1, <2>5, TurnWaits
    <3>2. UNCHANGED <<usbTxBuf, usbMsgAt, usbMsgLen>>
      BY <1>1, <2>5
      DEF Turn, PollRx, FreeRx, PollTx, SendTxBlock, LineStatus, InterruptReady,
          SetInterruptLo, SetInterruptHi, SetInterruptLen, Sample, IntrFrame, txvars, msgvars
    <3>3. Pending' => Pending
      <4>1. CASE SendTxBlock
        BY <4>1 DEF SendTxBlock, Step, Pending
      <4>2. CASE ~SendTxBlock
        <5>1. usbTxLen' = usbTxLen /\ pc' # "send"
          BY <1>1, <2>5, <4>2
          DEF Turn, PollRx, FreeRx, PollTx, LineStatus, InterruptReady, SetInterruptLo,
              SetInterruptHi, SetInterruptLen, Sample, Step, IntrFrame, txvars
        <5> QED BY <5>1 DEF Pending, Handshake
      <4> QED BY <4>1, <4>2
    <3> QED BY <2>1, <2>2, <3>1, <3>2, <3>3 DEF Within
  <2> QED BY <2>3, <2>4, <2>5
<1>2. CASE ~Turn
  <2>1. UNCHANGED <<pc, usbMsgAt, usbMsgLen, usbTxBuf>>
    BY <1>2, HostSteps DEF mainvars, msgvars
  <2>2. CASE Receive
    <3>1. ~SetupWaits /\ Pending /\ MayReceive /\ ~Handshake(usbTxLen) /\ usbTxLen' = USBPID_NAK
      BY <2>2, ReceiveIs, FreeWaits DEF Pending
    <3>2. pc # "send"
      BY <3>1 DEF Sent
    <3>3. ~Pending'
      BY <2>1, <3>1, <3>2, HandshakeIs DEF Pending
    <3>4. host.phase = "in" /\ host'.rq = host.rq
          /\ host'.done \in {host.done, host.done + usbTxBuf.pkt.len}
      <4>1. CASE host' = host
        BY <4>1
      <4>2. CASE usbTxBuf.tok = host.tog /\ host.phase = "statusIn"
        <5>1. host'.phase = "idle"
          BY <2>2, <4>2, ReceiveIs DEF HostIs
        <5> QED BY <5>1
      <4>3. CASE usbTxBuf.tok = host.tog /\ host.phase = "in"
        <5>1. host'.rq = host.rq /\ host'.done = host.done + usbTxBuf.pkt.len
          BY <2>2, <4>3, ReceiveIs DEF HostIs
        <5> QED BY <4>3, <5>1
      <4> QED BY <2>2, <3>1, <4>1, <4>2, <4>3, ReceiveIs DEF MayReceive
    <3>5. /\ host.done <= usbTxBuf.pkt.at
          /\ usbMsgLen # USB_NO_MSG =>
               /\ host.done <= usbMsgAt /\ usbMsgAt + usbMsgLen <= ReplyLen(host.rq)
               /\ usbTxBuf.pkt.at + usbTxBuf.pkt.len <= usbMsgAt
      BY <3>1, <3>4 DEF Within
    <3>6. usbTxBuf.pkt.at \in Nat /\ usbTxBuf.pkt.len \in 0..8
      BY DEF Typing, Packets
    <3>7. usbMsgLen # USB_NO_MSG => host.done + usbTxBuf.pkt.len <= usbMsgAt
      BY <1>0, <3>5, <3>6
    <3>8. usbMsgLen # USB_NO_MSG => host'.done <= usbMsgAt
      BY <3>4, <3>5, <3>7
    <3> QED BY <2>1, <3>3, <3>4, <3>5, <3>8
  <2>3. CASE ~Receive
    <3>1. host.phase = "in" /\ host'.rq = host.rq /\ host'.done = host.done
      <4>1. CASE UNCHANGED host
        BY <4>1
      <4>2. CASE \E rq \in Requests : Begin(rq)
        BY <4>2, BeginIs
      <4>3. CASE SendAcked
        <5>1. MaySend
          BY <4>3, SendAckedIs
        <5>2. CASE host.phase = "setup"
          <6> DEFINE pkt == [req |-> host.req, at |-> 0, len |-> 8, rq |-> host.rq]
          <6>1. Store(USBPID_SETUP, pkt) /\ pkt.len \in 1..8
            BY <4>3, <5>2, SendAckedIs
          <6>2. SetupWaits'
            BY <2>1, <6>1, StoreIs
          <6> QED BY <6>2
        <5>3. CASE host.phase \in {"out", "statusOut"}
          <6>1. host'.phase # "in"
            BY <4>3, <5>3, SendAckedIs DEF HostIs
          <6> QED BY <6>1
        <5> QED BY <5>1, <5>2, <5>3 DEF MaySend
      <4>4. CASE ReceiveReport \/ ReceiveReportLost
        BY <4>4, ReportIs DEF HostIs
      <4>5. CASE Abort \/ BusReset
        BY <4>5, AbortIs, BusResetIs DEF HostIs
      <4> QED BY <1>2, <2>3, <4>1, <4>2, <4>3, <4>4, <4>5, SendAckLostIs, ForgottenIs,
                 ReceiveLostIs, BusResetEndsIs DEF Next
    <3>2. ~SetupWaits
      <4>1. CASE Keep
        BY <2>1, <4>1, KeptWaits DEF Keep
      <4>2. CASE SendAcked \/ SendAckLost
        BY <4>2, SendAckedIs, SendAckLostIs, FreeWaits
      <4> QED BY <1>2, <4>1, <4>2, HostSteps
    <3>3. Pending' => Pending
      <4>1. CASE ReceiveLost
        <5>1. ~Handshake(usbTxLen)
          BY <4>1 DEF ReceiveLost, HandleIn
        <5> QED BY <5>1 DEF Pending
      <4>2. CASE ~ReceiveLost
        <5>1. usbTxLen' = usbTxLen
          BY <1>2, <2>3, <4>2
          DEF Next, Begin, SendAcked, SendAckLost, SendRefused, ReceiveReport,
              ReceiveReportLost, OtherDevice, Abort, BusReset, BusResetEnds, txvars
        <5> QED BY <2>1, <5>1 DEF Pending, Handshake
      <4> QED BY <4>1, <4>2
    <3> QED BY <2>1, <3>1, <3>2, <3>3 DEF Within
  <2> QED BY <2>2, <2>3
<1> QED BY <1>1, <1>2

\* A fault of another kind leaves the count of one as it is.
LEMMA SpentIs ==
  ASSUME Typing, Next
  PROVE  /\ spent'.data = 0 => spent.data = 0 /\ ~ReceiveLost
         /\ spent'.acks = 0 => spent.acks = 0 /\ ~SendAckLost
         /\ spent'.aborts = 0 => spent.aborts = 0 /\ ~Abort
<1>1. CASE UNCHANGED spent /\ ~ReceiveLost /\ ~SendAckLost /\ ~Abort
  BY <1>1
<1>2. CASE ReceiveLost
  <2>1. Fault("data")
    BY <1>2 DEF ReceiveLost
  <2>2. /\ spent'.acks = spent.acks /\ spent'.aborts = spent.aborts /\ spent'.data # 0
    BY <2>1, FaultIs
  <2>3. ~SendAckLost /\ ~Abort
    <3>1. UNCHANGED host /\ UNCHANGED rxvars /\ usbRxLen = 0 /\ MayReceive
      BY <1>2, ReceiveLostIs
    <3>2. ~SendAckLost
      BY <3>1 DEF SendAckLost, MaySend, MayReceive
    <3>3. ~Abort
      <4>1. Abort => host'.phase = "idle"
        BY AbortIs DEF HostIs
      <4> QED BY <3>1, <4>1 DEF MayReceive
    <3> QED BY <3>2, <3>3
  <2> QED BY <2>2, <2>3
<1>3. CASE SendAckLost
  <2>1. Fault("acks") /\ host' = host /\ MaySend
    BY <1>3 DEF SendAckLost
  <2>2. /\ spent'.data = spent.data /\ spent'.aborts = spent.aborts /\ spent'.acks # 0
    BY <2>1, FaultIs
  <2>3. ~ReceiveLost
    BY <2>1 DEF ReceiveLost, MaySend, MayReceive
  <2>4. ~Abort
    <3>1. Abort => host'.phase = "idle"
      BY AbortIs DEF HostIs
    <3> QED BY <2>1, <3>1 DEF MaySend
  <2> QED BY <2>2, <2>3, <2>4
<1>4. CASE Abort
  <2>1. Fault("aborts") /\ host'.phase = "idle" /\ host.phase # "idle"
    BY <1>4, AbortIs DEF Abort, HostIs
  <2>2. /\ spent'.data = spent.data /\ spent'.acks = spent.acks /\ spent'.aborts # 0
    BY <2>1, FaultIs
  <2>3. ~ReceiveLost /\ ~SendAckLost
    BY <2>1 DEF ReceiveLost, SendAckLost
  <2> QED BY <2>2, <2>3
<1>5. CASE BusReset
  <2>1. Fault("resets") /\ bus' # bus
    BY <1>5, BusResetIs
  <2>2. /\ spent'.data = spent.data /\ spent'.acks = spent.acks /\ spent'.aborts = spent.aborts
    BY <2>1, FaultIs
  <2>3. ~ReceiveLost /\ ~SendAckLost /\ ~Abort
    BY <2>1 DEF ReceiveLost, SendAckLost, Abort, Host
  <2> QED BY <2>2, <2>3
<1>6. CASE ReceiveReportLost
  <2>1. Fault("reports") /\ UNCHANGED <<bus, txvars>> /\ host'.phase = host.phase
    BY <1>6, ReceiveReportLostIs DEF HostIs
  <2>2. /\ spent'.data = spent.data /\ spent'.acks = spent.acks /\ spent'.aborts = spent.aborts
        /\ spent'.reports # spent.reports
    <3>1. spent.reports \in Nat
      BY DEF Typing
    <3> QED BY <2>1, <3>1, FaultIs
  <2>3. ~ReceiveLost /\ ~SendAckLost /\ ~Abort
    <3>1. spent' # spent /\ spent'.reports # spent.reports
      BY <2>2
    <3>2. Fault("data") => spent'.reports = spent.reports
      BY FaultIs
    <3>3. Fault("acks") => spent'.reports = spent.reports
      BY FaultIs
    <3>4. Fault("aborts") => spent'.reports = spent.reports
      BY FaultIs
    <3> QED BY <3>1, <3>2, <3>3, <3>4 DEF ReceiveLost, SendAckLost, Abort
  <2> QED BY <1>1, <2>2, <2>3
<1>7. CASE ~ReceiveLost /\ ~SendAckLost /\ ~Abort /\ ~BusReset /\ ~ReceiveReportLost
  <2>1. spent' = spent
    <3>1. CASE Turn
      BY <3>1, TurnIs
    <3>2. CASE ~Turn
      BY <1>7, <3>2
      DEF Next, Begin, SendAcked, SendRefused, Receive, ReceiveReport, OtherDevice, BusResetEnds
    <3> QED BY <3>1, <3>2
  <2> QED BY <1>1, <1>7, <2>1
<1> QED BY <1>2, <1>3, <1>4, <1>5, <1>6, <1>7

\* Replied: built and not sent, or sent and received: never both, never neither.
LEMMA RepliedStep ==
  ASSUME Typing, Sensible, Received, Sent, Served, Replied, Next
  PROVE  Replied'
<1> DEFINE In(tok, at, n, msgAt, msgLen, pending, done, tog, whole) ==
             LET rest == whole - done
                 m == Lesser(8, rest)
             IN /\ rest >= 0
                /\ IF pending
                   THEN /\ tok = tog /\ at = done /\ n = m /\ msgAt = done + m
                        /\ msgLen = IF m < 8 THEN USB_NO_MSG ELSE rest - m
                   ELSE tok = 1 - tog /\ msgAt = done /\ msgLen = rest
           Out(tok, n, msgLen, pending) ==
             /\ msgLen \in {0, USB_NO_MSG}
             /\ IF pending THEN tok = DATA1 /\ n = 0 ELSE tok = DATA0
           pkt == usbTxBuf.pkt
           tok == usbTxBuf.tok
           d == host.done
           whole == ReplyLen(host.rq)
<1>a. ASSUME spent.data = 0, ~SetupWaits, host.phase = "in"
      PROVE  In(tok, pkt.at, pkt.len, usbMsgAt, usbMsgLen, Pending, d, host.tog, whole)
  BY <1>a DEF Replied
<1>b. ASSUME spent.data = 0, ~SetupWaits, host.phase \in {"out", "statusIn"}
      PROVE  Out(tok, pkt.len, usbMsgLen, Pending)
  BY <1>b DEF Replied
<1> SUFFICES ASSUME spent'.data = 0, ~SetupWaits'
             PROVE  /\ host'.phase = "in" =>
                         In(tok, pkt.at, pkt.len, usbMsgAt, usbMsgLen, Pending, d, host.tog,
                            whole)'
                    /\ host'.phase \in {"out", "statusIn"} =>
                         Out(tok, pkt.len, usbMsgLen, Pending)'
  BY DEF Replied
<1>0. /\ d \in Nat /\ usbMsgAt \in Nat /\ usbMsgLen \in 0..49 \cup {USB_NO_MSG}
      /\ tok \in {0, 1} /\ pkt.len \in 0..8 /\ pkt.at \in Nat /\ host.tog \in {0, 1}
  <2>1. tok \in {0, 1} /\ pkt.len \in 0..8 /\ pkt.at \in Nat
    BY DEF Typing, Packets
  <2> QED BY <2>1 DEF Typing
<1>x. spent.data = 0 /\ ~ReceiveLost
  BY SpentIs
<1>s. UNCHANGED <<usbTxBuf, usbMsgAt, usbMsgLen>> /\ (Pending' <=> Pending)
      /\ UNCHANGED host /\ ~SetupWaits
      => /\ host'.phase = "in" =>
              In(tok, pkt.at, pkt.len, usbMsgAt, usbMsgLen, Pending, d, host.tog, whole)'
         /\ host'.phase \in {"out", "statusIn"} => Out(tok, pkt.len, usbMsgLen, Pending)'
  BY <1>x DEF Replied
<1>1. CASE Turn
  <2>1. host' = host
    BY <1>1, TurnIs
  <2>2. CASE ProcessRx
    <3>1. CASE usbRxToken = USBPID_SETUP
      <4>1. /\ SetupWaits /\ pc' = "free" /\ usbTxLen' = USBPID_NAK /\ usbMsgAt' = 0
            /\ usbMsgLen' = ReplyLen(Data.rq) /\ usbTxBuf'.tok = DATA0
        BY <2>2, <3>1, ProcessSetupIs
      <4>2. ~Pending'
        BY <4>1, HandshakeIs DEF Pending
      <4>3. CASE host.phase = "in"
        <5>1. Data.rq = host.rq /\ d = 0 /\ host.tog = DATA1 /\ whole \in 0..49
          BY <4>1, <4>3, ServedIs
        <5> QED BY <2>1, <4>1, <4>2, <4>3, <5>1 DEF DATA0, DATA1
      <4>4. CASE host.phase \in {"out", "statusIn"}
        <5>1. Data.rq = host.rq /\ whole \in {0, USB_NO_MSG}
          BY <4>1, <4>4, ServedIs
        <5> QED BY <2>1, <4>1, <4>2, <4>4, <5>1
      <4> QED BY <2>1, <4>3, <4>4
    <3>2. CASE usbRxToken # USBPID_SETUP
      <4>1. /\ ~SetupWaits /\ pc = "process" /\ pc' = "free"
            /\ UNCHANGED <<usbTxLen, usbTxBuf, usbMsgAt>>
            /\ usbMsgFlags # "user_rw" => usbMsgLen' = usbMsgLen
            /\ usbMsgLen' \in {usbMsgLen, 0}
        BY <2>2, <3>2, ProcessOutIs DEF SetupWaits, txvars
      <4>2. Pending' <=> Pending
        BY <4>1 DEF Pending, Handshake
      <4>3. CASE host.phase = "in"
        <5>1. usbMsgLen' = usbMsgLen
          BY <4>1, <4>3, ServedIs
        <5> QED BY <1>s, <2>1, <4>1, <4>2, <5>1
      <4>4. CASE host.phase \in {"out", "statusIn"}
        <5>1. Out(tok, pkt.len, usbMsgLen, Pending)
          BY <1>b, <1>x, <4>1, <4>4
        <5>2. Out(tok, pkt.len, usbMsgLen, Pending)'
          BY <4>1, <4>2, <5>1
        <5> QED BY <2>1, <4>4, <5>2
      <4> QED BY <2>1, <4>3, <4>4
    <3> QED BY <3>1, <3>2
  <2>3. CASE BuildTxBlock
    <3> DEFINE n == Lesser(usbMsgLen, 8)
    <3>1. /\ n \in 0..8 /\ n = Lesser(8, usbMsgLen) /\ usbMsgLen \in 0..49
          /\ usbTxBuf'.pkt.at = usbMsgAt /\ usbTxBuf'.pkt.len = n
          /\ usbTxBuf'.tok = 1 - tok
          /\ usbMsgAt' = usbMsgAt + n
          /\ usbMsgLen' = IF n < 8 THEN USB_NO_MSG ELSE usbMsgLen - n
          /\ pc = "build" /\ pc' = "send" /\ usbTxLen' = usbTxLen
      BY <2>3, BuildIs
    <3>2. ~SetupWaits /\ ~Pending /\ Pending'
      <4>1. ~SetupWaits
        BY <1>1, <3>1, TurnWaits
      <4>2. ~Pending
        BY <3>1 DEF Pending, Sent
      <4>3. Pending'
        BY <3>1 DEF Pending
      <4> QED BY <4>1, <4>2, <4>3
    <3>3. CASE host.phase = "in"
      <4>1. whole - d >= 0 /\ tok = 1 - host.tog /\ usbMsgAt = d /\ usbMsgLen = whole - d
        BY <1>a, <1>x, <3>2, <3>3
      <4>2. 1 - (1 - host.tog) = host.tog
        BY <1>0
      <4> HIDE DEF n, d, whole, tok
      <4>3. n = Lesser(8, whole - d) /\ usbMsgAt' = d + Lesser(8, whole - d)
            /\ usbMsgLen' = (IF Lesser(8, whole - d) < 8 THEN USB_NO_MSG
                             ELSE whole - d - Lesser(8, whole - d))
        BY <3>1, <4>1
      <4>4. usbTxBuf'.tok = host.tog
        BY <3>1, <4>1, <4>2
      <4>5. d' = d /\ whole' = whole /\ host'.tog = host.tog /\ host'.phase = "in"
        BY <2>1, <3>3 DEF d, whole
      <4>6. In(tok, pkt.at, pkt.len, usbMsgAt, usbMsgLen, Pending, d, host.tog, whole)'
        BY <3>1, <3>2, <4>1, <4>3, <4>4, <4>5 DEF tok
      <4> QED BY <4>5, <4>6
    <3>4. CASE host.phase \in {"out", "statusIn"}
      <4>1. usbMsgLen \in {0, USB_NO_MSG} /\ tok = DATA0
        BY <1>b, <1>x, <3>2, <3>4
      <4>2. usbMsgLen = 0
        BY <3>1, <4>1 DEF USB_NO_MSG
      <4>3. n = 0
        BY <4>2 DEF Lesser
      <4> HIDE DEF n
      <4>4. usbTxBuf'.pkt.len = 0 /\ usbTxBuf'.tok = DATA1 /\ usbMsgLen' = USB_NO_MSG
        BY <3>1, <4>1, <4>3 DEF DATA0, DATA1
      <4> QED BY <2>1, <3>2, <3>4, <4>4
    <3> QED BY <2>1, <3>3, <3>4
  <2>4. CASE ~ProcessRx /\ ~BuildTxBlock
    <3>1. ~SetupWaits
      BY <1>1, <2>4, TurnWaits
    <3>2. UNCHANGED <<usbTxBuf, usbMsgAt, usbMsgLen>>
      BY <1>1, <2>4
      DEF Turn, PollRx, FreeRx, PollTx, SendTxBlock, LineStatus, InterruptReady,
          SetInterruptLo, SetInterruptHi, SetInterruptLen, Sample, IntrFrame, txvars, msgvars
    <3>3. Pending' <=> Pending
      <4>1. CASE SendTxBlock
        <5>1. usbTxLen' \in 4..12 /\ pc = "send"
          BY <1>0, <4>1 DEF SendTxBlock, Step
        <5> QED BY <5>1, HandshakeIs DEF Pending
      <4>2. CASE ~SendTxBlock
        <5>1. usbTxLen' = usbTxLen /\ pc' # "send" /\ pc # "send"
          BY <1>1, <2>4, <4>2
          DEF Turn, PollRx, FreeRx, PollTx, LineStatus, InterruptReady, SetInterruptLo,
              SetInterruptHi, SetInterruptLen, Sample, Step, IntrFrame, txvars
        <5> QED BY <5>1 DEF Pending, Handshake
      <4> QED BY <4>1, <4>2
    <3> QED BY <1>s, <2>1, <3>1, <3>2, <3>3
  <2> QED BY <2>2, <2>3, <2>4
<1>2. CASE Receive
  <2>1. ~SetupWaits /\ Pending /\ MayReceive /\ ~Handshake(usbTxLen) /\ usbTxLen' = USBPID_NAK
        /\ UNCHANGED <<pc, usbMsgAt, usbMsgLen, usbTxBuf>>
    BY <1>2, ReceiveIs, FreeWaits DEF Pending, mainvars, msgvars
  <2>2. ~Pending'
    <3>1. pc # "send"
      BY <2>1 DEF Sent
    <3> QED BY <2>1, <3>1, HandshakeIs DEF Pending
  <2>3. CASE host.phase = "statusIn"
    <3>1. tok = host.tog
      <4>1. tok = DATA1
        BY <1>b, <1>x, <2>1, <2>3
      <4>2. host.tog = DATA1
        BY <2>3 DEF Sensible
      <4> QED BY <4>1, <4>2
    <3>2. host'.phase = "idle"
      BY <1>2, <2>3, <3>1, ReceiveIs DEF HostIs
    <3> QED BY <3>2
  <2>4. CASE host.phase = "in"
    <3> DEFINE m == Lesser(8, whole - d)
    <3>1. /\ whole - d >= 0 /\ tok = host.tog /\ pkt.len = m /\ usbMsgAt = d + m
          /\ usbMsgLen = IF m < 8 THEN USB_NO_MSG ELSE whole - d - m
      BY <1>a, <1>x, <2>1, <2>4
    <3>2. /\ host'.phase = (IF m < 8 \/ d + m = host.rq.wLength THEN "statusOut" ELSE "in")
          /\ host'.done = d + m /\ host'.tog = 1 - host.tog /\ host'.rq = host.rq
      <4>1. tok = host.tog
        BY <3>1
      <4>2. /\ host'.phase = (IF pkt.len < 8 \/ d + pkt.len = host.rq.wLength
                              THEN "statusOut" ELSE "in")
            /\ host'.done = d + pkt.len /\ host'.tog = 1 - host.tog /\ host'.rq = host.rq
        BY <1>2, <2>4, <4>1, ReceiveIs DEF HostIs
      <4> QED BY <3>1, <4>2
    <3>3. CASE host'.phase = "in"
      <4>1. whole \in 0..49 /\ whole' = whole
        BY <2>4, <3>2, ServedIs
      <4>2. \A w, e \in Int : LET q == Lesser(8, w - e)
                              IN w - e >= 0 /\ ~(q < 8) => q = 8 /\ w - e >= 8
        BY DEF Lesser
      <4>3. ~(m < 8)
        BY <3>2, <3>3
      <4>4. m = 8 /\ whole - d >= 8
        <5>1. d \in Int /\ whole \in Int /\ whole - d >= 0
          BY <1>0, <3>1, <4>1
        <5> HIDE DEF d, whole
        <5> QED BY <4>2, <4>3, <5>1
      <4> HIDE DEF m, whole, d
      <4>5. d' = d + 8 /\ usbMsgAt = d + 8 /\ usbMsgLen = whole - d - 8
        BY <3>1, <3>2, <4>4 DEF d
      <4>6. whole' - d' >= 0 /\ usbMsgAt = d' /\ usbMsgLen = whole' - d'
        BY <1>0, <4>1, <4>4, <4>5
      <4>7. tok' = 1 - host'.tog
        BY <1>0, <2>1, <3>1, <3>2
      <4>8. In(tok, pkt.at, pkt.len, usbMsgAt, usbMsgLen, Pending, d, host.tog, whole)'
        BY <2>1, <2>2, <4>6, <4>7
      <4> QED BY <3>3, <4>8
    <3>4. CASE host'.phase = "statusOut"
      BY <3>4
    <3> QED BY <3>2, <3>3, <3>4
  <2> QED BY <2>1, <2>3, <2>4 DEF MayReceive
<1>3. CASE ~Turn /\ ~Receive
  <2>1. UNCHANGED <<pc, usbMsgAt, usbMsgLen, usbTxBuf>>
    BY <1>3, HostSteps DEF mainvars, msgvars
  <2>2. usbTxLen' = usbTxLen
    BY <1>3, <1>x
    DEF Next, Begin, SendAcked, SendAckLost, SendRefused, ReceiveReport, ReceiveReportLost,
        OtherDevice, Abort, BusReset, BusResetEnds, txvars
  <2>3. Pending' <=> Pending
    BY <2>1, <2>2 DEF Pending, Handshake
  <2>4. ~SetupWaits
    <3>1. CASE Keep
      BY <2>1, <3>1, KeptWaits DEF Keep
    <3>2. CASE SendAcked \/ SendAckLost
      BY <3>2, SendAckedIs, SendAckLostIs, FreeWaits
    <3> QED BY <1>3, <3>1, <3>2, HostSteps
  <2>5. CASE UNCHANGED host
    BY <1>s, <2>1, <2>3, <2>4, <2>5
  <2>6. CASE \E rq \in Requests : Begin(rq)
    <3>1. host'.phase = "setup"
      BY <2>6, BeginIs
    <3> QED BY <3>1
  <2>7. CASE SendAcked
    <3>1. MaySend
      BY <2>7, SendAckedIs
    <3>2. CASE host.phase = "setup"
      <4> DEFINE sent == [req |-> host.req, at |-> 0, len |-> 8, rq |-> host.rq]
      <4>1. Store(USBPID_SETUP, sent) /\ sent.len \in 1..8
        BY <2>7, <3>2, SendAckedIs
      <4>2. SetupWaits'
        BY <2>1, <4>1, StoreIs
      <4> QED BY <4>2
    <3>3. CASE host.phase = "out"
      <4>1. host'.phase \in {"out", "statusIn"}
        BY <2>7, <3>3, SendAckedIs DEF HostIs
      <4>2. Out(tok, pkt.len, usbMsgLen, Pending)
        BY <1>b, <1>x, <2>4, <3>3
      <4>3. Out(tok, pkt.len, usbMsgLen, Pending)'
        BY <2>1, <2>3, <4>2
      <4> QED BY <4>1, <4>3
    <3>4. CASE host.phase = "statusOut"
      <4>1. host'.phase = "idle"
        BY <2>7, <3>4, SendAckedIs DEF HostIs
      <4> QED BY <4>1
    <3> QED BY <3>1, <3>2, <3>3, <3>4 DEF MaySend
  <2>8. CASE ReceiveReport \/ ReceiveReportLost
    <3>1. /\ host'.phase = host.phase /\ host'.rq = host.rq /\ host'.done = host.done
          /\ host'.tog = host.tog
      BY <2>8, ReportIs DEF HostIs
    <3> QED BY <1>x, <2>1, <2>3, <2>4, <3>1 DEF Replied
  <2>9. CASE Abort \/ BusReset
    <3>1. host'.phase = "idle"
      BY <2>9, AbortIs, BusResetIs DEF HostIs
    <3> QED BY <3>1
  <2> QED BY <1>3, <1>x, <2>5, <2>6, <2>7, <2>8, <2>9, SendAckLostIs, ForgottenIs,
             BusResetEndsIs DEF Next
<1> QED BY <1>1, <1>2, <1>3

\* Addressed: the address changes with the status packet and with a reset.
LEMMA AddressedStep ==
  ASSUME Typing, Sensible, Received, ResetSeen, Served, Replied, Addressed, Next
  PROVE  Addressed'
<1> SUFFICES ASSUME spent'.data = 0, bus' = "up"
             PROVE  /\ usbDeviceAddr' = host'.addr
                    /\ \/ usbNewDeviceAddr' = usbDeviceAddr'
                       \/ /\ usbNewDeviceAddr' = 1 /\ host'.addr = 0
                          /\ host'.rq.name = "SET_ADDRESS"
                    /\ SetupWaits' /\ Data'.rq.name = "SET_ADDRESS" =>
                         host'.addr = 0 /\ host'.rq.name = "SET_ADDRESS"
                    /\ host'.phase # "idle" /\ host'.rq.name = "SET_ADDRESS" => host'.addr = 0
                    /\ host'.phase = "statusIn" /\ host'.rq.name = "SET_ADDRESS"
                         /\ ~SetupWaits' => usbNewDeviceAddr' = 1
  BY DEF Addressed
<1>0. spent.data = 0 /\ ~ReceiveLost
  BY SpentIs
<1>1. CASE Turn
  <2>1. host' = host /\ Data' = Data
    BY <1>1, TurnIs
  <2>2. bus = "up"
    BY <1>1
    DEF Turn, PollRx, ProcessRx, FreeRx, PollTx, BuildTxBlock, SendTxBlock, LineStatus,
        InterruptReady, SetInterruptLo, SetInterruptHi, SetInterruptLen, Sample, IntrFrame
  <2>3. CASE ProcessRx
    <3>1. ~SetupWaits'
      BY <1>1, <2>3, TurnWaits
    <3>2. CASE usbRxToken = USBPID_SETUP
      <4>1. /\ SetupWaits /\ usbDeviceAddr' = usbDeviceAddr
            /\ usbNewDeviceAddr' = IF Data.rq.name = "SET_ADDRESS" THEN 1 ELSE usbNewDeviceAddr
        BY <2>3, <3>2, ProcessSetupIs DEF DriverSetup
      <4>2. host.phase = "statusIn" => Data.rq = host.rq
        BY <4>1, ServedIs
      <4> QED BY <1>0, <2>1, <2>2, <3>1, <4>1, <4>2 DEF Addressed
    <3>3. CASE usbRxToken # USBPID_SETUP
      <4>1. ~SetupWaits /\ UNCHANGED addrvars
        BY <2>3, <3>3, ProcessOutIs DEF SetupWaits
      <4> QED BY <1>0, <2>1, <2>2, <3>1, <4>1 DEF Addressed, addrvars
    <3> QED BY <3>2, <3>3
  <2>4. CASE ~ProcessRx
    <3>1. SetupWaits' <=> SetupWaits
      BY <1>1, <2>4, TurnWaits
    <3>2. UNCHANGED addrvars
      BY <1>1, <2>2, <2>4
      DEF Turn, PollRx, FreeRx, PollTx, BuildTxBlock, SendTxBlock, LineStatus,
          InterruptReady, SetInterruptLo, SetInterruptHi, SetInterruptLen, Sample, IntrFrame
    <3> QED BY <1>0, <2>1, <2>2, <3>1, <3>2 DEF Addressed, addrvars
  <2> QED BY <2>3, <2>4
<1>2. CASE BusResetEnds
  <2>1. /\ bus = "over" /\ UNCHANGED <<addrvars, host, usbRxLen>>
    BY <1>2, BusResetEndsIs DEF rxvars
  <2>2. usbRxLen = 0 /\ usbNewDeviceAddr = 0 /\ usbDeviceAddr = 0 /\ host.addr = 0
        /\ host.phase = "idle"
    BY <2>1 DEF ResetSeen
  <2>3. ~SetupWaits'
    BY <2>1, <2>2 DEF SetupWaits
  <2> QED BY <2>1, <2>2, <2>3 DEF addrvars
<1>3. CASE Receive
  <2>1. /\ ~SetupWaits /\ ~SetupWaits' /\ Pending /\ MayReceive /\ bus = "up"
        /\ usbDeviceAddr' = usbNewDeviceAddr /\ usbNewDeviceAddr' = usbNewDeviceAddr
    <3>1. /\ ~SetupWaits /\ Pending /\ MayReceive /\ bus = "up"
          /\ usbDeviceAddr' = usbNewDeviceAddr /\ usbNewDeviceAddr' = usbNewDeviceAddr
          /\ usbRxLen' = 0
      BY <1>3, ReceiveIs, FreeWaits DEF Pending, rxvars
    <3>2. ~SetupWaits'
      BY <3>1 DEF SetupWaits
    <3> QED BY <3>1, <3>2
  <2>2. CASE host.phase = "statusIn"
    <3>1. usbTxBuf.tok = host.tog
      BY <1>0, <2>1, <2>2 DEF Replied, Sensible
    <3>2. host'.phase = "idle" /\ host'.rq = host.rq
          /\ host'.addr = IF host.rq.name = "SET_ADDRESS" THEN 1 ELSE host.addr
      BY <1>3, <2>2, <3>1, ReceiveIs DEF HostIs
    <3> QED BY <1>0, <2>1, <2>2, <3>2 DEF Addressed
  <2>3. CASE host.phase = "in"
    <3>1. host.rq.name # "SET_ADDRESS"
      BY <2>3, NamesAre DEF Sensible
    <3>2. host'.rq = host.rq /\ host'.addr = host.addr
      BY <1>3, <2>3, ReceiveIs DEF HostIs
    <3> QED BY <1>0, <2>1, <3>1, <3>2 DEF Addressed
  <2> QED BY <2>1, <2>2, <2>3 DEF MayReceive
<1>4. CASE SendAcked \/ SendAckLost
  <2>1. /\ UNCHANGED <<pc, usbDeviceAddr, usbNewDeviceAddr>> /\ bus = "up" /\ MaySend
        /\ ~SetupWaits /\ usbRxLen = 0
    BY <1>4, SendAckedIs, SendAckLostIs, FreeWaits DEF mainvars, addrvars
  <2>2. host'.rq = host.rq /\ host'.addr = host.addr
    <3>1. CASE SendAcked
      BY <2>1, <3>1, SendAckedIs DEF HostIs, MaySend
    <3>2. CASE SendAckLost
      BY <3>2, SendAckLostIs
    <3> QED BY <1>4, <3>1, <3>2
  <2>3. CASE host.phase = "setup"
    <3> DEFINE sent == [req |-> host.req, at |-> 0, len |-> 8, rq |-> host.rq]
    <3>1. Store(USBPID_SETUP, sent) /\ sent.len \in 1..8
      BY <1>4, <2>3, SendAckedIs, SendAckLostIs
    <3>2. SetupWaits' /\ Data' = sent
      BY <2>1, <3>1, StoreIs
    <3>3. Data'.rq = host.rq
      BY <3>2
    <3> HIDE DEF sent
    <3> QED BY <1>0, <2>1, <2>2, <2>3, <3>2, <3>3 DEF Addressed
  <2>4. CASE host.phase = "out"
    <3> DEFINE sent == [req |-> host.req, at |-> host.done, len |-> OutLen, rq |-> NoRequest]
    <3>1. Store(USBPID_OUT, sent) /\ sent.len \in 1..8
      BY <1>4, <2>4, SendAckedIs, SendAckLostIs, SendingIs
    <3>2. ~SetupWaits'
      BY <2>1, <3>1, StoreIs
    <3>3. host.rq.name # "SET_ADDRESS"
      BY <2>4 DEF Sensible, Writes
    <3> QED BY <1>0, <2>1, <2>2, <3>2, <3>3 DEF Addressed
  <2>5. CASE host.phase = "statusOut"
    <3>1. ~SetupWaits'
      <4>1. Keep
        BY <1>4, <2>5, SendAckedIs, SendAckLostIs
      <4> QED BY <2>1, <4>1, KeptWaits DEF Keep
    <3>2. host'.phase \in {"idle", "statusOut"}
      BY <1>4, <2>5, SendAckedIs, SendAckLostIs DEF HostIs
    <3> QED BY <1>0, <2>1, <2>2, <2>5, <3>1, <3>2 DEF Addressed
  <2> QED BY <2>1, <2>3, <2>4, <2>5 DEF MaySend
<1>5. CASE ~Turn /\ ~BusResetEnds /\ ~Receive /\ ~SendAcked /\ ~SendAckLost
  <2>0. ~BusReset
    BY BusResetIs
  <2>1. Keep /\ UNCHANGED <<pc, usbNewDeviceAddr>> /\ bus = "up"
    <3>1. bus = "up"
      BY <1>0, <1>5, <2>0
      DEF Next, Begin, SendRefused, ReceiveReport, ReceiveReportLost, OtherDevice, Abort, Host
    <3> QED BY <1>5, <3>1, HostSteps DEF mainvars
  <2>2. (SetupWaits' <=> SetupWaits) /\ Data' = Data
    BY <2>1, KeptWaits DEF Keep
  <2>3. CASE \E rq \in Requests : Begin(rq)
    <3>1. PICK rq \in Requests : Begin(rq)
      BY <2>3
    <3>2. /\ UNCHANGED addrvars /\ host.phase = "idle"
          /\ host'.phase = "setup" /\ host'.rq = rq /\ host'.addr = host.addr
          /\ rq.name = "SET_ADDRESS" => host.addr = 0
          /\ host.addr = 0 =>
               \/ rq.name = "SET_ADDRESS"
               \/ rq.name = "DEVICE" /\ host.rq.name # "SET_ADDRESS"
      BY <3>1, BeginIs
    <3> QED BY <1>0, <2>1, <2>2, <3>2 DEF Addressed, addrvars
  <2>4. CASE SendRefused \/ OtherDevice
    <3>1. UNCHANGED <<addrvars, host>>
      BY <2>4, ForgottenIs
    <3> QED BY <1>0, <2>1, <2>2, <3>1 DEF Addressed, addrvars
  <2>5. CASE ReceiveReport \/ ReceiveReportLost
    <3>1. /\ host.addr = 1 /\ usbDeviceAddr' = usbNewDeviceAddr
          /\ host'.phase = host.phase /\ host'.rq = host.rq /\ host'.addr = host.addr
      BY <2>5, ReportIs DEF HostIs
    <3> QED BY <1>0, <2>1, <2>2, <3>1 DEF Addressed
  <2>6. CASE Abort
    <3>1. /\ UNCHANGED addrvars
          /\ host'.phase = "idle" /\ host'.rq = host.rq /\ host'.addr = host.addr
      BY <2>6, AbortIs DEF HostIs
    <3> QED BY <1>0, <2>1, <2>2, <3>1 DEF Addressed, addrvars
  <2> QED BY <1>0, <1>5, <2>0, <2>3, <2>4, <2>5, <2>6 DEF Next
<1> QED BY <1>1, <1>2, <1>3, <1>4, <1>5

\* Reported: the interrupt routine does not look at a packet that is filled.
LEMMA ReportedStep ==
  ASSUME Typing, Sensible, Received, Reported, Next
  PROVE  Reported'
<1> DEFINE Whole(tx, p, in, ep1) ==
             LET filling == p \in {"lo", "hi", "len"}
             IN /\ filling => Handshake(tx.len)
                /\ p \in {"hi", "len"} => tx.lo = in
                /\ p = "len" => tx.hi = in
                /\ ~Handshake(tx.len) => tx.lo = tx.hi
                /\ ep1.synced =>
                     tx.tok = IF filling \/ ~Handshake(tx.len) THEN ep1.tog ELSE 1 - ep1.tog
           Toggled == /\ SetupWaits /\ Data.rq.name = "SET_INTERFACE" => ~host.ep1.synced
                      /\ host.phase # "idle" /\ host.rq.name \in Configures =>
                           ~host.ep1.synced
           tx == usbTxStatus1
<1>0. Whole(tx, pc, input_report, host.ep1) /\ Toggled
  BY DEF Reported, Filling
<1> SUFFICES ASSUME TRUE
             PROVE  Whole(tx, pc, input_report, host.ep1)' /\ Toggled'
  BY DEF Reported, Filling
<1>t. /\ tx \in [len: {6, USBPID_NAK}, tok: {0, 1}, lo: {0, 1}, hi: {0, 1}]
      /\ host.ep1 \in [tog : {0, 1}, synced : BOOLEAN] /\ host.ep1.tog \in {0, 1}
      /\ host.rq \in Requests \cup {NoRequest}
  BY DEF Typing
<1>1. CASE Turn
  <2>1. host' = host /\ Data' = Data
    BY <1>1, TurnIs
  <2>2. SetupWaits' => SetupWaits
    BY <1>1, TurnWaits
  <2>3. Toggled'
    BY <1>0, <2>1, <2>2
  <2> HIDE DEF Toggled
  <2>4. CASE ProcessRx
    <3>1. pc = "process" /\ pc' = "free"
      BY <2>4 DEF ProcessRx, Step
    <3>2. CASE tx' = tx
      BY <1>0, <2>1, <2>3, <3>1, <3>2
    <3>3. CASE tx' # tx
      <4>1. usbRxToken = USBPID_SETUP
        BY <2>4, <3>3, ProcessOutIs
      <4>2. SetupWaits /\ Data.rq.name = "SET_INTERFACE" /\ tx' = [tx EXCEPT !.tok = DATA1]
        BY <2>4, <3>3, <4>1, ProcessSetupIs DEF DriverSetup
      <4>3. ~host'.ep1.synced
        BY <1>0, <2>1, <4>2 DEF Toggled
      <4>4. tx'.len = tx.len /\ tx'.lo = tx.lo /\ tx'.hi = tx.hi
        BY <1>t, <4>2
      <4>5. (~Handshake(tx.len) => tx.lo = tx.hi)
        BY <1>0
      <4>6. ~Handshake(tx'.len) => tx'.lo = tx'.hi
        BY <4>4, <4>5
      <4> QED BY <2>3, <3>1, <4>3, <4>6
    <3> QED BY <3>2, <3>3
  <2>5. CASE InterruptReady
    <3>1. /\ pc = "ready" /\ pc' = (IF Handshake(tx.len) THEN "lo" ELSE "sample")
          /\ tx' = IF Handshake(tx.len) THEN [tx EXCEPT !.tok = 1 - tx.tok] ELSE tx
      BY <2>5 DEF InterruptReady, Step
    <3>2. CASE Handshake(tx.len)
      <4>1. tx'.len = tx.len /\ tx'.tok = 1 - tx.tok
        BY <1>t, <3>1, <3>2
      <4>2. host.ep1.synced => tx.tok = 1 - host.ep1.tog
        BY <1>0, <3>1, <3>2
      <4>3. host.ep1.synced => tx'.tok = host.ep1.tog
        BY <1>t, <4>1, <4>2
      <4>4. Handshake(tx'.len) /\ pc' = "lo"
        BY <3>1, <3>2, <4>1
      <4> QED BY <2>1, <2>3, <4>3, <4>4
    <3>3. CASE ~Handshake(tx.len)
      <4>1. tx' = tx /\ pc' = "sample"
        BY <3>1, <3>3
      <4> QED BY <1>0, <2>1, <2>3, <3>1, <4>1
    <3> QED BY <3>2, <3>3
  <2>6. CASE SetInterruptLo
    <3>1. pc = "lo" /\ pc' = "hi" /\ tx' = [tx EXCEPT !.lo = input_report]
          /\ input_report' = input_report
      BY <2>6 DEF SetInterruptLo, Step, IntrFrame
    <3>2. tx'.len = tx.len /\ tx'.tok = tx.tok /\ tx'.lo = input_report
      BY <1>t, <3>1
    <3> QED BY <1>0, <2>1, <2>3, <3>1, <3>2
  <2>7. CASE SetInterruptHi
    <3>1. pc = "hi" /\ pc' = "len" /\ tx' = [tx EXCEPT !.hi = input_report]
          /\ input_report' = input_report
      BY <2>7 DEF SetInterruptHi, Step, IntrFrame
    <3>2. tx'.len = tx.len /\ tx'.tok = tx.tok /\ tx'.lo = tx.lo /\ tx'.hi = input_report
      BY <1>t, <3>1
    <3> QED BY <1>0, <2>1, <2>3, <3>1, <3>2
  <2>8. CASE SetInterruptLen
    <3>1. pc = "len" /\ pc' = "sample" /\ tx' = [tx EXCEPT !.len = 6]
      BY <2>8 DEF SetInterruptLen, Step
    <3>2. tx'.len = 6 /\ tx'.tok = tx.tok /\ tx'.lo = tx.lo /\ tx'.hi = tx.hi
      BY <1>t, <3>1
    <3>3. tx.lo = tx.hi /\ (host.ep1.synced => tx.tok = host.ep1.tog)
      BY <1>0, <3>1
    <3> QED BY <2>1, <2>3, <3>1, <3>2, <3>3, HandshakeIs
  <2>9. CASE PollRx \/ FreeRx \/ PollTx \/ BuildTxBlock \/ SendTxBlock \/ LineStatus \/ Sample
    <3>1. /\ tx' = tx /\ pc \notin {"lo", "hi", "len"} /\ pc' \notin {"lo", "hi", "len"}
      BY <2>9
      DEF PollRx, FreeRx, PollTx, BuildTxBlock, SendTxBlock, LineStatus, Sample, Step
    <3> QED BY <1>0, <2>1, <2>3, <3>1
  <2> QED BY <1>1, <2>4, <2>5, <2>6, <2>7, <2>8, <2>9 DEF Turn
<1>2. CASE ~Turn
  <2>1. UNCHANGED <<pc, input_report>>
    BY <1>2, HostSteps DEF mainvars
  <2>2. CASE SendAcked \/ SendAckLost
    <3>1. /\ UNCHANGED usbTxStatus1 /\ MaySend /\ usbRxLen = 0 /\ ~SetupWaits
      BY <2>2, SendAckedIs, SendAckLostIs, FreeWaits
    <3>2. host'.rq = host.rq /\ host'.ep1 = host.ep1
      <4>1. CASE SendAcked
        BY <3>1, <4>1, SendAckedIs DEF HostIs, MaySend
      <4>2. CASE SendAckLost
        BY <4>2, SendAckLostIs
      <4> QED BY <2>2, <4>1, <4>2
    <3>3. Whole(tx, pc, input_report, host.ep1)'
      BY <1>0, <2>1, <3>1, <3>2
    <3>4. host.phase # "idle"
      BY <3>1 DEF MaySend
    <3>5. SetupWaits' => Data'.rq = host.rq
      <4>1. CASE host.phase = "setup"
        <5> DEFINE sent == [req |-> host.req, at |-> 0, len |-> 8, rq |-> host.rq]
        <5>1. Store(USBPID_SETUP, sent)
          BY <2>2, <4>1, SendAckedIs, SendAckLostIs
        <5> QED BY <5>1 DEF Store
      <4>2. CASE host.phase = "out"
        <5> DEFINE sent == [req |-> host.req, at |-> host.done, len |-> OutLen,
                            rq |-> NoRequest]
        <5>1. Store(USBPID_OUT, sent) /\ sent.len \in 1..8
          BY <2>2, <4>2, SendAckedIs, SendAckLostIs, SendingIs
        <5>2. ~SetupWaits'
          BY <2>1, <5>1, StoreIs
        <5> QED BY <5>2
      <4>3. CASE host.phase = "statusOut"
        <5>1. Keep
          BY <2>2, <4>3, SendAckedIs, SendAckLostIs
        <5>2. ~SetupWaits'
          BY <2>1, <3>1, <5>1, KeptWaits DEF Keep
        <5> QED BY <5>2
      <4> QED BY <3>1, <4>1, <4>2, <4>3 DEF MaySend
    <3>6. Toggled'
      BY <1>0, <3>2, <3>4, <3>5 DEF Configures
    <3> QED BY <3>3, <3>6
  <2>3. CASE ~SendAcked /\ ~SendAckLost
    <3>1. Keep
      BY <1>2, <2>3, HostSteps
    <3>2. (SetupWaits' <=> SetupWaits) /\ Data' = Data
      BY <2>1, <3>1, KeptWaits DEF Keep
    <3>3. CASE UNCHANGED <<host, tx>>
      BY <1>0, <2>1, <3>2, <3>3
    <3>4. CASE \E rq \in Requests : Begin(rq)
      <4>1. PICK rq \in Requests : Begin(rq)
        BY <3>4
      <4>2. /\ tx' = tx /\ host'.rq = rq /\ host'.phase = "setup"
            /\ host'.ep1 = Begun1(rq)
        BY <4>1, BeginIs
      <4>3. /\ host'.ep1.tog = host.ep1.tog
            /\ host'.ep1.synced <=> host.ep1.synced /\ rq.name \notin Configures
        BY <1>t, <4>2 DEF Begun1
      <4>4. Whole(tx, pc, input_report, host.ep1)'
        BY <1>0, <2>1, <4>2, <4>3
      <4>5. Toggled'
        BY <1>0, <3>2, <4>2, <4>3
      <4> QED BY <4>4, <4>5
    <3>5. CASE Receive
      <4>1. /\ tx' = tx /\ ~SetupWaits /\ MayReceive
        BY <3>5, ReceiveIs, FreeWaits
      <4>2. \/ host' = host
            \/ host'.rq = host.rq /\ host'.ep1 = host.ep1
            \/ /\ host'.rq = host.rq /\ host.rq.name \in Configures
               /\ host'.ep1 = [host.ep1 EXCEPT !.tog = DATA0]
        BY <3>5, <4>1, ReceiveIs DEF MayReceive, HostIs
      <4>3. host.phase # "idle"
        BY <4>1 DEF MayReceive
      <4>4. \/ host'.rq = host.rq /\ host'.ep1 = host.ep1
            \/ host'.rq = host.rq /\ ~host.ep1.synced /\ ~host'.ep1.synced
        BY <1>0, <1>t, <4>2, <4>3
      <4> QED BY <1>0, <2>1, <3>2, <4>1, <4>3, <4>4
    <3>6. CASE ReceiveReport
      <4>1. /\ ~SetupWaits /\ ~Handshake(tx.len) /\ tx' = [tx EXCEPT !.len = USBPID_NAK]
            /\ host'.phase = host.phase /\ host'.rq = host.rq
            /\ host'.ep1 = Got1
        BY <3>6, ReceiveReportIs, FreeWaits DEF HostIs
      <4>2. /\ host'.ep1.tog = 1 - tx.tok
            /\ host'.ep1.synced = (host.phase = "idle" \/ host.rq.name \notin Configures)
        <5>1. /\ Got1.tog = 1 - tx.tok
              /\ Got1.synced = (host.phase = "idle" \/ host.rq.name \notin Configures)
          BY DEF Got1
        <5> QED BY <4>1, <5>1
      <4>3. tx'.len = USBPID_NAK /\ tx'.tok = tx.tok
        BY <1>t, <4>1
      <4>4. pc \notin {"lo", "hi", "len"}
        BY <1>0, <4>1
      <4>5. tx'.tok = 1 - host'.ep1.tog
        BY <1>t, <4>2, <4>3
      <4>6. Handshake(tx'.len)
        BY <4>3, HandshakeIs
      <4>7. Whole(tx, pc, input_report, host.ep1)'
        BY <2>1, <4>4, <4>5, <4>6
      <4>8. Toggled'
        BY <3>2, <4>1, <4>2
      <4> QED BY <4>7, <4>8
    <3>8. CASE ReceiveReportLost
      <4>1. /\ ~SetupWaits /\ ~Handshake(tx.len) /\ tx' = [tx EXCEPT !.len = USBPID_NAK]
            /\ ~host'.ep1.synced
        BY <3>8, ReceiveReportLostIs, FreeWaits, HostFields DEF HostIs
      <4>2. tx'.len = USBPID_NAK
        BY <1>t, <4>1
      <4>3. pc \notin {"lo", "hi", "len"}
        BY <1>0, <4>1
      <4>4. Handshake(tx'.len)
        BY <4>2, HandshakeIs
      <4> QED BY <2>1, <3>2, <4>1, <4>3, <4>4
    <3>7. CASE Abort \/ BusReset
      <4>1. /\ tx' = tx /\ host'.phase = "idle"
            /\ ~host'.ep1.synced \/ host'.ep1 = host.ep1
        BY <3>7, AbortIs, BusResetIs DEF HostIs
      <4> QED BY <1>0, <2>1, <3>2, <4>1
    <3> QED BY <1>2, <2>3, <3>3, <3>4, <3>5, <3>6, <3>7, <3>8, ForgottenIs,
               ReceiveLostIs, BusResetEndsIs DEF Next
  <2> QED BY <2>2, <2>3
<1> QED BY <1>1, <1>2

\* Free: the end of a transfer is not stored.
LEMMA FreeStep ==
  ASSUME Typing, Sensible, ResetSeen, Free, Next
  PROVE  Free'
<1> SUFFICES ASSUME spent'.acks = 0, spent'.aborts = 0, bus' = "up",
                    host'.phase \in {"idle", "setup"}
             PROVE  usbRxLen' = 0
  BY DEF Free
<1>0. spent.acks = 0 /\ spent.aborts = 0 /\ ~SendAckLost /\ ~Abort
  BY SpentIs
<1>1. CASE Turn
  <2>1. host' = host /\ usbRxLen' \in {usbRxLen, 0}
    BY <1>1, TurnIs
  <2>2. bus = "up"
    BY <1>1
    DEF Turn, PollRx, ProcessRx, FreeRx, PollTx, BuildTxBlock, SendTxBlock, LineStatus,
        InterruptReady, SetInterruptLo, SetInterruptHi, SetInterruptLen, Sample, IntrFrame
  <2> QED BY <1>0, <2>1, <2>2 DEF Free
<1>2. CASE BusResetEnds
  <2>1. bus = "over" /\ usbRxLen' = usbRxLen
    BY <1>2, BusResetEndsIs DEF rxvars
  <2> QED BY <2>1 DEF ResetSeen
<1>3. CASE SendAcked
  <2>1. MaySend /\ usbRxLen = 0
    BY <1>3, SendAckedIs
  <2>2. CASE host.phase \in {"setup", "out"}
    <3>1. host'.phase \in {"in", "out", "statusIn"}
      BY <1>3, <2>2, SendAckedIs DEF HostIs
    <3> QED BY <3>1
  <2>3. CASE host.phase = "statusOut"
    <3>1. Keep
      BY <1>3, <2>3, SendAckedIs
    <3> QED BY <2>1, <3>1 DEF Keep
  <2> QED BY <2>1, <2>2, <2>3 DEF MaySend
<1>4. CASE Receive \/ ReceiveLost \/ ReceiveReport \/ ReceiveReportLost
  BY <1>4, ReceiveIs, ReceiveLostIs, ReportIs DEF rxvars
<1>5. CASE SendRefused \/ OtherDevice
  <2>1. UNCHANGED host /\ bus = "up" /\ Keep
    BY <1>5, ForgottenIs
  <2> QED BY <1>0, <2>1 DEF Free, Keep
<1>6. CASE \E rq \in Requests : Begin(rq)
  <2>1. host.phase = "idle" /\ bus = "up" /\ usbRxLen' = usbRxLen
    BY <1>6, BeginIs DEF rxvars
  <2> QED BY <1>0, <2>1 DEF Free
<1>7. CASE BusReset
  BY <1>7, BusResetIs
<1> QED BY <1>0, <1>1, <1>2, <1>3, <1>4, <1>5, <1>6, <1>7 DEF Next

\* What usbFunctionWrite has taken, when the packet from a place is served.
LEMMA ReachedIs ==
  \A at, done, count, m \in Nat, n \in 1..8 :
    count <= m =>
      LET c == Lesser(count + n, m)
      IN /\ Lesser(at, m) <= count /\ done <= at + n => Lesser(done, m) <= c
         /\ Lesser(at, m) = count /\ done = at + n => Lesser(done, m) = c
BY DEF Lesser

\* Written: a packet of the data stage is added once unless it came twice.
LEMMA WrittenStep ==
  ASSUME Typing, Sensible, Received, Served, Written, Next
  PROVE  Written'
<1> SUFFICES ASSUME usbMsgFlags' = "user_rw"
             PROVE  /\ OutWaits' =>
                         /\ Reached(Data.at)' <= usb_transfer'.count
                         /\ spent'.acks = 0 => usb_transfer'.count = Reached(Data.at)'
                         /\ host'.phase = "out" =>
                              /\ host'.done <= Data'.at + Data'.len
                              /\ spent'.acks = 0 => host'.done = Data'.at + Data'.len
                    /\ host'.phase = "out" /\ ~OutWaits' /\ ~SetupWaits' =>
                         /\ Reached(host.done)' <= usb_transfer'.count
                         /\ spent'.acks = 0 => usb_transfer'.count = Reached(host.done)'
  BY DEF Written
<1>0. spent'.acks = 0 => spent.acks = 0 /\ ~SendAckLost
  BY SpentIs
<1>1. CASE Turn
  <2>1. host' = host /\ spent' = spent /\ Data' = Data
    BY <1>1, TurnIs
  <2>2. CASE ProcessRx
    <3>1. ~SetupWaits' /\ ~OutWaits'
      BY <1>1, <2>2, TurnWaits
    <3>2. CASE usbRxToken = USBPID_SETUP
      <4>1. SetupWaits /\ FunctionSetup(Data.rq) /\ Data.rq \in Requests
        BY <2>2, <3>2, ProcessSetupIs
      <4>2. SUFFICES ASSUME host.phase = "out"
                     PROVE  Reached(host.done)' = usb_transfer'.count /\ usb_transfer'.count \in Nat
        BY <2>1, <3>1, <4>2 DEF Reached
      <4>3. Data.rq = host.rq /\ host.done = 0 /\ host.rq.name \in Writes
        BY <4>1, <4>2, ServedIs DEF Sensible
      <4>4. usb_transfer' = [count |-> 0, max |-> Lesser(Data.rq.wLength % 256, 17)]
        BY <4>1, <4>3 DEF FunctionSetup
      <4>5. Lesser(Data.rq.wLength % 256, 17) \in Nat
        <5>1. Data.rq.wLength \in 0..256
          BY <4>1, ReplyIs
        <5>2. Data.rq.wLength % 256 \in Nat
          BY <5>1
        <5> QED BY <5>2 DEF Lesser
      <4>6. usb_transfer'.count = 0 /\ usb_transfer'.max \in Nat
        BY <4>4, <4>5
      <4>7. host'.done = 0
        BY <2>1, <4>3
      <4> QED BY <4>6, <4>7 DEF Reached, Lesser
    <3>3. CASE usbRxToken # USBPID_SETUP
      <4> DEFINE n == Data.len
                 c == usb_transfer.count
                 m == usb_transfer.max
      <4>1. /\ OutWaits /\ ~SetupWaits /\ len = n /\ n \in 1..8 /\ usbMsgFlags = "user_rw"
            /\ usb_transfer' = [count |-> c + Taken, max |-> m]
        BY <2>2, <3>3, ProcessOutIs DEF SetupWaits
      <4>2. c + Taken = Lesser(c + n, m)
        BY <4>1, TakenIs
      <4>3. c \in Nat /\ m \in Nat /\ c <= m /\ Data.at \in Nat /\ host.done \in Nat
        BY DataIs DEF Typing
      <4>4. /\ Lesser(Data.at, m) <= c
            /\ spent.acks = 0 => c = Lesser(Data.at, m)
            /\ host.phase = "out" =>
                 /\ host.done <= Data.at + n
                 /\ spent.acks = 0 => host.done = Data.at + n
        BY <4>1 DEF Written, Reached
      <4>5. ASSUME host.phase = "out"
            PROVE  /\ Lesser(host.done, m) <= Lesser(c + n, m)
                   /\ spent.acks = 0 => Lesser(host.done, m) = Lesser(c + n, m)
        <5> DEFINE at == Data.at
                   d == host.done
        <5>1. at \in Nat /\ d \in Nat /\ c \in Nat /\ m \in Nat /\ n \in 1..8 /\ c <= m
          BY <4>1, <4>3
        <5>2. Lesser(at, m) <= c /\ d <= at + n
          BY <4>4, <4>5
        <5>3. spent.acks = 0 => Lesser(at, m) = c /\ d = at + n
          BY <4>4, <4>5
        <5> HIDE DEF at, d, c, m, n
        <5>4. Lesser(d, m) <= Lesser(c + n, m)
          BY <5>1, <5>2, ReachedIs
        <5>5. spent.acks = 0 => Lesser(d, m) = Lesser(c + n, m)
          BY <5>1, <5>3, ReachedIs
        <5> QED BY <5>4, <5>5 DEF d
      <4>7. usb_transfer'.count = Lesser(c + n, m) /\ usb_transfer'.max = m
        BY <4>1, <4>2
      <4> QED BY <2>1, <3>1, <4>5, <4>7 DEF Reached
    <3> QED BY <3>2, <3>3
  <2>3. CASE ~ProcessRx
    <3>1. (SetupWaits' <=> SetupWaits) /\ (OutWaits' <=> OutWaits)
      BY <1>1, <2>3, TurnWaits
    <3>2. UNCHANGED <<usb_transfer, usbMsgFlags>>
      BY <1>1, <2>3
      DEF Turn, PollRx, FreeRx, PollTx, BuildTxBlock, SendTxBlock, LineStatus, InterruptReady,
          SetInterruptLo, SetInterruptHi, SetInterruptLen, Sample, IntrFrame, msgvars, appvars
    <3> QED BY <2>1, <3>1, <3>2 DEF Written, Reached
  <2> QED BY <2>2, <2>3
<1>2. CASE ~Turn
  <2>1. UNCHANGED <<pc, usb_transfer, usbMsgFlags>>
    BY <1>2, HostSteps DEF mainvars, appvars, msgvars
  <2>2. CASE SendAcked \/ SendAckLost
    <3>0. MaySend /\ usbRxLen = 0 /\ ~SetupWaits /\ ~OutWaits
      BY <2>2, SendAckedIs, SendAckLostIs, FreeWaits
    <3>1. CASE host.phase = "setup"
      <4> DEFINE sent == [req |-> host.req, at |-> 0, len |-> 8, rq |-> host.rq]
      <4>1. Store(USBPID_SETUP, sent) /\ sent.len \in 1..8
        BY <2>2, <3>1, SendAckedIs, SendAckLostIs
      <4>2. SetupWaits' /\ ~OutWaits'
        BY <2>1, <4>1, StoreIs
      <4> QED BY <4>2
    <3>2. CASE host.phase = "out"
      <4> DEFINE sent == [req |-> host.req, at |-> host.done, len |-> OutLen,
                          rq |-> NoRequest]
      <4>1. Store(USBPID_OUT, sent) /\ sent.len \in 1..8
        BY <2>2, <3>2, SendAckedIs, SendAckLostIs, SendingIs
      <4>2. OutWaits' /\ ~SetupWaits' /\ Data' = sent
        BY <2>1, <4>1, StoreIs
      <4>3. Data'.at = host.done /\ Data'.len = OutLen
        BY <4>2
      <4>4. OutLen \in 1..8 /\ host.done \in Nat
        BY <3>2, SendingIs, HostFields
      <4>5. /\ Reached(host.done) <= usb_transfer.count
            /\ spent.acks = 0 => usb_transfer.count = Reached(host.done)
        BY <2>1, <3>0, <3>2 DEF Written
      <4>6. Reached(Data.at)' = Reached(host.done)
        BY <2>1, <4>3 DEF Reached
      <4>7. host'.done \in {host.done, host.done + OutLen}
            /\ (~SendAckLost => host'.done = host.done + OutLen)
        BY <2>2, <3>2, SendAckedIs, SendAckLostIs DEF HostIs
      <4>8. host'.done <= Data'.at + Data'.len
        <5> DEFINE d == host.done
        <5> HIDE DEF d
        <5>1. d \in Nat /\ host'.done \in {d, d + OutLen} /\ Data'.at = d /\ Data'.len = OutLen
          BY <4>3, <4>4, <4>7 DEF d
        <5> QED BY <4>4, <5>1
      <4>9. spent'.acks = 0 => host'.done = Data'.at + Data'.len
        BY <1>0, <4>3, <4>7
      <4> QED BY <1>0, <2>1, <4>2, <4>5, <4>6, <4>8, <4>9
    <3>3. CASE host.phase = "statusOut"
      <4>1. Keep
        BY <2>2, <3>3, SendAckedIs, SendAckLostIs
      <4>2. ~OutWaits'
        BY <2>1, <3>0, <4>1, KeptWaits DEF Keep
      <4>3. host'.phase # "out"
        BY <2>2, <3>3, SendAckedIs, SendAckLostIs DEF HostIs
      <4> QED BY <4>2, <4>3
    <3> QED BY <3>0, <3>1, <3>2, <3>3 DEF MaySend
  <2>3. CASE ~SendAcked /\ ~SendAckLost
    <3>1. Keep
      BY <1>2, <2>3, HostSteps
    <3>2. (SetupWaits' <=> SetupWaits) /\ (OutWaits' <=> OutWaits) /\ Data' = Data
      BY <2>1, <3>1, KeptWaits DEF Keep
    <3>3. host'.phase = "out" => host.phase = "out" /\ host'.done = host.done
      <4>1. CASE UNCHANGED host
        BY <4>1
      <4>2. CASE Receive
        BY <4>2, ReceiveIs DEF MayReceive, HostIs
      <4>3. CASE ReceiveReport \/ ReceiveReportLost
        BY <4>3, ReportIs DEF HostIs
      <4>4. CASE Abort \/ BusReset \/ \E rq \in Requests : Begin(rq)
        BY <4>4, AbortIs, BusResetIs, BeginIs DEF HostIs
      <4> QED BY <1>2, <2>3, <4>1, <4>2, <4>3, <4>4, ForgottenIs, ReceiveLostIs,
                 BusResetEndsIs DEF Next
    <3>4. Reached(Data.at)' = Reached(Data.at)
          /\ (host'.phase = "out" => Reached(host.done)' = Reached(host.done))
      BY <2>1, <3>2, <3>3 DEF Reached
    <3> QED BY <1>0, <2>1, <3>2, <3>3, <3>4 DEF Written
  <2> QED BY <2>2, <2>3
<1> QED BY <1>1, <1>2

------------------------------------------------------------------------------
\* The initial states satisfy the invariant.
LEMMA InitIs == Init => IInv
<1> SUFFICES ASSUME Init PROVE IInv
  OBVIOUS
<1>1. Handshake(usbTxLen) /\ Handshake(usbTxStatus1.len)
  BY HandshakeIs DEF Init
<1>2. Typing
  <2>1. usbRxBuf \in [0..1 -> Packets]
    BY PacketsAre DEF Init
  <2>2. usbTxBuf \in [tok : {0, 1}, pkt : Packets]
    BY PacketsAre DEF Init, DATA0
  <2> QED BY <2>1, <2>2
      DEF Init, Typing, USBPID_NAK, Phases, Places, DATA0, DATA1
<1>3. Sensible
  BY DEF Init, Sensible
<1>4. ~SetupWaits /\ ~OutWaits
  BY DEF Init, SetupWaits, OutWaits
<1>5. Received /\ Sent /\ ResetSeen /\ Served /\ Within
  BY <1>1, <1>4 DEF Init, Received, Sent, ResetSeen, Served, Within
<1>6. Replied /\ Free /\ Written
  BY <1>4 DEF Init, Replied, Free, Written
<1>7. Addressed
  BY <1>4 DEF Init, Addressed
<1>8. Reported
  BY <1>1, <1>4 DEF Init, Reported, Filling, DATA0, DATA1
<1> QED BY <1>2, <1>3, <1>5, <1>6, <1>7, <1>8 DEF IInv

\* Every step keeps it.
LEMMA IInvStep ==
  ASSUME IInv, [Next]_vars
  PROVE  IInv'
<1>1. CASE Next
  <2>1. Typing'
    BY <1>1, TurnTyped, HostTyped DEF IInv
  <2>2. Sensible' /\ Received' /\ Sent'
    BY <1>1, SensibleStep, ReceivedStep, SentStep DEF IInv
  <2>3. ResetSeen' /\ Served' /\ Within'
    BY <1>1, ResetSeenStep, ServedStep, WithinStep DEF IInv
  <2>4. Replied' /\ Addressed'
    BY <1>1, RepliedStep, AddressedStep DEF IInv
  <2>5. Reported' /\ Free' /\ Written'
    BY <1>1, ReportedStep, FreeStep, WrittenStep DEF IInv
  <2> QED BY <2>1, <2>2, <2>3, <2>4, <2>5 DEF IInv
<1>2. CASE UNCHANGED vars
  <2>1. /\ UNCHANGED <<usbRxBuf, usbInputBuf, usbRxLen, usbCurrentTok, usbRxToken>>
        /\ UNCHANGED <<usbTxLen, usbTxBuf, usbTxStatus1, usbDeviceAddr, usbNewDeviceAddr>>
        /\ UNCHANGED <<usbMsgAt, usbMsgLen, usbMsgFlags, pc, len, usb_transfer, served>>
        /\ UNCHANGED <<input_report, host, bus, spent>>
    BY <1>2 DEF vars, rxvars, txvars, addrvars, msgvars, mainvars, appvars
  <2>2. Data' = Data /\ (SetupWaits' <=> SetupWaits) /\ (OutWaits' <=> OutWaits)
    BY <2>1, KeptWaits DEF Data
  <2>3. Typing' /\ Sensible' /\ Received' /\ Sent' /\ ResetSeen'
    BY <2>1, <2>2 DEF IInv, Typing, Sensible, Received, Sent, ResetSeen, Handshake
  <2>4. Served' /\ Within' /\ Replied'
    BY <2>1, <2>2 DEF IInv, Served, Within, Replied, Pending, Handshake
  <2>5. Addressed' /\ Reported' /\ Free' /\ Written'
    BY <2>1, <2>2 DEF IInv, Addressed, Reported, Filling, Free, Written, Reached, Handshake
  <2> QED BY <2>3, <2>4, <2>5 DEF IInv
<1> QED BY <1>1, <1>2

\* It always holds.
LEMMA AlwaysInvariant == Spec => []IInv
<1>1. IInv /\ [Next]_vars => IInv'
  BY IInvStep
<1> QED BY <1>1, InitIs, PTL DEF Spec

\* Every packet fits its buffer, and a transmit length is that of a packet or
\* a handshake (usbdrv.c:24-38).
THEOREM UsbTypeCorrect == Spec => []TypeOK
<1>1. IInv => TypeOK
  BY DEF IInv, Typing, TypeOK, Packets
<1> QED BY <1>1, AlwaysInvariant, PTL

\* A host that waits gets the next part of the reply to its own request,
\* whatever the interrupt routine receives while usbPoll works
\* (usbdrv.c:443-474, 524-590, asmcommon.inc:131-136).
THEOREM RepliesExact == Spec => []ReplyExact
<1>1. IInv => ReplyExact
  <2> SUFFICES ASSUME IInv, Ready
               PROVE  /\ usbTxBuf.pkt.req = host.req
                      /\ spent.data = 0 =>
                          /\ usbTxBuf.tok = host.tog
                          /\ host.phase = "statusIn" => usbTxBuf.pkt.len = 0
                          /\ host.phase = "in" =>
                               /\ usbTxBuf.pkt.at = host.done
                               /\ usbTxBuf.pkt.len = Lesser(8, ReplyLen(host.rq) - host.done)
    BY DEF ReplyExact
  <2>1. ~SetupWaits /\ Pending /\ host.phase \in {"in", "statusIn"} /\ ~Handshake(usbTxLen)
    BY FreeWaits DEF Ready, Pending, MayReceive
  <2>2. usbTxBuf.pkt.req = served /\ served = host.req
    BY <2>1 DEF IInv, Sent, Served
  <2>3. host.phase = "statusIn" => host.tog = DATA1
    BY DEF IInv, Sensible
  <2> QED BY <2>1, <2>2, <2>3 DEF IInv, Replied
<1> QED BY <1>1, AlwaysInvariant, PTL

\* "We must not NAK next SETUP" (asmcommon.inc:118).
THEOREM SetupsReady == Spec => []SetupReady
<1>1. IInv => SetupReady
  BY DEF IInv, Free, SetupReady
<1> QED BY <1>1, AlwaysInvariant, PTL

\* The host and the device agree on the address, through SET_ADDRESS and
\* resets of the bus (usbdrvasm12.inc:372-378, usbdrv.c:597-598).
THEOREM AddressesAgree == Spec => []AddressAgrees
<1>1. IInv => AddressAgrees
  BY DEF IInv, Addressed, AddressAgrees
<1> QED BY <1>1, AlwaysInvariant, PTL

\* A report on endpoint 1 is sent whole (usbdrv.c:221-243), and with the toggle
\* the host expects unless something has set the toggles apart since the last
\* report that reached it: a report that got lost (asmcommon.inc:163-176), a
\* reset of the bus, or the configuration or interface set by the host.
THEOREM InterruptsWhole == Spec => []InterruptWhole
<1>1. IInv => InterruptWhole
  BY DEF IInv, Reported, InterruptWhole
<1> QED BY <1>1, AlwaysInvariant, PTL

\* usbFunctionWrite is given the packets of the request it serves in order and
\* without a gap (usbdrv.c:474-481, asmcommon.inc:119-127).
THEOREM WritesExact == Spec => WriteExact
<1> DEFINE Exact == (pc = "process" /\ usb_transfer'.count > usb_transfer.count) =>
                      /\ Data.req = served
                      /\ spent.acks = 0 => Data.at = usb_transfer.count
                      /\ Data.at <= usb_transfer.count
<1>1. IInv /\ [Next]_vars => [Exact]_vars
  <2> SUFFICES ASSUME IInv, Next, pc = "process", usb_transfer'.count > usb_transfer.count
               PROVE  /\ Data.req = served
                      /\ spent.acks = 0 => Data.at = usb_transfer.count
                      /\ Data.at <= usb_transfer.count
    OBVIOUS
  <2>0. Typing /\ Sensible /\ Received /\ Served /\ Written
    BY DEF IInv
  <2>1. usb_transfer.count \in Nat /\ usb_transfer.max \in Nat /\ Data.at \in Nat
    BY <2>0, DataIs DEF Typing
  <2>2. ProcessRx
    <3>1. Turn
      <4>1. ~Turn => usb_transfer' = usb_transfer
        BY <2>0, HostSteps DEF mainvars, appvars
      <4> QED BY <2>1, <4>1
    <3> QED BY <2>0, <3>1, TurnWaits
  <2>3. usbRxToken # USBPID_SETUP
    <3>1. usbRxToken = USBPID_SETUP => FunctionSetup(Data.rq)
      BY <2>0, <2>2, ProcessSetupIs
    <3>2. FunctionSetup(Data.rq) => usb_transfer'.count \in {0, usb_transfer.count}
      BY DEF FunctionSetup
    <3> QED BY <2>1, <3>1, <3>2
  <2>4. OutWaits /\ len \in 1..8 /\ usbMsgFlags = "user_rw"
        /\ usb_transfer'.count = usb_transfer.count + Taken
    BY <2>0, <2>1, <2>2, <2>3, ProcessOutIs
  <2>5. usb_transfer.count < usb_transfer.max
    BY <2>0, <2>1, <2>4, TakenIs
  <2>6. Data.req = served
    BY <2>0, <2>4 DEF Served
  <2>7. /\ Lesser(Data.at, usb_transfer.max) <= usb_transfer.count
        /\ spent.acks = 0 => usb_transfer.count = Lesser(Data.at, usb_transfer.max)
    BY <2>0, <2>4 DEF Written, Reached
  <2>8. \A a, c, m \in Nat : c < m => /\ Lesser(a, m) <= c => a <= c
                                      /\ c = Lesser(a, m) => a = c
    BY DEF Lesser
  <2> QED BY <2>1, <2>5, <2>6, <2>7, <2>8
<1> QED BY <1>1, AlwaysInvariant, PTL DEF Spec, WriteExact

=============================================================================
