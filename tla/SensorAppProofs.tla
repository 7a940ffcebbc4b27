---------------------------- MODULE SensorAppProofs ----------------------------
(***************************************************************************)
(* Proofs about SensorApp, for every size of a report, number of records,  *)
(* size of packets, announced length, and number of requests and resets.   *)
(***************************************************************************)
EXTENDS SensorApp, TLAPS

\* The types of the host's request and of the history.
HistoryType ==
    /\ request \in [left : Nat, sent : Nat, bytes : [0..Count -> 0..255]]
    /\ job \in [set : Calibration \cup {0}, data : Record, before : Record,
                copied : Nat, clean : BOOLEAN]

\* While a request has packets left, the buffer holds what has been taken of
\* it, unless the announced length has been reached.
Assembled ==
    request.left > 0 =>
        /\ usb_transfer.max = Announced(request.sent + request.left)
        /\ usb_transfer.count = Lesser(request.sent, usb_transfer.max)
        /\ \A i \in 0..Count : i < usb_transfer.count => feature_report[i] = request.bytes[i]
        /\ request.bytes[0] = MUX => request.sent + request.left = 2

\* The history tells of the copy that is going on.
Tracked ==
    /\ Busy => /\ job.set = eeprom_transfer.set /\ job.copied = eeprom_transfer.pos
               /\ job.clean => \A i \in Bytes : feature_report[i] = job.data[i]
    /\ job.clean => job.set \in Calibration

IInv == TypeOK /\ HistoryType /\ InBounds /\ Assembled /\ Tracked /\ EepromPrefix

USE SensorAppAssumption DEF SensorAppAssumption, MUX, DATA, PARAMETERS

state == <<active_subrq_mux, feature_report, g_parameters, usb_transfer,
           eeprom_transfer, ee_calibration, job>>

\* The records are numbered from 16 on, so that none is 0 or the parameters.
LEMMA Selections ==
  /\ Calibration = {CALIBRATION_SET(k) : k \in Sets}
  /\ Subrqs \subseteq 0..23 /\ Calibration \subseteq 16..23
<1>1. \A k \in Sets : CALIBRATION_SET(k) \in 16..23
  BY DEF CALIBRATION_SET
<1> QED BY <1>1 DEF Calibration, Subrqs

LEMMA LesserIs ==
  \A a, b \in Int : Lesser(a, b) \in {a, b} /\ Lesser(a, b) <= a /\ Lesser(a, b) <= b
BY DEF Lesser

\* The low byte of a length is a number, and a MUX report's is its length.
LEMMA AnnouncedIs ==
  /\ \A len \in Nat : Announced(len) \in 0..Count + 1
  /\ Announced(2) = 2
  /\ \A len \in Nat : len % LengthMod > Count => Announced(len) = Count + 1
<1>1. \A len \in Nat : len % LengthMod \in Nat
  OBVIOUS
<1>2. 2 % LengthMod = 2
  OBVIOUS
<1> QED BY <1>1, <1>2, LesserIs DEF Announced, Lesser

\* What usbFunctionWrite (main.c:193-216) appends.
LEMMA AppendedIs ==
  ASSUME TypeOK, HistoryType, InBounds, Assembled, request.left > 0
  PROVE  LET n == Lesser(usb_transfer.max - usb_transfer.count, Packet) IN
         /\ Packet \in 1..request.left
         /\ n \in Nat /\ usb_transfer.count + n <= usb_transfer.max
         /\ usb_transfer.count + n = Lesser(request.sent + Packet, usb_transfer.max)
         /\ Appended(n) \in [0..Count -> 0..255]
         /\ \A i \in 0..Count : i < usb_transfer.count + n => Appended(n)[i] = request.bytes[i]
         /\ n = 0 => Appended(n) = feature_report
<1> DEFINE n == Lesser(usb_transfer.max - usb_transfer.count, Packet)
           at == usb_transfer.count
<1>0. /\ request.left \in Nat \ {0} /\ request.sent \in Nat
      /\ at \in Nat /\ usb_transfer.max \in Nat /\ at <= usb_transfer.max
      /\ at = Lesser(request.sent, usb_transfer.max)
      /\ \A i \in 0..Count : feature_report[i] \in 0..255 /\ request.bytes[i] \in 0..255
      /\ \A i \in 0..Count : i < at => feature_report[i] = request.bytes[i]
      /\ feature_report \in [0..Count -> 0..255]
  <2>1. /\ request.left \in Nat \ {0} /\ request.sent \in Nat
        /\ request.bytes \in [0..Count -> 0..255]
    BY DEF HistoryType
  <2>2. /\ at \in Nat /\ usb_transfer.max \in Nat /\ at <= usb_transfer.max
        /\ feature_report \in [0..Count -> 0..255]
    BY DEF TypeOK, InBounds
  <2>3. /\ at = Lesser(request.sent, usb_transfer.max)
        /\ \A i \in 0..Count : i < at => feature_report[i] = request.bytes[i]
    BY DEF Assembled
  <2> QED BY <2>1, <2>2, <2>3
<1>1. Packet \in 1..request.left
  BY <1>0 DEF Packet, Lesser
<1>2. n \in Nat /\ at + n <= usb_transfer.max /\ n <= Packet
  BY <1>0, <1>1 DEF Lesser
<1>3. at + n = Lesser(request.sent + Packet, usb_transfer.max)
  BY <1>0, <1>1 DEF Lesser
<1>4. n > 0 => at = request.sent
  BY <1>0, <1>1, <1>2 DEF Lesser
<1>5. \A i \in 0..Count : Appended(n)[i] =
        IF i \in at..(at + n - 1) THEN request.bytes[i] ELSE feature_report[i]
  <2> TAKE i \in 0..Count
  <2>1. CASE i \in at..(at + n - 1)
    <3>1. at = request.sent /\ request.sent + i - at = i
      BY <2>1, <1>0, <1>2, <1>4
    <3> QED BY <2>1, <3>1 DEF Appended
  <2>2. CASE i \notin at..(at + n - 1)
    BY <2>2 DEF Appended
  <2> QED BY <2>1, <2>2
<1> HIDE DEF n
<1>6. Appended(n) = [i \in 0..Count |-> Appended(n)[i]]
  BY DEF Appended
<1>7. Appended(n) \in [0..Count -> 0..255]
  <2>1. \A i \in 0..Count : Appended(n)[i] \in 0..255
    BY <1>0, <1>5
  <2> HIDE DEF at
  <2> DEFINE A == Appended(n)
  <2>2. A = [i \in 0..Count |-> A[i]] /\ \A i \in 0..Count : A[i] \in 0..255
    BY <1>6, <2>1
  <2> HIDE DEF A
  <2>3. A \in [0..Count -> 0..255]
    BY <2>2
  <2> QED BY <2>3 DEF A
<1>8. ASSUME NEW i \in 0..Count, i < at + n PROVE Appended(n)[i] = request.bytes[i]
  <2>1. CASE i < at
    <3>1. i \notin at..(at + n - 1) /\ feature_report[i] = request.bytes[i]
      BY <2>1, <1>0
    <3> QED BY <3>1, <1>5
  <2>2. CASE ~(i < at)
    <3>1. i \in at..(at + n - 1)
      BY <2>2, <1>0, <1>2, <1>8
    <3> QED BY <3>1, <1>5
  <2> QED BY <2>1, <2>2
<1>9. n = 0 => Appended(n) = feature_report
  <2>1. n = 0 => \A i \in 0..Count : Appended(n)[i] = feature_report[i]
    <3>1. n = 0 => \A i \in 0..Count : i \notin at..(at + n - 1)
      BY <1>0
    <3> QED BY <3>1, <1>5
  <2> QED BY <1>0, <1>6, <2>1
<1> QED BY <1>1, <1>2, <1>3, <1>7, <1>8, <1>9 DEF n
LEMMA MessageIs ==
  \A id \in {MUX, DATA}, subrq \in 0..23, p \in {0, 1, 2} :
     Message(id, subrq, p) \in [0..Count -> 0..255] /\ Message(id, subrq, p)[0] = id
<1> TAKE id \in {MUX, DATA}, subrq \in 0..23, p \in {0, 1, 2}
<1>1. \A i \in 0..Count : (100 * p + i) % 256 \in 0..255
  OBVIOUS
<1> QED BY <1>1 DEF Message

\* A request that is over promises nothing of the buffer.
LEMMA Over ==
  ASSUME request' = NoRequest
  PROVE  request' \in [left : Nat, sent : Nat, bytes : [0..Count -> 0..255]] /\ Assembled'
BY DEF NoRequest, Assembled

\* While the copy stands still, a step that leaves the data bytes of the
\* buffer alone, or notes in the history that it does not, keeps what the
\* history tells.
LEMMA CopyUntouched ==
  ASSUME IInv, UNCHANGED <<ee_calibration, eeprom_transfer, resets>>,
         \/ job' = job /\ \A i \in Bytes : feature_report'[i] = feature_report[i]
         \/ job' = Disturbed
  PROVE  /\ job' \in [set : Calibration \cup {0}, data : Record, before : Record,
                      copied : Nat, clean : BOOLEAN]
         /\ Tracked' /\ EepromPrefix'
<1>1. Busy' = Busy
  BY DEF Busy
<1>2. CASE job' = job /\ \A i \in Bytes : feature_report'[i] = feature_report[i]
  BY <1>1, <1>2 DEF IInv, HistoryType, Tracked, EepromPrefix, Busy, Bytes
<1>3. CASE job' = Disturbed /\ ~Busy
  BY <1>1, <1>3 DEF IInv, HistoryType, Tracked, EepromPrefix, Disturbed
<1>4. CASE job' = Disturbed /\ Busy
  <2>1. job' = [NoJob EXCEPT !.set = job.set, !.copied = job.copied]
    BY <1>4 DEF Disturbed
  <2>2. /\ job'.set = job.set /\ job'.copied = job.copied /\ job'.clean = FALSE
        /\ job'.data = Zero /\ job'.before = Blank
        /\ job' = [set |-> job.set, data |-> Zero, before |-> Blank,
                   copied |-> job.copied, clean |-> FALSE]
    BY <2>1 DEF NoJob
  <2>3. Zero \in Record /\ Blank \in Record
    BY DEF Zero, Blank, Record
  <2>4. job.set \in Calibration \cup {0} /\ job.copied \in Nat
    BY DEF IInv, HistoryType
  <2>5. job' \in [set : Calibration \cup {0}, data : Record, before : Record,
                  copied : Nat, clean : BOOLEAN]
    BY <2>2, <2>3, <2>4
  <2>6. Tracked' /\ EepromPrefix'
    BY <1>1, <1>4, <2>2 DEF IInv, Tracked, EepromPrefix
  <2> QED BY <2>5, <2>6
<1> QED BY <1>2, <1>3, <1>4

\* A turn in which nothing is received, a request that changes nothing, and a
\* turn without a copy.
LEMMA QuietKeeps ==
  ASSUME IInv, UNCHANGED state, resets' = resets,
         loop' \in {"poll", "eeprom"}, setups' \in 0..MaxSetups,
         request' = request \/ request' = NoRequest
  PROVE  IInv'
<1>1. TypeOK' /\ InBounds'
  BY DEF IInv, TypeOK, InBounds, Busy, state
<1>2. HistoryType' /\ Tracked' /\ EepromPrefix'
  BY CopyUntouched, Over DEF IInv, HistoryType, state
<1>3. Assembled'
  BY Over DEF IInv, Assembled, state
<1> QED BY <1>1, <1>2, <1>3 DEF IInv

\* GET_REPORT of a feature report (main.c:162-176).
LEMMA GetKeeps ==
  ASSUME IInv, setups' \in 0..MaxSetups,
         GetUnknown(0) \/ GetMux \/ GetData
  PROVE  IInv'
<1> USE DEF IInv
<1>1. /\ loop' = "eeprom" /\ request' = NoRequest
      /\ UNCHANGED <<ee_calibration, resets, active_subrq_mux, g_parameters,
                     usb_transfer, eeprom_transfer>>
  BY DEF GetUnknown, GetMux, GetData, Poll
<1>2. feature_report' \in [0..Count -> 0..255]
  <2>0. /\ feature_report \in [0..Count -> 0..255] /\ active_subrq_mux \in 0..255
        /\ g_parameters \in [Bytes -> 0..255]
        /\ ee_calibration \in [Calibration -> [Bytes -> 0..255]]
    BY DEF TypeOK, Record
  <2> HIDE DEF IInv
  <2>1. CASE GetUnknown(0)
    BY <2>0, <2>1 DEF GetUnknown
  <2>2. CASE GetMux
    <3>1. feature_report' = [[feature_report EXCEPT ![0] = MUX] EXCEPT ![1] = active_subrq_mux]
      BY <2>2 DEF GetMux
    <3>2. MUX \in 0..255 /\ 0 \in 0..Count /\ 1 \in 0..Count
      OBVIOUS
    <3>3. [feature_report EXCEPT ![0] = MUX] \in [0..Count -> 0..255]
      BY <2>0, <3>2
    <3> QED BY <2>0, <3>1, <3>2, <3>3
  <2>3. CASE GetData
    <3>1. \A i \in Bytes : Selected[i] \in 0..255
      <4>1. CASE active_subrq_mux = PARAMETERS
        BY <2>0, <4>1 DEF Selected
      <4>2. CASE active_subrq_mux # PARAMETERS /\ active_subrq_mux \in Calibration
        BY <2>0, <4>2 DEF Selected
      <4>3. CASE active_subrq_mux # PARAMETERS /\ active_subrq_mux \notin Calibration
        BY <2>0, <4>3 DEF Selected, Bytes
      <4> QED BY <4>1, <4>2, <4>3
    <3>2. \A i \in 0..Count : i # 0 => i \in Bytes
      BY DEF Bytes
    <3> QED BY <2>3, <3>1, <3>2 DEF GetData
  <2> QED BY <2>1, <2>2, <2>3
<1>3. TypeOK' /\ InBounds'
  BY <1>1, <1>2 DEF TypeOK, InBounds, Busy
<1>4. \/ job' = job /\ \A i \in Bytes : feature_report'[i] = feature_report[i]
      \/ job' = Disturbed
  BY DEF GetUnknown, GetMux, GetData, Bytes, TypeOK
<1>5. HistoryType' /\ Tracked' /\ EepromPrefix' /\ Assembled'
  BY <1>1, <1>4, CopyUntouched, Over DEF HistoryType
<1> QED BY <1>3, <1>5

\* SET_REPORT (main.c:178-182): what was taken of the report before is
\* forgotten.
LEMMA SetKeeps ==
  ASSUME IInv, setups' \in 0..MaxSetups,
         \/ SetReportOther(2)
         \/ \E s \in Subrqs : SetReport(2, Message(MUX, s, 0))
         \/ \E len \in Lengths, p \in Payloads : SetReport(len, Message(DATA, 0, p))
  PROVE  IInv'
<1> USE DEF IInv
<1>1. /\ loop' = "eeprom" /\ job' = job
      /\ UNCHANGED <<ee_calibration, resets, active_subrq_mux, g_parameters,
                     feature_report, eeprom_transfer>>
  BY DEF SetReportOther, SetReport, Poll
<1>2. Tracked' /\ EepromPrefix' /\ job' \in [set : Calibration \cup {0}, data : Record,
                                             before : Record, copied : Nat, clean : BOOLEAN]
  BY <1>1, CopyUntouched
<1>3. ASSUME NEW len \in Nat, usb_transfer' = [count |-> 0, max |-> Announced(len)]
      PROVE  TypeOK' /\ InBounds'
  <2>1. Announced(len) \in 0..Count + 1
    BY AnnouncedIs
  <2>2. /\ usb_transfer'.count = 0 /\ usb_transfer'.max = Announced(len)
        /\ usb_transfer' \in [count : Nat, max : Nat]
    BY <1>3, <2>1
  <2>3. TypeOK'
    BY <1>1, <2>2 DEF TypeOK
  <2>4. InBounds'
    BY <1>1, <2>1, <2>2 DEF InBounds, Busy
  <2> QED BY <2>3, <2>4
<1>4. CASE SetReportOther(2)
  BY <1>2, <1>3, <1>4, Over DEF SetReportOther, HistoryType
<1>5. ASSUME NEW len \in Nat \ {0}, NEW msg \in [0..Count -> 0..255], SetReport(len, msg),
             msg[0] = MUX => len = 2
      PROVE  IInv'
  <2>1. /\ usb_transfer' = [count |-> 0, max |-> Announced(len)]
        /\ request' = [left |-> len, sent |-> 0, bytes |-> msg]
    BY <1>5 DEF SetReport
  <2>2. HistoryType'
    BY <1>2, <2>1 DEF HistoryType
  <2>3. Assembled'
    <3>1. /\ usb_transfer'.max = Announced(len) /\ usb_transfer'.count = 0
          /\ request'.sent = 0 /\ request'.left = len /\ request'.bytes = msg
      BY <2>1
    <3>2. Announced(len) \in Nat
      <4>1. len \in Nat /\ Announced(len) \in 0..Count + 1
        BY AnnouncedIs
      <4> QED BY <4>1
    <3>3. Lesser(0, Announced(len)) = 0
      BY <3>2 DEF Lesser
    <3>4. len + 0 = len /\ 0 + len = len
      OBVIOUS
    <3> HIDE DEF IInv
    <3>5. usb_transfer'.max = Announced(request'.sent + request'.left)
      BY <3>1, <3>4
    <3>6. usb_transfer'.count = Lesser(request'.sent, usb_transfer'.max)
      BY <3>1, <3>3
    <3>7. request'.bytes[0] = MUX => request'.sent + request'.left = 2
      BY <1>5, <3>1, <3>4
    <3>8. \A i \in 0..Count : ~(i < usb_transfer'.count)
      BY <3>1
    <3> QED BY <3>5, <3>6, <3>7, <3>8 DEF Assembled
  <2> QED BY <1>2, <1>3, <2>1, <2>2, <2>3
<1>6. ASSUME NEW s \in Subrqs, SetReport(2, Message(MUX, s, 0)) PROVE IInv'
  <2>1. s \in 0..23
    BY Selections
  <2>2. Message(MUX, s, 0) \in [0..Count -> 0..255]
    BY <2>1, MessageIs
  <2> QED BY <1>5, <1>6, <2>2
<1>7. ASSUME NEW len \in Lengths, NEW p \in Payloads, SetReport(len, Message(DATA, 0, p))
      PROVE  IInv'
  <2>1. 0 \in 0..23 /\ p \in {0, 1, 2} /\ DATA \in {MUX, DATA} /\ DATA # MUX
    OBVIOUS
  <2>2. Message(DATA, 0, p) \in [0..Count -> 0..255] /\ Message(DATA, 0, p)[0] = DATA
    BY <2>1, MessageIs
  <2> QED BY <1>5, <1>7, <2>1, <2>2
<1> QED BY <1>4, <1>6, <1>7
\* A packet (main.c:193-216), and what follows when it completes a report.
LEMMA ChunkKeeps == ASSUME IInv, WriteChunk PROVE IInv'
<1> DEFINE n == Lesser(usb_transfer.max - usb_transfer.count, Packet)
           R == Appended(n)
           Complete == n > 0 /\ usb_transfer.count + n = usb_transfer.max
<1>1. request.left > 0
  BY DEF WriteChunk
<1>2. /\ Packet \in 1..request.left /\ n \in Nat
      /\ usb_transfer.count + n <= usb_transfer.max
      /\ usb_transfer.count + n = Lesser(request.sent + Packet, usb_transfer.max)
      /\ R \in [0..Count -> 0..255]
      /\ \A i \in 0..Count : i < usb_transfer.count + n => R[i] = request.bytes[i]
      /\ n = 0 => R = feature_report
  BY <1>1, AppendedIs DEF IInv
<1>3. /\ loop' = "eeprom" /\ UNCHANGED <<ee_calibration, resets, setups>>
      /\ request' = IF request.left = Packet THEN NoRequest
                    ELSE [request EXCEPT !.left = @ - Packet, !.sent = @ + Packet]
      /\ feature_report' = R
      /\ usb_transfer' = [usb_transfer EXCEPT !.count = @ + n]
      /\ Complete => Commit(R)
      /\ ~Complete => /\ job' = IF n > 0 THEN Disturbed ELSE job
                      /\ UNCHANGED <<active_subrq_mux, g_parameters, eeprom_transfer>>
  BY DEF WriteChunk, Poll
<1> HIDE DEF n, R, Complete
<1>4. /\ request.left \in Nat /\ request.sent \in Nat
      /\ request \in [left : Nat, sent : Nat, bytes : [0..Count -> 0..255]]
      /\ usb_transfer \in [count : Nat, max : Nat]
  BY DEF IInv, HistoryType, TypeOK
<1>5. /\ request' \in [left : Nat, sent : Nat, bytes : [0..Count -> 0..255]]
      /\ Assembled'
  <2>1. CASE request.left = Packet
    BY <2>1, <1>3, Over
  <2>2. CASE request.left # Packet
    <3>1. /\ request' = [left |-> request.left - Packet, sent |-> request.sent + Packet,
                         bytes |-> request.bytes]
      BY <2>2, <1>3, <1>4
    <3>2. /\ request.left - Packet \in Nat /\ request.sent + Packet \in Nat
          /\ (request.sent + Packet) + (request.left - Packet) = request.sent + request.left
      BY <1>2, <1>4
    <3>3. /\ usb_transfer'.max = usb_transfer.max
          /\ usb_transfer'.count = usb_transfer.count + n
      BY <1>3, <1>4
    <3>4. /\ usb_transfer.max = Announced(request.sent + request.left)
          /\ request.bytes[0] = MUX => request.sent + request.left = 2
      BY <1>1 DEF IInv, Assembled
    <3>5. Assembled'
      <4>1. /\ request'.left = request.left - Packet /\ request'.sent = request.sent + Packet
            /\ request'.bytes = request.bytes
        BY <3>1
      <4>2. usb_transfer'.max = Announced(request'.sent + request'.left)
        BY <3>2, <3>3, <3>4, <4>1
      <4>3. usb_transfer'.count = Lesser(request'.sent, usb_transfer'.max)
        BY <1>2, <3>3, <4>1
      <4>4. \A i \in 0..Count : i < usb_transfer'.count => feature_report'[i] = request'.bytes[i]
        BY <1>2, <1>3, <3>3, <4>1
      <4>5. request'.bytes[0] = MUX => request'.sent + request'.left = 2
        BY <3>2, <3>4, <4>1
      <4> QED BY <4>2, <4>3, <4>4, <4>5 DEF Assembled
    <3>6. request.bytes \in [0..Count -> 0..255]
      BY <1>4
    <3> QED BY <3>1, <3>2, <3>5, <3>6
  <2> QED BY <2>1, <2>2
<1>6. /\ usb_transfer' \in [count : Nat, max : Nat]
      /\ usb_transfer'.count <= usb_transfer'.max /\ usb_transfer'.max <= Count + 1
  <2>1. usb_transfer'.max = usb_transfer.max /\ usb_transfer'.count = usb_transfer.count + n
        /\ usb_transfer' \in [count : Nat, max : Nat]
    BY <1>2, <1>3, <1>4
  <2>2. usb_transfer.max <= Count + 1
    BY DEF IInv, InBounds
  <2> QED BY <1>2, <2>1, <2>2
<1>7. /\ ee_calibration' \in [Calibration -> Record] /\ loop' \in {"poll", "eeprom"}
      /\ feature_report' \in [0..Count -> 0..255]
      /\ setups' \in 0..MaxSetups /\ resets' \in 0..MaxResets
  BY <1>2, <1>3 DEF IInv, TypeOK
<1>8. /\ active_subrq_mux' \in 0..255 /\ g_parameters' \in Record
  <2>0. /\ active_subrq_mux \in 0..255 /\ g_parameters \in Record
        /\ R[1] \in 0..255 /\ [i \in Bytes |-> R[i]] \in Record
    BY <1>2 DEF IInv, TypeOK, Record, Bytes
  <2>1. CASE Complete
    BY <2>0, <2>1, <1>3 DEF Commit
  <2>2. CASE ~Complete
    BY <2>0, <2>2, <1>3
  <2> QED BY <2>1, <2>2
<1>9. CASE Complete /\ Accepts(R)
  <2>1. /\ active_subrq_mux \in Calibration /\ ~Busy
        /\ eeprom_transfer' = [set |-> active_subrq_mux, pos |-> 0, count |-> Count]
        /\ job' = [set |-> active_subrq_mux, data |-> [i \in Bytes |-> R[i]],
                   before |-> ee_calibration[active_subrq_mux], copied |-> 0, clean |-> TRUE]
    BY <1>3, <1>9 DEF Commit, Accepts
  <2>2. eeprom_transfer' \in [set : Calibration \cup {0}, pos : Nat, count : Nat]
    BY <2>1
  <2>3. [i \in Bytes |-> R[i]] \in Record /\ ee_calibration[active_subrq_mux] \in Record
    BY <1>2, <2>1 DEF IInv, TypeOK, Record, Bytes
  <2>4. job' \in [set : Calibration \cup {0}, data : Record, before : Record,
                  copied : Nat, clean : BOOLEAN]
    BY <2>1, <2>3
  <2>5. Busy' /\ eeprom_transfer'.pos + eeprom_transfer'.count = Count
              /\ eeprom_transfer'.set \in Calibration
    BY <2>1 DEF Busy
  <2>6. Tracked'
    BY <1>3, <2>1, <2>5 DEF Tracked, Bytes
  <2>7. EepromPrefix'
    BY <1>3, <2>1, <2>5 DEF EepromPrefix, Bytes
  <2> QED BY <1>5, <1>6, <1>7, <1>8, <2>2, <2>4, <2>5, <2>6, <2>7
          DEF IInv, TypeOK, HistoryType, InBounds
<1>10. CASE ~(Complete /\ Accepts(R))
  <2>1. eeprom_transfer' = eeprom_transfer
    BY <1>3, <1>10 DEF Commit
  <2>2. \/ job' = job /\ \A i \in Bytes : feature_report'[i] = feature_report[i]
        \/ job' = Disturbed
    BY <1>2, <1>3, <1>10 DEF Commit
  <2>3. /\ job' \in [set : Calibration \cup {0}, data : Record, before : Record,
                     copied : Nat, clean : BOOLEAN]
        /\ Tracked' /\ EepromPrefix'
    BY <1>3, <2>1, <2>2, CopyUntouched
  <2>4. /\ eeprom_transfer' \in [set : Calibration \cup {0}, pos : Nat, count : Nat]
        /\ Busy' => /\ eeprom_transfer'.pos + eeprom_transfer'.count = Count
                    /\ eeprom_transfer'.set \in Calibration
    BY <2>1 DEF IInv, TypeOK, InBounds, Busy
  <2> QED BY <1>5, <1>6, <1>7, <1>8, <2>3, <2>4 DEF IInv, TypeOK, HistoryType, InBounds
<1> QED BY <1>9, <1>10

\* The copy writes its next byte (main.c:270-278).
LEMMA StepFacts ==
  ASSUME IInv, EepromStep
  PROVE  LET t == eeprom_transfer
             k == t.pos + 1
         IN /\ k \in Bytes /\ t.set \in Calibration /\ job.set = t.set /\ job.copied = t.pos
            /\ eeprom_transfer' = [set |-> t.set, pos |-> k, count |-> t.count - 1]
            /\ t.pos \in Nat /\ t.count \in Nat \ {0} /\ t.pos + t.count = Count
            /\ job' = [job EXCEPT !.copied = k]
            /\ \A s \in Calibration, i \in Bytes :
                 ee_calibration'[s][i] = IF s = t.set /\ i = k THEN feature_report[k]
                                         ELSE ee_calibration[s][i]
            /\ ee_calibration' \in [Calibration -> Record]
<1> DEFINE t == eeprom_transfer
           k == t.pos + 1
<1>1. /\ Busy /\ eeprom_transfer' = [t EXCEPT !.pos = @ + 1, !.count = @ - 1]
      /\ ee_calibration' = [ee_calibration EXCEPT ![t.set][k] = feature_report[k]]
      /\ job' = [job EXCEPT !.copied = @ + 1]
  BY DEF EepromStep, CopyByte
<1>2. /\ t \in [set : Calibration \cup {0}, pos : Nat, count : Nat]
      /\ t.set \in Calibration /\ t.pos + t.count = Count /\ t.count > 0
      /\ job.set = t.set /\ job.copied = t.pos
  BY <1>1 DEF IInv, TypeOK, InBounds, Tracked, Busy
<1>3. k \in Bytes /\ k \in 0..Count
  BY <1>2 DEF Bytes
<1>4. eeprom_transfer' = [set |-> t.set, pos |-> k, count |-> t.count - 1]
  BY <1>1, <1>2
<1>5. feature_report[k] \in 0..255 /\ ee_calibration \in [Calibration -> [Bytes -> 0..255]]
  BY <1>3 DEF IInv, TypeOK, Record
<1> HIDE DEF k
<1>6. ee_calibration' \in [Calibration -> Record]
  BY <1>1, <1>2, <1>3, <1>5 DEF Record
<1>7. \A s \in Calibration, i \in Bytes :
        ee_calibration'[s][i] = IF s = t.set /\ i = k THEN feature_report[k]
                                ELSE ee_calibration[s][i]
  BY <1>1, <1>2, <1>3, <1>5
<1>8. job' = [job EXCEPT !.copied = k]
  BY <1>1, <1>2 DEF k, IInv, HistoryType
<1> QED BY <1>2, <1>3, <1>4, <1>6, <1>7, <1>8 DEF k
LEMMA StepKeeps == ASSUME IInv, EepromStep PROVE IInv'
<1> DEFINE t == eeprom_transfer
           k == t.pos + 1
<1>1. /\ k \in Bytes /\ t.set \in Calibration /\ job.set = t.set /\ job.copied = t.pos
      /\ eeprom_transfer' = [set |-> t.set, pos |-> k, count |-> t.count - 1]
      /\ t.pos \in Nat /\ t.count \in Nat \ {0} /\ t.pos + t.count = Count
      /\ job' = [job EXCEPT !.copied = k]
      /\ \A s \in Calibration, i \in Bytes :
           ee_calibration'[s][i] = IF s = t.set /\ i = k THEN feature_report[k]
                                   ELSE ee_calibration[s][i]
      /\ ee_calibration' \in [Calibration -> Record]
  BY StepFacts
<1>2. /\ loop' = "poll" /\ Busy
      /\ UNCHANGED <<active_subrq_mux, feature_report, g_parameters, usb_transfer,
                     request, setups, resets>>
  BY DEF EepromStep, CopyByte
<1>3. k \in Nat /\ t.count - 1 \in Nat /\ k + (t.count - 1) = Count
  BY <1>1
<1>4. /\ eeprom_transfer'.set = t.set /\ eeprom_transfer'.pos = k
      /\ eeprom_transfer'.count = t.count - 1
      /\ eeprom_transfer' \in [set : Calibration \cup {0}, pos : Nat, count : Nat]
  BY <1>1, <1>3
<1>5. job \in [set : Calibration \cup {0}, data : Record, before : Record,
               copied : Nat, clean : BOOLEAN]
  BY DEF IInv, HistoryType
<1>6. /\ job'.set = t.set /\ job'.copied = k /\ job'.clean = job.clean
      /\ job'.data = job.data /\ job'.before = job.before
      /\ job' \in [set : Calibration \cup {0}, data : Record, before : Record,
                   copied : Nat, clean : BOOLEAN]
  BY <1>1, <1>3, <1>5
<1> HIDE DEF t, k
<1>7. TypeOK'
  BY <1>1, <1>2, <1>4 DEF IInv, TypeOK
<1>8. HistoryType' /\ Assembled'
  BY <1>2, <1>6 DEF IInv, HistoryType, Assembled
<1>9. InBounds'
  BY <1>1, <1>2, <1>3, <1>4 DEF IInv, InBounds, Busy
<1>10. Tracked'
  BY <1>1, <1>2, <1>4, <1>6 DEF IInv, Tracked
<1>11. ASSUME job.clean, NEW i \in Bytes
       PROVE  ee_calibration'[t.set][i] = IF i <= k THEN job.data[i] ELSE job.before[i]
  <2>1. ee_calibration[t.set][i] = IF i <= t.pos THEN job.data[i] ELSE job.before[i]
    BY <1>1, <1>11 DEF IInv, EepromPrefix
  <2>2. CASE i = k
    <3>1. feature_report[k] = job.data[k]
      BY <1>1, <1>2, <1>11 DEF IInv, Tracked
    <3> QED BY <1>1, <1>3, <2>2, <3>1
  <2>3. CASE i # k
    <3>1. i <= k <=> i <= t.pos
      BY <1>1, <2>3 DEF k, Bytes
    <3> QED BY <1>1, <2>1, <2>3, <3>1
  <2> QED BY <2>2, <2>3
<1>12. ~Busy' => k = Count
  BY <1>1, <1>3, <1>4 DEF Busy
<1>13. EepromPrefix'
  BY <1>6, <1>11, <1>12 DEF EepromPrefix
<1> QED BY <1>7, <1>8, <1>9, <1>10, <1>13 DEF IInv

\* A reset at any point (main.c:34-55): EEPROM and its history stay.
LEMMA ResetKeeps == ASSUME IInv, Reset PROVE IInv'
<1>1. /\ resets < MaxResets /\ resets' = resets + 1
      /\ loop' = "poll" /\ active_subrq_mux' = 0 /\ g_parameters' = Zero
      /\ feature_report' = [i \in 0..Count |-> 0]
      /\ usb_transfer' = [count |-> 0, max |-> 0]
      /\ eeprom_transfer' = [set |-> 0, pos |-> 0, count |-> 0]
      /\ request' = NoRequest
      /\ UNCHANGED <<ee_calibration, setups, job>>
  BY DEF Reset
<1>2. Zero \in Record
  BY DEF Zero, Record
<1>3. TypeOK'
  BY <1>1, <1>2 DEF IInv, TypeOK
<1>4. ~Busy' /\ InBounds'
  BY <1>1 DEF InBounds, Busy
<1>5. HistoryType' /\ Assembled'
  BY <1>1, Over DEF IInv, HistoryType
<1>6. resets' # 0
  BY <1>1 DEF IInv, TypeOK
<1>7. Tracked' /\ EepromPrefix'
  BY <1>1, <1>4, <1>6 DEF IInv, Tracked, EepromPrefix
<1> QED BY <1>3, <1>4, <1>5, <1>7 DEF IInv

LEMMA InitHolds == ASSUME Init PROVE IInv
<1>1. Zero \in Record /\ Blank \in Record
  BY DEF Zero, Blank, Record
<1>2. TypeOK
  BY <1>1 DEF Init, TypeOK
<1>3. job = [set |-> 0, data |-> Zero, before |-> Blank, copied |-> 0, clean |-> FALSE]
  BY DEF Init, NoJob
<1>4. HistoryType
  BY <1>1, <1>3 DEF Init, HistoryType, NoRequest
<1>5. InBounds /\ ~Busy
  BY DEF Init, InBounds, Busy
<1>6. Assembled
  BY DEF Init, Assembled, NoRequest
<1>7. Tracked /\ EepromPrefix
  BY <1>3, <1>5 DEF Tracked, EepromPrefix
<1> QED BY <1>2, <1>4, <1>5, <1>6, <1>7 DEF IInv

\* Every step keeps the invariant.
LEMMA NextKeeps == IInv /\ [Next]_vars => IInv'
<1> SUFFICES ASSUME IInv, [Next]_vars PROVE IInv'
  OBVIOUS
<1>0. setups \in 0..MaxSetups
  BY DEF IInv, TypeOK
<1>1. CASE PollIdle \/ EepromIdle \/ UNCHANGED vars
  <2>1. UNCHANGED <<state, resets, setups, request>>
    BY <1>1 DEF PollIdle, Poll, EepromIdle, vars, state
  <2>2. loop' \in {"poll", "eeprom"}
    BY <1>1 DEF PollIdle, Poll, EepromIdle, vars, IInv, TypeOK
  <2> QED BY <1>0, <2>1, <2>2, QuietKeeps
<1>2. CASE Setup
  <2>1. setups' \in 0..MaxSetups
    BY <1>0, <1>2 DEF Setup
  <2>2. CASE SetupOther
    BY <2>1, <2>2, QuietKeeps DEF SetupOther, Poll, state
  <2>3. CASE GetUnknown(0) \/ GetMux \/ GetData
    BY <2>1, <2>3, GetKeeps
  <2>4. CASE \/ SetReportOther(2)
             \/ \E s \in Subrqs : SetReport(2, Message(MUX, s, 0))
             \/ \E len \in Lengths, p \in Payloads : SetReport(len, Message(DATA, 0, p))
    BY <2>1, <2>4, SetKeeps
  <2> QED BY <1>2, <2>2, <2>3, <2>4 DEF Setup
<1>3. CASE WriteChunk
  BY <1>3, ChunkKeeps
<1>4. CASE EepromStep
  BY <1>4, StepKeeps
<1>5. CASE Reset
  BY <1>5, ResetKeeps
<1> QED BY <1>1, <1>2, <1>3, <1>4, <1>5 DEF Next, Turn

LEMMA AlwaysInvariant == Spec => []IInv
BY InitHolds, NextKeeps, PTL DEF Spec
------------------------------------------------------------------------------
\* Every variable keeps its type: whatever lengths a host announces, and
\* whatever it sends.
THEOREM SensorTypeCorrect == Spec => []TypeOK
<1>1. IInv => TypeOK
  BY DEF IInv
<1> QED BY <1>1, AlwaysInvariant, PTL

\* No index leaves its buffer (main.c:200, 273-277).
THEOREM BuffersInBounds == Spec => []InBounds
<1>1. IInv => InBounds
  BY DEF IInv
<1> QED BY <1>1, AlwaysInvariant, PTL

\* While the host leaves the buffer alone, a record is the start of the new
\* data and the rest of the old, also after a reset (main.c:134-140, 270-278).
THEOREM PrefixInEeprom == Spec => []EepromPrefix
<1>1. IInv => EepromPrefix
  BY DEF IInv
<1> QED BY <1>1, AlwaysInvariant, PTL

\* Only the copy writes to EEPROM, and only a packet or a reset starts or
\* ends it out of turn.
LEMMA WhoChanges ==
  ASSUME [Next]_vars
  PROVE  /\ EepromStep \/ ee_calibration' = ee_calibration
         /\ EepromStep \/ WriteChunk \/ Reset \/ eeprom_transfer' = eeprom_transfer
         /\ WriteChunk \/ Reset \/ UNCHANGED <<active_subrq_mux, g_parameters>>
BY DEF Next, Turn, Setup, PollIdle, SetupOther, GetUnknown, GetMux, GetData, SetReport,
       SetReportOther, WriteChunk, EepromIdle, EepromStep, CopyByte, Reset, Poll, vars

\* EEPROM changes only in the record the copy was accepted for, in its next
\* byte, to what the buffer holds there (main.c:134-140, 270-278).
THEOREM NextByteWritten == Spec => NextByteOfOneRecord
<1>1. ASSUME IInv, [Next]_vars, NEW s \in Calibration, ee_calibration'[s] # ee_calibration[s]
      PROVE  /\ s = job.set /\ job.copied + 1 \in Bytes /\ job'.copied = job.copied + 1
             /\ ee_calibration'[s] =
                  [ee_calibration[s] EXCEPT ![job.copied + 1] = feature_report[job.copied + 1]]
  <2> DEFINE k == eeprom_transfer.pos + 1
  <2>1. EepromStep
    BY <1>1, WhoChanges
  <2>2. /\ job.set = eeprom_transfer.set /\ k \in Bytes
        /\ job.copied = eeprom_transfer.pos /\ job' = [job EXCEPT !.copied = k]
        /\ \A i \in Bytes : ee_calibration'[s][i] =
             IF s = eeprom_transfer.set /\ i = k THEN feature_report[k]
             ELSE ee_calibration[s][i]
        /\ ee_calibration'[s] \in [Bytes -> 0..255]
    BY <1>1, <2>1, StepFacts DEF Record
  <2>3. ee_calibration[s] \in [Bytes -> 0..255]
    BY <1>1 DEF IInv, TypeOK, Record
  <2>4. job'.copied = k /\ k = job.copied + 1
    BY <1>1, <2>2 DEF IInv, HistoryType
  <2> HIDE DEF k
  <2>5. s = job.set
    <3>1. \E i \in Bytes : ee_calibration'[s][i] # ee_calibration[s][i]
      BY <1>1, <2>2, <2>3
    <3> QED BY <2>2, <3>1
  <2>6. ee_calibration'[s] = [ee_calibration[s] EXCEPT ![k] = feature_report[k]]
    BY <2>2, <2>3, <2>5
  <2> QED BY <2>2, <2>4, <2>5, <2>6
<1>2. IInv /\ [Next]_vars =>
        [\A s \in Calibration : ee_calibration'[s] # ee_calibration[s] =>
          LET next == job.copied + 1 IN
          /\ s = job.set /\ next \in Bytes /\ job'.copied = next
          /\ ee_calibration'[s] =
               [ee_calibration[s] EXCEPT ![next] = feature_report[next]]]_vars
  BY <1>1
<1> QED BY <1>2, AlwaysInvariant, PTL DEF Spec, NextByteOfOneRecord

\* A copy that is going on is neither restarted nor redirected
\* (main.c:135-137).
THEOREM NeverReplaced == Spec => CopyNotReplaced
<1>1. ASSUME IInv, [Next]_vars, Busy, eeprom_transfer'.count > 0
      PROVE  /\ eeprom_transfer'.set = eeprom_transfer.set
             /\ eeprom_transfer'.pos + eeprom_transfer'.count = Count
             /\ eeprom_transfer'.count <= eeprom_transfer.count
  <2>0. /\ eeprom_transfer.pos + eeprom_transfer.count = Count
        /\ eeprom_transfer \in [set : Calibration \cup {0}, pos : Nat, count : Nat]
    BY <1>1 DEF IInv, TypeOK, InBounds
  <2>1. CASE EepromStep
    BY <1>1, <2>1, StepFacts
  <2>2. CASE WriteChunk
    <3>1. eeprom_transfer' = eeprom_transfer
      BY <1>1, <2>2 DEF WriteChunk, Commit, Accepts
    <3> QED BY <2>0, <3>1
  <2>3. CASE Reset
    BY <1>1, <2>3 DEF Reset
  <2>4. CASE eeprom_transfer' = eeprom_transfer
    BY <2>0, <2>4
  <2> QED BY <1>1, <2>1, <2>2, <2>3, <2>4, WhoChanges
<1>2. IInv /\ [Next]_vars =>
        [Busy /\ eeprom_transfer'.count > 0 =>
          /\ eeprom_transfer'.set = eeprom_transfer.set
          /\ eeprom_transfer'.pos + eeprom_transfer'.count = Count
          /\ eeprom_transfer'.count <= eeprom_transfer.count]_vars
  BY <1>1
<1> QED BY <1>2, AlwaysInvariant, PTL DEF Spec, CopyNotReplaced

\* The report a packet completes is the one that was sent: as far as it was
\* announced, which is all of it for a full one.
LEMMA CompleteReport ==
  ASSUME IInv, WriteChunk,
         ~UNCHANGED <<active_subrq_mux, g_parameters, eeprom_transfer>>
  PROVE  \E R \in [0..Count -> 0..255] :
           /\ Commit(R)
           /\ \A i \in 0..Count : i < usb_transfer.max => R[i] = request.bytes[i]
           /\ usb_transfer.max > 0
           /\ request.bytes[0] = MUX => usb_transfer.max = 2
           /\ FullLength => usb_transfer.max = Count + 1
<1> DEFINE n == Lesser(usb_transfer.max - usb_transfer.count, Packet)
<1>1. /\ request.left > 0 /\ n > 0 /\ usb_transfer.count + n = usb_transfer.max
      /\ Commit(Appended(n))
  BY DEF WriteChunk
<1>2. /\ Appended(n) \in [0..Count -> 0..255]
      /\ \A i \in 0..Count : i < usb_transfer.count + n => Appended(n)[i] = request.bytes[i]
  BY <1>1, AppendedIs DEF IInv
<1> HIDE DEF n
<1>3. /\ usb_transfer.max = Announced(request.sent + request.left)
      /\ request.bytes[0] = MUX => request.sent + request.left = 2
      /\ request.sent + request.left \in Nat /\ usb_transfer.count \in Nat
  BY <1>1 DEF IInv, Assembled, HistoryType, TypeOK
<1>4. n \in Nat => usb_transfer.max > 0
  BY <1>1, <1>3
<1>5. n \in Nat
  BY <1>1, AppendedIs DEF n, IInv
<1>6. FullLength => usb_transfer.max = Count + 1
  BY <1>3, AnnouncedIs DEF FullLength
<1>7. request.bytes[0] = MUX => usb_transfer.max = 2
  BY <1>3, AnnouncedIs
<1> QED BY <1>1, <1>2, <1>4, <1>5, <1>6, <1>7

\* A report of full length sets what the host sent in it (main.c:193-216).
THEOREM ReportsExact == Spec => FullReportExact
<1> DEFINE Exact ==
             resets' = resets =>
               /\ active_subrq_mux' # active_subrq_mux =>
                    active_subrq_mux' = request.bytes[1]
               /\ (g_parameters' # g_parameters /\ FullLength) =>
                    \A i \in Bytes : g_parameters'[i] = request.bytes[i]
               /\ (eeprom_transfer'.count > eeprom_transfer.count /\ FullLength) =>
                    \A i \in Bytes : job'.data[i] = request.bytes[i]
<1>1. ASSUME IInv, [Next]_vars PROVE Exact
  <2>0. 1 \in 0..Count /\ 0 \in 0..Count /\ \A i \in Bytes : i \in 0..Count /\ i < Count + 1
    BY DEF Bytes
  <2>1. CASE WriteChunk /\ ~UNCHANGED <<active_subrq_mux, g_parameters, eeprom_transfer>>
    <3>1. PICK R \in [0..Count -> 0..255] :
            /\ Commit(R)
            /\ \A i \in 0..Count : i < usb_transfer.max => R[i] = request.bytes[i]
            /\ usb_transfer.max > 0
            /\ request.bytes[0] = MUX => usb_transfer.max = 2
            /\ FullLength => usb_transfer.max = Count + 1
      BY <1>1, <2>1, CompleteReport
    <3>2. R[0] = MUX => R[1] = request.bytes[1]
      BY <2>0, <3>1
    <3>3. FullLength => \A i \in Bytes : R[i] = request.bytes[i]
      BY <2>0, <3>1
    <3>4. active_subrq_mux' # active_subrq_mux => active_subrq_mux' = R[1] /\ R[0] = MUX
      BY <3>1 DEF Commit
    <3>5. g_parameters' # g_parameters => g_parameters' = [i \in Bytes |-> R[i]]
      BY <3>1 DEF Commit
    <3>6. eeprom_transfer'.count > eeprom_transfer.count =>
            job'.data = [i \in Bytes |-> R[i]] \/ eeprom_transfer' = eeprom_transfer
      BY <3>1 DEF Commit
    <3>7. eeprom_transfer'.count > eeprom_transfer.count => eeprom_transfer' # eeprom_transfer
      BY <1>1 DEF IInv, TypeOK
    <3> QED BY <3>2, <3>3, <3>4, <3>5, <3>6, <3>7
  <2>2. CASE UNCHANGED <<active_subrq_mux, g_parameters, eeprom_transfer>>
    BY <1>1, <2>2 DEF IInv, TypeOK
  <2>3. CASE EepromStep
    <3>1. UNCHANGED <<active_subrq_mux, g_parameters>>
      BY <2>3 DEF EepromStep, CopyByte
    <3>2. ~(eeprom_transfer'.count > eeprom_transfer.count)
      BY <1>1, <2>3, StepFacts
    <3> QED BY <3>1, <3>2
  <2>4. CASE Reset
    BY <1>1, <2>4 DEF Reset, IInv, TypeOK
  <2> QED BY <1>1, <2>1, <2>2, <2>3, <2>4, WhoChanges
<1>2. IInv /\ [Next]_vars => [Exact]_vars
  BY <1>1
<1> QED BY <1>2, AlwaysInvariant, PTL DEF Spec, FullReportExact
==============================================================================
