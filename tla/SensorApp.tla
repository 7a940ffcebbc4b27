------------------------------ MODULE SensorApp ------------------------------
(***************************************************************************)
(* The report protocol of firmware/main.c.  The host selects what the DATA *)
(* report stands for with a MUX report, then reads or writes the DATA      *)
(* report: the operating parameters in RAM, or one of the calibration      *)
(* records in EEPROM.  A report arrives in chunks and is assembled in      *)
(* feature_report; a calibration record is then copied to EEPROM in the    *)
(* background, one byte per turn of the main loop, out of that same        *)
(* buffer, which every later report overwrites.                            *)
(*                                                                         *)
(* The USB driver is seen through its two callbacks, which usbPoll calls   *)
(* at most once per turn.  A reset clears RAM and keeps EEPROM.            *)
(***************************************************************************)
EXTENDS Integers

CONSTANTS
    Count,                  \* UCD_FEATURE_REPORT_COUNT, data bytes of a report
    Sets,                   \* the calibration records, from 0
    Payloads,               \* what a host writes: each stands for Count bytes
    Lengths,                \* wLength of the SET_REPORT requests
    LengthMod,              \* values of wLength.bytes[0], 256
    ChunkMax,               \* data bytes of one packet, 8
    MaxSetups,              \* bound on requests of the host
    MaxResets               \* bound on resets of the device

ASSUME SensorAppAssumption ==
    /\ Count \in Nat \ {0} /\ ChunkMax \in Nat \ {0} /\ LengthMod \in Nat \ 0..2
    /\ MaxSetups \in Nat /\ MaxResets \in Nat
    /\ Sets \subseteq 0..7 /\ Sets # {}
    /\ Payloads \subseteq {1, 2} /\ Lengths \subseteq Nat \ {0}

\* ucd_api.h
MUX  == 1
DATA == 2
PARAMETERS == 1
CALIBRATION_SET(k) == 16 + k
Subrqs == {0, PARAMETERS} \cup {CALIBRATION_SET(k) : k \in Sets}
Calibration == Subrqs \ {0, PARAMETERS}

VARIABLES
    loop,                   \* where the main loop is: "poll" or "eeprom"
    active_subrq_mux,
    feature_report,         \* [0] is the report id, then Count data bytes
    g_parameters,
    usb_transfer,           \* progress of a report being received
    eeprom_transfer,        \* the record, the bytes copied, the bytes to go
    ee_calibration,         \* EEPROM
    request,                \* the SET_REPORT the host is sending
    setups, resets,
    job                     \* history: the last copy accepted, see below

vars == <<loop, active_subrq_mux, feature_report, g_parameters, usb_transfer,
          eeprom_transfer, ee_calibration, request, setups, resets, job>>

Bytes  == 1..Count
Record == [Bytes -> 0..255]
Blank  == [i \in Bytes |-> 255]         \* erased EEPROM
Zero   == [i \in Bytes |-> 0]
Lesser(a, b) == IF a < b THEN a ELSE b

\* The bytes a host sends: the report's id, then its data.
Message(id, subrq, p) ==
    [i \in 0..Count |-> IF i = 0 THEN id
                        ELSE IF id = MUX THEN (IF i = 1 THEN subrq ELSE 0)
                        ELSE (100 * p + i) % 256]
NoRequest == [left |-> 0, sent |-> 0, bytes |-> [i \in 0..Count |-> 0]]

(***************************************************************************)
(* History of the last copy to EEPROM that was accepted: its record, the   *)
(* data then in feature_report, what the record held before, the bytes     *)
(* copied, and whether the host has left the buffer alone meanwhile.       *)
(***************************************************************************)
NoJob == [set |-> 0, data |-> Zero, before |-> Blank, copied |-> 0, clean |-> FALSE]

Init ==
    /\ loop = "poll"
    /\ active_subrq_mux = 0
    /\ feature_report = [i \in 0..Count |-> 0]
    /\ g_parameters = Zero
    /\ usb_transfer = [count |-> 0, max |-> 0]
    /\ eeprom_transfer = [set |-> 0, pos |-> 0, count |-> 0]
    /\ request = NoRequest
    /\ ee_calibration = [s \in Calibration |-> Blank]
    /\ setups = 0 /\ resets = 0
    /\ job = NoJob

Busy == eeprom_transfer.count > 0
Disturbed == IF Busy THEN [NoJob EXCEPT !.set = job.set, !.copied = job.copied]
             ELSE job

\* One turn of usbPoll.
Poll == loop = "poll" /\ loop' = "eeprom" /\ UNCHANGED <<ee_calibration, resets>>

PollIdle ==
    /\ Poll
    /\ UNCHANGED <<active_subrq_mux, feature_report, g_parameters,
                   usb_transfer, eeprom_transfer, request, setups, job>>

(***************************************************************************)
(* usbFunctionSetup.  Whatever request was going on is abandoned.          *)
(***************************************************************************)
\* GET_REPORT of the input report, and requests that are not implemented.
SetupOther ==
    /\ Poll
    /\ request' = NoRequest
    /\ UNCHANGED <<active_subrq_mux, feature_report, g_parameters,
                   usb_transfer, eeprom_transfer, job>>

\* GET_REPORT of a feature report that does not exist: nothing is returned.
GetUnknown(id) ==
    /\ Poll
    /\ feature_report' = [feature_report EXCEPT ![0] = id]
    /\ request' = NoRequest
    /\ UNCHANGED <<active_subrq_mux, g_parameters, usb_transfer,
                   eeprom_transfer, job>>

GetMux ==
    /\ Poll
    /\ feature_report' = [feature_report EXCEPT ![0] = MUX, ![1] = active_subrq_mux]
    /\ request' = NoRequest
    /\ job' = Disturbed
    /\ UNCHANGED <<active_subrq_mux, g_parameters, usb_transfer, eeprom_transfer>>

\* sensor_read_feature_data: an unknown selection leaves the buffer as it is.
Selected ==
    IF active_subrq_mux = PARAMETERS THEN g_parameters
    ELSE IF active_subrq_mux \in Calibration THEN ee_calibration[active_subrq_mux]
    ELSE [i \in Bytes |-> feature_report[i]]

GetData ==
    /\ Poll
    /\ feature_report' = [i \in 0..Count |-> IF i = 0 THEN DATA ELSE Selected[i]]
    /\ request' = NoRequest
    /\ job' = Disturbed
    /\ UNCHANGED <<active_subrq_mux, g_parameters, usb_transfer, eeprom_transfer>>

\* What fits of an announced length, of which only the low byte is looked at.
Announced(len) == Lesser(len % LengthMod, Count + 1)

\* Mistakes: the announced length is not cut to the size of the buffer; the
\* progress of an abandoned report is kept.
SetReport_keeps_count(len, msg) ==
    /\ Poll
    /\ usb_transfer' = [usb_transfer EXCEPT !.max = Announced(len)]
    /\ request' = [left |-> len, sent |-> 0, bytes |-> msg]
    /\ UNCHANGED <<active_subrq_mux, feature_report, g_parameters,
                   eeprom_transfer, job>>

SetReport_unclamped(len, msg) ==
    /\ Poll
    /\ usb_transfer' = [count |-> 0, max |-> len % LengthMod]
    /\ request' = [left |-> len, sent |-> 0, bytes |-> msg]
    /\ UNCHANGED <<active_subrq_mux, feature_report, g_parameters,
                   eeprom_transfer, job>>

SetReport(len, msg) ==
    /\ Poll
    /\ usb_transfer' = [count |-> 0, max |-> Announced(len)]
    /\ request' = [left |-> len, sent |-> 0, bytes |-> msg]
    /\ UNCHANGED <<active_subrq_mux, feature_report, g_parameters,
                   eeprom_transfer, job>>

\* SET_REPORT of a report that is not a feature report: the driver is told
\* that no data is wanted, and acknowledges what the host sends.
SetReportOther(len) ==
    /\ Poll
    /\ usb_transfer' = [count |-> 0, max |-> Announced(len)]
    /\ request' = NoRequest
    /\ UNCHANGED <<active_subrq_mux, feature_report, g_parameters,
                   eeprom_transfer, job>>

(***************************************************************************)
(* usbFunctionWrite: a chunk is appended, and a report that is complete is *)
(* carried out.                                                            *)
(***************************************************************************)
\* A mistake: a copy that is going on is started over.
Accepts_always(report) == report[0] = DATA /\ active_subrq_mux \in Calibration

\* sensor_write_feature_data: a copy that is still going on is not replaced.
Accepts(report) ==
    report[0] = DATA /\ active_subrq_mux \in Calibration /\ ~Busy

Commit(report) ==
    /\ active_subrq_mux' = IF report[0] = MUX THEN report[1] ELSE active_subrq_mux
    /\ g_parameters' = IF report[0] = DATA /\ active_subrq_mux = PARAMETERS
                       THEN [i \in Bytes |-> report[i]] ELSE g_parameters
    /\ IF Accepts(report)
       THEN /\ eeprom_transfer' = [set |-> active_subrq_mux, pos |-> 0, count |-> Count]
            /\ job' = [set    |-> active_subrq_mux,
                       data   |-> [i \in Bytes |-> report[i]],
                       before |-> ee_calibration[active_subrq_mux],
                       copied |-> 0, clean |-> TRUE]
       ELSE /\ job' = Disturbed
            /\ UNCHANGED eeprom_transfer

\* The host sends the next packet: full, or what is left.
Packet == Lesser(ChunkMax, request.left)

Appended(n) ==
    LET at == usb_transfer.count
    IN [i \in 0..Count |-> IF i \in at..(at + n - 1)
                           THEN request.bytes[request.sent + i - at]
                           ELSE feature_report[i]]

WriteChunk ==
    LET n == Lesser(usb_transfer.max - usb_transfer.count, Packet)
        report == Appended(n)
    IN /\ Poll
       /\ request.left > 0
       /\ request' = IF request.left = Packet THEN NoRequest
                     ELSE [request EXCEPT !.left = @ - Packet, !.sent = @ + Packet]
       /\ feature_report' = report
       /\ usb_transfer' = [usb_transfer EXCEPT !.count = @ + n]
       /\ UNCHANGED setups
       /\ IF n > 0 /\ usb_transfer.count + n = usb_transfer.max
          THEN Commit(report)
          ELSE /\ job' = IF n > 0 THEN Disturbed ELSE job
               /\ UNCHANGED <<active_subrq_mux, g_parameters, eeprom_transfer>>

(***************************************************************************)
(* The rest of the turn: one byte of a pending copy.                       *)
(***************************************************************************)
\* Mistakes: the counter is decremented on idle turns too; the copy starts at
\* the report's id; its destination follows the selection; it waits for the
\* host to be idle.
EepromIdle_counts ==
    /\ loop = "eeprom" /\ ~Busy
    /\ loop' = "poll"
    /\ eeprom_transfer' = [eeprom_transfer EXCEPT !.count = @ - 1]
    /\ UNCHANGED <<active_subrq_mux, feature_report, g_parameters,
                   usb_transfer, ee_calibration, request, setups, resets, job>>

CopyByte(set, from) ==
    /\ loop = "eeprom" /\ Busy
    /\ loop' = "poll"
    /\ LET t == eeprom_transfer
       IN /\ ee_calibration' = [ee_calibration EXCEPT
                                  ![set][t.pos + 1] = feature_report[from]]
          /\ eeprom_transfer' = [t EXCEPT !.pos = @ + 1, !.count = @ - 1]
    /\ job' = [job EXCEPT !.copied = @ + 1]
    /\ UNCHANGED <<active_subrq_mux, feature_report, g_parameters,
                   usb_transfer, request, setups, resets>>

EepromStep_from_id  == CopyByte(eeprom_transfer.set, eeprom_transfer.pos)
EepromStep_retarget == CopyByte(IF active_subrq_mux \in Calibration
                                THEN active_subrq_mux ELSE eeprom_transfer.set,
                                eeprom_transfer.pos + 1)
EepromStep_deferred ==
    IF request.left = 0 THEN CopyByte(eeprom_transfer.set, eeprom_transfer.pos + 1)
    ELSE /\ loop = "eeprom" /\ Busy
         /\ loop' = "poll"
         /\ UNCHANGED <<active_subrq_mux, feature_report, g_parameters,
                        usb_transfer, eeprom_transfer, ee_calibration,
                        request, setups, resets, job>>

EepromIdle ==
    /\ loop = "eeprom" /\ ~Busy
    /\ loop' = "poll"
    /\ UNCHANGED <<active_subrq_mux, feature_report, g_parameters,
                   usb_transfer, eeprom_transfer, ee_calibration, request,
                   setups, resets, job>>

EepromStep == CopyByte(eeprom_transfer.set, eeprom_transfer.pos + 1)

\* Power loss or watchdog: the C startup clears RAM.
Reset ==
    /\ resets < MaxResets
    /\ resets' = resets + 1
    /\ loop' = "poll"
    /\ active_subrq_mux' = 0
    /\ feature_report' = [i \in 0..Count |-> 0]
    /\ g_parameters' = Zero
    /\ usb_transfer' = [count |-> 0, max |-> 0]
    /\ eeprom_transfer' = [set |-> 0, pos |-> 0, count |-> 0]
    /\ request' = NoRequest
    /\ UNCHANGED <<ee_calibration, setups, job>>

Setup ==
    /\ setups < MaxSetups
    /\ setups' = setups + 1
    /\ \/ SetupOther \/ GetUnknown(0) \/ GetMux \/ GetData
       \/ SetReportOther(2)
       \/ \E s \in Subrqs : SetReport(2, Message(MUX, s, 0))
       \/ \E len \in Lengths, p \in Payloads : SetReport(len, Message(DATA, 0, p))

Turn == PollIdle \/ Setup \/ WriteChunk \/ EepromIdle \/ EepromStep

Next == Turn \/ Reset

Spec == Init /\ [][Next]_vars

\* The main loop never blocks.
FairSpec == Spec /\ WF_vars(Turn)

------------------------------------------------------------------------------
(***************************************************************************)
(* Properties.                                                             *)
(***************************************************************************)

\* Every variable has its type; in particular every byte stays a byte.
TypeOK ==
    /\ loop \in {"poll", "eeprom"}
    /\ active_subrq_mux \in 0..255
    /\ feature_report \in [0..Count -> 0..255]
    /\ g_parameters \in Record
    /\ usb_transfer \in [count: Nat, max: Nat]
    /\ eeprom_transfer \in [set: Calibration \cup {0}, pos: Nat, count: Nat]
    /\ ee_calibration \in [Calibration -> Record]
    /\ setups \in 0..MaxSetups /\ resets \in 0..MaxResets

\* No pointer or index leaves its buffer, whatever lengths the host announces
\* and whenever it abandons a request: feature_report[usb_transfer.count]
\* (main.c:200), eeprom_transfer.src and .dst (main.c:273-277).
InBounds ==
    /\ usb_transfer.count <= usb_transfer.max
    /\ usb_transfer.max <= Count + 1
    /\ Busy => /\ eeprom_transfer.pos + eeprom_transfer.count = Count
               /\ eeprom_transfer.set \in Calibration

\* While the host leaves the buffer alone, a record in EEPROM is the new data
\* up to the byte the copy has reached and the old record behind it, also
\* after a reset in the middle; and a copy that ends has copied it all.
EepromPrefix ==
    /\ job.clean => \A i \in Bytes :
         ee_calibration[job.set][i] =
            IF i <= job.copied THEN job.data[i] ELSE job.before[i]
    /\ (job.set # 0 /\ ~Busy /\ resets = 0) => job.copied = Count

\* EEPROM changes only in the record that was selected when the copy was
\* accepted, whatever is selected meanwhile: byte after byte from the first, each
\* once, and each to what the report buffer holds in that place at that time,
\* be it of the accepted report or of a later one (main.c:134-140, 270-278).
NextByteOfOneRecord ==
    [][\A s \in Calibration : ee_calibration'[s] # ee_calibration[s] =>
        LET next == job.copied + 1 IN
        /\ s = job.set /\ next \in Bytes /\ job'.copied = next
        /\ ee_calibration'[s] =
             [ee_calibration[s] EXCEPT ![next] = feature_report[next]]]_vars

\* A copy in progress is neither restarted nor redirected by later reports
\* (main.c:135-137).
CopyNotReplaced ==
    [][Busy /\ eeprom_transfer'.count > 0 =>
        /\ eeprom_transfer'.set = eeprom_transfer.set
        /\ eeprom_transfer'.pos + eeprom_transfer'.count = Count
        /\ eeprom_transfer'.count <= eeprom_transfer.count]_vars

\* What a report of full length sets is what the host sent in it, put
\* together from its packets, although the buffer has been used for other
\* reports before (main.c:193-216).  A report of 256 bytes or more is full if
\* the low byte of its length says so (main.c:180).
FullLength == (request.sent + request.left) % LengthMod > Count
FullReportExact ==
    [][resets' = resets =>
        /\ active_subrq_mux' # active_subrq_mux =>
             active_subrq_mux' = request.bytes[1]
        /\ (g_parameters' # g_parameters /\ FullLength) =>
             \A i \in Bytes : g_parameters'[i] = request.bytes[i]
        /\ (eeprom_transfer'.count > eeprom_transfer.count /\ FullLength) =>
             \A i \in Bytes : job'.data[i] = request.bytes[i]]_vars

\* A copy to EEPROM ends however busy the host keeps the device.
CopyEnds == Busy ~> ~Busy
==============================================================================
