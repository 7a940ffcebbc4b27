------------------------------- MODULE HidTool -------------------------------
(***************************************************************************)
(* The command-line program hidtool/hidtool.c: it looks for the sensor     *)
(* among the hiddev nodes of a directory, opens it and runs one command.   *)
(*                                                                         *)
(* Each system call that another actor can come between is a step.  The    *)
(* kernel's hiddev, the device, its user who plugs and unplugs it, the     *)
(* clock and the other programs that use the same device are external:     *)
(* they are modelled from the calls hidtool makes.  A call on an open      *)
(* device fails once the device is gone, or for a report it does not have. *)
(***************************************************************************)
EXTENDS Integers, Sequences

CONSTANTS
    N,              \* entries of the directory
    Scenarios,      \* [line, node]: what the user types, and what is plugged in
    Option,         \* the option "-i" or "-t" among the words of a command
    FeatureLength,  \* bytes of the feature reports, by report id
    InputIds,       \* ids of the input reports
    BufSize,        \* uint8_t buf[256]
    ByteMod,        \* values of a byte
    UintMod,        \* values of an unsigned int, for the sum of monitor
    Unset,          \* what an int may hold that nobody has written
    Values,         \* what the sensor reports
    MaxPeriod, MaxBack,               \* bounds on -t, and on a step of the clock
    Rate, QueueMax,                   \* bounds on the reports per second and unread
    MaxPlugs, MaxOthers, MaxBacks     \* bounds on the other actors

Leads == {"sensor", "other", "denied", "none"}  \* what opening a node finds
Types == {"dev", "dir", "unknown"}              \* d_type; "dev" is DT_BLK or DT_CHR
Commands == {"getreport", "getfeature", "setfeature", "info", "monitor", "sample", "bad"}
FeatureIds == DOMAIN FeatureLength

ASSUME HidToolAssumption ==
    /\ N \in Nat /\ BufSize \in Nat /\ Rate \in Nat \ {0} /\ UintMod \in Nat \ {0}
    /\ QueueMax \in Nat
    /\ ByteMod \in Nat /\ ByteMod > 3          \* 2 and 3 stand for two contents of a report
    /\ Values \subseteq Nat /\ InputIds \subseteq Nat /\ FeatureIds \subseteq Nat
    /\ \A sc \in Scenarios :
         /\ sc.line.device \in 0..N          \* 0: not given, search
         /\ sc.line.skip \in Nat             \* words of options before the command
         /\ sc.line.command \in Commands
         /\ sc.line.words \in Seq({Option} \cup Nat)
         /\ \A k \in DOMAIN sc.line.words :   \* where getopt looks, one option in front
              sc.line.words[k] = Option /\ k > sc.line.skip =>
                \/ k = sc.line.skip + 1
                \/ k = sc.line.skip + 2 /\ sc.line.words[sc.line.skip + 1] = Option
         /\ sc.node \in [1..N -> [type : Types, leads : Leads]]
         /\ \A n \in 1..N : sc.node[n].type # "dev" => sc.node[n].leads = "none"
    /\ \A i \in FeatureIds : FeatureLength[i] \in 1..BufSize
    /\ Unset \subseteq Int

VARIABLES
    \* The world: the command line, the nodes, whether the opened device is
    \* still there, the kernel's copy of the feature reports and the device's
    \* own, the input reports not read yet, those sent this second, and what
    \* the bounds have been spent on.
    cmd, node, alive, cache, device, events, sent, spent,
    \* The program: its place, exit status, search, arguments of a feature
    \* request, monitor loop, loop of info, and what this cycle put out.
    pc, status, search, report, monitor, info, output,
    cycle   \* history: samples, and their exact sum, since the last result

world == <<cmd, node, alive, cache, device, events, sent, spent>>
locals == <<search, report, monitor, info, output, cycle>>
vars == <<world, pc, status, locals>>

Goto(from, to) == pc = from /\ pc' = to /\ UNCHANGED status
Exit(from, s) == pc = from /\ pc' = "exit" /\ status' = s
Put(what, v) == output' = [what |-> what, value |-> v]
Known(id) == alive /\ id \in FeatureIds     \* a feature ioctl succeeds

\* t_st starts at 0, the beginning of 1970: the time since then is longer than
\* any -t, however often the clock is set back.
SinceEpoch == MaxPeriod + MaxBack * MaxBacks

Init ==
    /\ \E sc \in Scenarios : cmd = sc.line /\ node = sc.node
    /\ alive = FALSE /\ events = <<>> /\ sent = 0
    /\ cache = [i \in FeatureIds |-> [b \in 1..FeatureLength[i] |-> 0]]
    /\ device = [i \in FeatureIds |-> [b \in 1..FeatureLength[i] |-> 2]]
    /\ spent = [plugs |-> 0, others |-> 0, backs |-> 0]
    /\ pc = IF cmd.device = 0 THEN "search" ELSE "open"
    /\ status = "none"
    /\ search = [entry |-> 1, found |-> cmd.device]
    /\ report = [id |-> 0, bytes |-> <<>>, length |-> 0]
    /\ monitor = [timeout |-> 0, xcmd |-> FALSE, average |-> 0, avg_count |-> 0,
                  elapsed |-> SinceEpoch]
    /\ info = [type |-> 1, id |-> -1, listed |-> {}]
    /\ output = [what |-> "none", value |-> <<>>]
    /\ cycle = [n |-> 0, sum |-> 0]

------------------------------------------------------------------------------
(***************************************************************************)
(* The search.  hiddev_check opens a node, asks who it is and closes it.   *)
(***************************************************************************)
hiddev_check(n) ==
    CASE node[n].leads = "sensor" -> 1
      [] node[n].leads = "other"  -> 0
      [] OTHER                    -> -1

Matches(n) == node[n].type = "dev" /\ hiddev_check(n) > 0

\* A mistake: an entry that cannot be opened ends the search.
SearchEnds_at_error(n) ==
    n \notin { m \in 1..N : node[m].type = "dir" \/ (node[m].type = "dev" /\ hiddev_check(m) >= 0) }

\* Without a type of the entry the search is given up.
SearchEnds(n) == n \notin { m \in 1..N : node[m].type # "unknown" }

\* One entry of the directory.  Without a match the program fails, whether
\* the last error was a real one or "no match".
hiddev_find_device ==
    LET n == search.entry IN
    /\ pc = "search"
    /\ \/ SearchEnds(n) /\ Exit("search", "failure") /\ UNCHANGED search
       \/ ~SearchEnds(n) /\ ~Matches(n) /\ Goto("search", "search")
          /\ search' = [search EXCEPT !.entry = n + 1]
       \/ ~SearchEnds(n) /\ Matches(n) /\ Goto("search", "open")
          /\ search' = [search EXCEPT !.found = n]
    /\ UNCHANGED <<world, report, monitor, info, output, cycle>>

\* do_command opens the node again, by its name.
Open ==
    /\ pc = "open"
    /\ UNCHANGED <<cmd, node, cache, device, events, sent, spent, locals>>
    /\ alive' = (node[search.found].leads \in {"sensor", "other"})
    /\ IF alive' THEN Goto("open", "dispatch") ELSE Exit("open", "failure")

------------------------------------------------------------------------------
(***************************************************************************)
(* The words of a command.  getopt goes on from the optind that main's     *)
(* options left, so it skips as many words after the command as stood      *)
(* before it; shift_argv_n drops what getopt has passed, or nothing when   *)
(* that is more than there is.  Bytes and names that are no number are 0.  *)
(***************************************************************************)
Words == cmd.words
First == cmd.skip + 1
HasOption == First <= Len(Words) /\ Words[First] = Option
Malformed == HasOption /\ First = Len(Words)
Number(w) == IF w = Option THEN 0 ELSE w
Argument == IF HasOption THEN Number(Words[First + 1]) ELSE 0
optind == IF HasOption THEN First + 2 ELSE First

Rest == IF optind <= Len(Words) + 1 THEN SubSeq(Words, optind, Len(Words)) ELSE <<0>> \o Words

ByteOf(w) == Number(w) % ByteMod
\* A mistake: words beyond the end of buf are taken too.
Bytes_unbounded(ws) == [k \in 1..Len(ws) |-> ByteOf(ws[k])]

Bytes(ws) == [k \in 1..(IF Len(ws) < BufSize THEN Len(ws) ELSE BufSize) |-> ByteOf(ws[k])]

Dispatch(command, to) == cmd.command = command /\ Goto("dispatch", to) /\ UNCHANGED world
Refuse(command) == cmd.command = command /\ Malformed /\ Exit("dispatch", "failure")
                   /\ UNCHANGED <<world, locals>>

BadCommand ==
    cmd.command = "bad" /\ Exit("dispatch", "success") /\ UNCHANGED <<world, locals>>

do_command_info == Dispatch("info", "info") /\ UNCHANGED locals
do_command_sample == Dispatch("sample", "select") /\ UNCHANGED locals

\* do_command_getreport has the kernel read every report of the device first.
do_command_getreport ==
    /\ cmd.command = "getreport"
    /\ cache' = IF alive THEN device ELSE cache
    /\ IF alive THEN Goto("dispatch", "select") ELSE Exit("dispatch", "failure")
    /\ UNCHANGED <<cmd, node, alive, device, events, sent, spent, locals>>

do_command_monitor ==
    /\ \/ Refuse("monitor")
       \/ /\ cmd.command = "monitor" /\ ~Malformed /\ HasOption /\ Argument = 0
          /\ Exit("dispatch", "failure") /\ UNCHANGED <<world, locals>>
       \/ /\ Dispatch("monitor", "select") /\ ~Malformed /\ ~(HasOption /\ Argument = 0)
          /\ monitor' = [monitor EXCEPT !.timeout = Argument, !.xcmd = (Rest # <<>>)]
          /\ UNCHANGED <<search, report, info, output, cycle>>

do_command_feature_get ==
    \/ Refuse("getfeature")
    \/ /\ Dispatch("getfeature", "fieldinfo") /\ ~Malformed
       /\ report' = [report EXCEPT !.id = Argument]
       /\ UNCHANGED <<search, monitor, info, output, cycle>>

do_command_feature_set ==
    \/ Refuse("setfeature")
    \/ /\ Dispatch("setfeature", "fieldinfo") /\ ~Malformed
       /\ report' = [report EXCEPT !.id = Argument, !.bytes = Bytes(Rest)]
       /\ UNCHANGED <<search, monitor, info, output, cycle>>

------------------------------------------------------------------------------
(***************************************************************************)
(* info: for each type the first report, then the next one, until the      *)
(* kernel says EINVAL; an error only ends the type.                        *)
(***************************************************************************)
Ids(type) == CASE type = 1 -> InputIds [] type = 2 -> {} [] type = 3 -> FeatureIds
Later(type, id) == { i \in Ids(type) : i > id }

\* A mistake: EINVAL for a type without reports ends the listing.
LastType_when_empty(type) == type = 3 \/ Ids(type) = {}

LastType(type) == type = 3

do_report_info ==
    /\ pc = "info"
    /\ \/ /\ alive /\ Goto("info", "info")
          /\ \E i \in Later(info.type, info.id) :
               /\ \A j \in Later(info.type, info.id) : i <= j
               /\ info' = [info EXCEPT !.id = i, !.listed = @ \cup {<<info.type, i>>}]
       \/ /\ ~alive \/ Later(info.type, info.id) = {}
          /\ IF LastType(info.type) THEN Exit("info", "success") ELSE Goto("info", "info")
          /\ info' = [info EXCEPT !.type = @ + 1, !.id = -1]
    /\ UNCHANGED <<world, search, report, monitor, output, cycle>>

------------------------------------------------------------------------------
(***************************************************************************)
(* hiddev_get_report: wait half a second for a report, else ask for one,   *)
(* then read; the read waits for ever.  A device that is gone is readable, *)
(* and the read fails once what it had sent is used up.                    *)
(***************************************************************************)
\* select fails of itself, without need of the device being gone.
SelectFails == Exit("select", "failure") /\ UNCHANGED <<world, locals>>

Select ==
    /\ Goto("select", IF events # <<>> \/ ~alive THEN "read" ELSE "ask")
    /\ UNCHANGED <<world, locals>>

\* The answer to HIDIOCGREPORT may come up as an event: see DeviceSends.
AskReport ==
    /\ IF alive THEN Goto("ask", "read") ELSE Exit("ask", "failure")
    /\ UNCHANGED <<world, locals>>

\* A mistake: the read is tried again after an error.
ReadFails_retries ==
    /\ pc = "read" /\ events = <<>> /\ ~alive
    /\ Goto("read", "select") /\ UNCHANGED <<world, locals>>

ReadFails ==
    /\ pc = "read" /\ events = <<>> /\ ~alive
    /\ Exit("read", "failure") /\ UNCHANGED <<world, locals>>

\* do_command_getreport, do_command_sample: print the value.
ReadOne ==
    /\ events # <<>> /\ cmd.command \in {"getreport", "sample"}
    /\ Exit("read", "success") /\ Put("value", <<Head(events)>>)
    /\ events' = Tail(events)
    /\ UNCHANGED <<cmd, node, alive, cache, device, sent, spent, search, report, monitor,
                   info, cycle>>

\* do_command_monitor: add the value to the sum, which is an unsigned int.
Accumulate ==
    /\ events # <<>> /\ cmd.command = "monitor" /\ Goto("read", "check")
    /\ events' = Tail(events)
    /\ monitor' = [monitor EXCEPT !.average = (@ + Head(events)) % UintMod, !.avg_count = @ + 1]
    /\ cycle' = [n |-> cycle.n + 1, sum |-> cycle.sum + Head(events)]
    /\ Put("none", <<>>)
    /\ UNCHANGED <<cmd, node, alive, cache, device, sent, spent, search, report, info>>

\* Is it time?  A step back of the clock makes the time since the last
\* result negative, and holds back the next one also without -t: as with a
\* time_t of 64 bits, against which timeout, an unsigned int, is extended.
\* (One of 32 bits is compared as unsigned, and no step back holds it back.)
CheckTime ==
    /\ \/ monitor.elapsed < monitor.timeout /\ Goto("check", "select") /\ UNCHANGED monitor
       \/ monitor.elapsed >= monitor.timeout /\ Goto("check", "emit")
          /\ monitor' = [monitor EXCEPT !.elapsed = 0]
    /\ UNCHANGED <<world, search, report, info, output, cycle>>

\* A mistake: the next cycle starts with the old count when a cycle was
\* dropped.
NextCycle_keeps_count(what) ==
    /\ monitor' = [monitor EXCEPT !.average = 0,
                                  !.avg_count = IF what = "dropped" THEN @ ELSE 0]
    /\ cycle' = [n |-> 0, sum |-> 0]

NextCycle(what) ==
    /\ monitor' = [monitor EXCEPT !.average = 0, !.avg_count = 0]
    /\ cycle' = [n |-> 0, sum |-> 0]

\* Print the average or run the command with it; when putenv or fork fails,
\* the cycle is dropped.
Emit ==
    /\ Goto("emit", "select")
    /\ \E what \in IF monitor.xcmd THEN {"ran", "dropped"} ELSE {"light"} :
         /\ Put(what, <<monitor.average \div monitor.avg_count>>)
         /\ NextCycle(what)
    /\ UNCHANGED <<world, search, report, info>>

------------------------------------------------------------------------------
(***************************************************************************)
(* The feature reports.  The result of HIDIOCGFIELDINFO is not looked at:  *)
(* when it fails, report_length is whatever was on the stack.              *)
(***************************************************************************)
ReportLengths == IF Known(report.id) THEN {FeatureLength[report.id]} ELSE Unset

\* A length is compared as a size_t: a negative one is larger than any other.
TooLong(l) == l < 0 \/ l > BufSize
TooShort(l) == l >= 0 /\ Len(report.bytes) > l

GetFieldInfo ==
    /\ cmd.command = "getfeature"
    /\ \E l \in ReportLengths :
         /\ report' = [report EXCEPT !.length = l]
         /\ IF TooLong(l) THEN Exit("fieldinfo", "failure") ELSE Goto("fieldinfo", "fetch")
    /\ UNCHANGED <<world, search, monitor, info, output, cycle>>

SetFieldInfo ==
    /\ cmd.command = "setfeature"
    /\ \E l \in ReportLengths :
         /\ report' = [report EXCEPT !.length = l]
         /\ IF TooShort(l) THEN Exit("fieldinfo", "failure") ELSE Goto("fieldinfo", "setusages")
    /\ UNCHANGED <<world, search, monitor, info, output, cycle>>

\* A mistake: the report is not requested before its bytes are.
FetchReport_skipped ==
    /\ IF Known(report.id) THEN Goto("fetch", "getusages") ELSE Exit("fetch", "failure")
    /\ UNCHANGED <<world, locals>>

\* HIDIOCGREPORT: the kernel reads the report from the device.
FetchReport ==
    /\ IF Known(report.id)
       THEN Goto("fetch", "getusages") /\ cache' = [cache EXCEPT ![report.id] = device[report.id]]
       ELSE Exit("fetch", "failure") /\ UNCHANGED cache
    /\ UNCHANGED <<cmd, node, alive, device, events, sent, spent, locals>>

\* HIDIOCGUSAGES: as many bytes of the kernel's copy as report_length says, which
\* are then printed; no more than the report has.
GetUsages ==
    /\ IF Known(report.id) /\ report.length <= FeatureLength[report.id]
       THEN /\ Exit("getusages", "success")
            /\ Put("report", SubSeq(cache[report.id], 1, report.length))
       ELSE Exit("getusages", "failure") /\ UNCHANGED output
    /\ UNCHANGED <<world, search, report, monitor, info, cycle>>

\* A mistake: the whole report is passed on, the bytes nobody has given too.
Passed_whole == report.bytes \o [k \in 1..(report.length - Len(report.bytes)) |-> ByteMod]

Passed == report.bytes

\* HIDIOCSUSAGES: the bytes given go to the start of the kernel's copy.  They
\* are copied out of buf as if it held a whole report; with an unset length
\* beyond its end the program may break down on the way.
SetUsages ==
    /\ \/ /\ Known(report.id) /\ Goto("setusages", "send")
          /\ cache' = [cache EXCEPT ![report.id] =
                         Passed \o SubSeq(@, Len(Passed) + 1, FeatureLength[report.id])]
       \/ ~Known(report.id) /\ Exit("setusages", "failure") /\ UNCHANGED cache
       \/ report.length > BufSize /\ Exit("setusages", "crash") /\ UNCHANGED cache
    /\ UNCHANGED <<cmd, node, alive, device, events, sent, spent, locals>>

\* HIDIOCSREPORT: the kernel sends its copy to the device.
SendReport ==
    /\ \/ /\ Known(report.id) /\ Exit("send", "success")
          /\ device' = [device EXCEPT ![report.id] = cache[report.id]]
          /\ Put("sent", <<>>)
       \/ ~Known(report.id) /\ Exit("send", "failure") /\ UNCHANGED <<device, output>>
    /\ UNCHANGED <<cmd, node, alive, cache, events, sent, spent, search, report, monitor,
                   info, cycle>>

------------------------------------------------------------------------------
(***************************************************************************)
(* The other actors.                                                       *)
(***************************************************************************)
Reading == {"select", "ask", "read", "check", "emit"}
Featuring == {"fieldinfo", "fetch", "getusages", "setusages", "send"}

\* A report of its own accord, or the answer to HIDIOCGREPORT.
DeviceSends ==
    /\ pc \in Reading /\ alive /\ sent < Rate /\ Len(events) < QueueMax
    /\ sent' = sent + 1
    /\ \E v \in Values : events' = Append(events, v)
    /\ UNCHANGED <<cmd, node, alive, cache, device, spent, pc, status, locals>>

\* A second passes.
Second ==
    /\ pc \in Reading
    /\ sent' = 0
    /\ monitor' = [monitor EXCEPT !.elapsed = IF @ < MaxPeriod THEN @ + 1 ELSE @]
    /\ UNCHANGED <<cmd, node, alive, cache, device, events, spent, pc, status, search,
                   report, info, output, cycle>>

ClockSetBack ==
    /\ pc \in Reading /\ cmd.command = "monitor" /\ spent.backs < MaxBacks
    /\ \E d \in 1..MaxBack : monitor' = [monitor EXCEPT !.elapsed = @ - d]
    /\ spent' = [spent EXCEPT !.backs = @ + 1]
    /\ UNCHANGED <<cmd, node, alive, cache, device, events, sent, pc, status, search,
                   report, info, output, cycle>>

\* A device is unplugged, or another one takes a free node.  Once the program
\* has opened a device, that one alone matters to it.
Replug ==
    /\ pc # "exit" /\ spent.plugs < MaxPlugs
    /\ \E n \in 1..N :
         /\ node[n].type = "dev"
         /\ pc \in {"search", "open"} \/ (alive /\ n = search.found)
         /\ \E k \in IF node[n].leads = "none" THEN {"sensor", "other"} ELSE {"none"} :
              node' = [node EXCEPT ![n].leads = k]
         /\ alive' = (alive /\ n # search.found)
    /\ spent' = [spent EXCEPT !.plugs = @ + 1]
    /\ UNCHANGED <<cmd, cache, device, events, sent, pc, status, locals>>

\* Another program sets a feature report of the same device.
OtherProgram ==
    /\ pc \in Featuring /\ alive /\ spent.others < MaxOthers
    /\ \E i \in FeatureIds :
         LET b == [k \in 1..FeatureLength[i] |-> 3] IN
         cache' = [cache EXCEPT ![i] = b] /\ device' = [device EXCEPT ![i] = b]
    /\ spent' = [spent EXCEPT !.others = @ + 1]
    /\ UNCHANGED <<cmd, node, alive, events, sent, pc, status, locals>>

Terminated == pc = "exit" /\ UNCHANGED vars

Command ==
    \/ BadCommand \/ do_command_info \/ do_command_sample \/ do_command_getreport
    \/ do_command_monitor \/ do_command_feature_get \/ do_command_feature_set

Program ==
    \/ hiddev_find_device \/ Open \/ Command \/ do_report_info
    \/ Select \/ SelectFails \/ AskReport \/ ReadFails \/ ReadOne \/ Accumulate \/ CheckTime \/ Emit
    \/ GetFieldInfo \/ SetFieldInfo \/ FetchReport \/ GetUsages \/ SetUsages \/ SendReport

Next ==
    \/ Program \/ DeviceSends \/ Second
    \/ ClockSetBack \/ Replug \/ OtherProgram \/ Terminated

Spec == Init /\ [][Next]_vars

\* The scheduler runs the program, a sensor that is there sends its reports,
\* and time passes.
FairSpec == Spec /\ WF_vars(Program) /\ WF_vars(DeviceSends) /\ WF_vars(Second)

------------------------------------------------------------------------------
TypeOK ==
    /\ cmd \in {sc.line : sc \in Scenarios}
    /\ node \in [1..N -> [type : Types, leads : Leads]]
    /\ alive \in BOOLEAN
    /\ \A i \in FeatureIds :
         cache[i] \in [1..FeatureLength[i] -> 0..ByteMod] /\ DOMAIN device[i] = DOMAIN cache[i]
    /\ events \in Seq(Values) /\ Len(events) <= QueueMax /\ sent \in 0..Rate
    /\ pc \in {"search", "open", "dispatch", "info", "exit"} \cup Reading \cup Featuring
    /\ status \in {"none", "success", "failure", "crash"} /\ (status = "none" <=> pc # "exit")
    /\ search.entry \in 1..N + 1 /\ search.found \in 0..N
    /\ Len(report.bytes) <= BufSize /\ report.id \in Int /\ report.length \in Int
    /\ monitor.average \in 0..UintMod - 1 /\ monitor.avg_count \in Nat
    /\ (pc \in {"check", "emit"} => monitor.avg_count > 0)
    /\ info.listed \subseteq {1, 2, 3} \X (InputIds \cup FeatureIds)

\* The search (hidtool.c:599-657) ends at the first sensor of the directory:
\* nodes that cannot be opened and other devices before it do not stop it,
\* only an entry without a type does; and what is opened later is that
\* sensor.  Stated for a directory that does not change meanwhile: do_command
\* opens by name and does not ask again who it is.
Reachable(n) ==
    /\ node[n].type = "dev" /\ node[n].leads = "sensor"
    /\ \A m \in 1..n - 1 : node[m].type # "unknown"
FindsSensor ==
    cmd.device = 0 /\ pc # "search" /\ spent.plugs = 0 =>
        IF search.found = 0
        THEN \A n \in 1..N : ~Reachable(n)
        ELSE /\ Reachable(search.found)
             /\ \A m \in 1..search.found - 1 : ~Reachable(m)

\* What "setfeature -i <id> <bytes>" asks for, read off the command line.
GivenId == Number(Words[2])
GivenBytes == Bytes(SubSeq(Words, 3, Len(Words)))
WellFormed == Len(Words) >= 2 /\ Words[1] = Option

\* A setfeature that succeeds (hidtool.c:347-376, 787-841) leaves the device
\* with the bytes given, in order and from the first one on, followed by what
\* the kernel has of the report, and never by the part of buf that nobody has
\* filled.  Without options before the command (getopt would skip as many
\* words after it) and without another program in between (the two ioctls
\* share the kernel's copy).
SentIsGiven ==
    /\ cmd.command = "setfeature" /\ cmd.skip = 0 /\ WellFormed
    /\ status = "success" /\ spent.others = 0
    => device[GivenId] = GivenBytes \o [k \in 1..FeatureLength[GivenId] - Len(GivenBytes) |-> 0]

\* What getfeature prints (hidtool.c:321-345, 728-785) is the whole report the
\* device had, of the id that was asked for and of its full length, not an older
\* copy of the kernel.
PrintedIsReport ==
    /\ cmd.command = "getfeature" /\ cmd.skip = 0 /\ WellFormed
    /\ status = "success" /\ spent.others = 0
    => output.value = device[GivenId]

\* A light level of monitor (hidtool.c:232-301) is the mean of every sample
\* read since the last cycle ended, printed or dropped, as long as their sum
\* fits an unsigned int.
AverageExact ==
    [][pc = "emit" /\ pc' # "emit" /\ output'.what \in {"light", "ran"} /\ cycle.sum < UintMod
       => output'.value = <<cycle.sum \div cycle.n>>]_vars

\* Exit status 0 (hidtool.c:503-506) means that the command did what it is
\* for; only an unknown command also ends that way (line 432), and info does
\* so when the device is pulled.  monitor never ends without an error.
SuccessMeansDone ==
    status = "success" =>
        CASE cmd.command \in {"getreport", "sample"} -> output.what = "value"
          [] cmd.command = "getfeature" -> output.what = "report"
          [] cmd.command = "setfeature" -> output.what = "sent"
          [] cmd.command = "info" ->
               alive => info.listed = UNION { {t} \X Ids(t) : t \in 1..3 }
          [] OTHER -> cmd.command = "bad"

\* Every command ends, and monitor puts out one result after the other until
\* it fails, also when the device is pulled while it reads and when the clock
\* is set back.
Progress == (pc # "exit") ~> (pc \in {"emit", "exit"})

\* hidtool.c:735 and 795: "request info about the feature report (get byte
\* length)".  After it, report_length is that length.
LengthKnown ==
    pc \in {"fetch", "getusages", "setusages", "send"} =>
        report.id \in FeatureIds /\ report.length = FeatureLength[report.id]
==============================================================================
