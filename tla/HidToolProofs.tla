----------------------------- MODULE HidToolProofs -----------------------------
(***************************************************************************)
(* Proofs about HidTool, for every directory, command line, set of reports *)
(* and number of faults.                                                   *)
(***************************************************************************)
EXTENDS HidTool, TLAPS

\* The shapes of the variables, as far as the other parts need them.
Typing ==
    /\ \E sc \in Scenarios : cmd = sc.line
    /\ node \in [1..N -> [type : Types, leads : Leads]]
    /\ alive \in BOOLEAN
    /\ DOMAIN cache = FeatureIds /\ cache = [i \in FeatureIds |-> cache[i]]
    /\ DOMAIN device = FeatureIds /\ device = [i \in FeatureIds |-> device[i]]
    /\ events \in Seq(Values)
    /\ spent \in [plugs : Nat, others : Nat, backs : Nat]
    /\ search \in [entry : Nat \ {0}, found : Nat]
    /\ cycle \in [n : Nat, sum : Nat]

\* Which command brings the program to which place.
Placed ==
    /\ pc \in {"search", "open", "dispatch", "info", "exit"} \cup Reading \cup Featuring
    /\ status = "none" <=> pc # "exit"
    /\ pc = "info" => cmd.command = "info"
    /\ pc \in {"fetch", "getusages"} => cmd.command = "getfeature"
    /\ pc \in {"setusages", "send"} => cmd.command = "setfeature"

\* What lies behind the search is no sensor and has a type.
Searched ==
    cmd.device = 0 /\ spent.plugs = 0 /\ pc = "search" =>
        /\ search.found = 0
        /\ \A m \in 1..N : m < search.entry =>
             node[m].type # "unknown" /\ ~(node[m].type = "dev" /\ node[m].leads = "sensor")

\* The listing of info has got as far as its type and id.
Reports == UNION { {t} \X Ids(t) : t \in 1..3 }
Listed ==
    /\ info \in [type : Int, id : Int, listed : SUBSET Reports]
    /\ pc \in {"search", "open", "dispatch"} => info = [type |-> 1, id |-> -1, listed |-> {}]
    /\ pc = "info" /\ alive =>
         info.type \in 1..3 /\
         info.listed = { r \in Reports : r[1] < info.type \/ (r[1] = info.type /\ r[2] <= info.id) }

\* What getusages reads is what fetch has brought, and of the length that was
\* asked for, unless the report is not there.
Fetched ==
    /\ report = [id |-> report.id, bytes |-> report.bytes, length |-> report.length]
    /\ cmd.command = "getfeature" /\ pc \in {"fieldinfo", "fetch", "getusages"} =>
         report.id = Argument
    /\ pc \in {"fetch", "getusages"} /\ Known(report.id) =>
         report.length = FeatureLength[report.id]
    /\ pc = "getusages" /\ spent.others = 0 => cache[report.id] = device[report.id]

\* What setfeature is about to send: the kernel's zero copy of the report, with
\* the bytes given in front.
Rezeroed == cache = [i \in FeatureIds |-> [b \in 1..FeatureLength[i] |-> 0]]
Padded(bytes, l) == bytes \o [k \in 1..l - Len(bytes) |-> 0]
Given ==
    cmd.command = "setfeature" =>
        /\ pc \in {"fieldinfo", "setusages", "send"} =>
             report.id = Argument /\ report.bytes = Bytes(Rest)
        /\ spent.others = 0 /\ pc \notin {"send", "exit"} => Rezeroed
        /\ pc = "setusages" /\ Known(report.id) =>
             Len(report.bytes) <= FeatureLength[report.id]
        /\ pc = "send" /\ spent.others = 0 =>
             /\ report.id \in FeatureIds
             /\ cache[report.id] = Padded(report.bytes, FeatureLength[report.id])

\* The sum of monitor, as long as it fits.
Summed ==
    /\ monitor = [timeout |-> monitor.timeout, xcmd |-> monitor.xcmd,
                  average |-> monitor.average, avg_count |-> monitor.avg_count,
                  elapsed |-> monitor.elapsed]
    /\ monitor.average \in Nat
    /\ monitor.avg_count = cycle.n
    /\ cycle.sum < UintMod => monitor.average = cycle.sum

\* The inductive invariant behind the search, the reports and monitor.
IInv == /\ Typing /\ Placed /\ Searched /\ Listed /\ Fetched /\ Given /\ Summed
        /\ FindsSensor /\ SuccessMeansDone /\ SentIsGiven

\* What the assumption says of the command line that was chosen.
LEMMA CommandLine ==
  ASSUME Typing
  PROVE  cmd.command \in Commands /\ cmd.device \in 0..N /\ cmd.skip \in Nat
         /\ cmd.words \in Seq({Option} \cup Nat)
BY HidToolAssumption DEF HidToolAssumption, Typing

\* Which actions change what.
LEMMA SearchFrame ==
  ASSUME [Next]_vars, spent \in [plugs : Nat, others : Nat, backs : Nat]
  PROVE  /\ cmd' = cmd
         /\ \/ hiddev_find_device \/ Replug
            \/ UNCHANGED <<node, search>> /\ spent'.plugs = spent.plugs
               /\ (pc' = "search" <=> pc = "search")
BY DEF Next, Program, Command, hiddev_find_device, Open, BadCommand, do_command_info,
       do_command_sample, do_command_getreport, do_command_monitor, do_command_feature_get,
       do_command_feature_set, do_report_info, Select, AskReport, ReadFails, ReadOne, Accumulate,
       CheckTime, Emit, GetFieldInfo, SetFieldInfo, FetchReport, GetUsages, SetUsages, SendReport,
       DeviceSends, Second, ClockSetBack, Replug, OtherProgram, Terminated, Dispatch, Refuse,
       SelectFails, Goto, Exit, vars, world, locals

\* Only info moves its loop, and only its command starts it.
LEMMA InfoFrame ==
  ASSUME [Next]_vars
  PROVE  \/ do_report_info
         \/ /\ info' = info
            /\ pc' \in {"search", "open", "dispatch"} => pc \in {"search", "open", "dispatch"}
            /\ pc' = "info" => do_command_info \/ (pc = "info" /\ (alive' => alive))
BY DEF Next, Program, Command, hiddev_find_device, Open, BadCommand, do_command_info,
       do_command_sample, do_command_getreport, do_command_monitor, do_command_feature_get,
       do_command_feature_set, do_report_info, Select, AskReport, ReadFails, ReadOne, Accumulate,
       CheckTime, Emit, GetFieldInfo, SetFieldInfo, FetchReport, GetUsages, SetUsages, SendReport,
       DeviceSends, Second, ClockSetBack, Replug, OtherProgram, Terminated, Dispatch, Refuse,
       SelectFails, Goto, Exit, vars, world, locals

\* Only the feature commands give a request, and only fetch goes on to print.
LEMMA ReportFrame ==
  ASSUME [Next]_vars
  PROVE  /\ \/ do_command_feature_get \/ do_command_feature_set
            \/ GetFieldInfo \/ SetFieldInfo \/ report' = report
         /\ pc' \in {"fieldinfo", "fetch", "getusages"} =>
              \/ pc \in {"fieldinfo", "fetch", "getusages"}
              \/ do_command_feature_get \/ do_command_feature_set
         /\ pc' = "getusages" => \/ FetchReport \/ OtherProgram
                                 \/ pc = "getusages" /\ UNCHANGED <<cache, device, spent>>
                                 \/ pc = "getusages" /\ UNCHANGED <<cache, device>> /\ Replug
BY DEF Next, Program, Command, hiddev_find_device, Open, BadCommand, do_command_info,
       do_command_sample, do_command_getreport, do_command_monitor, do_command_feature_get,
       do_command_feature_set, do_report_info, Select, AskReport, ReadFails, ReadOne, Accumulate,
       CheckTime, Emit, GetFieldInfo, SetFieldInfo, FetchReport, GetUsages, SetUsages, SendReport,
       DeviceSends, Second, ClockSetBack, Replug, OtherProgram, Terminated, Dispatch, Refuse,
       SelectFails, Goto, Exit, vars, world, locals, Reading, Featuring

\* Who changes the sum and the clock of monitor, and that Emit ends a cycle.
LEMMA MonitorFrame ==
  ASSUME [Next]_vars
  PROVE  /\ \/ do_command_monitor \/ CheckTime \/ Second \/ ClockSetBack
            \/ Accumulate \/ Emit \/ UNCHANGED <<monitor, cycle>>
         /\ pc = "emit" /\ pc' # "emit" => Emit
BY DEF Next, Program, Command, hiddev_find_device, Open, BadCommand, do_command_info,
       do_command_sample, do_command_getreport, do_command_monitor, do_command_feature_get,
       do_command_feature_set, do_report_info, Select, AskReport, ReadFails, ReadOne, Accumulate,
       CheckTime, Emit, GetFieldInfo, SetFieldInfo, FetchReport, GetUsages, SetUsages, SendReport,
       DeviceSends, Second, ClockSetBack, Replug, OtherProgram, Terminated, Dispatch, Refuse,
       SelectFails, Goto, Exit, vars, world, locals

\* The program ends once, and then nothing moves.
LEMMA ExitFrame ==
  ASSUME [Next]_vars
  PROVE  /\ pc = "exit" => UNCHANGED vars
         /\ pc # "exit" /\ status' = "success" => \/ status = "success" \/ BadCommand
              \/ do_report_info \/ ReadOne \/ GetUsages \/ SendReport
BY DEF Next, Program, Command, hiddev_find_device, Open, BadCommand, do_command_info,
       do_command_sample, do_command_getreport, do_command_monitor, do_command_feature_get,
       do_command_feature_set, do_report_info, Select, AskReport, ReadFails, ReadOne, Accumulate,
       CheckTime, Emit, GetFieldInfo, SetFieldInfo, FetchReport, GetUsages, SetUsages, SendReport,
       DeviceSends, Second, ClockSetBack, Replug, OtherProgram, Terminated, Dispatch, Refuse,
       SelectFails, Goto, Exit, vars, world, locals, Reading, Featuring

\* Who changes the world and the account of a cycle.
LEMMA TypingFrame ==
  ASSUME [Next]_vars
  PROVE  /\ Open \/ Replug \/ alive' = alive
         /\ do_command_getreport \/ FetchReport \/ SetUsages \/ OtherProgram \/ cache' = cache
         /\ SendReport \/ OtherProgram \/ device' = device
         /\ ReadOne \/ Accumulate \/ DeviceSends \/ events' = events
         /\ ClockSetBack \/ Replug \/ OtherProgram \/ spent' = spent
         /\ Accumulate \/ Emit \/ cycle' = cycle
BY DEF Next, Program, Command, hiddev_find_device, Open, BadCommand, do_command_info,
       do_command_sample, do_command_getreport, do_command_monitor, do_command_feature_get,
       do_command_feature_set, do_report_info, Select, AskReport, ReadFails, ReadOne, Accumulate,
       CheckTime, Emit, GetFieldInfo, SetFieldInfo, FetchReport, GetUsages, SetUsages, SendReport,
       DeviceSends, Second, ClockSetBack, Replug, OtherProgram, Terminated, Dispatch, Refuse,
       SelectFails, Goto, Exit, vars, world, locals

\* Every step keeps the shapes.
LEMMA TypingStep == ASSUME Typing, [Next]_vars PROVE Typing'
<1>1. cmd' = cmd
  BY SearchFrame DEF Typing
<1>2. node' \in [1..N -> [type : Types, leads : Leads]]
  <2>1. CASE Replug
    <3>1. PICK n \in 1..N : \E k \in {"sensor", "other", "none"} :
            node' = [node EXCEPT ![n].leads = k]
      BY <2>1 DEF Replug
    <3>2. PICK k \in Leads : node' = [node EXCEPT ![n] = [type |-> node[n].type, leads |-> k]]
      BY <3>1 DEF Typing, Leads
    <3> QED BY <3>1, <3>2 DEF Typing
  <2>2. CASE ~Replug
    BY <2>2, SearchFrame DEF Typing, hiddev_find_device, world
  <2> QED BY <2>1, <2>2
<1>3. alive' \in BOOLEAN
  <2>1. CASE Open
    BY <2>1 DEF Open
  <2>2. CASE Replug
    BY <2>2 DEF Replug
  <2> QED BY <2>1, <2>2, TypingFrame DEF Typing
<1>4. DOMAIN cache' = FeatureIds /\ cache' = [i \in FeatureIds |-> cache'[i]]
  <2>1. CASE do_command_getreport
    <3>1. cache' = device \/ cache' = cache
      BY <2>1 DEF do_command_getreport
    <3> QED BY <3>1 DEF Typing
  <2>2. CASE FetchReport \/ SetUsages \/ OtherProgram
    <3>1. PICK i, b : cache' = cache \/ cache' = [cache EXCEPT ![i] = b]
      BY <2>2 DEF FetchReport, SetUsages, OtherProgram
    <3>2. CASE cache' = cache
      BY <3>2 DEF Typing
    <3>3. CASE cache' = [cache EXCEPT ![i] = b]
      <4>1. cache' = [j \in FeatureIds |-> IF j = i THEN b ELSE cache[j]]
        BY <3>3 DEF Typing
      <4>2. DOMAIN cache' = FeatureIds
        BY <4>1
      <4>3. \A j \in FeatureIds : cache'[j] = IF j = i THEN b ELSE cache[j]
        BY <4>1
      <4> QED BY <4>1, <4>2, <4>3
    <3> QED BY <3>1, <3>2, <3>3
  <2> QED BY <2>1, <2>2, TypingFrame DEF Typing
<1>9. DOMAIN device' = FeatureIds /\ device' = [i \in FeatureIds |-> device'[i]]
  <2>1. CASE SendReport \/ OtherProgram
    BY <2>1 DEF Typing, SendReport, OtherProgram
  <2> QED BY <2>1, TypingFrame DEF Typing
<1>5. events' \in Seq(Values)
  <2>1. CASE ReadOne \/ Accumulate
    <3>1. events # <<>> /\ events' = Tail(events) /\ events \in Seq(Values)
      BY <2>1 DEF Typing, ReadOne, Accumulate
    <3> QED BY <3>1
  <2>2. CASE DeviceSends
    BY <2>2 DEF Typing, DeviceSends
  <2> QED BY <2>1, <2>2, TypingFrame DEF Typing
<1>6. spent' \in [plugs : Nat, others : Nat, backs : Nat]
  <2>1. \/ spent' = spent \/ spent' = [spent EXCEPT !.plugs = @ + 1]
        \/ spent' = [spent EXCEPT !.others = @ + 1] \/ spent' = [spent EXCEPT !.backs = @ + 1]
    BY TypingFrame DEF ClockSetBack, Replug, OtherProgram
  <2> QED BY <2>1 DEF Typing
<1>7. search' \in [entry : Nat \ {0}, found : Nat]
  BY SearchFrame DEF Typing, hiddev_find_device, Replug, locals
<1>8. cycle' \in [n : Nat, sum : Nat]
  <2>1. CASE Accumulate
    <3>1. Head(events) \in Nat
      BY <2>1, HidToolAssumption DEF HidToolAssumption, Accumulate, Typing
    <3> QED BY <2>1, <3>1 DEF Accumulate, Typing
  <2>2. CASE Emit
    BY <2>2 DEF Emit, NextCycle
  <2> QED BY <2>1, <2>2, TypingFrame DEF Typing
<1> QED BY <1>1, <1>2, <1>3, <1>4, <1>5, <1>6, <1>7, <1>8, <1>9 DEF Typing

\* A match is a node with a type that leads to the sensor.
LEMMA MatchIs ==
  \A n \in 1..N : Matches(n) <=> node[n].type = "dev" /\ node[n].leads = "sensor"
BY DEF Matches, hiddev_check

\* The search (hidtool.c:599-657): an entry that is passed is no sensor.
LEMMA SearchStep ==
  ASSUME Typing, Searched, FindsSensor, [Next]_vars
  PROVE  Searched' /\ FindsSensor'
<1>1. CASE hiddev_find_device
  <2> DEFINE n == search.entry
  <2>0. /\ pc = "search" /\ UNCHANGED <<node, cmd, spent>> /\ n \in Nat \ {0} /\ N \in Nat
    BY <1>1, HidToolAssumption DEF HidToolAssumption, hiddev_find_device, world, Typing
  <2> SUFFICES ASSUME cmd.device = 0, spent.plugs = 0 PROVE Searched' /\ FindsSensor'
    BY <2>0 DEF Searched, FindsSensor
  <2>1. /\ search.found = 0
        /\ \A m \in 1..N : m < n =>
             node[m].type # "unknown" /\ ~(node[m].type = "dev" /\ node[m].leads = "sensor")
    BY <2>0 DEF Searched
  <2>2. CASE SearchEnds(n)
    <3>1. pc' = "exit" /\ search' = search
      BY <1>1, <2>2 DEF hiddev_find_device, Exit, Goto
    <3>2. ASSUME NEW r \in 1..N PROVE ~Reachable(r)
      <4>1. CASE r < n
        BY <2>1, <4>1 DEF Reachable
      <4>2. CASE ~(r < n)
        <5>1. n \in 1..N /\ node[n].type = "unknown"
          BY <2>0, <2>2, <4>2 DEF SearchEnds
        <5>2. r = n \/ n \in 1..r - 1
          BY <2>0, <4>2
        <5> QED BY <5>1, <5>2 DEF Reachable
      <4> QED BY <4>1, <4>2
    <3> QED BY <2>0, <2>1, <3>1, <3>2 DEF Searched, FindsSensor, Reachable
  <2>3. CASE ~SearchEnds(n)
    <3>1. n \in 1..N /\ node[n].type # "unknown"
      BY <2>3 DEF SearchEnds
    <3>2. CASE ~Matches(n)
      <4>1. pc' = "search" /\ search'.entry = n + 1 /\ search'.found = search.found
        BY <1>1, <2>3, <3>2 DEF hiddev_find_device, Exit, Goto, Typing
      <4>2. ~(node[n].type = "dev" /\ node[n].leads = "sensor")
        BY <3>1, <3>2, MatchIs
      <4> QED BY <2>0, <2>1, <3>1, <4>1, <4>2 DEF Searched, FindsSensor
    <3>3. CASE Matches(n)
      <4>1. pc' = "open" /\ search'.found = n
        BY <1>1, <2>3, <3>3 DEF hiddev_find_device, Exit, Goto, Typing
      <4>2. Reachable(n)
        BY <2>0, <2>1, <3>1, <3>3, MatchIs DEF Reachable
      <4>3. \A m \in 1..n - 1 : ~Reachable(m)
        BY <2>0, <2>1, <3>1 DEF Reachable
      <4> QED BY <2>0, <4>1, <4>2, <4>3 DEF Searched, FindsSensor, Reachable
    <3> QED BY <3>2, <3>3
  <2> QED BY <2>2, <2>3
<1>2. CASE Replug
  <2>1. spent'.plugs = spent.plugs + 1 /\ spent.plugs \in Nat
    BY <1>2 DEF Replug, Typing
  <2> QED BY <2>1 DEF Searched, FindsSensor
<1>3. CASE ~(hiddev_find_device \/ Replug)
  <2>1. /\ UNCHANGED <<cmd, node, search>> /\ spent'.plugs = spent.plugs
        /\ (pc' = "search" <=> pc = "search")
    BY <1>3, SearchFrame DEF Typing
  <2> QED BY <2>1 DEF Searched, FindsSensor, Reachable
<1> QED BY <1>1, <1>2, <1>3

\* The program's place (hidtool.c:382-432, 728-841).
LEMMA PlaceStep == ASSUME Typing, Placed, [Next]_vars PROVE Placed'
BY DEF Next, Program, Command, hiddev_find_device, Open, BadCommand, do_command_info,
       do_command_sample, do_command_getreport, do_command_monitor, do_command_feature_get,
       do_command_feature_set, do_report_info, Select, AskReport, ReadFails, ReadOne, Accumulate,
       CheckTime, Emit, GetFieldInfo, SetFieldInfo, FetchReport, GetUsages, SetUsages, SendReport,
       DeviceSends, Second, ClockSetBack, Replug, OtherProgram, Terminated, Dispatch, Refuse,
       SelectFails, Goto, Exit, vars, world, locals, Placed, Reading, Featuring

\* Report ids are numbers, and Reports holds each with its type.
LEMMA IdsAre ==
  /\ \A t \in 1..3 : Ids(t) \subseteq Nat
  /\ \A r : r \in Reports <=> \E t \in 1..3 : \E i \in Ids(t) : r = <<t, i>>
<1>1. \A t \in 1..3 : Ids(t) \subseteq Nat
  BY HidToolAssumption DEF HidToolAssumption, Ids
<1>2. \A r : r \in Reports <=> \E t \in 1..3 : \E i \in Ids(t) : r = <<t, i>>
  BY DEF Reports
<1> QED BY <1>1, <1>2

\* info (hidtool.c:127-190): each step lists the next report, and leaves a
\* type when there is none.
LEMMA ListedStep == ASSUME Typing, Listed, [Next]_vars PROVE Listed'
<1> DEFINE Upto(t, i) == { r \in Reports : r[1] < t \/ (r[1] = t /\ r[2] <= i) }
<1>1. CASE do_report_info
  <2>1. /\ pc = "info" /\ alive' = alive /\ info.type \in Int /\ info.id \in Int
        /\ pc' \in {"info", "exit"} /\ info.listed \in SUBSET Reports
        /\ info \in [type : Int, id : Int, listed : SUBSET Reports]
    BY <1>1 DEF do_report_info, Goto, Exit, world, Listed
  <2>2. alive => info.type \in 1..3 /\ info.listed = Upto(info.type, info.id)
    BY <2>1 DEF Listed
  <2>3. ASSUME alive, NEW i \in Later(info.type, info.id),
               \A j \in Later(info.type, info.id) : i <= j,
               info' = [info EXCEPT !.id = i, !.listed = @ \cup {<<info.type, i>>}]
        PROVE  Listed'
    <3>1. i \in Ids(info.type) /\ i \in Nat /\ i > info.id /\ info.type \in 1..3
      BY <2>2, <2>3, IdsAre DEF Later
    <3>2. <<info.type, i>> \in Reports
      BY <3>1, IdsAre
    <3>3. /\ info'.type = info.type /\ info'.id = i
          /\ info'.listed = info.listed \cup {<<info.type, i>>}
          /\ info' \in [type : Int, id : Int, listed : SUBSET Reports]
      <4>1. info' = [type |-> info.type, id |-> i,
                     listed |-> info.listed \cup {<<info.type, i>>}]
        BY <2>1, <2>3
      <4>2. info.listed \cup {<<info.type, i>>} \in SUBSET Reports
        BY <2>1, <3>2
      <4>3. info.type \in Int /\ i \in Int
        BY <2>1, <3>1
      <4> HIDE DEF Reports
      <4> QED BY <4>1, <4>2, <4>3
    <3>4. ASSUME NEW r \in Reports
          PROVE  r \in info.listed \cup {<<info.type, i>>} <=>
                   r[1] < info.type \/ (r[1] = info.type /\ r[2] <= i)
      <4>0. PICK t \in 1..3 : \E k \in Ids(t) : r = <<t, k>>
        BY IdsAre
      <4>1. PICK k \in Ids(t) : r = <<t, k>>
        BY <4>0
      <4>2. k \in Nat /\ r[1] = t /\ r[2] = k
        BY <4>1, IdsAre
      <4>3. r \in info.listed <=> t < info.type \/ (t = info.type /\ k <= info.id)
        BY <2>2, <2>3, <4>2
      <4>4. t = info.type /\ k > info.id => i <= k
        BY <2>3, <4>1 DEF Later
      <4>5. r = <<info.type, i>> <=> t = info.type /\ k = i
        BY <4>1
      <4> QED BY <2>1, <3>1, <4>1, <4>2, <4>3, <4>4, <4>5
    <3>5. info'.listed = Upto(info'.type, info'.id)
      BY <2>1, <3>2, <3>3, <3>4
    <3> QED BY <2>1, <3>1, <3>3, <3>5 DEF Listed
  <2>4. ASSUME ~alive \/ Later(info.type, info.id) = {},
               info' = [info EXCEPT !.type = @ + 1, !.id = -1],
               LastType(info.type) => pc' = "exit"
        PROVE  Listed'
    <3>1. /\ info'.type = info.type + 1 /\ info'.id = -1 /\ info'.listed = info.listed
          /\ info' \in [type : Int, id : Int, listed : SUBSET Reports]
      <4>1. info' = [type |-> info.type + 1, id |-> -1, listed |-> info.listed]
        BY <2>1, <2>4
      <4>2. info.type + 1 \in Int /\ -1 \in Int
        BY <2>1
      <4> QED BY <2>1, <4>1, <4>2
    <3>2. ASSUME alive, pc' = "info"
          PROVE  info'.type \in 1..3 /\ info'.listed = Upto(info'.type, info'.id)
      <4>1. info.type \in 1..2 /\ Later(info.type, info.id) = {}
        BY <2>2, <2>4, <3>2 DEF LastType
      <4>2. ASSUME NEW r \in Reports
            PROVE  r \in info.listed <=>
                     r[1] < info.type + 1 \/ (r[1] = info.type + 1 /\ r[2] <= -1)
        <5>0. PICK t \in 1..3 : \E k \in Ids(t) : r = <<t, k>>
          BY IdsAre
        <5>1. PICK k \in Ids(t) : r = <<t, k>>
          BY <5>0
        <5>2. k \in Nat /\ r[1] = t /\ r[2] = k
          BY <5>1, IdsAre
        <5>3. r \in info.listed <=> t < info.type \/ (t = info.type /\ k <= info.id)
          BY <2>2, <3>2, <5>2
        <5>4. t = info.type => k <= info.id
          BY <2>1, <4>1, <5>1, <5>2 DEF Later
        <5> QED BY <4>1, <5>1, <5>2, <5>3, <5>4
      <4> QED BY <2>1, <3>1, <4>1, <4>2
    <3> QED BY <2>1, <3>1, <3>2 DEF Listed
  <2> QED BY <1>1, <2>3, <2>4 DEF do_report_info, Exit
<1>2. CASE ~do_report_info /\ ~(do_command_info /\ pc' = "info")
  BY <1>2, InfoFrame DEF Listed
<1>3. CASE do_command_info
  <2>1. pc = "dispatch" /\ pc' = "info" /\ info' = info
    BY <1>3 DEF do_command_info, Dispatch, Goto, locals
  <2>2. info = [type |-> 1, id |-> -1, listed |-> {}]
    BY <2>1 DEF Listed
  <2>3. Upto(1, -1) = {}
    BY IdsAre
  <2> QED BY <2>1, <2>2, <2>3 DEF Listed
<1> QED BY <1>1, <1>2, <1>3

\* Between the question for the length and the printing, no request is given
\* and no device opened.
LEMMA LengthFrame ==
  ASSUME [Next]_vars, ~GetFieldInfo, pc' \in {"fetch", "getusages"}
  PROVE  /\ pc \in {"fetch", "getusages"} /\ report' = report
         /\ Replug \/ alive' = alive
BY DEF Next, Program, Command, hiddev_find_device, Open, BadCommand, do_command_info,
       do_command_sample, do_command_getreport, do_command_monitor, do_command_feature_get,
       do_command_feature_set, do_report_info, Select, AskReport, ReadFails, ReadOne, Accumulate,
       CheckTime, Emit, GetFieldInfo, SetFieldInfo, FetchReport, GetUsages, SetUsages, SendReport,
       DeviceSends, Second, ClockSetBack, Replug, OtherProgram, Terminated, Dispatch, Refuse,
       SelectFails, Goto, Exit, vars, world, locals, Reading, Featuring

\* What getusages prints has been fetched for it (hidtool.c:728-785).
LEMMA FetchedStep == ASSUME Typing, Placed, Fetched, [Next]_vars PROVE Fetched'
<1>0. cmd' = cmd
  BY SearchFrame DEF Typing
<1>1. report' = [id |-> report'.id, bytes |-> report'.bytes, length |-> report'.length]
  BY ReportFrame DEF Fetched, do_command_feature_get, do_command_feature_set, GetFieldInfo,
                     SetFieldInfo, Refuse, locals
<1>2. ASSUME cmd.command = "getfeature", pc' \in {"fieldinfo", "fetch", "getusages"}
      PROVE  report'.id = Argument
  <2>1. CASE do_command_feature_get
    BY <1>2, <2>1 DEF do_command_feature_get, Refuse, Exit, Fetched
  <2>2. CASE do_command_feature_set
    BY <1>2, <2>2 DEF do_command_feature_set, Refuse, Dispatch
  <2>3. CASE ~do_command_feature_get /\ ~do_command_feature_set
    <3>1. pc \in {"fieldinfo", "fetch", "getusages"} /\ report.id = Argument
      BY <1>2, <2>3, ReportFrame DEF Fetched
    <3>2. report'.id = report.id
      BY <2>3, ReportFrame DEF Fetched, GetFieldInfo, SetFieldInfo
    <3> QED BY <3>1, <3>2
  <2> QED BY <2>1, <2>2, <2>3
<1>3. ASSUME pc' = "getusages", spent'.others = 0
      PROVE  cache'[report'.id] = device'[report'.id]
  <2>1. CASE FetchReport
    BY <1>3, <2>1 DEF FetchReport, Exit, Goto, Known, Typing, locals
  <2>2. CASE OtherProgram
    BY <1>3, <2>2 DEF OtherProgram, Typing
  <2>3. CASE ~FetchReport /\ ~OtherProgram
    <3>1. pc = "getusages" /\ UNCHANGED <<cache, device>> /\ spent'.others = spent.others
      BY <1>3, <2>3, ReportFrame DEF Replug, Typing
    <3>2. report' = report
      BY <3>1, <1>3, ReportFrame DEF do_command_feature_get, do_command_feature_set, GetFieldInfo,
                     SetFieldInfo, Refuse, Dispatch, Goto, Exit, TooLong, TooShort
    <3> QED BY <1>3, <3>1, <3>2 DEF Fetched
  <2> QED BY <2>1, <2>2, <2>3
<1>4. Argument' = Argument
  BY <1>0 DEF Argument, HasOption, Words, First
<1>5. ASSUME pc' \in {"fetch", "getusages"}, alive', report'.id \in FeatureIds
      PROVE  report'.length = FeatureLength[report'.id]
  <2>1. CASE GetFieldInfo
    <3>1. PICK l \in ReportLengths : report' = [report EXCEPT !.length = l]
      BY <2>1 DEF GetFieldInfo
    <3>2. report'.id = report.id /\ report'.length = l
      BY <3>1 DEF Fetched
    <3>3. Known(report.id)
      BY <1>5, <2>1, <3>2 DEF GetFieldInfo, Known, world
    <3> QED BY <3>1, <3>2, <3>3 DEF ReportLengths
  <2>2. CASE ~GetFieldInfo
    <3>1. /\ pc \in {"fetch", "getusages"} /\ report' = report
          /\ Replug \/ alive' = alive
      BY <1>5, <2>2, LengthFrame
    <3>2. alive
      BY <1>5, <3>1 DEF Replug
    <3> QED BY <1>5, <3>1, <3>2 DEF Fetched, Known
  <2> QED BY <2>1, <2>2
<1> QED BY <1>0, <1>1, <1>2, <1>3, <1>4, <1>5 DEF Fetched, Known

\* The sum is exact until it wraps (hidtool.c:232-301).
LEMMA SummedStep == ASSUME Typing, Summed, [Next]_vars PROVE Summed'
<1> DEFINE M == [timeout |-> monitor.timeout, xcmd |-> monitor.xcmd,
                 average |-> monitor.average, avg_count |-> monitor.avg_count,
                 elapsed |-> monitor.elapsed]
<1>0. /\ monitor = M /\ monitor.average \in Nat /\ monitor.avg_count = cycle.n
      /\ (cycle.sum < UintMod => monitor.average = cycle.sum)
      /\ cycle.n \in Nat /\ cycle.sum \in Nat
  BY DEF Summed, Typing
<1>1. CASE do_command_monitor
  <2>1. cycle' = cycle /\ \E a, b : \/ monitor' = [monitor EXCEPT !.timeout = a, !.xcmd = b]
                                   \/ monitor' = monitor
    BY <1>1 DEF do_command_monitor, Refuse, locals
  <2> QED BY <1>0, <2>1 DEF Summed
<1>2. CASE CheckTime \/ Second \/ ClockSetBack
  <2>1. cycle' = cycle /\ \E a : monitor' = [monitor EXCEPT !.elapsed = a] \/ monitor' = monitor
    BY <1>2 DEF CheckTime, Second, ClockSetBack
  <2> QED BY <1>0, <2>1 DEF Summed
<1>3. CASE Accumulate
  <2>1. /\ monitor' = [monitor EXCEPT !.average = (@ + Head(events)) % UintMod, !.avg_count = @ + 1]
        /\ cycle' = [n |-> cycle.n + 1, sum |-> cycle.sum + Head(events)]
    BY <1>3 DEF Accumulate
  <2>2. Head(events) \in Nat /\ UintMod \in Nat \ {0}
    BY <1>3, HidToolAssumption DEF HidToolAssumption, Accumulate, Typing
  <2>3. (monitor.average + Head(events)) % UintMod \in Nat
    BY <1>0, <2>2
  <2>4. cycle.sum + Head(events) < UintMod =>
          (monitor.average + Head(events)) % UintMod = cycle.sum + Head(events)
    BY <1>0, <2>2
  <2> QED BY <1>0, <2>1, <2>3, <2>4 DEF Summed
<1>4. CASE Emit
  <2>1. /\ monitor' = [monitor EXCEPT !.average = 0, !.avg_count = 0]
        /\ cycle' = [n |-> 0, sum |-> 0]
    BY <1>4 DEF Emit, NextCycle
  <2> QED BY <1>0, <2>1 DEF Summed
<1>5. CASE UNCHANGED <<monitor, cycle>>
  BY <1>5 DEF Summed
<1> QED BY <1>1, <1>2, <1>3, <1>4, <1>5, MonitorFrame

\* Success (hidtool.c:503-506) is reported where the command is done.
LEMMA SuccessStep ==
  ASSUME Typing, Placed, Listed, SuccessMeansDone, [Next]_vars
  PROVE  SuccessMeansDone'
<1>0. cmd' = cmd
  BY SearchFrame DEF Typing
<1>1. CASE pc = "exit"
  <2>1. UNCHANGED <<cmd, alive, device, spent, status, info, output>>
    BY <1>1, ExitFrame DEF vars, world, locals
  <2> QED BY <2>1 DEF SuccessMeansDone
<1>2. CASE pc # "exit"
  <2> SUFFICES ASSUME status' = "success" PROVE SuccessMeansDone'
    BY DEF SuccessMeansDone
  <2>1. status # "success"
    BY <1>2 DEF Placed
  <2>2. CASE BadCommand
    BY <1>0, <2>2 DEF BadCommand, SuccessMeansDone
  <2>3. CASE do_report_info
    <3>1. /\ pc = "info" /\ cmd.command = "info" /\ alive' = alive
          /\ info.type \in Int
      BY <2>3 DEF do_report_info, Placed, world, Listed
    <3>2. info.type = 3 /\ (~alive \/ Later(3, info.id) = {}) /\ pc' = "exit"
          /\ info' = [info EXCEPT !.type = @ + 1, !.id = -1]
      BY <2>1, <2>3 DEF do_report_info, Goto, Exit, LastType
    <3>3. ASSUME alive PROVE info'.listed = Reports
      <4>1. info.listed = { r \in Reports : r[1] < 3 \/ (r[1] = 3 /\ r[2] <= info.id) }
        BY <3>1, <3>2, <3>3 DEF Listed
      <4>2. ASSUME NEW r \in Reports PROVE r[1] < 3 \/ (r[1] = 3 /\ r[2] <= info.id)
        <5>1. PICK t \in 1..3 : \E k \in Ids(t) : r = <<t, k>>
          BY IdsAre
        <5>2. PICK k \in Ids(t) : r = <<t, k>>
          BY <5>1
        <5>3. k \in Nat /\ r[1] = t /\ r[2] = k /\ info.id \in Int
          BY <5>2, IdsAre DEF Listed
        <5>4. t = 3 => k <= info.id
          BY <3>2, <3>3, <5>2, <5>3 DEF Later
        <5> QED BY <5>3, <5>4
      <4>3. info'.listed = info.listed
        BY <3>2 DEF Listed
      <4> QED BY <4>1, <4>2, <4>3
    <3> QED BY <1>0, <3>1, <3>3 DEF SuccessMeansDone, Reports, Ids
  <2>4. CASE ReadOne
    BY <1>0, <2>4 DEF ReadOne, Put, SuccessMeansDone
  <2>5. CASE GetUsages
    <3>1. cmd.command = "getfeature" /\ output'.what = "report"
      BY <2>1, <2>5 DEF GetUsages, Placed, Goto, Exit, Put
    <3> QED BY <1>0, <3>1 DEF SuccessMeansDone
  <2>6. CASE SendReport
    <3>1. cmd.command = "setfeature" /\ output'.what = "sent"
      BY <2>1, <2>6 DEF SendReport, Placed, Goto, Exit, Put
    <3> QED BY <1>0, <3>1 DEF SuccessMeansDone
  <2> QED BY <1>2, <2>1, <2>2, <2>3, <2>4, <2>5, <2>6, ExitFrame
<1> QED BY <1>1, <1>2

\* The rest of a report of zeros.
LEMMA ZeroRest ==
  \A l \in Nat, p \in Nat : p <= l =>
    SubSeq([b \in 1..l |-> 0], p + 1, l) = [k \in 1..l - p |-> 0]
OBVIOUS

\* A sequence is all of itself.
LEMMA WholeSequence ==
  ASSUME NEW n \in Nat, NEW S, NEW s \in [1..n -> S]
  PROVE  SubSeq(s, 1, n) = s
<1>1. s \in Seq(S) /\ Len(s) = n
  OBVIOUS
<1>2. SubSeq(s, 1, n) \in Seq(S) /\ Len(SubSeq(s, 1, n)) = n
      /\ \A k \in 1..n : SubSeq(s, 1, n)[k] = s[k]
  BY <1>1
<1> QED BY <1>1, <1>2

\* The bytes of a command line have a length.
LEMMA BytesLength == ASSUME Typing PROVE Len(Bytes(Rest)) \in Nat
<1>1. Words \in Seq({Option} \cup Nat)
  BY CommandLine DEF Words
<1>2. Len(Rest) \in Nat
  <2>1. Rest \in Seq({Option} \cup Nat)
    <3>1. optind \in Nat \ {0}
      BY CommandLine DEF optind, First
    <3>2. SubSeq(Words, optind, Len(Words)) \in Seq({Option} \cup Nat)
      BY <1>1, <3>1
    <3>3. <<0>> \o Words \in Seq({Option} \cup Nat)
      BY <1>1
    <3> QED BY <3>2, <3>3 DEF Rest
  <2> QED BY <2>1
<1> QED BY <1>2, HidToolAssumption DEF Bytes, HidToolAssumption

\* The length of a feature report is a number.
LEMMA LengthNat == \A i \in FeatureIds : FeatureLength[i] \in Nat
<1> TAKE i \in FeatureIds
<1>1. FeatureLength[i] \in 1..BufSize /\ BufSize \in Nat
  BY HidToolAssumption DEF HidToolAssumption
<1> QED BY <1>1

\* A report that nobody has fetched or set is zeros in the kernel's copy.
LEMMA ZeroReport ==
  ASSUME Rezeroed
  PROVE  \A i \in FeatureIds : cache[i] = [b \in 1..FeatureLength[i] |-> 0]
<1>1. cache = [i \in FeatureIds |-> [b \in 1..FeatureLength[i] |-> 0]]
  BY DEF Rezeroed
<1> TAKE i \in FeatureIds
<1> QED BY <1>1

\* Only the feature commands reach the places of a request, and only SetUsages
\* puts the copy in place that is sent.
LEMMA SendFrame ==
  ASSUME [Next]_vars
  PROVE  /\ pc' \in {"fieldinfo", "setusages", "send"} =>
              \/ do_command_feature_get \/ do_command_feature_set
              \/ pc \in {"fieldinfo", "setusages", "send"}
         /\ pc' \notin {"send", "exit"} => pc \notin {"send", "exit"}
         /\ pc' = "send" => \/ SetUsages \/ OtherProgram
                            \/ pc = "send" /\ UNCHANGED <<cache, report, spent>>
                            \/ pc = "send" /\ UNCHANGED <<cache, report>> /\ Replug
BY DEF Next, Program, Command, hiddev_find_device, Open, BadCommand, do_command_info,
       do_command_sample, do_command_getreport, do_command_monitor, do_command_feature_get,
       do_command_feature_set, do_report_info, Select, AskReport, ReadFails, ReadOne, Accumulate,
       CheckTime, Emit, GetFieldInfo, SetFieldInfo, FetchReport, GetUsages, SetUsages, SendReport,
       DeviceSends, Second, ClockSetBack, Replug, OtherProgram, Terminated, Dispatch, Refuse,
       SelectFails, Goto, Exit, vars, world, locals, Reading, Featuring

\* A request waits for SetUsages as SetFieldInfo left it.
LEMMA UsageFrame ==
  ASSUME [Next]_vars, pc' = "setusages"
  PROVE  SetFieldInfo \/ (pc = "setusages" /\ report' = report /\ (alive' => alive))
BY DEF Next, Program, Command, hiddev_find_device, Open, BadCommand, do_command_info,
       do_command_sample, do_command_getreport, do_command_monitor, do_command_feature_get,
       do_command_feature_set, do_report_info, Select, AskReport, ReadFails, ReadOne, Accumulate,
       CheckTime, Emit, GetFieldInfo, SetFieldInfo, FetchReport, GetUsages, SetUsages, SendReport,
       DeviceSends, Second, ClockSetBack, Replug, OtherProgram, Terminated, Dispatch, Refuse,
       SelectFails, Goto, Exit, vars, world, locals, Reading, Featuring

\* What is sent is what was given (hidtool.c:787-841).
LEMMA GivenStep == ASSUME Typing, Placed, Fetched, Given, [Next]_vars PROVE Given'
<1>0. cmd' = cmd /\ Argument' = Argument /\ Rest' = Rest /\ Bytes(Rest)' = Bytes(Rest)
  BY SearchFrame DEF Typing, Argument, HasOption, Words, First, Rest, optind, Bytes
<1> SUFFICES ASSUME cmd.command = "setfeature" PROVE Given'
  BY <1>0 DEF Given
<1>1. ASSUME pc' \in {"fieldinfo", "setusages", "send"}
      PROVE  report'.id = Argument /\ report'.bytes = Bytes(Rest)
  <2>1. CASE do_command_feature_set
    BY <1>1, <2>1 DEF do_command_feature_set, Refuse, Exit, Fetched
  <2>2. CASE do_command_feature_get
    BY <2>2 DEF do_command_feature_get, Refuse, Dispatch
  <2>3. CASE ~do_command_feature_get /\ ~do_command_feature_set
    <3>1. report.id = Argument /\ report.bytes = Bytes(Rest)
      BY <1>1, <2>3, SendFrame DEF Given
    <3>2. report'.id = report.id /\ report'.bytes = report.bytes
      BY <2>3, ReportFrame DEF Fetched, GetFieldInfo, SetFieldInfo
    <3> QED BY <3>1, <3>2
  <2> QED BY <2>1, <2>2, <2>3
<1>2. ASSUME spent'.others = 0, pc' \notin {"send", "exit"}
      PROVE  Rezeroed'
  <2>1. ~OtherProgram
    BY <1>2 DEF OtherProgram, Typing
  <2>2. spent.others = 0
    BY <1>2, <2>1, TypingFrame DEF ClockSetBack, Replug, Typing
  <2>3. ~do_command_getreport /\ ~FetchReport /\ ~SetUsages
    BY <1>2 DEF do_command_getreport, FetchReport, SetUsages, Placed, Goto, Exit
  <2>4. cache' = cache
    BY <2>1, <2>3, TypingFrame
  <2> QED BY <1>2, <2>2, <2>4, SendFrame DEF Given, Rezeroed
<1>3. ASSUME pc' = "setusages", Known(report.id)'
      PROVE  Len(report'.bytes) <= FeatureLength[report'.id]
  <2>1. CASE SetFieldInfo
    <3>1. PICK l \in ReportLengths : report' = [report EXCEPT !.length = l] /\ ~TooShort(l)
      BY <1>3, <2>1 DEF SetFieldInfo, Exit
    <3>2. alive' = alive /\ report'.id = report.id /\ report'.bytes = report.bytes
      BY <2>1, <3>1 DEF SetFieldInfo, world, Fetched
    <3>3. l = FeatureLength[report.id] /\ l \in Nat
      BY <1>3, <3>1, <3>2, HidToolAssumption DEF HidToolAssumption, ReportLengths, Known
    <3>4. Len(report.bytes) \in Nat
      BY <1>1, <1>3, <3>2, BytesLength
    <3> QED BY <3>1, <3>2, <3>3, <3>4 DEF TooShort
  <2>2. CASE ~SetFieldInfo
    <3>1. pc = "setusages" /\ report' = report /\ (alive' => alive)
      BY <1>3, <2>2, UsageFrame
    <3> QED BY <1>3, <3>1 DEF Given, Known
  <2> QED BY <2>1, <2>2
<1>4. ASSUME pc' = "send", spent'.others = 0
      PROVE  /\ report'.id \in FeatureIds
             /\ cache'[report'.id] = Padded(report'.bytes, FeatureLength[report'.id])
  <2>1. CASE SetUsages
    <3> DEFINE id == report.id
               l == FeatureLength[id]
               p == Len(report.bytes)
    <3>1. /\ pc = "setusages" /\ Known(id) /\ report' = report /\ spent' = spent
          /\ cache' = [cache EXCEPT ![id] = report.bytes \o SubSeq(@, p + 1, l)]
      BY <1>4, <2>1 DEF SetUsages, Goto, Exit, locals, Passed
    <3>2. id \in FeatureIds /\ l \in Nat /\ p <= l /\ cache[id] = [b \in 1..l |-> 0]
      <4>1. id \in FeatureIds /\ p <= l /\ Rezeroed
        BY <1>4, <3>1 DEF Given, Known
      <4>2. l \in Nat
        BY <4>1, LengthNat
      <4> QED BY <4>1, <4>2, ZeroReport
    <3>3. p \in Nat
      BY <3>1, BytesLength DEF Given
    <3>4. SubSeq(cache[id], p + 1, l) = [k \in 1..l - p |-> 0]
      BY <3>2, <3>3, ZeroRest
    <3>5. cache'[id] = report.bytes \o SubSeq(cache[id], p + 1, l)
      BY <3>1, <3>2 DEF Typing
    <3> QED BY <3>1, <3>2, <3>4, <3>5 DEF Padded
  <2>2. CASE OtherProgram
    BY <1>4, <2>2 DEF OtherProgram, Typing
  <2>3. CASE ~SetUsages /\ ~OtherProgram
    <3>1. pc = "send" /\ UNCHANGED <<cache, report>> /\ spent'.others = spent.others
      BY <1>4, <2>3, SendFrame DEF Replug, Typing
    <3> QED BY <1>4, <3>1 DEF Given
  <2> QED BY <2>1, <2>2, <2>3
<1> QED BY <1>0, <1>1, <1>2, <1>3, <1>4 DEF Given

\* A setfeature that succeeds has sent that.
LEMMA SentStep == ASSUME Typing, Placed, Fetched, Given, SentIsGiven, [Next]_vars PROVE SentIsGiven'
<1>0. cmd' = cmd
  BY SearchFrame DEF Typing
<1>1. GivenId' = GivenId /\ WellFormed' = WellFormed /\ GivenBytes' = GivenBytes
  BY <1>0 DEF GivenId, WellFormed, Words, GivenBytes, Bytes
<1>2. CASE pc = "exit"
  <2>1. UNCHANGED <<device, spent, status>>
    BY <1>2, ExitFrame DEF vars, world
  <2> QED BY <1>0, <1>1, <2>1 DEF SentIsGiven
<1>3. CASE pc # "exit"
  <2> SUFFICES ASSUME status' = "success", cmd.command = "setfeature", cmd.skip = 0,
                      WellFormed, spent'.others = 0
               PROVE  device'[GivenId] = Padded(GivenBytes, FeatureLength[GivenId])
    BY <1>0, <1>1 DEF SentIsGiven, Padded
  <2>1. SendReport
    <3>1. status # "success"
      BY <1>3 DEF Placed
    <3>2. ~BadCommand /\ ~do_report_info /\ ~ReadOne /\ ~GetUsages
      BY DEF BadCommand, do_report_info, ReadOne, GetUsages, Placed, Goto, Exit
    <3> QED BY <1>3, <3>1, <3>2, ExitFrame
  <2>2. pc = "send" /\ spent' = spent /\ device' = [device EXCEPT ![report.id] = cache[report.id]]
    BY <2>1 DEF SendReport, Exit
  <2>3. /\ report.id = Argument /\ report.bytes = Bytes(Rest) /\ report.id \in FeatureIds
        /\ cache[report.id] = Padded(report.bytes, FeatureLength[report.id])
    BY <2>2 DEF Given
  <2>4. Argument = GivenId /\ Bytes(Rest) = GivenBytes
    <3>1. Len(Words) \in Nat /\ Len(Words) >= 2 /\ Words[1] = Option /\ First = 1
      BY CommandLine DEF WellFormed, Words, First
    <3>2. HasOption /\ Argument = Number(Words[2]) /\ optind = 3
      BY <3>1 DEF HasOption, Argument, optind
    <3>3. Rest = SubSeq(Words, 3, Len(Words))
      BY <3>1, <3>2 DEF Rest
    <3> QED BY <3>2, <3>3 DEF GivenId, GivenBytes
  <2> QED BY <2>2, <2>3, <2>4 DEF Typing
<1> QED BY <1>2, <1>3

------------------------------------------------------------------------------
\* What TypeOK adds to Typing, Placed and Listed: the contents of the reports,
\* and how far the counters go.
Content(f) == \A i \in FeatureIds : f[i] \in [1..FeatureLength[i] -> 0..ByteMod]
Wide ==
    /\ Content(cache) /\ Content(device)
    /\ Len(events) <= QueueMax /\ sent \in 0..Rate
    /\ status \in {"none", "success", "failure", "crash"}
    /\ search.entry \in 1..N + 1 /\ search.found \in 0..N
    /\ report.bytes \in Seq(0..ByteMod) /\ Len(report.bytes) <= BufSize
    /\ report.id \in Int /\ report.length \in Int
    /\ monitor.average \in 0..UintMod - 1 /\ monitor.avg_count \in Nat
    /\ pc \in {"check", "emit"} => monitor.avg_count > 0

\* Which actions change what Wide speaks of.
LEMMA WideFrame ==
  ASSUME [Next]_vars
  PROVE  /\ DeviceSends \/ Second \/ sent' = sent
         /\ hiddev_find_device \/ search' = search
         /\ pc' \in {"check", "emit"} =>
              \/ Accumulate \/ CheckTime
              \/ pc \in {"check", "emit"} /\ ~Emit
         /\ status' \in {status, "success", "failure", "crash"}
BY DEF Next, Program, Command, hiddev_find_device, Open, BadCommand, do_command_info,
       do_command_sample, do_command_getreport, do_command_monitor, do_command_feature_get,
       do_command_feature_set, do_report_info, Select, AskReport, ReadFails, ReadOne, Accumulate,
       CheckTime, Emit, GetFieldInfo, SetFieldInfo, FetchReport, GetUsages, SetUsages, SendReport,
       DeviceSends, Second, ClockSetBack, Replug, OtherProgram, Terminated, Dispatch, Refuse,
       SelectFails, Goto, Exit, vars, world, locals

\* What the command line gives (hidtool.c:327-366): a number for -i or -t, and
\* at most a buffer of bytes.
LEMMA GivenBytesAre ==
  ASSUME Typing
  PROVE  /\ ~Malformed => Argument \in Nat
         /\ Bytes(Rest) \in Seq(0..ByteMod) /\ Len(Bytes(Rest)) <= BufSize
<1>1. Words \in Seq({Option} \cup Nat) /\ First \in Nat \ {0}
  BY CommandLine DEF Words, First
<1>2. \A w \in {Option} \cup Nat : Number(w) \in Nat
  BY DEF Number
<1>3. ~Malformed => Argument \in Nat
  <2> SUFFICES ASSUME ~Malformed, HasOption PROVE Argument \in Nat
    BY DEF Argument
  <2>1. First + 1 \in 1..Len(Words)
    BY <1>1 DEF Malformed, HasOption
  <2>2. Words[First + 1] \in {Option} \cup Nat
    BY <1>1, <2>1
  <2> QED BY <1>2, <2>2 DEF Argument
<1>4. Rest \in Seq({Option} \cup Nat)
  <2>1. optind \in Nat \ {0}
    BY <1>1 DEF optind
  <2>2. SubSeq(Words, optind, Len(Words)) \in Seq({Option} \cup Nat)
    BY <1>1, <2>1
  <2>3. <<0>> \o Words \in Seq({Option} \cup Nat)
    BY <1>1
  <2> QED BY <2>2, <2>3 DEF Rest
<1>5. ByteMod \in Nat /\ ByteMod > 3 /\ BufSize \in Nat
  BY HidToolAssumption DEF HidToolAssumption
<1>6. \A w \in {Option} \cup Nat : ByteOf(w) \in 0..ByteMod
  BY <1>2, <1>5 DEF ByteOf
<1>7. PICK l \in Nat : /\ l <= Len(Rest) /\ l <= BufSize
                      /\ Bytes(Rest) = [k \in 1..l |-> ByteOf(Rest[k])]
  BY <1>4, <1>5 DEF Bytes
<1>8. \A k \in 1..l : ByteOf(Rest[k]) \in 0..ByteMod
  BY <1>4, <1>6, <1>7
<1>9. Bytes(Rest) \in Seq(0..ByteMod) /\ Len(Bytes(Rest)) = l
  BY <1>7, <1>8
<1> QED BY <1>3, <1>7, <1>9

\* Bytes given in front of a report leave it as long as it was.
LEMMA Overlaid ==
  ASSUME NEW S, NEW l \in Nat, NEW c \in [1..l -> S], NEW b \in Seq(S), Len(b) <= l
  PROVE  b \o SubSeq(c, Len(b) + 1, l) \in [1..l -> S]
<1> DEFINE n == Len(b)
           tail == SubSeq(c, n + 1, l)
           all == b \o tail
<1>1. n \in Nat /\ n <= l /\ c \in Seq(S) /\ Len(c) = l
  OBVIOUS
<1>2. tail \in Seq(S) /\ Len(tail) = l - n
  BY <1>1
<1> HIDE DEF tail
<1>3. all \in Seq(S) /\ Len(all) = n + (l - n)
  BY <1>1, <1>2
<1>4. n + (l - n) = l
  BY <1>1
<1> HIDE DEF all
<1>5. all \in [1..l -> S]
  BY <1>3, <1>4
<1> QED BY <1>5 DEF all, tail

\* The contents of the reports (hidtool.c:728-841): what is copied or put over
\* a report has its length.
LEMMA ContentStep ==
  ASSUME Typing, Placed, Given, Wide, [Next]_vars
  PROVE  Content(cache)' /\ Content(device)'
<1>0. /\ \A i \in FeatureIds : cache[i] \in [1..FeatureLength[i] -> 0..ByteMod]
      /\ \A i \in FeatureIds : device[i] \in [1..FeatureLength[i] -> 0..ByteMod]
      /\ DOMAIN cache = FeatureIds /\ DOMAIN device = FeatureIds
  BY DEF Typing, Wide, Content
<1>1. \A i \in FeatureIds : cache'[i] \in [1..FeatureLength[i] -> 0..ByteMod]
  <2>1. CASE do_command_getreport
    <3>1. cache' = device \/ cache' = cache
      BY <2>1 DEF do_command_getreport
    <3> QED BY <1>0, <3>1
  <2>2. CASE FetchReport
    <3>1. \/ cache' = cache
          \/ report.id \in FeatureIds /\ cache' = [cache EXCEPT ![report.id] = device[report.id]]
      BY <2>2 DEF FetchReport, Known
    <3> QED BY <1>0, <3>1
  <2>3. CASE SetUsages
    <3>1. CASE cache' = cache
      BY <1>0, <3>1
    <3>2. CASE cache' # cache
      <4> DEFINE id == report.id
                 new == report.bytes \o SubSeq(cache[id], Len(report.bytes) + 1, FeatureLength[id])
      <4>1. pc = "setusages" /\ Known(id) /\ cache' = [cache EXCEPT ![id] = new]
        BY <2>3, <3>2 DEF SetUsages, Passed, Goto, Exit
      <4>2. /\ id \in FeatureIds /\ Len(report.bytes) <= FeatureLength[id]
            /\ report.bytes \in Seq(0..ByteMod)
        BY <4>1 DEF Wide, Placed, Given, Known
      <4>3. FeatureLength[id] \in Nat
        BY <4>2, LengthNat
      <4>4. new \in [1..FeatureLength[id] -> 0..ByteMod]
        BY <1>0, <4>2, <4>3, Overlaid
      <4> HIDE DEF new
      <4> QED BY <1>0, <4>1, <4>4
    <3> QED BY <3>1, <3>2
  <2>4. CASE OtherProgram
    <3>1. PICK i \in FeatureIds : cache' = [cache EXCEPT ![i] = [k \in 1..FeatureLength[i] |-> 3]]
      BY <2>4 DEF OtherProgram
    <3>2. 3 \in 0..ByteMod
      BY HidToolAssumption DEF HidToolAssumption
    <3>3. [k \in 1..FeatureLength[i] |-> 3] \in [1..FeatureLength[i] -> 0..ByteMod]
      BY <3>2
    <3> QED BY <1>0, <3>1, <3>3
  <2> QED BY <1>0, <2>1, <2>2, <2>3, <2>4, TypingFrame
<1>2. \A i \in FeatureIds : device'[i] \in [1..FeatureLength[i] -> 0..ByteMod]
  <2>1. CASE SendReport
    <3>1. \/ device' = device
          \/ report.id \in FeatureIds /\ device' = [device EXCEPT ![report.id] = cache[report.id]]
      BY <2>1 DEF SendReport, Known
    <3> QED BY <1>0, <3>1
  <2>2. CASE OtherProgram
    <3>1. PICK i \in FeatureIds : device' = [device EXCEPT ![i] = [k \in 1..FeatureLength[i] |-> 3]]
      BY <2>2 DEF OtherProgram
    <3>2. 3 \in 0..ByteMod
      BY HidToolAssumption DEF HidToolAssumption
    <3>3. [k \in 1..FeatureLength[i] |-> 3] \in [1..FeatureLength[i] -> 0..ByteMod]
      BY <3>2
    <3> QED BY <1>0, <3>1, <3>3
  <2> QED BY <1>0, <2>1, <2>2, TypingFrame
<1> QED BY <1>1, <1>2 DEF Content

\* The counters and the command's arguments (hidtool.c:232-301, 599-657).
LEMMA WideStep ==
  ASSUME Typing, Placed, Fetched, Given, Summed, Wide, [Next]_vars
  PROVE  Wide'
<1>0. /\ N \in Nat /\ Rate \in Nat \ {0} /\ UintMod \in Nat \ {0} /\ QueueMax \in Nat
      /\ BufSize \in Nat /\ ByteMod \in Nat /\ Values \subseteq Nat /\ Unset \subseteq Int
  BY HidToolAssumption DEF HidToolAssumption
<1>1. Content(cache)' /\ Content(device)'
  BY ContentStep
<1>2. Len(events') <= QueueMax
  <2>1. events \in Seq(Values) /\ Len(events) <= QueueMax
    BY DEF Typing, Wide
  <2>2. CASE ReadOne \/ Accumulate
    <3>1. events # <<>> /\ events' = Tail(events)
      BY <2>2 DEF ReadOne, Accumulate
    <3> QED BY <1>0, <2>1, <3>1
  <2>3. CASE DeviceSends
    <3>1. PICK v \in Values : events' = Append(events, v) /\ Len(events) < QueueMax
      BY <2>3 DEF DeviceSends
    <3> QED BY <1>0, <2>1, <3>1
  <2> QED BY <2>1, <2>2, <2>3, TypingFrame
<1>3. sent' \in 0..Rate
  <2>1. sent \in 0..Rate
    BY DEF Wide
  <2>2. CASE DeviceSends
    <3>1. sent < Rate /\ sent' = sent + 1
      BY <2>2 DEF DeviceSends
    <3> QED BY <1>0, <2>1, <3>1
  <2>3. CASE Second
    <3>1. sent' = 0
      BY <2>3 DEF Second
    <3> QED BY <1>0, <3>1
  <2> QED BY <2>1, <2>2, <2>3, WideFrame
<1>4. status' \in {"none", "success", "failure", "crash"}
  BY WideFrame DEF Wide
<1>5. search'.entry \in 1..N + 1 /\ search'.found \in 0..N
  <2>1. search.entry \in 1..N + 1 /\ search.found \in 0..N
    BY DEF Wide
  <2>2. CASE hiddev_find_device /\ search' # search
    <3>1. ~SearchEnds(search.entry)
      BY <2>2 DEF hiddev_find_device
    <3>2. search.entry \in 1..N
      BY <3>1 DEF SearchEnds
    <3>3. \/ search' = [search EXCEPT !.entry = search.entry + 1]
          \/ search' = [search EXCEPT !.found = search.entry]
      BY <2>2 DEF hiddev_find_device
    <3>4. search \in [entry : Nat \ {0}, found : Nat]
      BY DEF Typing
    <3>5. \/ search'.entry = search.entry + 1 /\ search'.found = search.found
          \/ search'.entry = search.entry /\ search'.found = search.entry
      BY <3>3, <3>4
    <3> QED BY <1>0, <2>1, <3>2, <3>5
  <2> QED BY <2>1, <2>2, WideFrame
<1>6. /\ report'.bytes \in Seq(0..ByteMod) /\ Len(report'.bytes) <= BufSize
      /\ report'.id \in Int /\ report'.length \in Int
  <2>1. /\ report.bytes \in Seq(0..ByteMod) /\ Len(report.bytes) <= BufSize
        /\ report.id \in Int /\ report.length \in Int
    BY DEF Wide
  <2>2. report = [id |-> report.id, bytes |-> report.bytes, length |-> report.length]
    BY DEF Fetched
  <2>3. CASE (do_command_feature_get \/ do_command_feature_set) /\ report' # report
    <3>1. /\ ~Malformed
          /\ \/ report' = [report EXCEPT !.id = Argument]
             \/ report' = [report EXCEPT !.id = Argument, !.bytes = Bytes(Rest)]
      BY <2>3 DEF do_command_feature_get, do_command_feature_set, Refuse, locals
    <3>2. /\ report'.id = Argument /\ report'.length = report.length
          /\ report'.bytes = report.bytes \/ report'.bytes = Bytes(Rest)
      BY <2>2, <3>1
    <3>3. Argument \in Nat /\ Bytes(Rest) \in Seq(0..ByteMod) /\ Len(Bytes(Rest)) <= BufSize
      BY <3>1, GivenBytesAre
    <3> QED BY <2>1, <3>2, <3>3
  <2>4. CASE GetFieldInfo \/ SetFieldInfo
    <3>1. PICK l \in ReportLengths : report' = [report EXCEPT !.length = l]
      BY <2>4 DEF GetFieldInfo, SetFieldInfo
    <3>2. l \in Int
      <4>1. CASE Known(report.id)
        BY <3>1, <4>1, LengthNat DEF ReportLengths, Known
      <4>2. CASE ~Known(report.id)
        BY <1>0, <3>1, <4>2 DEF ReportLengths
      <4> QED BY <4>1, <4>2
    <3>3. report'.id = report.id /\ report'.bytes = report.bytes /\ report'.length = l
      BY <2>2, <3>1
    <3> QED BY <2>1, <3>2, <3>3
  <2> QED BY <2>1, <2>3, <2>4, ReportFrame
<1>7. /\ monitor'.average \in 0..UintMod - 1 /\ monitor'.avg_count \in Nat
      /\ pc' \in {"check", "emit"} => monitor'.avg_count > 0
  <2>1. /\ monitor.average \in 0..UintMod - 1 /\ monitor.avg_count \in Nat
        /\ pc \in {"check", "emit"} => monitor.avg_count > 0
    BY DEF Wide
  <2>2. monitor = [timeout |-> monitor.timeout, xcmd |-> monitor.xcmd,
                   average |-> monitor.average, avg_count |-> monitor.avg_count,
                   elapsed |-> monitor.elapsed]
    BY DEF Summed
  <2>3. CASE Accumulate
    <3>1. /\ monitor' = [monitor EXCEPT !.average = (@ + Head(events)) % UintMod,
                                        !.avg_count = @ + 1]
          /\ events # <<>> /\ events \in Seq(Values)
      BY <2>3 DEF Accumulate, Typing
    <3>2. Head(events) \in Nat
      BY <1>0, <3>1
    <3>3. /\ monitor'.average = (monitor.average + Head(events)) % UintMod
          /\ monitor'.avg_count = monitor.avg_count + 1
      BY <2>2, <3>1
    <3>4. \A a \in Nat : a % UintMod \in 0..UintMod - 1
      BY <1>0
    <3>5. monitor.average + Head(events) \in Nat
      BY <1>0, <2>1, <3>2
    <3> QED BY <2>1, <3>3, <3>4, <3>5
  <2>4. CASE Emit
    <3>1. monitor' = [monitor EXCEPT !.average = 0, !.avg_count = 0] /\ pc' = "select"
      BY <2>4 DEF Emit, NextCycle, Goto
    <3>2. monitor'.average = 0 /\ monitor'.avg_count = 0
      BY <2>2, <3>1
    <3> QED BY <1>0, <3>1, <3>2
  <2>5. CASE ~Accumulate /\ ~Emit
    <3>1. monitor'.average = monitor.average /\ monitor'.avg_count = monitor.avg_count
      <4>1. CASE monitor' = monitor
        BY <4>1
      <4>2. CASE monitor' # monitor
        <5>1. do_command_monitor \/ CheckTime \/ Second \/ ClockSetBack
          BY <2>5, <4>2, MonitorFrame
        <5>2. ASSUME NEW e, monitor' = [monitor EXCEPT !.elapsed = e]
              PROVE  monitor'.average = monitor.average /\ monitor'.avg_count = monitor.avg_count
          BY <2>2, <5>2
        <5>3. ASSUME NEW t, NEW x, monitor' = [monitor EXCEPT !.timeout = t, !.xcmd = x]
              PROVE  monitor'.average = monitor.average /\ monitor'.avg_count = monitor.avg_count
          BY <2>2, <5>3
        <5>4. CASE do_command_monitor
          <6>1. monitor' = [monitor EXCEPT !.timeout = Argument, !.xcmd = (Rest # <<>>)]
            BY <4>2, <5>4 DEF do_command_monitor, Refuse, locals
          <6> QED BY <5>3, <6>1
        <5>5. CASE CheckTime \/ Second \/ ClockSetBack
          <6>1. PICK e : monitor' = [monitor EXCEPT !.elapsed = e]
            BY <4>2, <5>5 DEF CheckTime, Second, ClockSetBack
          <6> QED BY <5>2, <6>1
        <5> QED BY <5>1, <5>4, <5>5
      <4> QED BY <4>1, <4>2
    <3>2. pc' \in {"check", "emit"} => pc \in {"check", "emit"}
      BY <2>5, WideFrame DEF CheckTime, Goto
    <3> QED BY <2>1, <3>1, <3>2
  <2> QED BY <2>3, <2>4, <2>5
<1> QED BY <1>1, <1>2, <1>3, <1>4, <1>5, <1>6, <1>7 DEF Wide

\* The first state has it.
LEMMA InitWide == ASSUME Init PROVE Wide
<1>0. /\ N \in Nat /\ Rate \in Nat \ {0} /\ UintMod \in Nat \ {0} /\ QueueMax \in Nat
      /\ BufSize \in Nat /\ ByteMod \in Nat /\ ByteMod > 3
      /\ \A sc \in Scenarios : sc.line.device \in 0..N
  BY HidToolAssumption DEF HidToolAssumption
<1>1. Content(cache) /\ Content(device)
  <2>1. 0 \in 0..ByteMod /\ 2 \in 0..ByteMod
    BY <1>0
  <2>2. /\ cache = [i \in FeatureIds |-> [b \in 1..FeatureLength[i] |-> 0]]
        /\ device = [i \in FeatureIds |-> [b \in 1..FeatureLength[i] |-> 2]]
    BY DEF Init
  <2>3. ASSUME NEW i \in FeatureIds
        PROVE  /\ cache[i] = [b \in 1..FeatureLength[i] |-> 0]
               /\ device[i] = [b \in 1..FeatureLength[i] |-> 2]
    BY <2>2
  <2>4. ASSUME NEW i \in FeatureIds, NEW x \in 0..ByteMod
        PROVE  [b \in 1..FeatureLength[i] |-> x] \in [1..FeatureLength[i] -> 0..ByteMod]
    OBVIOUS
  <2>5. ASSUME NEW i \in FeatureIds
        PROVE  /\ cache[i] \in [1..FeatureLength[i] -> 0..ByteMod]
               /\ device[i] \in [1..FeatureLength[i] -> 0..ByteMod]
    BY <2>1, <2>3, <2>4
  <2> QED BY <2>5 DEF Content
<1>2. events = <<>> /\ sent = 0 /\ status = "none" /\ pc \notin {"check", "emit"}
  BY DEF Init
<1>3. search.entry = 1 /\ search.found = cmd.device /\ cmd.device \in 0..N
  BY <1>0 DEF Init
<1>4. report.id = 0 /\ report.bytes = <<>> /\ report.length = 0
  BY DEF Init
<1>5. monitor.average = 0 /\ monitor.avg_count = 0
  BY DEF Init
<1>6. Len(events) <= QueueMax /\ sent \in 0..Rate
  BY <1>0, <1>2
<1>7. search.entry \in 1..N + 1 /\ search.found \in 0..N
  BY <1>0, <1>3
<1>8. /\ report.bytes \in Seq(0..ByteMod) /\ Len(report.bytes) <= BufSize
      /\ report.id \in Int /\ report.length \in Int
  BY <1>0, <1>4
<1>9. monitor.average \in 0..UintMod - 1 /\ monitor.avg_count \in Nat
  BY <1>0, <1>5
<1> QED BY <1>1, <1>2, <1>6, <1>7, <1>8, <1>9 DEF Wide

\* The first state has the invariant.
LEMMA InitHolds == ASSUME Init PROVE IInv
<1>0. PICK sc \in Scenarios : cmd = sc.line /\ node = sc.node
  BY DEF Init
<1>1. sc.node \in [1..N -> [type : Types, leads : Leads]] /\ sc.line.device \in 0..N
  BY HidToolAssumption DEF HidToolAssumption
<1>2. N \in Nat /\ UintMod \in Nat \ {0}
  BY HidToolAssumption DEF HidToolAssumption
<1>3. Typing
  <2>1. (\E sd \in Scenarios : cmd = sd.line) /\ node \in [1..N -> [type : Types, leads : Leads]]
    BY <1>0, <1>1
  <2>2. alive = FALSE /\ events = <<>>
    BY DEF Init
  <2>3. /\ DOMAIN cache = FeatureIds /\ cache = [i \in FeatureIds |-> cache[i]]
        /\ DOMAIN device = FeatureIds /\ device = [i \in FeatureIds |-> device[i]]
    BY DEF Init
  <2>4. search \in [entry : Nat \ {0}, found : Nat]
    BY <1>0, <1>1, <1>2 DEF Init
  <2>5. /\ spent \in [plugs : Nat, others : Nat, backs : Nat]
        /\ cycle \in [n : Nat, sum : Nat]
    BY DEF Init
  <2>6. alive \in BOOLEAN
    BY <2>2
  <2>7. events \in Seq(Values)
    BY <2>2
  <2> QED BY <2>1, <2>3, <2>4, <2>5, <2>6, <2>7 DEF Typing
<1>4. Placed /\ status = "none" /\ pc \in {"search", "open"} /\ (pc = "search" <=> cmd.device = 0)
  BY DEF Init, Placed
<1>5. Searched /\ FindsSensor
  BY <1>4 DEF Init, Searched, FindsSensor
<1>6. Listed
  BY <1>4 DEF Init, Listed
<1>7. Fetched /\ Summed
  BY <1>2, <1>4 DEF Init, Fetched, Summed
<1>8. SuccessMeansDone /\ SentIsGiven
  BY <1>4 DEF SuccessMeansDone, SentIsGiven
<1>9. Given
  BY <1>4 DEF Init, Given, Rezeroed
<1> QED BY <1>3, <1>4, <1>5, <1>6, <1>7, <1>8, <1>9 DEF IInv

\* Every step keeps it, part by part.
LEMMA NextKeeps == IInv /\ [Next]_vars => IInv'
BY TypingStep, PlaceStep, SearchStep, ListedStep, FetchedStep, GivenStep,
   SummedStep, SuccessStep, SentStep DEF IInv

\* So it always holds.
LEMMA AlwaysInvariant == Spec => []IInv
BY InitHolds, NextKeeps, PTL DEF Spec

\* Given the invariant, every step keeps Wide.
LEMMA WideKept == IInv /\ Wide /\ [Next]_vars => Wide'
BY WideStep DEF IInv

\* So Wide always holds too.
LEMMA AlwaysWide == Spec => []Wide
BY InitWide, WideKept, AlwaysInvariant, PTL DEF Spec

\* A report is printed whole: as many bytes as it has (hidtool.c:728-785).
LEMMA PrintedStep ==
  ASSUME IInv, Wide, PrintedIsReport, [Next]_vars
  PROVE  PrintedIsReport'
<1>0. cmd' = cmd
  BY SearchFrame DEF IInv, Typing
<1>1. CASE pc = "exit"
  <2>1. UNCHANGED <<cmd, device, spent, status, output>>
    BY <1>1, ExitFrame DEF vars, world, locals
  <2> QED BY <2>1 DEF PrintedIsReport, GivenId, WellFormed, Words
<1>2. CASE pc # "exit"
  <2> SUFFICES ASSUME status' = "success", cmd.command = "getfeature", cmd.skip = 0,
                      WellFormed, spent'.others = 0
               PROVE  output'.value = device'[GivenId]
    BY <1>0 DEF PrintedIsReport, GivenId, WellFormed, Words
  <2>1. GetUsages
    <3>1. status # "success"
      BY <1>2 DEF IInv, Placed
    <3>2. ~BadCommand /\ ~do_report_info /\ ~ReadOne /\ ~SendReport
      BY DEF BadCommand, do_report_info, ReadOne, SendReport, IInv, Placed, Goto, Exit
    <3> QED BY <1>2, <3>1, <3>2, ExitFrame
  <2> DEFINE id == report.id
  <2>2. /\ pc = "getusages" /\ Known(id) /\ output'.value = SubSeq(cache[id], 1, report.length)
        /\ UNCHANGED <<spent, device>>
    BY <2>1 DEF GetUsages, Goto, Exit, Put, world
  <2>3. /\ id = Argument /\ report.length = FeatureLength[id] /\ cache[id] = device[id]
    BY <2>2 DEF IInv, Fetched
  <2>4. SubSeq(cache[id], 1, FeatureLength[id]) = cache[id]
    <3>1. id \in FeatureIds
      BY <2>2 DEF Known
    <3>2. FeatureLength[id] \in Nat
      BY <3>1, LengthNat
    <3>3. cache[id] \in [1..FeatureLength[id] -> 0..ByteMod]
      BY <3>1 DEF Wide, Content
    <3> QED BY <3>2, <3>3, WholeSequence
  <2>5. Argument = GivenId
    BY CommandLine DEF IInv, WellFormed, Argument, HasOption, First, Words, GivenId
  <2> QED BY <2>2, <2>3, <2>4, <2>5
<1> QED BY <1>1, <1>2

\* Nothing has been printed at first, so it always holds.
LEMMA AlwaysPrinted == Spec => []PrintedIsReport
<1>1. Init => PrintedIsReport
  BY DEF Init, PrintedIsReport
<1>2. IInv /\ Wide /\ PrintedIsReport /\ [Next]_vars => PrintedIsReport'
  BY PrintedStep
<1> QED BY <1>1, <1>2, AlwaysInvariant, AlwaysWide, PTL DEF Spec

------------------------------------------------------------------------------
\* The state keeps its types: no report changes its length, no more bytes are
\* taken than buf holds, the search stays in the directory, and monitor never
\* divides by a count of zero (hidtool.c:127-301, 347-376, 599-841).
THEOREM TypeCorrect == Spec => []TypeOK
<1>1. IInv /\ Wide => TypeOK
  <2> SUFFICES ASSUME IInv, Wide PROVE TypeOK
    OBVIOUS
  <2>1. /\ cmd \in {sc.line : sc \in Scenarios}
        /\ node \in [1..N -> [type : Types, leads : Leads]] /\ alive \in BOOLEAN
        /\ events \in Seq(Values)
    BY DEF IInv, Typing
  <2>2. /\ pc \in {"search", "open", "dispatch", "info", "exit"} \cup Reading \cup Featuring
        /\ (status = "none" <=> pc # "exit")
    BY DEF IInv, Placed
  <2>3. \A i \in FeatureIds :
          cache[i] \in [1..FeatureLength[i] -> 0..ByteMod] /\ DOMAIN device[i] = DOMAIN cache[i]
    BY DEF Wide, Content
  <2>4. info.listed \subseteq {1, 2, 3} \X (InputIds \cup FeatureIds)
    <3>1. info.listed \in SUBSET Reports
      BY DEF IInv, Listed
    <3>2. Reports \subseteq {1, 2, 3} \X (InputIds \cup FeatureIds)
      BY DEF Reports, Ids
    <3> QED BY <3>1, <3>2
  <2> QED BY <2>1, <2>2, <2>3, <2>4 DEF Wide, TypeOK
<1> QED BY <1>1, AlwaysInvariant, AlwaysWide, PTL

\* The search ends at the first sensor of the directory, whatever else is in
\* it (hidtool.c:599-657).
THEOREM SensorFound == Spec => []FindsSensor
<1>1. IInv => FindsSensor
  BY DEF IInv
<1> QED BY <1>1, AlwaysInvariant, PTL

\* Exit status 0 means that the command did what it is for, also when the
\* device is pulled on the way (hidtool.c:503-506).
THEOREM SuccessTold == Spec => []SuccessMeansDone
<1>1. IInv => SuccessMeansDone
  BY DEF IInv
<1> QED BY <1>1, AlwaysInvariant, PTL

\* What getfeature prints is the whole report that the device holds
\* (hidtool.c:728-785).
THEOREM ReportPrinted == Spec => []PrintedIsReport
BY AlwaysPrinted

\* What setfeature sends is what was given (hidtool.c:347-376, 787-841).
THEOREM ReportSent == Spec => []SentIsGiven
<1>1. IInv => SentIsGiven
  BY DEF IInv
<1> QED BY <1>1, AlwaysInvariant, PTL

\* A light level of monitor is the mean of its cycle's samples as long as their
\* sum fits (hidtool.c:232-301).
THEOREM MeanExact == Spec => AverageExact
<1>1. ASSUME IInv, [Next]_vars, pc = "emit", pc' # "emit", cycle.sum < UintMod
      PROVE  output'.value = <<cycle.sum \div cycle.n>>
  <2>1. Emit
    BY <1>1, MonitorFrame
  <2>2. output'.value = <<monitor.average \div monitor.avg_count>>
    BY <2>1 DEF Emit, Put
  <2> QED BY <1>1, <2>2 DEF IInv, Summed
<1>2. IInv /\ [Next]_vars =>
        [pc = "emit" /\ pc' # "emit" /\ output'.what \in {"light", "ran"} /\ cycle.sum < UintMod
         => output'.value = <<cycle.sum \div cycle.n>>]_vars
  BY <1>1
<1> QED BY <1>2, AlwaysInvariant, PTL DEF Spec, AverageExact
==============================================================================
