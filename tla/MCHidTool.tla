------------------------------ MODULE MCHidTool ------------------------------
(* Two nodes: of every kind for "sample", and a node that may not be opened *)
(* before the sensor for the other commands.  Report 2 has two bytes, so    *)
(* that a report may be set in part; 7 is no report.                        *)
EXTENDS HidTool

CONSTANTS Opt

Line(d, s, c, ws) == [device |-> d, skip |-> s, command |-> c, words |-> ws]
Node(t, l) == [type |-> t, leads |-> l]

CommandLines ==
    { Line(0, 0, c, <<>>) : c \in Commands \ {"sample"} }
      \cup { Line(0, 0, "getfeature", <<Opt, i>>) : i \in {1, 2, 7, Opt} }
      \cup { Line(0, 0, "setfeature", ws) :
               ws \in { <<Opt, 2, 1>>, <<Opt, 2, 1, 5>>, <<Opt, 2, 1, 1, 1>>, <<Opt, 1, 1>>,
                        <<Opt, 7, 1>>, <<Opt>>, <<Opt, 2, 1, 1, 1, 1, 1>> } }
      \cup { Line(0, 0, "monitor", ws) : ws \in { <<Opt, 2>>, <<Opt, 0>>, <<Opt, 2, 9>> } }
      \cup { Line(2, 2, "monitor", <<>>), Line(2, 2, "setfeature", <<Opt, 2, 1>>),
             Line(0, 1, "setfeature", <<Opt, 2, 1>>), Line(0, 1, "getfeature", <<Opt, 2>>),
             Line(1, 2, "sample", <<>>) }

Nodes == [1..2 -> {Node("dir", "none"), Node("unknown", "none")}
                    \cup {Node("dev", l) : l \in Leads}]
Behind == <<Node("dev", "denied"), Node("dev", "sensor")>>

MCScenarios ==
    { [line |-> c, node |-> Behind] : c \in CommandLines }
      \cup { [line |-> Line(0, 0, "sample", <<>>), node |-> nd] : nd \in Nodes }

MCFeatureLength == <<1, 2>>
MCUnset == {-1, 1, 5}
==============================================================================
