------------------------------- MODULE Plot2D --------------------------------
(***************************************************************************)
(* The charts of ucandela-setup: the plots, views and curves of plot2d.cpp *)
(* and the values that the main window and the emulated sensor feed them.  *)
(*                                                                         *)
(* A client makes any sequence of public calls; signals are direct calls,  *)
(* painting is left to the event loop.  A point is its tick.  Colours,     *)
(* names, layout and the drawing itself, which is not written yet, are     *)
(* left out.                                                               *)
(***************************************************************************)
EXTENDS Integers, Sequences

CONSTANTS
    Plots, Views, Curves,
    RRCurves,               \* the curves that are a Plot2DCurveRR
    None,                   \* the null pointer
    Rows,                   \* what a client may pass to setData
    MaxHistory, MaxTicks,   \* bounds on setHistory and on the values
    MaxListed               \* bound on how often a plot lists one curve

ASSUME Plot2DAssumption ==
    /\ None \notin Plots /\ RRCurves \subseteq Curves
    /\ Rows \subseteq Seq(Int) /\ MaxHistory \in Nat

VARIABLES
    \* plot_ of a curve and of a view, items_ of a plot (how often each curve
    \* is in it), and how often changed() of a plot is connected to a view.
    curvePlot, viewPlot, items, connected,
    data, history,          \* data_ and history_ of a curve
    tick,                   \* the tick of MainWindow::valueChanged
    repaint,                \* the views with a paint event posted
    \* History: the views that still have the plot their constructor gave
    \* them, the curves that a client took from their plot with
    \* Plot2DCurve::setPlot, the points a curve was given since it was last
    \* emptied or filled, the least and greatest history since then, and the
    \* views that show a curve with a point they have not painted.
    constructed, astray, log, span, unseen

graph == <<curvePlot, viewPlot, items, connected, constructed, astray>>
rows  == <<data, history, tick, log, span>>
vars  == <<graph, rows, repaint, unseen>>

\* Plot2DView(plot, parent) takes the plot without connecting to it.
Init ==
    /\ curvePlot = [c \in Curves |-> None]
    /\ viewPlot \in [Views -> Plots \cup {None}]
    /\ items = [p \in Plots |-> [c \in Curves |-> 0]]
    /\ connected = [p \in Plots |-> [v \in Views |-> 0]]
    /\ constructed = { v \in Views : viewPlot[v] # None } /\ astray = {}
    /\ data = [c \in Curves |-> <<>>] /\ history = [c \in Curves |-> 1]
    /\ log = data /\ span = [c \in Curves |-> [least |-> 1, greatest |-> 1]]
    /\ tick = 0 /\ repaint = {} /\ unseen = {}

------------------------------------------------------------------------------
\* removeAll(pc); only a curve that was there loses its plot.
Without(its, p, c) == IF p = None THEN its ELSE [its EXCEPT ![p][c] = 0]

removeCurve(p, c) ==
    /\ items' = Without(items, p, c)
    /\ curvePlot' = IF items[p][c] > 0 THEN [curvePlot EXCEPT ![c] = None] ELSE curvePlot
    /\ UNCHANGED <<viewPlot, connected, constructed, astray, rows, repaint, unseen>>

\* A curve that addCurve finds in no plot but the one it points to is back in
\* order, whatever was done to it before.
Settled(its, c) == IF \A q \in Plots : its[q][c] = 0 THEN astray \ {c} ELSE astray

\* A mistake: a curve is not taken from the plot it was in.
addCurve_shares(p, c) ==
    /\ items' = [items EXCEPT ![p][c] = @ + 1]
    /\ curvePlot' = [curvePlot EXCEPT ![c] = p]
    /\ UNCHANGED <<viewPlot, connected, constructed, astray, rows, repaint, unseen>>

addCurve(p, c) ==
    LET left == Without(items, curvePlot[c], c) IN
    /\ items' = [left EXCEPT ![p][c] = @ + 1]
    /\ curvePlot' = [curvePlot EXCEPT ![c] = p]
    /\ astray' = Settled(left, c)
    /\ UNCHANGED <<viewPlot, connected, constructed, rows, repaint, unseen>>

\* Plot2DCurve::setPlot, when a client calls it itself: no list follows.
setCurvePlot(c, p) ==
    /\ curvePlot' = [curvePlot EXCEPT ![c] = p]
    /\ astray' = IF p = curvePlot[c] THEN astray ELSE astray \cup {c}
    /\ UNCHANGED <<viewPlot, items, connected, constructed, rows, repaint, unseen>>

\* Plot2DView::setPlot, with another plot than the view has; disconnect takes
\* back every connection of the two.
setPlot(v, p) ==
    /\ viewPlot[v] # p
    /\ viewPlot' = [viewPlot EXCEPT ![v] = p]
    /\ connected' = [q \in Plots |->
         [connected[q] EXCEPT ![v] = IF q = viewPlot[v] THEN 0 ELSE IF q = p THEN @ + 1 ELSE @]]
    /\ constructed' = constructed \ {v}
    /\ unseen' = unseen \ {v}
    /\ UNCHANGED <<curvePlot, items, astray, rows, repaint>>

------------------------------------------------------------------------------
\* The views whose plot lists a curve, and those that a plot tells of a change.
Showing(c) ==
    { v \in Views \ constructed : viewPlot[v] # None /\ items[viewPlot[v]][c] > 0 }
Told(p) == { v \in Views : p # None /\ connected[p][v] > 0 }

\* A mistake: the history is cut one point short.
Pushed_off_by_one(c, pt) ==
    LET all == Append(data[c], pt) IN
    IF c \in RRCurves /\ Len(all) >= history[c] THEN Tail(all) ELSE all

\* appendData of a plain curve and of a Plot2DCurveRR, which then drops its
\* oldest point; one point, however much its history has been cut.
Pushed(c, pt) ==
    LET all == Append(data[c], pt) IN
    IF c \in RRCurves /\ Len(all) > history[c] THEN Tail(all) ELSE all

\* A mistake: a full curve does not tell its plot of a new point.
appendData_quiet(c) ==
    /\ data' = [data EXCEPT ![c] = Pushed(c, tick)]
    /\ log' = [log EXCEPT ![c] = Append(@, tick)]
    /\ unseen' = IF c \in astray THEN unseen ELSE unseen \cup Showing(c)
    /\ repaint' = IF Len(data'[c]) > Len(data[c]) THEN repaint \cup Told(curvePlot[c]) ELSE repaint

appendData(c) ==
    /\ data' = [data EXCEPT ![c] = Pushed(c, tick)]
    /\ log' = [log EXCEPT ![c] = Append(@, tick)]
    /\ unseen' = IF c \in astray THEN unseen ELSE unseen \cup Showing(c)
    /\ repaint' = repaint \cup Told(curvePlot[c])

\* MainWindow::valueChanged, when the slider is moved or the timer of the
\* emulator fires: the chart gets a point with the next tick.
valueChanged(c) ==
    /\ tick < MaxTicks
    /\ tick' = tick + 1
    /\ appendData(c)
    /\ UNCHANGED <<graph, history, span>>

Least(a, b) == IF a < b THEN a ELSE b
Greatest(a, b) == IF a < b THEN b ELSE a

\* The points that are there are not trimmed.
setHistory(c, h) ==
    /\ c \in RRCurves
    /\ history' = [history EXCEPT ![c] = h]
    /\ span' = [span EXCEPT ![c] =
         IF log[c] = <<>> THEN [least |-> h, greatest |-> h]
         ELSE [least |-> Least(@.least, h), greatest |-> Greatest(@.greatest, h)]]
    /\ UNCHANGED <<graph, data, tick, log, repaint, unseen>>

\* setData, resetData with the empty row, and a client that writes through
\* the reference data() returns; none tells the plot.
setData(c, row) ==
    /\ data' = [data EXCEPT ![c] = row]
    /\ log' = [log EXCEPT ![c] = row]
    /\ span' = [span EXCEPT ![c] = [least |-> history[c],
                                   greatest |-> Greatest(history[c], Len(row))]]
    /\ UNCHANGED <<graph, history, tick, repaint, unseen>>

\* The public calls that ask for a paint event, and the event loop's own.
emitDataChanged(p) == repaint' = repaint \cup Told(p) /\ UNCHANGED <<graph, rows, unseen>>
update(v) == repaint' = repaint \cup {v} /\ UNCHANGED <<graph, rows, unseen>>

\* The event loop: paintEvent.
Paint(v) ==
    /\ v \in repaint
    /\ repaint' = repaint \ {v} /\ unseen' = unseen \ {v}
    /\ UNCHANGED <<graph, rows>>

Next ==
    \/ \E p \in Plots, c \in Curves : addCurve(p, c) /\ items'[p][c] <= MaxListed
    \/ \E p \in Plots, c \in Curves : removeCurve(p, c)
    \/ \E p \in Plots \cup {None}, c \in Curves : setCurvePlot(c, p)
    \/ \E v \in Views, p \in Plots \cup {None} : setPlot(v, p)
    \/ \E c \in Curves : valueChanged(c)
    \/ \E c \in Curves, h \in 0..MaxHistory : setHistory(c, h)
    \/ \E c \in Curves, row \in Rows \cup {<<>>} : setData(c, row)
    \/ \E p \in Plots : emitDataChanged(p)
    \/ \E v \in Views : update(v) \/ Paint(v)

Spec == Init /\ [][Next]_vars

------------------------------------------------------------------------------
\* A curve is in the plot it points to, once, and in no other: addCurve moves
\* it (plot2d.cpp:22-38), so that no plot draws or reports a curve that is not
\* its own.  Nothing of this holds of a curve that a client took from its plot
\* with Plot2DCurve::setPlot (lines 140-143), until addCurve next finds it in
\* no plot but the one it points to.
Ownership ==
    \A p \in Plots, c \in Curves \ astray : items[p][c] = IF curvePlot[c] = p THEN 1 ELSE 0

\* A view is connected to the plot it shows, once, and to no other, through
\* any sequence of setPlot (plot2d.cpp:65-81); a view that still has the plot
\* of its constructor is connected to none (lines 55-59).
Connections ==
    \A p \in Plots, v \in Views :
        connected[p][v] = IF viewPlot[v] = p /\ v \notin constructed THEN 1 ELSE 0

\* The pointers that curves and views hold and the lists and connections on
\* the other side agree.
Consistent == Ownership /\ Connections

\* A curve holds the latest points it was given, in order and without a gap
\* (plot2d.cpp:145-213): all of them if it is a plain curve, otherwise at most
\* as many as the longest history and, once it has dropped one, at least as
\* many as the shortest history it was set to since it was last filled.
HistorySuffix ==
    \A c \in Curves :
        LET n == Len(data[c])
            m == Len(log[c]) IN
        /\ n <= m /\ data[c] = SubSeq(log[c], m - n + 1, m)
        /\ IF c \in RRCurves
           THEN n <= span[c].greatest /\ (n < m => n >= span[c].least)
           ELSE n = m

\* No point stays unseen: when a curve in the list of its plot gets a point, a
\* view has a paint event to come (plot2d.cpp:92-104, 170-177, 202-213),
\* whatever moves of curves and views came before.  The plot that is told is the
\* one the curve points to, so a curve that is astray is left out.
ViewTold == unseen \subseteq repaint

\* plot2d.cpp:33: "Q_ASSERT(pc->plot() != this)" on entry to removeCurve.
AssertForeign ==
    [][\A p \in Plots, c \in Curves : removeCurve(p, c) => curvePlot[c] # p]_vars
==============================================================================
