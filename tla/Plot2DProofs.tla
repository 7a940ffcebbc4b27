----------------------------- MODULE Plot2DProofs -----------------------------
(***************************************************************************)
(* However a client calls plot2d.cpp, a curve holds the latest of its      *)
(* points; and as long as it leaves Plot2DCurve::setPlot to the plots, the *)
(* two sides of every pointer agree and a view is told of each point: for  *)
(* any number of plots, views and curves.                                  *)
(***************************************************************************)
EXTENDS Plot2D, TLAPS

\* The shapes of the pointers, lists and connections.
GraphType ==
    /\ curvePlot \in [Curves -> Plots \cup {None}]
    /\ viewPlot \in [Views -> Plots \cup {None}]
    /\ items \in [Plots -> [Curves -> Int]]
    /\ connected \in [Plots -> [Views -> Int]]

\* The inductive invariant behind Consistent.
IInv == GraphType /\ Consistent

\* A plot without a curve (removeAll, plot2d.cpp:34) is the old one with that
\* one entry cleared; the null plot has no items to clear.
LEMMA WithoutEntry ==
    ASSUME items \in [Plots -> [Curves -> Int]]
    PROVE  \A p \in Plots \cup {None}, c \in Curves :
             /\ Without(items, p, c) \in [Plots -> [Curves -> Int]]
             /\ \A q \in Plots, d \in Curves :
                  Without(items, p, c)[q][d] = IF q = p /\ d = c THEN 0 ELSE items[q][d]
<1> TAKE p \in Plots \cup {None}, c \in Curves
<1>1. CASE p = None
  BY <1>1, Plot2DAssumption DEF Without, Plot2DAssumption
<1>2. CASE p # None
  <2>1. Without(items, p, c) = [items EXCEPT ![p][c] = 0] /\ p \in Plots
    BY <1>2 DEF Without
  <2> QED BY <2>1
<1> QED BY <1>1, <1>2

\* No curve has a plot yet, and a view's first plot is not connected to it.
LEMMA InitConsistent == Init => IInv
<1> SUFFICES ASSUME Init PROVE IInv
  OBVIOUS
<1>1. GraphType BY DEF Init, GraphType
<1>2. Ownership BY Plot2DAssumption DEF Init, Ownership, Plot2DAssumption
<1>3. Connections BY Plot2DAssumption DEF Init, Connections, Plot2DAssumption
<1> QED BY <1>1, <1>2, <1>3 DEF IInv, Consistent

\* addCurve (plot2d.cpp:22-29) takes the curve from its old plot first.
LEMMA AddKeeps ==
    ASSUME IInv, NEW p \in Plots, NEW c \in Curves, addCurve(p, c)
    PROVE  IInv'
<1> USE DEF IInv, GraphType
<1> DEFINE W == Without(items, curvePlot[c], c)
<1>1. /\ W \in [Plots -> [Curves -> Int]]
      /\ \A q \in Plots, d \in Curves :
           W[q][d] = IF q = curvePlot[c] /\ d = c THEN 0 ELSE items[q][d]
  <2>1. curvePlot[c] \in Plots \cup {None}
    OBVIOUS
  <2> QED BY <2>1, WithoutEntry
<1>2. /\ items' = [W EXCEPT ![p][c] = @ + 1] /\ curvePlot' = [curvePlot EXCEPT ![c] = p]
      /\ astray' = Settled(W, c)
  BY DEF addCurve
<1>3. c \notin astray' => \A q \in Plots : W[q][c] = 0
  <2>1. CASE c \notin astray
    BY <1>1, <2>1 DEF Consistent, Ownership
  <2>2. CASE c \in astray
    BY <1>2, <2>2 DEF Settled
  <2> QED BY <2>1, <2>2
<1> HIDE DEF W
<1>4. GraphType'
  <2>1. items' \in [Plots -> [Curves -> Int]]
    BY <1>1, <1>2
  <2>2. curvePlot' \in [Curves -> Plots \cup {None}]
    BY <1>2
  <2>3. viewPlot' = viewPlot /\ connected' = connected
    BY DEF addCurve
  <2> QED BY <2>1, <2>2, <2>3
<1>5. Ownership'
  <2> SUFFICES ASSUME NEW q \in Plots, NEW d \in Curves, d \notin astray'
               PROVE  items'[q][d] = IF curvePlot'[d] = q THEN 1 ELSE 0
    BY DEF Ownership
  <2>1. CASE d # c
    <3>1. d \notin astray
      BY <1>2, <2>1 DEF Settled
    <3> QED BY <2>1, <3>1, <1>1, <1>2 DEF Consistent, Ownership
  <2>2. CASE d = c /\ q = p
    BY <2>2, <1>1, <1>2, <1>3
  <2>3. CASE d = c /\ q # p
    <3>1. items'[q][d] = W[q][d] /\ curvePlot'[d] = p
      BY <2>3, <1>1, <1>2
    <3> QED BY <1>3, <3>1, <2>3
  <2> QED BY <2>1, <2>2, <2>3
<1>6. Connections'
  BY DEF addCurve, Consistent, Connections
<1> QED BY <1>4, <1>5, <1>6 DEF Consistent

\* removeCurve (plot2d.cpp:31-38), also of a curve that is not there.
LEMMA RemoveKeeps ==
    ASSUME IInv, NEW p \in Plots, NEW c \in Curves, removeCurve(p, c)
    PROVE  IInv'
<1> USE DEF IInv, GraphType
<1>1. /\ items' \in [Plots -> [Curves -> Int]]
      /\ \A q \in Plots, d \in Curves :
           items'[q][d] = IF q = p /\ d = c THEN 0 ELSE items[q][d]
  BY WithoutEntry DEF removeCurve
<1>2. /\ curvePlot' = IF items[p][c] > 0 THEN [curvePlot EXCEPT ![c] = None] ELSE curvePlot
      /\ astray' = astray
  BY DEF removeCurve
<1>3. GraphType'
  BY <1>1, <1>2 DEF removeCurve
<1>4. Ownership'
  <2> SUFFICES ASSUME NEW q \in Plots, NEW d \in Curves, d \notin astray
               PROVE  items'[q][d] = IF curvePlot'[d] = q THEN 1 ELSE 0
    BY <1>2 DEF Ownership
  <2>0. items[p][d] = IF curvePlot[d] = p THEN 1 ELSE 0
    BY DEF Consistent, Ownership
  <2>1. CASE d # c
    BY <2>1, <1>1, <1>2 DEF Consistent, Ownership
  <2>2. CASE d = c /\ curvePlot[c] = p
    BY <2>0, <2>2, <1>1, <1>2, Plot2DAssumption DEF Consistent, Ownership, Plot2DAssumption
  <2>3. CASE d = c /\ curvePlot[c] # p
    BY <2>0, <2>3, <1>1, <1>2 DEF Consistent, Ownership
  <2> QED BY <2>1, <2>2, <2>3
<1>5. Connections'
  BY DEF removeCurve, Consistent, Connections
<1> QED BY <1>3, <1>4, <1>5 DEF Consistent

\* Plot2DView::setPlot (plot2d.cpp:65-81).
LEMMA SetPlotKeeps ==
    ASSUME IInv, NEW v \in Views, NEW p \in Plots \cup {None}, setPlot(v, p)
    PROVE  IInv'
<1> USE DEF IInv, GraphType
<1>1. /\ connected' \in [Plots -> [Views -> Int]]
      /\ \A q \in Plots, w \in Views :
           connected'[q][w] = IF w # v THEN connected[q][w]
                              ELSE IF q = viewPlot[v] THEN 0
                              ELSE IF q = p THEN connected[q][v] + 1 ELSE connected[q][v]
  BY DEF setPlot
<1>2. GraphType'
  BY <1>1 DEF setPlot
<1>3. Ownership'
  BY DEF setPlot, Consistent, Ownership
<1>4. Connections'
  <2> SUFFICES ASSUME NEW q \in Plots, NEW w \in Views
               PROVE  connected'[q][w] =
                        IF viewPlot'[w] = q /\ w \notin constructed' THEN 1 ELSE 0
    BY DEF Connections
  <2>1. CASE w # v
    BY <2>1, <1>1 DEF setPlot, Consistent, Connections
  <2>2. CASE w = v
    BY <2>2, <1>1 DEF setPlot, Consistent, Connections
  <2> QED BY <2>1, <2>2
<1> QED BY <1>2, <1>3, <1>4 DEF Consistent

\* Plot2DCurve::setPlot (plot2d.cpp:140-143) leads a curve astray, unless it
\* points to that plot already.
LEMMA SetCurvePlotKeeps ==
    ASSUME IInv, NEW p \in Plots \cup {None}, NEW c \in Curves, setCurvePlot(c, p)
    PROVE  IInv'
<1> USE DEF IInv, GraphType
<1>1. GraphType'
  BY DEF setCurvePlot
<1>2. Ownership'
  <2> SUFFICES ASSUME NEW q \in Plots, NEW d \in Curves, d \notin astray'
               PROVE  items'[q][d] = IF curvePlot'[d] = q THEN 1 ELSE 0
    BY DEF Ownership
  <2>1. d \notin astray /\ curvePlot'[d] = curvePlot[d] /\ items' = items
    BY DEF setCurvePlot
  <2> QED BY <2>1 DEF Consistent, Ownership
<1>3. Connections'
  BY DEF setCurvePlot, Consistent, Connections
<1> QED BY <1>1, <1>2, <1>3 DEF Consistent

\* Nothing else moves a curve or a view.
LEMMA OthersKeep == ASSUME IInv, UNCHANGED graph PROVE IInv'
BY DEF IInv, GraphType, Consistent, Ownership, Connections, graph

\* Every call keeps both sides in agreement.
LEMMA NextKeeps == IInv /\ [Next]_vars => IInv'
<1> SUFFICES ASSUME IInv, [Next]_vars PROVE IInv'
  OBVIOUS
<1>1. ASSUME NEW p \in Plots, NEW c \in Curves, addCurve(p, c) PROVE IInv'
  BY <1>1, AddKeeps
<1>2. ASSUME NEW p \in Plots, NEW c \in Curves, removeCurve(p, c) PROVE IInv'
  BY <1>2, RemoveKeeps
<1>3. ASSUME NEW v \in Views, NEW p \in Plots \cup {None}, setPlot(v, p) PROVE IInv'
  BY <1>3, SetPlotKeeps
<1>4. ASSUME NEW c \in Curves, valueChanged(c) PROVE IInv'
  BY <1>4, OthersKeep DEF valueChanged
<1>5. ASSUME NEW c \in Curves, NEW h \in 0..MaxHistory, setHistory(c, h) PROVE IInv'
  BY <1>5, OthersKeep DEF setHistory
<1>6. ASSUME NEW c \in Curves, NEW row \in Rows \cup {<<>>}, setData(c, row) PROVE IInv'
  BY <1>6, OthersKeep DEF setData
<1>7. ASSUME NEW v \in Views, Paint(v) PROVE IInv'
  BY <1>7, OthersKeep DEF Paint
<1>8. ASSUME NEW p \in Plots \cup {None}, NEW c \in Curves, setCurvePlot(c, p) PROVE IInv'
  BY <1>8, SetCurvePlotKeeps
<1>9. ASSUME NEW p \in Plots, emitDataChanged(p) PROVE IInv'
  BY <1>9, OthersKeep DEF emitDataChanged
<1>10. ASSUME NEW v \in Views, update(v) PROVE IInv'
  BY <1>10, OthersKeep DEF update
<1>11. CASE UNCHANGED vars
  BY <1>11, OthersKeep DEF vars
<1> QED BY <1>1, <1>2, <1>3, <1>4, <1>5, <1>6, <1>7, <1>8, <1>9, <1>10, <1>11 DEF Next

\* A curve that no client took from its plot with Plot2DCurve::setPlot is in
\* the plot it points to and in no other, a view is connected to the plot it
\* shows and to no other (plot2d.cpp:22-81, 140-143).
THEOREM AlwaysConsistent == Spec => []Consistent
<1>1. IInv => Consistent
  BY DEF IInv
<1> QED BY InitConsistent, NextKeeps, <1>1, PTL DEF Spec

------------------------------------------------------------------------------
\* The invariant behind HistorySuffix: what a curve holds and was given are
\* rows of points, and its present history lies between the least and the
\* greatest since it was last filled.
Curved(c) ==
    /\ data[c] \in Seq(Int) /\ log[c] \in Seq(Int) /\ history[c] \in Nat
    /\ span[c] \in [least : Nat, greatest : Nat]
    /\ span[c].least <= history[c] /\ history[c] <= span[c].greatest

\* part is the end of the row s.
EndsRow(part, s) ==
    Len(part) <= Len(s) /\ part = SubSeq(s, Len(s) - Len(part) + 1, Len(s))

\* HistorySuffix of one curve.
Suffix(c) ==
    LET n == Len(data[c])
        m == Len(log[c]) IN
    /\ EndsRow(data[c], log[c])
    /\ IF c \in RRCurves
       THEN n <= span[c].greatest /\ (n < m => n >= span[c].least)
       ELSE n = m

\* HistorySuffix, curve by curve, with what makes it inductive.
RowInv ==
    /\ tick \in Nat
    /\ DOMAIN data = Curves /\ DOMAIN log = Curves
    /\ DOMAIN history = Curves /\ DOMAIN span = Curves
    /\ \A c \in Curves : Curved(c) /\ Suffix(c)

\* The end of a row from its a-th point on.
LEMMA EndOfRow ==
    ASSUME NEW s \in Seq(Int), NEW m \in Nat, m = Len(s), NEW a \in 1..m + 1
    PROVE  /\ SubSeq(s, a, m) \in Seq(Int) /\ Len(SubSeq(s, a, m)) = m - a + 1
           /\ \A k \in 1..m - a + 1 : SubSeq(s, a, m)[k] = s[a - 1 + k]
OBVIOUS

\* Where the points of the end of a row are.
LEMMA Places ==
    ASSUME NEW n \in Nat, NEW m \in Nat, n <= m
    PROVE  /\ m - n + 1 \in 1..m + 1 /\ m - (m - n + 1) + 1 = n
           /\ \A k \in Int : (m - n + 1) - 1 + k = m - n + k
           /\ m + 1 - (n + 1) + 1 = m - n + 1 /\ m - n + 1 \in 1..(m + 1) + 1
           /\ (m + 1) - (m - n + 1) + 1 = n + 1
           /\ m + 1 - n + 1 = m - n + 2 /\ m - n + 2 \in 1..(m + 1) + 1
           /\ (m + 1) - (m - n + 2) + 1 = n
           /\ \A k \in Int : (m - n + 2) - 1 + k = m - n + (k + 1)
           /\ \A k \in 1..n : k + 1 \in 1..n + 1 /\ m - n + k \in 1..m
           /\ \A k \in 1..n + 1 : k = n + 1 \/ k \in 1..n
           /\ m - n + (n + 1) = m + 1
<1>1. m - n + 1 \in 1..m + 1 /\ m - (m - n + 1) + 1 = n
  OBVIOUS
<1>2. \A k \in Int : (m - n + 1) - 1 + k = m - n + k /\ (m - n + 2) - 1 + k = m - n + (k + 1)
  OBVIOUS
<1>3. /\ m + 1 - (n + 1) + 1 = m - n + 1 /\ m - n + 1 \in 1..(m + 1) + 1
      /\ (m + 1) - (m - n + 1) + 1 = n + 1 /\ m - n + (n + 1) = m + 1
  OBVIOUS
<1>4. /\ m + 1 - n + 1 = m - n + 2 /\ m - n + 2 \in 1..(m + 1) + 1
      /\ (m + 1) - (m - n + 2) + 1 = n
  OBVIOUS
<1>5. \A k \in 1..n : k + 1 \in 1..n + 1 /\ m - n + k \in 1..m
  OBVIOUS
<1>6. \A k \in 1..n + 1 : k = n + 1 \/ k \in 1..n
  OBVIOUS
<1> QED BY <1>1, <1>2, <1>3, <1>4, <1>5, <1>6

\* The end of a row stays one when both get the next point, also when it then
\* drops its oldest.
LEMMA EndGrows ==
    ASSUME NEW s \in Seq(Int), NEW part \in Seq(Int), NEW x \in Int, EndsRow(part, s)
    PROVE  /\ Append(part, x) \in Seq(Int) /\ Len(Append(part, x)) = Len(part) + 1
           /\ Tail(Append(part, x)) \in Seq(Int) /\ Len(Tail(Append(part, x))) = Len(part)
           /\ EndsRow(Append(part, x), Append(s, x))
           /\ EndsRow(Tail(Append(part, x)), Append(s, x))
<1> DEFINE n == Len(part)
           m == Len(s)
           all == Append(part, x)
           tail == Tail(all)
           t == Append(s, x)
<1>0. n \in Nat /\ m \in Nat /\ n <= m /\ part = SubSeq(s, m - n + 1, m)
  BY DEF EndsRow
<1>1. \A k \in 1..n : part[k] = s[m - n + k]
  <2> DEFINE a == m - n + 1
  <2>1. m \in Nat /\ m = Len(s) /\ a \in 1..m + 1 /\ m - a + 1 = n /\ part = SubSeq(s, a, m)
    BY <1>0, Places
  <2>2. \A k \in 1..n : a - 1 + k = m - n + k
    BY <1>0, Places
  <2> HIDE DEF a, m, n
  <2>3. \A k \in 1..m - a + 1 : SubSeq(s, a, m)[k] = s[a - 1 + k]
    BY <2>1, EndOfRow
  <2>4. \A k \in 1..n : part[k] = s[a - 1 + k]
    BY <2>1, <2>3
  <2> QED BY <2>2, <2>4
<1>2. all \in Seq(Int) /\ Len(all) = n + 1 /\ all[n + 1] = x
      /\ \A k \in 1..n : all[k] = part[k]
  OBVIOUS
<1>3. t \in Seq(Int) /\ Len(t) = m + 1 /\ t[m + 1] = x /\ \A k \in 1..m : t[k] = s[k]
  OBVIOUS
<1> HIDE DEF n, m, all, t
<1>4. ASSUME NEW k \in 1..n + 1 PROVE all[k] = t[m - n + k]
  <2>1. CASE k = n + 1
    <3>1. m - n + k = m + 1
      BY <1>0, <2>1, Places
    <3> QED BY <1>2, <1>3, <2>1, <3>1
  <2>2. CASE k \in 1..n
    <3>1. m - n + k \in 1..m
      BY <1>0, <2>2, Places
    <3> QED BY <1>1, <1>2, <1>3, <2>2, <3>1
  <2> QED BY <1>0, <2>1, <2>2, Places
<1>5. EndsRow(all, t)
  <2> DEFINE a == m - n + 1
             end == SubSeq(t, a, m + 1)
  <2>1. a \in 1..(m + 1) + 1 /\ (m + 1) - a + 1 = n + 1 /\ (m + 1) - (n + 1) + 1 = a
    BY <1>0, Places
  <2>2. \A k \in 1..n + 1 : a - 1 + k = m - n + k
    BY <1>0, Places
  <2> HIDE DEF a
  <2>3. end \in Seq(Int) /\ Len(end) = n + 1 /\ \A k \in 1..n + 1 : end[k] = t[a - 1 + k]
    <3>1. m + 1 \in Nat
      BY <1>0
    <3> QED BY <1>3, <2>1, <3>1, EndOfRow
  <2> HIDE DEF end
  <2>4. \A k \in 1..n + 1 : end[k] = all[k]
    BY <1>4, <2>2, <2>3
  <2>5. end = all
    BY <1>2, <2>3, <2>4
  <2>6. all = SubSeq(t, a, m + 1) /\ n + 1 <= m + 1
    BY <1>0, <2>5 DEF end
  <2> QED BY <1>2, <1>3, <2>1, <2>6 DEF EndsRow
<1>6. tail \in Seq(Int) /\ Len(tail) = n /\ \A k \in 1..n : tail[k] = all[k + 1]
  BY <1>0, <1>2
<1> HIDE DEF tail
<1>7. EndsRow(tail, t)
  <2> DEFINE a == m - n + 2
             end == SubSeq(t, a, m + 1)
  <2>1. a \in 1..(m + 1) + 1 /\ (m + 1) - a + 1 = n /\ (m + 1) - n + 1 = a
    BY <1>0, Places
  <2>2. \A k \in 1..n : a - 1 + k = m - n + (k + 1) /\ k + 1 \in 1..n + 1
    BY <1>0, Places
  <2> HIDE DEF a
  <2>3. end \in Seq(Int) /\ Len(end) = n /\ \A k \in 1..n : end[k] = t[a - 1 + k]
    <3>1. m + 1 \in Nat
      BY <1>0
    <3> QED BY <1>3, <2>1, <3>1, EndOfRow
  <2> HIDE DEF end
  <2>4. \A k \in 1..n : end[k] = tail[k]
    BY <1>4, <1>6, <2>2, <2>3
  <2>5. end = tail
    BY <1>6, <2>3, <2>4
  <2>6. tail = SubSeq(t, a, m + 1) /\ n <= m + 1
    BY <1>0, <2>5 DEF end
  <2> QED BY <1>3, <1>6, <2>1, <2>6 DEF EndsRow
<1> QED BY <1>2, <1>5, <1>6, <1>7 DEF n, all, tail, t

\* A row is the end of itself.
LEMMA WholeRow == \A s \in Seq(Int) : EndsRow(s, s)
BY DEF EndsRow

\* All curves start empty with a history of one.
LEMMA InitRows == Init => RowInv
<1> SUFFICES ASSUME Init PROVE RowInv
  OBVIOUS
<1>1. \A c \in Curves : /\ data[c] = <<>> /\ log[c] = <<>> /\ history[c] = 1
                        /\ span[c] = [least |-> 1, greatest |-> 1]
  BY DEF Init
<1>2. <<>> \in Seq(Int) /\ Len(<<>>) = 0 /\ EndsRow(<<>>, <<>>)
  <2>1. <<>> \in Seq(Int) /\ Len(<<>>) = 0
    OBVIOUS
  <2> QED BY <2>1, WholeRow
<1>3. ASSUME NEW c \in Curves PROVE Curved(c) /\ Suffix(c)
  <2>1. /\ data[c] \in Seq(Int) /\ log[c] \in Seq(Int)
        /\ Len(data[c]) = 0 /\ Len(log[c]) = 0 /\ EndsRow(data[c], log[c])
    BY <1>1, <1>2
  <2>2. /\ history[c] = 1 /\ span[c].least = 1 /\ span[c].greatest = 1
        /\ span[c] \in [least : Nat, greatest : Nat]
    BY <1>1
  <2> QED BY <2>1, <2>2 DEF Curved, Suffix
<1> QED BY <1>3 DEF Init, RowInv

\* What is left alone of a curve stays right.
LEMMA CurveFrame ==
    ASSUME NEW c \in Curves, Curved(c), Suffix(c),
           data'[c] = data[c], log'[c] = log[c], history'[c] = history[c], span'[c] = span[c]
    PROVE  Curved(c)' /\ Suffix(c)'
BY DEF Curved, Suffix

\* A new point (plot2d.cpp:170-177, 202-213), which a full Plot2DCurveRR pays
\* with its oldest.
LEMMA PointKeeps ==
    ASSUME RowInv, NEW c \in Curves, valueChanged(c)
    PROVE  RowInv'
<1> DEFINE n == Len(data[c])
           m == Len(log[c])
           all == Append(data[c], tick)
<1>1. /\ tick \in Nat /\ Curved(c) /\ Suffix(c)
      /\ DOMAIN data = Curves /\ DOMAIN log = Curves
  BY DEF RowInv
<1>2. /\ data' = [data EXCEPT ![c] = Pushed(c, tick)]
      /\ log' = [log EXCEPT ![c] = Append(@, tick)]
      /\ tick' = tick + 1 /\ history' = history /\ span' = span
  BY DEF valueChanged, appendData
<1>3. /\ data[c] \in Seq(Int) /\ log[c] \in Seq(Int) /\ n \in Nat /\ m \in Nat
      /\ EndsRow(data[c], log[c]) /\ tick \in Int
  BY <1>1 DEF Curved, Suffix
<1>4. /\ all \in Seq(Int) /\ Len(all) = n + 1
      /\ Tail(all) \in Seq(Int) /\ Len(Tail(all)) = n
      /\ EndsRow(all, Append(log[c], tick)) /\ EndsRow(Tail(all), Append(log[c], tick))
  BY <1>3, EndGrows
<1>5. data'[c] = Pushed(c, tick) /\ log'[c] = Append(log[c], tick)
  BY <1>1, <1>2
<1>6. log'[c] \in Seq(Int) /\ Len(log'[c]) = m + 1
  BY <1>3, <1>5
<1>7. Curved(c)' /\ Suffix(c)'
  <2>1. history'[c] = history[c] /\ span'[c] = span[c]
    BY <1>2
  <2>2. /\ history[c] \in Nat /\ span[c].least \in Nat /\ span[c].greatest \in Nat
        /\ span[c].least <= history[c] /\ history[c] <= span[c].greatest
    BY <1>1 DEF Curved
  <2>3. CASE c \in RRCurves /\ Len(all) > history[c]
    <3>1. data'[c] = Tail(all)
      BY <1>5, <2>3 DEF Pushed
    <3>2. n <= span[c].greatest /\ n >= span[c].least
      BY <1>1, <1>3, <1>4, <2>2, <2>3 DEF Suffix
    <3>3. Curved(c)'
      BY <1>1, <1>4, <1>6, <2>1, <3>1 DEF Curved
    <3>4. Len(data'[c]) = n /\ EndsRow(data'[c], log'[c])
      BY <1>4, <1>5, <3>1
    <3> QED BY <2>1, <2>3, <3>2, <3>3, <3>4 DEF Suffix
  <2>4. CASE ~(c \in RRCurves /\ Len(all) > history[c])
    <3>1. data'[c] = all
      BY <1>5, <2>4 DEF Pushed
    <3>2. c \in RRCurves => n + 1 <= span[c].greatest
      BY <1>3, <1>4, <2>2, <2>4
    <3>3. Curved(c)'
      BY <1>1, <1>4, <1>6, <2>1, <3>1 DEF Curved
    <3>4. Len(data'[c]) = n + 1 /\ EndsRow(data'[c], log'[c])
      BY <1>4, <1>5, <3>1
    <3>5. IF c \in RRCurves THEN n + 1 < m + 1 => n + 1 >= span[c].least ELSE n = m
      BY <1>1, <1>3, <2>2 DEF Suffix
    <3> QED BY <1>6, <2>1, <3>2, <3>3, <3>4, <3>5 DEF Suffix
  <2> QED BY <2>3, <2>4
<1>8. ASSUME NEW d \in Curves, d # c PROVE Curved(d)' /\ Suffix(d)'
  BY <1>2, <1>8, CurveFrame DEF RowInv
<1> QED BY <1>2, <1>7, <1>8 DEF RowInv

\* setHistory widens the span, or starts it anew on an empty curve.
LEMMA HistoryKeeps ==
    ASSUME RowInv, NEW c \in Curves, NEW h \in Nat, setHistory(c, h)
    PROVE  RowInv'
<1>1. /\ Curved(c) /\ Suffix(c) /\ DOMAIN history = Curves /\ DOMAIN span = Curves
  BY DEF RowInv
<1>2. /\ history' = [history EXCEPT ![c] = h]
      /\ span' = [span EXCEPT ![c] =
           IF log[c] = <<>> THEN [least |-> h, greatest |-> h]
           ELSE [least |-> Least(@.least, h), greatest |-> Greatest(@.greatest, h)]]
      /\ UNCHANGED <<data, tick, log>>
  BY DEF setHistory
<1>3. /\ span[c].least \in Nat /\ span[c].greatest \in Nat
      /\ span[c].least <= history[c] /\ history[c] <= span[c].greatest /\ history[c] \in Nat
  BY <1>1 DEF Curved
<1>4. history'[c] = h /\ data'[c] = data[c] /\ log'[c] = log[c]
  BY <1>1, <1>2
<1>5. CASE log[c] = <<>>
  <2>1. span'[c] = [least |-> h, greatest |-> h]
    BY <1>1, <1>2, <1>5
  <2>2. Len(log[c]) = 0 /\ Len(data[c]) = 0 /\ EndsRow(data[c], log[c])
    <3>1. Len(data[c]) \in Nat /\ EndsRow(data[c], log[c])
      BY <1>1 DEF Curved, Suffix
    <3>2. Len(log[c]) = 0
      BY <1>5
    <3> QED BY <3>1, <3>2 DEF EndsRow
  <2>3. Curved(c)'
    BY <1>1, <1>4, <2>1 DEF Curved
  <2> QED
    <3>1. ASSUME NEW d \in Curves, d # c PROVE Curved(d)' /\ Suffix(d)'
      BY <1>2, <3>1, CurveFrame DEF RowInv
    <3>2. Suffix(c)'
      BY <1>1, <1>4, <2>1, <2>2 DEF Suffix
    <3> QED BY <1>2, <2>3, <3>1, <3>2 DEF RowInv
<1>6. CASE log[c] # <<>>
  <2>1. span'[c] = [least |-> Least(span[c].least, h), greatest |-> Greatest(span[c].greatest, h)]
    BY <1>1, <1>2, <1>6
  <2>2. /\ span'[c].least \in Nat /\ span'[c].least <= h /\ span'[c].least <= span[c].least
        /\ span'[c].greatest \in Nat /\ h <= span'[c].greatest
        /\ span[c].greatest <= span'[c].greatest
    BY <1>3, <2>1 DEF Least, Greatest
  <2>3. Curved(c)'
    BY <1>1, <1>4, <2>1, <2>2 DEF Curved
  <2>4. Suffix(c)'
    <3> DEFINE n == Len(data[c])
               m == Len(log[c])
    <3>1. n \in Nat /\ EndsRow(data[c], log[c])
      BY <1>1 DEF Curved, Suffix
    <3>2. IF c \in RRCurves THEN n <= span[c].greatest /\ (n < m => n >= span[c].least)
          ELSE n = m
      BY <1>1 DEF Suffix
    <3> HIDE DEF n, m
    <3>3. IF c \in RRCurves THEN n <= span'[c].greatest /\ (n < m => n >= span'[c].least)
          ELSE n = m
      BY <1>3, <2>2, <3>1, <3>2
    <3> QED BY <1>4, <3>1, <3>3 DEF Suffix, n, m
  <2>5. ASSUME NEW d \in Curves, d # c PROVE Curved(d)' /\ Suffix(d)'
    BY <1>2, <2>5, CurveFrame DEF RowInv
  <2> QED BY <1>2, <2>3, <2>4, <2>5 DEF RowInv
<1> QED BY <1>5, <1>6

\* setData starts the account of a curve anew.
LEMMA DataKeeps ==
    ASSUME RowInv, NEW c \in Curves, NEW row \in Seq(Int), setData(c, row)
    PROVE  RowInv'
<1>1. /\ Curved(c) /\ DOMAIN data = Curves /\ DOMAIN log = Curves /\ DOMAIN span = Curves
  BY DEF RowInv
<1>2. /\ data' = [data EXCEPT ![c] = row] /\ log' = [log EXCEPT ![c] = row]
      /\ span' = [span EXCEPT ![c] = [least |-> history[c],
                                     greatest |-> Greatest(history[c], Len(row))]]
      /\ UNCHANGED <<history, tick>>
  BY DEF setData
<1>3. /\ data'[c] = row /\ log'[c] = row /\ history'[c] = history[c]
      /\ span'[c] = [least |-> history[c], greatest |-> Greatest(history[c], Len(row))]
  BY <1>1, <1>2
<1>4. history[c] \in Nat /\ Len(row) \in Nat
  BY <1>1 DEF Curved
<1>5. /\ Greatest(history[c], Len(row)) \in Nat
      /\ history[c] <= Greatest(history[c], Len(row)) /\ Len(row) <= Greatest(history[c], Len(row))
  BY <1>4 DEF Greatest
<1>6. Curved(c)'
  BY <1>3, <1>4, <1>5 DEF Curved
<1>7. Suffix(c)'
  <2>1. EndsRow(row, row)
    BY WholeRow
  <2> QED BY <1>3, <1>4, <1>5, <2>1 DEF Suffix
<1>8. ASSUME NEW d \in Curves, d # c PROVE Curved(d)' /\ Suffix(d)'
  BY <1>2, <1>8, CurveFrame DEF RowInv
<1> QED BY <1>2, <1>6, <1>7, <1>8 DEF RowInv

\* Nothing else touches a curve's points.
LEMMA RowsFrame == ASSUME RowInv, UNCHANGED rows PROVE RowInv'
BY DEF RowInv, Curved, Suffix, rows

\* Every call keeps every curve's account.
LEMMA RowsKept == RowInv /\ [Next]_vars => RowInv'
<1> SUFFICES ASSUME RowInv, [Next]_vars PROVE RowInv'
  OBVIOUS
<1>1. ASSUME NEW p \in Plots, NEW c \in Curves, addCurve(p, c) PROVE RowInv'
  BY <1>1, RowsFrame DEF addCurve
<1>2. ASSUME NEW p \in Plots, NEW c \in Curves, removeCurve(p, c) PROVE RowInv'
  BY <1>2, RowsFrame DEF removeCurve
<1>3. ASSUME NEW v \in Views, NEW p \in Plots \cup {None}, setPlot(v, p) PROVE RowInv'
  BY <1>3, RowsFrame DEF setPlot
<1>4. ASSUME NEW c \in Curves, valueChanged(c) PROVE RowInv'
  BY <1>4, PointKeeps
<1>5. ASSUME NEW c \in Curves, NEW h \in 0..MaxHistory, setHistory(c, h) PROVE RowInv'
  BY <1>5, HistoryKeeps, Plot2DAssumption DEF Plot2DAssumption
<1>6. ASSUME NEW c \in Curves, NEW row \in Rows \cup {<<>>}, setData(c, row) PROVE RowInv'
  <2>1. row \in Seq(Int)
    <3>1. Rows \subseteq Seq(Int)
      BY Plot2DAssumption DEF Plot2DAssumption
    <3>2. CASE row = <<>>
      BY <3>2
    <3> QED BY <3>1, <3>2
  <2> QED BY <1>6, <2>1, DataKeeps
<1>7. ASSUME NEW v \in Views, Paint(v) PROVE RowInv'
  BY <1>7, RowsFrame DEF Paint
<1>8. ASSUME NEW p \in Plots \cup {None}, NEW c \in Curves, setCurvePlot(c, p) PROVE RowInv'
  BY <1>8, RowsFrame DEF setCurvePlot
<1>9. ASSUME NEW p \in Plots, emitDataChanged(p) PROVE RowInv'
  BY <1>9, RowsFrame DEF emitDataChanged
<1>10. ASSUME NEW v \in Views, update(v) PROVE RowInv'
  BY <1>10, RowsFrame DEF update
<1>11. CASE UNCHANGED vars
  BY <1>11, RowsFrame DEF vars
<1> QED BY <1>1, <1>2, <1>3, <1>4, <1>5, <1>6, <1>7, <1>8, <1>9, <1>10, <1>11 DEF Next

\* A curve holds the latest points it was given, without a gap, and no more and
\* no fewer than its histories allow (plot2d.cpp:145-213).
THEOREM LatestKept == Spec => []HistorySuffix
<1>1. RowInv => HistorySuffix
  BY DEF RowInv, Suffix, EndsRow, HistorySuffix
<1> QED BY InitRows, RowsKept, <1>1, PTL DEF Spec

------------------------------------------------------------------------------
\* A view whose plot lists a curve is connected to the plot that the curve
\* points to (plot2d.cpp:22-38, 65-81), so that it is told of a point.
LEMMA ShowersTold ==
    ASSUME IInv, NEW c \in Curves, c \notin astray
    PROVE  Showing(c) \subseteq Told(curvePlot[c])
<1> SUFFICES ASSUME NEW v \in Showing(c) PROVE v \in Told(curvePlot[c])
  OBVIOUS
<1>1. v \in Views /\ v \notin constructed /\ viewPlot[v] \in Plots /\ items[viewPlot[v]][c] > 0
  BY DEF Showing, IInv, GraphType
<1>2. curvePlot[c] = viewPlot[v]
  BY <1>1 DEF IInv, Consistent, Ownership
<1>3. connected[curvePlot[c]][v] = 1
  BY <1>1, <1>2 DEF IInv, Consistent, Connections
<1> QED BY <1>1, <1>2, <1>3, Plot2DAssumption DEF Told, Plot2DAssumption

\* A view is only told of a point while it is connected, and what it was told
\* stays posted until it paints or has another plot.
LEMMA TellingKept == IInv /\ ViewTold /\ [Next]_vars => ViewTold'
<1> SUFFICES ASSUME IInv, ViewTold, [Next]_vars PROVE ViewTold'
  OBVIOUS
<1>1. ASSUME NEW p \in Plots, NEW c \in Curves, addCurve(p, c) PROVE ViewTold'
  BY <1>1 DEF addCurve, ViewTold
<1>2. ASSUME NEW p \in Plots, NEW c \in Curves, removeCurve(p, c) PROVE ViewTold'
  BY <1>2 DEF removeCurve, ViewTold
<1>3. ASSUME NEW v \in Views, NEW p \in Plots \cup {None}, setPlot(v, p) PROVE ViewTold'
  BY <1>3 DEF setPlot, ViewTold
<1>4. ASSUME NEW c \in Curves, valueChanged(c) PROVE ViewTold'
  <2>1. /\ unseen' = IF c \in astray THEN unseen ELSE unseen \cup Showing(c)
        /\ repaint' = repaint \cup Told(curvePlot[c])
    BY <1>4 DEF valueChanged, appendData
  <2> QED BY <2>1, ShowersTold DEF ViewTold
<1>5. ASSUME NEW c \in Curves, NEW h \in 0..MaxHistory, setHistory(c, h) PROVE ViewTold'
  BY <1>5 DEF setHistory, ViewTold
<1>6. ASSUME NEW c \in Curves, NEW row \in Rows \cup {<<>>}, setData(c, row) PROVE ViewTold'
  BY <1>6 DEF setData, ViewTold
<1>7. ASSUME NEW v \in Views, Paint(v) PROVE ViewTold'
  BY <1>7 DEF Paint, ViewTold
<1>8. ASSUME NEW p \in Plots \cup {None}, NEW c \in Curves, setCurvePlot(c, p) PROVE ViewTold'
  BY <1>8 DEF setCurvePlot, ViewTold
<1>9. ASSUME NEW p \in Plots, emitDataChanged(p) PROVE ViewTold'
  BY <1>9 DEF emitDataChanged, ViewTold
<1>10. ASSUME NEW v \in Views, update(v) PROVE ViewTold'
  BY <1>10 DEF update, ViewTold
<1>11. CASE UNCHANGED vars
  BY <1>11 DEF vars, ViewTold
<1> QED BY <1>1, <1>2, <1>3, <1>4, <1>5, <1>6, <1>7, <1>8, <1>9, <1>10, <1>11 DEF Next

\* A view whose plot lists a curve that got a point has a paint event to come,
\* whatever moves of curves and views came before, unless the curve is astray
\* (plot2d.cpp:92-104, 170-177, 202-213).
THEOREM PointsSeen == Spec => []ViewTold
<1>1. Init => ViewTold
  BY DEF Init, ViewTold
<1> QED BY InitConsistent, NextKeeps, TellingKept, <1>1, PTL DEF Spec
==============================================================================
