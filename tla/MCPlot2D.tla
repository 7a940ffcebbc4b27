------------------------------- MODULE MCPlot2D ------------------------------
(* Two plots and a view, a plain curve and one with a history.              *)
EXTENDS Plot2D, TLC

MCRows == { <<8, 9>> }

\* Nothing tells the two plots apart.
SymmetricPlots == Permutations(Plots)
==============================================================================
