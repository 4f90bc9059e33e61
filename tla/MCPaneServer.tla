---------------------------- MODULE MCPaneServer ----------------------------
(* What the embedding program sets the server up with, as api_test.go does:  *)
(* windows created through Manager(), panes added to them and pipelines      *)
(* registered for them.  The bounds are in the configurations.               *)
EXTENDS PaneServer

CONSTANTS a, b, w1, w2, h1

Pane(r, id) == [ref |-> r, id |-> id, split |-> h1]

OneWindow == << [ref |-> 0, name |-> w1, panes |-> <<Pane(0, a)>>] >>
TwoWindows == Append(OneWindow, [ref |-> 1, name |-> w2, panes |-> <<Pane(1, b)>>])
GroupsByID == [id \in TargetIDs |-> IF id \in {a, b} THEN "ci" ELSE "other"]
=============================================================================
