----------------------------- MODULE BoundedLog -----------------------------
(***************************************************************************)
(* What a pane's history promises its readers (export, formatters, status  *)
(* and bookmarks): the most recent lines, oldest first, never more than    *)
(* Cap of them.                                                            *)
(***************************************************************************)
EXTENDS Integers, Sequences

CONSTANTS Line,   \* the lines a stream may carry
          Cap     \* how many lines the history keeps

VARIABLE log      \* the lines a reader sees, oldest first

TypeOK == log \in Seq(Line) /\ Len(log) <= Cap

Init == log = <<>>

\* A line enters at the end; a full log gives up its oldest line.
Append1(line) == log' = IF Len(log) < Cap
                          THEN Append(log, line)
                          ELSE Append(Tail(log), line)

Clear == log' = <<>>

Next == (\E line \in Line : Append1(line)) \/ Clear

Spec == Init /\ [][Next]_log
=============================================================================
