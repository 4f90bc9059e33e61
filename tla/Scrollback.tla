----------------------------- MODULE Scrollback -----------------------------
(***************************************************************************)
(* session.ScrollbackBuffer: the circular buffer that holds the last lines *)
(* of one pane.  Every method takes the buffer's mutex, so each is one     *)
(* step.  Lines() is the operator Lines: what a reader is handed.          *)
(***************************************************************************)
EXTENDS Integers, Sequences

CONSTANTS Line,         \* the lines a stream may carry
          Blank,        \* the zero value "" that fills a slot never written
          AskedCap,     \* the capacity the caller asks for
          DefaultScrollbackCap, MaxScrollbackCap

ASSUME CapAssumption == /\ AskedCap \in Int
                        /\ DefaultScrollbackCap \in Nat \ {0}
                        /\ MaxScrollbackCap \in Nat \ {0}
ASSUME BlankAssumption == Blank \notin Line

\* NewScrollbackBuffer: none or nonsense asked for means the default, too much
\* means the maximum.
Cap == LET asked == IF AskedCap <= 0 THEN DefaultScrollbackCap ELSE AskedCap
       IN  IF asked > MaxScrollbackCap THEN MaxScrollbackCap ELSE asked

VARIABLES buf,      \* the slots, 0 .. Cap-1
          head,     \* slot of the oldest line
          size      \* number of lines stored

vars == <<buf, head, size>>

BufferTypeOK == /\ buf \in [0 .. Cap - 1 -> Line \cup {Blank}]
          /\ head \in 0 .. Cap - 1
          /\ size \in 0 .. Cap

Init == /\ buf = [k \in 0 .. Cap - 1 |-> Blank]
        /\ head = 0
        /\ size = 0

\* The slot of the i-th oldest line (i counts from 0).
Slot(i) == (head + i) % Cap

\* A faulty form: the oldest line is overwritten and stays the first one read.
AppendLine_HeadStays(line) ==
    /\ buf' = [buf EXCEPT ![Slot(size)] = line]
    /\ IF size < Cap THEN size' = size + 1 ELSE UNCHANGED size
    /\ UNCHANGED head

AppendLine(line) ==
    \/ /\ size < Cap
       /\ buf' = [buf EXCEPT ![Slot(size)] = line]
       /\ size' = size + 1
       /\ UNCHANGED head
    \/ /\ size = Cap
       /\ buf' = [buf EXCEPT ![head] = line]
       /\ head' = (head + 1) % Cap
       /\ UNCHANGED size

\* Clear forgets the lines and leaves the slots as they are.
Clear == /\ head' = 0
         /\ size' = 0
         /\ UNCHANGED buf

Next == (\E line \in Line : AppendLine(line)) \/ Clear

Spec == Init /\ [][Next]_vars

-----------------------------------------------------------------------------
Lines == [i \in 1 .. size |-> buf[Slot(i - 1)]]

\* The ring buffer implements the bounded log: what Lines() returns is the
\* last Cap lines appended since the last Clear, in order, however often the
\* write position has wrapped round the slots.
History == INSTANCE BoundedLog WITH log <- Lines
Refinement == History!Spec

\* A reader is never handed a slot that no Append has filled since the buffer
\* was last empty: Clear keeps the old lines in the slots, so an error in the
\* head and size arithmetic would show stale lines or blanks.
NoBlankRead == \A i \in 1 .. size : Lines[i] \in Line
=============================================================================
