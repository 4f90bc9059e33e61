-------------------------------- MODULE Pipe --------------------------------
(***************************************************************************)
(* rdw pipe as a whole: it prepares the pane, then copies its input to a   *)
(* mirror (mirror.Tee), cuts it into lines and blocks (hybridReader) and   *)
(* relays those (Relay).                                                   *)
(*                                                                         *)
(* Raw lines are numbered in the order they come in.  The tee is a thread  *)
(* of its own; its pipe has no buffer, so what it read passes when the     *)
(* scanner asks for more, and the scanner asks when its buffer is empty.   *)
(***************************************************************************)
EXTENDS Relay

CONSTANTS Kinds,        \* kinds of raw line: of "text", "image", "imageEnd", "svg", "svgEnd"
          Filters,      \* number of --filter flags
          MaxRaw,       \* bound: raw lines that come in
          MaxRead       \* bound: raw lines in one read of the input

ASSUME FiltersAssumption == Filters \in Nat
ASSUME MaxRawAssumption == MaxRaw \in Nat /\ MaxRaw <= MaxLines /\ MaxRead \in Nat \ {0}

VARIABLES stage,        \* what runPipe is at
          attached,     \* filters of this call that the server has
          raw,          \* the kinds of the raw lines that came in
          had,          \* the raw lines there were before the tee's last read
          tee,          \* where the tee stands: "in", "pass", "copy" or "close"
          mirror,       \* the raw lines the sink was given
          sinkUp,       \* does the sink accept writes?
          passed,       \* raw lines that are in the reader's buffer, or were
          scanned,      \* raw lines the reader has taken
          block,        \* the kind of line that began the block being read
          logical       \* per logical line, its first and last raw line

prep     == <<stage, attached>>
teeing   == <<raw, had, tee, mirror, sinkUp>>
reading  == <<passed, scanned, block, logical>>
pipevars == <<prep, teeing, reading>>
allvars  == <<vars, pipevars>>

PipeInit == /\ Init
            /\ stage = "window" /\ attached = 0
            /\ raw = <<>> /\ had = 0 /\ tee = "in"
            /\ mirror = <<>> /\ sinkUp = TRUE
            /\ passed = 0 /\ scanned = 0
            /\ block = "none" /\ logical = <<>>

-----------------------------------------------------------------------------
(* runPipe, before the first line. *)

\* Layout, window and title: the request must go through, whatever it is
\* answered.
Prepare(from, to) == /\ stage = from
                     /\ stage' \in {to, "failed"}
                     /\ UNCHANGED <<vars, attached, teeing, reading>>

\* A filter: an answer other than "no content" ends the call.
AttachFilter == /\ stage = "filters" /\ attached < Filters
                /\ \/ attached' = attached + 1 /\ UNCHANGED stage
                   \/ stage' = "failed" /\ UNCHANGED attached
                /\ UNCHANGED <<vars, teeing, reading>>

FiltersDone == /\ stage = "filters" /\ attached = Filters
               /\ stage' = "sink"
               /\ UNCHANGED <<vars, attached, teeing, reading>>

-----------------------------------------------------------------------------
(* Tee. *)

\* A faulty form: more is read before what was read last is copied.
TeeReads_Early(kinds) == /\ stage = "relay" /\ tee \in {"in", "copy"}
                         /\ Len(raw) + Len(kinds) <= MaxRaw
                         /\ had' = Len(raw)
                         /\ raw' = raw \o kinds
                         /\ tee' = "pass"
                         /\ UNCHANGED <<vars, prep, mirror, sinkUp, reading>>

TeeReads(kinds) == /\ stage = "relay" /\ tee = "in"
                   /\ Len(raw) + Len(kinds) <= MaxRaw
                   /\ had' = Len(raw)
                   /\ raw' = raw \o kinds
                   /\ tee' = "pass"
                   /\ UNCHANGED <<vars, prep, mirror, sinkUp, reading>>

InputEnds == /\ stage = "relay" /\ tee = "in"
             /\ tee' = "close"
             /\ UNCHANGED <<vars, prep, raw, had, mirror, sinkUp, reading>>

\* What was read has passed; the sink gets it next.  An error of the sink,
\* after which it takes no more, is ignored.
TeeCopies == /\ tee = "copy"
             /\ \/ /\ sinkUp /\ UNCHANGED sinkUp
                   /\ mirror' = mirror \o [k \in 1 .. Len(raw) - had |-> had + k]
                \/ sinkUp' = FALSE /\ UNCHANGED mirror
             /\ tee' = "in"
             /\ UNCHANGED <<vars, prep, raw, had, reading>>

-----------------------------------------------------------------------------
(* hybridReader.Next, as the relay's way of reading. *)

EndOf(b) == IF b = "image" THEN "imageEnd" ELSE "svgEnd"

Asks == stage = "relay" /\ at = "read"

\* With no line left in its buffer the scanner takes all the tee has for it.
Passes == /\ Asks /\ scanned = passed /\ tee = "pass"
          /\ passed' = Len(raw)
          /\ tee' = "copy"
          /\ UNCHANGED <<vars, prep, raw, had, mirror, sinkUp, scanned, block, logical>>

Scans == /\ Asks /\ scanned < passed
         /\ scanned' = scanned + 1

Next1 == raw[scanned + 1]

\* A block begins or goes on ...
ScanWithin == /\ Scans
              /\ \/ /\ block = "none" /\ Next1 \in {"image", "svg"}
                    /\ block' = Next1
                 \/ /\ block # "none" /\ Next1 # EndOf(block)
                    /\ UNCHANGED block
              /\ UNCHANGED <<vars, prep, teeing, passed, logical>>

From == IF logical = <<>> THEN 1 ELSE Last(logical).last + 1

Complete(last) == /\ block' = "none"
                  /\ logical' = Append(logical, [first |-> From, last |-> last])
                  /\ Read

\* A faulty form: the end of either kind of block ends the block.
ScanLine_AnyEnd == /\ Scans
                   /\ \/ block = "none" /\ Next1 \notin {"image", "svg"}
                      \/ block # "none" /\ Next1 \in {"imageEnd", "svgEnd"}
                   /\ Complete(scanned + 1)
                   /\ UNCHANGED <<prep, teeing, passed>>

\* ... or a line, alone or the end of its block, completes a logical line.
ScanLine == /\ Scans
            /\ \/ block = "none" /\ Next1 \notin {"image", "svg"}
               \/ block # "none" /\ Next1 = EndOf(block)
            /\ Complete(scanned + 1)
            /\ UNCHANGED <<prep, teeing, passed>>

\* The pipe is closed; a block that is not complete is a logical line all the
\* same, and after it the relay stops.
ScanEnd == /\ Asks /\ scanned = passed /\ tee = "close"
           /\ \/ block # "none" /\ Complete(scanned)
              \/ block = "none" /\ Stop /\ UNCHANGED <<block, logical>>
           /\ UNCHANGED <<prep, teeing, passed, scanned>>

Relays == /\ stage = "relay"
          /\ FlushSent \/ FlushEnds \/ LiveSent \/ LiveFailed \/ Network
          /\ UNCHANGED pipevars

\* The call ends with the relay: whatever the tee was at.
PipeNext == \/ Prepare("window", "title") \/ Prepare("title", "filters") \/ Prepare("sink", "relay")
            \/ AttachFilter \/ FiltersDone
            \/ /\ at # "done"
               /\ \/ \E n \in 1 .. MaxRead : \E kinds \in [1 .. n -> Kinds] : TeeReads(kinds)
                  \/ InputEnds \/ TeeCopies
            \/ Passes \/ ScanWithin \/ ScanLine \/ ScanEnd
            \/ Relays

PipeSpec == PipeInit /\ [][PipeNext]_allvars

-----------------------------------------------------------------------------
\* The mirror holds what was read before the relay is given what is read next,
\* and all of it when the relay ends, unless the sink broke: whatever the server
\* was sent the mirror has in the same order, but for the read in hand.
MirrorKeepsUp ==
    /\ mirror = [k \in 1 .. Len(mirror) |-> k]
    /\ sinkUp => Len(mirror) \in {had, Len(raw)}
    /\ sinkUp /\ at = "done" => Len(mirror) = Len(raw)

\* The lines relayed partition the lines read: each raw line is in one of them,
\* in order, and a block is cut at its own end only, or at the end of the input.
WholeBlocks ==
    /\ \A k \in DOMAIN logical :
          /\ logical[k].first = IF k = 1 THEN 1 ELSE logical[k - 1].last + 1
          /\ LET first == raw[logical[k].first]
             IN  IF first \notin {"image", "svg"} THEN logical[k].last = logical[k].first
                 ELSE \A m \in logical[k].first + 1 .. logical[k].last :
                         raw[m] = EndOf(first) => m = logical[k].last
    /\ \A k \in 1 .. Len(logical) - 1 :
          raw[logical[k].first] \in {"image", "svg"}
             => raw[logical[k].last] = EndOf(raw[logical[k].first])
    /\ at = "done" => IF logical = <<>> THEN scanned = 0 ELSE Last(logical).last = scanned
=============================================================================
