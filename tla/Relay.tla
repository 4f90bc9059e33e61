------------------------------- MODULE Relay -------------------------------
(***************************************************************************)
(* The relay loop of rdw pipe: lines are read from stdin and sent to the   *)
(* server one at a time; a line that could not be sent is queued and tried *)
(* again before the next line is sent.                                     *)
(*                                                                         *)
(* Lines are numbered in the order they are read.  A send fails when the   *)
(* server cannot be reached, when no answer comes although the server took *)
(* the line, and when the answer is an error: of a block of lines some may *)
(* have been shown before one of them was refused.                         *)
(***************************************************************************)
EXTENDS Integers, SequencesExt

CONSTANTS QueueLen,     \* Options.ReconnectQueueLen, the default filled in
          MaxLines      \* bound: lines considered

ASSUME QueueLenAssumption == QueueLen \in Nat \ {0}
ASSUME MaxLinesAssumption == MaxLines \in Nat

VARIABLES at,           \* where the loop stands
          line,         \* the last line read
          queue,        \* relay's queue
          flushed,      \* how many of it this turn of the loop has sent
          up,           \* can the server be reached?
          arrived,      \* the lines the server took, if only in part, in order
          confirmed,    \* the places among them at which its answer was no error
          dropped       \* the lines given up

net  == <<up, arrived, confirmed>>
vars == <<at, line, queue, flushed, net, dropped>>

Init == /\ at = "read"
        /\ line = 0
        /\ queue = <<>>
        /\ flushed = 0
        /\ up = TRUE
        /\ arrived = <<>>
        /\ confirmed = {}
        /\ dropped = {}

-----------------------------------------------------------------------------
(* sendViaUnix, sendViaHTTP. *)

Sent(l) == /\ up
           /\ arrived' = Append(arrived, l)
           /\ confirmed' = confirmed \cup {Len(arrived) + 1}
           /\ UNCHANGED up

\* Not reached, or refused as a whole; or taken, if only in part, and then the
\* answer is an error or does not come: with the connection or without it.
Failed(l) == \/ UNCHANGED net
             \/ /\ up
                /\ up' \in BOOLEAN
                /\ arrived' = Append(arrived, l)
                /\ UNCHANGED confirmed

\* The network between the two, and the server, come and go.
Connect == ~up /\ up' = TRUE
Disconnect == up /\ up' = FALSE
Network == /\ Connect \/ Disconnect
           /\ UNCHANGED <<at, line, queue, flushed, arrived, confirmed, dropped>>

-----------------------------------------------------------------------------
Read == /\ at = "read"
        /\ line < MaxLines
        /\ line' = line + 1
        /\ at' = "flush"
        /\ flushed' = 0
        /\ UNCHANGED <<queue, net, dropped>>

\* Standard input ends, or the context is cancelled: the queue is left behind.
\* (The line during whose reading the context was cancelled counts as unread.)
Stop == /\ at = "read"
        /\ at' = "done"
        /\ UNCHANGED <<line, queue, flushed, net, dropped>>

\* The next queued line goes out ...
FlushSent == /\ at = "flush"
             /\ flushed < Len(queue)
             /\ Sent(queue[flushed + 1])
             /\ flushed' = flushed + 1
             /\ UNCHANGED <<at, line, queue, dropped>>

\* Faulty ends of the flush: one line too many is taken off the queue; none is.
FlushEnds_SkipsOne ==
    /\ at = "flush"
    /\ \/ flushed = Len(queue) /\ UNCHANGED net
       \/ flushed < Len(queue) /\ Failed(queue[flushed + 1])
    /\ queue' = SubSeq(queue, flushed + 2, Len(queue))
    /\ at' = "live"
    /\ UNCHANGED <<line, flushed, dropped>>
FlushEnds_KeepsAll ==
    /\ at = "flush"
    /\ \/ flushed = Len(queue) /\ UNCHANGED net
       \/ flushed < Len(queue) /\ Failed(queue[flushed + 1])
    /\ at' = "live"
    /\ UNCHANGED <<line, queue, flushed, dropped>>

\* ... until the queue is empty or one fails; what was sent leaves the queue.
FlushEnds == /\ at = "flush"
             /\ \/ flushed = Len(queue) /\ UNCHANGED net
                \/ flushed < Len(queue) /\ Failed(queue[flushed + 1])
             /\ queue' = SubSeq(queue, flushed + 1, Len(queue))
             /\ at' = "live"
             /\ UNCHANGED <<line, flushed, dropped>>

\* The line just read is sent, whether or not the queue could be flushed.
LiveSent == /\ at = "live"
            /\ Sent(line)
            /\ at' = "read"
            /\ UNCHANGED <<line, queue, flushed, dropped>>

\* It is queued if it could not be sent, or given up if the queue is full.
LiveFailed == /\ at = "live"
              /\ Failed(line)
              /\ IF Len(queue) < QueueLen
                 THEN queue' = Append(queue, line) /\ UNCHANGED dropped
                 ELSE dropped' = dropped \cup {line} /\ UNCHANGED queue
              /\ at' = "read"
              /\ UNCHANGED <<line, flushed>>

Next == Read \/ Stop \/ FlushSent \/ FlushEnds \/ LiveSent \/ LiveFailed \/ Network

Spec == Init /\ [][Next]_vars

-----------------------------------------------------------------------------
Lines == 1 .. line

RelayTypeOK == /\ at \in {"read", "flush", "live", "done"}
          /\ line \in Nat
          /\ queue \in Seq(Lines)
          /\ Len(queue) <= QueueLen
          /\ flushed \in Nat
          /\ up \in BOOLEAN
          /\ arrived \in Seq(Lines)
          /\ confirmed \subseteq DOMAIN arrived
          /\ dropped \subseteq Lines

Among(l, s) == \E i \in DOMAIN s : s[i] = l

InHand(l) == at \in {"flush", "live"} /\ l = line

\* No line is forgotten: whatever fails and whenever, each line read has
\* reached the server, is queued, is in hand or was given up at a full queue.
NoneForgotten ==
    \A l \in Lines : Among(l, arrived) \/ Among(l, queue) \/ l \in dropped \/ InHand(l)

\* A line that the server has confirmed is not sent to it again, however far the
\* flush came in which it was: what reaches the server a second time was answered
\* with an error, or not at all, until then.
NoneSentAgain ==
    \A i, j \in DOMAIN arrived : i < j /\ arrived[i] = arrived[j] => i \notin confirmed

\* The queue holds no line twice, and holds the lines in the order read.
QueueInOrder == \A i, j \in DOMAIN queue : i < j => queue[i] < queue[j]

First(l) == CHOOSE i \in DOMAIN arrived :
               arrived[i] = l /\ \A j \in DOMAIN arrived : arrived[j] = l => i <= j

\* "On reconnect, the Client MUST flush the queued lines to the Server in order
\* before resuming live forwarding" (requirements.md:64): a line reaches the
\* server before those read after it.
ArriveInOrder ==
    \A k, l \in Lines : (k < l /\ Among(k, arrived) /\ Among(l, arrived))
                           => First(k) < First(l)
============================================================================
