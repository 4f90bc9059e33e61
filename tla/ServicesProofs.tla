--------------------------- MODULE ServicesProofs ---------------------------
(***************************************************************************)
(* Proofs about what the server keeps for each pane: its scrollback, for   *)
(* every capacity and set of lines; its terminal, for every set of panes,  *)
(* processes and requests; and its bookmarks, for every set of names and   *)
(* however many stores are made.                                           *)
(*                                                                         *)
(* And about who gets at it: for every set of sources, tokens and          *)
(* requests, and for every configuration; how it is found: for any number  *)
(* of server processes and ports; and how it renders Markdown: for inputs  *)
(* of any length.                                                          *)
(***************************************************************************)
EXTENDS Scrollback, Terminals, Bookmarks, Access, ServerLife, Markdown,
        TLAPS, FiniteSetTheorems, SequenceTheorems

-----------------------------------------------------------------------------
(* The scrollback. *)

\* The capacity NewScrollbackBuffer settles on is a positive number.
LEMMA CapPositive == Cap \in Nat \ {0}
  BY CapAssumption DEF Cap

\* One turn round the ring: an offset below the capacity reaches either the
\* slot itself or the one a whole turn earlier.
LEMMA RingIndex ==
  ASSUME NEW h \in 0 .. Cap - 1, NEW i \in 0 .. Cap
  PROVE  (h + i) % Cap = IF h + i < Cap THEN h + i ELSE h + i - Cap
<1> DEFINE c == Cap
<1>1. c \in Nat \ {0} /\ h \in 0 .. c - 1 /\ i \in 0 .. c
  BY CapPositive
<1> HIDE DEF c
<1>2. (h + i) % c = IF h + i < c THEN h + i ELSE h + i - c
  BY <1>1
<1> QED BY <1>2 DEF c

\* Every slot that Append or Lines computes is one of the ring.
LEMMA SlotRange ==
  ASSUME head \in 0 .. Cap - 1, NEW i \in 0 .. Cap
  PROVE  /\ Slot(i) \in 0 .. Cap - 1
         /\ Slot(i) = IF head + i < Cap THEN head + i ELSE head + i - Cap
<1>1. (head + i) % Cap = IF head + i < Cap THEN head + i ELSE head + i - Cap
  BY RingIndex
<1>2. Slot(i) = IF head + i < Cap THEN head + i ELSE head + i - Cap
  BY <1>1 DEF Slot
<1> QED BY <1>2, CapPositive

\* Two lines never share a slot.
LEMMA SlotInjective ==
  ASSUME head \in 0 .. Cap - 1, NEW i \in 0 .. Cap - 1, NEW j \in 0 .. Cap - 1,
         i # j
  PROVE  Slot(i) # Slot(j)
  BY SlotRange, CapPositive

-----------------------------------------------------------------------------
\* The inductive invariant: the slots and counters are in range, and every
\* slot between head and head + size holds a line.
IInv == BufferTypeOK /\ NoBlankRead

\* A new buffer is empty.
LEMMA InvInit == Init => IInv
  BY CapPositive DEF Init, IInv, BufferTypeOK, NoBlankRead

\* What Lines returns, position by position.
LEMMA LinesOf ==
  ASSUME IInv
  PROVE  /\ Lines \in Seq(Line)
         /\ Len(Lines) = size
         /\ \A i \in 1 .. size : Lines[i] = buf[Slot(i - 1)]
  BY DEF Lines, IInv, BufferTypeOK, NoBlankRead

\* A step that changes nothing preserves the invariant.
LEMMA InvStutter == IInv /\ UNCHANGED vars => IInv'
  BY DEF vars, IInv, BufferTypeOK, NoBlankRead, Lines, Slot

\* What a reader is handed after an Append: the line at the end, and the
\* oldest one gone when the buffer was full.
LEMMA AppendEffect ==
  ASSUME IInv, NEW line \in Line, AppendLine(line)
  PROVE  /\ BufferTypeOK'
         /\ size' = IF size < Cap THEN size + 1 ELSE Cap
         /\ \A i \in 1 .. size' :
               Lines'[i] = IF i = size' THEN line
                           ELSE IF size < Cap THEN Lines[i] ELSE Lines[i + 1]
<1> USE CapPositive
<1>0. BufferTypeOK  BY DEF IInv
<1>1. CASE size < Cap
  <2>1. /\ buf' = [buf EXCEPT ![Slot(size)] = line]
        /\ size' = size + 1
        /\ head' = head
    BY <1>1, <1>0 DEF AppendLine, BufferTypeOK
  <2>2. Slot(size) \in 0 .. Cap - 1
    BY <1>0, SlotRange DEF BufferTypeOK
  <2>3. BufferTypeOK'
    BY <2>1, <2>2, <1>0, <1>1 DEF BufferTypeOK
  <2>4. ASSUME NEW i \in 1 .. size' PROVE Lines'[i] = IF i = size' THEN line ELSE Lines[i]
    <3>1. Lines'[i] = buf'[Slot(i - 1)]
      BY <2>1 DEF Lines, Slot
    <3>2. CASE i = size'
      BY <3>1, <3>2, <2>1, <2>2, <1>0 DEF BufferTypeOK
    <3>3. CASE i # size'
      <4>1. i \in 1 .. size /\ i - 1 \in 0 .. Cap - 1 /\ size \in 0 .. Cap - 1
        BY <3>3, <2>1, <1>0, <1>1 DEF BufferTypeOK
      <4>2. Slot(i - 1) # Slot(size)
        BY <4>1, <1>0, SlotInjective DEF BufferTypeOK
      <4>3. Slot(i - 1) \in 0 .. Cap - 1
        BY <4>1, <1>0, SlotRange DEF BufferTypeOK
      <4>4. buf'[Slot(i - 1)] = buf[Slot(i - 1)]
        BY <4>2, <4>3, <2>1, <1>0 DEF BufferTypeOK
      <4> QED BY <3>1, <3>3, <4>1, <4>4 DEF Lines
    <3> QED BY <3>2, <3>3
  <2> QED BY <2>1, <2>3, <2>4, <1>1
<1>2. CASE size = Cap
  <2>1. /\ buf' = [buf EXCEPT ![head] = line]
        /\ size' = size
        /\ head' = (head + 1) % Cap
    BY <1>2 DEF AppendLine
  <2>2. head' = Slot(1) /\ head' \in 0 .. Cap - 1
    BY <2>1, <1>0, SlotRange DEF BufferTypeOK, Slot
  <2>3. BufferTypeOK'
    BY <2>1, <2>2, <1>0 DEF BufferTypeOK
  \* The slots seen from the new head are the old ones, one further on.
  <2>4. ASSUME NEW i \in 1 .. Cap PROVE Slot(i - 1)' = Slot(i)
    <3>1. head' = IF head + 1 < Cap THEN head + 1 ELSE head + 1 - Cap
      BY <2>2, <1>0, SlotRange DEF BufferTypeOK
    <3>2. Slot(i) = IF head + i < Cap THEN head + i ELSE head + i - Cap
      BY <1>0, SlotRange DEF BufferTypeOK
    <3>3. (head' + (i - 1)) % Cap = IF head' + (i - 1) < Cap THEN head' + (i - 1)
                                    ELSE head' + (i - 1) - Cap
      <4>1. i - 1 \in 0 .. Cap
        OBVIOUS
      <4> QED BY <2>2, <4>1, RingIndex
    <3>4. head \in 0 .. Cap - 1
      BY <1>0 DEF BufferTypeOK
    <3>5. CASE head + 1 < Cap
      <4>1. head' + (i - 1) = head + i
        BY <3>1, <3>4, <3>5
      <4> QED BY <4>1, <3>2, <3>3 DEF Slot
    <3>6. CASE ~(head + 1 < Cap)
      <4>1. head' = 0 /\ head + 1 = Cap
        BY <3>1, <3>4, <3>6
      <4>2. head' + (i - 1) = i - 1 /\ head + i = Cap + (i - 1)
        BY <4>1, <3>4
      <4> QED BY <4>2, <3>2, <3>3 DEF Slot
    <3> QED BY <3>5, <3>6
  <2>5. ASSUME NEW i \in 1 .. size' PROVE Lines'[i] = IF i = size' THEN line ELSE Lines[i + 1]
    <3>1. i \in 1 .. Cap /\ Lines'[i] = buf'[Slot(i)]
      BY <2>1, <2>4, <1>2 DEF Lines
    <3>2. CASE i = size'
      <4>1. Slot(i) = head
        BY <3>2, <2>1, <1>2, <1>0, SlotRange DEF BufferTypeOK
      <4> QED BY <4>1, <3>1, <3>2, <2>1, <1>0 DEF BufferTypeOK
    <3>3. CASE i # size'
      <4>1. i \in 1 .. Cap - 1 /\ Slot(i) \in 0 .. Cap - 1 /\ Slot(i) # head
        BY <3>1, <3>3, <2>1, <1>2, <1>0, SlotRange DEF BufferTypeOK
      <4>2. buf'[Slot(i)] = buf[Slot(i)]
        BY <4>1, <2>1, <1>0 DEF BufferTypeOK
      <4>3. i + 1 \in 1 .. size /\ (i + 1) - 1 = i
        BY <4>1, <1>2
      <4>4. Lines[i + 1] = buf[Slot(i)]
        BY <4>3 DEF Lines
      <4> QED BY <3>1, <3>3, <4>2, <4>4
    <3> QED BY <3>2, <3>3
  <2> QED BY <2>1, <2>3, <2>5, <1>2
<1> QED BY <1>0, <1>1, <1>2 DEF BufferTypeOK

\* Append and Clear preserve the invariant.
LEMMA InvNext == IInv /\ [Next]_vars => IInv'
<1> SUFFICES ASSUME IInv, [Next]_vars PROVE IInv'
  OBVIOUS
<1>1. ASSUME NEW line \in Line, AppendLine(line) PROVE IInv'
  <2>1. /\ BufferTypeOK'
        /\ \A i \in 1 .. size' : Lines'[i] \in {line} \cup {Lines[j] : j \in 1 .. size}
    BY <1>1, AppendEffect, CapPositive DEF IInv, BufferTypeOK
  <2>2. \A j \in 1 .. size : Lines[j] \in Line
    BY DEF IInv, NoBlankRead
  <2> QED BY <2>1, <2>2 DEF IInv, NoBlankRead
<1>2. CASE Clear
  BY <1>2, CapPositive DEF Clear, IInv, BufferTypeOK, NoBlankRead
<1>3. CASE UNCHANGED vars
  BY <1>3, InvStutter
<1> QED BY <1>1, <1>2, <1>3 DEF Next

\* The slots and counters stay in range (session.ScrollbackBuffer never
\* indexes outside its slice).
THEOREM RingTypeCorrect == Spec => []BufferTypeOK
<1>1. IInv => BufferTypeOK  BY DEF IInv
<1> QED BY <1>1, InvInit, InvNext, PTL DEF Spec

\* Lines() never returns a slot no Append has filled.
THEOREM ReadsOnlyWritten == Spec => []NoBlankRead
<1>1. IInv => NoBlankRead  BY DEF IInv
<1> QED BY <1>1, InvInit, InvNext, PTL DEF Spec

-----------------------------------------------------------------------------
\* Append seen as a function on positions.
LEMMA AppendAsFunction ==
  ASSUME NEW S, NEW s \in Seq(S), NEW e \in S
  PROVE  Append(s, e) = [i \in 1 .. Len(s) + 1 |-> IF i = Len(s) + 1 THEN e ELSE s[i]]
<1>1. /\ Append(s, e) \in Seq(S)
      /\ Len(Append(s, e)) = Len(s) + 1
      /\ Append(s, e)[Len(s) + 1] = e
      /\ \A i \in 1 .. Len(s) : Append(s, e)[i] = s[i]
  BY AppendProperties
<1>2. Append(s, e) = [i \in 1 .. Len(s) + 1 |-> Append(s, e)[i]]
  BY <1>1, LenProperties
<1>3. \A i \in 1 .. Len(s) + 1 : Append(s, e)[i] = IF i = Len(s) + 1 THEN e ELSE s[i]
  BY <1>1, LenProperties
<1> QED BY <1>2, <1>3

\* A new buffer is a new log.
LEMMA RefineInit == Init => History!Init
  BY DEF Init, History!Init, Lines

\* Appending to the buffer appends to the log.
LEMMA RefineAppend ==
  ASSUME IInv, NEW line \in Line, AppendLine(line)
  PROVE  History!Append1(line)
<1> USE CapPositive
<1>1. /\ Lines \in Seq(Line) /\ Len(Lines) = size /\ size \in 0 .. Cap
      /\ size' = IF size < Cap THEN size + 1 ELSE Cap
  BY LinesOf, AppendEffect DEF IInv, BufferTypeOK
<1>2. Lines' = [i \in 1 .. size' |-> Lines'[i]]
  BY DEF Lines
<1>3. \A i \in 1 .. size' :
         Lines'[i] = IF i = size' THEN line
                     ELSE IF size < Cap THEN Lines[i] ELSE Lines[i + 1]
  BY AppendEffect
<1>4. CASE size < Cap
  <2>1. Append(Lines, line) = [i \in 1 .. size + 1 |-> IF i = size + 1 THEN line ELSE Lines[i]]
    BY <1>1, AppendAsFunction
  <2>2. [i \in 1 .. size' |-> Lines'[i]]
           = [i \in 1 .. size + 1 |-> IF i = size + 1 THEN line ELSE Lines[i]]
    BY <1>1, <1>3, <1>4
  <2>3. Lines' = Append(Lines, line)
    BY <1>2, <2>1, <2>2
  <2> QED BY <2>3, <1>1, <1>4 DEF History!Append1
<1>5. CASE size = Cap
  <2> DEFINE t == Tail(Lines)
  <2>1. t \in Seq(Line) /\ Len(t) = size - 1 /\ \A i \in 1 .. size - 1 : t[i] = Lines[i + 1]
    BY <1>1, <1>5
  <2> HIDE DEF t
  <2>2. Append(t, line) = [i \in 1 .. size |-> IF i = size THEN line ELSE t[i]]
    BY <2>1, <1>1, <1>5, AppendAsFunction
  <2>3. [i \in 1 .. size' |-> Lines'[i]]
           = [i \in 1 .. size |-> IF i = size THEN line ELSE t[i]]
    BY <1>1, <1>3, <1>5, <2>1
  <2>4. Lines' = Append(t, line)
    BY <1>2, <2>2, <2>3
  <2> QED BY <2>4, <1>1, <1>5 DEF History!Append1, t
<1> QED BY <1>1, <1>4, <1>5

\* Every step of the buffer is a step of the log.
LEMMA RefineNext == IInv /\ [Next]_vars => [History!Next]_Lines
<1> SUFFICES ASSUME IInv, [Next]_vars PROVE [History!Next]_Lines
  OBVIOUS
<1>1. ASSUME NEW line \in Line, AppendLine(line) PROVE History!Next
  BY <1>1, RefineAppend DEF History!Next
<1>2. CASE Clear
  BY <1>2 DEF Clear, History!Next, History!Clear, Lines
<1>3. CASE UNCHANGED vars
  BY <1>3 DEF vars, Lines, Slot
<1> QED BY <1>1, <1>2, <1>3 DEF Next

\* The ring buffer implements the bounded log: a reader always gets the last
\* lines in the order they were appended.
THEOREM ImplementsBoundedLog == Spec => Refinement
<1> QED BY InvInit, InvNext, RefineInit, RefineNext, PTL
        DEF Spec, Refinement, History!Spec

-----------------------------------------------------------------------------
(* Terminals. *)

\* What each request is at, and about which process of which pane.
RequestOK ==
    \A r \in Requests : \/ request[r] = NoRequest
                        \/ /\ request[r].at \in {"launched", "killing"}
                           /\ request[r].x \in DOMAIN owner
                           /\ owner[request[r].x] = request[r].id
                           /\ request[r].id \in Panes

\* A pane remembers a process that was started for it, or none.
EntriesOK ==
    \A id \in Panes : terminals[id] # NoProcess => /\ terminals[id] \in DOMAIN owner
                                                   /\ owner[terminals[id]] = id

TermInv == /\ request = [r \in Requests |-> request[r]]
           /\ terminals = [id \in Panes |-> terminals[id]]
           /\ owner = [x \in DOMAIN owner |-> owner[x]]
           /\ running \subseteq DOMAIN owner
           /\ DOMAIN owner \subseteq Processes
           /\ \A x \in DOMAIN owner : owner[x] \in Panes
           /\ RequestOK
           /\ EntriesOK
           /\ NoStrayTerminal

LEMMA TermInitInv == TermInit => TermInv
BY DEF TermInit, TermInv, RequestOK, EntriesOK, NoStrayTerminal, NoRequest

LEMMA LaunchStartsInv ==
    ASSUME TermInv, NEW r \in Requests, NEW id \in Panes, NEW x \in Processes,
           LaunchStarts(r, id, x)
    PROVE  TermInv'
<1>1. /\ request[r] = NoRequest /\ x \in Processes \ DOMAIN owner
      /\ running' = running \cup {x}
      /\ owner' = [y \in DOMAIN owner \cup {x} |-> IF y = x THEN id ELSE owner[y]]
      /\ request' = [request EXCEPT ![r] = [at |-> "launched", id |-> id, x |-> x]]
      /\ terminals' = terminals /\ replaced' = replaced
  BY DEF LaunchStarts
<1>2. /\ DOMAIN owner' = DOMAIN owner \cup {x} /\ owner'[x] = id
      /\ \A y \in DOMAIN owner : owner'[y] = owner[y]
  BY <1>1
<1>3. /\ request'[r].at = "launched" /\ request'[r].id = id /\ request'[r].x = x
      /\ \A s \in Requests \ {r} : request'[s] = request[s]
  BY <1>1 DEF TermInv
<1>4. RequestOK'
  BY <1>2, <1>3 DEF TermInv, RequestOK
<1>5. EntriesOK'
  BY <1>1, <1>2 DEF TermInv, EntriesOK
<1>6. NoStrayTerminal'
  <2> SUFFICES ASSUME NEW y \in running'
               PROVE  \/ terminals'[owner'[y]] = y
                      \/ \E s \in Requests : request'[s].at # "none" /\ request'[s].x = y
                      \/ y \in replaced'
    BY DEF NoStrayTerminal
  <2>1. CASE y = x
    BY <1>3, <2>1
  <2>2. CASE y # x
    <3>1. y \in running /\ owner'[y] = owner[y]
      BY <1>1, <1>2, <2>2 DEF TermInv
    <3>2. \A s \in Requests : request[s].at # "none" => s # r
      BY <1>1 DEF NoRequest
    <3>. QED
      BY <1>1, <1>3, <3>1, <3>2 DEF TermInv, NoStrayTerminal
  <2>. QED
    BY <2>1, <2>2
<1>7. /\ request' = [s \in Requests |-> request'[s]]
      /\ terminals' = [i \in Panes |-> terminals'[i]]
      /\ owner' = [y \in DOMAIN owner' |-> owner'[y]]
  BY <1>1, <1>2 DEF TermInv
<1>. QED
  BY <1>1, <1>2, <1>4, <1>5, <1>6, <1>7 DEF TermInv

LEMMA LaunchEntersInv ==
    ASSUME TermInv, NEW r \in Requests, LaunchEnters(r) PROVE TermInv'
<1> DEFINE id == request[r].id
           x == request[r].x
<1>1. /\ request[r].at = "launched"
      /\ terminals' = [terminals EXCEPT ![id] = x]
      /\ replaced' = replaced \cup ({terminals[id]} \ {NoProcess})
      /\ request' = [request EXCEPT ![r] = NoRequest]
      /\ running' = running /\ owner' = owner
  BY DEF LaunchEnters
<1>2. x \in DOMAIN owner /\ owner[x] = id /\ id \in Panes
  BY <1>1 DEF TermInv, RequestOK, NoRequest
<1>3. /\ terminals'[id] = x /\ \A i \in Panes \ {id} : terminals'[i] = terminals[i]
      /\ request'[r] = NoRequest /\ \A s \in Requests \ {r} : request'[s] = request[s]
  BY <1>1, <1>2 DEF TermInv
<1>4. RequestOK'
  BY <1>1, <1>3 DEF TermInv, RequestOK
<1>5. EntriesOK'
  BY <1>1, <1>2, <1>3 DEF TermInv, EntriesOK
<1>6. NoStrayTerminal'
  <2> SUFFICES ASSUME NEW y \in running
               PROVE  \/ terminals'[owner[y]] = y
                      \/ \E s \in Requests : request'[s].at # "none" /\ request'[s].x = y
                      \/ y \in replaced'
    BY <1>1 DEF NoStrayTerminal
  <2>1. CASE terminals[owner[y]] = y
    <3>1. owner[y] \in Panes /\ y # NoProcess
      BY NoProcessAssumption DEF TermInv
    <3>. QED
      BY <1>1, <1>3, <2>1, <3>1
  <2>2. CASE \E s \in Requests : request[s].at # "none" /\ request[s].x = y
    BY <1>2, <1>3, <2>2
  <2>3. CASE y \in replaced
    BY <1>1, <2>3
  <2>. QED
    BY <2>1, <2>2, <2>3 DEF TermInv, NoStrayTerminal
<1>. QED
  BY <1>1, <1>4, <1>5, <1>6 DEF TermInv

LEMMA KillTakesInv ==
    ASSUME TermInv, NEW r \in Requests, NEW id \in Panes, KillTakes(r, id) PROVE TermInv'
<1>1. /\ request[r] = NoRequest /\ terminals[id] # NoProcess
      /\ request' = [request EXCEPT ![r] = [at |-> "killing", id |-> id, x |-> terminals[id]]]
      /\ terminals' = [terminals EXCEPT ![id] = NoProcess]
      /\ running' = running /\ owner' = owner /\ replaced' = replaced
  BY DEF KillTakes
<1>2. /\ request'[r].at = "killing" /\ request'[r].id = id /\ request'[r].x = terminals[id]
      /\ \A s \in Requests \ {r} : request'[s] = request[s]
      /\ terminals'[id] = NoProcess /\ \A i \in Panes \ {id} : terminals'[i] = terminals[i]
  BY <1>1 DEF TermInv
<1>3. RequestOK'
  BY <1>1, <1>2 DEF TermInv, RequestOK, EntriesOK
<1>4. EntriesOK'
  BY <1>1, <1>2 DEF TermInv, EntriesOK
<1>5. NoStrayTerminal'
  <2> SUFFICES ASSUME NEW y \in running
               PROVE  \/ terminals'[owner[y]] = y
                      \/ \E s \in Requests : request'[s].at # "none" /\ request'[s].x = y
                      \/ y \in replaced
    BY <1>1 DEF NoStrayTerminal
  <2>1. CASE terminals[owner[y]] = y
    <3>1. owner[y] \in Panes
      BY DEF TermInv
    <3>2. CASE owner[y] = id
      BY <1>2, <2>1, <3>2
    <3>3. CASE owner[y] # id
      BY <1>2, <2>1, <3>1, <3>3
    <3>. QED
      BY <3>2, <3>3
  <2>2. CASE \E s \in Requests : request[s].at # "none" /\ request[s].x = y
    BY <1>1, <1>2, <2>2 DEF NoRequest
  <2>3. CASE y \in replaced
    BY <2>3
  <2>. QED
    BY <2>1, <2>2, <2>3 DEF TermInv, NoStrayTerminal
<1>. QED
  BY <1>1, <1>3, <1>4, <1>5 DEF TermInv

LEMMA KillEndsInv == ASSUME TermInv, NEW r \in Requests, KillEnds(r) PROVE TermInv'
<1>1. /\ request[r].at = "killing"
      /\ running' = running \ {request[r].x}
      /\ request' = [request EXCEPT ![r] = NoRequest]
      /\ owner' = owner /\ terminals' = terminals /\ replaced' = replaced
  BY DEF KillEnds
<1>2. request'[r] = NoRequest /\ \A s \in Requests \ {r} : request'[s] = request[s]
  BY <1>1 DEF TermInv
<1>3. RequestOK' /\ EntriesOK'
  BY <1>1, <1>2 DEF TermInv, RequestOK, EntriesOK
<1>4. NoStrayTerminal'
  BY <1>1, <1>2 DEF TermInv, NoStrayTerminal
<1>. QED
  BY <1>1, <1>3, <1>4 DEF TermInv

LEMMA TermNextInv == TermInv /\ [TermNext]_termvars => TermInv'
<1> SUFFICES ASSUME TermInv, [TermNext]_termvars PROVE TermInv'
  OBVIOUS
<1>1. ASSUME NEW x \in Processes, Exits(x) PROVE TermInv'
  BY <1>1 DEF Exits, TermInv, RequestOK, EntriesOK, NoStrayTerminal
<1>2. CASE UNCHANGED termvars
  BY <1>2 DEF termvars, TermInv, RequestOK, EntriesOK, NoStrayTerminal
<1>. QED
  BY <1>1, <1>2, LaunchStartsInv, LaunchEntersInv, KillTakesInv, KillEndsInv DEF TermNext

-----------------------------------------------------------------------------
\* However launches, kills and exits overlap (terminal.go, Launch and Kill), a
\* terminal that runs is remembered by its pane, in the hands of a request, or
\* was replaced.
THEOREM NoneLost == TermSpec => []NoStrayTerminal
<1>1. TermInv => NoStrayTerminal
  BY DEF TermInv
<1>. QED
  BY <1>1, TermInitInv, TermNextInv, PTL DEF TermSpec

-----------------------------------------------------------------------------
(* Bookmarks. *)

\* The stores are numbered in the order they were made; a pane has one of them.
StoresOK == /\ \E n \in Nat : DOMAIN stores = 1 .. n
            /\ \A id \in DOMAIN bookmarks : bookmarks[id] \in DOMAIN stores

\* A request that will mark holds on to the store it found, and what it will
\* mark is wanted there.
MarkingOK ==
    \A r \in Markers : marking[r].at = "add" =>
        /\ marking[r].store \in DOMAIN stores
        /\ <<marking[r].store, marking[r].name, marking[r].index>> \in wanted

\* Every store there ever was holds only what was wanted in it.
MarksWanted ==
    \A s \in DOMAIN stores : \A name \in DOMAIN stores[s] :
       /\ <<s, name, stores[s][name]>> \in wanted
       /\ stores[s][name] >= 0

MarkInv == /\ marking = [r \in Markers |-> marking[r]]
           /\ stores = [s \in DOMAIN stores |-> stores[s]]
           /\ StoresOK
           /\ MarkingOK
           /\ MarksWanted

LEMMA MarkInitInv == MarkInit => MarkInv
<1> SUFFICES ASSUME MarkInit PROVE MarkInv
  OBVIOUS
<1>1. DOMAIN stores = 1 .. 0 /\ DOMAIN bookmarks = {}
  BY DEF MarkInit
<1>2. StoresOK
  BY <1>1 DEF StoresOK
<1>. QED
  BY <1>1, <1>2 DEF MarkInit, MarkInv, MarkingOK, MarksWanted, NotMarking

LEMMA MakeStoreInv == ASSUME MarkInv, NEW id, MakeStore(id) PROVE MarkInv'
<1>1. PICK n \in Nat : DOMAIN stores = 1 .. n
  BY DEF MarkInv, StoresOK
<1>2. Cardinality(DOMAIN stores) = n
  BY <1>1, FS_Interval
<1>3. /\ stores' = [i \in DOMAIN stores \cup {n + 1} |->
                      IF i = n + 1 THEN [x \in {} |-> 0] ELSE stores[i]]
      /\ bookmarks' = [i \in DOMAIN bookmarks \cup {id} |->
                         IF i = id THEN n + 1 ELSE bookmarks[i]]
      /\ marking' = marking /\ wanted' = wanted
  BY <1>2 DEF MakeStore
<1>4. /\ DOMAIN stores' = 1 .. n + 1 /\ n + 1 \notin DOMAIN stores
      /\ \A s \in DOMAIN stores : stores'[s] = stores[s]
      /\ DOMAIN stores'[n + 1] = {}
  BY <1>1, <1>3
<1>5. StoresOK'
  <2>1. \A i \in DOMAIN bookmarks' : bookmarks'[i] \in DOMAIN stores'
    BY <1>1, <1>3, <1>4 DEF MarkInv, StoresOK
  <2>. QED
    BY <1>4, <2>1 DEF StoresOK
<1>6. MarkingOK'
  BY <1>1, <1>3, <1>4 DEF MarkInv, MarkingOK
<1>7. MarksWanted'
  <2> SUFFICES ASSUME NEW s \in DOMAIN stores', NEW name \in DOMAIN stores'[s]
               PROVE  <<s, name, stores'[s][name]>> \in wanted /\ stores'[s][name] >= 0
    BY <1>3 DEF MarksWanted
  <2>1. s \in DOMAIN stores
    BY <1>1, <1>4
  <2>. QED
    BY <1>4, <2>1 DEF MarkInv, MarksWanted
<1>. QED
  BY <1>3, <1>5, <1>6, <1>7 DEF MarkInv

LEMMA DropStoreInv == ASSUME MarkInv, NEW id, DropStore(id) PROVE MarkInv'
<1>1. /\ bookmarks' = [i \in DOMAIN bookmarks \ {id} |-> bookmarks[i]]
      /\ UNCHANGED <<stores, marking, wanted>>
  BY DEF DropStore, Restrict
<1>. QED
  BY <1>1 DEF MarkInv, StoresOK, MarkingOK, MarksWanted

LEMMA FindInv ==
    ASSUME MarkInv, NEW r \in Markers, NEW id, NEW what \in {"add", "remove"}, NEW name, NEW index,
           Find(r, id, what, name, index)
    PROVE  MarkInv'
<1>1. /\ id \in DOMAIN bookmarks
      /\ marking' = [marking EXCEPT ![r] = [at |-> what, id |-> id, store |-> bookmarks[id],
                                            name |-> name, index |-> index]]
      /\ wanted' = IF what = "add" THEN wanted \cup {<<bookmarks[id], name, index>>} ELSE wanted
      /\ UNCHANGED <<bookmarks, stores>>
  BY DEF Find
<1>2. /\ marking'[r] = [at |-> what, id |-> id, store |-> bookmarks[id],
                        name |-> name, index |-> index]
      /\ \A s \in Markers \ {r} : marking'[s] = marking[s]
      /\ wanted \subseteq wanted'
  BY <1>1 DEF MarkInv
<1>3. MarkingOK'
  <2> SUFFICES ASSUME NEW s \in Markers, marking'[s].at = "add"
               PROVE  /\ marking'[s].store \in DOMAIN stores
                      /\ <<marking'[s].store, marking'[s].name, marking'[s].index>> \in wanted'
    BY <1>1 DEF MarkingOK
  <2>1. CASE s = r
    <3>1. what = "add"
      BY <1>2, <2>1
    <3>. QED
      BY <1>1, <1>2, <2>1, <3>1 DEF MarkInv, StoresOK
  <2>2. CASE s # r
    BY <1>2, <2>2 DEF MarkInv, MarkingOK
  <2>. QED
    BY <2>1, <2>2
<1>4. StoresOK' /\ MarksWanted'
  BY <1>1, <1>2 DEF MarkInv, StoresOK, MarksWanted
<1>. QED
  BY <1>1, <1>3, <1>4 DEF MarkInv

LEMMA AddMarkInv == ASSUME MarkInv, NEW r \in Markers, AddMark(r) PROVE MarkInv'
<1> DEFINE s == marking[r].store
           name == marking[r].name
           index == marking[r].index
<1>1. s \in DOMAIN stores /\ <<s, name, index>> \in wanted
  BY DEF AddMark, MarkInv, MarkingOK
<1>2. /\ marking' = [marking EXCEPT ![r] = NotMarking]
      /\ bookmarks' = bookmarks /\ wanted' = wanted
      /\ DOMAIN stores' = DOMAIN stores /\ stores' = [k \in DOMAIN stores' |-> stores'[k]]
  BY DEF AddMark, MarkInv
<1>3. MarkingOK' /\ StoresOK'
  <2>1. \A q \in Markers : marking'[q].at = "add" => q # r /\ marking'[q] = marking[q]
    BY <1>2 DEF MarkInv, NotMarking
  <2>. QED
    BY <1>2, <2>1 DEF MarkInv, MarkingOK, StoresOK
<1>4. MarksWanted'
  <2>1. CASE index >= 0
    <3>1. stores' = [stores EXCEPT ![s] = [x \in DOMAIN @ \cup {name} |->
                                             IF x = name THEN index ELSE @[x]]]
      BY <2>1 DEF AddMark
    <3>2. /\ stores'[s] = [x \in DOMAIN stores[s] \cup {name} |->
                             IF x = name THEN index ELSE stores[s][x]]
          /\ \A k \in DOMAIN stores \ {s} : stores'[k] = stores[k]
      BY <1>1, <3>1 DEF MarkInv
    <3> SUFFICES ASSUME NEW k \in DOMAIN stores, NEW x \in DOMAIN stores'[k]
                 PROVE  <<k, x, stores'[k][x]>> \in wanted /\ stores'[k][x] >= 0
      BY <1>2 DEF MarksWanted
    <3>3. CASE k = s /\ x = name
      BY <1>1, <2>1, <3>2, <3>3
    <3>4. CASE k = s /\ x # name
      BY <1>1, <3>2, <3>4 DEF MarkInv, MarksWanted
    <3>5. CASE k # s
      BY <3>2, <3>5 DEF MarkInv, MarksWanted
    <3>. QED
      BY <3>3, <3>4, <3>5
  <2>2. CASE ~(index >= 0)
    BY <1>2, <2>2 DEF AddMark, MarkInv, MarksWanted
  <2>. QED
    BY <2>1, <2>2
<1>. QED
  BY <1>2, <1>3, <1>4 DEF MarkInv

LEMMA RemoveMarkInv == ASSUME MarkInv, NEW r \in Markers, RemoveMark(r) PROVE MarkInv'
<1> DEFINE s == marking[r].store
           name == marking[r].name
<1>1. /\ stores' = [stores EXCEPT ![s] = [x \in DOMAIN @ \ {name} |-> @[x]]]
      /\ marking' = [marking EXCEPT ![r] = NotMarking]
      /\ bookmarks' = bookmarks /\ wanted' = wanted
  BY DEF RemoveMark, Restrict
<1>2. DOMAIN stores' = DOMAIN stores /\ stores' = [k \in DOMAIN stores' |-> stores'[k]]
  BY <1>1 DEF MarkInv
<1>3. MarkingOK' /\ StoresOK'
  <2>1. \A q \in Markers : marking'[q].at = "add" => q # r /\ marking'[q] = marking[q]
    BY <1>1 DEF MarkInv, NotMarking
  <2>. QED
    BY <1>1, <1>2, <2>1 DEF MarkInv, MarkingOK, StoresOK
<1>4. \A k \in DOMAIN stores : \A x \in DOMAIN stores'[k] :
         x \in DOMAIN stores[k] /\ stores'[k][x] = stores[k][x]
  <2> TAKE k \in DOMAIN stores
  <2>1. CASE k = s
    <3>1. stores'[k] = [x \in DOMAIN stores[k] \ {name} |-> stores[k][x]]
      BY <1>1, <2>1 DEF MarkInv
    <3>. QED
      BY <3>1
  <2>2. CASE k # s
    BY <1>1, <2>2 DEF MarkInv
  <2>. QED
    BY <2>1, <2>2
<1>5. MarksWanted'
  BY <1>1, <1>2, <1>4 DEF MarkInv, MarksWanted
<1>. QED
  BY <1>1, <1>2, <1>3, <1>5 DEF MarkInv

LEMMA MarkNextInv == MarkInv /\ [MarkNext]_markvars => MarkInv'
<1> SUFFICES ASSUME MarkInv, [MarkNext]_markvars PROVE MarkInv'
  OBVIOUS
<1>1. CASE UNCHANGED markvars
  BY <1>1 DEF markvars, MarkInv, StoresOK, MarkingOK, MarksWanted
<1>. QED
  BY <1>1, MakeStoreInv, DropStoreInv, FindInv, AddMarkInv, RemoveMarkInv DEF MarkNext

-----------------------------------------------------------------------------
\* Whatever is looked up, closed and made anew in between (routes.go,
\* handleBookmarkAdd; router.go, Register and Deregister), the bookmarks of a
\* pane are those that were asked for it.
THEOREM MarksStayWithPane == MarkSpec => []MarksOfThisPane
<1>1. MarkInv => MarksOfThisPane
  BY DEF MarkInv, StoresOK, MarksWanted, MarksOfThisPane
<1>. QED
  BY <1>1, MarkInitInv, MarkNextInv, PTL DEF MarkSpec

-----------------------------------------------------------------------------
(* The tokens. *)

\* When a token that was made so expires.
Due(m) == IF Expiry(m.asked) > 0 THEN m.by + Expiry(m.asked) ELSE Never

ClockOK == now \in Nat /\ now <= MaxTime

\* A token in the store expires as asked for, and was not withdrawn.
StoreOK ==
    /\ withdrawn \subseteq DOMAIN made
    /\ \A k \in DOMAIN made : made[k].by \in Nat /\ made[k].by <= now /\ made[k].asked \in Asked
    /\ \A k \in DOMAIN store : /\ k \in DOMAIN made
                               /\ k \notin withdrawn
                               /\ store[k] = Due(made[k])

Fields == {"at", "source", "token", "route", "since", "late"}

\* A request remembers when it came and what was withdrawn by then; a lookup
\* that found its token tells when it expires, even if it is withdrawn since.
SlotOK(q) ==
    q # Empty =>
       /\ Fields \subseteq DOMAIN q
       /\ q.since \in Nat /\ q.since <= now
       /\ q.late => q.token \in withdrawn
       /\ q.at = "found" => /\ "expires" \in DOMAIN q
                            /\ q.token \in DOMAIN made
                            /\ ~q.late
                            /\ q.expires = Due(made[q.token])

\* The part of EndedTokensRefused that is about one request.
Rightly(q) ==
    q.at = "served" /\ q.route # "unauth" /\ ~NoAuth =>
       /\ q.token \in DOMAIN made
       /\ ~q.late
       /\ made[q.token].asked > 0
             => q.since <= made[q.token].by + made[q.token].asked

AccessInv == /\ slot = [r \in Slots |-> slot[r]]
             /\ ClockOK
             /\ StoreOK
             /\ \A r \in Slots : SlotOK(slot[r]) /\ Rightly(slot[r])

LEMMA EmptyOK == SlotOK(Empty) /\ Rightly(Empty)
BY DEF SlotOK, Rightly, Empty

LEMMA AccessInitInv == AccessInit => AccessInv
BY EmptyOK, TimeAssumption DEF AccessInit, AccessInv, ClockOK, StoreOK

\* A request is replaced and nothing else that matters changes.
LEMMA OneSlot ==
    ASSUME AccessInv, NEW r \in Slots, NEW q, slot' = [slot EXCEPT ![r] = q],
           UNCHANGED <<now, store, made, withdrawn>>, SlotOK(q), Rightly(q)
    PROVE  AccessInv'
<1>1. \A x \in Slots : SlotOK(slot'[x]) /\ Rightly(slot'[x])
  BY DEF AccessInv
<1>2. \A x \in Slots : SlotOK(slot[x])' /\ Rightly(slot[x])'
  BY <1>1 DEF SlotOK, Rightly, Due, Expiry, Never
<1>. QED
  BY <1>2 DEF AccessInv, ClockOK, StoreOK, Due, Expiry, Never

\* A step of a request that is in progress: only how far it is changes.
LEMMA MoveInv ==
    ASSUME AccessInv, NEW r \in Slots, slot[r] # Empty, NEW a, Move(r, a), a # "found",
           UNCHANGED <<now, store, made, withdrawn>>,
           a = "served" => Rightly([slot[r] EXCEPT !.at = "served"])
    PROVE  AccessInv'
<1> DEFINE q == [slot[r] EXCEPT !.at = a]
<1>1. slot' = [slot EXCEPT ![r] = q]
  BY DEF Move, AccessInv
<1>2. /\ SlotOK(slot[r]) /\ DOMAIN q = DOMAIN slot[r] /\ Fields \subseteq DOMAIN slot[r]
      /\ q.at = a
  BY DEF AccessInv, SlotOK, Fields
<1>3. /\ q.token = slot[r].token /\ q.since = slot[r].since /\ q.late = slot[r].late
      /\ q.route = slot[r].route
  BY <1>2 DEF Fields
<1>4. SlotOK(q)
  BY <1>2, <1>3 DEF SlotOK
<1>5. Rightly(q)
  BY <1>2 DEF Rightly
<1>. QED
  BY <1>1, <1>4, <1>5, OneSlot

LEMMA ArriveInv ==
    ASSUME AccessInv, NEW r \in Slots, NEW source, NEW token, NEW route,
           Arrive(r, source, token, route)
    PROVE  AccessInv'
<1> DEFINE q == [at |-> "arrived", source |-> source, token |-> token, route |-> route,
                 since |-> now, late |-> token \in withdrawn]
<1>1. slot' = [slot EXCEPT ![r] = q] /\ UNCHANGED <<now, store, made, withdrawn>>
  BY DEF Arrive
<1>2. SlotOK(q)
  <2>1. q.late = (token \in withdrawn) /\ q.token = token
    OBVIOUS
  <2>2. q.at = "arrived" /\ Fields \subseteq DOMAIN q
    BY DEF Fields
  <2>3. q.since \in Nat /\ q.since <= now
    BY DEF AccessInv, ClockOK
  <2>. HIDE DEF q
  <2>. QED
    BY <2>1, <2>2, <2>3 DEF SlotOK
<1>3. Rightly(q)
  BY DEF Rightly
<1>. QED
  BY <1>1, <1>2, <1>3, OneSlot

LEMMA LimitInv == ASSUME AccessInv, NEW r \in Slots, Limit(r) PROVE AccessInv'
<1>1. slot[r] # Empty /\ UNCHANGED <<now, store, made, withdrawn>> /\ slot[r].route = "unauth"
  BY DEF Limit, Empty
<1>2. Fields \subseteq DOMAIN slot[r]
  BY <1>1 DEF AccessInv, SlotOK
<1>3. Rightly([slot[r] EXCEPT !.at = "served"])
  BY <1>1, <1>2 DEF Rightly, Fields
<1>4. Move(r, "served") \/ Move(r, "refused")
  BY DEF Limit
<1>. QED
  BY <1>1, <1>3, <1>4, MoveInv

LEMMA GuardInv == ASSUME AccessInv, NEW r \in Slots, Guard(r) PROVE AccessInv'
<1>1. slot[r] # Empty /\ UNCHANGED <<now, store, made, withdrawn>>
  BY DEF Guard, Empty
<1>2. Move(r, "local") \/ Move(r, "refused")
  BY DEF Guard
<1>. QED
  BY <1>1, <1>2, MoveInv

LEMMA LookupInv == ASSUME AccessInv, NEW r \in Slots, Lookup(r) PROVE AccessInv'
<1>1. slot[r] # Empty /\ UNCHANGED <<now, store, made, withdrawn>>
  BY DEF Lookup, Reached, Empty
<1>2. SlotOK(slot[r])
  BY DEF AccessInv
<1>3. CASE NoAuth
  <2>1. Move(r, "served") /\ Rightly([slot[r] EXCEPT !.at = "served"])
    BY <1>3 DEF Lookup, Rightly
  <2>. QED
    BY <1>1, <2>1, MoveInv
<1>4. CASE ~NoAuth /\ slot[r].token \in DOMAIN store
  <2> DEFINE q == [f \in DOMAIN slot[r] \cup {"expires"} |->
                     IF f = "at" THEN "found"
                     ELSE IF f = "expires" THEN store[slot[r].token] ELSE slot[r][f]]
  <2>1. slot' = [slot EXCEPT ![r] = q]
    BY <1>4 DEF Lookup
  <2>2. /\ Fields \subseteq DOMAIN slot[r]
        /\ slot[r].since \in Nat /\ slot[r].since <= now
        /\ slot[r].late => slot[r].token \in withdrawn
    BY <1>1, <1>2 DEF SlotOK
  <2>3. /\ q.at = "found" /\ q.token = slot[r].token /\ q.late = slot[r].late
        /\ q.since = slot[r].since /\ q.expires = store[slot[r].token]
        /\ "expires" \in DOMAIN q /\ Fields \subseteq DOMAIN q
    BY <2>2 DEF Fields
  <2>4. /\ slot[r].token \in DOMAIN made /\ slot[r].token \notin withdrawn
        /\ store[slot[r].token] = Due(made[slot[r].token])
    BY <1>4 DEF AccessInv, StoreOK
  <2>5. SlotOK(q)
    BY <2>2, <2>3, <2>4 DEF SlotOK
  <2>6. Rightly(q)
    BY <2>3 DEF Rightly
  <2>. QED
    BY <1>1, <2>1, <2>5, <2>6, OneSlot
<1>5. CASE ~NoAuth /\ slot[r].token \notin DOMAIN store
  <2>1. Move(r, "refused")
    BY <1>5 DEF Lookup
  <2>. QED
    BY <1>1, <2>1, MoveInv
<1>. QED
  BY <1>3, <1>4, <1>5

LEMMA CheckInv == ASSUME AccessInv, NEW r \in Slots, Check(r) PROVE AccessInv'
<1> DEFINE m == made[slot[r].token]
<1>1. /\ slot[r] # Empty /\ slot[r].at = "found"
      /\ UNCHANGED <<now, store, made, withdrawn>>
  BY DEF Check, Empty
<1>2. /\ Fields \subseteq DOMAIN slot[r]
      /\ slot[r].token \in DOMAIN made /\ ~slot[r].late /\ slot[r].expires = Due(m)
      /\ slot[r].since \in Nat /\ slot[r].since <= now
  BY <1>1 DEF AccessInv, SlotOK
<1>3. now \in Nat /\ now <= MaxTime /\ m.by \in Nat /\ m.asked \in Int
  BY <1>2, ExpiryAssumption DEF AccessInv, ClockOK, StoreOK
<1>4. CASE Expired(slot[r].expires)
  <2>1. Move(r, "refused")
    BY <1>4 DEF Check
  <2>. QED
    BY <1>1, <2>1, MoveInv
<1>5. CASE ~Expired(slot[r].expires)
  <2>1. Move(r, "served")
    BY <1>5 DEF Check
  <2>2. m.asked > 0 => slot[r].since <= m.by + m.asked
    <3> SUFFICES ASSUME m.asked > 0 PROVE slot[r].since <= m.by + m.asked
      OBVIOUS
    <3>1. m.asked \in Nat \ {0} /\ Expiry(m.asked) = m.asked
      BY <1>3 DEF Expiry
    <3>2. Due(m) = m.by + m.asked
      BY <3>1 DEF Due
    <3>3. CASE Due(m) = Never
      BY <1>2, <1>3, <3>1, <3>2, <3>3, TimeAssumption DEF Never
    <3>4. CASE Due(m) # Never
      BY <1>2, <1>3, <1>5, <3>1, <3>2, <3>4 DEF Expired
    <3>. QED
      BY <3>3, <3>4
  <2>3. Rightly([slot[r] EXCEPT !.at = "served"])
    BY <1>2, <2>2 DEF Rightly, Fields
  <2>. QED
    BY <1>1, <2>1, <2>3, MoveInv
<1>. QED
  BY <1>4, <1>5

LEMMA AnswerInv == ASSUME AccessInv, NEW r \in Slots, Answer(r) PROVE AccessInv'
BY EmptyOK, OneSlot DEF Answer

LEMMA TickInv == AccessInv /\ Tick => AccessInv'
<1> SUFFICES ASSUME AccessInv, Tick PROVE AccessInv'
  OBVIOUS
<1>1. /\ now \in Nat /\ now' = now + 1 /\ now' <= MaxTime
      /\ UNCHANGED <<store, made, withdrawn, slot>>
  BY TimeAssumption DEF Tick, AccessInv, ClockOK
<1>2. \A r \in Slots : SlotOK(slot[r])'
  BY <1>1 DEF AccessInv, SlotOK, Due, Expiry, Never
<1>. QED
  BY <1>1, <1>2 DEF AccessInv, ClockOK, StoreOK, Rightly, Due, Expiry, Never

LEMMA CreateTokenInv ==
    ASSUME AccessInv, NEW k \in Tokens, NEW n \in Asked, CreateToken(k, n) PROVE AccessInv'
<1>1. /\ k \notin DOMAIN made
      /\ store' = [j \in DOMAIN store \cup {k} |->
                     IF j = k THEN ExpiresAt(Expiry(n)) ELSE store[j]]
      /\ made' = [j \in DOMAIN made \cup {k} |->
                    IF j = k THEN [by |-> now, asked |-> n] ELSE made[j]]
      /\ UNCHANGED <<now, withdrawn, slot>>
  BY DEF CreateToken
<1>2. /\ made'[k] = [by |-> now, asked |-> n] /\ store'[k] = Due(made'[k])
      /\ \A j \in DOMAIN made : made'[j] = made[j]
      /\ \A j \in DOMAIN store : store'[j] = store[j]
  BY <1>1 DEF Due, ExpiresAt, AccessInv, StoreOK
<1>3. \A r \in Slots : SlotOK(slot[r])' /\ Rightly(slot[r])'
  <2>1. ASSUME NEW r \in Slots PROVE SlotOK(slot[r])'
    BY <1>1, <1>2 DEF AccessInv, SlotOK, Due, Expiry, Never
  <2>2. ASSUME NEW r \in Slots PROVE Rightly(slot[r])'
    BY <1>1, <1>2 DEF AccessInv, Rightly, Expiry
  <2>. QED
    BY <2>1, <2>2
<1>4. StoreOK'
  <2>1. withdrawn' \subseteq DOMAIN made'
    BY <1>1 DEF AccessInv, StoreOK
  <2>2. ASSUME NEW j \in DOMAIN made'
        PROVE  made'[j].by \in Nat /\ made'[j].by <= now /\ made'[j].asked \in Asked
    BY <1>1, <1>2 DEF AccessInv, StoreOK, ClockOK
  <2>3. ASSUME NEW j \in DOMAIN store'
        PROVE  j \in DOMAIN made' /\ j \notin withdrawn /\ store'[j] = Due(made'[j])
    BY <1>1, <1>2 DEF AccessInv, StoreOK
  <2>. QED
    BY <1>1, <2>1, <2>2, <2>3 DEF StoreOK, Due, Expiry, Never
<1>. QED
  BY <1>1, <1>3, <1>4 DEF AccessInv, ClockOK

LEMMA RevokeInv == ASSUME AccessInv, NEW k \in Tokens, Revoke(k) PROVE AccessInv'
<1>1. /\ k \in DOMAIN store
      /\ store' = [j \in DOMAIN store \ {k} |-> store[j]]
      /\ withdrawn' = withdrawn \cup {k}
      /\ UNCHANGED <<now, made, slot>>
  BY DEF Revoke, Restrict
<1>2. \A r \in Slots : SlotOK(slot[r])' /\ Rightly(slot[r])'
  BY <1>1 DEF AccessInv, SlotOK, Rightly, Due, Expiry, Never
<1>3. StoreOK'
  BY <1>1 DEF AccessInv, StoreOK, Due, Expiry, Never
<1>. QED
  BY <1>1, <1>2, <1>3 DEF AccessInv, ClockOK

LEMMA AccessNextInv == AccessInv /\ [AccessNext]_accvars => AccessInv'
<1> SUFFICES ASSUME AccessInv, [AccessNext]_accvars PROVE AccessInv'
  OBVIOUS
<1>1. CASE UNCHANGED accvars
  BY <1>1 DEF accvars, AccessInv, ClockOK, StoreOK, SlotOK, Rightly, Due, Expiry, Never
<1>2. ASSUME NEW k \in Tokens, Revoke(k) \/ \E n \in Asked : CreateToken(k, n)
      PROVE  AccessInv'
  BY <1>2, RevokeInv, CreateTokenInv
<1>3. ASSUME NEW r \in Slots,
             \/ \E s \in Sources, k \in Tokens \cup {NoToken}, route \in Routes :
                   Arrive(r, s, k, route)
             \/ Limit(r) \/ Guard(r) \/ Lookup(r) \/ Check(r) \/ Answer(r)
      PROVE  AccessInv'
  BY <1>3, ArriveInv, LimitInv, GuardInv, LookupInv, CheckInv, AnswerInv
<1>. QED
  BY <1>1, <1>2, <1>3, TickInv DEF AccessNext

-----------------------------------------------------------------------------
\* Whatever positive expiry was asked for, and however lookup (token.go, Verify),
\* the expiry check and revocation interleave, no request that came after its token
\* had ended is served by a route that asks for one.
THEOREM NoneServedAfterEnd == AccessSpec => []EndedTokensRefused
<1>1. AccessInv => EndedTokensRefused
  BY DEF AccessInv, Rightly, EndedTokensRefused, Guarded
<1>. QED
  BY <1>1, AccessInitInv, AccessNextInv, PTL DEF AccessSpec

-----------------------------------------------------------------------------
(* The rate limiter. *)

Window == 0 .. rateLimitWindow

\* What was let through within the last so many instants is of the window last
\* begun, and if it reaches back before that one, of the one before, whose
\* first request it does not reach.
LetThroughOK(s) ==
    IF s \in DOMAIN buckets
    THEN LET n == buckets[s].count
             begun == buckets[s].resetAt - rateLimitWindow
         IN  /\ n \in 1 .. rateLimitRequests
             /\ begun \in 0 .. now
             /\ \A age \in Window :
                   admitted[s][age] <= IF age < now - begun THEN n - 1
                                       ELSE n + rateLimitRequests - 1
    ELSE \A age \in Window : admitted[s][age] = 0

RateInv == /\ slot = [r \in Slots |-> slot[r]]
           /\ \A r \in Slots : slot[r] # Empty => "source" \in DOMAIN slot[r] /\ slot[r].source \in Sources
           /\ now \in Nat
           /\ admitted \in [Sources -> [Window -> Nat]]
           /\ buckets = [s \in DOMAIN buckets |-> buckets[s]]
           /\ \A s \in DOMAIN buckets : buckets[s] \in [count : Nat, resetAt : Nat]
           /\ \A s \in Sources : LetThroughOK(s)

LEMMA RateInitInv == AccessInit => RateInv
BY RateAssumption DEF AccessInit, RateInv, LetThroughOK, Window

\* A source that is let through.
LEMMA AllowInv ==
    ASSUME RateInv, NEW s \in Sources, Allow(s), now' = now,
           admitted' = [admitted EXCEPT ![s] = [age \in 0 .. rateLimitWindow |-> @[age] + 1]]
    PROVE  /\ admitted' \in [Sources -> [Window -> Nat]]
           /\ buckets' = [x \in DOMAIN buckets' |-> buckets'[x]]
           /\ \A x \in DOMAIN buckets' : buckets'[x] \in [count : Nat, resetAt : Nat]
           /\ \A x \in Sources : LetThroughOK(x)'
<1>1. /\ admitted' \in [Sources -> [Window -> Nat]]
      /\ \A age \in Window : admitted'[s][age] = admitted[s][age] + 1
      /\ \A x \in Sources \ {s} : admitted'[x] = admitted[x]
  <2> DEFINE more == [age \in Window |-> admitted[s][age] + 1]
  <2>1. admitted' = [admitted EXCEPT ![s] = more]
    BY DEF Window
  <2>2. admitted \in [Sources -> [Window -> Nat]]
    BY DEF RateInv
  <2>3. more \in [Window -> Nat] /\ \A age \in Window : more[age] = admitted[s][age] + 1
    BY <2>2
  <2>. HIDE DEF more
  <2>. QED
    BY <2>1, <2>2, <2>3
<1>2. /\ now \in Nat /\ rateLimitWindow \in Nat /\ rateLimitRequests \in Nat \ {0}
      /\ LetThroughOK(s)
      /\ \A age \in Window : admitted[s][age] \in Nat
  BY RateAssumption DEF RateInv
<1>3. CASE ~Running(s) /\ Begin(s, 1)
  <2>1. /\ DOMAIN buckets' = DOMAIN buckets \cup {s}
        /\ buckets' = [x \in DOMAIN buckets' |-> buckets'[x]]
        /\ buckets'[s] = [count |-> 1, resetAt |-> now + rateLimitWindow]
        /\ \A x \in DOMAIN buckets \ {s} : buckets'[x] = buckets[x]
    BY <1>3 DEF Begin
  <2>2. \A age \in Window : admitted[s][age] <= rateLimitRequests - 1
    <3>1. CASE s \notin DOMAIN buckets
      BY <1>2, <3>1 DEF LetThroughOK
    <3>2. CASE s \in DOMAIN buckets
      <4>1. buckets[s].resetAt < now /\ buckets[s].resetAt \in Nat
        BY <1>2, <1>3, <3>2 DEF Running, RateInv
      <4>2. \A age \in Window : age < now - (buckets[s].resetAt - rateLimitWindow)
        BY <1>2, <4>1 DEF Window
      <4>. QED
        BY <1>2, <3>2, <4>2 DEF LetThroughOK
    <3>. QED
      BY <3>1, <3>2
  <2>3. LetThroughOK(s)'
    <3>1. /\ buckets'[s].count = 1 /\ buckets'[s].resetAt - rateLimitWindow = now
          /\ s \in DOMAIN buckets'
      BY <1>2, <2>1
    <3>2. \A age \in Window : ~(age < now - now) /\ admitted'[s][age] <= 1 + rateLimitRequests - 1
      BY <1>1, <1>2, <2>2 DEF Window
    <3>. QED
      BY <1>2, <3>1, <3>2 DEF LetThroughOK, Window
  <2>4. \A x \in Sources \ {s} : LetThroughOK(x)'
    BY <1>1, <2>1 DEF RateInv, LetThroughOK
  <2>5. \A x \in DOMAIN buckets' : buckets'[x] \in [count : Nat, resetAt : Nat]
    BY <1>2, <2>1 DEF RateInv
  <2>. QED
    BY <1>1, <2>1, <2>3, <2>4, <2>5
<1>4. CASE /\ Running(s) /\ buckets[s].count < rateLimitRequests
           /\ buckets' = [buckets EXCEPT ![s].count = @ + 1]
  <2>0. s \in DOMAIN buckets
    BY <1>4 DEF Running
  <2>1. /\ DOMAIN buckets' = DOMAIN buckets
        /\ buckets' = [x \in DOMAIN buckets' |-> buckets'[x]]
        /\ buckets'[s] \in [count : Nat, resetAt : Nat]
        /\ buckets'[s].count = buckets[s].count + 1
        /\ buckets'[s].resetAt = buckets[s].resetAt
        /\ \A x \in DOMAIN buckets \ {s} : buckets'[x] = buckets[x]
    <3> DEFINE b == [buckets[s] EXCEPT !.count = buckets[s].count + 1]
    <3>1. buckets' = [buckets EXCEPT ![s] = b]
      BY <1>4
    <3>2. buckets[s] \in [count : Nat, resetAt : Nat] /\ buckets = [x \in DOMAIN buckets |-> buckets[x]]
      BY <2>0 DEF RateInv
    <3>3. /\ b \in [count : Nat, resetAt : Nat]
          /\ b.count = buckets[s].count + 1 /\ b.resetAt = buckets[s].resetAt
      BY <3>2
    <3>. HIDE DEF b
    <3>. QED
      BY <2>0, <3>1, <3>2, <3>3
  <2>3. LetThroughOK(s)'
    <3>1. PICK n, begun : n = buckets[s].count /\ begun = buckets[s].resetAt - rateLimitWindow
      OBVIOUS
    <3>2. /\ n \in 1 .. rateLimitRequests /\ begun \in 0 .. now /\ n < rateLimitRequests
          /\ \A age \in Window : admitted[s][age] <= IF age < now - begun THEN n - 1
                                                     ELSE n + rateLimitRequests - 1
      BY <1>2, <1>4, <2>0, <3>1 DEF LetThroughOK
    <3>3. \A age \in Window : admitted'[s][age] <= IF age < now - begun THEN n + 1 - 1
                                                  ELSE n + 1 + rateLimitRequests - 1
      BY <1>1, <1>2, <3>2 DEF Window
    <3>4. /\ s \in DOMAIN buckets' /\ buckets'[s].count = n + 1
          /\ buckets'[s].resetAt - rateLimitWindow = begun
      BY <2>0, <2>1, <3>1
    <3>. QED
      BY <1>2, <3>2, <3>3, <3>4 DEF LetThroughOK
  <2>4. \A x \in Sources \ {s} : LetThroughOK(x)'
    BY <1>1, <2>1 DEF RateInv, LetThroughOK
  <2>5. \A x \in DOMAIN buckets' : buckets'[x] \in [count : Nat, resetAt : Nat]
    BY <2>1 DEF RateInv
  <2>. QED
    BY <1>1, <2>1, <2>3, <2>4, <2>5
<1>. QED
  BY <1>3, <1>4 DEF Allow

LEMMA RateTick == RateInv /\ Tick => RateInv'
<1> SUFFICES ASSUME RateInv, Tick PROVE RateInv'
  OBVIOUS
<1>1. /\ now \in Nat /\ now' = now + 1 /\ rateLimitWindow \in Nat /\ rateLimitRequests \in Nat \ {0}
      /\ UNCHANGED <<buckets, slot>>
  BY RateAssumption DEF RateInv, Tick
<1>2. /\ admitted' \in [Sources -> [Window -> Nat]]
      /\ \A s \in Sources : /\ admitted'[s][0] = 0
                            /\ \A age \in Window \ {0} : /\ age - 1 \in Window
                                                         /\ admitted'[s][age] = admitted[s][age - 1]
  BY <1>1 DEF RateInv, Tick, Window
<1>3. ASSUME NEW s \in Sources PROVE LetThroughOK(s)'
  <2>1. LetThroughOK(s)
    BY DEF RateInv
  <2>2. CASE s \notin DOMAIN buckets
    BY <1>1, <1>2, <2>1, <2>2 DEF LetThroughOK
  <2>3. CASE s \in DOMAIN buckets
    <3>1. PICK n, begun : n = buckets[s].count /\ begun = buckets[s].resetAt - rateLimitWindow
      OBVIOUS
    <3>2. /\ n \in 1 .. rateLimitRequests /\ begun \in 0 .. now
          /\ \A age \in Window : admitted[s][age] <= IF age < now - begun THEN n - 1
                                                     ELSE n + rateLimitRequests - 1
      BY <2>1, <2>3, <3>1 DEF LetThroughOK
    <3>3. ASSUME NEW age \in Window
          PROVE  admitted'[s][age] <= IF age < now' - begun THEN n - 1 ELSE n + rateLimitRequests - 1
      <4>1. CASE age = 0
        BY <1>1, <1>2, <3>2, <4>1
      <4>2. CASE age # 0
        BY <1>1, <1>2, <3>2, <4>2 DEF Window
      <4>. QED
        BY <4>1, <4>2
    <3>4. begun \in 0 .. now'
      BY <1>1, <3>2
    <3>. QED
      BY <1>1, <2>3, <3>1, <3>2, <3>3, <3>4 DEF LetThroughOK
  <2>. QED
    BY <2>2, <2>3
<1>. QED
  BY <1>1, <1>2, <1>3 DEF RateInv

LEMMA RateNextInv == RateInv /\ [AccessNext]_accvars => RateInv'
<1> SUFFICES ASSUME RateInv, [AccessNext]_accvars PROVE RateInv'
  OBVIOUS
<1>1. ASSUME UNCHANGED <<now, buckets, admitted>>, slot' = [r \in Slots |-> slot'[r]],
             \A r \in Slots : slot'[r] # Empty => "source" \in DOMAIN slot'[r] /\ slot'[r].source \in Sources
      PROVE  RateInv'
  BY <1>1 DEF RateInv, LetThroughOK
<1>2. CASE UNCHANGED accvars
  BY <1>1, <1>2 DEF accvars, RateInv
<1>3. ASSUME NEW k \in Tokens, Revoke(k) \/ \E n \in Asked : CreateToken(k, n)
      PROVE  RateInv'
  BY <1>1, <1>3 DEF Revoke, CreateToken, RateInv
<1>4. ASSUME NEW r \in Slots, NEW s \in Sources, NEW k, NEW route, Arrive(r, s, k, route)
      PROVE  RateInv'
  BY <1>1, <1>4 DEF Arrive, RateInv
<1>5. ASSUME NEW r \in Slots, slot[r] # Empty, NEW at, Move(r, at)
      PROVE  /\ slot' = [x \in Slots |-> slot'[x]]
             /\ \A x \in Slots : slot'[x] # Empty => "source" \in DOMAIN slot'[x] /\ slot'[x].source \in Sources
  BY <1>5 DEF Move, RateInv
<1>6. ASSUME NEW r \in Slots, Limit(r) PROVE RateInv'
  <2>1. slot[r] # Empty /\ now' = now /\ \E at : Move(r, at)
    BY <1>6 DEF Limit, Empty
  <2>2. slot[r].source \in Sources
    BY <2>1 DEF RateInv
  <2>3. CASE /\ Allow(slot[r].source)
             /\ admitted' = [admitted EXCEPT ![slot[r].source] =
                               [age \in 0 .. rateLimitWindow |-> @[age] + 1]]
    <3>1. PICK s \in Sources : s = slot[r].source
      BY <2>2
    <3>. QED
      BY <1>5, <2>1, <2>3, <3>1, AllowInv DEF RateInv
  <2>4. CASE UNCHANGED <<buckets, admitted>>
    BY <1>1, <1>5, <2>1, <2>4
  <2>. QED
    BY <1>6, <2>3, <2>4 DEF Limit
<1>7. ASSUME NEW r \in Slots, Guard(r) \/ Check(r) PROVE RateInv'
  <2>1. slot[r] # Empty /\ UNCHANGED <<now, buckets, admitted>> /\ \E at : Move(r, at)
    BY <1>7 DEF Guard, Check, Empty
  <2>. QED
    BY <1>1, <1>5, <2>1
<1>8. ASSUME NEW r \in Slots, Lookup(r) PROVE RateInv'
  <2>1. slot[r] # Empty /\ UNCHANGED <<now, buckets, admitted>>
    BY <1>8 DEF Lookup, Reached, Empty
  <2>2. CASE \E at : Move(r, at)
    BY <1>1, <1>5, <2>1, <2>2
  <2>3. CASE slot' = [slot EXCEPT ![r] = [f \in DOMAIN @ \cup {"expires"} |->
                                IF f = "at" THEN "found"
                                ELSE IF f = "expires" THEN store[slot[r].token] ELSE @[f]]]
    <3>1. /\ slot' = [x \in Slots |-> slot'[x]] /\ \A x \in Slots \ {r} : slot'[x] = slot[x]
          /\ slot'[r].source = slot[r].source /\ DOMAIN slot'[r] = DOMAIN slot[r] \cup {"expires"}
      BY <2>1, <2>3 DEF RateInv
    <3>. QED
      BY <1>1, <2>1, <3>1 DEF RateInv
  <2>. QED
    BY <1>8, <2>2, <2>3 DEF Lookup
<1>9. ASSUME NEW r \in Slots, Answer(r) PROVE RateInv'
  <2>1. /\ UNCHANGED <<now, buckets, admitted>>
        /\ slot' = [slot EXCEPT ![r] = Empty]
    BY <1>9 DEF Answer
  <2>. QED
    BY <1>1, <2>1 DEF RateInv
<1>. QED
  BY <1>2, <1>3, <1>4, <1>6, <1>7, <1>8, <1>9, RateTick DEF AccessNext

\* A source without a token is let through less than twice the limit within any
\* stretch as long as the window, for every limit, window and number of
\* sources: Allow (middleware.go) begins a window with the first request after
\* the last one, not at fixed times.
THEOREM LimitHolds == AccessSpec => []RateLimited
<1>1. RateInv => RateLimited
  <2> SUFFICES ASSUME RateInv, NEW s \in Sources
               PROVE  admitted[s][rateLimitWindow] < 2 * rateLimitRequests
    BY DEF RateLimited
  <2>1. rateLimitWindow \in Window /\ LetThroughOK(s) /\ admitted[s][rateLimitWindow] \in Nat
    BY RateAssumption DEF Window, RateInv
  <2>. QED
    BY <2>1, RateAssumption DEF LetThroughOK
<1>. QED
  BY <1>1, RateInitInv, RateNextInv, PTL DEF AccessSpec

-----------------------------------------------------------------------------
(* The server process: a server alone on its port keeps its socket file,   *)
(* and registry updates that do not overlap keep each other's entries.     *)


RunOf(p) == [proc |-> p, is |-> "run"]
StopOf(p) == [proc |-> p, is |-> "stopper"]

LifeTypeInv == /\ run = [p \in Procs |-> run[p]]
           /\ stopper = [p \in Procs |-> stopper[p]]
           /\ port \in [Procs -> Ports]
           /\ path = [p \in Procs |-> path[p]]
           /\ unixOpen = [p \in Procs |-> unixOpen[p]]
           /\ sock \in [Ports -> Procs \cup {NoProc}]
           /\ copy = [t \in Threads \cup {Lister} |-> copy[t]]

LEMMA LifeTypeInit == LifeInit => LifeTypeInv
BY AssignmentsAssumption DEF LifeInit, LifeTypeInv

LEMMA ThreadsOf ==
    ASSUME NEW p \in Procs
    PROVE  /\ RunOf(p) \in Threads /\ StopOf(p) \in Threads /\ RunOf(p) # StopOf(p)
           /\ RunOf(p).proc = p /\ StopOf(p).proc = p
           /\ RunOf(p) # Lister /\ StopOf(p) # Lister
           /\ \A q \in Procs \ {p} : /\ RunOf(p) \notin {RunOf(q), StopOf(q)}
                                     /\ StopOf(p) \notin {RunOf(q), StopOf(q)}
BY NoProcAssumption DEF Threads, RunOf, StopOf, Lister

\* A step of one process, and what else it may change.
LEMMA LifeTypeNext == LifeTypeInv /\ [LifeNext]_lifevars => LifeTypeInv'
<1> SUFFICES ASSUME LifeTypeInv, [LifeNext]_lifevars PROVE LifeTypeInv'
  OBVIOUS
<1>1. ASSUME NEW p \in Procs, Start(p) \/ Bind(p) \/ Make(p) \/ Listen(p) \/ Wakes(p) \/ RunShuts(p)
                              \/ RunCleans(p) \/ Signal(p)
      PROVE  LifeTypeInv'
  BY <1>1 DEF LifeTypeInv, Start, Bind, Make, Listen, Wakes, RunShuts, RunCleans, Signal, Goto, Shutdown,
     CleanSocket, shared
<1>2. ASSUME NEW p \in Procs, RegisterReads(p) \/ RegisterWrites(p) \/ DeregisterReads(p)
      PROVE  LifeTypeInv'
  BY <1>2 DEF LifeTypeInv, RegisterReads, RegisterWrites, DeregisterReads, Goto, ReadRegistry,
     WriteRegistry, Register
<1>3. ASSUME NEW p \in Procs, Stop(p) \/ StopShuts(p) \/ StopCleans(p) \/ StopReads(p) \/ StopWrites(p)
      PROVE  LifeTypeInv'
  BY <1>3 DEF LifeTypeInv, Stop, StopShuts, StopCleans, StopReads, StopWrites, StopStep, Shutdown,
     CleanSocket, ReadRegistry, WriteRegistry, shared
<1>4. ASSUME NEW p \in Procs, DeregisterWrites(p) \/ Kill(p)
      PROVE  LifeTypeInv'
  BY <1>4 DEF LifeTypeInv, DeregisterWrites, Kill, Ends, Goto, shared
<1>5. CASE ListReads \/ ListPrunes
  BY <1>5 DEF LifeTypeInv, ListReads, ListPrunes, ReadRegistry, WriteRegistry
<1>6. CASE UNCHANGED lifevars
  BY <1>6 DEF LifeTypeInv, lifevars, shared
<1>. QED
  BY <1>1, <1>2, <1>3, <1>4, <1>5, <1>6 DEF LifeNext, Runs, Stops
-----------------------------------------------------------------------------
(* The socket file. *)

\* Two that run on one port have met.
Met == \A p, q \in Procs : (p # q /\ port[p] = port[q] /\ Alive(p) /\ Alive(q)) => port[p] \in contested

Serves == {"make", "register", "registering", "select", "shutdown", "cleanup"}
Cleaned == {"deregister", "deregistering", "gone"}
BeforeClean == {"none", "shutdown", "cleanup"}

\* A server on its own owns the socket file from Bind to the first cleanup.
SocketOK(p) == port[p] \notin contested =>
                  /\ run[p] = "bind" => sock[port[p]] = NoProc
                  /\ run[p] \in Serves => path[p]
                  /\ (run[p] \in Serves /\ stopper[p] \in BeforeClean) => sock[port[p]] = p /\ unixOpen[p]
                  /\ run[p] \in Cleaned => sock[port[p]] # p

SocketInv == Met /\ \A p \in Procs : SocketOK(p)

LEMMA MetNext == LifeTypeInv /\ Met /\ [LifeNext]_lifevars => Met'
<1> SUFFICES ASSUME LifeTypeInv, Met, [LifeNext]_lifevars PROVE Met'
  OBVIOUS
<1>0. port' = port /\ contested \subseteq contested'
  BY DEF LifeNext, lifevars, shared, Runs, Stops, Start, Bind, Make, RegisterReads, RegisterWrites,
     Listen, Wakes, RunShuts, RunCleans, DeregisterReads, DeregisterWrites, Ends, Stop, StopShuts,
     StopCleans, StopReads, StopWrites, Signal, Kill, ListReads, ListPrunes, ReadRegistry,
     WriteRegistry, Register, CleanSocket
<1>1. ASSUME NEW p \in Procs, Start(p) PROVE Met'
  <2>1. /\ run'[p] = "bind" /\ \A q \in Procs \ {p} : run'[q] = run[q]
        /\ \A q \in Procs : (Alive(q) /\ port[q] = port[p]) => port[p] \in contested'
    BY <1>1 DEF Start, Goto, LifeTypeInv
  <2>. QED
    BY <1>0, <2>1 DEF Met, Alive
<1>2. ASSUME \A p \in Procs : Alive(p)' => Alive(p) PROVE Met'
  BY <1>0, <1>2 DEF Met, Alive
<1>3. ASSUME NEW p \in Procs, Runs(p) \/ Kill(p) PROVE Met'
  <2>1. Alive(p) /\ \A q \in Procs \ {p} : run'[q] = run[q]
    BY <1>3 DEF Runs, Kill, Ends, LifeTypeInv, Goto, Alive, Bind, Make, RegisterReads, RegisterWrites,
       Listen, Wakes, RunShuts, RunCleans, DeregisterReads, DeregisterWrites
  <2>. QED
    BY <1>2, <2>1 DEF Alive
<1>4. ASSUME run' = run PROVE Met'
  BY <1>2, <1>4 DEF Alive
<1>5. ASSUME NEW p \in Procs, Stop(p) \/ Stops(p) \/ Signal(p) PROVE run' = run
  BY <1>5 DEF Stop, Stops, Signal, StopShuts, StopCleans, StopReads, StopWrites
<1>6. ASSUME ListReads \/ ListPrunes \/ UNCHANGED lifevars PROVE run' = run
  BY <1>6 DEF ListReads, ListPrunes, lifevars
<1>. QED
  BY <1>1, <1>3, <1>4, <1>5, <1>6 DEF LifeNext

\* A step that leaves the socket files alone, and moves no process past a cleanup.
LEMMA SocketStays ==
    ASSUME LifeTypeInv, SocketInv, NEW p \in Procs,
           UNCHANGED <<port, sock, contested, unixOpen, path>>,
           \A q \in Procs \ {p} : run'[q] = run[q] /\ stopper'[q] = stopper[q],
           \/ run'[p] = run[p]
           \/ run[p] \in Serves /\ run'[p] \in Serves
           \/ run[p] \in Cleaned /\ run'[p] \in Cleaned,
           \/ stopper'[p] = stopper[p]
           \/ stopper[p] \in BeforeClean
           \/ stopper'[p] \notin BeforeClean
    PROVE  \A q \in Procs : SocketOK(q)'
<1>1. \A q \in Procs \ {p} : SocketOK(q)'
  BY DEF SocketInv, SocketOK
<1>2. SocketOK(p)'
  BY DEF SocketInv, SocketOK, Serves, Cleaned, BeforeClean
<1>. QED
  BY <1>1, <1>2

LEMMA SocketNext == LifeTypeInv /\ SocketInv /\ [LifeNext]_lifevars => \A p \in Procs : SocketOK(p)'
<1> SUFFICES ASSUME LifeTypeInv, SocketInv, [LifeNext]_lifevars PROVE \A p \in Procs : SocketOK(p)'
  OBVIOUS
<1>n. \A p \in Procs : p # NoProc /\ port[p] \in Ports
  BY NoProcAssumption DEF LifeTypeInv
<1>1. ASSUME NEW p \in Procs, Start(p) PROVE \A q \in Procs : SocketOK(q)'
  <2>1. /\ run'[p] = "bind" /\ \A q \in Procs \ {p} : run'[q] = run[q]
        /\ sock'[port[p]] = NoProc /\ \A m \in Ports \ {port[p]} : sock'[m] = sock[m]
        /\ UNCHANGED <<stopper, port, path, unixOpen>> /\ contested \subseteq contested'
        /\ \A q \in Procs : (Alive(q) /\ port[q] = port[p]) => port[p] \in contested'
    BY <1>1, <1>n DEF Start, Goto, LifeTypeInv
  <2>2. SocketOK(p)'
    BY <2>1 DEF SocketOK, Serves, Cleaned
  <2>3. ASSUME NEW q \in Procs \ {p} PROVE SocketOK(q)'
    <3>1. CASE port[q] # port[p]
      BY <1>n, <2>1, <3>1 DEF SocketInv, SocketOK
    <3>2. CASE port[q] = port[p] /\ Alive(q)
      BY <2>1, <3>2 DEF SocketOK
    <3>3. CASE port[q] = port[p] /\ ~Alive(q)
      BY <1>n, <2>1, <3>3 DEF SocketOK, Alive, Serves
    <3>. QED
      BY <3>1, <3>2, <3>3
  <2>. QED
    BY <2>2, <2>3
<1>2. ASSUME NEW p \in Procs, Bind(p) PROVE \A q \in Procs : SocketOK(q)'
  <2>1. /\ run[p] = "bind" /\ run'[p] = "make" /\ \A q \in Procs \ {p} : run'[q] = run[q]
        /\ UNCHANGED <<stopper, port, contested>>
    BY <1>2 DEF Bind, Goto, LifeTypeInv
  <2>2. CASE sock[port[p]] = NoProc
    <3>1. /\ sock'[port[p]] = p /\ \A m \in Ports \ {port[p]} : sock'[m] = sock[m]
          /\ path'[p] = TRUE /\ unixOpen'[p] = TRUE
          /\ \A q \in Procs \ {p} : path'[q] = path[q] /\ unixOpen'[q] = unixOpen[q]
      BY <1>2, <1>n, <2>2 DEF Bind, LifeTypeInv
    <3>2. SocketOK(p)'
      BY <2>1, <3>1 DEF SocketOK, Serves, Cleaned
    <3>3. ASSUME NEW q \in Procs \ {p} PROVE SocketOK(q)'
      <4>1. CASE port[q] # port[p]
        BY <1>n, <2>1, <3>1, <4>1 DEF SocketInv, SocketOK
      <4>2. CASE port[q] = port[p] /\ Alive(q)
        BY <2>1, <4>2 DEF SocketInv, Met, SocketOK, Alive
      <4>3. CASE port[q] = port[p] /\ ~Alive(q)
        BY <1>n, <2>1, <3>1, <4>3 DEF SocketOK, Alive, Serves
      <4>. QED
        BY <4>1, <4>2, <4>3
    <3>. QED
      BY <3>2, <3>3
  <2>3. CASE sock[port[p]] # NoProc
    <3>1. UNCHANGED <<sock, path, unixOpen>>
      BY <1>2, <2>3 DEF Bind
    <3>2. port[p] \in contested
      BY <2>1, <2>3 DEF SocketInv, SocketOK
    <3>. QED
      BY <2>1, <3>1, <3>2 DEF SocketInv, SocketOK
  <2>. QED
    BY <2>2, <2>3
<1>3. ASSUME NEW p \in Procs, Alive(p), CleanSocket(p), UNCHANGED <<port, path>>,
             \A q \in Procs \ {p} : run'[q] = run[q] /\ stopper'[q] = stopper[q],
             \/ run[p] = "cleanup" /\ run'[p] = "deregister"
             \/ stopper'[p] = "deregister" /\ run'[p] = run[p]
      PROVE  \A q \in Procs : SocketOK(q)'
  <2>1. /\ contested' = contested /\ (path[p] => sock'[port[p]] = NoProc)
        /\ \A m \in Ports : sock'[m] = sock[m] \/ (m = port[p] /\ sock'[m] = NoProc)
        /\ \A q \in Procs \ {p} : unixOpen'[q] = unixOpen[q]
    BY <1>3, <1>n DEF CleanSocket, LifeTypeInv
  <2>2. SocketOK(p)'
    BY <1>3, <1>n, <2>1 DEF SocketInv, SocketOK, Serves, Cleaned, BeforeClean
  <2>3. ASSUME NEW q \in Procs \ {p} PROVE SocketOK(q)'
    <3>1. CASE port[q] # port[p]
      BY <1>3, <1>n, <2>1, <3>1 DEF SocketInv, SocketOK
    <3>2. CASE port[q] = port[p] /\ Alive(q)
      BY <1>3, <2>1, <3>2 DEF SocketInv, Met, SocketOK
    <3>3. CASE port[q] = port[p] /\ ~Alive(q)
      BY <1>3, <1>n, <2>1, <3>3 DEF SocketInv, SocketOK, Alive, Serves
    <3>. QED
      BY <3>1, <3>2, <3>3
  <2>. QED
    BY <2>2, <2>3
<1>4. ASSUME NEW p \in Procs, RunCleans(p) \/ StopCleans(p) PROVE \A q \in Procs : SocketOK(q)'
  BY <1>3, <1>4 DEF RunCleans, StopCleans, StopStep, Goto, Alive, LifeTypeInv
<1>5. ASSUME NEW p \in Procs, Make(p) \/ RegisterReads(p) \/ RegisterWrites(p) \/ Listen(p)
                              \/ Wakes(p) \/ RunShuts(p) \/ DeregisterReads(p)
      PROVE  \A q \in Procs : SocketOK(q)'
  <2>1. /\ UNCHANGED <<port, sock, contested, unixOpen, path, stopper>>
        /\ \A q \in Procs \ {p} : run'[q] = run[q]
        /\ \/ run'[p] = run[p]
           \/ run[p] \in Serves /\ run'[p] \in Serves
           \/ run[p] \in Cleaned /\ run'[p] \in Cleaned
    BY <1>5 DEF Make, RegisterReads, RegisterWrites, Listen, Wakes, RunShuts, DeregisterReads, Goto,
       ReadRegistry, WriteRegistry, Register, shared, LifeTypeInv, Serves, Cleaned
  <2>. QED
    BY <2>1, SocketStays
<1>6. ASSUME NEW p \in Procs, Stop(p) \/ StopShuts(p) \/ StopReads(p) \/ StopWrites(p)
      PROVE  \A q \in Procs : SocketOK(q)'
  <2>1. /\ UNCHANGED <<port, sock, contested, unixOpen, path, run>>
        /\ \A q \in Procs \ {p} : stopper'[q] = stopper[q]
        /\ stopper[p] \in BeforeClean \/ stopper'[p] \notin BeforeClean
    BY <1>6 DEF Stop, StopShuts, StopReads, StopWrites, StopStep, ReadRegistry, WriteRegistry, shared,
       LifeTypeInv, BeforeClean
  <2>. QED
    BY <2>1, SocketStays
<1>7. ASSUME NEW p \in Procs, DeregisterWrites(p) \/ Kill(p) PROVE \A q \in Procs : SocketOK(q)'
  <2>1. /\ UNCHANGED <<port, sock, contested>>
        /\ \A q \in Procs \ {p} : /\ run'[q] = run[q] /\ stopper'[q] = stopper[q]
                                  /\ unixOpen'[q] = unixOpen[q] /\ path'[q] = path[q]
        /\ run'[p] = "killed" \/ (run[p] = "deregistering" /\ run'[p] = "gone")
    BY <1>7 DEF DeregisterWrites, Kill, Ends, Goto, shared, LifeTypeInv
  <2>. QED
    BY <2>1 DEF SocketInv, SocketOK, Serves, Cleaned
<1>8. ASSUME UNCHANGED <<run, stopper, port, path, unixOpen, sock, contested>>
      PROVE  \A q \in Procs : SocketOK(q)'
  BY <1>8 DEF SocketInv, SocketOK
<1>9. ASSUME NEW p \in Procs, Signal(p) PROVE \A q \in Procs : SocketOK(q)'
  BY <1>8, <1>9 DEF Signal, shared
<1>10. CASE ListReads \/ ListPrunes \/ UNCHANGED lifevars
  BY <1>8, <1>10 DEF ListReads, ListPrunes, ReadRegistry, WriteRegistry, lifevars, shared
<1>. QED
  BY <1>1, <1>2, <1>4, <1>5, <1>6, <1>7, <1>9, <1>10 DEF LifeNext, Runs, Stops

\* A server that no other meets on its port is reached by its socket while it
\* serves, whatever earlier servers left behind (server.go, startUnixListener),
\* and takes the file along when it ends (cleanup).
THEOREM ServersAreReached == LifeSpec => []Reachable
<1>1. LifeInit => SocketInv
  BY DEF LifeInit, SocketInv, Met, SocketOK, Alive, Serves, Cleaned
<1>2. LifeTypeInv /\ SocketInv /\ [LifeNext]_lifevars => SocketInv'
  BY MetNext, SocketNext DEF SocketInv
<1>3. SocketInv => Reachable
  BY DEF SocketInv, SocketOK, Reachable, Undisturbed, EndedAlone, Serves, Cleaned, BeforeClean
<1>. QED
  BY <1>1, <1>2, <1>3, LifeTypeInit, LifeTypeNext, PTL DEF LifeSpec
-----------------------------------------------------------------------------
(* The registry. *)

\* While no two updates have overlapped, one is under way at most, and what it
\* has read is what the file holds.
OneUpdate == ~raced => \A t \in DOMAIN copy : copy[t].busy =>
                          /\ copy[t].read = registry
                          /\ \A u \in DOMAIN copy : copy[u].busy => u = t

Updating == \A p \in Procs :
               /\ run[p] \in {"registering", "deregistering"} => copy[RunOf(p)].busy
               /\ stopper[p] = "deregistering" => copy[StopOf(p)].busy

Serving == {"select", "shutdown", "cleanup", "deregister", "deregistering"}
NotYet == {"none", "shutdown", "cleanup", "deregister", "deregistering"}

\* A server on its own is in the file from its registering to its deregistering.
EntryOK(p) == port[p] \notin contested =>
                 /\ (run[p] \in Serving /\ stopper[p] \in NotYet) => Entry(p) \in registry
                 /\ run[p] = "gone" => Entry(p) \notin registry

ListInv == OneUpdate /\ Updating /\ (~raced => \A p \in Procs : EntryOK(p))

\* The three ways a step may deal with the file.
ReadingBy(t) == t \in DOMAIN copy /\ ReadRegistry(t)
WritingBy(t, entries) == /\ t \in DOMAIN copy /\ copy[t].busy /\ WriteRegistry(t, entries)

LEMMA ReadingOne ==
    ASSUME LifeTypeInv, OneUpdate, NEW t, ReadingBy(t)
    PROVE  /\ OneUpdate' /\ (~raced' => ~raced) /\ registry' = registry /\ contested' = contested
           /\ DOMAIN copy' = DOMAIN copy /\ copy'[t].busy
           /\ \A u \in DOMAIN copy \ {t} : copy'[u] = copy[u]
<1>1. /\ DOMAIN copy' = DOMAIN copy /\ copy'[t] = [busy |-> TRUE, read |-> registry]
      /\ \A u \in DOMAIN copy \ {t} : copy'[u] = copy[u]
      /\ registry' = registry /\ contested' = contested
      /\ ~raced' => ~raced /\ \A u \in DOMAIN copy : ~copy[u].busy
  BY DEF ReadingBy, ReadRegistry, LifeTypeInv
<1>2. OneUpdate'
  BY <1>1 DEF OneUpdate
<1>. QED
  BY <1>1, <1>2

LEMMA WritingOne ==
    ASSUME LifeTypeInv, OneUpdate, NEW t, NEW entries, WritingBy(t, entries)
    PROVE  /\ OneUpdate' /\ raced' = raced /\ registry' = entries /\ contested' = contested
           /\ ~raced => copy[t].read = registry
           /\ DOMAIN copy' = DOMAIN copy
           /\ \A u \in DOMAIN copy \ {t} : copy'[u] = copy[u]
<1>1. /\ DOMAIN copy' = DOMAIN copy /\ ~copy'[t].busy
      /\ \A u \in DOMAIN copy \ {t} : copy'[u] = copy[u]
      /\ registry' = entries /\ contested' = contested /\ raced' = raced /\ copy[t].busy
  BY DEF WritingBy, WriteRegistry, LifeTypeInv, Idle
<1>2. ~raced => copy[t].read = registry /\ \A u \in DOMAIN copy : copy[u].busy => u = t
  BY <1>1 DEF WritingBy, OneUpdate
<1>3. OneUpdate'
  BY <1>1, <1>2 DEF OneUpdate
<1>. QED
  BY <1>1, <1>2, <1>3

\* A step of a process that leaves the file alone, and does not take it past a
\* registering or deregistering.
OnlyOf(p) == /\ \A q \in Procs \ {p} : run'[q] = run[q] /\ stopper'[q] = stopper[q]
             /\ \/ run'[p] = run[p]
                \/ run[p] \in Serving /\ run'[p] \in Serving
                \/ run'[p] \notin Serving \cup {"gone"}
             /\ \/ stopper'[p] = stopper[p]
                \/ stopper[p] \in NotYet
                \/ run'[p] \notin Serving

LEMMA EntriesStay ==
    ASSUME LifeTypeInv, ListInv, NEW p \in Procs, OnlyOf(p),
           registry' = registry, port' = port, contested \subseteq contested', ~raced' => ~raced
    PROVE  ~raced' => \A q \in Procs : EntryOK(q)'
<1> SUFFICES ASSUME ~raced', NEW q \in Procs PROVE EntryOK(q)'
  OBVIOUS
<1>1. EntryOK(q)
  BY DEF ListInv
<1>2. CASE q # p
  BY <1>1, <1>2 DEF OnlyOf, EntryOK, Entry
<1>3. CASE q = p
  BY <1>1, <1>3 DEF OnlyOf, EntryOK, Entry, Serving, NotYet
<1>. QED
  BY <1>2, <1>3

\* A process that takes its port out of the file, or sets its entry there.
LEMMA OthersKeepEntries ==
    ASSUME LifeTypeInv, Met, ListInv, ~raced, NEW p \in Procs, Alive(p),
           \A q \in Procs \ {p} : run'[q] = run[q] /\ stopper'[q] = stopper[q],
           OtherPorts(registry, port[p]) \subseteq registry',
           registry' \subseteq registry \cup {Entry(p)}, port' = port, contested' = contested
    PROVE  \A q \in Procs \ {p} : EntryOK(q)'
<1> SUFFICES ASSUME NEW q \in Procs \ {p}, port[q] \notin contested PROVE EntryOK(q)'
  BY DEF EntryOK
<1>0. EntryOK(q) /\ Entry(q) # Entry(p) /\ Entry(q)' = Entry(q)
  BY DEF ListInv, Entry
<1>1. CASE port[q] = port[p]
  <2>1. ~Alive(q)
    BY <1>1 DEF Met
  <2>. QED
    BY <1>0, <2>1 DEF EntryOK, Alive, Serving
<1>2. CASE port[q] # port[p]
  <2>1. Entry(q) \in registry => Entry(q) \in registry'
    BY <1>2 DEF OtherPorts, Entry
  <2>. QED
    BY <1>0, <2>1 DEF EntryOK
<1>. QED
  BY <1>1, <1>2

LEMMA ListNext == LifeTypeInv /\ Met /\ ListInv /\ [LifeNext]_lifevars => ListInv'
<1> SUFFICES ASSUME LifeTypeInv, Met, ListInv, [LifeNext]_lifevars PROVE ListInv'
  OBVIOUS
<1>c. /\ DOMAIN copy = Threads \cup {Lister}
      /\ \A p \in Procs : RunOf(p) \in DOMAIN copy /\ StopOf(p) \in DOMAIN copy
  BY ThreadsOf DEF LifeTypeInv
<1>1. ASSUME NEW p \in Procs, UNCHANGED <<copy, registry, raced, port>>, contested \subseteq contested',
             OnlyOf(p),
             run'[p] \in {"registering", "deregistering"} => run'[p] = run[p],
             stopper'[p] = "deregistering" => stopper'[p] = stopper[p]
      PROVE  ListInv'
  <2>1. OneUpdate'
    BY <1>1 DEF ListInv, OneUpdate
  <2>2. Updating'
    BY <1>1 DEF ListInv, Updating, OnlyOf
  <2>. QED
    BY <1>1, <2>1, <2>2, EntriesStay DEF ListInv
<1>2. ASSUME NEW p \in Procs, Start(p) \/ Bind(p) \/ Make(p) \/ Listen(p) \/ Wakes(p) \/ RunShuts(p)
                              \/ RunCleans(p) \/ Signal(p)
      PROVE  ListInv'
  <2>1. /\ UNCHANGED <<copy, registry, raced, port, stopper>> /\ contested \subseteq contested'
        /\ \A q \in Procs \ {p} : run'[q] = run[q]
        /\ \/ run'[p] = run[p]
           \/ run[p] \in Serving /\ run'[p] \in Serving
           \/ run'[p] \notin Serving \cup {"gone"}
        /\ run'[p] \in {"registering", "deregistering"} => run'[p] = run[p]
    BY <1>2 DEF Start, Bind, Make, Listen, Wakes, RunShuts, RunCleans, Signal, Goto, CleanSocket,
       shared, LifeTypeInv, Serving
  <2>. QED
    BY <1>1, <2>1 DEF OnlyOf
<1>3. ASSUME NEW p \in Procs, Stop(p) \/ StopShuts(p) \/ StopCleans(p) PROVE ListInv'
  <2>1. /\ UNCHANGED <<copy, registry, raced, port, run, contested>>
        /\ \A q \in Procs \ {p} : stopper'[q] = stopper[q]
        /\ stopper[p] \in NotYet /\ stopper'[p] # "deregistering"
    BY <1>3 DEF Stop, StopShuts, StopCleans, StopStep, CleanSocket, shared, LifeTypeInv, NotYet
  <2>. QED
    BY <1>1, <2>1 DEF OnlyOf
<1>4. ASSUME NEW p \in Procs, RegisterReads(p) \/ DeregisterReads(p) PROVE ListInv'
  <2>1. /\ ReadingBy(RunOf(p)) /\ UNCHANGED <<port, stopper>>
        /\ \A q \in Procs \ {p} : run'[q] = run[q]
        /\ \/ run[p] \in Serving /\ run'[p] \in Serving
           \/ run'[p] \notin Serving \cup {"gone"}
    BY <1>4, <1>c DEF RegisterReads, DeregisterReads, Goto, LifeTypeInv, ReadingBy, RunOf, Serving
  <2>2. Updating'
    BY <2>1, <1>c, ReadingOne, ThreadsOf DEF ListInv, Updating
  <2>3. OnlyOf(p)
    BY <2>1 DEF OnlyOf
  <2>. QED
    BY <2>1, <2>2, <2>3, ReadingOne, EntriesStay DEF ListInv
<1>5. ASSUME NEW p \in Procs, StopReads(p) PROVE ListInv'
  <2>1. /\ ReadingBy(StopOf(p)) /\ UNCHANGED <<port, run>>
        /\ \A q \in Procs \ {p} : stopper'[q] = stopper[q]
        /\ stopper[p] \in NotYet
    BY <1>5, <1>c DEF StopReads, StopStep, LifeTypeInv, ReadingBy, StopOf, NotYet
  <2>2. Updating'
    BY <2>1, <1>c, ReadingOne, ThreadsOf DEF ListInv, Updating
  <2>3. OnlyOf(p)
    BY <2>1 DEF OnlyOf
  <2>. QED
    BY <2>1, <2>2, <2>3, ReadingOne, EntriesStay DEF ListInv
<1>6. ASSUME NEW p \in Procs, RegisterWrites(p) PROVE ListInv'
  <2>. PICK t, entries : t = RunOf(p) /\ entries = OtherPorts(copy[t].read, port[p]) \cup {Entry(p)}
    OBVIOUS
  <2>1. /\ run[p] = "registering" /\ run'[p] = "select" /\ WriteRegistry(t, entries)
        /\ \A q \in Procs \ {p} : run'[q] = run[q]
        /\ UNCHANGED <<port, stopper>>
    BY <1>6 DEF RegisterWrites, Register, Goto, LifeTypeInv, RunOf
  <2>2. WritingBy(t, entries)
    BY <1>c, <2>1 DEF WritingBy, ListInv, Updating
  <2>3. Updating'
    BY <1>c, <2>1, <2>2, WritingOne, ThreadsOf DEF ListInv, Updating
  <2>4. ASSUME ~raced' PROVE \A q \in Procs : EntryOK(q)'
    <3>1. /\ ~raced /\ contested' = contested
          /\ registry' = OtherPorts(registry, port[p]) \cup {Entry(p)}
      BY <2>2, <2>4, WritingOne DEF ListInv
    <3>2. \A q \in Procs \ {p} : EntryOK(q)'
      BY <2>1, <3>1, OthersKeepEntries DEF Alive, OtherPorts
    <3>3. EntryOK(p)'
      BY <2>1, <3>1 DEF EntryOK, Entry
    <3>. QED
      BY <3>2, <3>3
  <2>. QED
    BY <2>2, <2>3, <2>4, WritingOne DEF ListInv
<1>7. ASSUME NEW p \in Procs, StopWrites(p) PROVE ListInv'
  <2>. PICK t, entries : t = StopOf(p) /\ entries = OtherPorts(copy[t].read, port[p])
    OBVIOUS
  <2>1. /\ Alive(p) /\ stopper[p] = "deregistering" /\ stopper'[p] = "done" /\ WriteRegistry(t, entries)
        /\ \A q \in Procs \ {p} : stopper'[q] = stopper[q]
        /\ UNCHANGED <<port, run>>
    BY <1>7 DEF StopWrites, StopStep, Deregistered, LifeTypeInv, StopOf
  <2>2. WritingBy(t, entries)
    BY <1>c, <2>1 DEF WritingBy, ListInv, Updating
  <2>3. Updating'
    BY <1>c, <2>1, <2>2, WritingOne, ThreadsOf DEF ListInv, Updating
  <2>4. ASSUME ~raced' PROVE \A q \in Procs : EntryOK(q)'
    <3>1. /\ ~raced /\ contested' = contested
          /\ registry' = OtherPorts(registry, port[p])
      BY <2>2, <2>4, WritingOne DEF ListInv
    <3>2. \A q \in Procs \ {p} : EntryOK(q)'
      BY <2>1, <3>1, OthersKeepEntries DEF OtherPorts
    <3>3. EntryOK(p)'
      BY <2>1 DEF EntryOK, NotYet, Alive
    <3>. QED
      BY <3>2, <3>3
  <2>. QED
    BY <2>2, <2>3, <2>4, WritingOne DEF ListInv
<1>8. ASSUME NEW p \in Procs, DeregisterWrites(p) PROVE ListInv'
  <2>. PICK entries : entries = OtherPorts(copy[RunOf(p)].read, port[p])
    OBVIOUS
  <2>1. /\ run[p] = "deregistering" /\ run'[p] = "gone" /\ stopper'[p] = "none"
        /\ \A q \in Procs \ {p} : run'[q] = run[q] /\ stopper'[q] = stopper[q]
        /\ registry' = entries
        /\ UNCHANGED <<port, contested, raced>>
    BY <1>8 DEF DeregisterWrites, Deregistered, Ends, Goto, LifeTypeInv, RunOf
  <2>2. /\ DOMAIN copy' = DOMAIN copy
        /\ \A t \in DOMAIN copy : copy'[t] = IF t.proc = p THEN Idle ELSE copy[t]
    BY <1>8 DEF DeregisterWrites, Ends
  <2>3. copy[RunOf(p)].busy
    BY <2>1 DEF ListInv, Updating
  <2>4. OneUpdate'
    <3> SUFFICES ASSUME ~raced, NEW t \in DOMAIN copy, copy'[t].busy PROVE FALSE
      BY <2>1, <2>2 DEF OneUpdate
    <3>1. t.proc # p /\ copy[t].busy
      BY <2>2 DEF Idle
    <3>2. t = RunOf(p)
      BY <1>c, <2>3, <3>1 DEF ListInv, OneUpdate
    <3>. QED
      BY <3>1, <3>2, ThreadsOf
  <2>5. Updating'
    BY <1>c, <2>1, <2>2, ThreadsOf DEF ListInv, Updating
  <2>6. ASSUME ~raced PROVE \A q \in Procs : EntryOK(q)'
    <3>1. registry' = OtherPorts(registry, port[p])
      BY <1>c, <2>1, <2>3, <2>6 DEF ListInv, OneUpdate
    <3>2. \A q \in Procs \ {p} : EntryOK(q)'
      BY <2>1, <2>6, <3>1, OthersKeepEntries DEF Alive, OtherPorts
    <3>3. EntryOK(p)'
      BY <2>1, <3>1 DEF EntryOK, Entry, OtherPorts, Serving
    <3>. QED
      BY <3>2, <3>3
  <2>. QED
    BY <2>1, <2>4, <2>5, <2>6 DEF ListInv
<1>9. ASSUME NEW p \in Procs, Kill(p) PROVE ListInv'
  <2>1. /\ run'[p] = "killed" /\ stopper'[p] = "none"
        /\ \A q \in Procs \ {p} : run'[q] = run[q] /\ stopper'[q] = stopper[q]
        /\ UNCHANGED <<port, registry, contested, raced>>
        /\ DOMAIN copy' = DOMAIN copy
        /\ \A t \in DOMAIN copy : copy'[t] = IF t.proc = p THEN Idle ELSE copy[t]
    BY <1>9 DEF Kill, Ends, Goto, LifeTypeInv, shared
  <2>2. OneUpdate'
    BY <2>1 DEF ListInv, OneUpdate, Idle
  <2>3. Updating'
    BY <1>c, <2>1, ThreadsOf DEF ListInv, Updating
  <2>4. OnlyOf(p)
    BY <2>1 DEF OnlyOf, Serving
  <2>. QED
    BY <2>1, <2>2, <2>3, <2>4, EntriesStay DEF ListInv
<1>10. ASSUME ListReads PROVE ListInv'
  <2>1. ReadingBy(Lister) /\ UNCHANGED <<port, run, stopper>>
    BY <1>10, <1>c DEF ListReads, ReadingBy
  <2>2. Updating'
    BY <1>c, <2>1, ReadingOne, ThreadsOf DEF ListInv, Updating
  <2>3. \A p \in Procs : OnlyOf(p)
    BY <2>1 DEF OnlyOf
  <2>4. CASE Procs = {}
    BY <2>1, <2>2, <2>4, ReadingOne DEF ListInv
  <2>. QED
    BY <2>1, <2>2, <2>3, <2>4, ReadingOne, EntriesStay DEF ListInv
<1>11. ASSUME ListPrunes PROVE ListInv'
  <2>. PICK entries : entries = {e \in copy[Lister].read : Alive(e.pid)}
    OBVIOUS
  <2>1. WritingBy(Lister, entries) /\ UNCHANGED <<port, run, stopper>>
    BY <1>11, <1>c DEF ListPrunes, WritingBy
  <2>2. Updating'
    BY <1>c, <2>1, WritingOne, ThreadsOf DEF ListInv, Updating
  <2>3. ASSUME ~raced', NEW p \in Procs PROVE EntryOK(p)'
    <3>1. EntryOK(p) /\ contested' = contested /\ registry' = {e \in registry : Alive(e.pid)}
      BY <2>1, <2>3, WritingOne DEF ListInv
    <3>2. run[p] \in Serving => Alive(Entry(p).pid)
      BY DEF Serving, Alive, Entry
    <3>. QED
      BY <2>1, <3>1, <3>2 DEF EntryOK, Entry
  <2>. QED
    BY <2>1, <2>2, <2>3, WritingOne DEF ListInv
<1>12. CASE UNCHANGED lifevars
  BY <1>12 DEF lifevars, shared, ListInv, OneUpdate, Updating, EntryOK, Entry
<1>. QED
  BY <1>2, <1>3, <1>4, <1>5, <1>6, <1>7, <1>8, <1>9, <1>10, <1>11, <1>12 DEF LifeNext, Runs, Stops

\* Servers on different ports come and go without losing each other's entry in
\* the registry file, and take their own along, as long as no two updates of
\* the file overlap, for any processes and ports: Register, Deregister and
\* PruneStale read, change and write the file without a lock.
THEOREM EntriesAreKept == LifeSpec => []Listed
<1>1. LifeInit => LifeTypeInv /\ Met /\ ListInv
  <2>1. LifeInit => Met
    BY DEF LifeInit, Met, Alive
  <2>2. LifeInit => ListInv
    BY ThreadsOf DEF LifeInit, ListInv, OneUpdate, Updating, EntryOK, Idle, Serving
  <2>. QED
    BY <2>1, <2>2, LifeTypeInit
<1>2. LifeTypeInv /\ Met /\ ListInv /\ [LifeNext]_lifevars => (LifeTypeInv /\ Met /\ ListInv)'
  BY LifeTypeNext, MetNext, ListNext
<1>3. ListInv => Listed
  BY DEF ListInv, Listed, EntryOK, Undisturbed, EndedAlone, Serving, NotYet
<1>. QED
  BY <1>1, <1>2, <1>3, PTL DEF LifeSpec

-----------------------------------------------------------------------------
(* The Markdown renderer: for inputs of any length over any of the kinds,  *)
(* what has been gone through is in the output.                            *)

\* Is the text of line k in the output, or lost in a list?
Shown(k) == \E l \in DOMAIN html : html[l] = k
Missed(k) == input[k] = "digit" /\ k \in shortened

MarkdownInv ==
    /\ input \in Seq(Kinds) /\ html \in Seq(Nat)
    /\ pos \in Nat \ {0}
    /\ \A k \in 1 .. Len(html) - 1 : html[k] < html[k + 1]
    /\ \A k \in DOMAIN html : html[k] < pos
    /\ \A k \in DOMAIN input :
          k < pos /\ HasText(input[k]) => Shown(k) \/ Missed(k)

\* Text is lost in ordered lists only.  While one is written, a line at or before
\* the one looked at has opened it, and only its items lie between.
OrderedListInv ==
    /\ \A k \in shortened : input[k] \in {"cut", "digit"} /\ InList(k)
    /\ block = "ol" => \E j \in 1 .. pos : /\ input[j] = "number"
                                           /\ \A i \in j .. pos - 1 : input[i] \in ListLines

LEMMA MarkdownStarts == MarkdownInit => MarkdownInv
<1> SUFFICES ASSUME MarkdownInit PROVE MarkdownInv
  OBVIOUS
<1>1. PICK n \in 0 .. MaxLength : input \in [1 .. n -> Kinds]
  BY DEF MarkdownInit
<1>2. input \in Seq(Kinds) /\ DOMAIN input = 1 .. n
  BY <1>1, IsASeq
<1>3. html \in Seq(Nat) /\ Len(html) = 0 /\ DOMAIN html = {} /\ pos = 1
  BY EmptySeq DEF MarkdownInit
<1> QED BY <1>2, <1>3 DEF MarkdownInv

\* The text of the line looked at goes to the output.
LEMMA LineTaken ==
  ASSUME MarkdownInv, input' = input, html' = Append(html, pos), pos' = pos + 1,
         shortened \subseteq shortened'
  PROVE  MarkdownInv'
<1>1. /\ html' \in Seq(Nat) /\ Len(html') = Len(html) + 1 /\ html'[Len(html) + 1] = pos
      /\ \A k \in 1 .. Len(html) : html'[k] = html[k]
  BY AppendProperties DEF MarkdownInv
<1>2. Len(html) \in Nat /\ DOMAIN html = 1 .. Len(html) /\ DOMAIN html' = 1 .. Len(html) + 1
  BY <1>1, LenProperties DEF MarkdownInv
<1>3. DOMAIN input \subseteq Nat
  BY LenProperties DEF MarkdownInv
<1>4. ASSUME NEW k \in 1 .. Len(html') - 1 PROVE html'[k] < html'[k + 1]
  <2>1. CASE k = Len(html)
    BY <1>1, <1>2, <2>1 DEF MarkdownInv
  <2>2. CASE k # Len(html)
    <3>1. PICK n \in Nat : n = Len(html)
      BY <1>2
    <3>2. k \in 1 .. n
      BY <1>1, <3>1
    <3>3. k \in 1 .. n - 1 /\ k + 1 \in 1 .. n
      BY <2>2, <3>1, <3>2
    <3>4. html[k] < html[k + 1]
      BY <3>1, <3>3 DEF MarkdownInv
    <3> QED BY <1>1, <3>1, <3>2, <3>3, <3>4
  <2> QED BY <2>1, <2>2
<1>5. ASSUME NEW k \in DOMAIN html' PROVE html'[k] < pos'
  <2>1. CASE k = Len(html) + 1
    BY <1>1, <2>1 DEF MarkdownInv
  <2>2. CASE k # Len(html) + 1
    <3>1. k \in 1 .. Len(html) /\ k \in DOMAIN html
      BY <1>2, <2>2
    <3>2. html[k] \in Nat /\ html[k] < pos
      BY <3>1, ElementOfSeq DEF MarkdownInv
    <3> QED BY <1>1, <3>1, <3>2 DEF MarkdownInv
  <2> QED BY <2>1, <2>2
<1>6. ASSUME NEW k \in DOMAIN input', k < pos', HasText(input'[k])
      PROVE  \/ \E l \in DOMAIN html' : html'[l] = k
             \/ input'[k] = "digit" /\ k \in shortened'
  <2>1. CASE k = pos
    BY <1>1, <1>2, <2>1
  <2>2. CASE k # pos
    <3>1. k < pos
      BY <1>3, <1>6, <2>2 DEF MarkdownInv
    <3>2. Shown(k) \/ Missed(k)
      BY <1>6, <3>1 DEF MarkdownInv
    <3>3. CASE Shown(k)
      <4>1. PICK l \in DOMAIN html : html[l] = k
        BY <3>3 DEF Shown
      <4> QED BY <1>1, <1>2, <4>1
    <3> QED BY <3>2, <3>3 DEF Missed
  <2> QED BY <2>1, <2>2
<1> QED BY <1>1, <1>4, <1>5, <1>6 DEF MarkdownInv, Shown, Missed

\* The line looked at is passed over, which is right if it has no text to show, or
\* a list misses it.
LEMMA LinePassed ==
  ASSUME MarkdownInv, input' = input, html' = html,
         shortened \subseteq shortened',
         \/ pos' = pos
         \/ /\ pos' = pos + 1
            /\ pos \in DOMAIN input /\ HasText(input[pos])
                  => input[pos] = "digit" /\ pos \in shortened'
  PROVE  MarkdownInv'
<1>1. DOMAIN input \subseteq Nat
  BY LenProperties DEF MarkdownInv
<1>2. ASSUME NEW k \in DOMAIN html PROVE html[k] < pos'
  <2>1. html[k] \in Nat /\ html[k] < pos
    BY ElementOfSeq DEF MarkdownInv
  <2> QED BY <2>1 DEF MarkdownInv
<1>3. ASSUME NEW k \in DOMAIN input, k < pos', HasText(input[k])
      PROVE  Shown(k) \/ (input[k] = "digit" /\ k \in shortened')
  <2>1. CASE k = pos
    BY <1>3, <2>1 DEF MarkdownInv
  <2>2. CASE k # pos
    <3>1. k < pos
      BY <1>1, <1>3, <2>2 DEF MarkdownInv
    <3> QED BY <1>3, <3>1 DEF MarkdownInv, Missed
  <2> QED BY <2>1, <2>2
<1> QED BY <1>2, <1>3 DEF MarkdownInv, Shown, Missed

LEMMA MarkdownGoesOn == MarkdownInv /\ [MarkdownNext]_mdvars => MarkdownInv'
<1> SUFFICES ASSUME MarkdownInv, [MarkdownNext]_mdvars PROVE MarkdownInv'
  OBVIOUS
<1>1. CASE UNCHANGED mdvars
  BY <1>1, LinePassed DEF mdvars
<1>2. CASE SingleLine
  BY <1>2, LineTaken, LinePassed DEF SingleLine, HasText
<1>3. CASE OpenBlock
  BY <1>3, LinePassed DEF OpenBlock, HasText
<1>4. CASE InBlock
  BY <1>4, LineTaken, LinePassed DEF InBlock
<1>5. CASE CloseBlock
  <2>1. input' = input /\ html' = html /\ pos' = IF block = "code" THEN pos + 1 ELSE pos
    BY <1>5 DEF CloseBlock
  <2>2. ASSUME block = "code", pos \in DOMAIN input PROVE input[pos] = "fence"
    <3>1. ~AtEnd
      BY <2>2, LenProperties DEF AtEnd, MarkdownInv
    <3> QED BY <1>5, <2>2, <3>1 DEF CloseBlock, BlockOver, Continues
  <2>3. shortened' = shortened
    BY <1>5 DEF CloseBlock
  <2> QED BY <2>1, <2>2, <2>3, LinePassed DEF HasText
<1> QED BY <1>1, <1>2, <1>3, <1>4, <1>5 DEF MarkdownNext

LEMMA OrderedListGoesOn == MarkdownInv /\ OrderedListInv /\ [MarkdownNext]_mdvars => OrderedListInv'
<1> SUFFICES ASSUME MarkdownInv, OrderedListInv, [MarkdownNext]_mdvars PROVE OrderedListInv'
  OBVIOUS
<1>1. pos \in Nat \ {0} /\ DOMAIN input = 1 .. Len(input) /\ Len(input) \in Nat
  BY LenProperties DEF MarkdownInv
<1>2. input' = input
  BY DEF MarkdownNext, SingleLine, OpenBlock, InBlock, CloseBlock, mdvars
<1>3. CASE UNCHANGED mdvars
  BY <1>3 DEF mdvars, OrderedListInv, InList
<1>4. CASE SingleLine
  BY <1>2, <1>4 DEF SingleLine, OrderedListInv, InList
<1>5. CASE OpenBlock
  <2>1. shortened' = shortened /\ block' = Opens[input[pos]]
    BY <1>5 DEF OpenBlock
  <2>2. ASSUME block' = "ol" PROVE input[pos] = "number" /\ pos' = pos
    BY <1>5, <2>1, <2>2 DEF OpenBlock, Opens
  <2>3. ASSUME block' = "ol"
        PROVE  \E j \in 1 .. pos' : /\ input'[j] = "number"
                                    /\ \A i \in j .. pos' - 1 : input'[i] \in ListLines
    <3>1. pos \in 1 .. pos' /\ pos .. pos' - 1 = {}
      BY <1>1, <2>2, <2>3
    <3> QED BY <1>2, <2>2, <2>3, <3>1
  <2> QED BY <1>2, <2>1, <2>3 DEF OrderedListInv, InList
<1>6. CASE InBlock
  <2>1. ~AtEnd /\ Continues(block, input[pos]) /\ pos' = pos + 1 /\ block' = block
    BY <1>6 DEF InBlock, BlockOver
  <2>2. CASE block # "ol"
    BY <1>2, <1>6, <2>1, <2>2 DEF InBlock, OrderedListInv, InList
  <2>3. CASE block = "ol"
    <3>1. input[pos] \in ListLines
      BY <2>1, <2>3 DEF Continues
    <3>2. PICK j \in 1 .. pos : /\ input[j] = "number"
                                /\ \A i \in j .. pos - 1 : input[i] \in ListLines
      BY <2>3 DEF OrderedListInv
    <3>3. \A i \in j .. pos : input[i] \in ListLines
      BY <1>1, <3>1, <3>2
    <3>4. j \in 1 .. pos' /\ j .. pos' - 1 = j .. pos
      BY <1>1, <2>1, <3>2
    <3>5. ASSUME input[pos] \in {"cut", "digit"} PROVE InList(pos)
      <4>1. j \in 1 .. pos - 1
        BY <1>1, <3>2, <3>5
      <4> QED BY <3>2, <3>3, <4>1 DEF InList
    <3>6. ASSUME NEW k \in shortened' PROVE input[k] \in {"cut", "digit"} /\ InList(k)
      BY <1>6, <3>5, <3>6 DEF InBlock, OrderedListInv
    <3> QED BY <1>2, <3>2, <3>3, <3>4, <3>6 DEF OrderedListInv, InList
  <2> QED BY <2>2, <2>3
<1>7. CASE CloseBlock
  BY <1>2, <1>7 DEF CloseBlock, OrderedListInv, InList
<1> QED BY <1>3, <1>4, <1>5, <1>6, <1>7 DEF MarkdownNext

\* Whichever blocks follow each other, renderMarkdown writes the text of every
\* line once and in its order: the line that ends a block is neither swallowed
\* by its loop nor written again by the next.  Text is lost in ordered lists only.
THEOREM RendersEachLineOnce == MarkdownSpec => []EachLineOnce
<1>1. MarkdownInv /\ OrderedListInv => EachLineOnce
  <2> SUFFICES ASSUME MarkdownInv, OrderedListInv PROVE EachLineOnce
    OBVIOUS
  <2>1. ASSUME Done, NEW k \in DOMAIN input PROVE k < pos
    <3>1. DOMAIN input = 1 .. Len(input) /\ Len(input) \in Nat
      BY LenProperties DEF MarkdownInv
    <3> QED BY <2>1, <3>1 DEF Done, AtEnd, MarkdownInv
  <2> QED BY <2>1 DEF MarkdownInv, OrderedListInv, EachLineOnce, Shown, Missed
<1>2. MarkdownInit => OrderedListInv
  BY DEF MarkdownInit, OrderedListInv
<1> QED BY <1>1, <1>2, MarkdownStarts, MarkdownGoesOn, OrderedListGoesOn, PTL DEF MarkdownSpec
=============================================================================
