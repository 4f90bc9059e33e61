---------------------------- MODULE ClientProofs ----------------------------
(***************************************************************************)
(* Proofs about the two programs at the ends of the server: rdw pipe,      *)
(* which reads, and the browser, which shows.                              *)
(*                                                                         *)
(* The relay on its own, for any queue length: its state is type correct,  *)
(* its queue is bounded and in order, no line is forgotten, and none is    *)
(* sent again that the server has confirmed. rdw pipe as a                 *)
(* whole, for any input, every set of kinds of line and every number of    *)
(* filters: the mirror keeps up with the relay, the lines relayed are      *)
(* whole blocks of the lines read, and what is proved of the relay holds   *)
(* in the whole.                                                           *)
(*                                                                         *)
(* The browser's keyboard and mouse, for every set of panes and bindings:  *)
(* what is typed into search bar and prompt is text, the menu means its    *)
(* pane, and Escape leads back to reading.                                 *)
(***************************************************************************)
EXTENDS Pipe, BrowserKeys, SequenceTheorems, TLAPS

-----------------------------------------------------------------------------
(* The relay. *)

\* While the queue is flushed, the part already sent has arrived.
FlushedArrived == at = "flush" => /\ flushed <= Len(queue)
                                  /\ \A i \in 1 .. flushed : Among(queue[i], arrived)

\* The queue holds lines older than the one in hand.
QueueIsOlder == at \in {"flush", "live"} => /\ line >= 1
                                            /\ \A i \in DOMAIN queue : queue[i] < line

\* What is still to be sent has not been confirmed.
AmongAt(l, s, places) == \E i \in places : s[i] = l
ToSend(i) == i \in DOMAIN queue /\ (at = "flush" => i > flushed)
Unsent == /\ \A i \in DOMAIN queue : ToSend(i) => ~AmongAt(queue[i], arrived, confirmed)
          /\ at \in {"flush", "live"} => ~AmongAt(line, arrived, confirmed)

Inv == /\ RelayTypeOK /\ QueueInOrder /\ FlushedArrived /\ QueueIsOlder
       /\ NoneForgotten /\ Unsent /\ NoneSentAgain

-----------------------------------------------------------------------------
(* Sequences. *)

\* What a sequence holds after an Append: what it held, and the new element.
LEMMA AmongAppend ==
  ASSUME NEW S, NEW s \in Seq(S), NEW l \in S, NEW x
  PROVE  Among(x, Append(s, l)) <=> Among(x, s) \/ x = l
<1>1. Len(s) \in Nat /\ DOMAIN s = 1 .. Len(s)
  BY LenProperties
<1>2. /\ Append(s, l) \in Seq(S)
      /\ Len(Append(s, l)) = Len(s) + 1
      /\ \A i \in 1 .. Len(s) : Append(s, l)[i] = s[i]
      /\ Append(s, l)[Len(s) + 1] = l
  BY AppendProperties
<1>3. DOMAIN Append(s, l) = 1 .. Len(s) + 1
  BY <1>2, LenProperties
<1>4. \A i \in 1 .. Len(s) + 1 : i \in 1 .. Len(s) \/ i = Len(s) + 1
  BY <1>1
<1>5. Len(s) + 1 \in 1 .. Len(s) + 1 /\ \A i \in 1 .. Len(s) : i \in 1 .. Len(s) + 1
  BY <1>1
<1> QED BY <1>1, <1>2, <1>3, <1>4, <1>5 DEF Among

\* The end of a sequence.
LEMMA Suffix ==
  ASSUME NEW S, NEW s \in Seq(S), NEW n \in Nat, n <= Len(s)
  PROVE  /\ SubSeq(s, n + 1, Len(s)) \in Seq(S)
         /\ Len(SubSeq(s, n + 1, Len(s))) = Len(s) - n
         /\ DOMAIN SubSeq(s, n + 1, Len(s)) = 1 .. Len(s) - n
         /\ \A i \in 1 .. Len(s) - n : /\ SubSeq(s, n + 1, Len(s))[i] = s[i + n]
                                     /\ i + n \in DOMAIN s
<1> DEFINE t == SubSeq(s, n + 1, Len(s))
<1>1. Len(s) \in Nat /\ DOMAIN s = 1 .. Len(s) /\ \A i \in 1 .. Len(s) : s[i] \in S
  BY LenProperties, ElementOfSeq
<1>2. n + 1 \in Int /\ Len(s) \in Int /\ \A i \in n + 1 .. Len(s) : s[i] \in S
  BY <1>1
<1>3. /\ t \in Seq(S)
      /\ Len(t) = IF n + 1 <= Len(s) THEN Len(s) - (n + 1) + 1 ELSE 0
      /\ \A i \in 1 .. Len(s) - (n + 1) + 1 : t[i] = s[n + 1 + i - 1]
  BY <1>2, SubSeqProperties
<1> HIDE DEF t
<1>4. Len(t) = Len(s) - n
  <2>1. CASE n + 1 <= Len(s)
    BY <1>1, <1>3, <2>1
  <2>2. CASE ~(n + 1 <= Len(s))
    <3>1. Len(t) = 0
      BY <1>3, <2>2
    <3>2. \A k \in Nat : n <= k /\ ~(n + 1 <= k) => k - n = 0
      OBVIOUS
    <3>3. Len(s) \in Nat
      BY <1>1
    <3>4. Len(s) - n = 0
      BY <2>2, <3>2, <3>3
    <3> QED BY <3>1, <3>4
  <2> QED BY <2>1, <2>2
<1>5. ASSUME NEW i \in 1 .. Len(s) - n
      PROVE  t[i] = s[i + n] /\ i + n \in DOMAIN s
  <2>1. i \in 1 .. Len(s) - (n + 1) + 1 /\ n + 1 + i - 1 = i + n /\ i + n \in 1 .. Len(s)
    BY <1>1
  <2> QED BY <1>1, <1>3, <2>1
<1>6. DOMAIN t = 1 .. Len(s) - n
  BY <1>3, <1>4, LenProperties
<1> QED BY <1>3, <1>4, <1>5, <1>6 DEF t

-----------------------------------------------------------------------------
(* What one attempt to send a line does. *)

\* A line sent arrives and is confirmed; a line whose attempt failed may have
\* arrived, and is not.
LEMMA Attempt ==
  ASSUME RelayTypeOK, NoneSentAgain, NEW l \in Lines,
         ~AmongAt(l, arrived, confirmed),
         Sent(l) \/ Failed(l)
  PROVE  /\ up' \in BOOLEAN
         /\ arrived' \in Seq(Lines)
         /\ confirmed' \subseteq DOMAIN arrived'
         /\ \A x : Among(x, arrived) => Among(x, arrived')
         /\ Sent(l) => Among(l, arrived')
         /\ \A x : AmongAt(x, arrived', confirmed') =>
                AmongAt(x, arrived, confirmed) \/ (Sent(l) /\ x = l)
         /\ Failed(l) => \A x : AmongAt(x, arrived', confirmed') => AmongAt(x, arrived, confirmed)
         /\ NoneSentAgain'
<1>1. /\ arrived \in Seq(Lines) /\ Len(arrived) \in Nat
      /\ DOMAIN arrived = 1 .. Len(arrived)
      /\ confirmed \subseteq DOMAIN arrived /\ up \in BOOLEAN
  BY LenProperties DEF RelayTypeOK
<1> DEFINE Nothing == arrived' = arrived /\ confirmed' = confirmed /\ up' = up
           Grows   == arrived' = Append(arrived, l) /\ up' \in BOOLEAN
<1>2. \/ Failed(l) /\ Nothing
      \/ Failed(l) /\ Grows /\ confirmed' = confirmed
      \/ Sent(l) /\ Grows /\ confirmed' = confirmed \cup {Len(arrived) + 1}
  BY <1>1 DEF Sent, Failed, net
<1>3. CASE Failed(l) /\ Nothing
  <2>1. ~Sent(l)
    <3>1. Sent(l) => Len(arrived) + 1 \in confirmed
      BY <1>3 DEF Sent
    <3> QED BY <1>1, <3>1
  <2> QED BY <1>1, <1>3, <2>1 DEF NoneSentAgain, AmongAt
<1>4. ASSUME Grows, confirmed' \subseteq confirmed \cup {Len(arrived) + 1}
      PROVE  /\ arrived' \in Seq(Lines)
             /\ DOMAIN arrived' = 1 .. Len(arrived) + 1
             /\ \A i \in 1 .. Len(arrived) : arrived'[i] = arrived[i]
             /\ arrived'[Len(arrived) + 1] = l
             /\ confirmed' \subseteq DOMAIN arrived'
             /\ \A x : Among(x, arrived') <=> Among(x, arrived) \/ x = l
             /\ NoneSentAgain'
  <2>1. /\ Append(arrived, l) \in Seq(Lines)
        /\ Len(Append(arrived, l)) = Len(arrived) + 1
        /\ \A i \in 1 .. Len(arrived) : Append(arrived, l)[i] = arrived[i]
        /\ Append(arrived, l)[Len(arrived) + 1] = l
    BY <1>1, AppendProperties
  <2>2. /\ arrived' \in Seq(Lines)
        /\ DOMAIN arrived' = 1 .. Len(arrived) + 1
        /\ \A i \in 1 .. Len(arrived) : arrived'[i] = arrived[i]
        /\ arrived'[Len(arrived) + 1] = l
    BY <1>4, <2>1, LenProperties
  <2>3. \A x : Among(x, arrived') <=> Among(x, arrived) \/ x = l
    BY <1>1, <1>4, AmongAppend
  <2>4. confirmed' \subseteq DOMAIN arrived'
    BY <1>1, <1>4, <2>2
  <2>5. ASSUME NEW i \in DOMAIN arrived', NEW j \in DOMAIN arrived',
               i < j, arrived'[i] = arrived'[j], i \in confirmed'
        PROVE  FALSE
    <3>1. i \in 1 .. Len(arrived) /\ i \in confirmed /\ arrived'[i] = arrived[i]
      BY <1>1, <1>4, <2>2, <2>5
    <3>2. CASE j \in DOMAIN arrived
      BY <1>1, <2>2, <2>5, <3>1, <3>2 DEF NoneSentAgain
    <3>3. CASE j \notin DOMAIN arrived
      <4>1. j = Len(arrived) + 1
        BY <1>1, <2>2, <3>3
      <4> QED BY <2>2, <2>5, <3>1, <4>1 DEF AmongAt
    <3> QED BY <3>2, <3>3
  <2>6. NoneSentAgain'
    BY <2>5 DEF NoneSentAgain
  <2> QED BY <2>2, <2>3, <2>4, <2>6
<1>5. CASE Failed(l) /\ Grows /\ confirmed' = confirmed
  <2>1. ~Sent(l)
    <3>1. Sent(l) => Len(arrived) + 1 \in confirmed
      BY <1>5 DEF Sent
    <3> QED BY <1>1, <3>1
  <2>2. \A x : AmongAt(x, arrived', confirmed') => AmongAt(x, arrived, confirmed)
    BY <1>1, <1>4, <1>5 DEF AmongAt
  <2> QED BY <1>4, <1>5, <2>1, <2>2
<1>6. CASE Sent(l) /\ Grows /\ confirmed' = confirmed \cup {Len(arrived) + 1}
  <2>1. ~Failed(l)
    <3>1. Failed(l) => confirmed' = confirmed
      BY DEF Failed, net
    <3>2. Len(arrived) + 1 \notin confirmed
      BY <1>1
    <3> QED BY <1>6, <3>1, <3>2
  <2>2. \A x : AmongAt(x, arrived', confirmed') => AmongAt(x, arrived, confirmed) \/ x = l
    BY <1>1, <1>4, <1>6 DEF AmongAt
  <2> QED BY <1>4, <1>6, <2>1, <2>2
<1> QED BY <1>2, <1>3, <1>5, <1>6

-----------------------------------------------------------------------------
(* The invariant is inductive. *)

\* relay starts with nothing read, queued or sent.
LEMMA InvInit == Init => Inv
<1> SUFFICES ASSUME Init PROVE Inv
  OBVIOUS
<1>1. /\ at = "read" /\ line = 0 /\ queue = <<>> /\ flushed = 0 /\ up = TRUE
      /\ arrived = <<>> /\ confirmed = {} /\ dropped = {}
  BY DEF Init
<1>2. /\ queue \in Seq(Lines) /\ arrived \in Seq(Lines) /\ Len(queue) = 0
      /\ DOMAIN queue = {} /\ DOMAIN arrived = {} /\ Lines = {}
  BY <1>1, EmptySeq DEF Lines
<1>3. RelayTypeOK
  BY <1>1, <1>2, QueueLenAssumption DEF RelayTypeOK
<1>4. NoneForgotten /\ NoneSentAgain /\ QueueInOrder
  BY <1>2 DEF NoneForgotten, NoneSentAgain, QueueInOrder
<1>5. FlushedArrived /\ QueueIsOlder /\ Unsent
  BY <1>1, <1>2 DEF FlushedArrived, QueueIsOlder, Unsent
<1> QED BY <1>3, <1>4, <1>5 DEF Inv

\* The types of the sequences, in the form the steps use them.
LEMMA Types ==
  ASSUME RelayTypeOK
  PROVE  /\ line \in Nat /\ flushed \in Nat
         /\ queue \in Seq(Lines) /\ Len(queue) \in Nat
         /\ DOMAIN queue = 1 .. Len(queue)
         /\ \A i \in DOMAIN queue : queue[i] \in Lines /\ queue[i] \in Nat
         /\ arrived \in Seq(Lines)
         /\ \A x : Among(x, arrived) => x \in Lines
<1>1. queue \in Seq(Lines) /\ arrived \in Seq(Lines) /\ line \in Nat /\ flushed \in Nat
  BY DEF RelayTypeOK
<1>2. /\ Len(queue) \in Nat /\ DOMAIN queue = 1 .. Len(queue)
      /\ \A i \in 1 .. Len(queue) : queue[i] \in Lines
  BY <1>1, LenProperties, ElementOfSeq
<1>3. DOMAIN arrived = 1 .. Len(arrived) /\ \A i \in 1 .. Len(arrived) : arrived[i] \in Lines
  BY <1>1, LenProperties, ElementOfSeq
<1>4. \A l \in Lines : l \in Nat
  BY <1>1 DEF Lines
<1> QED BY <1>1, <1>2, <1>3, <1>4 DEF Among

\* Reading the next line.
LEMMA ReadStep == Inv /\ Read => Inv'
<1> SUFFICES ASSUME Inv, Read PROVE Inv'
  OBVIOUS
<1> USE DEF Inv
<1>1. /\ at = "read" /\ at' = "flush" /\ line' = line + 1 /\ flushed' = 0
      /\ queue' = queue /\ dropped' = dropped
      /\ up' = up /\ arrived' = arrived /\ confirmed' = confirmed
  BY DEF Read, net
<1>2. Lines \subseteq Lines' /\ line \in Nat /\ line' \in Lines' /\ line' \notin Lines
      /\ \A l \in Lines' : l \in Lines \/ l = line'
  BY <1>1, Types DEF Lines
<1>3. queue' \in Seq(Lines') /\ arrived' \in Seq(Lines')
  BY <1>1, <1>2, Types, SeqMonotonic
<1>4. RelayTypeOK'
  BY <1>1, <1>2, <1>3 DEF RelayTypeOK
<1>5. QueueInOrder' /\ NoneSentAgain'
  BY <1>1 DEF QueueInOrder, NoneSentAgain
<1>6. FlushedArrived'
  BY <1>1, Types DEF FlushedArrived
<1>7. QueueIsOlder'
  <2>1. line' >= 1
    BY <1>1, <1>2
  <2>2. \A i \in DOMAIN queue : queue[i] < line'
    BY <1>1, Types DEF Lines
  <2> QED BY <1>1, <2>1, <2>2 DEF QueueIsOlder
<1>8. NoneForgotten'
  BY <1>1, <1>2 DEF NoneForgotten, InHand
<1>9. Unsent'
  <2>1. ~AmongAt(line', arrived, confirmed)
    BY <1>2, Types DEF RelayTypeOK, Among, AmongAt
  <2>2. \A i \in DOMAIN queue : ToSend(i)
    BY <1>1 DEF ToSend
  <2>3. \A i \in DOMAIN queue : ~AmongAt(queue[i], arrived, confirmed)
    BY <2>2 DEF Unsent
  <2> QED BY <1>1, <2>1, <2>3 DEF Unsent
<1> QED BY <1>4, <1>5, <1>6, <1>7, <1>8, <1>9

\* The end of the input.
LEMMA StopStep == Inv /\ Stop => Inv'
<1> SUFFICES ASSUME Inv, Stop PROVE Inv'
  OBVIOUS
<1> USE DEF Inv
<1>1. /\ at = "read" /\ at' = "done" /\ line' = line /\ flushed' = flushed
      /\ queue' = queue /\ dropped' = dropped
      /\ up' = up /\ arrived' = arrived /\ confirmed' = confirmed
  BY DEF Stop, net
<1>2. RelayTypeOK' /\ QueueInOrder' /\ NoneSentAgain'
  BY <1>1 DEF RelayTypeOK, QueueInOrder, NoneSentAgain, Lines
<1>3. FlushedArrived' /\ QueueIsOlder'
  BY <1>1 DEF FlushedArrived, QueueIsOlder
<1>4. NoneForgotten'
  BY <1>1 DEF NoneForgotten, InHand, Lines
<1>5. Unsent'
  BY <1>1 DEF Unsent, ToSend
<1> QED BY <1>2, <1>3, <1>4, <1>5

\* The server goes or comes back.
LEMMA NetworkStep == Inv /\ Network => Inv'
<1> SUFFICES ASSUME Inv, Network PROVE Inv'
  OBVIOUS
<1> USE DEF Inv
<1>1. /\ at' = at /\ line' = line /\ flushed' = flushed /\ queue' = queue
      /\ dropped' = dropped /\ up' \in BOOLEAN
      /\ arrived' = arrived /\ confirmed' = confirmed
  BY DEF Network, Connect, Disconnect
<1>2. RelayTypeOK' /\ QueueInOrder' /\ NoneSentAgain'
  BY <1>1 DEF RelayTypeOK, QueueInOrder, NoneSentAgain, Lines
<1>3. FlushedArrived' /\ QueueIsOlder'
  BY <1>1 DEF FlushedArrived, QueueIsOlder
<1>4. NoneForgotten'
  BY <1>1 DEF NoneForgotten, InHand, Lines
<1>5. Unsent'
  BY <1>1 DEF Unsent, ToSend
<1> QED BY <1>2, <1>3, <1>4, <1>5

\* A queued line is sent during a flush, which goes on.
LEMMA FlushSentStep == Inv /\ FlushSent => Inv'
<1> SUFFICES ASSUME Inv, FlushSent PROVE Inv'
  OBVIOUS
<1> USE DEF Inv
<1> DEFINE n == flushed + 1
           l == queue[n]
<1>1. /\ at = "flush" /\ at' = at /\ line' = line /\ flushed' = n
      /\ queue' = queue /\ dropped' = dropped /\ flushed < Len(queue) /\ Sent(l)
  BY DEF FlushSent
<1>2. n \in DOMAIN queue /\ n > flushed /\ n <= Len(queue) /\ l \in Lines
  BY <1>1, Types
<1>3. ~AmongAt(l, arrived, confirmed)
  BY <1>1, <1>2 DEF Unsent, ToSend
<1>4. /\ up' \in BOOLEAN
      /\ arrived' \in Seq(Lines)
      /\ confirmed' \subseteq DOMAIN arrived'
      /\ \A x : Among(x, arrived) => Among(x, arrived')
      /\ \A x : AmongAt(x, arrived', confirmed') => AmongAt(x, arrived, confirmed) \/ x = l
      /\ Among(l, arrived')
      /\ NoneSentAgain'
  BY <1>1, <1>2, <1>3, Attempt
<1>5. RelayTypeOK'
  BY <1>1, <1>4, Types DEF RelayTypeOK, Lines
<1>6. QueueInOrder' /\ QueueIsOlder'
  BY <1>1 DEF QueueInOrder, QueueIsOlder
<1>7. FlushedArrived'
  <2>1. \A i \in 1 .. n : i \in 1 .. flushed \/ i = n
    BY Types
  <2>2. \A i \in 1 .. n : Among(queue[i], arrived')
    BY <1>1, <1>4, <2>1 DEF FlushedArrived
  <2> QED BY <1>1, <1>2, <2>2 DEF FlushedArrived
<1>8. NoneForgotten'
  BY <1>1, <1>4 DEF NoneForgotten, InHand, Lines
<1>9. Unsent'
  <2>1. ASSUME NEW i \in DOMAIN queue, i > n
        PROVE  queue[i] # l /\ i > flushed
    <3>1. l < queue[i]
      BY <1>2, <2>1, Types DEF QueueInOrder
    <3> QED BY <2>1, <3>1, <1>2, Types
  <2>2. ASSUME NEW i \in DOMAIN queue, i > n
        PROVE  ~AmongAt(queue[i], arrived', confirmed')
    BY <1>1, <1>4, <2>1, <2>2 DEF Unsent, ToSend
  <2>3. line # l
    BY <1>1, <1>2, Types DEF QueueIsOlder
  <2>4. ~AmongAt(line, arrived', confirmed')
    BY <1>1, <1>4, <2>3 DEF Unsent
  <2> QED BY <1>1, <2>2, <2>4 DEF Unsent, ToSend
<1> QED BY <1>4, <1>5, <1>6, <1>7, <1>8, <1>9

\* A flush is over: the lines it sent leave the queue, the rest stays.
LEMMA FlushEndsStep == Inv /\ FlushEnds => Inv'
<1> SUFFICES ASSUME Inv, FlushEnds PROVE Inv'
  OBVIOUS
<1> USE DEF Inv
<1> DEFINE n == flushed + 1
           l == queue[n]
           rest == SubSeq(queue, n, Len(queue))
<1>1. /\ at = "flush" /\ at' = "live" /\ line' = line /\ flushed' = flushed
      /\ dropped' = dropped /\ queue' = rest
  BY DEF FlushEnds
<1>2. flushed <= Len(queue)
  BY <1>1 DEF FlushedArrived
<1>3. /\ rest \in Seq(Lines) /\ Len(rest) = Len(queue) - flushed
      /\ DOMAIN rest = 1 .. Len(queue) - flushed
      /\ \A i \in 1 .. Len(queue) - flushed :
            rest[i] = queue[i + flushed] /\ i + flushed \in DOMAIN queue
  BY <1>2, Types, Suffix
<1> HIDE DEF rest
\* Whether or not a last attempt was made and failed, it confirmed no line.
<1>4. /\ up' \in BOOLEAN
      /\ arrived' \in Seq(Lines)
      /\ confirmed' \subseteq DOMAIN arrived'
      /\ \A x : Among(x, arrived) => Among(x, arrived')
      /\ \A x : AmongAt(x, arrived', confirmed') => AmongAt(x, arrived, confirmed)
      /\ NoneSentAgain'
  <2>1. CASE flushed = Len(queue) /\ UNCHANGED net
    BY <2>1 DEF RelayTypeOK, NoneSentAgain, AmongAt, net
  <2>2. CASE flushed < Len(queue) /\ Failed(l)
    <3>1. n \in DOMAIN queue /\ n > flushed /\ l \in Lines
      BY <2>2, Types
    <3>2. ~AmongAt(l, arrived, confirmed)
      BY <1>1, <3>1 DEF Unsent, ToSend
    <3> QED BY <2>2, <3>1, <3>2, Attempt
  <2> QED BY <2>1, <2>2 DEF FlushEnds
<1>5. RelayTypeOK'
  <2>1. Len(rest) <= QueueLen
    BY <1>2, <1>3, Types, QueueLenAssumption DEF RelayTypeOK
  <2> QED BY <1>1, <1>3, <1>4, <2>1 DEF RelayTypeOK, Lines
<1>6. QueueInOrder'
  <2>1. ASSUME NEW i \in DOMAIN rest, NEW j \in DOMAIN rest, i < j
        PROVE  rest[i] < rest[j]
    <3>1. /\ i + flushed \in DOMAIN queue /\ j + flushed \in DOMAIN queue
          /\ i + flushed < j + flushed
      BY <1>3, <2>1, Types
    <3>2. queue[i + flushed] < queue[j + flushed]
      BY <3>1 DEF QueueInOrder
    <3> QED BY <1>3, <3>2
  <2> QED BY <1>1, <2>1 DEF QueueInOrder
<1>7. QueueIsOlder'
  <2>1. \A i \in DOMAIN rest : rest[i] < line
    BY <1>1, <1>3 DEF QueueIsOlder
  <2> QED BY <1>1, <2>1 DEF QueueIsOlder
<1>8. FlushedArrived'
  BY <1>1 DEF FlushedArrived
<1>9. NoneForgotten'
  <2>1. ASSUME NEW x, Among(x, queue)
        PROVE  Among(x, arrived') \/ Among(x, rest)
    <3>1. PICK i \in DOMAIN queue : queue[i] = x
      BY <2>1 DEF Among
    <3>2. CASE i <= flushed
      <4>1. i \in 1 .. flushed
        BY <3>2, Types
      <4>2. Among(queue[i], arrived)
        BY <1>1, <4>1 DEF FlushedArrived
      <4> QED BY <1>4, <3>1, <4>2
    <3>3. CASE i > flushed
      <4>1. i - flushed \in 1 .. Len(queue) - flushed /\ i - flushed + flushed = i
        BY <3>3, Types
      <4>2. i - flushed \in DOMAIN rest /\ rest[i - flushed] = x
        BY <1>3, <3>1, <4>1
      <4> QED BY <4>2 DEF Among
    <3> QED BY <3>2, <3>3, Types
  <2> QED BY <1>1, <1>4, <2>1 DEF NoneForgotten, InHand, Lines
<1>10. Unsent'
  <2>1. ASSUME NEW i \in DOMAIN rest
        PROVE  ~AmongAt(rest[i], arrived', confirmed')
    <3>1. /\ i + flushed \in DOMAIN queue /\ i + flushed > flushed
          /\ rest[i] = queue[i + flushed]
      BY <1>3, Types
    <3>2. ~AmongAt(queue[i + flushed], arrived, confirmed)
      BY <1>1, <3>1 DEF Unsent, ToSend
    <3> QED BY <1>4, <3>1, <3>2
  <2>2. ~AmongAt(line, arrived', confirmed')
    BY <1>1, <1>4 DEF Unsent
  <2> QED BY <1>1, <2>1, <2>2 DEF Unsent
<1> QED BY <1>4, <1>5, <1>6, <1>7, <1>8, <1>9, <1>10

\* The line just read is sent.
LEMMA LiveSentStep == Inv /\ LiveSent => Inv'
<1> SUFFICES ASSUME Inv, LiveSent PROVE Inv'
  OBVIOUS
<1> USE DEF Inv
<1>1. /\ at = "live" /\ at' = "read" /\ line' = line /\ flushed' = flushed
      /\ queue' = queue /\ dropped' = dropped /\ Sent(line)
  BY DEF LiveSent
<1>2. line \in Lines /\ \A i \in DOMAIN queue : queue[i] # line
  BY <1>1, Types DEF QueueIsOlder, Lines
<1>3. ~AmongAt(line, arrived, confirmed)
  BY <1>1 DEF Unsent
<1>4. /\ up' \in BOOLEAN
      /\ arrived' \in Seq(Lines)
      /\ confirmed' \subseteq DOMAIN arrived'
      /\ \A x : Among(x, arrived) => Among(x, arrived')
      /\ \A x : AmongAt(x, arrived', confirmed') => AmongAt(x, arrived, confirmed) \/ x = line
      /\ Among(line, arrived')
      /\ NoneSentAgain'
  BY <1>1, <1>2, <1>3, Attempt
<1>5. RelayTypeOK'
  BY <1>1, <1>4 DEF RelayTypeOK, Lines
<1>6. QueueInOrder' /\ QueueIsOlder' /\ FlushedArrived'
  BY <1>1 DEF QueueInOrder, QueueIsOlder, FlushedArrived
<1>7. NoneForgotten'
  BY <1>1, <1>4 DEF NoneForgotten, InHand, Lines
<1>8. Unsent'
  <2>1. ASSUME NEW i \in DOMAIN queue
        PROVE  ~AmongAt(queue[i], arrived', confirmed')
    BY <1>1, <1>2, <1>4, <2>1 DEF Unsent, ToSend
  <2> QED BY <1>1, <2>1 DEF Unsent
<1> QED BY <1>4, <1>5, <1>6, <1>7, <1>8

\* The line just read is not sent: it is queued, or given up.
LEMMA LiveFailedStep == Inv /\ LiveFailed => Inv'
<1> SUFFICES ASSUME Inv, LiveFailed PROVE Inv'
  OBVIOUS
<1> USE DEF Inv
<1>1. /\ at = "live" /\ at' = "read" /\ line' = line /\ flushed' = flushed
      /\ Failed(line)
  BY DEF LiveFailed
<1>2. line \in Lines /\ \A i \in DOMAIN queue : queue[i] < line /\ queue[i] # line
  BY <1>1, Types DEF QueueIsOlder, Lines
<1>3. ~AmongAt(line, arrived, confirmed)
  BY <1>1 DEF Unsent
<1>4. /\ up' \in BOOLEAN
      /\ arrived' \in Seq(Lines)
      /\ confirmed' \subseteq DOMAIN arrived'
      /\ \A x : Among(x, arrived) => Among(x, arrived')
      /\ \A x : AmongAt(x, arrived', confirmed') => AmongAt(x, arrived, confirmed)
      /\ NoneSentAgain'
  BY <1>1, <1>2, <1>3, Attempt
<1>5. ~AmongAt(line, arrived', confirmed')
  BY <1>3, <1>4
<1>6. \A i \in DOMAIN queue : ~AmongAt(queue[i], arrived', confirmed')
  BY <1>1, <1>2, <1>4 DEF Unsent, ToSend
<1>7. QueueIsOlder' /\ FlushedArrived'
  BY <1>1 DEF QueueIsOlder, FlushedArrived
\* The line is given up: the queue is as before.
<1>8. CASE queue' = queue /\ dropped' = dropped \cup {line}
  <2>1. RelayTypeOK' /\ QueueInOrder'
    BY <1>1, <1>2, <1>4, <1>8 DEF RelayTypeOK, QueueInOrder, Lines
  <2>2. NoneForgotten'
    BY <1>1, <1>4, <1>8 DEF NoneForgotten, InHand, Lines
  <2>3. Unsent'
    BY <1>1, <1>6, <1>8 DEF Unsent
  <2> QED BY <1>4, <1>7, <2>1, <2>2, <2>3
\* The line is queued behind the older ones.
<1>9. CASE Len(queue) < QueueLen /\ queue' = Append(queue, line) /\ dropped' = dropped
  <2>1. /\ queue' \in Seq(Lines) /\ Len(queue') = Len(queue) + 1
        /\ DOMAIN queue' = 1 .. Len(queue) + 1
        /\ \A i \in 1 .. Len(queue) : queue'[i] = queue[i]
        /\ queue'[Len(queue) + 1] = line
    BY <1>2, <1>9, Types, AppendProperties, LenProperties
  <2>2. \A i \in DOMAIN queue' : i \in DOMAIN queue \/ (i = Len(queue) + 1 /\ queue'[i] = line)
    BY <2>1, Types
  <2>3. \A i \in DOMAIN queue : queue'[i] = queue[i] /\ i < Len(queue) + 1
    BY <2>1, Types
  <2>4. RelayTypeOK'
    <3>1. Len(queue') <= QueueLen
      BY <1>9, <2>1, Types, QueueLenAssumption
    <3> QED BY <1>1, <1>4, <1>9, <2>1, <3>1 DEF RelayTypeOK, Lines
  <2>5. QueueInOrder'
    <3>1. ASSUME NEW i \in DOMAIN queue', NEW j \in DOMAIN queue', i < j
          PROVE  queue'[i] < queue'[j]
      <4>1. i \in DOMAIN queue
        BY <2>1, <3>1, Types
      <4>2. CASE j \in DOMAIN queue
        BY <2>3, <3>1, <4>1, <4>2 DEF QueueInOrder
      <4>3. CASE j \notin DOMAIN queue
        BY <1>2, <2>2, <2>3, <4>1, <4>3
      <4> QED BY <4>2, <4>3
    <3> QED BY <3>1 DEF QueueInOrder
  <2>6. NoneForgotten'
    <3>1. \A x : Among(x, queue') <=> Among(x, queue) \/ x = line
      BY <1>2, <1>9, Types, AmongAppend
    <3> QED BY <1>1, <1>4, <1>9, <3>1 DEF NoneForgotten, InHand, Lines
  <2>7. Unsent'
    <3>1. \A i \in DOMAIN queue' : ~AmongAt(queue'[i], arrived', confirmed')
      BY <1>5, <1>6, <2>2, <2>3
    <3> QED BY <1>1, <3>1 DEF Unsent
  <2> QED BY <1>4, <1>7, <2>4, <2>5, <2>6, <2>7
<1> QED BY <1>8, <1>9 DEF LiveFailed

\* Every step of relay preserves the invariant.
LEMMA InvNext == Inv /\ [Next]_vars => Inv'
<1> SUFFICES ASSUME Inv, [Next]_vars PROVE Inv'
  OBVIOUS
<1>1. CASE UNCHANGED vars
  <2>1. /\ at' = at /\ line' = line /\ flushed' = flushed /\ queue' = queue
        /\ dropped' = dropped /\ up' = up
        /\ arrived' = arrived /\ confirmed' = confirmed
    BY <1>1 DEF vars, net
  <2>2. RelayTypeOK' /\ QueueInOrder' /\ NoneSentAgain'
    BY <2>1 DEF Inv, RelayTypeOK, QueueInOrder, NoneSentAgain, Lines
  <2>3. FlushedArrived' /\ QueueIsOlder'
    BY <2>1 DEF Inv, FlushedArrived, QueueIsOlder
  <2>4. NoneForgotten'
    BY <2>1 DEF Inv, NoneForgotten, InHand, Lines
  <2>5. Unsent'
    BY <2>1 DEF Inv, Unsent, ToSend
  <2> QED BY <2>2, <2>3, <2>4, <2>5 DEF Inv
<1> QED BY <1>1, ReadStep, StopStep, FlushSentStep, FlushEndsStep, LiveSentStep,
           LiveFailedStep, NetworkStep DEF Next

-----------------------------------------------------------------------------
(* The theorems. *)

\* The inductive invariant holds in every state relay reaches.
THEOREM RelayInvariant == Spec => []Inv
<1> QED BY InvInit, InvNext, PTL DEF Spec

\* relay's queue never exceeds Options.ReconnectQueueLen, whatever fails.
THEOREM TypeCorrect == Spec => []RelayTypeOK
<1>1. Inv => RelayTypeOK
  BY DEF Inv
<1> QED BY <1>1, RelayInvariant, PTL

\* No line relay has read is lost without being given up at a full queue.
THEOREM NoLineForgotten == Spec => []NoneForgotten
<1>1. Inv => NoneForgotten
  BY DEF Inv
<1> QED BY <1>1, RelayInvariant, PTL

\* relay (pipe.go) sends no line again that the server has confirmed, whatever was
\* lost or answered with an error before, and wherever a flush broke off.
THEOREM NothingConfirmedTwice == Spec => []NoneSentAgain
<1>1. Inv => NoneSentAgain
  BY DEF Inv
<1> QED BY <1>1, RelayInvariant, PTL

\* relay's queue always holds its lines in the order they were read.
THEOREM QueueKeepsOrder == Spec => []QueueInOrder
<1>1. Inv => QueueInOrder
  BY DEF Inv
<1> QED BY <1>1, RelayInvariant, PTL

-----------------------------------------------------------------------------
(* rdw pipe as a whole: the tee and its sink. *)

\* What the tee has read, and how much of it the sink was given.
TeeOK == /\ tee \in {"in", "pass", "copy", "close"}
         /\ \E n \in Nat : raw \in [1 .. n -> Kinds]
         /\ had \in 0 .. Len(raw)
         /\ \E n \in Nat : DOMAIN mirror = 1 .. n

\* The sink was given whole reads, in order; the last one is still due while
\* the scanner has it or is about to get it.
SinkOK == /\ mirror = [k \in 1 .. Len(mirror) |-> k]
          /\ sinkUp /\ tee \in {"in", "close"} => Len(mirror) = Len(raw)
          /\ sinkUp /\ tee \in {"pass", "copy"} => Len(mirror) = had

\* The relay ends only when the tee has nothing more.
EndOK == at = "done" => tee = "close"

TeeInv == TeeOK /\ SinkOK /\ EndOK

LEMMA TeeInitInv == PipeInit => TeeInv
<1> SUFFICES ASSUME PipeInit PROVE TeeInv
  OBVIOUS
<1>1. raw = <<>> /\ mirror = <<>> /\ had = 0 /\ tee = "in" /\ at = "read"
  BY DEF PipeInit, Init
<1>2. raw \in [1 .. 0 -> Kinds] /\ DOMAIN mirror = 1 .. 0 /\ Len(raw) = 0 /\ Len(mirror) = 0
  BY <1>1
<1>3. TeeOK
  BY <1>1, <1>2 DEF TeeOK
<1>4. mirror = [k \in 1 .. Len(mirror) |-> k]
  BY <1>1, <1>2
<1>. QED
  BY <1>1, <1>2, <1>3, <1>4 DEF TeeInv, SinkOK, EndOK

\* A step that leaves the tee and its sink alone, and does not end the relay.
LEMMA ElsewhereInv ==
    ASSUME TeeInv, UNCHANGED teeing, at' = "done" => at = "done" PROVE TeeInv'
BY DEF teeing, TeeInv, TeeOK, SinkOK, EndOK

LEMMA TeeReadsInv ==
    ASSUME TeeInv, NEW n \in Nat, NEW kinds \in [1 .. n -> Kinds], TeeReads(kinds),
           at # "done", at' = at
    PROVE  TeeInv'
<1>1. PICK m \in Nat : raw \in [1 .. m -> Kinds]
  BY DEF TeeInv, TeeOK
<1>2. /\ had' = Len(raw) /\ raw' = raw \o kinds /\ tee = "in" /\ tee' = "pass"
      /\ mirror' = mirror /\ sinkUp' = sinkUp
  BY DEF TeeReads
<1>3. raw \in Seq(Kinds) /\ kinds \in Seq(Kinds) /\ Len(raw) = m /\ Len(kinds) = n
  BY <1>1
<1>4. raw' \in Seq(Kinds) /\ Len(raw') = m + n
  BY <1>2, <1>3, ConcatProperties
<1>5. raw' \in [1 .. m + n -> Kinds] /\ m + n \in Nat
  BY <1>4
<1>6. TeeOK'
  BY <1>2, <1>3, <1>4, <1>5 DEF TeeInv, TeeOK
<1>. QED
  BY <1>2, <1>6 DEF TeeInv, SinkOK, EndOK

LEMMA TeeCopiesInv ==
    ASSUME TeeInv, TeeCopies, at # "done", at' = at PROVE TeeInv'
<1> DEFINE more == [k \in 1 .. Len(raw) - had |-> had + k]
<1>1. /\ tee = "copy" /\ tee' = "in" /\ raw' = raw /\ had' = had
      /\ \/ sinkUp /\ sinkUp' = sinkUp /\ mirror' = mirror \o more
         \/ sinkUp' = FALSE /\ mirror' = mirror
  BY DEF TeeCopies
<1>2. had \in Nat /\ Len(raw) \in Nat /\ had <= Len(raw)
  <2>1. PICK n \in Nat : raw \in [1 .. n -> Kinds]
    BY DEF TeeInv, TeeOK
  <2>2. Len(raw) = n
    BY <2>1
  <2>. QED
    BY <2>2 DEF TeeInv, TeeOK
<1>3. CASE sinkUp /\ sinkUp' = sinkUp /\ mirror' = mirror \o more
  <2>1. Len(mirror) = had /\ mirror = [k \in 1 .. had |-> k]
    BY <1>1, <1>3 DEF TeeInv, SinkOK
  <2>2. mirror \in Seq(Nat)
    BY <1>2, <2>1
  <2>3. more \in Seq(Nat) /\ Len(more) = Len(raw) - had
    BY <1>2
  <2>4. mirror' \in Seq(Nat) /\ Len(mirror') = Len(raw)
    BY <1>2, <1>3, <2>1, <2>2, <2>3
  <2>5. ASSUME NEW k \in 1 .. Len(raw) PROVE mirror'[k] = k
    BY <1>2, <1>3, <2>1, <2>2, <2>3, <2>5
  <2>6. mirror' = [k \in 1 .. Len(mirror') |-> k]
    BY <2>4, <2>5
  <2>7. DOMAIN mirror' = 1 .. Len(raw)
    BY <2>4
  <2>. QED
    BY <1>1, <1>2, <1>3, <2>4, <2>6, <2>7 DEF TeeInv, TeeOK, SinkOK, EndOK
<1>4. CASE sinkUp' = FALSE /\ mirror' = mirror
  BY <1>1, <1>4 DEF TeeInv, TeeOK, SinkOK, EndOK
<1>. QED
  BY <1>1, <1>3, <1>4

LEMMA ScanEndInv == ASSUME TeeInv, ScanEnd PROVE TeeInv'
<1>1. UNCHANGED teeing /\ tee = "close"
  BY DEF ScanEnd
<1>. QED
  BY <1>1 DEF teeing, TeeInv, TeeOK, SinkOK, EndOK

LEMMA PassesInv == ASSUME TeeInv, Passes PROVE TeeInv'
<1>1. /\ tee = "pass" /\ tee' = "copy" /\ at = "read" /\ at' = at
      /\ UNCHANGED <<raw, had, mirror, sinkUp>>
  BY DEF Passes, Asks, vars
<1>. QED
  BY <1>1 DEF TeeInv, TeeOK, SinkOK, EndOK

LEMMA InputEndsInv == ASSUME TeeInv, InputEnds, at # "done" PROVE TeeInv'
<1>1. /\ tee = "in" /\ tee' = "close" /\ UNCHANGED <<raw, had, mirror, sinkUp>>
  BY DEF InputEnds
<1>. QED
  BY <1>1 DEF TeeInv, TeeOK, SinkOK, EndOK

LEMMA TeeNextInv == TeeInv /\ [PipeNext]_allvars => TeeInv'
<1> SUFFICES ASSUME TeeInv, [PipeNext]_allvars PROVE TeeInv'
  OBVIOUS
<1>1. ASSUME NEW from, NEW to, Prepare(from, to) PROVE TeeInv'
  BY <1>1, ElsewhereInv DEF Prepare, vars
<1>2. CASE AttachFilter \/ FiltersDone
  BY <1>2, ElsewhereInv DEF AttachFilter, FiltersDone, vars
<1>3. ASSUME at # "done", NEW n \in 1 .. MaxRead, NEW kinds \in [1 .. n -> Kinds],
             TeeReads(kinds)
      PROVE  TeeInv'
  BY <1>3, TeeReadsInv, MaxRawAssumption DEF TeeReads, vars
<1>4. CASE at # "done" /\ TeeCopies
  BY <1>4, TeeCopiesInv DEF TeeCopies, vars
<1>5. CASE ScanWithin
  BY <1>5, ElsewhereInv DEF ScanWithin, vars
<1>6. CASE ScanLine
  BY <1>6, ElsewhereInv DEF ScanLine, Complete, Read
<1>7. CASE Relays
  <2>1. UNCHANGED teeing
    BY <1>7 DEF Relays, pipevars
  <2>2. at' = "done" => at = "done"
    BY <1>7 DEF Relays, FlushSent, FlushEnds, LiveSent, LiveFailed, Network
  <2>. QED
    BY <2>1, <2>2, ElsewhereInv
<1>8. CASE UNCHANGED allvars
  BY <1>8, ElsewhereInv DEF allvars, pipevars, vars
<1>. QED
  BY <1>1, <1>2, <1>3, <1>4, <1>5, <1>6, <1>7, <1>8, InputEndsInv, PassesInv, ScanEndInv
  DEF PipeNext

-----------------------------------------------------------------------------
\* However its input is cut into reads and wherever the sink breaks, the mirror
\* (mirror.go, Tee) keeps up with the relay and has everything at its end.
THEOREM MirrorComplete == PipeSpec => []MirrorKeepsUp
<1>1. TeeInv => MirrorKeepsUp
  BY DEF TeeInv, TeeOK, SinkOK, EndOK, MirrorKeepsUp
<1>. QED
  BY <1>1, TeeInitInv, TeeNextInv, PTL DEF PipeSpec

-----------------------------------------------------------------------------
(* The reader: from raw lines to logical ones. *)

\* A logical line, from its first to its last raw line.
Span == [first : Nat, last : Nat]

\* What the scanner has taken lies within what was passed to it.
ScanOK == /\ \E n \in Nat : logical \in [1 .. n -> Span]
          /\ scanned \in Nat /\ passed \in Nat
          /\ scanned <= passed /\ passed <= Len(raw)
          /\ tee # "pass" => passed = Len(raw)
          /\ block \in {"none", "image", "svg"}

\* The last raw line of the first k logical lines.
Ends(k) == IF k = 0 THEN 0 ELSE logical[k].last

\* A line of its own is one raw line; a block holds its end at its end only ...
Cut(e) == IF raw[e.first] \notin {"image", "svg"} THEN e.last = e.first
          ELSE \A m \in e.first + 1 .. e.last : raw[m] = EndOf(raw[e.first]) => m = e.last

\* ... and has one, unless the input ended.
Ended(e) == raw[e.first] \in {"image", "svg"} => raw[e.last] = EndOf(raw[e.first])

InputOver == tee = "close" /\ scanned = passed /\ block = "none"

LineOK(k) == /\ logical[k].first = Ends(k - 1) + 1
             /\ logical[k].first <= logical[k].last
             /\ logical[k].last <= scanned
             /\ Cut(logical[k])
             /\ Ended(logical[k]) \/ (k = Len(logical) /\ InputOver)

\* What was scanned since is the block being read, which has not ended.
BlockOK == IF block = "none" THEN Ends(Len(logical)) = scanned
           ELSE /\ Ends(Len(logical)) < scanned
                /\ raw[Ends(Len(logical)) + 1] = block
                /\ \A m \in Ends(Len(logical)) + 2 .. scanned : raw[m] # EndOf(block)

ReadInv == /\ ScanOK
           /\ \A k \in DOMAIN logical : LineOK(k)
           /\ BlockOK
           /\ at = "done" => block = "none"

LEMMA ReadInitInv == PipeInit => ReadInv
<1> SUFFICES ASSUME PipeInit PROVE ReadInv
  OBVIOUS
<1>1. /\ raw = <<>> /\ logical = <<>> /\ scanned = 0 /\ passed = 0 /\ block = "none"
      /\ tee = "in" /\ at = "read"
  BY DEF PipeInit, Init
<1>2. logical \in [1 .. 0 -> Span] /\ Len(raw) = 0 /\ Len(logical) = 0
      /\ DOMAIN logical = {}
  BY <1>1
<1>. QED
  BY <1>1, <1>2 DEF ReadInv, ScanOK, BlockOK, Ends

\* Both sequences are sequences.
LEMMA LineTypes ==
    ASSUME TeeOK, ScanOK
    PROVE  /\ raw \in Seq(Kinds) /\ Len(raw) \in Nat
           /\ logical \in Seq(Span)
           /\ Len(logical) \in Nat /\ DOMAIN logical = 1 .. Len(logical)
           /\ \A k \in 1 .. Len(logical) : logical[k].first \in Nat /\ logical[k].last \in Nat
<1>1. PICK n \in Nat : raw \in [1 .. n -> Kinds]
  BY DEF TeeOK
<1>2. PICK m \in Nat : logical \in [1 .. m -> Span]
  BY DEF ScanOK
<1>3. \A e \in Span : e.first \in Nat /\ e.last \in Nat
  BY DEF Span
<1>. QED
  BY <1>1, <1>2, <1>3

LEMMA FromIsNext == ASSUME TeeOK, ScanOK PROVE From = Ends(Len(logical)) + 1
<1>1. Len(logical) \in Nat /\ (logical = <<>> <=> Len(logical) = 0)
  BY LineTypes
<1>. QED
  BY <1>1 DEF From, Ends, Last

\* A step that adds raw lines and leaves the reader alone.
LEMMA AloneInv ==
    ASSUME TeeOK, ReadInv, UNCHANGED reading, at' = "done" => at = "done",
           Len(raw') \in Nat, Len(raw) <= Len(raw'),
           \A m \in 1 .. Len(raw) : raw'[m] = raw[m],
           tee = "close" => tee' = "close",
           tee' # "pass" => passed = Len(raw')
    PROVE  ReadInv'
<1>1. /\ logical' = logical /\ scanned' = scanned /\ passed' = passed /\ block' = block
  BY DEF reading
<1>2. /\ Len(raw) \in Nat /\ scanned \in Nat /\ passed \in Nat
      /\ scanned <= Len(raw) /\ passed <= Len(raw)
      /\ Len(logical) \in Nat /\ DOMAIN logical = 1 .. Len(logical)
      /\ \A k \in 1 .. Len(logical) : logical[k].first \in Nat /\ logical[k].last \in Nat
  BY LineTypes DEF ReadInv, ScanOK
<1>3. ScanOK'
  BY <1>1, <1>2 DEF ReadInv, ScanOK
<1>4. Ends(Len(logical)) \in Nat
  BY <1>2 DEF Ends
<1>5. BlockOK'
  <2>1. PICK e \in Nat : e = Ends(Len(logical))
    BY <1>4
  <2>2. Ends(Len(logical))' = e
    BY <1>1, <2>1 DEF Ends
  <2>3. CASE block = "none"
    BY <1>1, <2>1, <2>2, <2>3 DEF ReadInv, BlockOK
  <2>4. CASE block # "none"
    <3>1. /\ e < scanned /\ raw[e + 1] = block
          /\ \A m \in e + 2 .. scanned : raw[m] # EndOf(block)
      BY <2>1, <2>4 DEF ReadInv, BlockOK
    <3>2. e + 1 \in 1 .. Len(raw) /\ \A m \in e + 2 .. scanned : m \in 1 .. Len(raw)
      BY <1>2, <3>1
    <3>3. raw'[e + 1] = block /\ \A m \in e + 2 .. scanned : raw'[m] # EndOf(block)
      BY <3>1, <3>2
    <3>. QED
      BY <1>1, <2>2, <2>4, <3>1, <3>3 DEF BlockOK, EndOf
  <2>. QED
    BY <2>3, <2>4
<1>6. ASSUME NEW k \in 1 .. Len(logical) PROVE LineOK(k)'
  <2>1. LineOK(k) /\ Ends(k - 1) \in Nat
    BY <1>2, <1>6 DEF ReadInv, Ends
  <2>2. PICK f \in Nat, l \in Nat : logical[k].first = f /\ logical[k].last = l
    BY <1>2, <1>6
  <2>3. f = Ends(k - 1) + 1 /\ f <= l /\ l <= scanned
    BY <2>1, <2>2 DEF LineOK
  <2>4. f \in 1 .. Len(raw) /\ l \in 1 .. Len(raw) /\ \A m \in f + 1 .. l : m \in 1 .. Len(raw)
    BY <1>2, <2>1, <2>3
  <2>5. raw'[f] = raw[f] /\ raw'[l] = raw[l] /\ \A m \in f + 1 .. l : raw'[m] = raw[m]
    BY <2>4
  <2>6. Cut(logical[k])'
    BY <1>1, <2>1, <2>2, <2>5 DEF LineOK, Cut
  <2>7. Ended(logical[k]) => Ended(logical[k])'
    BY <1>1, <2>2, <2>5 DEF Ended
  <2>. QED
    BY <1>1, <2>1, <2>6, <2>7 DEF LineOK, InputOver, Ends
<1>. QED
  BY <1>1, <1>2, <1>3, <1>5, <1>6 DEF ReadInv

\* What all the lemmas on a reader's step start from.
LEMMA ReadFacts ==
    ASSUME TeeOK, ReadInv
    PROVE  /\ raw \in Seq(Kinds) /\ Len(raw) \in Nat /\ scanned \in Nat /\ passed \in Nat
           /\ scanned <= passed /\ passed <= Len(raw)
           /\ logical \in Seq(Span) /\ Len(logical) \in Nat
           /\ DOMAIN logical = 1 .. Len(logical)
           /\ Ends(Len(logical)) \in Nat
           /\ From = Ends(Len(logical)) + 1
           /\ \A k \in 1 .. Len(logical) : Ends(k) \in Nat
<1>1. /\ raw \in Seq(Kinds) /\ Len(raw) \in Nat /\ logical \in Seq(Span) /\ Len(logical) \in Nat
      /\ DOMAIN logical = 1 .. Len(logical)
      /\ \A k \in 1 .. Len(logical) : logical[k].last \in Nat
      /\ From = Ends(Len(logical)) + 1
  BY LineTypes, FromIsNext DEF ReadInv
<1>2. scanned \in Nat /\ passed \in Nat /\ scanned <= passed /\ passed <= Len(raw)
  BY DEF ReadInv, ScanOK
<1>3. \A k \in 1 .. Len(logical) : Ends(k) \in Nat
  BY <1>1 DEF Ends
<1>4. Ends(Len(logical)) \in Nat
  BY <1>1 DEF Ends
<1>. QED
  BY <1>1, <1>2, <1>3, <1>4

\* With something left to scan or pass, or a block that has not ended, the lines
\* there are have their ends; they stay what they are when more is scanned.
LEMMA LinesStay ==
    ASSUME TeeOK, ReadInv, ~InputOver,
           UNCHANGED <<raw, logical>>, scanned' \in Nat, scanned <= scanned'
    PROVE  \A k \in DOMAIN logical' : LineOK(k)'
<1>1. ASSUME NEW k \in 1 .. Len(logical) PROVE LineOK(k)'
  <2>1. LineOK(k)
    BY <1>1, ReadFacts DEF ReadInv
  <2>2. logical[k].last \in Nat /\ scanned \in Nat
    BY <1>1, LineTypes DEF ReadInv, ScanOK
  <2>3. Ended(logical[k])
    BY <2>1 DEF LineOK
  <2>4. Cut(logical[k])' /\ Ended(logical[k])' /\ Ends(k - 1)' = Ends(k - 1)
    BY <2>1, <2>3 DEF LineOK, Cut, Ended, Ends
  <2>. QED
    BY <2>1, <2>2, <2>4 DEF LineOK
<1>. QED
  BY <1>1, ReadFacts

LEMMA PassesRead == ASSUME TeeOK, ReadInv, Passes PROVE ReadInv'
<1>1. /\ tee = "pass" /\ tee' = "copy" /\ at' = at /\ scanned = passed /\ passed' = Len(raw)
      /\ UNCHANGED <<raw, logical, block, scanned>>
  BY DEF Passes, Asks, vars
<1>2. scanned \in Nat /\ Len(raw) \in Nat /\ scanned <= Len(raw)
  BY ReadFacts
<1>3. \A k \in DOMAIN logical' : LineOK(k)'
  BY <1>1, <1>2, LinesStay DEF InputOver
<1>4. ScanOK'
  BY <1>1, <1>2 DEF ReadInv, ScanOK
<1>5. BlockOK'
  BY <1>1 DEF ReadInv, BlockOK, Ends
<1>. QED
  BY <1>1, <1>3, <1>4, <1>5 DEF ReadInv

LEMMA ScanWithinRead == ASSUME TeeOK, ReadInv, ScanWithin PROVE ReadInv'
<1>1. /\ scanned < passed /\ scanned' = scanned + 1 /\ at = "read" /\ at' = at /\ tee' = tee
      /\ UNCHANGED <<raw, passed, logical>>
      /\ \/ block = "none" /\ Next1 \in {"image", "svg"} /\ block' = Next1
         \/ block # "none" /\ Next1 # EndOf(block) /\ block' = block
  BY DEF ScanWithin, Scans, Asks, vars, teeing
<1>2. PICK e \in Nat : e = Ends(Len(logical))
  BY ReadFacts
<1>3. Ends(Len(logical))' = e
  BY <1>1, <1>2 DEF Ends
<1>4. scanned \in Nat /\ passed \in Nat /\ scanned <= passed
  BY ReadFacts
<1>5. \A k \in DOMAIN logical' : LineOK(k)'
  BY <1>1, <1>4, LinesStay DEF InputOver
<1>6. ScanOK'
  BY <1>1, <1>4 DEF ReadInv, ScanOK
<1>7. BlockOK'
  <2>1. CASE block = "none" /\ Next1 \in {"image", "svg"} /\ block' = Next1
    <3>1. e = scanned
      BY <1>2, <2>1 DEF ReadInv, BlockOK
    <3>2. raw'[e + 1] = block' /\ block' # "none" /\ e < scanned'
          /\ \A m \in e + 2 .. scanned' : FALSE
      BY <1>1, <1>4, <2>1, <3>1 DEF Next1
    <3>. QED
      BY <1>3, <3>2 DEF BlockOK
  <2>2. CASE block # "none" /\ Next1 # EndOf(block) /\ block' = block
    <3>1. /\ e < scanned /\ raw[e + 1] = block
          /\ \A m \in e + 2 .. scanned : raw[m] # EndOf(block)
      BY <1>2, <2>2 DEF ReadInv, BlockOK
    <3>2. \A m \in e + 2 .. scanned + 1 : m \in e + 2 .. scanned \/ m = scanned + 1
      BY <1>2, <1>4
    <3>3. \A m \in e + 2 .. scanned' : raw'[m] # EndOf(block)
      BY <1>1, <2>2, <3>1, <3>2 DEF Next1
    <3>4. e < scanned' /\ raw'[e + 1] = block'
      BY <1>1, <1>2, <1>4, <2>2, <3>1
    <3>. QED
      BY <1>1, <1>3, <2>2, <3>3, <3>4 DEF BlockOK, EndOf
  <2>. QED
    BY <1>1, <2>1, <2>2
<1>. QED
  BY <1>1, <1>5, <1>6, <1>7 DEF ReadInv

\* A logical line is complete: from where the last one ended to what is scanned.
LEMMA CompleteRead ==
    ASSUME TeeOK, ReadInv, Complete(scanned'), UNCHANGED <<raw, tee, passed>>, ~InputOver,
           at # "done", scanned' \in Nat, scanned <= scanned', scanned' <= passed,
           Ends(Len(logical)) < scanned',
           Cut([first |-> Ends(Len(logical)) + 1, last |-> scanned']),
           \/ Ended([first |-> Ends(Len(logical)) + 1, last |-> scanned'])
           \/ tee = "close" /\ scanned' = passed
    PROVE  ReadInv'
<1>1. PICK n \in Nat, e \in Nat : n = Len(logical) /\ e = Ends(n)
  BY ReadFacts
<1>2. PICK new \in Span : new = [first |-> e + 1, last |-> scanned']
  BY <1>1 DEF Span
<1>3. /\ block' = "none" /\ logical' = Append(logical, new) /\ at' = "flush"
      /\ new.first = e + 1 /\ new.last = scanned'
  BY <1>1, <1>2, ReadFacts DEF Complete, Read
<1>4. /\ logical \in Seq(Span) /\ Len(logical) = n /\ DOMAIN logical = 1 .. n
      /\ raw' = raw /\ tee' = tee /\ passed' = passed
  BY <1>1, ReadFacts
<1>5. /\ logical' \in Seq(Span) /\ Len(logical') = n + 1
      /\ DOMAIN logical' = 1 .. n + 1
      /\ \A k \in 1 .. n : logical'[k] = logical[k]
      /\ logical'[n + 1] = new
  BY <1>3, <1>4, AppendProperties
<1>6. ASSUME NEW k \in 1 .. n PROVE LineOK(k)'
  <2>1. LineOK(k)
    BY <1>4, <1>6 DEF ReadInv
  <2>2. logical[k].last \in Nat /\ scanned \in Nat
    BY <1>4, <1>6, LineTypes DEF ReadInv, ScanOK
  <2>3. Ended(logical[k])
    BY <2>1 DEF LineOK
  <2>4. k = 1 \/ k - 1 \in 1 .. n
    BY <1>6
  <2>5. logical'[k] = logical[k] /\ Ends(k - 1)' = Ends(k - 1)
    BY <1>5, <1>6, <2>4 DEF Ends
  <2>6. Cut(logical[k])' /\ Ended(logical[k])'
    BY <1>4, <1>5, <1>6, <2>1, <2>3 DEF LineOK, Cut, Ended
  <2>. QED
    BY <2>1, <2>2, <2>5, <2>6 DEF LineOK
<1>7. LineOK(n + 1)'
  <2>1. n + 1 - 1 = n /\ Ends(n)' = e
    BY <1>1, <1>5 DEF Ends
  <2>2. Cut(new)' /\ (Ended(new)' \/ (tee = "close" /\ scanned' = passed))
    BY <1>1, <1>2, <1>3, <1>4 DEF Cut, Ended
  <2>3. (Cut(logical[n + 1]) /\ (Ended(logical[n + 1]) \/ (n + 1 = Len(logical) /\ InputOver)))'
    BY <1>3, <1>4, <1>5, <2>2 DEF Cut, Ended, InputOver
  <2>4. /\ logical'[n + 1].first = e + 1 /\ logical'[n + 1].last = scanned'
        /\ e + 1 <= scanned' /\ scanned' <= scanned'
    BY <1>1, <1>3, <1>5
  <2>. QED
    BY <2>1, <2>3, <2>4 DEF LineOK
<1>8. \A k \in DOMAIN logical' : LineOK(k)'
  <2>1. \A k \in 1 .. n + 1 : k \in 1 .. n \/ k = n + 1
    OBVIOUS
  <2>. QED
    BY <1>5, <1>6, <1>7, <2>1
<1>9. ScanOK'
  <2>1. logical' \in [1 .. n + 1 -> Span]
    BY <1>5
  <2>. QED
    BY <1>1, <1>3, <1>4, <2>1 DEF ReadInv, ScanOK
<1>10. BlockOK'
  BY <1>3, <1>5 DEF BlockOK, Ends
<1>. QED
  BY <1>3, <1>8, <1>9, <1>10 DEF ReadInv

LEMMA ScanLineRead == ASSUME TeeOK, ReadInv, ScanLine PROVE ReadInv'
<1>1. /\ scanned < passed /\ scanned' = scanned + 1 /\ at = "read" /\ Complete(scanned')
      /\ UNCHANGED <<raw, tee, passed>>
      /\ \/ block = "none" /\ Next1 \notin {"image", "svg"}
         \/ block # "none" /\ Next1 = EndOf(block)
  BY DEF ScanLine, Scans, Asks, teeing
<1>2. PICK e \in Nat : e = Ends(Len(logical))
  BY ReadFacts
<1>3. scanned \in Nat /\ passed \in Nat
  BY ReadFacts
<1> DEFINE new == [first |-> e + 1, last |-> scanned']
<1>4. e < scanned' /\ Cut(new) /\ Ended(new)
  <2>1. CASE block = "none" /\ Next1 \notin {"image", "svg"}
    <3>1. e = scanned
      BY <1>2, <2>1 DEF ReadInv, BlockOK
    <3>. QED
      BY <1>1, <1>3, <2>1, <3>1 DEF Cut, Ended, Next1
  <2>2. CASE block # "none" /\ Next1 = EndOf(block)
    <3>1. /\ e < scanned /\ raw[e + 1] = block /\ block \in {"image", "svg"}
          /\ \A m \in e + 2 .. scanned : raw[m] # EndOf(block)
      BY <1>2, <2>2 DEF ReadInv, BlockOK, ScanOK
    <3>2. \A m \in e + 2 .. scanned + 1 : m \in e + 2 .. scanned \/ m = scanned + 1
      BY <1>3
    <3>3. \A m \in e + 2 .. scanned + 1 : raw[m] = EndOf(block) => m = scanned + 1
      BY <3>1, <3>2
    <3>4. new.first = e + 1 /\ new.last = scanned + 1 /\ new.first + 1 = e + 2
      BY <1>1, <1>2
    <3>5. Cut(new)
      BY <3>1, <3>3, <3>4 DEF Cut
    <3>6. Ended(new)
      BY <2>2, <3>1, <3>4 DEF Ended, Next1
    <3>. QED
      BY <1>1, <1>3, <3>1, <3>5, <3>6
  <2>. QED
    BY <1>1, <2>1, <2>2
<1>5. ~InputOver /\ scanned' \in Nat /\ scanned <= scanned' /\ scanned' <= passed
  BY <1>1, <1>3 DEF InputOver
<1>. QED
  BY <1>1, <1>2, <1>4, <1>5, CompleteRead

LEMMA ScanEndRead == ASSUME TeeOK, ReadInv, ScanEnd PROVE ReadInv'
<1>1. /\ at = "read" /\ scanned = passed /\ tee = "close" /\ scanned' = scanned
      /\ UNCHANGED <<raw, tee, passed>>
      /\ \/ block # "none" /\ Complete(scanned)
         \/ block = "none" /\ UNCHANGED <<block, logical>>
  BY DEF ScanEnd, Asks, teeing
<1>2. CASE block # "none" /\ Complete(scanned)
  <2>1. PICK e \in Nat : e = Ends(Len(logical))
    BY ReadFacts
  <2> DEFINE new == [first |-> e + 1, last |-> scanned']
  <2>2. /\ e < scanned /\ raw[e + 1] = block /\ block \in {"image", "svg"}
        /\ \A m \in e + 2 .. scanned : raw[m] # EndOf(block)
    BY <1>2, <2>1 DEF ReadInv, BlockOK, ScanOK
  <2>3. new.first = e + 1 /\ new.last = scanned /\ new.first + 1 = e + 2
    BY <1>1, <2>1
  <2>4. Cut(new)
    BY <2>2, <2>3 DEF Cut
  <2>5. scanned \in Nat /\ scanned <= scanned /\ ~InputOver
    BY <1>2, ReadFacts DEF InputOver
  <2>. QED
    BY <1>1, <1>2, <2>1, <2>2, <2>4, <2>5, CompleteRead
<1>3. CASE block = "none" /\ UNCHANGED <<block, logical>>
  BY <1>1, <1>3 DEF ReadInv, ScanOK, BlockOK, LineOK, Cut, Ended, InputOver, Ends
<1>. QED
  BY <1>1, <1>2, <1>3

LEMMA ReadNextInv == TeeInv /\ ReadInv /\ [PipeNext]_allvars => ReadInv'
<1> SUFFICES ASSUME TeeOK, ReadInv, [PipeNext]_allvars PROVE ReadInv'
  BY DEF TeeInv
<1>0. /\ Len(raw) \in Nat /\ (tee # "pass" => passed = Len(raw))
  BY ReadFacts DEF ReadInv, ScanOK
<1>1. ASSUME NEW from, NEW to, Prepare(from, to) PROVE ReadInv'
  BY <1>0, <1>1, AloneInv DEF Prepare, vars, teeing
<1>2. CASE AttachFilter \/ FiltersDone
  BY <1>0, <1>2, AloneInv DEF AttachFilter, FiltersDone, vars, teeing
<1>3. ASSUME NEW n \in 1 .. MaxRead, NEW kinds \in [1 .. n -> Kinds], TeeReads(kinds)
      PROVE  ReadInv'
  <2>1. /\ raw' = raw \o kinds /\ tee = "in" /\ tee' = "pass" /\ at' = at /\ UNCHANGED reading
    BY <1>3 DEF TeeReads, vars
  <2>2. raw \in Seq(Kinds) /\ kinds \in Seq(Kinds) /\ Len(kinds) \in Nat
    BY <1>3, ReadFacts, MaxRawAssumption
  <2>3. /\ Len(raw') = Len(raw) + Len(kinds)
        /\ \A m \in 1 .. Len(raw) : raw'[m] = raw[m]
    BY <2>1, <2>2, ConcatProperties
  <2>. QED
    BY <1>0, <2>1, <2>2, <2>3, AloneInv
<1>4. CASE InputEnds
  BY <1>0, <1>4, AloneInv DEF InputEnds, vars
<1>5. CASE TeeCopies
  BY <1>0, <1>5, AloneInv DEF TeeCopies, vars
<1>6. CASE Relays
  <2>1. UNCHANGED <<teeing, reading>> /\ (at' = "done" => at = "done")
    BY <1>6 DEF Relays, pipevars, FlushSent, FlushEnds, LiveSent, LiveFailed, Network
  <2>. QED
    BY <1>0, <2>1, AloneInv DEF teeing
<1>7. CASE UNCHANGED allvars
  BY <1>0, <1>7, AloneInv DEF allvars, pipevars, vars, teeing
<1>. QED
  BY <1>1, <1>2, <1>3, <1>4, <1>5, <1>6, <1>7, PassesRead, ScanWithinRead, ScanLineRead,
     ScanEndRead
  DEF PipeNext

\* However the input is cut into reads, wherever it ends and however the relay's
\* sending goes, the lines relayed are whole blocks of what was read
\* (pipe.go, hybridReader): nothing is left out, split early or read twice.
THEOREM BlocksStayWhole == PipeSpec => []WholeBlocks
<1>1. TeeOK /\ ReadInv => WholeBlocks
  <2> SUFFICES ASSUME TeeOK, ReadInv PROVE WholeBlocks
    OBVIOUS
  <2>1. ASSUME NEW k \in DOMAIN logical
        PROVE  /\ logical[k].first = IF k = 1 THEN 1 ELSE logical[k - 1].last + 1
               /\ Cut(logical[k])
               /\ k # Len(logical) => Ended(logical[k])
    BY <2>1, ReadFacts DEF ReadInv, LineOK, Ends
  <2>2. at = "done" => IF logical = <<>> THEN scanned = 0 ELSE Last(logical).last = scanned
    <3>1. at = "done" => From = scanned + 1
      BY ReadFacts DEF ReadInv, BlockOK
    <3>2. scanned \in Nat /\ (logical # <<>> => Last(logical).last \in Nat)
      BY ReadFacts, LineTypes DEF Last, ReadInv
    <3>. QED
      BY <3>1, <3>2 DEF From
  <2>3. \A k \in 1 .. Len(logical) - 1 : k \in DOMAIN logical /\ k # Len(logical)
    <3>1. PICK n \in Nat : n = Len(logical) /\ DOMAIN logical = 1 .. n
      BY ReadFacts
    <3>. QED
      BY <3>1
  <2>. QED
    BY <2>1, <2>2, <2>3 DEF WholeBlocks, Cut, Ended
<1>2. TeeInv => TeeOK
  BY DEF TeeInv
<1>. QED
  BY <1>1, <1>2, TeeInitInv, TeeNextInv, ReadInitInv, ReadNextInv, PTL DEF PipeSpec

-----------------------------------------------------------------------------
\* The relay with the reader and the tee around it (pipe.go, runPipe) behaves as
\* the relay on its own does: what is proved of that holds in the whole.
THEOREM PipeImplementsRelay == PipeSpec => Spec
<1>1. PipeInit => Init
  BY DEF PipeInit
<1>2. ASSUME [PipeNext]_allvars PROVE [Next]_vars
  <2>1. ASSUME NEW from, NEW to, Prepare(from, to) PROVE UNCHANGED vars
    BY <2>1 DEF Prepare
  <2>2. ASSUME NEW kinds, TeeReads(kinds) PROVE UNCHANGED vars
    BY <2>2 DEF TeeReads
  <2>3. CASE AttachFilter \/ FiltersDone \/ InputEnds \/ TeeCopies \/ Passes \/ ScanWithin
    BY <2>3 DEF AttachFilter, FiltersDone, InputEnds, TeeCopies, Passes, ScanWithin
  <2>4. CASE ScanLine \/ ScanEnd
    BY <2>4 DEF ScanLine, ScanEnd, Complete, Next
  <2>5. CASE Relays
    BY <2>5 DEF Relays, Next
  <2>6. CASE UNCHANGED allvars
    BY <2>6 DEF allvars
  <2>. QED
    BY <1>2, <2>1, <2>2, <2>3, <2>4, <2>5, <2>6 DEF PipeNext
<1>. QED
  BY <1>1, <1>2, PTL DEF PipeSpec, Spec

\* No logical line is forgotten by rdw pipe, blocks and filters included.
THEOREM PipeForgetsNoLine == PipeSpec => []NoneForgotten
BY PipeImplementsRelay, NoLineForgotten, PTL

-----------------------------------------------------------------------------
(* The browser's keyboard and mouse. *)

\* The prompt that is visible, and the menu.
MenuTypeOK == menu \in Panes \cup {NoPane}

\* While no key moved the focus, it is where the menu was opened, and a prompt
\* asks for the pane that was meant.
FocusIsMenus == /\ menu # NoPane /\ ~strayed => focusedPane = menu
                /\ overlay # NoPrompt /\ ~strayed => overlay.id = overlay.aimed

\* Whoever has the keyboard, the flags say so: while the search bar's input has it
\* the page is in search mode, while the prompt's has it the prompt is visible.
KeyboardFlags == /\ typing = "search" => mode = "search"
                 /\ typing = "prompt" => overlay # NoPrompt

KeysInv == /\ KeyboardFlags
       /\ MenuTypeOK
       /\ FocusIsMenus
       /\ MenuActsWhereOpened

LEMMA KeysInitInv == KeysInit => KeysInv
BY DEF KeysInit, KeysInv, KeyboardFlags, MenuTypeOK, FocusIsMenus, MenuActsWhereOpened,
       NoPrompt

\* What a key bound to an action does, wherever the keyboard was.
LEMMA DispatchInv ==
    ASSUME KeysInv, NEW action, NEW t, Dispatch(action, t), screen' = screen,
           overlay = NoPrompt, mode # "search",
           t \in {typing, "page"}
    PROVE  KeysInv'
<1>0. typing # "search" /\ typing # "prompt"
  BY DEF KeysInv, KeyboardFlags
<1>1. CASE /\ typing' = t
           /\ UNCHANGED <<focusedPane, strayed, modes, overlay, menu, issued>>
  BY <1>0, <1>1 DEF KeysInv, KeyboardFlags, MenuTypeOK, FocusIsMenus, MenuActsWhereOpened, modes
<1>2. CASE /\ FocusRelative
           /\ typing' = t
           /\ UNCHANGED <<modes, overlay, menu, issued>>
  BY <1>0, <1>2 DEF KeysInv, KeyboardFlags, MenuTypeOK, FocusIsMenus, MenuActsWhereOpened,
                    modes, FocusRelative
<1>3. CASE /\ SetMode(IF mode = "swap" THEN "normal" ELSE "swap")
           /\ typing' = t
           /\ UNCHANGED <<focusedPane, strayed, bar, overlay, menu, issued>>
  BY <1>0, <1>3 DEF KeysInv, KeyboardFlags, MenuTypeOK, FocusIsMenus, MenuActsWhereOpened
<1>4. CASE /\ action \in PromptActions
           /\ overlay' = [action |-> action, id |-> focusedPane, aimed |-> focusedPane]
           /\ typing' = "prompt"
           /\ UNCHANGED <<focusedPane, strayed, modes, menu, issued>>
  <2>1. overlay' # NoPrompt /\ overlay'.id = overlay'.aimed
    BY <1>4, NoneAssumption DEF NoPrompt
  <2>. QED
    BY <1>4, <2>1 DEF KeysInv, KeyboardFlags, MenuTypeOK, FocusIsMenus, MenuActsWhereOpened, modes
<1>5. CASE /\ Issue(action, focusedPane, focusedPane)
           /\ typing' = t
           /\ UNCHANGED <<focusedPane, strayed, modes, overlay, menu>>
  BY <1>0, <1>5 DEF KeysInv, KeyboardFlags, MenuTypeOK, FocusIsMenus, MenuActsWhereOpened, modes, Issue
<1>6. CASE /\ OpenSearch
           /\ UNCHANGED <<focusedPane, strayed, overlay, menu, issued>>
  BY <1>0, <1>6 DEF KeysInv, KeyboardFlags, MenuTypeOK, FocusIsMenus, MenuActsWhereOpened,
                    OpenSearch, SetMode
<1>7. CASE /\ CloseSearch(t)
           /\ menu' = NoPane
           /\ UNCHANGED <<focusedPane, strayed, overlay, issued>>
  BY <1>0, <1>7 DEF KeysInv, KeyboardFlags, MenuTypeOK, FocusIsMenus, MenuActsWhereOpened,
                    CloseSearch, SetMode
<1>. QED
  BY <1>1, <1>2, <1>3, <1>4, <1>5, <1>6, <1>7 DEF Dispatch

\* A key, with the prompt in front of the page or not.
LEMMA PressInv == ASSUME KeysInv, NEW k, Press(k) PROVE KeysInv'
<1> DEFINE t == IF typing = "title" /\ k \in {"Enter", "Escape"} THEN "page" ELSE typing
<1>1. screen' = screen /\ t \in {typing, "page"}
  BY DEF Press
<1>2. CASE PromptKey(k)
  <2>1. /\ focusedPane' = focusedPane /\ strayed' = strayed /\ menu' = menu
        /\ mode' = mode
        /\ \/ overlay' = NoPrompt /\ typing' = "page"
           \/ overlay' = overlay /\ typing' = typing
    BY <1>2 DEF PromptKey, modes
  <2>2. Issue(overlay.action, overlay.id, overlay.aimed) \/ UNCHANGED issued
    BY <1>2 DEF PromptKey
  <2>3. overlay # NoPrompt
    BY <1>2 DEF PromptKey
  <2>4. MenuActsWhereOpened'
    BY <2>1, <2>2, <2>3 DEF KeysInv, FocusIsMenus, MenuActsWhereOpened, Issue
  <2>. QED
    BY <2>1, <2>4 DEF KeysInv, KeyboardFlags, MenuTypeOK, FocusIsMenus
<1>3. CASE PromptHides
  BY <1>3 DEF PromptHides, KeysInv, KeyboardFlags, MenuTypeOK, FocusIsMenus, MenuActsWhereOpened, modes
<1>4. CASE SearchKey(k, t)
  <2>1. MenuActsWhereOpened'
    BY <1>4 DEF SearchKey, NavigateSearch, Issue, KeysInv, MenuActsWhereOpened
  <2>. QED
    BY <1>1, <1>4, <2>1 DEF SearchKey, CloseSearch, SetMode, KeysInv, KeyboardFlags, MenuTypeOK,
                            FocusIsMenus, modes
<1>5. CASE CommandKey(k, t)
  <2>1. overlay = NoPrompt /\ mode # "search"
    BY <1>5 DEF CommandKey
  <2>2. CASE \E action : Dispatch(action, t)
    BY <1>1, <2>1, <2>2, DispatchInv
  <2>3. CASE typing' = t /\ UNCHANGED <<focusedPane, strayed, modes, overlay, menu, issued>>
    BY <1>1, <2>1, <2>3 DEF KeysInv, KeyboardFlags, MenuTypeOK, FocusIsMenus,
                            MenuActsWhereOpened, modes
  <2>. QED
    BY <1>5, <2>2, <2>3 DEF CommandKey
<1>. QED
  BY <1>2, <1>3, <1>4, <1>5 DEF Press

\* A mouse button on a pane.
LEMMA ClickedInv ==
    ASSUME KeysInv, NEW id \in Panes, Clicked(id), typing' \in {"page", "title"},
           \/ menu' = NoPane /\ strayed' = strayed
           \/ menu' = id /\ strayed' = FALSE
    PROVE  KeysInv'
<1>1. /\ focusedPane' = id /\ overlay' = NoPrompt
      /\ UNCHANGED issued \/ Issue("pane.swap", swapSource, swapSource)
  BY DEF Clicked
<1>2. MenuActsWhereOpened'
  BY <1>1 DEF KeysInv, MenuActsWhereOpened, Issue
<1>. QED
  BY <1>1, <1>2, NoPaneAssumption DEF KeysInv, KeyboardFlags, MenuTypeOK, FocusIsMenus

LEMMA ChooseItemInv == ASSUME KeysInv, NEW action, ChooseItem(action) PROVE KeysInv'
<1>1. /\ overlay = NoPrompt /\ menu # NoPane /\ menu' = NoPane
      /\ focusedPane' = focusedPane /\ strayed' = strayed /\ mode' = mode
  BY DEF ChooseItem, modes
<1>2. ~strayed => focusedPane = menu
  BY <1>1 DEF KeysInv, FocusIsMenus
<1>3. CASE /\ Issue(action, focusedPane, menu)
           /\ typing' = "page"
           /\ UNCHANGED overlay
  BY <1>1, <1>2, <1>3 DEF KeysInv, KeyboardFlags, MenuTypeOK, FocusIsMenus,
                          MenuActsWhereOpened, Issue
<1>4. CASE /\ action \in PromptActions
           /\ overlay' = [action |-> action, id |-> focusedPane, aimed |-> menu]
           /\ typing' = "prompt"
           /\ UNCHANGED issued
  <2>1. overlay' # NoPrompt /\ overlay'.id = focusedPane /\ overlay'.aimed = menu
    BY <1>4, NoneAssumption DEF NoPrompt
  <2>. QED
    BY <1>1, <1>2, <1>4, <2>1 DEF KeysInv, KeyboardFlags, MenuTypeOK, FocusIsMenus,
                                  MenuActsWhereOpened
<1>. QED
  BY <1>3, <1>4 DEF ChooseItem

\* The rest: the prompt's own buttons, and a layout that is rendered anew.
LEMMA PromptButtonInv == ASSUME KeysInv, NEW ok \in BOOLEAN, PromptButton(ok) PROVE KeysInv'
<1>1. /\ overlay # NoPrompt /\ overlay' = NoPrompt /\ typing' = "page"
      /\ focusedPane' = focusedPane /\ strayed' = strayed /\ menu' = menu
      /\ UNCHANGED issued \/ Issue(overlay.action, overlay.id, overlay.aimed)
  BY DEF PromptButton
<1>2. MenuActsWhereOpened'
  BY <1>1 DEF KeysInv, FocusIsMenus, MenuActsWhereOpened, Issue
<1>. QED
  BY <1>1, <1>2 DEF KeysInv, KeyboardFlags, MenuTypeOK, FocusIsMenus

LEMMA RenderedInv == ASSUME KeysInv, NEW panes, Rendered(panes) PROVE KeysInv'
<1>1. menu # NoPane /\ ~strayed => focusedPane' = focusedPane
  BY DEF Rendered, KeysInv, FocusIsMenus, MenuTypeOK
<1>. QED
  BY <1>1 DEF Rendered, KeysInv, KeyboardFlags, MenuTypeOK, FocusIsMenus,
              MenuActsWhereOpened, modes

LEMMA KeysNextInv == KeysInv /\ [KeysNext]_keyvars => KeysInv'
<1> SUFFICES ASSUME KeysInv, [KeysNext]_keyvars PROVE KeysInv'
  OBVIOUS
<1>1. ASSUME NEW k, Press(k) PROVE KeysInv'
  BY <1>1, PressInv
<1>2. ASSUME NEW id \in Panes, Click(id) \/ OpenMenu(id) \/ EditTitle(id) PROVE KeysInv'
  BY <1>2, ClickedInv DEF Click, OpenMenu, EditTitle
<1>3. ASSUME NEW action, ChooseItem(action) PROVE KeysInv'
  BY <1>3, ChooseItemInv
<1>4. ASSUME NEW ok \in BOOLEAN, PromptButton(ok) PROVE KeysInv'
  BY <1>4, PromptButtonInv
<1>5. CASE ClickOverlay
  BY <1>5 DEF ClickOverlay, KeysInv, KeyboardFlags, MenuTypeOK, FocusIsMenus,
              MenuActsWhereOpened, modes
<1>6. ASSUME NEW panes, Rendered(panes) PROVE KeysInv'
  BY <1>6, RenderedInv
<1>7. CASE UNCHANGED keyvars
  BY <1>7 DEF keyvars, KeysInv, KeyboardFlags, MenuTypeOK, FocusIsMenus, MenuActsWhereOpened
<1>. QED
  BY <1>1, <1>2, <1>3, <1>4, <1>5, <1>6, <1>7 DEF KeysNext

LEMMA KeysInvHolds == KeysSpec => []KeysInv
BY KeysInitInv, KeysNextInv, PTL DEF KeysSpec

-----------------------------------------------------------------------------
\* Whatever keys are bound and whatever is open, a key typed into the search bar
\* or the prompt (frontend.go, keydown) is no command: it changes no focus, mode,
\* menu or key sequence and sends nothing, though n and N step through the matches.
THEOREM TextIsText == KeysSpec => TypedTextIsText
<1>1. ASSUME KeysInv, NEW k, typing \in {"search", "prompt"}, Typed(k)
      PROVE  /\ UNCHANGED <<focusedPane, modes, typing, overlay, menu, keySeq>>
             /\ issued' # issued => typing = "search" /\ k \in {"n", "N"}
  <2>1. k # "Enter" /\ k # "Escape"
    BY <1>1 DEF Typed
  <2>2. PromptKey(k) \/ PromptHides \/ SearchKey(k, typing) \/ CommandKey(k, typing)
    BY <1>1 DEF Typed, Press
  <2>3. CASE PromptKey(k)
    BY <2>1, <2>3 DEF PromptKey
  <2>4. CASE PromptHides
    BY <1>1, <2>4 DEF PromptHides
  <2>5. CASE SearchKey(k, typing)
    BY <1>1, <2>1, <2>5 DEF SearchKey, NextKeys, PrevKeys, KeysInv, KeyboardFlags
  <2>6. ~CommandKey(k, typing)
    BY <1>1 DEF CommandKey, KeysInv, KeyboardFlags
  <2> QED BY <2>2, <2>3, <2>4, <2>5, <2>6
<1>2. KeysInv /\ [KeysNext]_keyvars =>
         [\A k \in KeyNames : typing \in {"search", "prompt"} /\ Typed(k) =>
             /\ UNCHANGED <<focusedPane, modes, typing, overlay, menu, keySeq>>
             /\ issued' # issued => typing = "search" /\ k \in {"n", "N"}]_keyvars
  BY <1>1
<1>. QED
  BY <1>2, KeysInvHolds, PTL DEF KeysSpec, TypedTextIsText

\* A command chosen from the context menu acts on the pane it was opened on
\* unless a key moved the focus, although the menu has forgotten the pane when
\* the command is dispatched (frontend.go, ctx_menu).
THEOREM MenuMeansItsPane == KeysSpec => []MenuActsWhereOpened
<1>1. KeysInv => MenuActsWhereOpened
  BY DEF KeysInv
<1>. QED
  BY <1>1, KeysInvHolds, PTL

-----------------------------------------------------------------------------
\* The default bindings, and those of a user who binds no key sequence that
\* ends in Escape: the key would then stand for another action.
NoSequenceEscapes == \A k : Bound(<<k, "Escape">>) = {}

\* The mode says what is open, and a prompt is opened in front of everything:
\* from the menu, which closes, or by a key, which search mode does not pass on.
OpenOK == /\ bar <=> mode = "search"
          /\ mode # "swap" => swapSource = NoPane
          /\ typing \in {"page", "search", "prompt", "title"}
          /\ overlay # NoPrompt => typing \in {"page", "prompt"}
          /\ overlay # NoPrompt /\ mode = "search" => menu = NoPane

\* What the first Escape leaves open the second one reaches, the menu included.
HalfSettled == escapes > 0 => /\ typing = "page"
                              /\ overlay = NoPrompt /\ mode = "search" => menu = NoPane

EscapeInv == /\ KeyboardFlags
             /\ OpenOK
             /\ keySeq = <<>> \/ \E k : keySeq = <<k>>
             /\ escapes \in 0 .. 2
             /\ HalfSettled
             /\ TwoEscapesSettle

LEMMA EscapeInitInv == KeysInit => EscapeInv
BY DEF KeysInit, EscapeInv, OpenOK, HalfSettled, KeyboardFlags, TwoEscapesSettle, NoPrompt

\* A step that begins anew to count: what is open is all there is to it.
LEMMA AnewInv ==
    ASSUME KeyboardFlags', OpenOK', escapes' = 0,
           keySeq' = <<>> \/ \E k : keySeq' = <<k>>
    PROVE  EscapeInv'
BY DEF EscapeInv, HalfSettled, TwoEscapesSettle

\* What is open after a key that is bound to an action.
LEMMA DispatchOpen ==
    ASSUME EscapeInv, NEW action, NEW t, Dispatch(action, t),
           overlay = NoPrompt, mode # "search", t \in {typing, "page"}
    PROVE  KeyboardFlags' /\ OpenOK'
<1>0. typing \in {"page", "title"} /\ bar = FALSE /\ (mode # "swap" => swapSource = NoPane)
  BY DEF EscapeInv, KeyboardFlags, OpenOK
<1>1. CASE UNCHANGED <<modes, overlay>> /\ typing' = t
  BY <1>0, <1>1 DEF KeyboardFlags, OpenOK, modes
<1>2. CASE /\ SetMode(IF mode = "swap" THEN "normal" ELSE "swap")
           /\ typing' = t
           /\ UNCHANGED <<bar, overlay>>
  BY <1>0, <1>2 DEF KeyboardFlags, OpenOK, SetMode
<1>3. CASE /\ action \in PromptActions
           /\ overlay' = [action |-> action, id |-> focusedPane, aimed |-> focusedPane]
           /\ typing' = "prompt"
           /\ UNCHANGED modes
  <2>1. overlay' # NoPrompt
    BY <1>3, NoneAssumption DEF NoPrompt
  <2>. QED
    BY <1>0, <1>3, <2>1 DEF KeyboardFlags, OpenOK, modes
<1>4. CASE OpenSearch /\ UNCHANGED overlay
  BY <1>4 DEF OpenSearch, SetMode, KeyboardFlags, OpenOK
<1>5. CASE CloseSearch(t) /\ UNCHANGED overlay
  BY <1>0, <1>5 DEF CloseSearch, SetMode, KeyboardFlags, OpenOK
<1>. QED
  BY <1>1, <1>2, <1>3, <1>4, <1>5 DEF Dispatch

LEMMA AppendPair == ASSUME NEW k, NEW e PROVE Append(<<k>>, e) = <<k, e>>
<1> DEFINE s == Append(<<k>>, e)
<1>1. <<k>> \in Seq({k, e}) /\ Len(<<k>>) = 1
  OBVIOUS
<1>2. s \in Seq({k, e}) /\ Len(s) = 2 /\ s[1] = k /\ s[2] = e
  BY <1>1
<1>3. <<k, e>> \in Seq({k, e}) /\ Len(<<k, e>>) = 2 /\ <<k, e>>[1] = k /\ <<k, e>>[2] = e
  OBVIOUS
<1>4. \A i \in 1 .. 2 : i = 1 \/ i = 2
  OBVIOUS
<1>. QED
  BY <1>2, <1>3, <1>4, SeqEqual

\* Escape on the page closes everything that the page can have open.
LEMMA EscapeOnPage ==
    ASSUME NoSequenceEscapes, EscapeInv, NEW t, CommandKey("Escape", t),
           t \in {typing, "page"}, t # "title"
    PROVE  /\ mode' = "normal" /\ swapSource' = NoPane
           /\ bar' = FALSE /\ overlay' = NoPrompt /\ menu' = NoPane
           /\ typing' = "page" /\ keySeq' = <<>>
<1>1. overlay = NoPrompt /\ mode # "search" /\ typing \in {"page", "title"}
  BY DEF CommandKey, EscapeInv, KeyboardFlags, OpenOK
<1>2. Sequence(Append(keySeq, "Escape")) = {} \/ keySeq = <<>>
  <2>1. ASSUME NEW k, keySeq = <<k>> PROVE Sequence(Append(keySeq, "Escape")) = {}
    <3>1. Append(keySeq, "Escape") = <<k, "Escape">>
      BY <2>1, AppendPair
    <3>. QED
      BY <3>1 DEF Sequence, NoSequenceEscapes
  <2>. QED
    BY <2>1 DEF EscapeInv
<1>3. Bound(<<"Escape">>) = {"mode.escape"}
  BY EscapeAssumption, NoConflict DEF Bound
<1>4. PICK action \in {"mode.escape"} : Dispatch(action, t) /\ keySeq' = <<>>
  BY <1>2, <1>3 DEF CommandKey
<1>5. CloseSearch(t) /\ menu' = NoPane /\ UNCHANGED overlay
  BY <1>4, EscapeIsItsOwn DEF Dispatch
<1>. QED
  BY <1>1, <1>4, <1>5 DEF CloseSearch, SetMode

LEMMA EscapePressInv ==
    ASSUME NoSequenceEscapes, EscapeInv, Press("Escape") PROVE EscapeInv'
<1> DEFINE t == IF typing = "title" THEN "page" ELSE typing
<1>1. /\ escapes' \in 1 .. 2 /\ (escapes' = 2 => escapes > 0)
      /\ PromptKey("Escape") \/ PromptHides \/ SearchKey("Escape", t) \/ CommandKey("Escape", t)
  BY DEF Press, EscapeInv
<1>2. CASE PromptKey("Escape")
  <2>1. /\ overlay # NoPrompt /\ typing = "prompt" /\ overlay' = NoPrompt /\ typing' = "page"
        /\ UNCHANGED <<mode, swapSource, bar, menu, keySeq>>
    BY <1>2 DEF PromptKey, modes
  <2>2. escapes = 0
    BY <2>1 DEF EscapeInv, HalfSettled
  <2>. QED
    BY <1>1, <2>1, <2>2 DEF EscapeInv, KeyboardFlags, OpenOK, HalfSettled, TwoEscapesSettle
<1>3. CASE PromptHides
  BY <1>1, <1>3 DEF PromptHides, modes, EscapeInv, KeyboardFlags, OpenOK, HalfSettled,
                    TwoEscapesSettle
<1>4. CASE SearchKey("Escape", t)
  <2>1. /\ overlay = NoPrompt /\ mode = "search" /\ CloseSearch(t)
        /\ UNCHANGED <<overlay, menu, keySeq>>
    BY <1>4 DEF SearchKey
  <2>2. t \in {"page", "search"}
    BY <2>1 DEF EscapeInv, OpenOK, KeyboardFlags
  <2>3. /\ mode' = "normal" /\ swapSource' = NoPane /\ bar' = FALSE /\ typing' = "page"
    BY <2>1, <2>2 DEF CloseSearch, SetMode
  <2>. QED
    BY <1>1, <2>1, <2>3 DEF EscapeInv, KeyboardFlags, OpenOK, HalfSettled, TwoEscapesSettle
<1>5. CASE CommandKey("Escape", t)
  <2>1. /\ mode' = "normal" /\ swapSource' = NoPane
        /\ bar' = FALSE /\ overlay' = NoPrompt /\ menu' = NoPane
        /\ typing' = "page" /\ keySeq' = <<>>
    BY <1>5, EscapeOnPage
  <2>. QED
    BY <1>1, <2>1 DEF EscapeInv, KeyboardFlags, OpenOK, HalfSettled, TwoEscapesSettle
<1>. QED
  BY <1>1, <1>2, <1>3, <1>4, <1>5

\* Any other key begins anew.
LEMMA OtherKeyInv ==
    ASSUME EscapeInv, NEW k, k # "Escape", Press(k) PROVE EscapeInv'
<1> DEFINE t == IF typing = "title" /\ k \in {"Enter", "Escape"} THEN "page" ELSE typing
<1>1. escapes' = 0 /\ t \in {typing, "page"}
  BY DEF Press
<1>2. CASE PromptKey(k)
  <2>1. /\ \/ overlay' = NoPrompt /\ typing' = "page"
           \/ overlay' = overlay /\ typing' = typing
        /\ UNCHANGED <<mode, swapSource, bar, menu, keySeq>>
    BY <1>2 DEF PromptKey, modes
  <2>. QED
    BY <1>1, <2>1, AnewInv DEF EscapeInv, KeyboardFlags, OpenOK
<1>3. CASE PromptHides
  BY <1>1, <1>3, AnewInv DEF PromptHides, modes, EscapeInv, KeyboardFlags, OpenOK
<1>4. CASE SearchKey(k, t)
  BY <1>1, <1>4, AnewInv DEF SearchKey, modes, EscapeInv, KeyboardFlags, OpenOK
<1>5. CASE CommandKey(k, t)
  <2>1. overlay = NoPrompt /\ mode # "search" /\ (keySeq' = <<>> \/ keySeq' = <<k>>)
    BY <1>5 DEF CommandKey
  <2>2. CASE \E action : Dispatch(action, t)
    BY <1>1, <2>1, <2>2, DispatchOpen, AnewInv
  <2>3. CASE typing' = t /\ UNCHANGED <<modes, overlay, menu>>
    BY <1>1, <2>1, <2>3, AnewInv DEF modes, EscapeInv, KeyboardFlags, OpenOK
  <2>. QED
    BY <1>5, <2>2, <2>3 DEF CommandKey
<1>. QED
  BY <1>2, <1>3, <1>4, <1>5 DEF Press

LEMMA ClickedEscape ==
    ASSUME EscapeInv, NEW id, Clicked(id), typing' \in {"page", "title"} PROVE EscapeInv'
<1>1. /\ overlay = NoPrompt /\ UNCHANGED <<bar, overlay, keySeq>> /\ escapes' = 0
      /\ \/ mode = "swap" /\ SetMode("normal")
         \/ UNCHANGED <<mode, swapSource>>
  BY DEF Clicked
<1>. QED
  BY <1>1, AnewInv DEF EscapeInv, KeyboardFlags, OpenOK, SetMode

LEMMA ChooseItemEscape ==
    ASSUME EscapeInv, NEW action, ChooseItem(action) PROVE EscapeInv'
<1>1. /\ UNCHANGED <<mode, swapSource, bar, keySeq>> /\ escapes' = 0 /\ menu' = NoPane
      /\ \/ typing' = "page" /\ overlay' = overlay /\ overlay = NoPrompt
         \/ typing' = "prompt" /\ overlay' # NoPrompt
  BY NoneAssumption DEF ChooseItem, modes, NoPrompt
<1>. QED
  BY <1>1, AnewInv DEF EscapeInv, KeyboardFlags, OpenOK

LEMMA EscapeNextInv ==
    ASSUME NoSequenceEscapes PROVE EscapeInv /\ [KeysNext]_keyvars => EscapeInv'
<1> SUFFICES ASSUME EscapeInv, [KeysNext]_keyvars PROVE EscapeInv'
  OBVIOUS
<1>1. ASSUME NEW k, Press(k) PROVE EscapeInv'
  BY <1>1, EscapePressInv, OtherKeyInv
<1>2. ASSUME NEW id, Click(id) \/ OpenMenu(id) \/ EditTitle(id) PROVE EscapeInv'
  BY <1>2, ClickedEscape DEF Click, OpenMenu, EditTitle
<1>3. ASSUME NEW action, ChooseItem(action) PROVE EscapeInv'
  BY <1>3, ChooseItemEscape
<1>4. ASSUME NEW ok \in BOOLEAN, PromptButton(ok) PROVE EscapeInv'
  BY <1>4, AnewInv DEF PromptButton, modes, EscapeInv, KeyboardFlags, OpenOK
<1>5. CASE ClickOverlay
  BY <1>5, AnewInv DEF ClickOverlay, modes, EscapeInv, KeyboardFlags, OpenOK
<1>6. ASSUME NEW panes, Rendered(panes) PROVE EscapeInv'
  BY <1>6 DEF Rendered, modes, EscapeInv, KeyboardFlags, OpenOK, HalfSettled,
              TwoEscapesSettle
<1>7. CASE UNCHANGED keyvars
  BY <1>7 DEF keyvars, EscapeInv, KeyboardFlags, OpenOK, HalfSettled, TwoEscapesSettle
<1>. QED
  BY <1>1, <1>2, <1>3, <1>4, <1>5, <1>6, <1>7 DEF KeysNext

\* However search bar, prompt, menu, title editor and swap mode lie over each
\* other, two Escapes lead back to normal mode (frontend.go, keydown and the
\* action mode.escape), unless a key sequence of the user's ends in Escape.
THEOREM EscapeTwiceSettles ==
    ASSUME NoSequenceEscapes PROVE KeysSpec => []TwoEscapesSettle
<1>1. EscapeInv /\ [KeysNext]_keyvars => EscapeInv'
  BY EscapeNextInv
<1>2. EscapeInv => TwoEscapesSettle
  BY DEF EscapeInv
<1>. QED
  BY <1>1, <1>2, EscapeInitInv, PTL DEF KeysSpec

=============================================================================
