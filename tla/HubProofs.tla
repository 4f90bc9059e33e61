------------------------------ MODULE HubProofs ------------------------------
(***************************************************************************)
(* Proofs about the hub, for every number of clients, broadcasters and     *)
(* tokens, every size of the send buffer and any number of broadcasts.     *)
(***************************************************************************)
EXTENDS Hub, SequenceTheorems, TLAPS

Casts == {None}
         \cup [at : {"next"}, frame : Nat, todo : SUBSET Conns]
         \cup [at : {"send", "drop", "close"}, to : Conns, frame : Nat, todo : SUBSET Conns]

HubTypeOK == /\ conns \subseteq Conns
             /\ marked \subseteq Tokens
             /\ serving = [c \in Conns |-> serving[c]]
             /\ token = [c \in Conns |-> token[c]]
             /\ reader = [c \in Conns |-> reader[c]]
             /\ queued \in [Conns -> Seq(Nat)]
             /\ frames \in Seq([to : SUBSET Conns, marked : SUBSET Tokens])
             /\ cast \in [Casters -> Casts]

\* A connection that was registered: its token stays what it is from then on,
\* and it is never registered again.
Came(c) == serving[c] \in {"registered", "served"}

ConnsCame == \A c \in conns : Came(c)

\* A broadcast copied connections that had come and the marks there were.
FramesOK == \A f \in Frames : /\ frames[f].marked \subseteq marked
                              /\ \A c \in frames[f].to : Came(c)

\* Frames are queued after their broadcast began.
QueuedOK == \A c \in Conns : \A f : IsQueued(f, c) => f \in 0 .. Len(frames) /\ Came(c)

\* A broadcast works on what it copied.  What it is about to send it may send,
\* and what it is about to close has left the hub.
CastOK == \A b \in Casters : cast[b] # None =>
             /\ cast[b].frame \in Frames
             /\ \A c \in cast[b].todo : Came(c)
             /\ cast[b].at # "next" => cast[b].to \in cast[b].todo
             /\ cast[b].at = "send" => token[cast[b].to] \notin frames[cast[b].frame].marked
             /\ cast[b].at = "close" => cast[b].to \notin conns

HubInv == /\ HubTypeOK /\ ConnsCame /\ FramesOK /\ QueuedOK /\ CastOK
          /\ NoGaps /\ RevokedGetNothing /\ NoLeak

-----------------------------------------------------------------------------
\* What is queued after one more frame was.
LEMMA QueuedAppend ==
    ASSUME NEW c, queued[c] \in Seq(Nat), NEW g \in Nat, queued'[c] = Append(queued[c], g)
    PROVE  \A f : IsQueued(f, c)' <=> IsQueued(f, c) \/ f = g
<1> DEFINE n == Len(queued[c])
<1>1. /\ n \in Nat /\ DOMAIN queued[c] = 1 .. n /\ DOMAIN queued'[c] = 1 .. n + 1
      /\ \A i \in 1 .. n : queued'[c][i] = queued[c][i]
      /\ queued'[c][n + 1] = g
  OBVIOUS
<1>2. ASSUME NEW f, IsQueued(f, c)' PROVE IsQueued(f, c) \/ f = g
  BY <1>1, <1>2 DEF IsQueued
<1>3. ASSUME NEW f, IsQueued(f, c) \/ f = g PROVE IsQueued(f, c)'
  <2>1. CASE IsQueued(f, c)
    <3>1. PICK i \in DOMAIN queued[c] : queued[c][i] = f
      BY <2>1 DEF IsQueued
    <3>2. i \in DOMAIN queued'[c] /\ queued'[c][i] = f
      BY <1>1, <3>1
    <3>. QED
      BY <3>2 DEF IsQueued
  <2>2. CASE f = g
    <3>1. n + 1 \in DOMAIN queued'[c] /\ queued'[c][n + 1] = f
      BY <1>1, <2>2
    <3>. QED
      BY <3>1 DEF IsQueued
  <2>. QED
    BY <1>3, <2>1, <2>2
<1>. QED
  BY <1>2, <1>3

\* What was copied are connections.
LEMMA CopiedConns == HubTypeOK => \A f \in Frames : frames[f].to \subseteq Conns
<1> SUFFICES ASSUME HubTypeOK, NEW f \in Frames PROVE frames[f].to \subseteq Conns
  OBVIOUS
<1>1. frames[f] \in [to : SUBSET Conns, marked : SUBSET Tokens]
  BY ElementOfSeq DEF HubTypeOK, Frames
<1>. QED
  BY <1>1

LEMMA HubInitInv == Init => HubInv
<1> SUFFICES ASSUME Init PROVE HubInv
  OBVIOUS
<1>1. /\ frames = <<>> /\ conns = {} /\ marked = {}
      /\ queued = [c \in Conns |-> <<>>] /\ cast = [b \in Casters |-> None]
      /\ serving = [c \in Conns |-> "new"] /\ token = [c \in Conns |-> Owner]
      /\ reader = [c \in Conns |-> FALSE]
  BY DEF Init
<1>2. Frames = {} /\ \A c \in Conns : \A f : ~IsQueued(f, c)
  BY <1>1 DEF Frames, IsQueued
<1>3. HubTypeOK
  BY <1>1 DEF HubTypeOK, Casts
<1>4. CastOK
  BY <1>1 DEF CastOK
<1>. QED
  BY <1>1, <1>2, <1>3, <1>4 DEF HubInv, ConnsCame, FramesOK, QueuedOK, NoGaps,
                                RevokedGetNothing, NoLeak

\* Connections leave the hub, tokens are marked, and nothing else happens.
LEMMA ShrinkInv ==
    ASSUME HubInv, conns' \subseteq conns, marked \subseteq marked', marked' \subseteq Tokens,
           UNCHANGED <<serving, token, queued, bc, lost>>,
           reader' = [c \in Conns |-> reader'[c]],
           \A c \in conns' : reader'[c]
    PROVE  HubInv'
<1> USE DEF HubInv, bc
<1>1. HubTypeOK'
  BY DEF HubTypeOK
<1>2. (ConnsCame /\ FramesOK /\ QueuedOK)'
  BY DEF ConnsCame, FramesOK, QueuedOK, Came, Frames, IsQueued
<1>3. CastOK'
  BY DEF CastOK, Came, Frames
<1>4. (NoGaps /\ RevokedGetNothing /\ NoLeak)'
  BY DEF NoGaps, RevokedGetNothing, NoLeak, Frames, IsQueued
<1>. QED
  BY <1>1, <1>2, <1>3, <1>4

\* A step outside of what the invariant is about.
LEMMA AsideInv ==
    ASSUME HubInv, UNCHANGED <<conns, marked, serving, token, queued, reader, bc, lost>>
    PROVE  HubInv'
BY ShrinkInv DEF HubInv, HubTypeOK, NoLeak

LEMMA VerifyInv ==
    ASSUME HubInv, NEW c \in Conns, NEW t, Verify(c, t) PROVE HubInv'
<1> USE DEF HubInv
<1>1. /\ ~Came(c) /\ serving' = [serving EXCEPT ![c] = "verified"]
      /\ token' = [token EXCEPT ![c] = t]
      /\ UNCHANGED <<conns, marked, queued, reader, frames, cast, lost>>
  BY DEF Verify, Came, tok, chan, bc
<1>2. \A x \in Conns : Came(x) => Came(x)' /\ token'[x] = token[x]
  BY <1>1 DEF HubTypeOK, Came
<1>3. HubTypeOK'
  BY <1>1 DEF HubTypeOK
<1>4. ConnsCame' /\ FramesOK' /\ QueuedOK'
  <2>1. ConnsCame'
    BY <1>1, <1>2 DEF ConnsCame, HubTypeOK
  <2>2. FramesOK'
    BY <1>1, <1>2, CopiedConns DEF FramesOK, Frames
  <2>3. QueuedOK'
    BY <1>1, <1>2 DEF QueuedOK, IsQueued
  <2>. QED
    BY <2>1, <2>2, <2>3
<1>5. CastOK'
  <2> SUFFICES ASSUME NEW b \in Casters, cast[b] # None
               PROVE  /\ cast[b].frame \in Frames
                      /\ \A x \in cast[b].todo : Came(x)'
                      /\ cast[b].at # "next" => cast[b].to \in cast[b].todo
                      /\ cast[b].at = "send"
                            => token'[cast[b].to] \notin frames[cast[b].frame].marked
                      /\ cast[b].at = "close" => cast[b].to \notin conns
    BY <1>1 DEF CastOK, Frames
  <2>1. cast[b].todo \subseteq Conns
    BY DEF HubTypeOK, Casts
  <2>. QED
    BY <1>2, <2>1 DEF CastOK
<1>6. (NoGaps /\ NoLeak)'
  BY <1>1 DEF NoGaps, NoLeak, Frames, IsQueued
<1>7. RevokedGetNothing'
  BY <1>1, <1>2 DEF RevokedGetNothing, QueuedOK, Frames, IsQueued
<1>. QED
  BY <1>3, <1>4, <1>5, <1>6, <1>7

LEMMA RegisterInv == ASSUME HubInv, NEW c \in Conns, Register(c) PROVE HubInv'
<1> USE DEF HubInv
<1>1. /\ ~Came(c) /\ serving' = [serving EXCEPT ![c] = "registered"]
      /\ conns' = conns \cup {c} /\ reader' = [reader EXCEPT ![c] = TRUE]
      /\ UNCHANGED <<marked, token, queued, frames, cast, lost>>
  BY DEF Register, Came, tok, chan, bc
<1>2. Came(c)' /\ \A x \in Conns : Came(x) => Came(x)'
  BY <1>1 DEF HubTypeOK, Came
<1>3. HubTypeOK'
  BY <1>1 DEF HubTypeOK
<1>4. ConnsCame' /\ FramesOK' /\ QueuedOK'
  <2>1. ConnsCame'
    BY <1>1, <1>2 DEF ConnsCame, HubTypeOK
  <2>2. FramesOK'
    BY <1>1, <1>2, CopiedConns DEF FramesOK, Frames
  <2>3. QueuedOK'
    BY <1>1, <1>2 DEF QueuedOK, IsQueued
  <2>. QED
    BY <2>1, <2>2, <2>3
<1>5. CastOK'
  <2> SUFFICES ASSUME NEW b \in Casters, cast[b] # None
               PROVE  /\ cast[b].frame \in Frames
                      /\ \A x \in cast[b].todo : Came(x)'
                      /\ cast[b].at # "next" => cast[b].to \in cast[b].todo
                      /\ cast[b].at = "send"
                            => token[cast[b].to] \notin frames[cast[b].frame].marked
                      /\ cast[b].at = "close" => cast[b].to \notin conns'
    BY <1>1 DEF CastOK, Frames
  <2>1. cast[b].todo \subseteq Conns
    BY DEF HubTypeOK, Casts
  <2>. QED
    BY <1>1, <1>2, <2>1 DEF CastOK
<1>6. NoGaps'
  BY <1>1 DEF NoGaps, FramesOK, Frames, IsQueued
<1>7. (RevokedGetNothing /\ NoLeak)'
  BY <1>1 DEF RevokedGetNothing, NoLeak, HubTypeOK, Frames, IsQueued
<1>. QED
  BY <1>3, <1>4, <1>5, <1>6, <1>7

LEMMA SendMarkerInv == ASSUME HubInv, NEW c \in Conns, SendMarker(c) PROVE HubInv'
<1> USE DEF HubInv
<1>1. /\ Came(c) /\ serving' = [serving EXCEPT ![c] = "served"]
      /\ queued' = queued \/ queued' = [queued EXCEPT ![c] = Append(@, 0)]
      /\ lost \subseteq lost'
      /\ UNCHANGED <<conns, marked, token, reader, frames, cast>>
  BY DEF SendMarker, Came, tok, life, bc
<1>2. \A x \in Conns : Came(x)' <=> Came(x)
  BY <1>1 DEF HubTypeOK, Came
<1>3. HubTypeOK'
  <2>1. queued \in [Conns -> Seq(Nat)] /\ Append(queued[c], 0) \in Seq(Nat)
    BY DEF HubTypeOK
  <2>2. queued' \in [Conns -> Seq(Nat)]
    BY <1>1, <2>1
  <2>. QED
    BY <1>1, <2>2 DEF HubTypeOK
<1>4. \A x \in Conns : \A f : IsQueued(f, x)' <=> (IsQueued(f, x) \/ (IsQueued(f, x)' /\ f = 0 /\ x = c))
  <2>1. CASE queued' = queued
    BY <2>1 DEF IsQueued
  <2>2. CASE queued' = [queued EXCEPT ![c] = Append(@, 0)]
    <3>1. \A f : IsQueued(f, c)' <=> IsQueued(f, c) \/ f = 0
      BY <2>2, QueuedAppend DEF HubTypeOK
    <3>2. \A x \in Conns \ {c} : \A f : IsQueued(f, x)' <=> IsQueued(f, x)
      BY <2>2 DEF IsQueued, HubTypeOK
    <3>. QED
      BY <3>1, <3>2
  <2>. QED
    BY <1>1, <2>1, <2>2
<1>5. Len(frames) \in Nat
  BY DEF HubTypeOK
<1>6. (ConnsCame /\ FramesOK)'
  <2>1. ConnsCame'
    BY <1>1, <1>2 DEF ConnsCame, HubTypeOK
  <2>2. FramesOK'
    BY <1>1, <1>2, CopiedConns DEF FramesOK, Frames
  <2>. QED
    BY <2>1, <2>2
<1>7. QueuedOK'
  BY <1>1, <1>2, <1>4, <1>5 DEF QueuedOK
<1>8. CastOK'
  <2> SUFFICES ASSUME NEW b \in Casters, cast[b] # None
               PROVE  \A x \in cast[b].todo : Came(x)'
    BY <1>1 DEF CastOK, Frames
  <2>1. cast[b].todo \subseteq Conns
    BY DEF HubTypeOK, Casts
  <2>. QED
    BY <1>2, <2>1 DEF CastOK
<1>9. NoGaps'
  <2>1. \A x \in conns : x \in Conns /\ \A f : IsQueued(f, x) => IsQueued(f, x)'
    BY <1>4 DEF HubTypeOK
  <2>. HIDE <1>4
  <2>. QED
    BY <1>1, <2>1 DEF NoGaps, Frames
<1>10. RevokedGetNothing'
  BY <1>1, <1>4, <1>5 DEF RevokedGetNothing, Frames
<1>. QED
  BY <1>1, <1>3, <1>6, <1>7, <1>8, <1>9, <1>10 DEF NoLeak

-----------------------------------------------------------------------------
LEMMA CopyInv == ASSUME HubInv, NEW b \in Casters, Copy(b) PROVE HubInv'
<1> USE DEF HubInv
<1> DEFINE n == Len(frames)
           new == [to |-> conns, marked |-> marked]
<1>1. /\ cast[b] = None /\ frames' = Append(frames, new)
      /\ cast' = [cast EXCEPT ![b] = [at |-> "next", frame |-> n + 1, todo |-> conns]]
      /\ UNCHANGED <<conns, marked, serving, token, queued, reader, lost>>
  BY DEF Copy, Turn, tok, sock, chan, life
<1>2. /\ n \in Nat /\ Len(frames') = n + 1 /\ frames'[n + 1] = new
      /\ \A f \in 1 .. n : frames'[f] = frames[f]
      /\ frames' \in Seq([to : SUBSET Conns, marked : SUBSET Tokens])
  BY <1>1 DEF HubTypeOK
<1>3. /\ cast'[b] = [at |-> "next", frame |-> n + 1, todo |-> conns]
      /\ \A x \in Casters \ {b} : cast'[x] = cast[x]
  BY <1>1 DEF HubTypeOK
<1>4. HubTypeOK'
  <2>1. cast'[b] \in Casts
    BY <1>2, <1>3 DEF HubTypeOK, Casts
  <2>2. cast' \in [Casters -> Casts]
    BY <1>1, <2>1 DEF HubTypeOK
  <2>. QED
    BY <1>1, <1>2, <2>2 DEF HubTypeOK
<1>5. ConnsCame' /\ FramesOK' /\ QueuedOK'
  <2>1. FramesOK'
    BY <1>1, <1>2 DEF FramesOK, ConnsCame, Came, Frames
  <2>2. QueuedOK'
    BY <1>1, <1>2 DEF QueuedOK, Came, IsQueued
  <2>. QED
    BY <1>1, <2>1, <2>2 DEF ConnsCame, Came
<1>6. CastOK'
  <2> SUFFICES ASSUME NEW x \in Casters, cast'[x] # None
               PROVE  /\ cast'[x].frame \in 1 .. n + 1
                      /\ \A c \in cast'[x].todo : Came(c)
                      /\ cast'[x].at # "next" => cast'[x].to \in cast'[x].todo
                      /\ cast'[x].at = "send"
                            => token[cast'[x].to] \notin frames'[cast'[x].frame].marked
                      /\ cast'[x].at = "close" => cast'[x].to \notin conns
    BY <1>1, <1>2 DEF CastOK, Frames, Came
  <2>1. CASE x = b
    BY <1>2, <1>3, <2>1 DEF ConnsCame
  <2>2. CASE x # b
    BY <1>2, <1>3, <2>2 DEF CastOK, Frames
  <2>. QED
    BY <2>1, <2>2
<1>7. NoGaps'
  <2> SUFFICES ASSUME NEW c \in conns, NEW f \in 1 .. n + 1, c \in frames'[f].to
               PROVE  \/ IsQueued(f, c)
                      \/ f \in lost
                      \/ \E x \in Casters : /\ cast'[x] # None
                                            /\ cast'[x].frame = f
                                            /\ c \in cast'[x].todo
    BY <1>1, <1>2 DEF NoGaps, Frames, IsQueued
  <2>1. CASE f = n + 1
    <3>1. cast'[b] # None /\ cast'[b].frame = f /\ c \in cast'[b].todo
      BY <1>3, <2>1 DEF None
    <3>. QED
      BY <3>1
  <2>2. CASE f # n + 1
    <3>1. f \in Frames /\ frames'[f] = frames[f]
      BY <1>2, <2>2 DEF Frames
    <3>. QED
      BY <1>1, <1>3, <3>1 DEF NoGaps
  <2>. QED
    BY <2>1, <2>2
<1>8. RevokedGetNothing'
  BY <1>1, <1>2 DEF RevokedGetNothing, QueuedOK, Frames, IsQueued
<1>. QED
  BY <1>1, <1>4, <1>5, <1>6, <1>7, <1>8 DEF NoLeak

\* A turn of a broadcast that is under way: connections may leave the hub, a
\* frame may be queued where it may go, and whoever is taken off the list has
\* got the frame, has left, or shares in the loss of the broadcast.
LEMMA TurnInv ==
    ASSUME HubInv, NEW b \in Casters, NEW next \in Casts, NEW f0,
           cast[b] # None, cast[b].frame = f0, cast' = [cast EXCEPT ![b] = next],
           conns' \subseteq conns,
           UNCHANGED <<marked, serving, token, reader, frames>>,
           queued' \in [Conns -> Seq(Nat)],
           lost \subseteq lost',
           \A c \in Conns : \A f : IsQueued(f, c) => IsQueued(f, c)',
           \A c \in Conns : \A f : IsQueued(f, c)' =>
               \/ IsQueued(f, c)
               \/ f \in Frames /\ Came(c) /\ token[c] \notin frames[f].marked,
           next # None =>
               /\ next.frame = cast[b].frame
               /\ next.todo \subseteq cast[b].todo
               /\ next.at # "next" => next.to \in next.todo
               /\ next.at = "send" => token[next.to] \notin frames[next.frame].marked
               /\ next.at = "close" => next.to \notin conns',
           \A c \in conns' : c \in cast[b].todo =>
               \/ IsQueued(f0, c)'
               \/ f0 \in lost'
               \/ next # None /\ c \in next.todo
    PROVE  HubInv'
<1> USE DEF HubInv
<1>1. cast'[b] = next /\ \A x \in Casters \ {b} : cast'[x] = cast[x]
  BY DEF HubTypeOK
<1>2. HubTypeOK'
  <2>1. cast' \in [Casters -> Casts]
    BY DEF HubTypeOK
  <2>. QED
    BY <2>1 DEF HubTypeOK
<1>3. (ConnsCame /\ FramesOK)'
  BY DEF ConnsCame, FramesOK, Came, Frames
<1>4. QueuedOK'
  BY DEF QueuedOK, Came, Frames
<1>5. CastOK'
  <2> SUFFICES ASSUME NEW x \in Casters, cast'[x] # None
               PROVE  /\ cast'[x].frame \in Frames
                      /\ \A c \in cast'[x].todo : Came(c)
                      /\ cast'[x].at # "next" => cast'[x].to \in cast'[x].todo
                      /\ cast'[x].at = "send"
                            => token[cast'[x].to] \notin frames[cast'[x].frame].marked
                      /\ cast'[x].at = "close" => cast'[x].to \notin conns'
    BY DEF CastOK, Frames, Came
  <2>1. CASE x = b
    <3>1. cast[b].frame \in Frames /\ \A c \in cast[b].todo : Came(c)
      BY DEF CastOK
    <3>. QED
      BY <1>1, <2>1, <3>1
  <2>2. CASE x # b
    BY <1>1, <2>2 DEF CastOK
  <2>. QED
    BY <2>1, <2>2
<1>6. NoGaps'
  <2> SUFFICES ASSUME NEW c \in conns', NEW f \in Frames, c \in frames[f].to
               PROVE  \/ IsQueued(f, c)'
                      \/ f \in lost'
                      \/ \E x \in Casters : /\ cast'[x] # None
                                            /\ cast'[x].frame = f
                                            /\ c \in cast'[x].todo
    BY DEF NoGaps, Frames
  <2>1. c \in conns /\ c \in Conns
    BY DEF HubTypeOK
  <2>2. CASE IsQueued(f, c)
    BY <2>1, <2>2
  <2>3. CASE f \in lost
    BY <2>3
  <2>4. ASSUME NEW x \in Casters, cast[x] # None, cast[x].frame = f, c \in cast[x].todo
        PROVE  \/ IsQueued(f, c)'
               \/ f \in lost'
               \/ \E y \in Casters : /\ cast'[y] # None
                                     /\ cast'[y].frame = f
                                     /\ c \in cast'[y].todo
    <3>1. CASE x = b
      BY <1>1, <2>4, <3>1
    <3>2. CASE x # b
      BY <1>1, <2>4, <3>2
    <3>. QED
      BY <3>1, <3>2
  <2>. QED
    BY <2>1, <2>2, <2>3, <2>4 DEF NoGaps
<1>7. RevokedGetNothing'
  BY DEF RevokedGetNothing, Frames
<1>8. NoLeak'
  BY DEF NoLeak
<1>. QED
  BY <1>2, <1>3, <1>4, <1>5, <1>6, <1>7, <1>8

\* What is known of a broadcast from where it stands.
LEMMA CastFields ==
    ASSUME HubInv, NEW b \in Casters
    PROVE  /\ cast[b].at = "next" =>
                 cast[b] \in [at : {"next"}, frame : Nat, todo : SUBSET Conns]
           /\ cast[b].at \in {"send", "drop", "close"} =>
                 cast[b] \in [at : {"send", "drop", "close"}, to : Conns, frame : Nat,
                              todo : SUBSET Conns]
           /\ cast[b].at \in {"next", "send", "drop", "close"} => cast[b] # None
<1>1. cast[b] \in Casts
  BY DEF HubInv, HubTypeOK
<1>. QED
  BY <1>1 DEF Casts, None

LEMMA CheckInv == ASSUME HubInv, NEW b \in Casters, Check(b) PROVE HubInv'
<1>1. PICK c \in cast[b].todo :
         cast' = [cast EXCEPT ![b] =
                    [at |-> IF token[c] \in marked THEN "drop" ELSE "send", to |-> c,
                     frame |-> cast[b].frame, todo |-> cast[b].todo]]
  BY DEF Check, Turn
<1> DEFINE next == [at |-> IF token[c] \in marked THEN "drop" ELSE "send", to |-> c,
                    frame |-> cast[b].frame, todo |-> cast[b].todo]
<1>2. /\ UNCHANGED <<conns, marked, serving, token, reader, frames, queued, lost>>
      /\ cast[b].at = "next"
  BY DEF Check, tok, sock, chan, life
<1>3. cast[b] # None /\ cast[b].frame \in Nat /\ cast[b].todo \subseteq Conns
  BY <1>2, CastFields
<1>4. next \in Casts /\ next # None /\ cast' = [cast EXCEPT ![b] = next]
  BY <1>1, <1>3 DEF Casts, None
<1>5. next.at = "send" => token[next.to] \notin frames[next.frame].marked
  <2>1. cast[b].frame \in Frames
    BY <1>3 DEF HubInv, CastOK
  <2>2. frames[cast[b].frame].marked \subseteq marked
    BY <2>1 DEF HubInv, FramesOK
  <2>. QED
    BY <2>2
<1>6. /\ next.frame = cast[b].frame /\ next.todo = cast[b].todo /\ next.to \in next.todo
      /\ next.at # "close"
  OBVIOUS
<1>7. queued' \in [Conns -> Seq(Nat)] /\ \A x : \A f : IsQueued(f, x)' <=> IsQueued(f, x)
  BY <1>2 DEF IsQueued, HubInv, HubTypeOK
<1>. HIDE DEF next
<1>. QED
  BY <1>2, <1>3, <1>4, <1>5, <1>6, <1>7, TurnInv

LEMMA SendInv == ASSUME HubInv, NEW b \in Casters, Send(b) PROVE HubInv'
<1>0. PICK c, f0 : c = cast[b].to /\ f0 = cast[b].frame
  OBVIOUS
<1>1. /\ UNCHANGED <<conns, marked, serving, token, reader, frames>>
      /\ cast[b].at = "send"
  BY DEF Send, tok, life
<1>2. /\ cast[b] # None /\ f0 \in Nat /\ cast[b].todo \subseteq Conns /\ c \in Conns
      /\ cast[b] \in [at : {"send", "drop", "close"}, to : Conns, frame : Nat,
                      todo : SUBSET Conns]
  BY <1>0, <1>1, CastFields
<1>3. f0 \in Frames /\ Came(c) /\ token[c] \notin frames[f0].marked /\ c \in cast[b].todo
  BY <1>0, <1>1, <1>2 DEF HubInv, CastOK
<1>4. CASE lost' = lost \cup {f0} /\ Turn(b, None) /\ queued' = queued
  <2>1. cast' = [cast EXCEPT ![b] = None] /\ None \in Casts
    BY <1>4 DEF Turn, Casts
  <2>2. queued' \in [Conns -> Seq(Nat)] /\ \A x : \A f : IsQueued(f, x)' <=> IsQueued(f, x)
    BY <1>4 DEF IsQueued, HubInv, HubTypeOK
  <2>3. f0 \in lost' /\ lost \subseteq lost'
    BY <1>4
  <2>. QED
    BY <1>0, <1>1, <1>2, <2>1, <2>2, <2>3, TurnInv
<1>5. CASE /\ queued' = [queued EXCEPT ![c] = Append(@, f0)]
           /\ Turn(b, NextConn(b)) /\ lost' = lost
  <2> DEFINE next == NextConn(b)
  <2>1. /\ next \in Casts /\ next # None /\ cast' = [cast EXCEPT ![b] = next]
        /\ next.frame = f0 /\ next.todo = cast[b].todo \ {c} /\ next.at = "next"
    BY <1>0, <1>2, <1>5 DEF Turn, Casts, NextConn, None
  <2>2. queued \in [Conns -> Seq(Nat)] /\ Append(queued[c], f0) \in Seq(Nat)
    BY <1>2 DEF HubInv, HubTypeOK
  <2>3. /\ queued' \in [Conns -> Seq(Nat)] /\ queued'[c] = Append(queued[c], f0)
        /\ \A x \in Conns \ {c} : queued'[x] = queued[x]
    BY <1>2, <1>5, <2>2
  <2>4. \A f : IsQueued(f, c)' <=> IsQueued(f, c) \/ f = f0
    BY <1>2, <2>2, <2>3, QueuedAppend
  <2>5. \A x \in Conns \ {c} : \A f : IsQueued(f, x)' <=> IsQueued(f, x)
    BY <2>3 DEF IsQueued
  <2>6. \A x \in Conns : \A f : IsQueued(f, x) => IsQueued(f, x)'
    BY <2>4, <2>5
  <2>7. \A x \in Conns : \A f : IsQueued(f, x)' =>
            \/ IsQueued(f, x)
            \/ f \in Frames /\ Came(x) /\ token[x] \notin frames[f].marked
    BY <1>3, <2>4, <2>5
  <2>8. \A x \in conns' : x \in cast[b].todo => IsQueued(f0, x)' \/ x \in next.todo
    BY <2>1, <2>4
  <2>9. next.todo \subseteq cast[b].todo /\ conns' \subseteq conns /\ lost \subseteq lost'
    BY <1>1, <1>5, <2>1
  <2>. HIDE DEF next
  <2>. QED
    BY <1>0, <1>1, <1>2, <2>1, <2>3, <2>6, <2>7, <2>8, <2>9, TurnInv
<1>6. CASE /\ Turn(b, [cast[b] EXCEPT !.at = "drop"])
           /\ queued' = queued /\ lost' = lost
  <2> DEFINE next == [cast[b] EXCEPT !.at = "drop"]
  <2>1. /\ next \in Casts /\ next # None /\ cast' = [cast EXCEPT ![b] = next]
        /\ next.frame = f0 /\ next.todo = cast[b].todo /\ next.at = "drop" /\ next.to = c
    BY <1>0, <1>2, <1>6 DEF Turn, Casts, None
  <2>2. queued' \in [Conns -> Seq(Nat)] /\ \A x : \A f : IsQueued(f, x)' <=> IsQueued(f, x)
    BY <1>6 DEF IsQueued, HubInv, HubTypeOK
  <2>. HIDE DEF next
  <2>. QED
    BY <1>0, <1>1, <1>2, <1>3, <1>6, <2>1, <2>2, TurnInv
<1>. QED
  BY <1>0, <1>4, <1>5, <1>6 DEF Send

LEMMA DropInv == ASSUME HubInv, NEW b \in Casters, Drop(b) PROVE HubInv'
<1> DEFINE next == [cast[b] EXCEPT !.at = "close"]
<1>1. /\ UNCHANGED <<marked, serving, token, reader, frames, queued, lost>>
      /\ conns' = conns \ {cast[b].to} /\ cast[b].at = "drop"
      /\ cast' = [cast EXCEPT ![b] = next]
  BY DEF Drop, Turn, tok, sock, chan, life
<1>2. /\ cast[b] # None
      /\ cast[b] \in [at : {"send", "drop", "close"}, to : Conns, frame : Nat,
                      todo : SUBSET Conns]
  BY <1>1, CastFields
<1>3. cast[b].to \in cast[b].todo
  BY <1>1, <1>2 DEF HubInv, CastOK
<1>4. /\ next \in Casts /\ next # None /\ next.at = "close" /\ next.to = cast[b].to
      /\ next.frame = cast[b].frame /\ next.todo = cast[b].todo
  BY <1>2 DEF Casts, None
<1>5. queued' \in [Conns -> Seq(Nat)] /\ \A x : \A f : IsQueued(f, x)' <=> IsQueued(f, x)
  BY <1>1 DEF IsQueued, HubInv, HubTypeOK
<1>6. conns' \subseteq conns /\ next.to \notin conns'
  BY <1>1, <1>4
<1>. HIDE DEF next
<1>. QED
  BY <1>1, <1>2, <1>3, <1>4, <1>5, <1>6, TurnInv

LEMMA CloseDroppedInv == ASSUME HubInv, NEW b \in Casters, CloseDropped(b) PROVE HubInv'
<1> DEFINE next == NextConn(b)
<1>1. /\ UNCHANGED <<conns, marked, serving, token, reader, frames, queued, lost>>
      /\ cast[b].at = "close" /\ cast' = [cast EXCEPT ![b] = next]
  BY DEF CloseDropped, Turn, tok, life
<1>2. /\ cast[b] # None
      /\ cast[b] \in [at : {"send", "drop", "close"}, to : Conns, frame : Nat,
                      todo : SUBSET Conns]
  BY <1>1, CastFields
<1>3. cast[b].to \notin conns
  BY <1>1, <1>2 DEF HubInv, CastOK
<1>4. /\ next \in Casts /\ next # None /\ next.at = "next"
      /\ next.frame = cast[b].frame /\ next.todo = cast[b].todo \ {cast[b].to}
  BY <1>2 DEF Casts, None, NextConn
<1>5. queued' \in [Conns -> Seq(Nat)] /\ \A x : \A f : IsQueued(f, x)' <=> IsQueued(f, x)
  BY <1>1 DEF IsQueued, HubInv, HubTypeOK
<1>6. \A x \in conns' : x \in cast[b].todo => x \in next.todo
  BY <1>1, <1>3, <1>4
<1>. HIDE DEF next
<1>. QED
  BY <1>1, <1>2, <1>4, <1>5, <1>6, TurnInv

LEMMA FinishInv == ASSUME HubInv, NEW b \in Casters, Finish(b) PROVE HubInv'
<1>1. /\ UNCHANGED <<conns, marked, serving, token, reader, frames, queued, lost>>
      /\ cast[b].at = "next" /\ cast[b].todo = {} /\ cast' = [cast EXCEPT ![b] = None]
  BY DEF Finish, Turn, tok, sock, chan, life
<1>2. cast[b] # None /\ None \in Casts
  BY <1>1, CastFields DEF Casts
<1>3. queued' \in [Conns -> Seq(Nat)] /\ \A x : \A f : IsQueued(f, x)' <=> IsQueued(f, x)
  BY <1>1 DEF IsQueued, HubInv, HubTypeOK
<1>. QED
  BY <1>1, <1>2, <1>3, TurnInv

-----------------------------------------------------------------------------
LEMMA HubNextInv == HubInv /\ [Next]_vars => HubInv'
<1> SUFFICES ASSUME HubInv, [Next]_vars PROVE HubInv'
  OBVIOUS
<1> USE DEF tok, chan, life, bc, sock
<1>1. ASSUME NEW c \in Conns, NEW t, Verify(c, t) PROVE HubInv'
  BY <1>1, VerifyInv
<1>2. ASSUME NEW c \in Conns, Serve(c) PROVE HubInv'
  BY <1>2, RegisterInv, SendMarkerInv DEF Serve
<1>3. ASSUME NEW c \in Conns, Leave(c) PROVE HubInv'
  BY <1>3, AsideInv DEF Leave
<1>4. ASSUME NEW c \in Conns, ReadEnds(c) PROVE HubInv'
  <2>1. /\ conns' = conns \ {c} /\ reader' = [reader EXCEPT ![c] = FALSE]
        /\ UNCHANGED <<marked, serving, token, queued, bc, lost>>
    BY <1>4 DEF ReadEnds
  <2>2. reader' = [x \in Conns |-> reader'[x]] /\ \A x \in conns' : reader'[x]
    BY <2>1 DEF HubInv, HubTypeOK, NoLeak
  <2>. QED
    BY <2>1, <2>2, ShrinkInv DEF HubInv, HubTypeOK
<1>5. ASSUME NEW c \in Conns, Write(c) \/ WriteClose(c) \/ PingFails(c) PROVE HubInv'
  BY <1>5, AsideInv DEF Write, WriteClose, PingFails
<1>6. ASSUME NEW b \in Casters, Copy(b) \/ Caster(b) PROVE HubInv'
  BY <1>6, CopyInv, CheckInv, SendInv, DropInv, CloseDroppedInv, FinishInv DEF Caster
<1>7. ASSUME NEW t \in Tokens, RevokeToken(t) PROVE HubInv'
  <2>1. /\ conns' \subseteq conns /\ marked' = marked \cup {t}
        /\ UNCHANGED <<serving, token, queued, reader, bc, lost>>
    BY <1>7 DEF RevokeToken
  <2>2. reader' = [x \in Conns |-> reader'[x]] /\ \A x \in conns' : reader'[x]
    BY <2>1 DEF HubInv, HubTypeOK, NoLeak
  <2>. QED
    BY <2>1, <2>2, ShrinkInv DEF HubInv, HubTypeOK
<1>8. ASSUME NEW t \in Tokens, Revoke(t) PROVE HubInv'
  BY <1>8, AsideInv DEF Revoke, CloseVictim, RevokeInStore
<1>9. CASE UNCHANGED vars
  BY <1>9, AsideInv DEF vars
<1>. QED
  BY <1>1, <1>2, <1>3, <1>4, <1>5, <1>6, <1>7, <1>8, <1>9 DEF Next, Pumps

LEMMA HubInvHolds == Spec => []HubInv
BY HubInitInv, HubNextInv, PTL DEF Spec

-----------------------------------------------------------------------------
\* A client that is still in the hub has missed no broadcast that copied it
\* (hub.go, Broadcast), however slow it is and whoever broadcasts beside it.
THEOREM NobodySkipped == Spec => []NoGaps
<1>1. HubInv => NoGaps
  BY DEF HubInv
<1>. QED
  BY <1>1, HubInvHolds, PTL

\* A broadcast that begins after a token was marked (hub.go, RevokeToken) is
\* never queued for a connection of that token, whenever that was verified.
THEOREM RevokedGetNoFrame == Spec => []RevokedGetNothing
<1>1. HubInv => RevokedGetNothing
  BY DEF HubInv
<1>. QED
  BY <1>1, HubInvHolds, PTL

\* A connection whose readPump has ended (hub.go, readPump) is never left
\* in the hub.
THEOREM NobodyLeftBehind == Spec => []NoLeak
<1>1. HubInv => NoLeak
  BY DEF HubInv
<1>. QED
  BY <1>1, HubInvHolds, PTL
=============================================================================
