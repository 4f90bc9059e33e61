-------------------------------- MODULE Hub --------------------------------
(***************************************************************************)
(* The WebSocket hub: clients that connect and leave, goroutines that      *)
(* broadcast, and tokens that are revoked under them.                      *)
(*                                                                         *)
(* Broadcast copies the set of connections under the hub's lock and works  *)
(* through the copy without it.  A dropped connection is closed by closing *)
(* its send channel, which its writePump then notices; its readPump takes  *)
(* it out of the hub when the socket goes down.  A step is one access to   *)
(* the hub under its lock, to a channel, to the token store or to a socket.*)
(***************************************************************************)
EXTENDS Integers, Sequences, FiniteSets

CONSTANTS Conns,        \* connections that may come
          Tokens,       \* access tokens
          Owner,        \* the tokenID of a connection that needed no token
          Casters,      \* goroutines that call Broadcast
          BufSize,      \* sendBufSize
          MaxFrames     \* bound: broadcasts considered

ASSUME OwnerAssumption == Owner \notin Tokens
ASSUME BufAssumption == BufSize \in Nat \ {0}
ASSUME FramesAssumption == MaxFrames \in Nat

VARIABLES conns,        \* Hub.conns
          marked,       \* Hub.revokedTokens
          valid,        \* the tokens the token store accepts
          revoking,     \* a RevokeToken in progress, and what it has left to do
          serving,      \* where serveWS stands, for each connection
          token,        \* conn.tokenID
          queued,       \* all frames ever put on conn.send; 0 is the marker
          taken,        \* how many of them writePump has taken off
          closed,       \* is conn.send closed?
          link,         \* is the socket up?
          writer,       \* is writePump running?
          reader,       \* is readPump running?
          cast,         \* the Broadcast each caster is in
          frames,       \* of each broadcast: whom it copied, what was marked then
          lost          \* broadcasts whose goroutine panicked; 0: a marker's

tok  == <<marked, valid, revoking>>
chan == <<queued, taken, closed>>
life == <<link, writer, reader>>
bc   == <<cast, frames>>
sock == <<token, chan, life>>
vars == <<conns, tok, serving, sock, bc, lost>>

None == [at |-> "none"]

Init == /\ conns = {}
        /\ marked = {}
        /\ valid = Tokens
        /\ revoking = [t \in Tokens |-> None]
        /\ serving = [c \in Conns |-> "new"]
        /\ token = [c \in Conns |-> Owner]
        /\ queued = [c \in Conns |-> <<>>]
        /\ taken = [c \in Conns |-> 0]
        /\ closed = [c \in Conns |-> FALSE]
        /\ link = [c \in Conns |-> FALSE]
        /\ writer = [c \in Conns |-> FALSE]
        /\ reader = [c \in Conns |-> FALSE]
        /\ cast = [b \in Casters |-> None]
        /\ frames = <<>>
        /\ lost = {}

\* Is the buffer full?
Full(c) == Len(queued[c]) - taken[c] = BufSize

-----------------------------------------------------------------------------
(* serveWS. *)

\* handleWS has the token verified, or needs none; the upgrade follows.
Verify(c, t) ==
    /\ serving[c] = "new"
    /\ t \in valid \cup {Owner}
    /\ serving' = [serving EXCEPT ![c] = "verified"]
    /\ token' = [token EXCEPT ![c] = t]
    /\ link' = [link EXCEPT ![c] = TRUE]
    /\ UNCHANGED <<conns, tok, chan, writer, reader, bc, lost>>

\* A faulty order: the pumps are started before the connection is registered.
Register_PumpsFirst(c) ==
    /\ \/ /\ serving[c] = "verified"
          /\ serving' = [serving EXCEPT ![c] = "pumping"]
          /\ writer' = [writer EXCEPT ![c] = TRUE]
          /\ reader' = [reader EXCEPT ![c] = TRUE]
          /\ UNCHANGED conns
       \/ /\ serving[c] = "pumping"
          /\ serving' = [serving EXCEPT ![c] = "registered"]
          /\ conns' = conns \cup {c}
          /\ UNCHANGED <<writer, reader>>
    /\ UNCHANGED <<tok, token, chan, link, bc, lost>>

\* The connection is registered, and its pumps are started.
Register(c) ==
    /\ serving[c] = "verified"
    /\ serving' = [serving EXCEPT ![c] = "registered"]
    /\ conns' = conns \cup {c}
    /\ writer' = [writer EXCEPT ![c] = TRUE]
    /\ reader' = [reader EXCEPT ![c] = TRUE]
    /\ UNCHANGED <<tok, token, chan, link, bc, lost>>

\* The reconnect marker, unless the buffer is full.  A send on a channel that
\* was closed meanwhile panics.
SendMarker(c) ==
    /\ serving[c] = "registered"
    /\ serving' = [serving EXCEPT ![c] = "served"]
    /\ queued' = IF closed[c] \/ Full(c) THEN queued
                 ELSE [queued EXCEPT ![c] = Append(@, 0)]
    /\ lost' = IF closed[c] THEN lost \cup {0} ELSE lost
    /\ UNCHANGED <<conns, tok, token, taken, closed, life, bc>>

\* The client goes away, or stops answering.
Leave(c) ==
    /\ link[c]
    /\ link' = [link EXCEPT ![c] = FALSE]
    /\ UNCHANGED <<conns, tok, serving, token, chan, writer, reader, bc, lost>>

-----------------------------------------------------------------------------
(* The pumps. *)

\* readPump: the socket is down; the connection leaves the hub.
ReadEnds(c) ==
    /\ reader[c] /\ ~link[c]
    /\ reader' = [reader EXCEPT ![c] = FALSE]
    /\ conns' = conns \ {c}
    /\ UNCHANGED <<tok, serving, token, chan, link, writer, bc, lost>>

WriterExits(c) == /\ writer' = [writer EXCEPT ![c] = FALSE]
                  /\ link' = [link EXCEPT ![c] = FALSE]

\* writePump takes a frame and writes it, or fails to.
Write(c) ==
    /\ writer[c] /\ taken[c] < Len(queued[c])
    /\ taken' = [taken EXCEPT ![c] = @ + 1]
    /\ IF link[c] THEN UNCHANGED <<writer, link>> ELSE WriterExits(c)
    /\ UNCHANGED <<conns, tok, serving, token, queued, closed, reader, bc, lost>>

\* A faulty end of writePump: the socket is left open.
WriteClose_LeavesSocket(c) ==
    /\ writer[c] /\ closed[c] /\ taken[c] = Len(queued[c])
    /\ writer' = [writer EXCEPT ![c] = FALSE]
    /\ UNCHANGED <<conns, tok, serving, token, chan, link, reader, bc, lost>>

\* Once the channel is closed and drained writePump sends a close frame.
WriteClose(c) ==
    /\ writer[c] /\ closed[c] /\ taken[c] = Len(queued[c])
    /\ WriterExits(c)
    /\ UNCHANGED <<conns, tok, serving, token, chan, reader, bc, lost>>

\* The ping that the ticker asks for fails.
PingFails(c) ==
    /\ writer[c] /\ ~link[c]
    /\ WriterExits(c)
    /\ UNCHANGED <<conns, tok, serving, token, chan, reader, bc, lost>>

-----------------------------------------------------------------------------
(* Broadcast. *)

Turn(b, next) == cast' = [cast EXCEPT ![b] = next]

\* The connections are copied under the lock.
Copy(b) ==
    /\ cast[b] = None
    /\ Len(frames) < MaxFrames
    /\ frames' = Append(frames, [to |-> conns, marked |-> marked])
    /\ Turn(b, [at |-> "next", frame |-> Len(frames) + 1, todo |-> conns])
    /\ UNCHANGED <<conns, tok, serving, sock, lost>>

\* A faulty form: no look at the revoked tokens.
Check_Skipped(b) ==
    /\ cast[b].at = "next"
    /\ \E c \in cast[b].todo : Turn(b, [at |-> "send", to |-> c, frame |-> cast[b].frame,
                                       todo |-> cast[b].todo])
    /\ UNCHANGED <<conns, tok, serving, sock, frames, lost>>

\* The next connection, in any order; isRevoked takes the lock again.
Check(b) ==
    /\ cast[b].at = "next"
    /\ \E c \in cast[b].todo :
          Turn(b, [at |-> IF token[c] \in marked THEN "drop" ELSE "send", to |-> c,
                   frame |-> cast[b].frame, todo |-> cast[b].todo])
    /\ UNCHANGED <<conns, tok, serving, sock, frames, lost>>

NextConn(b) == [at |-> "next", frame |-> cast[b].frame,
                todo |-> cast[b].todo \ {cast[b].to}]

\* A faulty form: a slow client misses the frame and stays.
Send_Skips(b) ==
    /\ cast[b].at = "send"
    /\ LET c == cast[b].to
       IN  /\ ~closed[c]
           /\ queued' = IF Full(c) THEN queued
                        ELSE [queued EXCEPT ![c] = Append(@, cast[b].frame)]
           /\ Turn(b, NextConn(b))
    /\ UNCHANGED <<conns, tok, serving, token, taken, closed, life, frames, lost>>

\* The send without blocking: queued, or else a slow client to be dropped; on
\* a channel closed since the copy was made it panics.
Send(b) ==
    /\ cast[b].at = "send"
    /\ LET c == cast[b].to
       IN  \/ /\ closed[c]
              /\ lost' = lost \cup {cast[b].frame}
              /\ Turn(b, None)
              /\ UNCHANGED queued
           \/ /\ ~closed[c] /\ ~Full(c)
              /\ queued' = [queued EXCEPT ![c] = Append(@, cast[b].frame)]
              /\ Turn(b, NextConn(b))
              /\ UNCHANGED lost
           \/ /\ ~closed[c] /\ Full(c)
              /\ Turn(b, [cast[b] EXCEPT !.at = "drop"])
              /\ UNCHANGED <<queued, lost>>
    /\ UNCHANGED <<conns, tok, serving, token, taken, closed, life, frames>>

\* The connection is dropped: out of the hub, then its channel is closed.
Drop(b) ==
    /\ cast[b].at = "drop"
    /\ conns' = conns \ {cast[b].to}
    /\ Turn(b, [cast[b] EXCEPT !.at = "close"])
    /\ UNCHANGED <<tok, serving, sock, frames, lost>>

Close(c) == closed' = [closed EXCEPT ![c] = TRUE]

CloseDropped(b) ==
    /\ cast[b].at = "close"
    /\ Close(cast[b].to)
    /\ Turn(b, NextConn(b))
    /\ UNCHANGED <<conns, tok, serving, token, queued, taken, life, frames, lost>>

Finish(b) ==
    /\ cast[b].at = "next"
    /\ cast[b].todo = {}
    /\ Turn(b, None)
    /\ UNCHANGED <<conns, tok, serving, sock, frames, lost>>

-----------------------------------------------------------------------------
(* handleTokenRevoke: the hub first, the token store after. *)

RevokeToken(t) ==
    /\ revoking[t] = None
    /\ marked' = marked \cup {t}
    /\ LET victims == {c \in conns : token[c] = t}
       IN  /\ conns' = conns \ victims
           /\ revoking' = [revoking EXCEPT ![t] = [at |-> "close", victims |-> victims]]
    /\ UNCHANGED <<valid, serving, sock, bc, lost>>

CloseVictim(t) ==
    /\ revoking[t].at = "close"
    /\ \E c \in revoking[t].victims :
          /\ Close(c)
          /\ revoking' = [revoking EXCEPT ![t].victims = @ \ {c}]
    /\ UNCHANGED <<conns, marked, valid, serving, token, queued, taken, life, bc, lost>>

RevokeInStore(t) ==
    /\ revoking[t].at = "close"
    /\ revoking[t].victims = {}
    /\ valid' = valid \ {t}
    /\ revoking' = [revoking EXCEPT ![t] = [at |-> "revoked"]]
    /\ UNCHANGED <<conns, marked, serving, sock, bc, lost>>

-----------------------------------------------------------------------------
Serve(c)  == Register(c) \/ SendMarker(c)
Pumps(c)  == ReadEnds(c) \/ Write(c) \/ WriteClose(c) \/ PingFails(c)
Caster(b) == Check(b) \/ Send(b) \/ Drop(b) \/ CloseDropped(b) \/ Finish(b)
Revoke(t) == CloseVictim(t) \/ RevokeInStore(t)

Next ==
    \/ \E c \in Conns : \/ \E t \in Tokens \cup {Owner} : Verify(c, t)
                        \/ Leave(c)
                        \/ Serve(c)
                        \/ Pumps(c)
    \/ \E b \in Casters : Copy(b) \/ Caster(b)
    \/ \E t \in Tokens : RevokeToken(t) \/ Revoke(t)

Spec == Init /\ [][Next]_vars

\* Every goroutine that has started goes on.  No client need come, leave or
\* read; nobody need broadcast or revoke.
HubFairness == /\ \A c \in Conns : WF_vars(Serve(c)) /\ WF_vars(Pumps(c))
               /\ \A b \in Casters : WF_vars(Caster(b))
               /\ \A t \in Tokens : WF_vars(Revoke(t))

FairSpec == Spec /\ HubFairness

-----------------------------------------------------------------------------
Frames == 1 .. Len(frames)

IsQueued(f, c) == \E i \in DOMAIN queued[c] : queued[c][i] = f

\* A connection that is still in the hub has missed no broadcast that copied
\* it: a client that cannot keep up is dropped, never skipped.  Only frames
\* still being sent, or whose broadcaster panicked, may be missing.
NoGaps ==
    \A c \in conns : \A f \in Frames :
        c \in frames[f].to => \/ IsQueued(f, c)
                              \/ f \in lost
                              \/ \E b \in Casters : /\ cast[b] # None
                                                    /\ cast[b].frame = f
                                                    /\ c \in cast[b].todo

\* Once the hub knows that a token is revoked, no broadcast that starts then
\* reaches a connection of that token, not even one that was verified before
\* and registers later.
RevokedGetNothing ==
    \A c \in Conns : \A f \in Frames : IsQueued(f, c) => token[c] \notin frames[f].marked

\* A connection whose readPump has ended is not left in the hub.
NoLeak == \A c \in conns : reader[c]

\* A dropped connection really ends: the socket goes down and both pumps stop.
DroppedEnd == \A c \in Conns :
                 closed[c] ~> (~link[c] /\ ~writer[c] /\ ~reader[c])

\* "serialises writes to avoid concurrent send races" (architecture.md:90):
\* no goroutine sends on a closed channel.
NoSendOnClosed == lost = {}
=============================================================================
