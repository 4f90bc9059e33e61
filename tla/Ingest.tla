------------------------------- MODULE Ingest -------------------------------
(***************************************************************************)
(* The way of a line from POST /stream into a pane: the router finds the   *)
(* pane's pipeline, which tells control sequences from content and sends   *)
(* content through its filters into the scrollback and to the browsers.    *)
(*                                                                         *)
(* A post runs on its request's goroutine, so posts to one pane overlap.   *)
(* A filter is a process shared by them behind the filter's mutex: a line  *)
(* is written to its stdin and one line read from its stdout.              *)
(* Panes come and go meanwhile: a post goes on with the pipeline it found. *)
(***************************************************************************)
EXTENDS KVStore, SequencesExt

CONSTANTS TargetIDs, Clients,
          Bodies,            \* what a post may carry: sequences of lines
          FilterChainMax, ScrollbackCap,
          Behaviours,        \* what a filter command may do with a line
          MaxLines,          \* bound: lines posted and values set, altogether
          MaxPipelines,      \* bound: pipelines ever registered
          MaxFilters         \* bound: filters ever started

ASSUME BoundAssumption == /\ FilterChainMax \in Nat \ {0} /\ ScrollbackCap \in Nat \ {0}
                          /\ MaxLines \in Nat /\ MaxPipelines \in Nat /\ MaxFilters \in Nat
ASSUME BehaviourAssumption == Behaviours \subseteq {"one", "blank", "none", "two"}
ASSUME BodiesAssumption ==
    \A b \in Bodies :
       /\ Len(b) \in Nat /\ DOMAIN b = 1 .. Len(b)
       /\ \A i \in DOMAIN b :
             /\ b[i].kind \in {"content", "kv", "malformed", "too long", "clear"}
             /\ b[i].kind = "kv" => b[i].pairs \in Seq(STRING \X Values)

VARIABLES pipes,        \* Router.pipes: target ID -> pipeline
          pl,           \* the pipelines there ever were, numbered as registered
          filter,       \* the CmdFilters there ever were, numbered as started
          shown,        \* history: what each pipeline sent to the browsers
          posted,       \* history: number of lines each client has posted
          h             \* the request each client has in progress

vars == <<kvars, pipes, pl, filter, shown, posted, h>>

Idle == [at |-> "idle"]
Free == "nobody"
ASSUME FreeAssumption == Free \notin Clients

\* A line's content: who posted it, and which of their lines it is.
Text == [by : Clients, n : 1 .. MaxLines]

Blank == [by |-> Free, n |-> 0]     \* an empty line of output

NewPipeline == [filters |-> <<>>, scrollback |-> <<>>, handler |-> FALSE]
NewProcess == [up |-> TRUE, in |-> <<>>, out |-> <<>>]
NewFilter == [dead |-> FALSE, mu |-> Free, proc |-> NewProcess]

\* server.New calls SetControlHandler while no pipeline is registered.
Init == /\ KVInit
        /\ pipes = [id \in {} |-> 0]
        /\ pl = <<>>
        /\ filter = <<>>
        /\ shown = <<>>
        /\ posted = [c \in Clients |-> 0]
        /\ h = [c \in Clients |-> Idle]

Goto(c, next) == h' = [h EXCEPT ![c] = next]

-----------------------------------------------------------------------------
(* Router.Register and Router.Deregister, called by the handlers that add  *)
(* and remove panes.                                                       *)

Register(id) == /\ id \notin DOMAIN pipes
                /\ Len(pl) < MaxPipelines
                /\ pl' = Append(pl, NewPipeline)
                /\ shown' = Append(shown, <<>>)
                /\ pipes' = [i \in DOMAIN pipes \cup {id} |->
                               IF i = id THEN Len(pl) + 1 ELSE pipes[i]]
                /\ UNCHANGED <<kvars, filter, posted, h>>

Deregister(id) == /\ id \in DOMAIN pipes
                  /\ pipes' = Restrict(pipes, DOMAIN pipes \ {id})
                  /\ UNCHANGED <<kvars, pl, filter, shown, posted, h>>

-----------------------------------------------------------------------------
(* Router.Route and Pipeline.Run: the lines of the body, one at a time.     *)

Numbered(c, body) == [i \in DOMAIN body |-> [line |-> body[i],
                                             text |-> [by |-> c, n |-> posted[c] + i]]]

StreamPost(c) ==
    /\ h[c] = Idle
    /\ \E id \in DOMAIN pipes, body \in Bodies :
          /\ FoldFunction(+, 0, posted) + Len(body) <= MaxLines
          /\ posted' = [posted EXCEPT ![c] = @ + Len(body)]
          /\ Goto(c, [at |-> "line", p |-> pipes[id], id |-> id, todo |-> Numbered(c, body)])
    /\ UNCHANGED <<kvars, pipes, pl, filter, shown>>

\* The line in hand is dealt with: on to the next one.
NextLine(c) == [at |-> "line", p |-> h[c].p, id |-> h[c].id, todo |-> Tail(h[c].todo)]

AtLine(c, kind) == /\ h[c].at = "line"
                   /\ h[c].todo # <<>>
                   /\ Head(h[c].todo).line.kind = kind

RunEnds(c) == /\ h[c].at = "line"
              /\ h[c].todo = <<>>
              /\ Goto(c, Idle)
              /\ UNCHANGED <<kvars, pipes, pl, filter, shown, posted>>

\* A line longer than the scanner's buffer, or a KV sequence with a pair that
\* is none: Run returns the error and the rest of the body is not looked at.
LineFails(c) == /\ AtLine(c, "malformed") \/ AtLine(c, "too long")
                /\ Goto(c, Idle)
                /\ UNCHANGED <<kvars, pipes, pl, filter, shown, posted>>

(* applyKVSequence: the pairs are set one by one; the first that is refused *)
(* ends the run and leaves the earlier ones set.                           *)

KVLine(c) == /\ AtLine(c, "kv")
             /\ Goto(c, [at |-> "set", p |-> h[c].p, id |-> h[c].id, todo |-> h[c].todo,
                         pairs |-> Head(h[c].todo).line.pairs])
             /\ UNCHANGED <<kvars, pipes, pl, filter, shown, posted>>

KVPair(c) ==
    /\ h[c].at = "set"
    /\ h[c].pairs # <<>>
    /\ LET key   == Head(h[c].pairs)[1]
           value == Head(h[c].pairs)[2]
       IN  \/ /\ key \in Keys
              /\ Set(key, value)
              /\ Goto(c, [h[c] EXCEPT !.pairs = Tail(@)])
           \/ /\ key \notin Keys \/ ~Accepts(key, value)
              /\ Goto(c, Idle)
              /\ UNCHANGED kvars
    /\ UNCHANGED <<pipes, pl, filter, shown, posted>>

KVDone(c) == /\ h[c].at = "set"
             /\ h[c].pairs = <<>>
             /\ Goto(c, NextLine(c))
             /\ UNCHANGED <<kvars, pipes, pl, filter, shown, posted>>

\* handleKVSet and handleKVDelete, which any client may call meanwhile; a call
\* counts as a line.  A value that is refused changes nothing.
KVRequest(c) == /\ h[c] = Idle
                /\ FoldFunction(+, 0, posted) < MaxLines
                /\ posted' = [posted EXCEPT ![c] = @ + 1]
                /\ \E k \in Keys : Delete(k) \/ \E v \in Values : Set(k, v)
                /\ UNCHANGED <<pipes, pl, filter, shown, h>>

(* Every other control sequence goes to the control handler, if there is   *)
(* one.  Of those, sc:clear is the one that changes what is modelled here: *)
(* the handler looks the pane's pipeline up again and clears it.           *)

ControlLine(c) ==
    /\ AtLine(c, "clear")
    /\ pl' = IF pl[h[c].p].handler /\ h[c].id \in DOMAIN pipes
             THEN [pl EXCEPT ![pipes[h[c].id]].scrollback = <<>>] ELSE pl
    /\ Goto(c, NextLine(c))
    /\ UNCHANGED <<kvars, pipes, filter, shown, posted>>

(* dispatchContent: the filters are those of now; then one after the other. *)

Content(c) ==
    /\ AtLine(c, "content")
    /\ Goto(c, [at |-> "filters", p |-> h[c].p, id |-> h[c].id, todo |-> h[c].todo,
                chain |-> pl[h[c].p].filters, text |-> Head(h[c].todo).text])
    /\ UNCHANGED <<kvars, pipes, pl, filter, shown, posted>>

\* CmdFilter.Filter, by the client that holds or takes the first filter left.
F(c) == Head(h[c].chain)
Unlocked(f) == [f EXCEPT !.mu = Free]
PassOn(c, text) == [h[c] EXCEPT !.at = "filters", !.chain = Tail(@), !.text = text]

\* A faulty form: the mutex is not waited for.
FilterLock_Barges(c) ==
    /\ h[c].at = "filters"
    /\ h[c].chain # <<>>
    /\ filter' = [filter EXCEPT ![F(c)] =
                    [IF @.dead THEN NewFilter ELSE @ EXCEPT !.mu = c]]
    /\ Goto(c, [h[c] EXCEPT !.at = "filter_write"])
    /\ UNCHANGED <<kvars, pipes, pl, shown, posted>>

\* The mutex is taken, and a command that has ended is started afresh.
FilterLock(c) ==
    /\ h[c].at = "filters"
    /\ h[c].chain # <<>>
    /\ filter[F(c)].mu = Free
    /\ filter' = [filter EXCEPT ![F(c)] =
                    [IF @.dead THEN NewFilter ELSE @ EXCEPT !.mu = c]]
    /\ Goto(c, [h[c] EXCEPT !.at = "filter_write"])
    /\ UNCHANGED <<kvars, pipes, pl, shown, posted>>

\* The command cannot be started afresh: the line goes on unchanged.
FilterRestartFails(c) ==
    /\ h[c].at = "filters"
    /\ h[c].chain # <<>>
    /\ filter[F(c)].mu = Free
    /\ filter[F(c)].dead
    /\ Goto(c, PassOn(c, h[c].text))
    /\ UNCHANGED <<kvars, pipes, pl, filter, shown, posted>>

\* Writing fails once the command has ended: the line goes on unchanged.
FilterWrite(c) ==
    /\ h[c].at = "filter_write"
    /\ \/ /\ filter[F(c)].proc.up
          /\ filter' = [filter EXCEPT ![F(c)].proc.in = Append(@, h[c].text)]
          /\ Goto(c, [h[c] EXCEPT !.at = "filter_read"])
       \/ /\ ~filter[F(c)].proc.up
          /\ filter' = [filter EXCEPT ![F(c)] = [Unlocked(@) EXCEPT !.dead = TRUE]]
          /\ Goto(c, PassOn(c, h[c].text))
    /\ UNCHANGED <<kvars, pipes, pl, shown, posted>>

\* A faulty form: a command that ends is not noticed.
FilterRead_WaitsForever(c) ==
    /\ h[c].at = "filter_read"
    /\ LET out == filter[F(c)].proc.out
       IN  /\ out # <<>>
           /\ filter' = [filter EXCEPT ![F(c)] = [Unlocked(@) EXCEPT !.proc.out = Tail(out)]]
           /\ Goto(c, IF Head(out) = Blank THEN NextLine(c) ELSE PassOn(c, Head(out)))
    /\ UNCHANGED <<kvars, pipes, pl, shown, posted>>

\* The answer is one line of output: an empty one drops the line.  Scan waits
\* for it until the command ends, which lets the line go on unchanged.
FilterRead(c) ==
    /\ h[c].at = "filter_read"
    /\ LET out == filter[F(c)].proc.out
       IN  \/ /\ out # <<>>
              /\ filter' = [filter EXCEPT ![F(c)] = [Unlocked(@) EXCEPT !.proc.out = Tail(out)]]
              /\ Goto(c, IF Head(out) = Blank THEN NextLine(c) ELSE PassOn(c, Head(out)))
           \/ /\ out = <<>>
              /\ ~filter[F(c)].proc.up
              /\ filter' = [filter EXCEPT ![F(c)] = [Unlocked(@) EXCEPT !.dead = TRUE]]
              /\ Goto(c, PassOn(c, h[c].text))
    /\ UNCHANGED <<kvars, pipes, pl, shown, posted>>

\* ScrollbackBuffer.Append, which drops the oldest line of a full buffer ...
KeepLast(s) == IF Len(s) <= ScrollbackCap THEN s ELSE Tail(s)

ScrollbackAppend(c) ==
    /\ h[c].at = "filters"
    /\ h[c].chain = <<>>
    /\ pl' = [pl EXCEPT ![h[c].p].scrollback = KeepLast(Append(@, h[c].text))]
    /\ Goto(c, [h[c] EXCEPT !.at = "sink"])
    /\ UNCHANGED <<kvars, pipes, filter, shown, posted>>

\* Faulty forms: the sink is registered twice; the line goes to the pane that
\* has the ID by now.
Sink_Twice(c) ==
    /\ h[c].at = "sink"
    /\ shown' = [shown EXCEPT ![h[c].p] = @ \o <<h[c].text, h[c].text>>]
    /\ Goto(c, NextLine(c))
    /\ UNCHANGED <<kvars, pipes, pl, filter, posted>>
Sink_LooksUpAgain(c) ==
    /\ h[c].at = "sink"
    /\ shown' = IF h[c].id \in DOMAIN pipes
                THEN [shown EXCEPT ![pipes[h[c].id]] = Append(@, h[c].text)] ELSE shown
    /\ Goto(c, NextLine(c))
    /\ UNCHANGED <<kvars, pipes, pl, filter, posted>>

\* ... and the sink, which hands the line to Hub.Broadcast.
Sink(c) ==
    /\ h[c].at = "sink"
    /\ shown' = [shown EXCEPT ![h[c].p] = Append(@, h[c].text)]
    /\ Goto(c, NextLine(c))
    /\ UNCHANGED <<kvars, pipes, pl, filter, posted>>

-----------------------------------------------------------------------------
(* handlePaneFilterAdd: the command is started before it is known whether  *)
(* the chain has room for it.                                              *)

FilterStart(c) ==
    /\ h[c] = Idle
    /\ Len(filter) < MaxFilters
    /\ \E id \in DOMAIN pipes :
          /\ filter' = Append(filter, NewFilter)
          /\ Goto(c, [at |-> "filter_add", p |-> pipes[id], f |-> Len(filter) + 1])
    /\ UNCHANGED <<kvars, pipes, pl, shown, posted>>

AddFilter(c) ==
    /\ h[c].at = "filter_add"
    /\ \/ /\ Len(pl[h[c].p].filters) < FilterChainMax
          /\ pl' = [pl EXCEPT ![h[c].p].filters = Append(@, h[c].f)]
          /\ Goto(c, Idle)
       \/ /\ Len(pl[h[c].p].filters) >= FilterChainMax
          /\ Goto(c, [h[c] EXCEPT !.at = "filter_close"])
          /\ UNCHANGED pl
    /\ UNCHANGED <<kvars, pipes, filter, shown, posted>>

\* A faulty form: the refused command is left running.
FilterClose_Leaks(c) ==
    /\ h[c].at = "filter_close"
    /\ Goto(c, Idle)
    /\ UNCHANGED <<kvars, pipes, pl, filter, shown, posted>>

\* CmdFilter.Close: the command ends when its input does.
FilterClose(c) ==
    /\ h[c].at = "filter_close"
    /\ filter' = [filter EXCEPT ![h[c].f].dead = TRUE, ![h[c].f].proc.up = FALSE]
    /\ Goto(c, Idle)
    /\ UNCHANGED <<kvars, pipes, pl, shown, posted>>

-----------------------------------------------------------------------------
(* The filter commands: external programs.                                 *)

Answers(text) == {out \in {<<text>>, <<Blank>>, <<>>, <<text, text>>} :
                    \/ out = <<text>> /\ "one" \in Behaviours
                    \/ out = <<Blank>> /\ "blank" \in Behaviours
                    \/ out = <<>> /\ "none" \in Behaviours
                    \/ out = <<text, text>> /\ "two" \in Behaviours}

CommandAnswers(f) ==
    /\ filter[f].proc.up
    /\ filter[f].proc.in # <<>>
    /\ \E out \in Answers(Head(filter[f].proc.in)) :
          filter' = [filter EXCEPT ![f].proc.in = Tail(@), ![f].proc.out = @ \o out]
    /\ UNCHANGED <<kvars, pipes, pl, shown, posted, h>>

CommandEnds(f) ==
    /\ filter[f].proc.up
    /\ filter' = [filter EXCEPT ![f].proc.up = FALSE, ![f].proc.in = <<>>]
    /\ UNCHANGED <<kvars, pipes, pl, shown, posted, h>>

-----------------------------------------------------------------------------
Request(c) == StreamPost(c) \/ KVRequest(c) \/ FilterStart(c)

Step(c) == \/ RunEnds(c) \/ LineFails(c)
           \/ KVLine(c) \/ KVPair(c) \/ KVDone(c)
           \/ ControlLine(c) \/ Content(c)
           \/ FilterLock(c) \/ FilterRestartFails(c) \/ FilterWrite(c) \/ FilterRead(c)
           \/ ScrollbackAppend(c) \/ Sink(c)
           \/ AddFilter(c) \/ FilterClose(c)

Next == \/ \E id \in TargetIDs : Register(id) \/ Deregister(id)
        \/ \E c \in Clients : Request(c) \/ Step(c)
        \/ \E f \in DOMAIN filter : CommandAnswers(f) \/ CommandEnds(f)

Spec == Init /\ [][Next]_vars

\* A request's goroutine keeps running, and a command works on its input.
FairSpec == /\ Spec
            /\ \A c \in Clients : WF_vars(Step(c))
            /\ \A f \in 1 .. MaxFilters : WF_vars(f \in DOMAIN filter /\ CommandAnswers(f))

-----------------------------------------------------------------------------
Quiet == \A c \in Clients : h[c] = Idle

\* What a post has in hand after a filter is the answer to its own line, not
\* to a line of another post that used the filter at the same time.
OwnAnswer == \A c \in Clients : h[c].at \in {"filters", "sink"} =>
                h[c].text = Head(h[c].todo).text

\* The lines a client posts to a pane one after the other are shown in that
\* order and once each, whatever happens between them.
PosterOrder ==
    \A r \in DOMAIN shown : \A i, j \in DOMAIN shown[r] :
       (i < j /\ shown[r][i].by = shown[r][j].by) => shown[r][i].n < shown[r][j].n

\* With no post in progress, the browsers were sent what the scrollback holds,
\* and what it no longer holds was pushed out of a full buffer: a reload shows
\* what was on screen.
ScrollbackMatchesShown ==
    Quiet => \A r \in DOMAIN pl :
                /\ ToSet(pl[r].scrollback) \subseteq ToSet(shown[r])
                /\ Len(shown[r]) <= ScrollbackCap => Len(pl[r].scrollback) = Len(shown[r])

\* With no request in progress, every command still running is in the chain of a
\* pipeline, one closed meanwhile included: the command that a full chain refused
\* is not left running.
RefusedCommandsEnd ==
    Quiet => \A f \in DOMAIN filter : filter[f].proc.up =>
                \E r \in DOMAIN pl : f \in ToSet(pl[r].filters)

\* "Deregister removes and stops the pipeline" (router.go:88): with no request in
\* progress, every command still running serves a pane there is.
NoOrphanCommand ==
    Quiet => \A f \in DOMAIN filter : filter[f].proc.up =>
                \E id \in DOMAIN pipes : f \in ToSet(pl[pipes[id]].filters)

\* Every request is answered, although commands end at any moment - provided
\* that a command that runs answers each line it is given.
PostsEnd == \A c \in Clients : (h[c] # Idle) ~> (h[c] = Idle)
=============================================================================
