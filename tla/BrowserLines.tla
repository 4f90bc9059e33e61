---------------------------- MODULE BrowserLines ----------------------------
(***************************************************************************)
(* What the browser client keeps of the lines of each pane, and what its   *)
(* pages show of them: the scrollbacks outlive a change of layout, the     *)
(* bodies of the panes on screen are built anew from them.  Images go to   *)
(* the body only.  The search marks lines in the bodies.                   *)
(***************************************************************************)
EXTENDS Integers, SequencesExt, FiniteSets

CONSTANTS Streams,          \* target IDs that lines may arrive for
          Texts,            \* lines that may arrive
          Image,            \* an image or SVG block in a body
          Queries,          \* what is searched for
          NoQuery,          \* the empty search
          Finds,            \* which lines contain which query
          MaxBodyLines,     \* MAX_LINES
          ReconnectQueueLen,
          MaxImages         \* bound: blocks in one body

ASSUME FindsAssumption == Finds \subseteq Texts \X Queries
ASSUME BlockAssumption == Image \notin Texts
ASSUME StreamsAssumption == IsFiniteSet(Streams)
ASSUME LimitsAssumption == MaxBodyLines \in Nat \ {0} /\ ReconnectQueueLen \in Nat

VARIABLES scrollbacks,      \* state.scrollbacks
          bodies,           \* the children of the body of each pane on screen
          open,             \* is the socket that lines arrive by the open one?
          reconnectQueue,
          searching,        \* is state.mode "search"?
          query,            \* state.searchQuery
          results,          \* state.searchResults; Gone for a line not on screen any more
          searchIdx

page     == <<scrollbacks, bodies>>
search   == <<searching, query, results, searchIdx>>
linevars == <<page, open, reconnectQueue, search>>

Gone == [id |-> Image, at |-> 0]

Line(t) == [text |-> t, match |-> FALSE, current |-> FALSE]

LinesInit == /\ scrollbacks = [id \in Streams |-> <<>>]
             /\ bodies = [id \in {} |-> <<>>]
             /\ open = FALSE
             /\ reconnectQueue = <<>>
             /\ searching = FALSE
             /\ query = NoQuery
             /\ results = <<>>
             /\ searchIdx = 0

Last1(n, s) == SubSeq(s, IF Len(s) > n THEN Len(s) - n + 1 ELSE 1, Len(s))

Marks(t) == searching /\ query # NoQuery /\ <<t, query>> \in Finds

-----------------------------------------------------------------------------
\* A faulty form: one child too many goes from the body.
Append1_CutsOneMore(d, item) ==
    LET id   == item.id
        kept == IF id \in DOMAIN d.bodies THEN Last1(MaxBodyLines - 1, d.bodies[id]) ELSE <<>>
    IN  [sb     |-> [d.sb EXCEPT ![id] = Last1(MaxBodyLines, Append(@, item.line))],
         bodies |-> IF id \notin DOMAIN d.bodies THEN d.bodies
                    ELSE [d.bodies EXCEPT ![id] = kept],
         cut    |-> d.cut]

\* appendLine, on the page d: the scrollback keeps the last MaxBodyLines lines; of
\* the body as many children go as make room for one more.  cut counts them.
Append1(d, item) ==
    LET id   == item.id
        kept == IF id \in DOMAIN d.bodies THEN Last1(MaxBodyLines - 1, d.bodies[id]) ELSE <<>>
    IN  [sb     |-> [d.sb EXCEPT ![id] = Last1(MaxBodyLines, Append(@, item.line))],
         bodies |-> IF id \notin DOMAIN d.bodies THEN d.bodies
                    ELSE [d.bodies EXCEPT ![id] =
                            Append(kept, [Line(item.line) EXCEPT !.match = Marks(item.line)])],
         cut    |-> IF id \notin DOMAIN d.bodies THEN d.cut
                    ELSE [d.cut EXCEPT ![id] = @ + Len(d.bodies[id]) - Len(kept)]]

\* The results still refer to the same lines after the first of a body went.
After(r, cut) == IF r = Gone THEN Gone
                 ELSE IF r.at <= cut[r.id] THEN Gone ELSE [r EXCEPT !.at = @ - cut[r.id]]

\* The page before the first of the items and after each of them.
Pages(items) ==
    LET d[n \in 0 .. Len(items)] ==
            IF n = 0 THEN [sb |-> scrollbacks, bodies |-> bodies, cut |-> [id \in Streams |-> 0]]
                     ELSE Append1(d[n - 1], items[n])
    IN  d

AppendLines(items) ==
    LET d == Pages(items)[Len(items)]
    IN  /\ scrollbacks' = d.sb
        /\ bodies' = d.bodies
        /\ results' = [i \in DOMAIN results |-> After(results[i], d.cut)]
        /\ UNCHANGED <<searching, query, searchIdx>>

\* A line arrives; by a socket that is not open it waits for the marker, or is
\* dropped.
Arrives(item) ==
    \/ /\ open
       /\ AppendLines(<<item>>)
       /\ UNCHANGED <<open, reconnectQueue>>
    \/ /\ ~open
       /\ reconnectQueue' = IF Len(reconnectQueue) < ReconnectQueueLen
                            THEN Append(reconnectQueue, item) ELSE reconnectQueue
       /\ UNCHANGED <<page, open, search>>

\* The reconnect marker of the server.
Reconnect == /\ open
             /\ AppendLines(reconnectQueue)
             /\ reconnectQueue' = <<>>
             /\ UNCHANGED open

Socket == /\ open' = ~open
          /\ UNCHANGED <<page, reconnectQueue, search>>

\* renderImage, renderSVG: a block is put behind the last child.
RenderImage(id) ==
    /\ id \in DOMAIN bodies
    /\ Cardinality({i \in DOMAIN bodies[id] : bodies[id][i].text = Image}) < MaxImages
    /\ bodies' = [bodies EXCEPT ![id] = Append(@, Line(Image))]
    /\ UNCHANGED <<scrollbacks, open, reconnectQueue, search>>

\* renderLayout, buildPane: new bodies for the panes on screen.
RenderLayout(panes) ==
    /\ bodies' = [id \in panes |-> [i \in DOMAIN scrollbacks[id] |-> Line(scrollbacks[id][i])]]
    /\ results' = [i \in DOMAIN results |-> Gone]
    /\ UNCHANGED <<scrollbacks, open, reconnectQueue, searching, query, searchIdx>>

\* scroll.clear, of the focused pane, on screen or not.
ScrollClear(id) ==
    /\ bodies' = [x \in DOMAIN bodies |-> IF x = id THEN <<>> ELSE bodies[x]]
    /\ scrollbacks' = [scrollbacks EXCEPT ![id] = <<>>]
    /\ results' = [i \in DOMAIN results |-> IF results[i].id = id THEN Gone ELSE results[i]]
    /\ UNCHANGED <<open, reconnectQueue, searching, query, searchIdx>>

-----------------------------------------------------------------------------
(* Search. *)

Unmarked == [id \in DOMAIN bodies |->
               [i \in DOMAIN bodies[id] |-> Line(bodies[id][i].text)]]

\* The body b with the line of result r the current one, or not any more.
Current(b, r, flag) == IF r = Gone THEN b ELSE [b EXCEPT ![r.id][r.at].current = flag]

SearchOpened == /\ searching' = TRUE
              /\ UNCHANGED <<page, open, reconnectQueue, query, results, searchIdx>>

\* closeSearch: the marks go; the query stays.
SearchClosed == /\ searching' = FALSE
               /\ bodies' = Unmarked
               /\ results' = <<>>
               /\ UNCHANGED <<scrollbacks, open, reconnectQueue, query, searchIdx>>

\* A faulty form: the marks of the last search stay.
RunSearch_KeepsMarks(q, panes) ==
    /\ searching
    /\ query' = q
    /\ UNCHANGED <<page, open, reconnectQueue, searching, results, searchIdx>>

\* The lines of the panes that contain q.
Found(q, panes) ==
    IF q = NoQuery THEN {}
    ELSE UNION {{[id |-> id, at |-> i] : i \in {j \in DOMAIN bodies[id] :
                                               <<bodies[id][j].text, q>> \in Finds}} : id \in panes}

\* One pane after the other, each from its top.
InPageOrder(order) ==
    \A i, j \in DOMAIN order : i < j /\ order[i].id = order[j].id =>
        /\ order[i].at < order[j].at
        /\ \A k \in i .. j : order[k].id = order[i].id

\* runSearch over the focused pane or, without one, over all: the matches are
\* marked and the first is current.
RunSearch(q, panes) ==
    /\ searching
    /\ query' = q
    /\ LET found  == Found(q, panes)
           marked == [id \in DOMAIN bodies |-> [i \in DOMAIN bodies[id] |->
                        [Line(bodies[id][i].text) EXCEPT !.match = [id |-> id, at |-> i] \in found]]]
       IN  \E order \in SetToSeqs(found) :
             /\ InPageOrder(order)
             /\ results' = order
             /\ bodies' = IF order = <<>> THEN marked ELSE Current(marked, order[1], TRUE)
    /\ searchIdx' = IF q = NoQuery THEN searchIdx ELSE 0
    /\ UNCHANGED <<scrollbacks, open, reconnectQueue, searching>>

\* navigateSearch.
Navigate(delta) ==
    /\ results # <<>>
    /\ searchIdx' = (searchIdx + delta) % Len(results)
    /\ bodies' = Current(Current(bodies, results[searchIdx + 1], FALSE),
                         results[searchIdx' + 1], TRUE)
    /\ UNCHANGED <<scrollbacks, open, reconnectQueue, searching, query, results>>

LinesNext ==
    \/ \E id \in Streams, t \in Texts : Arrives([id |-> id, line |-> t])
    \/ Reconnect
    \/ Socket
    \/ \E id \in Streams : RenderImage(id) \/ ScrollClear(id)
    \/ \E panes \in SUBSET Streams : RenderLayout(panes)
    \/ SearchOpened
    \/ SearchClosed
    \/ \E q \in Queries \cup {NoQuery} :
          \E panes \in {DOMAIN bodies} \cup {{id} : id \in DOMAIN bodies} : RunSearch(q, panes)
    \/ \E delta \in {-1, 1} : Navigate(delta)

LinesSpec == LinesInit /\ [][LinesNext]_linevars

-----------------------------------------------------------------------------
\* The lines of a body from i on, the blocks not counted.
LinesFrom(body, i) == {k \in i .. Len(body) : body[k].text # Image}

\* The lines of a body are the last of those kept, and all of them unless the body is full.
ShowsTail(body, kept) ==
    /\ \A i \in LinesFrom(body, 1) :
          LET n == Cardinality(LinesFrom(body, i))
          IN  n <= Len(kept) /\ body[i].text = kept[Len(kept) + 1 - n]
    /\ Len(body) < MaxBodyLines => Cardinality(LinesFrom(body, 1)) = Len(kept)

\* What a pane shows is the end of what the client keeps of it, and all of it
\* unless the body is full: lines that arrive while another window is on screen,
\* a clear, a queue flushed late or images in between never make the two differ.
BodyIsTail == \A id \in DOMAIN bodies : ShowsTail(bodies[id], scrollbacks[id])

\* Every line marked on screen contains what is searched for, and at most one
\* is the current match: also after lines went off the top, the layout was
\* rendered anew or the query changed.
MarksFitQuery ==
    /\ \A id \in DOMAIN bodies : \A i \in DOMAIN bodies[id] :
          bodies[id][i].match => <<bodies[id][i].text, query>> \in Finds
    /\ \A id, other \in DOMAIN bodies : \A i \in DOMAIN bodies[id], j \in DOMAIN bodies[other] :
          bodies[id][i].current /\ bodies[other][j].current => id = other /\ i = j
=============================================================================
