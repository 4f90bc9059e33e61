# rdw: models, checks and proofs

rdw shows streams of text in a browser. Programs send lines (`rdw pipe`, or
`POST /api/v1/stream/{id}`); a server keeps windows of panes, runs every line
through the pipeline of its pane, and hands it to the browsers over WebSockets.
This directory holds TLA+ modules of the parts of rdw whose correctness depends
on the order of steps, the TLC runs that check them on small instances, and
proofs, checked by TLAPS, of what holds for every instance. `PROJECT.json` says
for each definition which lines of the source it stands for.

    tlc -config MCIngest.cfg MCIngest.tla  # one run
    tlapm HubProofs.tla                    # one proof module

## The system

| Component | State | Operations | Talks to |
| --- | --- | --- | --- |
| session manager, `session/manager.go` | windows with panes, focused index, behind one lock | create, close, rename, focus, add and remove a pane, find, snapshot, restore | called by the handlers, which keep pointers to its objects |
| scrollback, `session/scrollback.go` | ring of lines, head, size | append, clear, lines | one per pipeline |
| bookmarks, `session/bookmark.go` | name to line index | add, remove, list | one store per pipeline |
| router, `router/router.go` | target ID to pipeline and bookmarks | register, deregister, get, route, stream, set control handler | handlers, pipelines |
| pipeline, `pipeline/pipeline.go` | sinks, filters, control handler | run, add filter | KV store, scrollback, hub |
| command filter, `pipeline/cmdfilter.go` | one process, its pipes, a mutex | filter a line, close | external commands |
| KV store, `kvstore/` | values by key, their counted size; SQLite file | set, delete, snapshot; persist, remove, load | pipelines, handlers, filters |
| hub, `server/hub.go`, `server/ws.go` | connections, revoked tokens; two pumps each | register, deregister, broadcast, revoke | handlers, pipelines, browsers |
| handlers, `server/routes.go` | saved layouts, cycle state | one goroutine per request | everything above |
| tokens and middleware, `auth/`, `server/middleware.go` | tokens, counters per address | verify, create, revoke, allow | handlers |
| cycle, `cycle/` | context, a channel of one event, two goroutines | start, replace, stop | handlers, manager |
| terminals, `terminal/` | pane to process | launch, kill | handlers, `ttyd` |
| server process, `server/server.go`, `server/unix.go`, `discovery/` | HTTP server, socket file, entry in the registry file | run, stop, list | other servers on the machine |
| browser client, `server/frontend.go` | its copy of the windows, focus, zoom, modes, lines, marks | keys, mouse, frames, answers | handlers, hub |
| `rdw pipe`, `pipe/`, `mirror/`, `cmd/rdw/commands.go` | queue of lines not yet sent, block in hand, sink | prepare the pane, tee, cut, relay | stdin, the server |
| formatters, `format/` | table of formatters | format a scrollback | handlers |
| highlight, export, layout files, config, bindings, selftest, browser launcher | pure functions or one table behind one lock | | |

What makes it hard:

* net/http runs each request on its own goroutine, and no handler holds a lock:
  a handler is a row of locked calls, and what it read may be old by the next one.
* Handlers keep pointers to windows and panes and read and write them without
  the manager's lock (`handlePaneSwap`, `handleGroupAction`).
* Pane and pipeline are two records of one thing, changed by separate calls.
* `Broadcast` works on a copy of the connections, while others close them.
* Posts to one pane overlap and share a filter process behind its mutex.
* The relay cannot know whether a line whose answer is lost has arrived, nor how
  much of a block that the server refused.
* A browser keeps its copy of the session by two ways that are not ordered:
  frames of the WebSocket, and answers to its own requests.
* Its keyboard belongs to the page, the search bar, the prompt or the title
  editor, which several flags tell apart.
* Servers on one machine share files that they rewrite without a lock, and may
  be killed anywhere.

What should hold: the focus names a window and names are unique; panes and
pipelines agree; no pane is in two windows; every request is answered; a connected
browser misses nothing and a revoked one gets nothing new; a filter's answer
belongs to the line it was asked for; the scrollback holds what was shown; a line
read by the relay is not forgotten, nor sent again once confirmed, nor missing from
the mirror; a browser that is left alone shows the session; text is no command; an
ended token opens nothing; a running server is found and a stopped cycle leaves
nothing behind.

## The modules

* `BoundedLog` - abstract specification of a scrollback: the last `Cap` lines.
  `Scrollback` - the ring buffer, shown to implement it (`Refinement`). `head`,
  `size` and the slots are those of `ScrollbackBuffer`; each locked method is one
  step.
* `SessionManager` - each method of `Manager` is an operator; `ManagerSpec` lets a
  caller make any call after any other. A window is a record with its address
  (`ref`), name and panes, a pane one with its address, target ID and split. The
  layouts saved by the server belong to it as well, as snapshots.
* `PaneServer` extends it with the requests: `h[c]` is the request of client `c`,
  with the local variables of its handler, and each action is one call a handler
  makes, or one unlocked access. Pointers are addresses looked up again at each
  use: `detached` holds the objects that are gone from the session but that some
  handler still points to. The loop of a group kill over an unlocked slice is
  two steps: if the slice changed between them, the loop may have missed any of
  the panes it contained before or after. Requests that fail before they change
  anything are left out. `Init` has windows because only a split adds a pane and
  a split needs one to start from: the embedding program creates the first, as
  the tests in `api_test.go` do. (`ApplyLayout`, which could, has no caller
  outside tests.) A pane's group is a function of its ID.
* `KVStore` - `Store.Set` with the limits on one value and on the total, `Delete`.
* `Ingest` extends it with the way of a line: `Router.Route`, the loop of
  `Pipeline.Run`, the kinds of line `processLine` tells apart, the filters with
  their processes and mutex, scrollback, sink; with `handlePaneFilterAdd`; and
  with the KV handlers, which other requests call meanwhile. Panes
  are registered and deregistered, and a post keeps the pipeline it
  found. A line is who posted it and which of their lines it is; `shown` is a
  history of what went to `Hub.Broadcast`. Filter commands are external: `Behaviours`
  says what they may print for a line, and they may end at any moment.
* `Hub` - `serveWS`, both pumps, `Broadcast`, `RevokeToken` with the token store's
  part of `handleTokenRevoke`. `queued` is a history of each send channel and
  `taken` the position of `writePump`; the difference is what is buffered.
* `Access` - the token store, `authMiddleware`, `loopbackOnly` and the rate
  limiter, with a clock. A request is in a slot with what its middleware has
  found; lookup and expiry are two steps, as in `Verify`. `admitted` is a history:
  how many requests of a source were let through in the last so many instants.
* `Bookmarks` - the stores of `Router.bookmarks`, made and dropped with a pane,
  and the requests that hold one in between.
* `Terminals` - `Launch` and `Kill`, of which only the access to the map is under
  the manager's mutex, over processes that may end by themselves.
* `Cycle` extends `SessionManager` with `handleCycleStart`, `handleCycleStop` and
  the two goroutines of a cycle: `ticker` with the channel's one slot, and
  `focuser`, which reads it and moves the focus.
* `ServerLife` - `rdw server start`, `Run`, the goroutine of the unix command
  `stop`, signals and kills, for several processes; the socket files and the
  registry they share, each update of the registry a read and a write.
* `Browser` extends `SessionManager` with one browser: `view`, `focused` and
  `zoom` are `state.windows` with `state.activeWin`, `state.focusedPane` and
  `state.zoom`; `inbox` is what the hub sent it, in order; `calls` its `fetch`es,
  each with what its `.then` does next, in any order. A handler is one step here,
  since `PaneServer` takes them apart. Another client sends commands too.
* `BrowserKeys` - `keydown`, the mouse handlers, search bar, prompt, context menu and
  title editor. Each event is one step, as JavaScript runs it. `typing` is
  `document.activeElement`. A key typed into the search bar meets two handlers, the
  input's and the page's: the input's steps to another match at Enter, n and N,
  which `issued` records as the action of that name. Control-c, which ends the
  search as Escape does, is left out.
* `BrowserLines` - scrollbacks, bodies on screen, the reconnection queue and the
  search, with `results` as positions that move as lines go off the top.
* `Relay` - the loop of `relay`. `up` is the network. A send may fail before or after
  the server took the line, and it also fails when the server answers with an error, of
  which a block may have been taken in part. `confirmed` is a history of the lines that
  an answer without error was for. `Pipe` extends it to `rdw pipe`: the requests before
  the first line, `mirror.Tee` as a thread of its own whose pipe has no buffer, and
  `hybridReader`, whose `Next` is the relay's `Read`.
* `Markdown` - the loops of `renderMarkdown` over kinds of lines.
* `MC*` - the instances for TLC. `*Proofs` - the theorems.

`PaneServer` and `Ingest` meet in the router: what is `pipes` to the first is
`DOMAIN pipes` to the second, whose `Register` and `Deregister` stand for every
request of the first that makes these calls; so do `MakeStore` and `DropStore` of
`Bookmarks`. `Ingest` ends where `Hub` starts, at `Broadcast`; `Hub` ends where
`BrowserLines` starts, at a received line, and `Browser` stands on a hub that
keeps order. `Pipe` and `Relay` end where `Ingest` starts. `Access` and `Hub`
share the revocation of a token: `Hub` looks at the connections there are,
`Access` at the requests.

`MCServices`, `MCClients` and `MCLiveness` instantiate several models that share
no variable. The variable `part` chooses one of them at the start; the others stay
at an initial state. So each is checked as if alone, and every property
of the run speaks of the states of its own part.

## The runs

| Run | Instance | Shows |
| --- | --- | --- |
| `panes` | 1 client, ten kinds of request, 2 IDs, 2 windows | panes have pipelines, a kill leaves none of the group, a restore tears nothing down that is used |
| `splits` | 2 clients, splits against window requests, 3 IDs | panes and pipelines agree when requests interleave at every call; the undo of a split |
| `progress` | 2 clients, close, kill, swap, focus | every request ends although panes and windows go |
| `ingest` | 2 clients, 3 lines or values, 2 pipelines of one ID, 2 filters for 1 stage | own answers, order per client, scrollback = screen, a refused command is stopped, exact size of the KV store, every request ends |
| `services` | windows: 3 names, 1 ID, 1 layout; scrollback: 3 slots, 3 lines; 2 processes on 1 or 2 ports; 1 token, 2 sources, 1 request at a time, clock to 4; 2 panes, 3 terminals, 2 requests; 1 ID, 2 bookmark stores, 2 requests | names unique, focus in range; the ring is the bounded log; a server is reached and listed; ended tokens and too many requests are refused; no terminal is lost but one a launch replaced; no bookmark strays |
| `clients` | browser: 3 commands, 2 windows, 2 calls and 2 frames in flight; keys: 2 panes, 8 bindings; lines: 2 panes of 2 lines, 1 query; pipe: 4 raw lines, up to 2 per read, a queue of 2 | the browser shows the session; text is no command, the menu means its pane; bodies and marks fit; nothing forgotten, nothing confirmed sent again, the mirror keeps up, blocks stay whole |
| `liveness` | hub: 1 connection, 2 broadcasters, 2 frames, 1 slot; 2 cycles over 2 windows; all inputs of up to 3 lines, but those with a line that begins with # and is no heading | no gaps, nothing new after a revocation, no leak, a dropped connection ends; a stopped cycle ends; the renderer ends and writes each line once |
| `hub_panic` | fails | a broadcast sends on a channel another one closed |
| `relay_order` | fails | a live line overtakes the queue |
| `server_stop` | fails | `rdw server stop` leaves the process running |
| `markdown_hang` | fails | a line like `#tag` stops the renderer for good |
| `closed_pane` | fails | the filter command of a closed pane runs on |

Why the bounds are enough. Three windows tell first, middle and last apart; two
panes fill a window, so that a third is refused, and give a removal a choice. Two IDs
in two windows are what a swap, a kill and a restore need to go wrong. A send
buffer of one frame is full after one frame or the reconnect marker, so that of two
broadcasts both may find it full, at the same time too; a queue of two overflows and is
flushed in part. A scrollback of two lines evicts at the third, a ring of three
slots wraps and has a first, a middle and a last. Two filters
compete for the one stage. Two clients are enough for a handler to be overtaken
between any two of its calls; three do not reach a new pair of calls. Addresses
are as many as objects and pointers can exist at once. Two servers are every
conflict over a port, a file or a pair of registry updates, since each has two
threads of its own. A clock of four instants holds two windows of the limiter and
outlives a token. Three terminals let a launch come between the two steps of a kill
and be replaced itself. Three commands are one to change the session, one to
overtake it and one to act on the outcome; two calls and two frames are the
smallest numbers that can be out of order. Two keys make a sequence; the
bindings have one action of each kind. Four raw lines are a block with a foreign
end inside and a line after it. Three lines of Markdown are an opened and continued
block and the line that ends it, or three items of a list.

What a run does not meet. `panes` has one client, so neither two swaps at once nor
a kill whose windows another request changes: `NoSharedPanes` and
`KillEmptiesGroup` say there what one request does, halfway states and all windows
included. The two clients of `progress` do meet. `liveness` has one connection; that
a slow one costs the others nothing is the theorem `NobodySkipped`.

Fairness. `FairSpec` of `PaneServer`, `Ingest` and `Hub` says that a goroutine
that has started keeps running when it can: the Go scheduler is preemptive. It
says nothing about new requests, about clients leaving or reading, about
broadcasts, or about a filter command ending. Weak fairness is enough for the
filter's mutex: `sync.Mutex` hands itself to a waiter that has starved, and
here the lines are bounded. In `ingest` a command that runs works on the line
it was given; that it prints one line for it (`"one"` or `"blank"`) is an
assumption about the command, see below. `CycleFairness` is strong for
`TickerEnds` only: the `select` of a cycle's `Run` finds the tick and the end of the
context ready at the same time and picks one at random, so it cannot pass over
the end for ever, while weak fairness would let ticks win always.
`MarkdownFairness` says that a loop goes on; `LifeFairness` that the threads of a
process do, not that anybody signals it. Runs whose model may stop, because
no pane, line, command or client is left, do not check deadlock.

`ScrollbackMatchesShown`, `PanesHavePipelines` and the like speak of states with
no request in progress; in between the two records differ for a moment.
`SoloSeesSession` speaks of one user who waits for each command: what two users,
or one in a hurry, may see is below. `Listed` speaks of registry updates that do
not overlap, and `Reachable` of ports used by one process at a time, for the same
reason. `RateLimited` allows a source twice the limit less one, which is what
windows of fixed length promise; `requirements.md:314` asks for the limit itself per
minute. `EndedTokensRefused` speaks of positive expiries: what becomes of 0 and of
negatives is below, and one so large that it overflows is outside the model.
`NoStrayTerminal` exempts a process that a later launch under its ID replaced.
`RefusedCommandsEnd` lets a command of a closed pane run on, as `closed_pane` shows
it does. `MenuActsWhereOpened` speaks of a focus that no key moved meanwhile.

Each property comes with a mutant of the code it is about - an operator named
`Action_Fault` - that breaks it.


## The proofs

Eight modules hold theorems; `PROJECT.json` lists the ones to know of. The
constants are arbitrary but for the named assumptions of the modules: positive
capacities, queue and buffer sizes, an expiry that is positive, special values
(`NoPane`, `NoProcess`, `Owner`, "none") that are not members of the sets they are
told apart from. What a theorem assumes beyond that stands in its ASSUME.

* `SessionManagerProofs` - for any names, panes and limit. `Inv` is the three
  invariants together, since lookups by name rest on unique names and a restore on
  layouts that fit. One lemma per call, over three facts about sequences. Theorems:
  `TypeCorrect`, `WindowNamesUnique`, `FocusInRange`. Its last part serves the next
  two modules: `Spots`, the places of panes in a session, and for each call the map
  from the spots after it to those before (`Drawn`, `DrawnFrom`).
* `PaneServerProofs` - any number of clients, interleaved at every call. `AnyInv`
  keeps the session typed whatever is written through a pointer to an object that is
  gone: it says which addresses a request holds and that what lives at them, in the
  session or detached, is a window or pane. From it `HandlersKeepTypes`,
  `HandlersKeepNamesUnique` and `HandlersKeepFocusInRange` for all ten kinds of
  request, and `OnlySwapsShare`: without swaps no two windows share a pane.
  `SplitInv` is an account: for each ID, panes less splits not yet registered or
  about to be undone equal its pipeline. It holds for splits among requests that
  remove no pane (`SplitOps`), where `SplitsMatchPipelines` and `SplitsKeepIDsApart`
  follow; with a close between the two calls of a split they are false (below).
* `PaneRequestProofs` - one client (`OneClient`), every kind of request, any number
  of requests. `OneInv` says for every call a request can stop before how far panes,
  IDs and pipelines agree just then: in the middle of a swap one pane is in both
  windows and the other only in the handler's hand; during an apply panes wait for
  their pipelines. Theorems: `PanesNeverShared`, `PanesStayFed`,
  `NoPipelineTornDown`. `KillInv` adds for a kill that every pane of the group is
  among the targets found or in a window still to be read, later that every one left
  is a target left; hence `KillTakesAll`.
* `HubProofs` - for any number of clients, broadcasters, tokens and broadcasts and
  any size of the send buffer. `HubInv` adds to the properties that a connection
  that was registered never is again and keeps its token (`Came`), that a frame is
  queued only after its broadcast began (`QueuedOK`), and what holds of a broadcast
  between two of its steps (`CastOK`): the connection it is about to send to may
  have the frame, the one it is about to close has left the hub. `NoGaps` needs the
  latter, `RevokedGetNothing` the former, because the check and the send are two
  steps and marks are only ever added. `TurnInv` is the shape all steps of a
  broadcast share. Theorems: `NobodySkipped`, `RevokedGetNoFrame`,
  `NobodyLeftBehind`.
* `IngestProofs` - for any panes, clients, filters, limits and bodies. One lemma for
  each action says what it does; on them stand, after the type invariant
  (`TypesHold`), one invariant for each promise. `OrphanInv`: a command that runs is
  in a chain or in the hands of the request that adds it (`RefusedAreStopped`). `HoldInv`:
  what a scrollback holds was shown or stands before the sink, and its length is
  their number up to the capacity (`ScrollbackIsWhatWasShown`). `AnswerInv`: under
  the filter's mutex the pipes hold the line asked or its answer, and are empty when
  nobody reads (`AnswersAreOwn`). `OrderInv`: what was shown lies behind what is still
  to do (`PostersKeepTheirOrder`). The last two need `NoneAnswersTwice`, that no
  command prints two lines for one: with such a command they are false. `KVInv`
  counts the size along, over lemmas on the sum of a function when one value is set
  or taken out (`StoreCountsRight`).
* `ServicesProofs` - what stands beside the panes.
  Scrollback, for every capacity and set of lines: `IInv` is type correctness with
  `NoBlankRead`, which alone is not inductive, since an append fills the next slot
  only if head and size are in range; `AppendEffect` says what it does to the lines
  read back. Theorems: `RingTypeCorrect`, `ReadsOnlyWritten`, `ImplementsBoundedLog`
  (the refinement).
  Terminals: a request in progress holds a process that was started for its pane, a
  map entry is a process of its pane (`NoneLost`). Bookmarks: stores are numbered and
  never reused, every store, dropped ones included, holds only what was wanted in it
  (`MarksStayWithPane`).
  Tokens: a token in the store expires as the code makes of what was asked for and
  was not withdrawn, and a
  request that found its token carries that expiry and came before the withdrawal; a
  revocation between lookup and check breaks neither (`NoneServedAfterEnd`). Rate
  limit, for any window and limit: what was let through lately is of the window last
  begun, or reaches into the one before but not to its first request (`LimitHolds`).
  Server processes, for any number of them and of ports: a server alone on its port
  owns the socket file from its bind to its first cleanup (`ServersAreReached`);
  while no updates of the registry overlapped the one under way has read what the
  file holds (`EntriesAreKept`).
  Markdown, for inputs of any length: what the renderer has gone through is in the
  output, in order, and while it writes an ordered list a line before opened it and
  only items lie between (`RendersEachLineOnce`).
* `ClientProofs` - the two programs at the ends. The relay, for any queue and number of
  lines: what was flushed has arrived, the queue is older than the line in hand, and
  what is still to be sent was not confirmed. Theorems: `TypeCorrect`,
  `NoLineForgotten`, `NothingConfirmedTwice`, `QueueKeepsOrder`. `rdw pipe`, for any
  input and any way it is cut into reads: `TeeInv` counts what the sink was given by
  where the tee stands (`MirrorComplete`); `ReadInv` says how the logical lines cut up
  what was scanned (`BlocksStayWhole`); `PipeImplementsRelay` shows that each step is
  one of the relay or leaves it alone, so that the relay's theorems hold of the whole,
  `PipeForgetsNoLine` among them. Keyboard and mouse, for any panes and bindings: the
  menu forgets its pane before the command is dispatched and a prompt forgets the menu,
  so that as long as no key moved the focus it is where the menu was opened
  (`MenuMeansItsPane`); whoever has the keyboard, the flags agree on it (`TextIsText`);
  `EscapeTwiceSettles` needs that no key sequence begins with Escape.
* `BrowserProofs` - what the browser shows.
  The windows, for any session, slots for requests and bounds, as long as the
  user is alone. `SoloInv` names what may be under way between two states of rest -
  the first load, a command, the frame it caused, the load that follows, the two
  halves of `window.close` - and for each what the copy of the session lacks just
  then. Theorems: `SoloSeesTruth`, `SoloClosesOwn`.
  The lines, for any panes, lines, queries and lengths of page and queue: `LinesFit`
  counts each line of a body from the bottom, which no cut at the top disturbs, and
  says that a result of the search is a child of a body or gone, and that only the
  one the search stands at is current. A queue of lines is one lemma for
  `appendLine` (`PageStep`), carried through the queue by the first page that would
  fail (`PagesFit`). Theorems: `ShowsWhatIsKept`, `SearchMarksTrue`.

Hypotheses of the theorems about panes. `AddressesSuffice`: a handler about to
create objects finds free addresses. In the program this is the allocator's
business; in the model `AllocatorNeverFails` proves it when every natural number
is an address, however many clients there are, and TLC's instances have enough of
them. `StartsFit`, `StartsApart`, `StartsOwn`: the windows the embedding program
starts with keep to the limit and have names, IDs and addresses of their own.

Every invariant of the runs has its theorem. Only model-checked: all liveness -
`RequestsEnd`, the hub's and the cycle's ends, the end of the renderer - which is
out of the prover's reach, as are ENABLED and facts about recursive definitions
beyond what an induction on the first failure gives. For several clients at once
neither runs nor proofs claim `PanesHavePipelines`, `NoLiveTeardown` and
`KillEmptiesGroup`, since the code does not keep them (below).

## Where the code and its documents differ

Five runs show it: a broadcast sends on a closed channel (`hub.go:89`, against
`architecture.md:90`); a live line overtakes the reconnection queue (`pipe.go:86`,
`requirements.md:64`); `rdw server stop` leaves the process running
(`server.go:400`, `manual.md:1514`); a paragraph that begins with `#` stops the
"single-pass" Markdown renderer for good (`markdown.go:129`, `markdown.go:8`); and
`Deregister`, which "removes and stops the pipeline" (`router.go:88`), stops nothing,
so that the filter command of a closed pane runs on.

Met while modelling, and modelled as the code has it:

* Windows and panes. Closing a window before the focused one moves the focus
  (`manager.go:123`). The undo of a split removes the first pane of that ID, which
  may be another request's (`routes.go:374`). Closing a window leaves its pipelines
  (`requirements.md:357`), closing the last pane leaves an empty window
  (`manual.md:346`). A close and a split of one ID that overlap leave a pane without a
  pipeline (`routes.go:414`); two swaps that overlap put a pane in two windows
  (`routes.go:807`), and a kill that overlaps another request may miss a pane
  (`routes.go:720`); a swap within one window exchanges split and size with the panes
  (`manual.md:394`). Window requests send no `layout_update` (`architecture.md:146`),
  and of two layout broadcasts the older may come last (`routes.go:700`). A rename of
  a pane writes its label without a lock. Layout files are never applied: only tests
  call `ApplyLayout`.
* Hub and tokens. Concurrent broadcasts reach two clients in different orders
  (`architecture.md:162`). A connection verified before a revocation and registered
  after stays, without frames, until the next broadcast (`requirements.md:310`).
  `--expiry 0` is documented as no expiry (`manual.md:1266`, `manual.md:1736`,
  `auth.go:69`) and gives a day, as does every expiry below a second
  (`commands.go:752`); negative means none. The "token bucket" is a window of fixed
  length. A browser cannot send the header that the WebSocket route asks for.
* Pipelines. The control handler is installed on the pipelines there are at start, which
  is none (`server.go:105`): the control sequences of `reference.md:129` other than KV
  are swallowed. A filter that prints nothing for a line blocks its pane, one that
  prints two shifts the answers (`manual.md:1156`); it keeps the KV environment it was
  started with (`cmdfilter.go:20`). Lines that two posts send to one pane may stand in
  its scrollback in another order than on the screen (`pipeline.go:194`). `New` keeps
  only the session ID of its options, so no database is opened (`server.go:81`). A
  bookmark's line index is stale once a line is evicted, and one added after its pane
  was replaced is lost. The formatters' registry is a map without a lock, and their KV
  snapshot is frozen at registration.
* Relay. With its queue full it drops the newest line without a word
  (`requirements.md:65`); at the end of input it leaves the queue (`pipe.go:93`). A
  block that the server takes in part and then refuses, for a malformed KV sequence
  for example, is queued like one that was lost and sent again before each line that follows
  (`pipe.go:119`, `pipe.go:149`): what of it is shown is shown each time, and nothing
  behind it is flushed. When
  the preparation of `rdw pipe` fails, the filters already added stay attached.
* Processes. The registry is read and rewritten without a lock, although
  `architecture.md:163` names one, and entries get lost; the cleanup of a server that
  had been stopped, or could not start on a taken port, removes socket and entry of the
  one that runs; a `stop` that comes before the HTTP server is set leaves a server
  without a socket.
* Browser. `pane_zoom` is sent to every browser, the sender too; each toggles and
  asks again (`manual.md:818`). Answers and frames that come late overwrite a newer
  view. `state.focusedPane` may be of a window not shown, so that `q` closes a pane
  nobody sees. A pane that vanishes while zoomed leaves the zoom on. The
  title editor, opened "inline" by a double click (`manual.md:2054`), lets every key
  through to the key table, which carries out what is bound to it
  (`frontend.go:539`); its handler also throws on `arguments.callee` in
  strict mode. `g T` and `g $` cannot be typed, since Shift ends the sequence;
  swap mode has no keys of its own, and in it the right button swaps. An n or N typed
  into the search bar steps through the matches and becomes part of the query as well
  (`frontend.go:1384`); once the bar is closed the matches are gone, so that the keys of
  `search.next` and `search.prev` (`manual.md:905`) do nothing. A command chosen from the
  menu acts on the focused pane, which a key may have moved since
  (`frontend.go:1112`). Some frames have no handler
  in the client, others look for an element that is never made. Lines queued during
  a reconnection may be shown out of order.
* Formats. In an ordered list the renderer drops a line like `3.14 pi`, and of one like
  `1.a. b` all before the `b` (`markdown.go:109`); in a paragraph it keeps both.
  `ESC[0;31m` loses its colour.

## Not modelled

* Requests that set one field of one object (resize, rename, label, hide, show) and
  the reports; highlight profiles; the touch handlers.
* Panics other than those of `Broadcast`; input that exceeds the scanner's limit;
  the timestamp switch, which nothing sets; `AllowUnassigned`, which is never on.
* The KV database, since it is never opened; `ApplyLayout` and layout files, since
  only tests use them.
* How lines, commands, files and frames are parsed and rendered, but for the block
  structure of Markdown and of the relay's input: pure functions that unit tests
  reach. Styles, grid templates and colours of the browser.
* Most of `cmd/rdw/commands.go`: a command parses its flags and sends one request.
* The book builder and the self test, which are no part of the running program.

## Plan

1. `Hub` composed with `Browser` and several browsers, with the order of frames
   proved from the hub instead of assumed.
2. `Cycle`: that a stopped cycle moves the focus no more, as a safety property.
