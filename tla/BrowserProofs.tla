---------------------------- MODULE BrowserProofs ----------------------------
(***************************************************************************)
(* Proofs about what the browser shows.                                    *)
(*                                                                         *)
(* The windows, for any session, any number of requests in flight and any  *)
(* bounds: a user who is alone, gives one command after the other and      *)
(* stays connected sees the session as it is, and closes the window that   *)
(* was on the screen.                                                      *)
(*                                                                         *)
(* The lines, for any panes, lines, queries and length of the page: what a *)
(* pane shows is the end of what is kept of it, and the marks are those of *)
(* the search.                                                             *)
(***************************************************************************)
EXTENDS Browser, BrowserLines, SessionManagerProofs, FiniteSetTheorems, WellFoundedInduction

\* The session starts as the manager could have built it.
StartsFit == Fit(StartWindows, 0)

-----------------------------------------------------------------------------
(* What a lone user's commands set in motion, from one state of rest to    *)
(* the next.                                                               *)

\* The copy v when a window_focus for n has been received.
Named(v, n) == {i \in DOMAIN v.windows : v.windows[i].name = n}
AfterFocus(v, n) ==
    IF Named(v, n) = {} THEN v
    ELSE [v EXCEPT !.active = (CHOOSE i \in Named(v, n) : \A k \in Named(v, n) : i <= k) - 1]

FocusFrame(n) == [type |-> "window_focus", name |-> n]
LayoutFrame   == [type |-> "layout_update", snap |-> Snapshot]

\* One request is in flight at most.
Alone(s) == \A t \in Slots \ {s} : calls[t] = None

\* The page is being loaded.
Loading(s) == /\ link = "loading" /\ inbox = <<>> /\ Alone(s)
              /\ \/ calls[s] = [at |-> "get", then |-> "connect"]
                 \/ calls[s] = [at |-> "reply", then |-> "connect", snap |-> Snapshot]

\* Nothing is on its way, and the copy is the session.
Settled == Quiet /\ view = Snapshot /\ link \in {"opening", "open"}

\* What the commands are, and what follows each.
AskedOK(cmd, then) ==
    \/ then = "nothing" /\ cmd.op \in {"focus", "zoom"}
    \/ then = "delete" /\ cmd.op = "focus" /\ cmd.x = CurrentWindowName
    \/ then = "reload" /\ cmd.op = "create" /\ cmd.x \in Names
    \/ then = "reload" /\ cmd.op = "rename" /\ cmd.y \in Names
    \/ then = "reload" /\ cmd.op = "split" /\ cmd.y \in TargetIDs
    \/ then = "reload" /\ cmd.op = "paneClose"

\* A command is on its way to the server.
Asked(s) == /\ link = "open" /\ inbox = <<>> /\ Alone(s)
            /\ view = Snapshot
            /\ \E cmd, then : /\ calls[s] = [at |-> "sent", cmd |-> cmd, then |-> then]
                              /\ AskedOK(cmd, then)

\* The frame that was sent for it is on its way back.
Told == /\ link = "open" /\ \A s \in Slots : calls[s] = None
        /\ \/ \E n : inbox = <<FocusFrame(n)>> /\ AfterFocus(view, n) = Snapshot
           \/ inbox = <<LayoutFrame>>
           \/ \E id : inbox = <<[type |-> "pane_zoom", id |-> id]>> /\ view = Snapshot

\* The session is being loaded again; a frame may still come, before it or after.
Reloading(s) == /\ link = "open" /\ Alone(s)
                /\ \/ calls[s] = [at |-> "get", then |-> "nothing"]
                   \/ calls[s] = [at |-> "reply", then |-> "nothing", snap |-> Snapshot]
                /\ \/ inbox = <<>>
                   \/ inbox = <<LayoutFrame>>
                   \/ \E n : inbox = <<FocusFrame(n)>> /\ AfterFocus(Snapshot, n) = Snapshot

\* The window on screen, n, has been focused to be closed, and that may be news yet.
Closable(n) == /\ link = "open" /\ view = Snapshot
               /\ CurrentWindowName = n
               /\ AfterFocus(Snapshot, n) = Snapshot
               /\ inbox \in {<<>>, <<FocusFrame(n)>>}

Deleting(s) == /\ Alone(s)
               /\ \E n : calls[s] = [at |-> "delete", meant |-> n] /\ Closable(n)

Closing(s) == /\ Alone(s)
              /\ \E n : /\ calls[s] = [at |-> "sent", then |-> "reload",
                                       cmd |-> Command("close", n, NoID), meant |-> n]
                        /\ Closable(n)

\* The inductive invariant, as long as the user is alone.
SoloInv == /\ Fit(windows, active)
           /\ DOMAIN calls = Slots
           /\ \/ Settled
              \/ Told
              \/ \E s \in Slots : Loading(s) \/ Asked(s) \/ Reloading(s) \/ Deleting(s) \/ Closing(s)

-----------------------------------------------------------------------------
(* Focus. *)

\* What a snapshot says of the windows.
LEMMA SnapshotWindows ==
  ASSUME Fit(windows, active)
  PROVE  /\ Len(windows) \in Nat /\ DOMAIN windows = 1 .. Len(windows)
         /\ DOMAIN Snapshot.windows = DOMAIN windows
         /\ Len(Snapshot.windows) = Len(windows)
         /\ \A i \in DOMAIN windows : Snapshot.windows[i].name = windows[i].name
         /\ Snapshot.active = active /\ active \in Nat
<1>1. Len(windows) \in Nat /\ DOMAIN windows = 1 .. Len(windows) /\ active \in Nat
  BY LenProperties DEF Fit
<1>2. Snapshot.windows = [i \in DOMAIN windows |-> SavedWindow(windows[i])] /\ Snapshot.active = active
  BY DEF Snapshot
<1>3. \A i \in DOMAIN windows : Snapshot.windows[i].name = windows[i].name
  BY <1>2 DEF SavedWindow
<1>4. Len(Snapshot.windows) = Len(windows)
  BY <1>1, <1>2
<1> QED BY <1>1, <1>2, <1>3, <1>4

\* The first window of a name, seen from the copy.
LEMMA FirstNamed ==
  ASSUME Fit(windows, active), NEW n, NEW i \in DOMAIN windows, WindowAt(n, i)
  PROVE  AfterFocus(Snapshot, n) = [Snapshot EXCEPT !.active = i - 1]
<1>1. Named(Snapshot, n) = {k \in DOMAIN windows : windows[k].name = n}
  BY SnapshotWindows DEF Named
<1>2. i \in Named(Snapshot, n) /\ \A k \in Named(Snapshot, n) : i <= k
  BY <1>1, SnapshotWindows DEF WindowAt
<1>3. Named(Snapshot, n) \subseteq Nat
  BY <1>1, SnapshotWindows
<1>4. PICK N : N = Named(Snapshot, n)
  OBVIOUS
<1>5. (CHOOSE k \in N : \A l \in N : k <= l) = i
  BY <1>2, <1>3, <1>4
<1>6. N # {}
  BY <1>2, <1>4
<1> QED BY <1>4, <1>5, <1>6 DEF AfterFocus

\* A copy that was right before a focus is right again when the frame has come.
LEMMA FocusSeen ==
  ASSUME Fit(windows, active), view = Snapshot, NEW n, FocusWindow(n)
  PROVE  AfterFocus(view, n) = Snapshot'
<1>1. PICK i \in DOMAIN windows : WindowAt(n, i) /\ active' = i - 1
  BY DEF FocusWindow
<1>2. windows' = windows
  BY DEF FocusWindow
<1>3. AfterFocus(Snapshot, n) = [Snapshot EXCEPT !.active = i - 1]
  BY <1>1, FirstNamed
<1>4. Snapshot' = [windows |-> Snapshot.windows, active |-> i - 1]
  BY <1>1, <1>2 DEF Snapshot
<1>5. [Snapshot EXCEPT !.active = i - 1] = [windows |-> Snapshot.windows, active |-> i - 1]
  BY DEF Snapshot
<1> QED BY <1>3, <1>4, <1>5

\* A focus of the window that is shown changes nothing.
LEMMA FocusShown ==
  ASSUME Fit(windows, active), view = Snapshot, FocusWindow(CurrentWindowName)
  PROVE  Snapshot' = Snapshot /\ windows' = windows /\ active' = active
<1>1. PICK n : n = CurrentWindowName
  OBVIOUS
<1>2. FocusWindow(n)
  BY <1>1
<1>3. PICK i \in DOMAIN windows : WindowAt(n, i) /\ active' = i - 1
  BY <1>2 DEF FocusWindow
<1>4. windows' = windows
  BY <1>2 DEF FocusWindow
<1>5. n # NoName
  BY <1>3, WindowParts DEF WindowAt, WindowState
<1>6. active < Len(windows) /\ windows[active + 1].name = n
  <2>1. active < Len(windows)
    BY <1>1, <1>5, SnapshotWindows DEF CurrentWindowName
  <2>2. active + 1 \in DOMAIN windows
    BY <2>1, SnapshotWindows
  <2> QED BY <1>1, <2>1, <2>2, SnapshotWindows DEF CurrentWindowName
<1>7. i = active + 1
  BY <1>3, <1>6, SnapshotWindows DEF WindowAt, Fit, UniqueNames
<1>8. active' = active
  BY <1>3, <1>7, SnapshotWindows
<1> QED BY <1>4, <1>8 DEF Snapshot

\* When a window has been closed, no frame about it does any harm.
LEMMA ClosedIsGone ==
  ASSUME Fit(windows, active), NEW n, CloseWindow(n)
  PROVE  AfterFocus(Snapshot', n) = Snapshot'
<1>1. PICK i \in DOMAIN windows : WindowAt(n, i) /\ windows' = RemoveAt(windows, i)
  BY DEF CloseWindow
<1>2. /\ windows \in Seq(WindowState) /\ i \in 1 .. Len(windows) /\ Len(windows) \in Nat
      /\ DOMAIN windows = 1 .. Len(windows)
  BY <1>1, SnapshotWindows DEF Fit
<1>3. /\ windows' \in Seq(WindowState)
      /\ Len(windows') = Len(windows) - 1
      /\ \A j \in 1 .. Len(windows) - 1 :
            windows'[j] = IF j < i THEN windows[j] ELSE windows[j + 1]
  BY <1>1, <1>2, RemoveAtProperties
<1>4. DOMAIN windows' = 1 .. Len(windows) - 1
  BY <1>3, LenProperties
<1>5. ASSUME NEW j \in DOMAIN windows' PROVE windows'[j].name # n
  <2>1. j \in Nat /\ j \in 1 .. Len(windows) - 1
    BY <1>2, <1>4
  <2>2. CASE j < i
    <3>1. windows'[j] = windows[j]
      BY <1>3, <2>1, <2>2
    <3> QED BY <1>1, <2>1, <2>2, <3>1 DEF WindowAt
  <2>3. CASE ~(j < i)
    <3>1. windows'[j] = windows[j + 1] /\ j + 1 \in DOMAIN windows /\ j + 1 # i
      BY <1>2, <1>3, <2>1, <2>3
    <3> QED BY <1>1, <3>1 DEF WindowAt, Fit, UniqueNames
  <2> QED BY <2>2, <2>3
<1>6. Snapshot'.windows = [k \in DOMAIN windows' |-> SavedWindow(windows'[k])]
  BY DEF Snapshot
<1>7. Named(Snapshot', n) = {}
  BY <1>5, <1>6 DEF Named, SavedWindow
<1> QED BY <1>7 DEF AfterFocus

\* The window that is shown is where a focus of its name would lead.
LEMMA ShownAgain ==
  ASSUME Fit(windows, active), view = Snapshot, HasWindow(CurrentWindowName)
  PROVE  AfterFocus(Snapshot, CurrentWindowName) = Snapshot
<1>1. PICK n : n = CurrentWindowName
  OBVIOUS
<1>2. PICK i \in DOMAIN windows : windows[i].name = n
  BY <1>1 DEF HasWindow
<1>3. n # NoName
  BY <1>2, WindowParts DEF WindowState
<1>4. active < Len(windows) /\ windows[active + 1].name = n /\ active + 1 \in DOMAIN windows
  <2>1. active < Len(windows)
    BY <1>1, <1>3, SnapshotWindows DEF CurrentWindowName
  <2>2. active + 1 \in DOMAIN windows
    BY <2>1, SnapshotWindows
  <2> QED BY <1>1, <2>1, <2>2, SnapshotWindows DEF CurrentWindowName
<1>5. WindowAt(n, active + 1)
  <2>1. ASSUME NEW k \in 1 .. active, windows[k].name = n PROVE FALSE
    <3>1. k \in DOMAIN windows /\ k # active + 1
      BY <1>4, <2>1, SnapshotWindows
    <3> QED BY <1>4, <2>1, <3>1 DEF Fit, UniqueNames
  <2>2. 1 .. (active + 1) - 1 = 1 .. active
    BY SnapshotWindows
  <2> QED BY <1>4, <2>1, <2>2 DEF WindowAt
<1>6. PICK k : k = active + 1
  OBVIOUS
<1>7. AfterFocus(Snapshot, n) = [Snapshot EXCEPT !.active = k - 1]
  BY <1>4, <1>5, <1>6, FirstNamed
<1>8. k - 1 = active
  BY <1>6, SnapshotWindows
<1>9. [Snapshot EXCEPT !.active = active] = Snapshot
  BY DEF Snapshot
<1> QED BY <1>1, <1>7, <1>8, <1>9

-----------------------------------------------------------------------------
(* One step of each kind. *)

\* What a command is made of.
CommandOK(cmd) == /\ cmd.op = "create" => cmd.x \in Names
                  /\ cmd.op = "rename" => cmd.y \in Names
                  /\ cmd.op = "split"  => cmd.y \in TargetIDs

\* Every handler leaves a session the manager could have built.
LEMMA PerformFits ==
  ASSUME Fit(windows, active), NEW cmd, CommandOK(cmd), Perform(cmd)
  PROVE  Fit(windows, active)'
<1>1. CASE WindowFocus(cmd)
  <2>1. FocusWindow(cmd.x)
    BY <1>1 DEF WindowFocus
  <2>2. cmd.x \in Names
    BY <2>1, WindowParts DEF FocusWindow, WindowAt, WindowState
  <2> QED BY <2>1, <2>2, FitFocus
<1>2. CASE WindowChange(cmd)
  <2>1. CASE cmd.op = "create" /\ \E ref \in WinRefs : CreateWindow(cmd.x, ref)
    BY <2>1, FitCreate DEF CommandOK
  <2>2. CASE cmd.op = "close" /\ CloseWindow(cmd.x)
    <3>1. cmd.x \in Names
      BY <2>2, WindowParts DEF CloseWindow, WindowAt, WindowState
    <3> QED BY <2>2, <3>1, FitClose
  <2>3. CASE cmd.op = "rename" /\ RenameWindow(cmd.x, cmd.y)
    <3>1. cmd.x \in Names
      BY <2>3, WindowParts DEF RenameWindow, WindowAt, WindowState
    <3> QED BY <2>3, <3>1, FitRename DEF CommandOK
  <2> QED BY <1>2, <2>1, <2>2, <2>3 DEF WindowChange
<1>3. CASE PaneChange(cmd)
  <2>1. CASE cmd.op = "split" /\ PaneSplit(cmd.x, cmd.y)
    <3>1. PICK i \in DOMAIN windows, split \in Splits, ref \in PaneRefs :
            AddPane(windows[i].name, [ref |-> ref, id |-> cmd.y, split |-> split])
      BY <2>1 DEF PaneSplit
    <3>2. [ref |-> ref, id |-> cmd.y, split |-> split] \in PaneState
      BY <2>1 DEF PaneState, CommandOK
    <3> QED BY <3>1, <3>2, FitAddPane
  <2>2. CASE cmd.op = "paneClose" /\ RemovePane(cmd.x)
    <3>1. PICK i \in DOMAIN windows : \E j \in DOMAIN windows[i].panes : PaneAt(cmd.x, i, j)
      BY <2>2 DEF RemovePane
    <3>2. PICK j \in DOMAIN windows[i].panes : PaneAt(cmd.x, i, j)
      BY <3>1
    <3>3. windows[i].panes[j] \in PaneState
      BY WindowParts
    <3>4. cmd.x \in TargetIDs
      BY <3>2, <3>3 DEF PaneAt, PaneState
    <3> QED BY <2>2, <3>4, FitRemovePane
  <2> QED BY <1>3, <2>1, <2>2 DEF PaneChange
<1>4. CASE PaneZoom(cmd)
  BY <1>4 DEF PaneZoom, mvars, Fit, PanesBounded, UniqueNames, InRange
<1> QED BY <1>1, <1>2, <1>3, <1>4 DEF Perform

\* A step that changes neither the session nor what is on its way to or from
\* this client nor its copy.
LEMMA SoloStutter ==
  ASSUME SoloInv, UNCHANGED <<mvars, wires, view>>
  PROVE  SoloInv'
<1>1. UNCHANGED <<windows, active, link, inbox, calls, view>>
  BY DEF mvars, wires
<1>2. Snapshot' = Snapshot /\ CurrentWindowName' = CurrentWindowName
  BY <1>1 DEF Snapshot, CurrentWindowName
<1>3. Fit(windows, active)' /\ DOMAIN calls' = Slots
  BY <1>1 DEF SoloInv
<1>4. CASE Settled
  BY <1>1, <1>2, <1>3, <1>4 DEF Settled, Quiet, SoloInv
<1>5. CASE Told
  <2>1. Told'
    BY <1>1, <1>2, <1>5 DEF Told, LayoutFrame
  <2> QED BY <1>3, <2>1 DEF SoloInv
<1>6. ASSUME NEW s \in Slots,
             Loading(s) \/ Asked(s) \/ Reloading(s) \/ Deleting(s) \/ Closing(s)
      PROVE  (Loading(s) \/ Asked(s) \/ Reloading(s) \/ Deleting(s) \/ Closing(s))'
  <2>1. CASE Loading(s)
    BY <1>1, <1>2, <2>1 DEF Loading, Alone
  <2>2. CASE Asked(s)
    BY <1>1, <1>2, <2>2 DEF Asked, AskedOK, Alone
  <2>3. CASE Reloading(s)
    BY <1>1, <1>2, <2>3 DEF Reloading, Alone, LayoutFrame
  <2>4. CASE Deleting(s)
    BY <1>1, <1>2, <2>4 DEF Deleting, Closable, Alone
  <2>5. CASE Closing(s)
    BY <1>1, <1>2, <2>5 DEF Closing, Closable, Alone
  <2> QED BY <1>6, <2>1, <2>2, <2>3, <2>4, <2>5
<1> QED BY <1>3, <1>4, <1>5, <1>6 DEF SoloInv

\* A request under way is the only one.
LEMMA OnlyCall ==
  ASSUME SoloInv, NEW s \in Slots, calls[s].at # "none"
  PROVE  Loading(s) \/ Asked(s) \/ Reloading(s) \/ Deleting(s) \/ Closing(s)
<1>1. ~Settled /\ ~Told
  BY DEF Settled, Told, Quiet, None
<1>2. PICK t \in Slots : Loading(t) \/ Asked(t) \/ Reloading(t) \/ Deleting(t) \/ Closing(t)
  BY <1>1 DEF SoloInv
<1>3. Alone(t)
  BY <1>2 DEF Loading, Asked, Reloading, Deleting, Closing
<1>4. t = s
  BY <1>3 DEF Alone, None
<1> QED BY <1>2, <1>4

\* How far the request has come tells what it is for.
LEMMA CallStage ==
  ASSUME NEW s \in Slots
  PROVE  /\ Loading(s) => calls[s].at \in {"get", "reply"} /\ calls[s].then = "connect"
         /\ Asked(s) => calls[s].at = "sent"
         /\ Reloading(s) => calls[s].at \in {"get", "reply"} /\ calls[s].then = "nothing"
         /\ Deleting(s) => calls[s].at = "delete"
         /\ Closing(s) => calls[s].at = "sent"
<1>1. Loading(s) => calls[s].at \in {"get", "reply"} /\ calls[s].then = "connect"
  BY DEF Loading
<1>2. Asked(s) => calls[s].at = "sent"
  <2>1. ASSUME NEW cmd, NEW then, calls[s] = [at |-> "sent", cmd |-> cmd, then |-> then]
        PROVE  calls[s].at = "sent"
    BY <2>1
  <2> QED BY <2>1 DEF Asked
<1>3. Reloading(s) => calls[s].at \in {"get", "reply"} /\ calls[s].then = "nothing"
  BY DEF Reloading
<1>4. Deleting(s) => calls[s].at = "delete"
  <2>1. ASSUME NEW n, calls[s] = [at |-> "delete", meant |-> n] PROVE calls[s].at = "delete"
    BY <2>1
  <2> QED BY <2>1 DEF Deleting
<1>5. Closing(s) => calls[s].at = "sent"
  <2>1. ASSUME NEW n, calls[s] = [at |-> "sent", then |-> "reload",
                                  cmd |-> Command("close", n, NoID), meant |-> n]
        PROVE  calls[s].at = "sent"
    BY <2>1
  <2> QED BY <2>1 DEF Closing
<1> QED BY <1>1, <1>2, <1>3, <1>4, <1>5

\* The slot of a request under way is the only one that is taken after it, too.
LEMMA AloneAfter ==
  ASSUME NEW s \in Slots, Alone(s), DOMAIN calls = Slots, NEW c,
         calls' = [calls EXCEPT ![s] = c]
  PROVE  Alone(s)' /\ calls'[s] = c /\ DOMAIN calls' = Slots
BY DEF Alone

\* When it was the last, nothing is under way.
LEMMA NoneAfter ==
  ASSUME NEW s \in Slots, Alone(s), DOMAIN calls = Slots,
         calls' = [calls EXCEPT ![s] = None]
  PROVE  (\A t \in Slots : calls[t] = None)' /\ DOMAIN calls' = Slots
BY DEF Alone

\* A command of the user is carried out.
LEMMA AskedPerforms ==
  ASSUME Fit(windows, active), DOMAIN calls = Slots, NEW s \in Slots, Asked(s),
         Perform(calls[s].cmd), calls' = [calls EXCEPT ![s] = Follow(@)],
         UNCHANGED <<link, client>>
  PROVE  SoloInv'
<1>1. PICK cmd, then : calls[s] = [at |-> "sent", cmd |-> cmd, then |-> then] /\ AskedOK(cmd, then)
  BY DEF Asked
<1>2. calls[s].cmd = cmd /\ calls[s].then = then
  BY <1>1
<1>3. Perform(cmd)
  BY <1>2
<1>4. CommandOK(cmd)
  BY <1>1 DEF AskedOK, CommandOK
<1>5. Fit(windows, active)'
  BY <1>3, <1>4, PerformFits
<1>6. link' = "open" /\ link = "open" /\ view' = view /\ view = Snapshot /\ inbox = <<>> /\ Alone(s)
  BY DEF Asked, client
<1>8. CASE then = "nothing"
  <2>1. calls' = [calls EXCEPT ![s] = None]
    BY <1>2, <1>8 DEF Follow
  <2>2. (\A t \in Slots : calls[t] = None)' /\ DOMAIN calls' = Slots
    BY <1>6, <2>1, NoneAfter
  <2>3. CASE cmd.op = "focus"
    <3>1. WindowFocus(cmd)
      BY <1>3, <2>3 DEF Perform, WindowChange, PaneChange, PaneZoom
    <3>2. PICK n : n = cmd.x
      OBVIOUS
    <3>3. FocusWindow(n) /\ inbox' = <<FocusFrame(n)>>
      BY <1>6, <3>1, <3>2 DEF WindowFocus, Cast, FocusFrame
    <3>4. AfterFocus(view, n) = Snapshot'
      BY <1>6, <3>3, FocusSeen
    <3>5. AfterFocus(view', n) = AfterFocus(view, n)
      BY <1>6
    <3>6. Told'
      BY <1>6, <2>2, <3>3, <3>4, <3>5 DEF Told
    <3> QED BY <1>5, <2>2, <3>6 DEF SoloInv
  <2>4. CASE cmd.op = "zoom"
    <3>1. PaneZoom(cmd)
      BY <1>3, <2>4 DEF Perform, WindowChange, PaneChange, WindowFocus
    <3>2. inbox' = <<[type |-> "pane_zoom", id |-> cmd.x]>> /\ UNCHANGED <<windows, active>>
      BY <1>6, <3>1 DEF PaneZoom, Cast, mvars
    <3>3. view' = Snapshot'
      BY <1>6, <3>2 DEF Snapshot
    <3>4. Told'
      BY <1>6, <2>2, <3>2, <3>3 DEF Told
    <3> QED BY <1>5, <2>2, <3>4 DEF SoloInv
  <2> QED BY <1>1, <1>8, <2>3, <2>4 DEF AskedOK
<1>9. CASE then = "delete"
  <2>1. PICK n : n = CurrentWindowName
    OBVIOUS
  <2>2. cmd.op = "focus" /\ cmd.x = n
    BY <1>1, <1>9, <2>1 DEF AskedOK
  <2>3. calls' = [calls EXCEPT ![s] = [at |-> "delete", meant |-> n]]
    BY <1>2, <1>9, <2>2 DEF Follow
  <2>4. Alone(s)' /\ calls'[s] = [at |-> "delete", meant |-> n] /\ DOMAIN calls' = Slots
    BY <1>6, <2>3, AloneAfter
  <2>5. WindowFocus(cmd)
    BY <1>3, <2>2 DEF Perform, WindowChange, PaneChange, PaneZoom
  <2>6. FocusWindow(n) /\ inbox' = <<FocusFrame(n)>>
    BY <1>6, <2>2, <2>5 DEF WindowFocus, Cast, FocusFrame
  <2>7. HasWindow(CurrentWindowName)
    BY <2>1, <2>6 DEF FocusWindow, WindowAt, HasWindow
  <2>8. Snapshot' = Snapshot
    BY <1>6, <2>1, <2>6, FocusShown
  <2>9. CurrentWindowName' = n
    BY <1>6, <2>1 DEF CurrentWindowName
  <2>10. AfterFocus(Snapshot, n) = Snapshot
    BY <1>6, <2>1, <2>7, ShownAgain
  <2>11. AfterFocus(Snapshot', n) = Snapshot'
    BY <2>8, <2>10
  <2>12. Closable(n)'
    BY <1>6, <2>6, <2>8, <2>9, <2>11 DEF Closable
  <2>13. Deleting(s)'
    BY <2>4, <2>12 DEF Deleting
  <2> QED BY <1>5, <2>4, <2>13 DEF SoloInv
<1>10. CASE then = "reload"
  <2>1. calls' = [calls EXCEPT ![s] = [at |-> "get", then |-> "nothing"]]
    BY <1>2, <1>10 DEF Follow
  <2>2. Alone(s)' /\ calls'[s] = [at |-> "get", then |-> "nothing"] /\ DOMAIN calls' = Slots
    BY <1>6, <2>1, AloneAfter
  <2>3. inbox' = <<>> \/ inbox' = <<LayoutFrame'>>
    <3>1. cmd.op \in {"create", "rename", "split", "paneClose"}
      BY <1>1, <1>10 DEF AskedOK
    <3>2. WindowChange(cmd) \/ PaneChange(cmd)
      BY <1>3, <3>1 DEF Perform, WindowFocus, PaneZoom
    <3>3. CASE WindowChange(cmd)
      BY <1>6, <3>3 DEF WindowChange
    <3>4. CASE PaneChange(cmd)
      BY <1>6, <3>4 DEF PaneChange, Cast, LayoutUpdate, LayoutFrame
    <3> QED BY <3>2, <3>3, <3>4
  <2>4. Reloading(s)'
    BY <1>6, <2>2, <2>3 DEF Reloading
  <2> QED BY <1>5, <2>2, <2>4 DEF SoloInv
<1> QED BY <1>1, <1>8, <1>9, <1>10 DEF AskedOK

\* The window is closed.
LEMMA ClosingPerforms ==
  ASSUME Fit(windows, active), DOMAIN calls = Slots, NEW s \in Slots, Closing(s),
         Perform(calls[s].cmd), calls' = [calls EXCEPT ![s] = Follow(@)],
         UNCHANGED <<link, client>>
  PROVE  SoloInv'
<1>1. PICK n : /\ calls[s] = [at |-> "sent", then |-> "reload",
                              cmd |-> Command("close", n, NoID), meant |-> n]
               /\ Closable(n)
  BY DEF Closing
<1>2. PICK cmd : cmd = Command("close", n, NoID)
  OBVIOUS
<1>3. calls[s].cmd = cmd /\ calls[s].then = "reload" /\ cmd.op = "close" /\ cmd.x = n
  BY <1>1, <1>2 DEF Command
<1>4. Perform(cmd)
  BY <1>3
<1>5. Fit(windows, active)'
  BY <1>3, <1>4, PerformFits DEF CommandOK
<1>6. WindowChange(cmd)
  BY <1>3, <1>4 DEF Perform, WindowFocus, PaneChange, PaneZoom
<1>7. CloseWindow(n) /\ inbox' = inbox
  BY <1>3, <1>6 DEF WindowChange
<1>8. AfterFocus(Snapshot', n) = Snapshot'
  BY <1>7, ClosedIsGone
<1>9. calls' = [calls EXCEPT ![s] = [at |-> "get", then |-> "nothing"]]
  BY <1>3 DEF Follow
<1>10. Alone(s)
  BY DEF Closing
<1>11. Alone(s)' /\ calls'[s] = [at |-> "get", then |-> "nothing"] /\ DOMAIN calls' = Slots
  BY <1>9, <1>10, AloneAfter
<1>12. inbox' = <<>> \/ inbox' = <<FocusFrame(n)>>
  BY <1>1, <1>7 DEF Closable
<1>13. link' = "open"
  BY <1>1 DEF Closable
<1>14. Reloading(s)'
  BY <1>8, <1>11, <1>12, <1>13 DEF Reloading
<1> QED BY <1>5, <1>11, <1>14 DEF SoloInv

\* A request reaches its handler.
LEMMA HandleKeeps ==
  ASSUME SoloInv, NEW s \in Slots, Handle(s)
  PROVE  SoloInv'
<1>1. calls[s].at = "sent" /\ UNCHANGED <<link, client>>
  BY DEF Handle
<1>2. Asked(s) \/ Closing(s)
  BY <1>1, OnlyCall, CallStage
<1>3. Fit(windows, active) /\ DOMAIN calls = Slots
  BY DEF SoloInv
<1>4. CASE Perform(calls[s].cmd) /\ calls' = [calls EXCEPT ![s] = Follow(@)]
  BY <1>1, <1>2, <1>3, <1>4, AskedPerforms, ClosingPerforms
<1>5. CASE calls' = [calls EXCEPT ![s] = None] /\ UNCHANGED <<mvars, inbox>>
  <2>1. Alone(s)
    BY <1>2 DEF Asked, Closing
  <2>2. (\A t \in Slots : calls[t] = None)' /\ DOMAIN calls' = Slots
    BY <1>3, <1>5, <2>1, NoneAfter
  <2>3. UNCHANGED <<windows, active, link, inbox, view>>
    BY <1>1, <1>5 DEF mvars, client
  <2>4. Snapshot' = Snapshot
    BY <2>3 DEF Snapshot
  <2>5. Fit(windows, active)'
    BY <1>3, <2>3
  <2>6. CASE Asked(s)
    <3>1. Settled'
      BY <2>2, <2>3, <2>4, <2>6 DEF Asked, Settled, Quiet
    <3> QED BY <2>2, <2>5, <3>1 DEF SoloInv
  <2>7. CASE Closing(s)
    <3>1. PICK n : Closable(n)
      BY <2>7 DEF Closing
    <3>2. CASE inbox = <<>>
      <4>1. Settled'
        BY <2>2, <2>3, <2>4, <3>1, <3>2 DEF Closable, Settled, Quiet
      <4> QED BY <2>2, <2>5, <4>1 DEF SoloInv
    <3>3. CASE inbox = <<FocusFrame(n)>>
      <4>1. AfterFocus(view', n) = Snapshot'
        BY <2>3, <2>4, <3>1 DEF Closable
      <4>2. Told'
        BY <2>2, <2>3, <3>1, <3>3, <4>1 DEF Closable, Told
      <4> QED BY <2>2, <2>5, <4>2 DEF SoloInv
    <3> QED BY <3>1, <3>2, <3>3 DEF Closable
  <2> QED BY <1>2, <2>6, <2>7
<1> QED BY <1>4, <1>5 DEF Handle

\* The server answers with the session.
LEMMA GetKeeps ==
  ASSUME SoloInv, NEW s \in Slots, GetSession(s)
  PROVE  SoloInv'
<1>1. calls[s].at = "get" /\ UNCHANGED <<mvars, link, inbox, view>>
  BY DEF GetSession, client
<1>2. Loading(s) \/ Reloading(s)
  BY <1>1, OnlyCall, CallStage
<1>3. Fit(windows, active) /\ DOMAIN calls = Slots
  BY DEF SoloInv
<1>4. UNCHANGED <<windows, active>>
  BY <1>1 DEF mvars
<1>5. Snapshot' = Snapshot /\ Fit(windows, active)'
  BY <1>3, <1>4 DEF Snapshot
<1>6. PICK then : then = calls[s].then
  OBVIOUS
<1>7. PICK snap : snap = Snapshot
  OBVIOUS
<1>8. calls' = [calls EXCEPT ![s] = [at |-> "reply", then |-> then, snap |-> snap]]
  BY <1>6, <1>7 DEF GetSession
<1>9. Alone(s)
  BY <1>2 DEF Loading, Reloading
<1>10. Alone(s)' /\ calls'[s] = [at |-> "reply", then |-> then, snap |-> snap] /\ DOMAIN calls' = Slots
  BY <1>3, <1>8, <1>9, AloneAfter
<1>11. CASE Loading(s)
  <2>1. then = "connect"
    BY <1>6, <1>11, CallStage
  <2>2. Loading(s)'
    BY <1>1, <1>5, <1>7, <1>10, <1>11, <2>1 DEF Loading
  <2> QED BY <1>5, <1>10, <2>2 DEF SoloInv
<1>12. CASE Reloading(s)
  <2>1. then = "nothing"
    BY <1>6, <1>12, CallStage
  <2>2. Reloading(s)'
    BY <1>1, <1>5, <1>7, <1>10, <1>12, <2>1 DEF Reloading, LayoutFrame
  <2> QED BY <1>5, <1>10, <2>2 DEF SoloInv
<1> QED BY <1>2, <1>11, <1>12

\* The client has the session.
LEMMA ReloadKeeps ==
  ASSUME SoloInv, NEW s \in Slots, Reloaded(s)
  PROVE  SoloInv'
<1>1. calls[s].at = "reply" /\ UNCHANGED <<mvars, inbox>> /\ view' = calls[s].snap
  BY DEF Reloaded, Render
<1>2. Loading(s) \/ Reloading(s)
  BY <1>1, OnlyCall, CallStage
<1>3. Fit(windows, active) /\ DOMAIN calls = Slots
  BY DEF SoloInv
<1>4. UNCHANGED <<windows, active>>
  BY <1>1 DEF mvars
<1>5. Snapshot' = Snapshot /\ Fit(windows, active)'
  BY <1>3, <1>4 DEF Snapshot
<1>6. calls' = [calls EXCEPT ![s] = None]
  BY DEF Reloaded
<1>7. Alone(s)
  BY <1>2 DEF Loading, Reloading
<1>8. (\A t \in Slots : calls[t] = None)' /\ DOMAIN calls' = Slots
  BY <1>3, <1>6, <1>7, NoneAfter
<1>9. calls[s].snap = Snapshot
  BY <1>1, <1>2 DEF Loading, Reloading
<1>10. view' = Snapshot'
  BY <1>1, <1>5, <1>9
<1>11. CASE Loading(s)
  <2>1. link' = "opening" /\ inbox' = <<>>
    BY <1>1, <1>11, CallStage DEF Reloaded, Loaded, Loading
  <2>2. Settled'
    BY <1>8, <1>10, <2>1 DEF Settled, Quiet
  <2> QED BY <1>5, <1>8, <2>2 DEF SoloInv
<1>12. CASE Reloading(s)
  <2>1. link' = "open"
    BY <1>12, CallStage DEF Reloaded, Loaded, Reloading
  <2>2. CASE inbox = <<>>
    <3>1. Settled'
      BY <1>1, <1>8, <1>10, <2>1, <2>2 DEF Settled, Quiet
    <3> QED BY <1>5, <1>8, <3>1 DEF SoloInv
  <2>3. CASE inbox = <<LayoutFrame>>
    <3>1. inbox' = <<LayoutFrame'>>
      BY <1>1, <1>5, <2>3 DEF LayoutFrame
    <3>2. Told'
      BY <1>8, <2>1, <3>1 DEF Told
    <3> QED BY <1>5, <1>8, <3>2 DEF SoloInv
  <2>4. ASSUME NEW n, inbox = <<FocusFrame(n)>>, AfterFocus(Snapshot, n) = Snapshot
        PROVE  SoloInv'
    <3>1. AfterFocus(view', n) = Snapshot'
      BY <1>5, <1>10, <2>4
    <3>2. Told'
      BY <1>1, <1>8, <2>1, <2>4, <3>1 DEF Told
    <3> QED BY <1>5, <1>8, <3>2 DEF SoloInv
  <2> QED BY <1>12, <2>2, <2>3, <2>4 DEF Reloading
<1> QED BY <1>2, <1>11, <1>12

\* A command goes out when nothing is under way.
LEMMA SendAsks ==
  ASSUME SoloInv, view = Snapshot, link = "open", \A t \in Slots : calls[t] = None,
         NEW cmd, NEW then, AskedOK(cmd, then), Send(cmd, then),
         UNCHANGED <<mvars, link, view>>, inbox' = <<>>
  PROVE  SoloInv'
<1>1. Fit(windows, active) /\ DOMAIN calls = Slots
  BY DEF SoloInv
<1>2. UNCHANGED <<windows, active>>
  BY DEF mvars
<1>3. Snapshot' = Snapshot /\ Fit(windows, active)'
  BY <1>1, <1>2 DEF Snapshot
<1>4. PICK s \in Slots : calls' = [calls EXCEPT ![s] = [at |-> "sent", cmd |-> cmd, then |-> then]]
  BY DEF Send
<1>5. Alone(s)
  BY DEF Alone
<1>6. Alone(s)' /\ calls'[s] = [at |-> "sent", cmd |-> cmd, then |-> then] /\ DOMAIN calls' = Slots
  BY <1>1, <1>4, <1>5, AloneAfter
<1>7. AskedOK(cmd, then)'
  BY DEF AskedOK, CurrentWindowName
<1>8. Asked(s)'
  BY <1>3, <1>6, <1>7 DEF Asked
<1> QED BY <1>3, <1>6, <1>8 DEF SoloInv

\* When nothing is on its way, the copy is right.
LEMMA QuietIsSettled ==
  ASSUME SoloInv, Quiet
  PROVE  view = Snapshot /\ link \in {"opening", "open"}
<1>1. ~Told
  BY DEF Told, Quiet
<1>2. ASSUME NEW s \in Slots, Loading(s) \/ Asked(s) \/ Reloading(s) \/ Deleting(s) \/ Closing(s)
      PROVE  FALSE
  <2>1. calls[s].at \in {"get", "reply", "sent", "delete"}
    BY <1>2, CallStage
  <2> QED BY <2>1 DEF Quiet, None
<1> QED BY <1>1, <1>2 DEF SoloInv, Settled

\* What the browser makes of a window_focus.
LEMMA TakesFocus ==
  ASSUME NEW n, ReceiveFocus(FocusFrame(n))
  PROVE  view' = AfterFocus(view, n) /\ calls' = calls
BY DEF ReceiveFocus, FocusFrame, AfterFocus, Named, Render, client

\* A frame arrives.
LEMMA ReceiveKeeps ==
  ASSUME SoloInv, Receive
  PROVE  SoloInv'
<1>1. /\ link = "open" /\ inbox # <<>> /\ inbox' = Tail(inbox)
      /\ UNCHANGED <<mvars, link>>
  BY DEF Receive
<1>2. Fit(windows, active) /\ DOMAIN calls = Slots
  BY DEF SoloInv
<1>3. UNCHANGED <<windows, active>>
  BY <1>1 DEF mvars
<1>4. Snapshot' = Snapshot /\ Fit(windows, active)'
  BY <1>2, <1>3 DEF Snapshot
<1>5. ASSUME NEW n, inbox = <<FocusFrame(n)>>
      PROVE  inbox' = <<>> /\ view' = AfterFocus(view, n) /\ calls' = calls
  <2>1. Head(inbox) = FocusFrame(n) /\ Tail(inbox) = <<>>
    BY <1>5
  <2>2. PICK m : m = Head(inbox)
    OBVIOUS
  <2>3. ReceiveLayout(m) \/ ReceiveFocus(m) \/ ReceiveZoom(m)
    BY <2>2 DEF Receive
  <2>4. m = FocusFrame(n) /\ m.type = "window_focus"
    BY <2>1, <2>2 DEF FocusFrame
  <2>5. ReceiveFocus(FocusFrame(n))
    BY <2>3, <2>4 DEF ReceiveLayout, ReceiveZoom
  <2> QED BY <1>1, <2>1, <2>5, TakesFocus
<1>6. ASSUME inbox = <<LayoutFrame>>
      PROVE  inbox' = <<>> /\ view' = Snapshot /\ calls' = calls
  <2>1. Head(inbox) = LayoutFrame /\ Tail(inbox) = <<>>
    BY <1>6
  <2>2. PICK m : m = Head(inbox)
    OBVIOUS
  <2>3. ReceiveLayout(m) \/ ReceiveFocus(m) \/ ReceiveZoom(m)
    BY <2>2 DEF Receive
  <2>4. m.type = "layout_update" /\ m.snap = Snapshot
    BY <2>1, <2>2 DEF LayoutFrame
  <2>5. ReceiveLayout(m)
    BY <2>3, <2>4 DEF ReceiveFocus, ReceiveZoom
  <2> QED BY <1>1, <2>1, <2>4, <2>5 DEF ReceiveLayout, Render
<1>7. ~Settled
  BY <1>1 DEF Settled, Quiet
<1>8. CASE Told
  <2>1. \A t \in Slots : calls[t] = None
    BY <1>8 DEF Told
  <2>2. ASSUME view' = Snapshot', inbox' = <<>>, calls' = calls PROVE SoloInv'
    <3>1. Settled'
      BY <1>1, <2>1, <2>2 DEF Settled, Quiet
    <3> QED BY <1>2, <1>4, <2>2, <3>1 DEF SoloInv
  <2>3. ASSUME NEW n, inbox = <<FocusFrame(n)>>, AfterFocus(view, n) = Snapshot PROVE SoloInv'
    BY <1>4, <1>5, <2>2, <2>3
  <2>4. CASE inbox = <<LayoutFrame>>
    BY <1>4, <1>6, <2>2, <2>4
  <2>5. ASSUME NEW id, inbox = <<[type |-> "pane_zoom", id |-> id]>>, view = Snapshot PROVE SoloInv'
    <3>1. Head(inbox) = [type |-> "pane_zoom", id |-> id] /\ Tail(inbox) = <<>>
      BY <2>5
    <3>2. PICK m : m = Head(inbox)
      OBVIOUS
    <3>3. ReceiveLayout(m) \/ ReceiveFocus(m) \/ ReceiveZoom(m)
      BY <3>2 DEF Receive
    <3>4. m.type = "pane_zoom" /\ m.id = id
      BY <3>1, <3>2
    <3>5. ReceiveZoom(m)
      BY <3>3, <3>4 DEF ReceiveFocus, ReceiveLayout
    <3>6. Send(Command("zoom", id, NoID), "nothing") /\ view' = view
      BY <3>4, <3>5 DEF ReceiveZoom, DispatchZoom
    <3>7. PICK cmd : cmd = Command("zoom", id, NoID)
      OBVIOUS
    <3>8. AskedOK(cmd, "nothing")
      BY <3>7 DEF AskedOK, Command
    <3> QED BY <1>1, <2>1, <2>5, <3>1, <3>6, <3>7, <3>8, SendAsks
  <2> QED BY <1>8, <2>3, <2>4, <2>5 DEF Told
<1>9. ASSUME NEW s \in Slots, Reloading(s) PROVE SoloInv'
  <2>1. ASSUME inbox' = <<>>, calls' = calls PROVE SoloInv'
    <3>1. Reloading(s)'
      BY <1>1, <1>4, <1>9, <2>1 DEF Reloading, Alone
    <3> QED BY <1>2, <1>4, <2>1, <3>1 DEF SoloInv
  <2>2. ASSUME NEW n, inbox = <<FocusFrame(n)>> PROVE SoloInv'
    BY <1>5, <2>1, <2>2
  <2>3. CASE inbox = <<LayoutFrame>>
    BY <1>6, <2>1, <2>3
  <2> QED BY <1>1, <1>9, <2>2, <2>3 DEF Reloading
<1>10. ASSUME NEW n, Closable(n)
       PROVE  Closable(n)' /\ calls' = calls
  <2>1. inbox = <<FocusFrame(n)>> /\ view = Snapshot /\ AfterFocus(Snapshot, n) = Snapshot
    BY <1>1, <1>10 DEF Closable
  <2>2. inbox' = <<>> /\ view' = AfterFocus(view, n) /\ calls' = calls
    BY <1>5, <2>1
  <2>3. view' = view /\ view' = Snapshot'
    BY <1>4, <2>1, <2>2
  <2>4. CurrentWindowName' = n
    BY <1>10, <2>3 DEF Closable, CurrentWindowName
  <2>5. AfterFocus(Snapshot', n) = Snapshot'
    BY <1>4, <2>1
  <2> QED BY <1>1, <2>2, <2>3, <2>4, <2>5 DEF Closable
<1>11. ASSUME NEW s \in Slots, Deleting(s) PROVE SoloInv'
  <2>1. PICK n : calls[s] = [at |-> "delete", meant |-> n] /\ Closable(n)
    BY <1>11 DEF Deleting
  <2>2. Closable(n)' /\ calls' = calls
    BY <1>10, <2>1
  <2>3. Deleting(s)'
    BY <1>11, <2>1, <2>2 DEF Deleting, Alone
  <2> QED BY <1>2, <1>4, <2>2, <2>3 DEF SoloInv
<1>12. ASSUME NEW s \in Slots, Closing(s) PROVE SoloInv'
  <2>1. PICK n : /\ calls[s] = [at |-> "sent", then |-> "reload",
                                cmd |-> Command("close", n, NoID), meant |-> n]
                 /\ Closable(n)
    BY <1>12 DEF Closing
  <2>2. Closable(n)' /\ calls' = calls
    BY <1>10, <2>1
  <2>3. Closing(s)'
    BY <1>12, <2>1, <2>2 DEF Closing, Alone
  <2> QED BY <1>2, <1>4, <2>2, <2>3 DEF SoloInv
<1>13. \A s \in Slots : ~Loading(s) /\ ~Asked(s)
  BY <1>1 DEF Loading, Asked
<1> QED BY <1>7, <1>8, <1>9, <1>11, <1>12, <1>13 DEF SoloInv

\* The second request of window.close goes out.
LEMMA DeleteKeeps ==
  ASSUME SoloInv, NEW s \in Slots, DeleteShown(s)
  PROVE  SoloInv'
<1>1. calls[s].at = "delete" /\ UNCHANGED <<mvars, link, inbox, view>>
  BY DEF DeleteShown, client
<1>2. Deleting(s)
  BY <1>1, OnlyCall, CallStage
<1>3. Fit(windows, active) /\ DOMAIN calls = Slots
  BY DEF SoloInv
<1>4. UNCHANGED <<windows, active>>
  BY <1>1 DEF mvars
<1>5. Snapshot' = Snapshot /\ Fit(windows, active)' /\ CurrentWindowName' = CurrentWindowName
  BY <1>1, <1>3, <1>4 DEF Snapshot, CurrentWindowName
<1>6. PICK n : calls[s] = [at |-> "delete", meant |-> n] /\ Closable(n)
  BY <1>2 DEF Deleting
<1>7. PICK c : c = [at |-> "sent", then |-> "reload",
                    cmd |-> Command("close", n, NoID), meant |-> n]
  OBVIOUS
<1>8. calls' = [calls EXCEPT ![s] = c]
  <2>1. CurrentWindowName = n /\ calls[s].meant = n
    BY <1>6 DEF Closable
  <2> QED BY <1>7, <2>1 DEF DeleteShown
<1>9. Alone(s)
  BY <1>2 DEF Deleting
<1>10. Alone(s)' /\ calls'[s] = c /\ DOMAIN calls' = Slots
  BY <1>3, <1>8, <1>9, AloneAfter
<1>11. Closable(n)'
  <2>1. AfterFocus(Snapshot', n) = Snapshot'
    BY <1>5, <1>6 DEF Closable
  <2> QED BY <1>1, <1>5, <1>6, <2>1 DEF Closable
<1>12. Closing(s)'
  BY <1>7, <1>10, <1>11 DEF Closing
<1> QED BY <1>5, <1>10, <1>12 DEF SoloInv

\* The user gives a command; one that comes before the last is done, or while
\* the connection is down, ends the good behaviour.
LEMMA UserKeeps ==
  ASSUME SoloInv, User, solo'
  PROVE  SoloInv'
<1>1. ASSUME NEW id \in TargetIDs, FocusPane(id) PROVE SoloInv'
  BY <1>1, SoloStutter DEF FocusPane
<1>2. ASSUME Gives
      PROVE  /\ view = Snapshot /\ link = "open" /\ inbox = <<>>
             /\ \A t \in Slots : calls[t] = None
  <2>1. Quiet /\ link = "open"
    BY <1>2 DEF Gives
  <2> QED BY <2>1, QuietIsSettled DEF Quiet
<1>3. ASSUME Gives, NEW cmd, NEW then, AskedOK(cmd, then), Send(cmd, then),
             UNCHANGED <<mvars, link, inbox, view>>
      PROVE  SoloInv'
  BY <1>2, <1>3, SendAsks
<1>4. ASSUME NEW name \in Names, SwitchWindow(name) PROVE SoloInv'
  <2>1. PICK cmd : cmd = Command("focus", name, NoID)
    OBVIOUS
  <2>2. AskedOK(cmd, "nothing")
    BY <2>1 DEF AskedOK, Command
  <2> QED BY <1>3, <1>4, <2>1, <2>2 DEF SwitchWindow, client
<1>5. ASSUME NEW name \in Names, NewWindow(name) PROVE SoloInv'
  <2>1. PICK cmd : cmd = Command("create", name, NoID)
    OBVIOUS
  <2>2. AskedOK(cmd, "reload")
    BY <2>1 DEF AskedOK, Command
  <2> QED BY <1>3, <1>5, <2>1, <2>2 DEF NewWindow, client
<1>6. ASSUME NEW name \in Names, RenameTo(name) PROVE SoloInv'
  <2>1. PICK cmd : cmd = Command("rename", CurrentWindowName, name)
    OBVIOUS
  <2>2. AskedOK(cmd, "reload")
    BY <2>1 DEF AskedOK, Command
  <2> QED BY <1>3, <1>6, <2>1, <2>2 DEF RenameTo, client
<1>7. ASSUME CloseShown PROVE SoloInv'
  <2>1. PICK cmd : cmd = Command("focus", CurrentWindowName, NoID)
    OBVIOUS
  <2>2. AskedOK(cmd, "delete")
    BY <2>1 DEF AskedOK, Command
  <2> QED BY <1>3, <1>7, <2>1, <2>2 DEF CloseShown, client
<1>8. ASSUME NEW id \in TargetIDs, SplitFocused(id) PROVE SoloInv'
  <2>1. PICK cmd : cmd = Command("split", focused, id)
    OBVIOUS
  <2>2. AskedOK(cmd, "reload")
    BY <2>1 DEF AskedOK, Command
  <2> QED BY <1>3, <1>8, <2>1, <2>2 DEF SplitFocused, client
<1>9. ASSUME CloseFocused PROVE SoloInv'
  <2>1. PICK cmd : cmd = Command("paneClose", focused, NoID)
    OBVIOUS
  <2>2. AskedOK(cmd, "reload")
    BY <2>1 DEF AskedOK, Command
  <2> QED BY <1>3, <1>9, <2>1, <2>2 DEF CloseFocused, client
<1>10. ASSUME ZoomFocused PROVE SoloInv'
  <2>1. PICK cmd : cmd = Command("zoom", focused, NoID)
    OBVIOUS
  <2>2. AskedOK(cmd, "nothing")
    BY <2>1 DEF AskedOK, Command
  <2> QED BY <1>3, <1>10, <2>1, <2>2 DEF ZoomFocused, DispatchZoom
<1>11. ASSUME LayoutReload PROVE SoloInv'
  <2>1. Gives /\ UNCHANGED <<mvars, link, inbox>>
    BY <1>11 DEF LayoutReload
  <2>2. PICK s \in Slots : calls' = [calls EXCEPT ![s] = [at |-> "get", then |-> "nothing"]]
    BY <1>11 DEF LayoutReload
  <2>3. Alone(s) /\ link = "open" /\ inbox = <<>>
    BY <1>2, <2>1 DEF Alone
  <2>4. Fit(windows, active) /\ DOMAIN calls = Slots
    BY DEF SoloInv
  <2>5. Alone(s)' /\ calls'[s] = [at |-> "get", then |-> "nothing"] /\ DOMAIN calls' = Slots
    BY <2>2, <2>3, <2>4, AloneAfter
  <2>6. Fit(windows, active)'
    BY <2>1, <2>4 DEF mvars
  <2>7. Reloading(s)'
    BY <2>1, <2>3, <2>5 DEF Reloading
  <2> QED BY <2>5, <2>6, <2>7 DEF SoloInv
<1> QED BY <1>1, <1>4, <1>5, <1>6, <1>7, <1>8, <1>9, <1>10, <1>11 DEF User

\* The socket opens, or is lost while nothing is on its way.
LEMMA LinkKeeps ==
  ASSUME SoloInv, solo', Open \/ Lose
  PROVE  SoloInv'
<1>1. UNCHANGED <<mvars, calls, view>>
  BY DEF Open, Lose, client
<1>2. Fit(windows, active) /\ DOMAIN calls = Slots
  BY DEF SoloInv
<1>3. UNCHANGED <<windows, active>>
  BY <1>1 DEF mvars
<1>4. Snapshot' = Snapshot /\ Fit(windows, active)'
  BY <1>2, <1>3 DEF Snapshot
<1>5. CASE Open
  <2>1. link = "opening" /\ link' = "open" /\ inbox' = inbox
    BY <1>5 DEF Open
  <2>2. ~Told /\ \A s \in Slots : ~Loading(s) /\ ~Asked(s) /\ ~Reloading(s) /\ ~Deleting(s) /\ ~Closing(s)
    BY <2>1 DEF Told, Loading, Asked, Reloading, Deleting, Closing, Closable
  <2>3. Settled
    BY <2>2 DEF SoloInv
  <2>4. Settled'
    BY <1>1, <1>4, <2>1, <2>3 DEF Settled, Quiet
  <2> QED BY <1>1, <1>2, <1>4, <2>4 DEF SoloInv
<1>6. CASE Lose
  <2>1. Quiet /\ link' = "opening" /\ inbox' = <<>>
    BY <1>6 DEF Lose
  <2>2. view = Snapshot
    BY <2>1, QuietIsSettled
  <2>3. Settled'
    BY <1>1, <1>4, <2>1, <2>2 DEF Settled, Quiet
  <2> QED BY <1>1, <1>2, <1>4, <2>3 DEF SoloInv
<1> QED BY <1>5, <1>6

-----------------------------------------------------------------------------
(* The whole. *)

LEMMA SoloInit == ASSUME StartsFit, BrowserInit PROVE SoloInv
<1>1. windows = StartWindows /\ active = 0 /\ link = "loading" /\ inbox = <<>>
  BY DEF BrowserInit
<1>2. PICK s : s = CHOOSE x \in Slots : TRUE
  OBVIOUS
<1>3. s \in Slots
  BY <1>2, SlotsAssumption
<1>4. calls = [t \in Slots |-> IF t = s THEN [at |-> "get", then |-> "connect"] ELSE None]
  BY <1>2 DEF BrowserInit
<1>5. Loading(s)
  BY <1>1, <1>3, <1>4 DEF Loading, Alone
<1>6. Fit(windows, active)
  BY <1>1 DEF StartsFit
<1> QED BY <1>3, <1>4, <1>5, <1>6 DEF SoloInv

LEMMA SoloNext == (solo => SoloInv) /\ [BrowserNext]_bvars => (solo => SoloInv)'
<1> SUFFICES ASSUME solo => SoloInv, [BrowserNext]_bvars, solo' PROVE SoloInv'
  OBVIOUS
<1>1. CASE UNCHANGED bvars
  BY <1>1, SoloStutter DEF bvars, client
<1>2. CASE User
  <2>1. solo
    BY <1>2 DEF User, SwitchWindow, NewWindow, RenameTo, SplitFocused, FocusPane, CloseShown,
                CloseFocused, ZoomFocused, LayoutReload, Gives
  <2> QED BY <1>2, <2>1, UserKeeps
<1>3. CASE Others
  BY <1>3 DEF Others, Other
<1>4. ASSUME NEW s \in Slots, Calls(s) PROVE SoloInv'
  <2>1. CASE Handle(s)
    BY <2>1, HandleKeeps DEF Handle
  <2>2. CASE GetSession(s)
    BY <2>2, GetKeeps DEF GetSession
  <2>3. CASE Reloaded(s)
    BY <2>3, ReloadKeeps DEF Reloaded
  <2>4. CASE CallFails(s)
    BY <2>4 DEF CallFails
  <2>5. CASE DeleteShown(s)
    BY <2>5, DeleteKeeps DEF DeleteShown
  <2> QED BY <1>4, <2>1, <2>2, <2>3, <2>4, <2>5 DEF Calls
<1>5. CASE Open \/ Lose
  BY <1>5, LinkKeeps DEF Open, Lose
<1>6. CASE Receive
  BY <1>6, ReceiveKeeps DEF Receive
<1> QED BY <1>1, <1>2, <1>3, <1>4, <1>5, <1>6 DEF BrowserNext

\* A user who is alone, gives one command after the other and stays connected
\* sees the session as it is whenever nothing is on its way: of what a command
\* changes the browser learns by a frame or by loading the session again
\* (reloadSession, ws.onmessage), and neither undoes the other.
THEOREM SoloSeesTruth == ASSUME StartsFit PROVE BrowserSpec => []SoloSeesSession
<1>1. BrowserInit => (solo => SoloInv)
  BY SoloInit
<1>2. (solo => SoloInv) => SoloSeesSession
  BY QuietIsSettled DEF SoloSeesSession
<1> QED BY <1>1, <1>2, SoloNext, PTL DEF BrowserSpec

\* window.close reads the name of the window on screen twice, before the focus
\* and before the DELETE; for such a user it deletes what was meant.
THEOREM SoloClosesOwn == ASSUME StartsFit PROVE BrowserSpec => []SoloClosesItsWindow
<1>1. BrowserInit => (solo => SoloInv)
  BY SoloInit
<1>2. (solo => SoloInv) => SoloClosesItsWindow
  <2> SUFFICES ASSUME SoloInv, NEW s \in Slots, "meant" \in DOMAIN calls[s], calls[s].at = "sent"
               PROVE  calls[s].cmd.x = calls[s].meant
    BY DEF SoloClosesItsWindow
  <2>1. Asked(s) \/ Closing(s)
    BY OnlyCall, CallStage
  <2>2. ~Asked(s)
    <3>1. ASSUME NEW cmd, NEW then, calls[s] = [at |-> "sent", cmd |-> cmd, then |-> then] PROVE FALSE
      BY <3>1
    <3> QED BY <3>1 DEF Asked
  <2>3. PICK n : calls[s] = [at |-> "sent", then |-> "reload",
                             cmd |-> Command("close", n, NoID), meant |-> n]
    BY <2>1, <2>2 DEF Closing
  <2> QED BY <2>3 DEF Command
<1> QED BY <1>1, <1>2, SoloNext, PTL DEF BrowserSpec

-----------------------------------------------------------------------------
(* The lines the page shows: a count from the bottom tells which line kept  *)
(* each of them is, however many went off the top and whatever is between.  *)

LineSet == [text : Texts \cup {Image}, match : BOOLEAN, current : BOOLEAN]
Items   == [id : Streams, line : Texts]

\* A set of naturals has a least element.
LEMMA LeastNumber ==
    ASSUME NEW S \in SUBSET Nat, S # {}
    PROVE  \E m \in S : \A k \in S : m <= k
<1>1. PICK m \in S : \A k \in S : ~(<<k, m>> \in OpToRel(<, Nat))
  BY NatLessThanWellFounded, WFMin
<1>2. ASSUME NEW k \in S, k < m PROVE FALSE
  <2>1. <<k, m>> \in Nat \X Nat /\ <<k, m>>[1] < <<k, m>>[2]
    BY <1>2
  <2>2. <<k, m>> \in OpToRel(<, Nat)
    BY <2>1 DEF OpToRel
  <2>. QED
    BY <1>1, <2>2
<1>. QED
  BY <1>2

\* What is left of a sequence when the first of it goes.
LEMMA LastOf ==
    ASSUME NEW T, NEW s \in Seq(T), NEW n \in Nat
    PROVE  LET cut == IF Len(s) > n THEN Len(s) - n ELSE 0
           IN  /\ cut \in Nat
               /\ Last1(n, s) \in Seq(T)
               /\ Len(Last1(n, s)) = Len(s) - cut
               /\ \A i \in 1 .. Len(s) - cut : Last1(n, s)[i] = s[i + cut]
<1>1. CASE Len(s) > n
  <2>1. Last1(n, s) = SubSeq(s, Len(s) - n + 1, Len(s))
    BY <1>1 DEF Last1
  <2>2. /\ Last1(n, s) \in Seq(T) /\ Len(Last1(n, s)) = n
        /\ \A i \in 1 .. n : Last1(n, s)[i] = s[Len(s) - n + 1 + i - 1]
    BY <1>1, <2>1, SubSeqProperties
  <2>. QED
    BY <1>1, <2>2
<1>2. CASE ~(Len(s) > n)
  <2>1. Last1(n, s) = SubSeq(s, 1, Len(s))
    BY <1>2 DEF Last1
  <2>2. Last1(n, s) = s
    BY <2>1
  <2>. QED
    BY <1>2, <2>2
<1>. QED
  BY <1>1, <1>2

\* There are not more lines from i on than there are children.
LEMMA CountFits ==
    ASSUME NEW body \in Seq(LineSet), NEW i \in 1 .. Len(body)
    PROVE  /\ IsFiniteSet(LinesFrom(body, i))
           /\ Cardinality(LinesFrom(body, i)) \in 0 .. Len(body) - i + 1
<1>1. LinesFrom(body, i) \in SUBSET (i .. Len(body)) /\ i \in Int /\ Len(body) \in Int
  BY DEF LinesFrom
<1>2. IsFiniteSet(i .. Len(body)) /\ Cardinality(i .. Len(body)) = Len(body) - i + 1
  BY <1>1, FS_Interval
<1>3. IsFiniteSet(LinesFrom(body, i)) /\ Cardinality(LinesFrom(body, i)) <= Len(body) - i + 1
  BY <1>1, <1>2, FS_Subset
<1>4. Cardinality(LinesFrom(body, i)) \in Nat
  BY <1>3, FS_CardinalityType
<1>. QED
  BY <1>1, <1>3, <1>4

LEMMA UpOne ==
    ASSUME NEW i \in Nat, NEW n \in Nat, i <= n
    PROVE  i .. n + 1 = (i .. n) \cup {n + 1}
OBVIOUS

\* A child behind the last counts for every line before it, if it is a line.
LEMMA CountMoves ==
    ASSUME NEW body \in Seq(LineSet), NEW rest \in Seq(LineSet), NEW cut \in Nat,
           Len(rest) = Len(body) - cut,
           \A i \in 1 .. Len(rest) : rest[i] = body[i + cut],
           NEW last \in LineSet, NEW i \in 1 .. Len(rest)
    PROVE  LET more == IF last.text = Image THEN 0 ELSE 1
           IN  Cardinality(LinesFrom(Append(rest, last), i)) = Cardinality(LinesFrom(body, i + cut)) + more
<1> DEFINE now == LinesFrom(Append(rest, last), i)
           old == LinesFrom(body, i + cut)
           stay == LinesFrom(rest, i)
           f == [k \in stay |-> k + cut]
<1>1. Len(body) \in Nat /\ Len(rest) \in Nat /\ i + cut \in 1 .. Len(body)
  OBVIOUS
<1>2. IsFiniteSet(stay)
  BY CountFits
<1>3. Cardinality(old) = Cardinality(stay)
  <2>1. f \in [stay -> old]
    BY <1>1 DEF LinesFrom
  <2>2. \A k, j \in stay : f[k] = f[j] => k = j
    BY <1>1 DEF LinesFrom
  <2>3. \A k \in old : \E j \in stay : f[j] = k
    <3> SUFFICES ASSUME NEW k \in old PROVE \E j \in stay : f[j] = k
      OBVIOUS
    <3>1. k \in i + cut .. Len(body) /\ body[k].text # Image
      BY DEF LinesFrom
    <3>2. k - cut \in i .. Len(rest) /\ rest[k - cut] = body[(k - cut) + cut]
      BY <1>1, <3>1
    <3>3. (k - cut) + cut = k
      BY <1>1, <3>1
    <3>4. k - cut \in stay
      BY <3>1, <3>2, <3>3 DEF LinesFrom
    <3>. QED
      BY <3>3, <3>4
  <2>4. ExistsBijection(stay, old)
    <3>. HIDE DEF f, stay, old
    <3>1. f \in Bijection(stay, old)
      BY <2>1, <2>2, <2>3 DEF Bijection, Injection, Surjection, IsInjective
    <3>. QED
      BY <3>1 DEF ExistsBijection
  <2>. HIDE DEF stay, old
  <2>. QED
    BY <1>2, <2>4, FS_Bijection
<1>. HIDE DEF f
<1>4. now = IF last.text = Image THEN stay ELSE stay \cup {Len(rest) + 1}
  <2>1. /\ Len(Append(rest, last)) = Len(rest) + 1
        /\ \A k \in i .. Len(rest) : Append(rest, last)[k] = rest[k]
        /\ Append(rest, last)[Len(rest) + 1] = last
    <3>1. \A k \in 1 .. Len(rest) : Append(rest, last)[k] = rest[k]
      BY AppendProperties
    <3>2. \A k \in i .. Len(rest) : k \in 1 .. Len(rest)
      BY <1>1
    <3>. QED
      BY <3>1, <3>2, AppendProperties
  <2>2. i .. Len(rest) + 1 = (i .. Len(rest)) \cup {Len(rest) + 1}
    BY <1>1, UpOne
  <2>3. now = {k \in (i .. Len(rest)) \cup {Len(rest) + 1} : Append(rest, last)[k].text # Image}
    BY <2>1, <2>2 DEF LinesFrom
  <2>4. stay = {k \in i .. Len(rest) : Append(rest, last)[k].text # Image}
    BY <2>1 DEF LinesFrom
  <2>. HIDE DEF now, stay
  <2>. QED
    BY <2>1, <2>3, <2>4
<1>5. Len(rest) + 1 \notin stay
  BY <1>1 DEF LinesFrom
<1>6. Cardinality(stay) \in Nat
  BY <1>2, FS_CardinalityType
<1>. HIDE DEF f
<1>7. CASE last.text = Image
  <2>. HIDE DEF stay
  <2>. QED
    BY <1>3, <1>4, <1>6, <1>7
<1>8. CASE last.text # Image
  <2>1. Cardinality(stay \cup {Len(rest) + 1}) = Cardinality(stay) + 1
    <3>. HIDE DEF stay
    <3>. QED
      BY <1>2, <1>5, FS_AddElement
  <2>. HIDE DEF stay
  <2>. QED
    BY <1>3, <1>4, <1>6, <1>8, <2>1
<1>. QED
  BY <1>7, <1>8

\* The last child is a line on its own, or none.
LEMMA CountOfLast ==
    ASSUME NEW rest \in Seq(LineSet), NEW last \in LineSet
    PROVE  Cardinality(LinesFrom(Append(rest, last), Len(rest) + 1)) = IF last.text = Image THEN 0 ELSE 1
<1>1. LinesFrom(Append(rest, last), Len(rest) + 1) = IF last.text = Image THEN {} ELSE {Len(rest) + 1}
  BY DEF LinesFrom
<1>. QED
  BY <1>1, FS_EmptySet, FS_Singleton

\* appendLine: the line goes behind what is shown and behind what is kept.
LEMMA TailGrows ==
    ASSUME NEW body \in Seq(LineSet), NEW kept \in Seq(Texts), Len(kept) <= MaxBodyLines,
           ShowsTail(body, kept), NEW last \in LineSet, last.text \in Texts
    PROVE  ShowsTail(Append(Last1(MaxBodyLines - 1, body), last),
                     Last1(MaxBodyLines, Append(kept, last.text)))
<1> DEFINE n == MaxBodyLines - 1
           cut == IF Len(body) > n THEN Len(body) - n ELSE 0
           rest == Last1(n, body)
           all == Append(kept, last.text)
           drop == IF Len(all) > MaxBodyLines THEN Len(all) - MaxBodyLines ELSE 0
           end == Last1(MaxBodyLines, all)
           now == Append(rest, last)
<1>1. n \in Nat /\ MaxBodyLines \in Nat /\ Len(body) \in Nat /\ Len(kept) \in Nat
  BY LimitsAssumption
<1>2. /\ cut \in Nat /\ rest \in Seq(LineSet) /\ Len(rest) = Len(body) - cut
      /\ \A i \in 1 .. Len(rest) : rest[i] = body[i + cut]
  <2>. HIDE DEF n
  <2>. QED
    BY <1>1, LastOf
<1>3. /\ all \in Seq(Texts) /\ Len(all) = Len(kept) + 1 /\ all[Len(kept) + 1] = last.text
      /\ \A i \in 1 .. Len(kept) : all[i] = kept[i]
  BY AppendProperties
<1>4. /\ drop \in Nat /\ Len(end) = Len(all) - drop
      /\ \A i \in 1 .. Len(all) - drop : end[i] = all[i + drop]
  <2>. HIDE DEF all
  <2>. QED
    BY <1>1, <1>3, LastOf
<1>5. last.text # Image
  BY BlockAssumption
<1>6. Len(now) = Len(rest) + 1 /\ now[Len(rest) + 1] = last
      /\ \A i \in 1 .. Len(rest) : now[i] = rest[i]
  <2>. HIDE DEF rest
  <2>. QED
    BY <1>2, AppendProperties
<1>7. Len(rest) <= n /\ (cut > 0 => Len(rest) = n)
  <2>1. cut = IF Len(body) > n THEN Len(body) - n ELSE 0
    OBVIOUS
  <2>. HIDE DEF cut, n, rest
  <2>. QED
    BY <1>1, <1>2, <2>1
<1>8. Len(end) = IF Len(kept) + 1 > MaxBodyLines THEN MaxBodyLines ELSE Len(kept) + 1
  BY <1>1, <1>3, <1>4
<1>9. \A i \in 1 .. Len(rest) : /\ Cardinality(LinesFrom(now, i)) = Cardinality(LinesFrom(body, i + cut)) + 1
                               /\ i + cut \in 1 .. Len(body)
                               /\ Cardinality(LinesFrom(body, i + cut)) \in 0 .. Len(rest) - i + 1
  <2> SUFFICES ASSUME NEW i \in 1 .. Len(rest)
               PROVE  /\ Cardinality(LinesFrom(now, i)) = Cardinality(LinesFrom(body, i + cut)) + 1
                      /\ i + cut \in 1 .. Len(body)
                      /\ Cardinality(LinesFrom(body, i + cut)) \in 0 .. Len(rest) - i + 1
    OBVIOUS
  <2>. HIDE DEF cut, rest
  <2>1. i + cut \in 1 .. Len(body)
    BY <1>1, <1>2
  <2>2. Cardinality(LinesFrom(body, i + cut)) \in 0 .. Len(body) - (i + cut) + 1
    BY <2>1, CountFits
  <2>3. Len(body) - (i + cut) + 1 = Len(rest) - i + 1
    BY <1>1, <1>2
  <2>4. Cardinality(LinesFrom(now, i)) = Cardinality(LinesFrom(body, i + cut)) + 1
    BY <1>2, <1>5, CountMoves
  <2>. QED
    BY <2>1, <2>2, <2>3, <2>4
<1>10. Cardinality(LinesFrom(now, Len(rest) + 1)) = 1
  <2>. HIDE DEF rest
  <2>. QED
    BY <1>2, <1>5, CountOfLast
<1>. HIDE DEF n, cut, rest, all, drop, end, now
<1>11. ASSUME NEW i \in LinesFrom(now, 1)
       PROVE  LET k == Cardinality(LinesFrom(now, i))
              IN  k <= Len(end) /\ now[i].text = end[Len(end) + 1 - k]
  <2>1. i \in 1 .. Len(rest) + 1 /\ now[i].text # Image /\ Len(rest) \in Nat
    BY <1>2, <1>6 DEF LinesFrom
  <2>2. CASE i = Len(rest) + 1
    <3>1. Cardinality(LinesFrom(now, i)) = 1 /\ now[i].text = last.text
      BY <1>6, <1>10, <2>2
    <3>2. 1 <= Len(end) /\ Len(end) \in 1 .. Len(all) - drop /\ Len(end) + drop = Len(all)
      BY <1>1, <1>3, <1>4, <1>8, LimitsAssumption
    <3>3. end[Len(end)] = last.text
      BY <1>3, <1>4, <3>2
    <3>. QED
      BY <3>1, <3>2, <3>3
  <2>3. CASE i \in 1 .. Len(rest)
    <3>1. PICK k : k = Cardinality(LinesFrom(body, i + cut))
      OBVIOUS
    <3>2. /\ Cardinality(LinesFrom(now, i)) = k + 1 /\ k \in 0 .. Len(rest) - i + 1
          /\ i + cut \in 1 .. Len(body) /\ now[i] = body[i + cut]
      BY <1>2, <1>6, <1>9, <2>3, <3>1
    <3>3. i + cut \in LinesFrom(body, 1)
      BY <2>1, <3>2 DEF LinesFrom
    <3>4. k <= Len(kept) /\ body[i + cut].text = kept[Len(kept) + 1 - k]
      BY <3>1, <3>3 DEF ShowsTail
    <3>5. i + cut \in LinesFrom(body, i + cut)
      BY <2>1, <3>2 DEF LinesFrom
    <3>6. k # 0
      BY <3>1, <3>2, <3>5, CountFits, FS_EmptySet
    <3>7. k + 1 <= Len(end)
      BY <1>1, <1>7, <1>8, <2>1, <2>3, <3>2, <3>4, LimitsAssumption DEF n
    <3>8. PICK j : j = Len(end) + 1 - (k + 1)
      OBVIOUS
    <3>9. j \in 1 .. Len(all) - drop /\ j + drop = Len(kept) + 1 - k /\ Len(kept) + 1 - k \in 1 .. Len(kept)
      BY <1>1, <1>3, <1>4, <3>2, <3>4, <3>6, <3>7, <3>8
    <3>10. end[j] = kept[Len(kept) + 1 - k]
      BY <1>3, <1>4, <3>9
    <3>. QED
      BY <3>2, <3>4, <3>7, <3>8, <3>10
  <2>. QED
    BY <2>1, <2>2, <2>3
<1>12. ASSUME Len(now) < MaxBodyLines
       PROVE  Cardinality(LinesFrom(now, 1)) = Len(end)
  <2>1. Len(rest) < n /\ cut = 0 /\ Len(rest) = Len(body) /\ Len(body) < MaxBodyLines - 1
    BY <1>1, <1>2, <1>6, <1>7, <1>12 DEF n
  <2>2. Cardinality(LinesFrom(body, 1)) = Len(kept)
    BY <1>1, <2>1 DEF ShowsTail
  <2>3. CASE Len(body) = 0
    <3>1. LinesFrom(body, 1) = {}
      BY <2>3 DEF LinesFrom
    <3>2. Len(kept) = 0
      BY <2>2, <3>1, FS_EmptySet
    <3>3. Len(end) = 1
      BY <1>8, <3>2, <1>1, LimitsAssumption
    <3>. QED
      BY <1>10, <2>1, <2>3, <3>3
  <2>4. CASE Len(body) # 0
    <3>1. 1 \in 1 .. Len(rest)
      BY <1>1, <2>1, <2>4
    <3>2. Cardinality(LinesFrom(now, 1)) = Len(kept) + 1 /\ Len(kept) \in 0 .. Len(body)
      <4>1. /\ Cardinality(LinesFrom(now, 1)) = Cardinality(LinesFrom(body, 1 + cut)) + 1
            /\ Cardinality(LinesFrom(body, 1 + cut)) \in 0 .. Len(rest) - 1 + 1
        BY <1>9, <3>1
      <4>2. 1 + cut = 1 /\ Len(rest) - 1 + 1 = Len(body)
        BY <1>1, <2>1
      <4>. QED
        BY <2>2, <4>1, <4>2
    <3>. QED
      BY <1>1, <1>8, <2>1, <3>2
  <2>. QED
    BY <2>3, <2>4
<1>13. ShowsTail(now, end)
  BY <1>11, <1>12 DEF ShowsTail
<1>. QED
  BY <1>13 DEF now, end, rest, all, n

\* renderImage: a block counts for no line.
LEMMA TailWithBlock ==
    ASSUME NEW body \in Seq(LineSet), NEW kept \in Seq(Texts), ShowsTail(body, kept)
    PROVE  ShowsTail(Append(body, Line(Image)), kept)
<1> DEFINE last == Line(Image)
           now == Append(body, last)
<1>1. last \in LineSet /\ last.text = Image
  BY DEF Line, LineSet
<1>2. Len(now) = Len(body) + 1 /\ now[Len(body) + 1] = last
      /\ \A i \in 1 .. Len(body) : now[i] = body[i]
  <2>. HIDE DEF last
  <2>. QED
    BY <1>1, AppendProperties
<1>. HIDE DEF last
<1>3. \A i \in 1 .. Len(body) : Cardinality(LinesFrom(now, i)) = Cardinality(LinesFrom(body, i))
  <2> SUFFICES ASSUME NEW i \in 1 .. Len(body)
               PROVE  Cardinality(LinesFrom(now, i)) = Cardinality(LinesFrom(body, i))
    OBVIOUS
  <2>1. PICK cut : cut = 0
    OBVIOUS
  <2>2. cut \in Nat /\ Len(body) = Len(body) - cut /\ i + cut = i
        /\ \A k \in 1 .. Len(body) : body[k] = body[k + cut]
    BY <2>1
  <2>3. Cardinality(LinesFrom(now, i)) = Cardinality(LinesFrom(body, i + cut)) + 0
    BY <1>1, <2>2, CountMoves
  <2>4. Cardinality(LinesFrom(body, i)) \in Nat
    BY CountFits
  <2>. QED
    BY <2>2, <2>3, <2>4
<1>4. Cardinality(LinesFrom(now, Len(body) + 1)) = 0
  BY <1>1, CountOfLast
<1>. HIDE DEF now
<1>5. ASSUME NEW i \in LinesFrom(now, 1)
      PROVE  i \in LinesFrom(body, 1) /\ now[i] = body[i] /\ i \in 1 .. Len(body)
  <2>1. i \in 1 .. Len(body) + 1 /\ now[i].text # Image
    BY <1>2 DEF LinesFrom
  <2>2. i # Len(body) + 1
    BY <1>1, <1>2, <2>1
  <2>. QED
    BY <1>2, <2>1, <2>2 DEF LinesFrom
<1>6. ASSUME Len(now) < MaxBodyLines PROVE Cardinality(LinesFrom(now, 1)) = Len(kept)
  <2>1. Cardinality(LinesFrom(body, 1)) = Len(kept)
    BY <1>2, <1>6, LimitsAssumption DEF ShowsTail
  <2>2. CASE Len(body) = 0
    <3>1. LinesFrom(body, 1) = {}
      BY <2>2 DEF LinesFrom
    <3>2. Cardinality(LinesFrom(now, 1)) = 0
      <4>1. Len(body) + 1 = 1
        BY <2>2
      <4>. QED
        BY <1>4, <4>1
    <3>. QED
      BY <2>1, <3>1, <3>2, FS_EmptySet
  <2>3. CASE Len(body) # 0
    <3>1. 1 \in 1 .. Len(body)
      BY <2>3
    <3>. QED
      BY <1>3, <2>1, <3>1
  <2>. QED
    BY <2>2, <2>3
<1>7. ShowsTail(now, kept)
  BY <1>3, <1>5, <1>6 DEF ShowsTail
<1>. QED
  BY <1>7 DEF now, last

\* buildPane: all that is kept.
LEMMA TailWhole ==
    ASSUME NEW kept \in Seq(Texts)
    PROVE  LET body == [i \in DOMAIN kept |-> Line(kept[i])]
           IN  body \in Seq(LineSet) /\ ShowsTail(body, kept)
<1> DEFINE body == [i \in DOMAIN kept |-> Line(kept[i])]
<1>1. /\ body \in Seq(LineSet) /\ Len(body) = Len(kept)
      /\ \A i \in 1 .. Len(kept) : body[i].text = kept[i] /\ kept[i] # Image
  <2>1. \A i \in DOMAIN kept : Line(kept[i]) \in LineSet /\ Line(kept[i]).text = kept[i]
    BY DEF Line, LineSet
  <2>2. body = [i \in 1 .. Len(kept) |-> Line(kept[i])]
    OBVIOUS
  <2>3. \A i \in 1 .. Len(kept) : kept[i] # Image
    BY BlockAssumption
  <2>. QED
    BY <2>1, <2>2, <2>3
<1>. HIDE DEF body
<1>2. \A i \in 1 .. Len(kept) : LinesFrom(body, i) = i .. Len(kept)
  BY <1>1 DEF LinesFrom
<1>3. LinesFrom(body, 1) = 1 .. Len(kept)
  BY <1>1 DEF LinesFrom
<1>4. \A i \in 1 .. Len(kept) : Cardinality(i .. Len(kept)) = Len(kept) - i + 1
  BY FS_Interval
<1>5. Cardinality(LinesFrom(body, 1)) = Len(kept)
  BY <1>3, FS_Interval
<1>6. ASSUME NEW i \in LinesFrom(body, 1)
      PROVE  LET n == Cardinality(LinesFrom(body, i))
             IN  n <= Len(kept) /\ body[i].text = kept[Len(kept) + 1 - n]
  <2>1. i \in 1 .. Len(kept) /\ Cardinality(LinesFrom(body, i)) = Len(kept) - i + 1
    BY <1>2, <1>3, <1>4
  <2>2. Len(kept) + 1 - (Len(kept) - i + 1) = i
    BY <2>1
  <2>. QED
    BY <1>1, <2>1, <2>2
<1>7. ShowsTail(body, kept)
  BY <1>5, <1>6 DEF ShowsTail
<1>. QED
  BY <1>1, <1>7 DEF body

\* scroll.clear: neither shows anything.
LEMMA TailOfNone == ShowsTail(<<>>, <<>>)
<1>1. LinesFrom(<<>>, 1) = {}
  BY DEF LinesFrom
<1>. QED
  BY <1>1, FS_EmptySet DEF ShowsTail

\* The marks change no line.
LEMMA TailOfTexts ==
    ASSUME NEW body \in Seq(LineSet), NEW other \in Seq(LineSet), Len(other) = Len(body),
           \A i \in DOMAIN body : other[i].text = body[i].text,
           NEW kept, ShowsTail(body, kept)
    PROVE  ShowsTail(other, kept)
<1>1. LinesFrom(other, 1) = LinesFrom(body, 1)
  BY DEF LinesFrom
<1>2. \A i \in LinesFrom(body, 1) : /\ LinesFrom(other, i) = LinesFrom(body, i)
                                   /\ other[i].text = body[i].text
  BY DEF LinesFrom
<1>. QED
  BY <1>1, <1>2 DEF ShowsTail

-----------------------------------------------------------------------------
(* The page and the search on it.                                           *)

Kept(sb) == sb \in [Streams -> Seq(Texts)] /\ \A id \in Streams : Len(sb[id]) <= MaxBodyLines

BodiesType(b) == /\ b = [id \in DOMAIN b |-> b[id]]
                 /\ DOMAIN b \subseteq Streams
                 /\ \A id \in DOMAIN b : b[id] \in Seq(LineSet)

TailsShown(b, sb) == \A id \in DOMAIN b : ShowsTail(b[id], sb[id])

Marked(b, q) == \A id \in DOMAIN b : \A i \in DOMAIN b[id] :
                   b[id][i].match => <<b[id][i].text, q>> \in Finds

Result == [id : Streams \cup {Image}, at : Nat]

\* Every result is a child of a body, or gone.
RefersTo(rs, b) ==
    \A k \in DOMAIN rs :
       rs[k] = Gone \/ (rs[k].id \in DOMAIN b /\ rs[k].at \in DOMAIN b[rs[k].id])

\* Only the result that the search stands at is marked as the current one.
CurrentAt(b, rs, idx) ==
    \A id \in DOMAIN b : \A i \in DOMAIN b[id] :
       b[id][i].current => rs # <<>> /\ rs[idx + 1] = [id |-> id, at |-> i]

LinesFit == /\ Kept(scrollbacks) /\ BodiesType(bodies)
            /\ TailsShown(bodies, scrollbacks) /\ Marked(bodies, query)
            /\ reconnectQueue \in Seq(Items)
            /\ results \in Seq(Result) /\ RefersTo(results, bodies)
            /\ searchIdx \in Nat /\ (results # <<>> => searchIdx < Len(results))
            /\ CurrentAt(bodies, results, searchIdx)

\* What the page d became of the bodies b: nothing is current that was not, and
\* cut says how far its children moved up.
PageFits(d, b, q) ==
    /\ Kept(d.sb) /\ BodiesType(d.bodies) /\ TailsShown(d.bodies, d.sb) /\ Marked(d.bodies, q)
    /\ DOMAIN d.bodies = DOMAIN b /\ d.cut \in [Streams -> Nat]
    /\ \A id \in DOMAIN b :
          /\ Len(d.bodies[id]) + d.cut[id] >= Len(b[id])
          /\ \A j \in DOMAIN d.bodies[id] : d.bodies[id][j].current =>
                j + d.cut[id] \in DOMAIN b[id] /\ b[id][j + d.cut[id]].current

-----------------------------------------------------------------------------
(* appendLine, once and for a queue of lines.                               *)

LEMMA PageStep ==
    ASSUME NEW d, PageFits(d, bodies, query), NEW item \in Items, BodiesType(bodies)
    PROVE  PageFits(Append1(d, item), bodies, query)
<1> DEFINE id == item.id
           line == item.line
           e == Append1(d, item)
           sb == Last1(MaxBodyLines, Append(d.sb[id], line))
           rest == Last1(MaxBodyLines - 1, d.bodies[id])
           last == [Line(line) EXCEPT !.match = Marks(line)]
<1>1. id \in Streams /\ line \in Texts
  BY DEF Items
<1>2. e.sb = [d.sb EXCEPT ![id] = sb]
  BY DEF Append1
<1>3. /\ Kept(d.sb) /\ BodiesType(d.bodies) /\ TailsShown(d.bodies, d.sb) /\ Marked(d.bodies, query)
      /\ DOMAIN d.bodies = DOMAIN bodies /\ d.cut \in [Streams -> Nat]
  BY DEF PageFits
<1>4. /\ d.sb \in [Streams -> Seq(Texts)] /\ d.sb[id] \in Seq(Texts)
      /\ Len(d.sb[id]) <= MaxBodyLines /\ MaxBodyLines \in Nat
  BY <1>1, <1>3, LimitsAssumption DEF Kept
<1>5. sb \in Seq(Texts) /\ Len(sb) <= MaxBodyLines
  <2>1. Append(d.sb[id], line) \in Seq(Texts)
    BY <1>1, <1>4, AppendProperties
  <2>2. PICK s \in Seq(Texts) : s = Append(d.sb[id], line)
    BY <2>1
  <2>3. /\ Last1(MaxBodyLines, s) \in Seq(Texts)
        /\ Len(Last1(MaxBodyLines, s)) = Len(s) - (IF Len(s) > MaxBodyLines THEN Len(s) - MaxBodyLines ELSE 0)
    BY <1>4, LastOf
  <2>. QED
    BY <1>4, <2>2, <2>3
<1>6. /\ last \in LineSet /\ last.text = line /\ last.current = FALSE
      /\ last.match => <<last.text, query>> \in Finds
  BY <1>1 DEF Line, LineSet, Marks
<1>7. Kept(e.sb)
  <2>. HIDE DEF e, sb
  <2>. QED
    BY <1>1, <1>2, <1>4, <1>3, <1>5 DEF Kept
<1>8. \A x \in Streams : x # id => e.sb[x] = d.sb[x]
  <2>. HIDE DEF e, sb
  <2>. QED
    BY <1>2, <1>4
<1>9. e.sb[id] = sb
  <2>. HIDE DEF e, sb
  <2>. QED
    BY <1>1, <1>2, <1>4
<1>10. CASE id \notin DOMAIN d.bodies
  <2>1. e.bodies = d.bodies /\ e.cut = d.cut
    BY <1>10 DEF Append1
  <2>. HIDE DEF e
  <2>2. TailsShown(e.bodies, e.sb)
    BY <1>3, <1>8, <1>10, <2>1 DEF TailsShown, BodiesType
  <2>. QED
    <3>1. PageFits(e, bodies, query)
      BY <1>7, <2>1, <2>2 DEF PageFits
    <3>. QED
      BY <3>1 DEF e
<1>11. CASE id \in DOMAIN d.bodies
  <2>1. e.bodies = [d.bodies EXCEPT ![id] = Append(rest, last)]
    BY <1>11 DEF Append1
  <2>2. e.cut = [d.cut EXCEPT ![id] = @ + Len(d.bodies[id]) - Len(rest)]
    BY <1>11 DEF Append1
  <2>3. PICK body \in Seq(LineSet) : body = d.bodies[id]
    BY <1>3, <1>11 DEF BodiesType
  <2>4. PICK n \in Nat : n = MaxBodyLines - 1
    BY LimitsAssumption
  <2>5. PICK cut \in Nat : /\ rest \in Seq(LineSet) /\ Len(rest) = Len(body) - cut
                           /\ \A i \in 1 .. Len(rest) : rest[i] = body[i + cut]
    <3>1. rest = Last1(n, body)
      BY <2>3, <2>4
    <3>. HIDE DEF rest
    <3>2. PICK c : c = IF Len(body) > n THEN Len(body) - n ELSE 0
      OBVIOUS
    <3>3. /\ c \in Nat /\ rest \in Seq(LineSet) /\ Len(rest) = Len(body) - c
          /\ \A i \in 1 .. Len(body) - c : rest[i] = body[i + c]
      BY <3>1, <3>2, LastOf
    <3>. QED
      BY <3>3
  <2>6. ShowsTail(Append(rest, last), sb)
    <3>1. ShowsTail(body, d.sb[id])
      BY <1>3, <1>11, <2>3 DEF TailsShown
    <3>2. PICK s \in Seq(Texts) : s = d.sb[id]
      BY <1>4
    <3>3. rest = Last1(MaxBodyLines - 1, body) /\ sb = Last1(MaxBodyLines, Append(s, last.text))
      BY <1>6, <2>3, <3>2
    <3>. HIDE DEF rest, sb, last
    <3>. QED
      BY <1>1, <1>4, <1>6, <3>1, <3>2, <3>3, TailGrows
  <2>. HIDE DEF e, sb, rest, last
  <2>7. PICK now \in Seq(LineSet) : /\ now = Append(rest, last) /\ Len(now) = Len(rest) + 1
                                   /\ now[Len(rest) + 1] = last
                                   /\ \A i \in 1 .. Len(rest) : now[i] = rest[i]
    <3>1. PICK s \in Seq(LineSet), l \in LineSet : s = rest /\ l = last
      BY <1>6, <2>5
    <3>2. /\ Append(s, l) \in Seq(LineSet) /\ Len(Append(s, l)) = Len(s) + 1
          /\ Append(s, l)[Len(s) + 1] = l
          /\ \A i \in 1 .. Len(s) : Append(s, l)[i] = s[i]
      BY AppendProperties
    <3>. QED
      BY <3>1, <3>2
  <2>8. /\ DOMAIN e.bodies = DOMAIN d.bodies /\ e.bodies[id] = now
        /\ \A x \in DOMAIN d.bodies : x # id => e.bodies[x] = d.bodies[x]
        /\ e.bodies = [x \in DOMAIN e.bodies |-> e.bodies[x]]
    BY <1>11, <2>1, <2>7
  <2>9. /\ e.cut \in [Streams -> Nat] /\ e.cut[id] = d.cut[id] + cut
        /\ \A x \in Streams : x # id => e.cut[x] = d.cut[x]
    <3>1. Len(body) \in Nat /\ Len(rest) \in Nat /\ d.cut[id] \in Nat
      BY <1>1, <1>3, <2>5
    <3>2. d.cut[id] + Len(body) - Len(rest) = d.cut[id] + cut
      BY <2>5, <3>1
    <3>3. e.cut = [d.cut EXCEPT ![id] = d.cut[id] + cut]
      BY <2>2, <2>3, <3>2
    <3>. QED
      BY <1>1, <1>3, <3>1, <3>3
  <2>10. BodiesType(e.bodies)
    BY <1>3, <2>8 DEF BodiesType
  <2>11. TailsShown(e.bodies, e.sb)
    <3>1. \A x \in DOMAIN e.bodies : x # id => ShowsTail(e.bodies[x], e.sb[x])
      BY <1>3, <1>8, <2>8 DEF TailsShown, BodiesType
    <3>2. ShowsTail(e.bodies[id], e.sb[id])
      BY <1>9, <2>6, <2>7, <2>8
    <3>. QED
      BY <3>1, <3>2 DEF TailsShown
  <2>12. \A i \in 1 .. Len(now) : i \in 1 .. Len(rest) \/ i = Len(rest) + 1
    <3>1. Len(rest) \in Nat /\ Len(now) = Len(rest) + 1
      BY <2>5, <2>7
    <3>. QED
      BY <3>1
  <2>13. \A i \in 1 .. Len(rest) : i + cut \in 1 .. Len(body)
    BY <2>5
  <2>14. Marked(e.bodies, query)
    <3>1. ASSUME NEW i \in DOMAIN now, now[i].match PROVE <<now[i].text, query>> \in Finds
      <4>1. CASE i = Len(rest) + 1
        BY <1>6, <2>7, <3>1, <4>1
      <4>2. CASE i \in 1 .. Len(rest)
        <5>1. now[i] = body[i + cut] /\ i + cut \in DOMAIN body
          BY <2>5, <2>7, <2>13, <4>2
        <5>. QED
          BY <1>3, <1>11, <2>3, <3>1, <5>1 DEF Marked
      <4>. QED
        BY <2>12, <3>1, <4>1, <4>2
    <3>. QED
      BY <1>3, <2>8, <3>1 DEF Marked
  <2>15. ASSUME NEW x \in DOMAIN bodies
         PROVE  /\ Len(e.bodies[x]) + e.cut[x] >= Len(bodies[x])
                /\ \A j \in DOMAIN e.bodies[x] : e.bodies[x][j].current =>
                      j + e.cut[x] \in DOMAIN bodies[x] /\ bodies[x][j + e.cut[x]].current
    <3>1. CASE x # id
      <4>1. e.bodies[x] = d.bodies[x] /\ e.cut[x] = d.cut[x]
        BY <1>3, <2>8, <2>9, <2>15, <3>1 DEF BodiesType
      <4>. QED
        BY <2>15, <4>1 DEF PageFits
    <3>2. CASE x = id
      <4>1. PICK old \in Seq(LineSet) : old = bodies[id]
        BY <2>15, <3>2 DEF BodiesType
      <4>2. PICK was \in Nat : was = d.cut[id]
        BY <1>1, <1>3
      <4>3. /\ Len(body) + was >= Len(old)
            /\ \A j \in DOMAIN body : body[j].current =>
                  j + was \in DOMAIN old /\ old[j + was].current
        BY <2>3, <2>15, <3>2, <4>1, <4>2 DEF PageFits
      <4>4. Len(now) + (was + cut) >= Len(old)
        BY <2>5, <2>7, <4>3
      <4>5. ASSUME NEW j \in DOMAIN now, now[j].current
            PROVE  j + (was + cut) \in DOMAIN old /\ old[j + (was + cut)].current
        <5>1. j \in 1 .. Len(rest)
          BY <1>6, <2>7, <2>12, <4>5
        <5>2. j + cut \in DOMAIN body /\ body[j + cut].current
          <6>1. now[j] = rest[j] /\ rest[j] = body[j + cut] /\ j + cut \in 1 .. Len(body)
            BY <2>5, <2>7, <2>13, <5>1
          <6>. QED
            BY <4>5, <6>1
        <5>3. (j + cut) + was = j + (was + cut)
          BY <5>1
        <5>. QED
          BY <4>3, <5>2, <5>3
      <4>. QED
        BY <2>8, <2>9, <3>2, <4>1, <4>2, <4>4, <4>5
    <3>. QED
      BY <3>1, <3>2
  <2>. QED
    <3>1. DOMAIN e.bodies = DOMAIN bodies
      BY <1>3, <2>8
    <3>2. PageFits(e, bodies, query)
      BY <1>7, <2>9, <2>10, <2>11, <2>14, <2>15, <3>1 DEF PageFits
    <3>. QED
      BY <3>2 DEF e
<1>. QED
  BY <1>10, <1>11

\* d is what the items make of the page base, one after the other.
ArePages(d, N, base, items) ==
    d = [n \in 0 .. N |-> IF n = 0 THEN base ELSE Append1(d[n - 1], items[n])]

LEMMA PagesExist ==
    ASSUME NEW N \in Nat, NEW base, NEW items
    PROVE  \E d : ArePages(d, N, base, items)
<1> DEFINE Q == {n \in 0 .. N : ~ \E d : ArePages(d, n, base, items)}
<1> SUFFICES ASSUME Q # {} PROVE FALSE
  OBVIOUS
<1>1. PICK m \in Q : \A k \in Q : m <= k
  <2>1. Q \in SUBSET Nat
    OBVIOUS
  <2>. HIDE DEF Q
  <2>. QED
    BY <2>1, LeastNumber
<1>2. m \in 0 .. N /\ ~ \E d : ArePages(d, m, base, items)
  OBVIOUS
<1>3. m # 0
  <2>1. ArePages([n \in 0 .. 0 |-> base], 0, base, items)
    BY DEF ArePages
  <2>. QED
    BY <1>2, <2>1
<1>4. PICK d : ArePages(d, m - 1, base, items)
  <2>1. m - 1 \in 0 .. N /\ ~(m <= m - 1)
    BY <1>2, <1>3
  <2>2. m - 1 \notin Q
    <3>. HIDE DEF Q
    <3>. QED
      BY <1>1, <2>1
  <2>. QED
    BY <2>1, <2>2
<1>. HIDE DEF Q
<1> DEFINE e == [n \in 0 .. m |-> IF n = m THEN Append1(d[m - 1], items[m]) ELSE d[n]]
<1>5. \A n \in 0 .. m - 1 : d[n] = IF n = 0 THEN base ELSE Append1(d[n - 1], items[n])
  BY <1>4 DEF ArePages
<1>6. ASSUME NEW n \in 0 .. m PROVE e[n] = IF n = 0 THEN base ELSE Append1(e[n - 1], items[n])
  <2>1. CASE n = m
    <3>1. e[n] = Append1(d[m - 1], items[m]) /\ e[n - 1] = d[m - 1]
      BY <1>2, <1>3, <2>1
    <3>. HIDE DEF e
    <3>. QED
      BY <1>3, <2>1, <3>1
  <2>2. CASE n # m
    <3>1. n \in 0 .. m - 1 /\ e[n] = d[n] /\ (n # 0 => e[n - 1] = d[n - 1])
      BY <1>2, <2>2
    <3>. HIDE DEF e
    <3>. QED
      BY <1>5, <3>1
  <2>. QED
    BY <2>1, <2>2
<1>7. e = [n \in 0 .. m |-> e[n]]
  OBVIOUS
<1>8. ArePages(e, m, base, items)
  <2>. HIDE DEF e
  <2>. QED
    BY <1>6, <1>7 DEF ArePages
<1>. QED
  BY <1>2, <1>8

\* The page as it is when lines come.
Before == [sb |-> scrollbacks, bodies |-> bodies, cut |-> [id \in Streams |-> 0]]

LEMMA PagesFit ==
    ASSUME LinesFit, NEW items \in Seq(Items)
    PROVE  PageFits(Pages(items)[Len(items)], bodies, query)
<1>1. PICK N \in Nat : N = Len(items)
  OBVIOUS
<1>2. PICK d : d = Pages(items)
  OBVIOUS
<1>3. ArePages(d, N, Before, items)
  <2>1. \E p : ArePages(p, N, Before, items)
    BY PagesExist
  <2>2. d = CHOOSE p : ArePages(p, N, Before, items)
    BY <1>1, <1>2 DEF Pages, ArePages, Before
  <2>. QED
    BY <2>1, <2>2
<1>4. \A n \in 0 .. N : d[n] = IF n = 0 THEN Before ELSE Append1(d[n - 1], items[n])
  BY <1>3 DEF ArePages
<1>5. PageFits(d[0], bodies, query)
  <2>1. d[0] = Before
    BY <1>4
  <2>2. \A id \in DOMAIN bodies : bodies[id] \in Seq(LineSet) /\ id \in Streams
    BY DEF LinesFit, BodiesType
  <2>3. \A id \in DOMAIN bodies : \A j \in DOMAIN bodies[id] : j + 0 = j
    BY <2>2
  <2>. QED
    BY <2>1, <2>2, <2>3 DEF PageFits, Before, LinesFit
<1> DEFINE Q == {n \in 0 .. N : ~PageFits(d[n], bodies, query)}
<1>6. CASE Q # {}
  <2>1. PICK m \in Q : \A k \in Q : m <= k
    <3>1. Q \in SUBSET Nat
      OBVIOUS
    <3>. HIDE DEF Q
    <3>. QED
      BY <1>6, <3>1, LeastNumber
  <2>2. m \in 0 .. N /\ ~PageFits(d[m], bodies, query)
    OBVIOUS
  <2>3. m # 0
    BY <1>5, <2>2
  <2>4. m - 1 \in 0 .. N /\ m - 1 \notin Q
    <3>1. m - 1 \in 0 .. N /\ ~(m <= m - 1)
      BY <2>2, <2>3
    <3>. HIDE DEF Q
    <3>. QED
      BY <2>1, <3>1
  <2>5. PageFits(d[m - 1], bodies, query)
    BY <2>4
  <2>. HIDE DEF Q
  <2>6. d[m] = Append1(d[m - 1], items[m]) /\ items[m] \in Items
    BY <1>1, <1>4, <2>2, <2>3
  <2>7. BodiesType(bodies)
    BY DEF LinesFit
  <2>8. PICK item \in Items : item = items[m]
    BY <2>6
  <2>9. PICK last : last = d[m - 1]
    OBVIOUS
  <2>10. PageFits(Append1(last, item), bodies, query)
    BY <2>5, <2>7, <2>9, PageStep
  <2>. QED
    BY <2>2, <2>6, <2>8, <2>9, <2>10
<1>7. CASE Q = {}
  BY <1>1, <1>2, <1>7
<1>. QED
  BY <1>6, <1>7

-----------------------------------------------------------------------------
(* Every step keeps the page and the search in order.                       *)

LEMMA AppendFits ==
    ASSUME LinesFit, NEW items \in Seq(Items), AppendLines(items),
           reconnectQueue' \in Seq(Items)
    PROVE  LinesFit'
<1>1. PICK d : d = Pages(items)[Len(items)]
  OBVIOUS
<1>2. PageFits(d, bodies, query)
  BY <1>1, PagesFit
<1>3. /\ scrollbacks' = d.sb /\ bodies' = d.bodies
      /\ results' = [i \in DOMAIN results |-> After(results[i], d.cut)]
      /\ query' = query /\ searchIdx' = searchIdx
  BY <1>1 DEF AppendLines
<1>4. PICK rs \in Seq(Result) : rs = results
  BY DEF LinesFit
<1>5. DOMAIN results' = 1 .. Len(rs) /\ \A k \in 1 .. Len(rs) : results'[k] = After(rs[k], d.cut)
  BY <1>3, <1>4
<1>6. ASSUME NEW k \in 1 .. Len(rs)
      PROVE  /\ After(rs[k], d.cut) \in Result
             /\ \/ After(rs[k], d.cut) = Gone
                \/ /\ After(rs[k], d.cut).id \in DOMAIN d.bodies
                   /\ After(rs[k], d.cut).at \in DOMAIN d.bodies[After(rs[k], d.cut).id]
             /\ \A id \in DOMAIN bodies, j \in Nat \ {0} :
                   rs[k] = [id |-> id, at |-> j + d.cut[id]] => After(rs[k], d.cut) = [id |-> id, at |-> j]
  <2>1. PICK r \in Result : r = rs[k]
    OBVIOUS
  <2>2. Gone \in Result
    BY DEF Gone, Result
  <2>3. \A id \in DOMAIN bodies : id \in Streams /\ d.cut[id] \in Nat
    BY <1>2 DEF LinesFit, BodiesType, PageFits
  <2>4. CASE r = Gone
    <3>1. r.at = 0 /\ After(r, d.cut) = Gone
      BY <2>4 DEF Gone, After
    <3>2. \A id \in DOMAIN bodies, j \in Nat \ {0} : r # [id |-> id, at |-> j + d.cut[id]]
      BY <2>3, <3>1
    <3>. QED
      BY <2>1, <2>2, <3>1, <3>2
  <2>5. CASE r # Gone
    <3>1. r.id \in DOMAIN bodies /\ r.at \in DOMAIN bodies[r.id]
      BY <1>4, <2>1, <2>5 DEF LinesFit, RefersTo
    <3>2. PICK id : id = r.id
      OBVIOUS
    <3>3. PICK body \in Seq(LineSet) : body = bodies[id]
      BY <3>1, <3>2 DEF LinesFit, BodiesType
    <3>4. PICK cut \in Nat : cut = d.cut[id]
      BY <2>3, <3>1, <3>2
    <3>5. PICK now \in Seq(LineSet) : now = d.bodies[id] /\ Len(now) + cut >= Len(body)
      BY <1>2, <3>1, <3>2, <3>3, <3>4 DEF PageFits, BodiesType
    <3>6. r = [id |-> id, at |-> r.at] /\ r.at \in 1 .. Len(body) /\ id \in Streams
      BY <2>3, <3>1, <3>2, <3>3 DEF Result
    <3>7. CASE r.at <= cut
      <4>1. After(r, d.cut) = Gone
        BY <2>5, <3>2, <3>4, <3>7 DEF After
      <4>2. \A x \in DOMAIN bodies, j \in Nat \ {0} : r # [id |-> x, at |-> j + d.cut[x]]
        <5> SUFFICES ASSUME NEW x \in DOMAIN bodies, NEW j \in Nat \ {0},
                            r = [id |-> x, at |-> j + d.cut[x]]
                     PROVE  FALSE
          OBVIOUS
        <5>1. x = id /\ r.at = j + cut
          BY <3>2, <3>4
        <5>. QED
          BY <3>7, <5>1
      <4>. QED
        BY <2>1, <2>2, <4>1, <4>2
    <3>8. CASE ~(r.at <= cut)
      <4>1. After(r, d.cut) = [r EXCEPT !.at = r.at - cut]
        BY <2>5, <3>2, <3>4, <3>8 DEF After
      <4>2. After(r, d.cut) = [id |-> id, at |-> r.at - cut]
        BY <3>2, <4>1 DEF Result
      <4>3. r.at - cut \in 1 .. Len(now) /\ r.at - cut \in Nat
        BY <3>5, <3>6, <3>8
      <4>4. After(r, d.cut) \in Result
        BY <3>6, <4>2, <4>3 DEF Result
      <4>5. id \in DOMAIN d.bodies
        BY <1>2, <3>1, <3>2 DEF PageFits
      <4>6. \A x \in DOMAIN bodies, j \in Nat \ {0} :
               r = [id |-> x, at |-> j + d.cut[x]] => After(r, d.cut) = [id |-> x, at |-> j]
        <5> SUFFICES ASSUME NEW x \in DOMAIN bodies, NEW j \in Nat \ {0},
                            r = [id |-> x, at |-> j + d.cut[x]]
                     PROVE  After(r, d.cut) = [id |-> x, at |-> j]
          OBVIOUS
        <5>1. x = id /\ r.at = j + cut
          BY <3>2, <3>4
        <5>2. r.at - cut = j
          BY <5>1
        <5>. QED
          BY <4>2, <5>1, <5>2
      <4>. QED
        BY <2>1, <3>5, <4>2, <4>3, <4>4, <4>5, <4>6
    <3>. QED
      BY <3>6, <3>7, <3>8
  <2>. QED
    BY <2>4, <2>5
<1>7. results' \in Seq(Result) /\ Len(results') = Len(rs)
  <2>1. results' = [k \in 1 .. Len(rs) |-> After(rs[k], d.cut)]
    BY <1>3, <1>4
  <2>2. \A k \in 1 .. Len(rs) : After(rs[k], d.cut) \in Result
    BY <1>6
  <2>. QED
    BY <2>1, <2>2
<1>8. RefersTo(results', bodies')
  <2> SUFFICES ASSUME NEW k \in DOMAIN results'
               PROVE  \/ results'[k] = Gone
                      \/ results'[k].id \in DOMAIN bodies' /\ results'[k].at \in DOMAIN bodies'[results'[k].id]
    BY DEF RefersTo
  <2>1. k \in 1 .. Len(rs) /\ results'[k] = After(rs[k], d.cut)
    BY <1>5
  <2>. QED
    BY <1>3, <1>6, <2>1
<1>9. searchIdx \in Nat /\ (rs # <<>> => searchIdx < Len(rs)) /\ (results' # <<>> <=> rs # <<>>)
  BY <1>4, <1>7 DEF LinesFit
<1>10. CurrentAt(bodies', results', searchIdx')
  <2> SUFFICES ASSUME NEW id \in DOMAIN d.bodies, NEW j \in DOMAIN d.bodies[id], d.bodies[id][j].current
               PROVE  results' # <<>> /\ results'[searchIdx + 1] = [id |-> id, at |-> j]
    BY <1>3 DEF CurrentAt
  <2>1. id \in DOMAIN bodies /\ j + d.cut[id] \in DOMAIN bodies[id] /\ bodies[id][j + d.cut[id]].current
    BY <1>2 DEF PageFits
  <2>2. rs # <<>> /\ rs[searchIdx + 1] = [id |-> id, at |-> j + d.cut[id]]
    BY <1>4, <2>1 DEF LinesFit, CurrentAt
  <2>3. j \in Nat \ {0}
    <3>1. d.bodies[id] \in Seq(LineSet)
      BY <1>2 DEF PageFits, BodiesType
    <3>. QED
      BY <3>1
  <2>4. searchIdx + 1 \in 1 .. Len(rs)
    BY <1>9, <2>2
  <2>5. After(rs[searchIdx + 1], d.cut) = [id |-> id, at |-> j]
    BY <1>6, <2>1, <2>2, <2>3, <2>4
  <2>. QED
    BY <1>5, <1>9, <2>2, <2>4, <2>5
<1>11. Kept(scrollbacks') /\ BodiesType(bodies') /\ TailsShown(bodies', scrollbacks') /\ Marked(bodies', query')
  BY <1>2, <1>3 DEF PageFits
<1>. QED
  BY <1>3, <1>7, <1>8, <1>9, <1>10, <1>11 DEF LinesFit

LEMMA ArrivesFits ==
    ASSUME LinesFit, NEW item \in Items, Arrives(item)
    PROVE  LinesFit'
<1>1. reconnectQueue \in Seq(Items)
  BY DEF LinesFit
<1>2. CASE open
  <2>1. AppendLines(<<item>>) /\ reconnectQueue' = reconnectQueue
    BY <1>2 DEF Arrives
  <2>2. PICK items \in Seq(Items) : items = <<item>>
    <3>1. <<item>> \in Seq(Items)
      OBVIOUS
    <3>. QED
      BY <3>1
  <2>. QED
    BY <1>1, <2>1, <2>2, AppendFits
<1>3. CASE ~open
  <2>1. /\ reconnectQueue' \in Seq(Items)
        /\ scrollbacks' = scrollbacks /\ bodies' = bodies /\ results' = results
        /\ searchIdx' = searchIdx /\ query' = query
    BY <1>1, <1>3 DEF Arrives, page, search
  <2>. QED
    BY <2>1 DEF LinesFit
<1>. QED
  BY <1>2, <1>3

LEMMA ReconnectFits ==
    ASSUME LinesFit, Reconnect
    PROVE  LinesFit'
<1>1. PICK items \in Seq(Items) : items = reconnectQueue
  BY DEF LinesFit
<1>2. AppendLines(items) /\ reconnectQueue' \in Seq(Items)
  BY <1>1 DEF Reconnect
<1>. QED
  BY <1>2, AppendFits

LEMMA BlockFits ==
    ASSUME LinesFit, NEW id \in Streams, RenderImage(id)
    PROVE  LinesFit'
<1>1. /\ id \in DOMAIN bodies /\ bodies' = [bodies EXCEPT ![id] = Append(bodies[id], Line(Image))]
      /\ scrollbacks' = scrollbacks /\ reconnectQueue' = reconnectQueue
      /\ results' = results /\ searchIdx' = searchIdx /\ query' = query
  BY DEF RenderImage, search
<1>2. PICK body \in Seq(LineSet) : body = bodies[id]
  BY <1>1 DEF LinesFit, BodiesType
<1>3. PICK block \in LineSet : block = Line(Image) /\ ~block.match /\ ~block.current
  <2>1. Line(Image) \in LineSet /\ Line(Image).match = FALSE /\ Line(Image).current = FALSE
    BY DEF Line, LineSet
  <2>. QED
    BY <2>1
<1>4. PICK now \in Seq(LineSet) : /\ now = Append(body, block) /\ Len(now) = Len(body) + 1
                                 /\ now[Len(body) + 1] = block
                                 /\ \A i \in 1 .. Len(body) : now[i] = body[i]
  <2>1. /\ Append(body, block) \in Seq(LineSet) /\ Len(Append(body, block)) = Len(body) + 1
        /\ Append(body, block)[Len(body) + 1] = block
        /\ \A i \in 1 .. Len(body) : Append(body, block)[i] = body[i]
    BY AppendProperties
  <2>. QED
    BY <2>1
<1>5. /\ DOMAIN bodies' = DOMAIN bodies /\ bodies'[id] = now
      /\ \A x \in DOMAIN bodies : x # id => bodies'[x] = bodies[x]
      /\ bodies' = [x \in DOMAIN bodies' |-> bodies'[x]]
  BY <1>1, <1>2, <1>3, <1>4
<1>6. BodiesType(bodies')
  BY <1>5 DEF LinesFit, BodiesType
<1>7. ShowsTail(now, scrollbacks[id])
  <2>1. PICK kept \in Seq(Texts) : kept = scrollbacks[id]
    BY DEF LinesFit, Kept
  <2>2. ShowsTail(body, kept)
    BY <1>1, <1>2, <2>1 DEF LinesFit, TailsShown
  <2>3. ShowsTail(Append(body, Line(Image)), kept)
    BY <2>2, TailWithBlock
  <2>. QED
    BY <1>3, <1>4, <2>1, <2>3
<1>8. TailsShown(bodies', scrollbacks')
  BY <1>1, <1>5, <1>7 DEF LinesFit, TailsShown
<1>9. \A i \in DOMAIN now : (i \in DOMAIN body /\ now[i] = body[i]) \/ now[i] = block
  <2>1. \A i \in 1 .. Len(body) + 1 : i \in 1 .. Len(body) \/ i = Len(body) + 1
    OBVIOUS
  <2>. QED
    BY <1>4, <2>1
<1>10. Marked(bodies', query') /\ CurrentAt(bodies', results', searchIdx')
  BY <1>1, <1>2, <1>3, <1>5, <1>9 DEF LinesFit, Marked, CurrentAt
<1>11. RefersTo(results', bodies')
  <2>1. \A i \in DOMAIN body : i \in DOMAIN now
    BY <1>4
  <2>. QED
    BY <1>1, <1>2, <1>5, <2>1 DEF LinesFit, RefersTo
<1>. QED
  BY <1>1, <1>6, <1>8, <1>10, <1>11 DEF LinesFit

LEMMA LayoutFits ==
    ASSUME LinesFit, NEW panes \in SUBSET Streams, RenderLayout(panes)
    PROVE  LinesFit'
<1>1. /\ bodies' = [id \in panes |-> [i \in DOMAIN scrollbacks[id] |-> Line(scrollbacks[id][i])]]
      /\ results' = [i \in DOMAIN results |-> Gone]
      /\ scrollbacks' = scrollbacks /\ reconnectQueue' = reconnectQueue
      /\ searchIdx' = searchIdx /\ query' = query
  BY DEF RenderLayout
<1>2. ASSUME NEW id \in panes
      PROVE  /\ bodies'[id] \in Seq(LineSet) /\ ShowsTail(bodies'[id], scrollbacks[id])
             /\ \A i \in DOMAIN bodies'[id] : ~bodies'[id][i].match /\ ~bodies'[id][i].current
  <2>1. PICK kept \in Seq(Texts) : kept = scrollbacks[id]
    BY DEF LinesFit, Kept
  <2>2. bodies'[id] = [i \in DOMAIN kept |-> Line(kept[i])]
    BY <1>1, <2>1
  <2>3. \A i \in DOMAIN kept : ~bodies'[id][i].match /\ ~bodies'[id][i].current
    BY <2>2 DEF Line
  <2>. QED
    BY <2>1, <2>2, <2>3, TailWhole
<1>3. DOMAIN bodies' = panes /\ bodies' = [x \in DOMAIN bodies' |-> bodies'[x]]
  BY <1>1
<1>4. /\ BodiesType(bodies') /\ TailsShown(bodies', scrollbacks') /\ Marked(bodies', query')
      /\ CurrentAt(bodies', results', searchIdx')
  BY <1>1, <1>2, <1>3 DEF BodiesType, TailsShown, Marked, CurrentAt
<1>5. results' \in Seq(Result) /\ Len(results') = Len(results) /\ RefersTo(results', bodies')
  <2>1. results \in Seq(Result) /\ Gone \in Result
    BY DEF LinesFit, Gone, Result
  <2>2. PICK rs \in Seq(Result) : rs = results
    BY <2>1
  <2>3. PICK none \in Result : none = Gone
    BY <2>1
  <2>4. results' = [i \in 1 .. Len(rs) |-> none]
    BY <1>1, <2>2, <2>3
  <2>5. results' \in Seq(Result) /\ Len(results') = Len(rs)
    BY <2>4
  <2>6. \A k \in DOMAIN results' : results'[k] = Gone
    BY <1>1
  <2>. QED
    BY <2>2, <2>5, <2>6 DEF RefersTo
<1>6. results' # <<>> => searchIdx < Len(results')
  BY <1>5 DEF LinesFit
<1>. QED
  BY <1>1, <1>4, <1>5, <1>6 DEF LinesFit

LEMMA ClearFits ==
    ASSUME LinesFit, NEW id \in Streams, ScrollClear(id)
    PROVE  LinesFit'
<1>1. /\ bodies' = [x \in DOMAIN bodies |-> IF x = id THEN <<>> ELSE bodies[x]]
      /\ scrollbacks' = [scrollbacks EXCEPT ![id] = <<>>]
      /\ results' = [i \in DOMAIN results |-> IF results[i].id = id THEN Gone ELSE results[i]]
      /\ reconnectQueue' = reconnectQueue /\ searchIdx' = searchIdx /\ query' = query
  BY DEF ScrollClear
<1>2. /\ DOMAIN bodies' = DOMAIN bodies /\ (id \in DOMAIN bodies => bodies'[id] = <<>>)
      /\ \A x \in DOMAIN bodies : x # id => bodies'[x] = bodies[x]
      /\ bodies' = [x \in DOMAIN bodies' |-> bodies'[x]]
  BY <1>1
<1>3. Kept(scrollbacks')
  <2>1. MaxBodyLines \in Nat
    BY LimitsAssumption
  <2>. QED
    BY <1>1, <2>1 DEF LinesFit, Kept
<1>4. scrollbacks'[id] = <<>> /\ \A x \in Streams : x # id => scrollbacks'[x] = scrollbacks[x]
  BY <1>1 DEF LinesFit, Kept
<1>5. BodiesType(bodies')
  <2>1. \A x \in DOMAIN bodies : bodies'[x] \in Seq(LineSet)
    <3>1. <<>> \in Seq(LineSet)
      OBVIOUS
    <3>. QED
      BY <1>2, <3>1 DEF LinesFit, BodiesType
  <2>. QED
    BY <1>2, <2>1 DEF LinesFit, BodiesType
<1>6. TailsShown(bodies', scrollbacks')
  <2>1. \A x \in DOMAIN bodies : x # id => ShowsTail(bodies'[x], scrollbacks'[x])
    BY <1>2, <1>4 DEF LinesFit, TailsShown, BodiesType
  <2>2. id \in DOMAIN bodies => ShowsTail(bodies'[id], scrollbacks'[id])
    BY <1>2, <1>4, TailOfNone
  <2>. QED
    BY <1>2, <2>1, <2>2 DEF TailsShown
<1>7. Marked(bodies', query')
  BY <1>1, <1>2 DEF LinesFit, Marked
<1>8. results' \in Seq(Result) /\ Len(results') = Len(results)
      /\ \A k \in 1 .. Len(results) : results'[k] = IF results[k].id = id THEN Gone ELSE results[k]
  <2>1. PICK rs \in Seq(Result) : rs = results
    BY DEF LinesFit
  <2>2. Gone \in Result
    BY DEF Gone, Result
  <2>3. results' = [k \in 1 .. Len(rs) |-> IF rs[k].id = id THEN Gone ELSE rs[k]]
    BY <1>1, <2>1
  <2>4. \A k \in 1 .. Len(rs) : (IF rs[k].id = id THEN Gone ELSE rs[k]) \in Result
    BY <2>2
  <2>. QED
    BY <2>1, <2>3, <2>4
<1>9. /\ results \in Seq(Result) /\ RefersTo(results, bodies) /\ CurrentAt(bodies, results, searchIdx)
      /\ searchIdx \in Nat /\ (results # <<>> => searchIdx < Len(results))
  BY DEF LinesFit
<1>10. RefersTo(results', bodies')
  <2> SUFFICES ASSUME NEW k \in DOMAIN results'
               PROVE  \/ results'[k] = Gone
                      \/ results'[k].id \in DOMAIN bodies' /\ results'[k].at \in DOMAIN bodies'[results'[k].id]
    BY DEF RefersTo
  <2>1. k \in 1 .. Len(results) /\ k \in DOMAIN results
    BY <1>8, <1>9
  <2>2. CASE results[k].id = id
    BY <1>8, <2>1, <2>2
  <2>3. CASE results[k].id # id
    BY <1>2, <1>8, <1>9, <2>1, <2>3 DEF RefersTo
  <2>. QED
    BY <2>2, <2>3
<1>11. results' # <<>> => searchIdx' < Len(results')
  BY <1>1, <1>8, <1>9
<1>12. CurrentAt(bodies', results', searchIdx')
  <2> SUFFICES ASSUME NEW x \in DOMAIN bodies', NEW i \in DOMAIN bodies'[x], bodies'[x][i].current
               PROVE  results' # <<>> /\ results'[searchIdx + 1] = [id |-> x, at |-> i]
    BY <1>1 DEF CurrentAt
  <2>1. x # id
    BY <1>2
  <2>2. results # <<>> /\ results[searchIdx + 1] = [id |-> x, at |-> i]
    BY <1>2, <1>9, <2>1 DEF CurrentAt
  <2>3. searchIdx + 1 \in 1 .. Len(results) /\ Len(results) # 0
    BY <1>9, <2>2
  <2>4. results[searchIdx + 1].id = x
    BY <2>2
  <2>. QED
    BY <1>8, <2>1, <2>2, <2>3, <2>4
<1>. QED
  BY <1>1, <1>3, <1>5, <1>6, <1>7, <1>8, <1>9, <1>10, <1>11, <1>12 DEF LinesFit

-----------------------------------------------------------------------------
(* The steps of the search.                                                 *)

\* The same children, with other marks: what is shown stays.
SameTexts(b, c) == /\ BodiesType(c) /\ DOMAIN c = DOMAIN b
                   /\ \A id \in DOMAIN b : /\ Len(c[id]) = Len(b[id])
                                           /\ \A i \in DOMAIN b[id] : c[id][i].text = b[id][i].text

LEMMA TextsShown ==
    ASSUME NEW b, BodiesType(b), NEW c, SameTexts(b, c), NEW sb, TailsShown(b, sb)
    PROVE  TailsShown(c, sb) /\ \A id \in DOMAIN b : DOMAIN c[id] = DOMAIN b[id]
<1>1. ASSUME NEW id \in DOMAIN b
      PROVE  ShowsTail(c[id], sb[id]) /\ DOMAIN c[id] = DOMAIN b[id]
  <2>1. PICK body \in Seq(LineSet) : body = b[id]
    BY DEF BodiesType
  <2>2. PICK other \in Seq(LineSet) : other = c[id]
    BY DEF SameTexts, BodiesType
  <2>3. Len(other) = Len(body) /\ \A i \in DOMAIN body : other[i].text = body[i].text
    BY <2>1, <2>2 DEF SameTexts
  <2>4. ShowsTail(body, sb[id])
    BY <2>1 DEF TailsShown
  <2>. QED
    BY <2>1, <2>2, <2>3, <2>4, TailOfTexts
<1>. QED
  BY <1>1 DEF TailsShown, SameTexts

\* Without any mark.
Plain(b) == [id \in DOMAIN b |-> [i \in DOMAIN b[id] |-> Line(b[id][i].text)]]

\* With the marks of the lines at.
Highlit(b, at) ==
    [id \in DOMAIN b |-> [i \in DOMAIN b[id] |->
       [Line(b[id][i].text) EXCEPT !.match = [id |-> id, at |-> i] \in at]]]

LEMMA HighlitIs ==
    ASSUME NEW b, BodiesType(b), NEW at
    PROVE  /\ SameTexts(b, Highlit(b, at))
           /\ \A id \in DOMAIN b : \A i \in DOMAIN b[id] :
                 /\ (Highlit(b, at)[id][i].match <=> [id |-> id, at |-> i] \in at)
                 /\ Highlit(b, at)[id][i].current = FALSE
<1> DEFINE c == Highlit(b, at)
<1>1. DOMAIN c = DOMAIN b /\ c = [id \in DOMAIN c |-> c[id]]
  BY DEF Highlit
<1>2. ASSUME NEW id \in DOMAIN b
      PROVE  /\ c[id] \in Seq(LineSet) /\ Len(c[id]) = Len(b[id])
             /\ \A i \in DOMAIN b[id] : /\ c[id][i].text = b[id][i].text
                                       /\ (c[id][i].match <=> [id |-> id, at |-> i] \in at)
                                       /\ c[id][i].current = FALSE
  <2>1. PICK body \in Seq(LineSet) : body = b[id]
    BY DEF BodiesType
  <2> DEFINE line(i) == [Line(body[i].text) EXCEPT !.match = [id |-> id, at |-> i] \in at]
  <2>2. c[id] = [i \in 1 .. Len(body) |-> line(i)]
    BY <2>1 DEF Highlit
  <2>3. \A i \in 1 .. Len(body) : /\ line(i) \in LineSet /\ line(i).text = body[i].text
                                 /\ (line(i).match <=> [id |-> id, at |-> i] \in at)
                                 /\ line(i).current = FALSE
    <3> SUFFICES ASSUME NEW i \in 1 .. Len(body)
                 PROVE  /\ line(i) \in LineSet /\ line(i).text = body[i].text
                        /\ (line(i).match <=> [id |-> id, at |-> i] \in at)
                        /\ line(i).current = FALSE
      OBVIOUS
    <3>1. PICK old \in LineSet : old = body[i]
      OBVIOUS
    <3>4. old.text \in Texts \cup {Image}
      BY DEF LineSet
    <3>6. CASE [id |-> id, at |-> i] \in at
      <4>1. ([id |-> id, at |-> i] \in at) = TRUE
        BY <3>6
      <4>2. line(i) = [Line(old.text) EXCEPT !.match = TRUE]
        BY <3>1, <4>1, Zenon
      <4>. HIDE DEF line
      <4>3. line(i) = [text |-> old.text, match |-> TRUE, current |-> FALSE]
        BY <4>2 DEF Line
      <4>. QED
        BY <3>1, <3>4, <3>6, <4>3 DEF LineSet
    <3>7. CASE [id |-> id, at |-> i] \notin at
      <4>1. ([id |-> id, at |-> i] \in at) = FALSE
        BY <3>7
      <4>2. line(i) = [Line(old.text) EXCEPT !.match = FALSE]
        BY <3>1, <4>1, Zenon
      <4>. HIDE DEF line
      <4>3. line(i) = [text |-> old.text, match |-> FALSE, current |-> FALSE]
        BY <4>2 DEF Line
      <4>. QED
        BY <3>1, <3>4, <3>7, <4>3 DEF LineSet
    <3>. HIDE DEF line
    <3>. QED
      BY <3>6, <3>7
  <2>. HIDE DEF line, c
  <2>4. \A i \in 1 .. Len(body) : c[id][i] = line(i)
    BY <2>2
  <2>5. c[id] \in Seq(LineSet) /\ Len(c[id]) = Len(body)
    <3>typed. \A i \in 1 .. Len(body) : line(i) \in LineSet
      BY <2>3
    <3>1. c[id] \in [1 .. Len(body) -> LineSet] /\ Len(body) \in Nat
      BY <2>2, <3>typed
    <3>2. PICK new \in [1 .. Len(body) -> LineSet] : new = c[id]
      BY <3>1
    <3>3. new \in Seq(LineSet) /\ Len(new) = Len(body)
      BY <3>1
    <3>. QED
      BY <3>2, <3>3
  <2>. QED
    BY <2>1, <2>3, <2>4, <2>5
<1>. HIDE DEF c
<1>3. SameTexts(b, c)
  BY <1>1, <1>2 DEF SameTexts, BodiesType
<1>. QED
  BY <1>2, <1>3 DEF c

LEMMA PlainIs ==
    ASSUME NEW b, BodiesType(b)
    PROVE  /\ SameTexts(b, Plain(b))
           /\ \A id \in DOMAIN b : \A i \in DOMAIN b[id] :
                 ~Plain(b)[id][i].match /\ ~Plain(b)[id][i].current
<1> DEFINE c == Plain(b)
<1>1. DOMAIN c = DOMAIN b /\ c = [id \in DOMAIN c |-> c[id]]
  BY DEF Plain
<1>2. ASSUME NEW id \in DOMAIN b
      PROVE  /\ c[id] \in Seq(LineSet) /\ Len(c[id]) = Len(b[id])
             /\ \A i \in DOMAIN b[id] : /\ c[id][i].text = b[id][i].text
                                       /\ ~c[id][i].match /\ ~c[id][i].current
  <2>1. PICK body \in Seq(LineSet) : body = b[id]
    BY DEF BodiesType
  <2> DEFINE line(i) == Line(body[i].text)
  <2>2. c[id] = [i \in 1 .. Len(body) |-> line(i)]
    BY <2>1 DEF Plain
  <2>3. \A i \in 1 .. Len(body) : /\ line(i) \in LineSet /\ line(i).text = body[i].text
                                 /\ ~line(i).match /\ ~line(i).current
    <3> SUFFICES ASSUME NEW i \in 1 .. Len(body)
                 PROVE  /\ line(i) \in LineSet /\ line(i).text = body[i].text
                        /\ ~line(i).match /\ ~line(i).current
      OBVIOUS
    <3>1. PICK old \in LineSet : old = body[i]
      OBVIOUS
    <3>2. line(i) = [text |-> old.text, match |-> FALSE, current |-> FALSE] /\ old.text \in Texts \cup {Image}
      BY <3>1 DEF Line, LineSet
    <3>. HIDE DEF line
    <3>. QED
      BY <3>1, <3>2 DEF LineSet
  <2>. HIDE DEF line, c
  <2>4. \A i \in 1 .. Len(body) : c[id][i] = line(i)
    BY <2>2
  <2>5. c[id] \in Seq(LineSet) /\ Len(c[id]) = Len(body)
    <3>typed. \A i \in 1 .. Len(body) : line(i) \in LineSet
      BY <2>3
    <3>1. c[id] \in [1 .. Len(body) -> LineSet] /\ Len(body) \in Nat
      BY <2>2, <3>typed
    <3>2. PICK new \in [1 .. Len(body) -> LineSet] : new = c[id]
      BY <3>1
    <3>3. new \in Seq(LineSet) /\ Len(new) = Len(body)
      BY <3>1
    <3>. QED
      BY <3>2, <3>3
  <2>. QED
    BY <2>1, <2>3, <2>4, <2>5
<1>. HIDE DEF c
<1>3. SameTexts(b, c)
  BY <1>1, <1>2 DEF SameTexts, BodiesType
<1>. QED
  BY <1>2, <1>3 DEF c

\* One child becomes the current one, or is it no more.
LEMMA CurrentIs ==
    ASSUME NEW b, BodiesType(b), NEW r \in Result, NEW flag \in BOOLEAN,
           r = Gone \/ (r.id \in DOMAIN b /\ r.at \in DOMAIN b[r.id])
    PROVE  /\ SameTexts(b, Current(b, r, flag))
           /\ \A id \in DOMAIN b : \A i \in DOMAIN b[id] :
                 /\ Current(b, r, flag)[id][i].match = b[id][i].match
                 /\ Current(b, r, flag)[id][i].current =
                       IF r # Gone /\ r = [id |-> id, at |-> i] THEN flag ELSE b[id][i].current
<1> DEFINE c == Current(b, r, flag)
<1>1. CASE r = Gone
  <2>1. c = b
    BY <1>1 DEF Current
  <2>. QED
    BY <1>1, <2>1 DEF SameTexts
<1>2. CASE r # Gone
  <2>1. PICK x \in DOMAIN b : x = r.id
    BY <1>2
  <2>n. PICK n : n = r.at
    OBVIOUS
  <2>r. n \in DOMAIN b[x] /\ \A id, i : r = [id |-> id, at |-> i] <=> (id = x /\ i = n)
    BY <1>2, <2>1, <2>n DEF Result
  <2>2. PICK body \in Seq(LineSet) : body = b[x] /\ n \in 1 .. Len(body)
    BY <2>r DEF BodiesType
  <2>3. PICK line \in LineSet : /\ line = [body[n] EXCEPT !.current = flag]
                               /\ line.text = body[n].text /\ line.match = body[n].match
                               /\ line.current = flag
    <3>1. body[n] \in LineSet
      BY <2>2
    <3>2. PICK was \in LineSet : was = body[n]
      BY <3>1
    <3>3. /\ [was EXCEPT !.current = flag] \in LineSet
          /\ [was EXCEPT !.current = flag].text = was.text
          /\ [was EXCEPT !.current = flag].match = was.match
          /\ [was EXCEPT !.current = flag].current = flag
      BY DEF LineSet
    <3>. QED
      BY <3>2, <3>3
  <2>4. PICK now : now = [body EXCEPT ![n] = line]
    OBVIOUS
  <2>5. /\ now \in Seq(LineSet) /\ Len(now) = Len(body) /\ now[n] = line
        /\ \A i \in 1 .. Len(body) : i # n => now[i] = body[i]
    BY <2>2, <2>4
  <2>6. c = [b EXCEPT ![x] = now]
    BY <1>2, <2>1, <2>n, <2>2, <2>3, <2>4 DEF Current
  <2>. HIDE DEF c
  <2>7. /\ DOMAIN c = DOMAIN b /\ c = [id \in DOMAIN c |-> c[id]] /\ c[x] = now
        /\ \A id \in DOMAIN b : id # x => c[id] = b[id]
    BY <2>1, <2>6
  <2>8. BodiesType(c)
    BY <2>5, <2>7 DEF BodiesType
  <2>9. \A i \in DOMAIN body : /\ now[i].text = body[i].text /\ now[i].match = body[i].match
                              /\ now[i].current = IF i = n THEN flag ELSE body[i].current
    <3>1. DOMAIN body = 1 .. Len(body)
      OBVIOUS
    <3>2. ASSUME NEW i \in 1 .. Len(body)
          PROVE  /\ now[i].text = body[i].text /\ now[i].match = body[i].match
                 /\ now[i].current = IF i = n THEN flag ELSE body[i].current
      <4>1. CASE i = n
        BY <2>3, <2>5, <4>1
      <4>2. CASE i # n
        BY <2>5, <4>2
      <4>. QED
        BY <4>1, <4>2
    <3>. QED
      BY <3>1, <3>2
  <2>10. SameTexts(b, c)
    BY <2>2, <2>5, <2>7, <2>8, <2>9 DEF SameTexts
  <2>11. \A id \in DOMAIN b : \A i \in DOMAIN b[id] :
            /\ c[id][i].match = b[id][i].match
            /\ c[id][i].current = IF id = x /\ i = n THEN flag ELSE b[id][i].current
    BY <2>2, <2>7, <2>9
  <2>. QED
    BY <1>2, <2>r, <2>10, <2>11 DEF c
<1>. QED
  BY <1>1, <1>2

\* What is found are children of the bodies, finitely many.
LEMMA FoundIs ==
    ASSUME LinesFit, NEW q, NEW panes \in SUBSET DOMAIN bodies
    PROVE  /\ IsFiniteSet(Found(q, panes))
           /\ \A r \in Found(q, panes) :
                 /\ r \in Result /\ r # Gone
                 /\ r.id \in DOMAIN bodies /\ r.at \in DOMAIN bodies[r.id]
           /\ \A id, i : [id |-> id, at |-> i] \in Found(q, panes) =>
                 <<bodies[id][i].text, q>> \in Finds
<1>1. CASE q = NoQuery
  <2>1. Found(q, panes) = {}
    BY <1>1 DEF Found
  <2>. QED
    BY <2>1, FS_EmptySet
<1>2. CASE q # NoQuery
  <2> DEFINE hits(id) == {j \in DOMAIN bodies[id] : <<bodies[id][j].text, q>> \in Finds}
             in(id) == {[id |-> id, at |-> i] : i \in hits(id)}
             each == {in(id) : id \in panes}
  <2>1. Found(q, panes) = UNION each
    BY <1>2 DEF Found
  <2>2. ASSUME NEW id \in panes PROVE IsFiniteSet(in(id))
    <3>1. PICK body \in Seq(LineSet) : body = bodies[id]
      BY DEF LinesFit, BodiesType
    <3>2. hits(id) \in SUBSET (1 .. Len(body)) /\ Len(body) \in Int
      BY <3>1
    <3>3. IsFiniteSet(hits(id))
      <4>. HIDE DEF hits
      <4>. QED
        BY <3>2, FS_Interval, FS_Subset
    <3> DEFINE f == [i \in hits(id) |-> [id |-> id, at |-> i]]
    <3>4. f \in Surjection(hits(id), in(id))
      BY DEF Surjection
    <3>. HIDE DEF hits, in, f
    <3>. QED
      BY <3>3, <3>4, FS_Surjection
  <2>3. IsFiniteSet(panes)
    BY StreamsAssumption, FS_Subset DEF LinesFit, BodiesType
  <2>4. IsFiniteSet(each)
    <3> DEFINE g == [id \in panes |-> in(id)]
    <3>1. g \in Surjection(panes, each)
      BY DEF Surjection
    <3>. HIDE DEF in, g, each
    <3>. QED
      BY <2>3, <3>1, FS_Surjection
  <2>5. IsFiniteSet(UNION each)
    <3>1. \A s \in each : IsFiniteSet(s)
      BY <2>2
    <3>. HIDE DEF each
    <3>. QED
      BY <2>4, <3>1, FS_UNION
  <2>6. ASSUME NEW r \in UNION each
        PROVE  /\ r \in Result /\ r # Gone
               /\ r.id \in DOMAIN bodies /\ r.at \in DOMAIN bodies[r.id]
               /\ <<bodies[r.id][r.at].text, q>> \in Finds
    <3>1. PICK id \in panes : r \in in(id)
      OBVIOUS
    <3>2. PICK i \in hits(id) : r = [id |-> id, at |-> i]
      BY <3>1
    <3>3. PICK body \in Seq(LineSet) : body = bodies[id]
      BY DEF LinesFit, BodiesType
    <3>4. i \in DOMAIN bodies[id] /\ i \in 1 .. Len(body) /\ <<bodies[id][i].text, q>> \in Finds
      BY <3>2, <3>3
    <3>5. id \in Streams /\ r.id = id /\ r.at = i /\ i \in Nat /\ i # 0
      BY <3>2, <3>4 DEF LinesFit, BodiesType
    <3>. HIDE DEF hits, in, each
    <3>. QED
      BY <3>2, <3>4, <3>5 DEF Result, Gone
  <2>. HIDE DEF each
  <2>7. \A id, i : [id |-> id, at |-> i] \in UNION each => <<bodies[id][i].text, q>> \in Finds
    <3> SUFFICES ASSUME NEW id, NEW i, [id |-> id, at |-> i] \in UNION each
                 PROVE  <<bodies[id][i].text, q>> \in Finds
      OBVIOUS
    <3>1. PICK r \in UNION each : r = [id |-> id, at |-> i]
      OBVIOUS
    <3>2. r.id = id /\ r.at = i
      BY <3>1
    <3>. QED
      BY <2>6, <3>2
  <2>. QED
    BY <2>1, <2>5, <2>6, <2>7
<1>. QED
  BY <1>1, <1>2

LEMMA RunSearchFits ==
    ASSUME LinesFit, NEW q, NEW panes \in SUBSET DOMAIN bodies, RunSearch(q, panes)
    PROVE  LinesFit'
<1>1. PICK found : found = Found(q, panes)
  OBVIOUS
<1>2. PICK marked : marked = Highlit(bodies, found)
  OBVIOUS
<1>3. PICK order \in SetToSeqs(found) :
         /\ results' = order
         /\ bodies' = IF order = <<>> THEN marked ELSE Current(marked, order[1], TRUE)
  BY <1>1, <1>2 DEF RunSearch, Highlit
<1>4. /\ query' = q /\ scrollbacks' = scrollbacks /\ reconnectQueue' = reconnectQueue
      /\ searchIdx' = IF q = NoQuery THEN searchIdx ELSE 0
  BY DEF RunSearch
<1>5. /\ Kept(scrollbacks) /\ BodiesType(bodies) /\ TailsShown(bodies, scrollbacks)
      /\ reconnectQueue \in Seq(Items) /\ searchIdx \in Nat
  BY DEF LinesFit
<1>6. /\ IsFiniteSet(found)
      /\ \A r \in found : /\ r \in Result /\ r # Gone
                          /\ r.id \in DOMAIN bodies /\ r.at \in DOMAIN bodies[r.id]
      /\ \A id, i : [id |-> id, at |-> i] \in found => <<bodies[id][i].text, q>> \in Finds
  BY <1>1, FoundIs
<1>7. PICK n \in Nat : n = Cardinality(found)
  BY <1>6, FS_CardinalityType
<1>8. order \in [1 .. n -> found]
  BY <1>7 DEF SetToSeqs
<1>9. order \in Seq(Result) /\ Len(order) = n /\ \A k \in DOMAIN order : order[k] \in found
  <2>1. order \in [1 .. n -> Result]
    BY <1>6, <1>8
  <2>. QED
    BY <1>8, <2>1
<1>10. /\ SameTexts(bodies, marked)
       /\ \A id \in DOMAIN bodies : \A i \in DOMAIN bodies[id] :
             /\ marked[id][i].match <=> [id |-> id, at |-> i] \in found
             /\ marked[id][i].current = FALSE
  BY <1>2, <1>5, HighlitIs
<1>11. /\ TailsShown(marked, scrollbacks) /\ BodiesType(marked) /\ DOMAIN marked = DOMAIN bodies
       /\ \A id \in DOMAIN bodies : DOMAIN marked[id] = DOMAIN bodies[id]
  <2>1. PICK b : b = bodies
    OBVIOUS
  <2>2. PICK sb : sb = scrollbacks
    OBVIOUS
  <2>. QED
    BY <1>5, <1>10, <2>1, <2>2, TextsShown DEF SameTexts
<1>12. PICK now : now = bodies'
  OBVIOUS
<1>13. /\ BodiesType(now) /\ TailsShown(now, scrollbacks) /\ DOMAIN now = DOMAIN bodies
       /\ \A id \in DOMAIN bodies : DOMAIN now[id] = DOMAIN bodies[id]
       /\ \A id \in DOMAIN bodies : \A i \in DOMAIN bodies[id] :
             /\ now[id][i].text = bodies[id][i].text
             /\ now[id][i].match = marked[id][i].match
             /\ now[id][i].current => order # <<>> /\ order[1] = [id |-> id, at |-> i]
  <2>1. CASE order = <<>>
    <3>1. now = marked
      BY <1>3, <1>12, <2>1
    <3>. QED
      BY <1>10, <1>11, <3>1 DEF SameTexts
  <2>2. CASE order # <<>>
    <3>1. order[1] \in found
      BY <1>9, <2>2
    <3>2. PICK r \in Result : /\ r = order[1] /\ r # Gone
                             /\ r.id \in DOMAIN marked /\ r.at \in DOMAIN marked[r.id]
      BY <1>6, <1>11, <3>1
    <3>on. PICK on \in BOOLEAN : on = TRUE
      OBVIOUS
    <3>3. now = Current(marked, r, on)
      BY <1>3, <1>12, <2>2, <3>2, <3>on
    <3>4. /\ SameTexts(marked, now)
          /\ \A id \in DOMAIN marked : \A i \in DOMAIN marked[id] :
                /\ now[id][i].match = marked[id][i].match
                /\ now[id][i].current = IF r # Gone /\ r = [id |-> id, at |-> i]
                                        THEN on ELSE marked[id][i].current
      BY <1>11, <3>2, <3>3, CurrentIs
    <3>5. PICK sb : sb = scrollbacks
      OBVIOUS
    <3>6. TailsShown(now, sb) /\ \A id \in DOMAIN marked : DOMAIN now[id] = DOMAIN marked[id]
      BY <1>11, <3>4, <3>5, TextsShown
    <3>7. \A id \in DOMAIN bodies : \A i \in DOMAIN bodies[id] :
             now[id][i].text = bodies[id][i].text
      BY <1>10, <1>11, <3>4 DEF SameTexts
    <3>8. \A id \in DOMAIN bodies : \A i \in DOMAIN bodies[id] :
             /\ now[id][i].match = marked[id][i].match
             /\ now[id][i].current => r = [id |-> id, at |-> i]
      <4> SUFFICES ASSUME NEW id \in DOMAIN bodies, NEW i \in DOMAIN bodies[id]
                   PROVE  /\ now[id][i].match = marked[id][i].match
                          /\ now[id][i].current => r = [id |-> id, at |-> i]
        OBVIOUS
      <4>1. marked[id][i].current = FALSE
        BY <1>10
      <4>2. id \in DOMAIN marked /\ i \in DOMAIN marked[id]
        BY <1>11
      <4>3. /\ now[id][i].match = marked[id][i].match
            /\ now[id][i].current = IF r # Gone /\ r = [id |-> id, at |-> i] THEN on ELSE FALSE
        BY <3>4, <4>1, <4>2
      <4>4. ASSUME r # [id |-> id, at |-> i] PROVE ~now[id][i].current
        BY <4>3, <4>4
      <4>. QED
        BY <4>3, <4>4
    <3>9. BodiesType(now) /\ DOMAIN now = DOMAIN bodies
      BY <1>11, <3>4 DEF SameTexts
    <3>. QED
      BY <1>11, <2>2, <3>2, <3>5, <3>6, <3>7, <3>8, <3>9
  <2>. QED
    BY <2>1, <2>2
<1>14. RefersTo(order, now)
  BY <1>6, <1>9, <1>13 DEF RefersTo
<1>15. Marked(now, q)
  <2> SUFFICES ASSUME NEW id \in DOMAIN now, NEW i \in DOMAIN now[id], now[id][i].match
               PROVE  <<now[id][i].text, q>> \in Finds
    BY DEF Marked
  <2>1. id \in DOMAIN bodies /\ i \in DOMAIN bodies[id]
    BY <1>13
  <2>2. marked[id][i].match /\ now[id][i].text = bodies[id][i].text
    BY <1>13, <2>1
  <2>3. [id |-> id, at |-> i] \in found
    BY <1>10, <2>1, <2>2
  <2>. QED
    BY <1>6, <2>2, <2>3
<1>16. order # <<>> => searchIdx' = 0 /\ 0 < Len(order)
  <2>1. CASE q = NoQuery
    <3>1. found = {}
      BY <1>1, <2>1 DEF Found
    <3>2. n = 0
      BY <1>7, <3>1, FS_EmptySet
    <3>. QED
      BY <1>9, <3>2
  <2>2. CASE q # NoQuery
    BY <1>4, <1>9, <2>2
  <2>. QED
    BY <2>1, <2>2
<1>17. CurrentAt(now, order, searchIdx')
  <2> SUFFICES ASSUME NEW id \in DOMAIN now, NEW i \in DOMAIN now[id], now[id][i].current
               PROVE  order # <<>> /\ order[searchIdx' + 1] = [id |-> id, at |-> i]
    BY DEF CurrentAt
  <2>1. order # <<>> /\ order[1] = [id |-> id, at |-> i]
    BY <1>13
  <2>2. searchIdx' + 1 = 1
    BY <1>16, <2>1
  <2>. QED
    BY <2>1, <2>2
<1>18. searchIdx' \in Nat
  BY <1>4, <1>5
<1>. QED
  BY <1>3, <1>4, <1>5, <1>9, <1>12, <1>13, <1>14, <1>15, <1>16, <1>17, <1>18 DEF LinesFit

LEMMA SearchClosedFits ==
    ASSUME LinesFit, SearchClosed
    PROVE  LinesFit'
<1>1. /\ bodies' = Plain(bodies) /\ results' = <<>>
      /\ scrollbacks' = scrollbacks /\ reconnectQueue' = reconnectQueue
      /\ query' = query /\ searchIdx' = searchIdx
  BY DEF SearchClosed, Unmarked, Plain
<1>2. PICK b, sb : b = bodies /\ sb = scrollbacks
  OBVIOUS
<1>3. BodiesType(b) /\ TailsShown(b, sb)
  BY <1>2 DEF LinesFit
<1>4. PICK c : c = Plain(b)
  OBVIOUS
<1>5. /\ SameTexts(b, c)
      /\ \A id \in DOMAIN b : \A i \in DOMAIN b[id] : ~c[id][i].match /\ ~c[id][i].current
  BY <1>3, <1>4, PlainIs
<1>6. TailsShown(c, sb) /\ \A id \in DOMAIN b : DOMAIN c[id] = DOMAIN b[id]
  BY <1>3, <1>5, TextsShown
<1>7. BodiesType(c) /\ DOMAIN c = DOMAIN b
  BY <1>5 DEF SameTexts
<1>8. bodies' = c
  BY <1>1, <1>2, <1>4
<1>9. Marked(bodies', query') /\ CurrentAt(bodies', results', searchIdx')
  BY <1>5, <1>6, <1>7, <1>8 DEF Marked, CurrentAt
<1>10. results' \in Seq(Result) /\ RefersTo(results', bodies')
  BY <1>1 DEF RefersTo
<1>. QED
  BY <1>1, <1>2, <1>6, <1>7, <1>8, <1>9, <1>10 DEF LinesFit

LEMMA NavigateFits ==
    ASSUME LinesFit, NEW delta \in {-1, 1}, Navigate(delta)
    PROVE  LinesFit'
<1>1. /\ results # <<>> /\ searchIdx' = (searchIdx + delta) % Len(results)
      /\ bodies' = Current(Current(bodies, results[searchIdx + 1], FALSE),
                           results[searchIdx' + 1], TRUE)
      /\ scrollbacks' = scrollbacks /\ reconnectQueue' = reconnectQueue
      /\ query' = query /\ results' = results
  BY DEF Navigate
<1>rs. PICK rs \in Seq(Result) : rs = results
  BY DEF LinesFit
<1>2. PICK b, sb : b = bodies /\ sb = scrollbacks
  OBVIOUS
<1>3. /\ BodiesType(b) /\ TailsShown(b, sb) /\ Marked(b, query) /\ RefersTo(rs, b)
      /\ CurrentAt(b, rs, searchIdx)
  BY <1>rs, <1>2 DEF LinesFit
<1>4. PICK n \in Nat \ {0} : n = Len(rs)
  BY <1>1, <1>rs, <1>2
<1>5. PICK x \in 0 .. n - 1 : x = searchIdx
  BY <1>1, <1>rs, <1>2, <1>4 DEF LinesFit
<1>6. PICK y \in 0 .. n - 1 : y = searchIdx'
  <2>1. (x + delta) % n \in 0 .. n - 1
    <3>1. x + delta \in Int
      OBVIOUS
    <3>. QED
      BY <3>1
  <2>. QED
    BY <1>1, <1>rs, <1>2, <1>4, <1>5, <2>1
<1>7. PICK from \in Result, to \in Result : from = rs[x + 1] /\ to = rs[y + 1]
  <2>1. x + 1 \in 1 .. n /\ y + 1 \in 1 .. n
    OBVIOUS
  <2>. QED
    BY <1>4, <2>1
<1>8. /\ from = Gone \/ (from.id \in DOMAIN b /\ from.at \in DOMAIN b[from.id])
      /\ to = Gone \/ (to.id \in DOMAIN b /\ to.at \in DOMAIN b[to.id])
  <2>1. x + 1 \in DOMAIN rs /\ y + 1 \in DOMAIN rs
    BY <1>4
  <2>. QED
    BY <1>3, <1>7, <2>1 DEF RefersTo
<1>marks. PICK off \in BOOLEAN, on \in BOOLEAN : off = FALSE /\ on = TRUE
  OBVIOUS
<1>9. PICK c : c = Current(b, from, off)
  OBVIOUS
<1>10. PICK d : d = Current(c, to, on)
  OBVIOUS
<1>11. bodies' = d
  BY <1>1, <1>rs, <1>2, <1>5, <1>6, <1>7, <1>9, <1>10, <1>marks
<1>12. /\ SameTexts(b, c)
       /\ \A id \in DOMAIN b : \A i \in DOMAIN b[id] :
             /\ c[id][i].match = b[id][i].match
             /\ c[id][i].current = IF from # Gone /\ from = [id |-> id, at |-> i]
                                   THEN off ELSE b[id][i].current
  BY <1>3, <1>8, <1>9, CurrentIs
<1>13. /\ TailsShown(c, sb) /\ BodiesType(c) /\ DOMAIN c = DOMAIN b
       /\ \A id \in DOMAIN b : DOMAIN c[id] = DOMAIN b[id]
  BY <1>3, <1>12, TextsShown DEF SameTexts
<1>14. \A id \in DOMAIN b : \A i \in DOMAIN b[id] : ~c[id][i].current
  <2> SUFFICES ASSUME NEW id \in DOMAIN b, NEW i \in DOMAIN b[id], b[id][i].current
               PROVE  ~c[id][i].current
    BY <1>12, <1>marks
  <2>1. from = [id |-> id, at |-> i]
    BY <1>3, <1>5, <1>7 DEF CurrentAt
  <2>2. i # 0
    BY <1>3 DEF BodiesType
  <2>3. from # Gone
    BY <2>1, <2>2 DEF Gone
  <2>. QED
    BY <1>12, <1>marks, <2>1, <2>3
<1>15. to = Gone \/ (to.id \in DOMAIN c /\ to.at \in DOMAIN c[to.id])
  BY <1>8, <1>13
<1>16. /\ SameTexts(c, d)
       /\ \A id \in DOMAIN c : \A i \in DOMAIN c[id] :
             /\ d[id][i].match = c[id][i].match
             /\ d[id][i].current = IF to # Gone /\ to = [id |-> id, at |-> i]
                                   THEN on ELSE c[id][i].current
  BY <1>10, <1>13, <1>15, CurrentIs
<1>17. /\ TailsShown(d, sb) /\ BodiesType(d) /\ DOMAIN d = DOMAIN b
       /\ \A id \in DOMAIN b : DOMAIN d[id] = DOMAIN b[id]
  BY <1>13, <1>16, TextsShown DEF SameTexts
<1>18. Marked(d, query)
  <2>1. \A id \in DOMAIN b : \A i \in DOMAIN b[id] :
           d[id][i].text = b[id][i].text /\ d[id][i].match = b[id][i].match
    BY <1>12, <1>13, <1>16 DEF SameTexts
  <2>. QED
    BY <1>3, <1>17, <2>1 DEF Marked
<1>19. CurrentAt(d, rs, y)
  BY <1>1, <1>rs, <1>2, <1>7, <1>13, <1>14, <1>16, <1>17 DEF CurrentAt
<1>20. RefersTo(rs, d)
  BY <1>3, <1>17 DEF RefersTo
<1>21. y \in Nat /\ y < Len(rs)
  BY <1>4
<1>. QED
  BY <1>1, <1>rs, <1>2, <1>6, <1>11, <1>17, <1>18, <1>19, <1>20, <1>21 DEF LinesFit

-----------------------------------------------------------------------------
(* The theorems.                                                            *)

LEMMA LinesStart == LinesInit => LinesFit
<1> SUFFICES ASSUME LinesInit PROVE LinesFit
  OBVIOUS
<1>1. /\ scrollbacks = [id \in Streams |-> <<>>] /\ bodies = [id \in {} |-> <<>>]
      /\ reconnectQueue = <<>> /\ results = <<>> /\ searchIdx = 0
  BY DEF LinesInit
<1>2. Kept(scrollbacks)
  <2>1. MaxBodyLines \in Nat
    BY LimitsAssumption
  <2>. QED
    BY <1>1, <2>1 DEF Kept
<1>3. /\ BodiesType(bodies) /\ TailsShown(bodies, scrollbacks) /\ Marked(bodies, query)
      /\ CurrentAt(bodies, results, searchIdx) /\ RefersTo(results, bodies)
  BY <1>1 DEF BodiesType, TailsShown, Marked, CurrentAt, RefersTo
<1>. QED
  BY <1>1, <1>2, <1>3 DEF LinesFit

LEMMA LinesStep == LinesFit /\ [LinesNext]_linevars => LinesFit'
<1> SUFFICES ASSUME LinesFit, [LinesNext]_linevars PROVE LinesFit'
  OBVIOUS
<1>1. ASSUME NEW id \in Streams, NEW t \in Texts, Arrives([id |-> id, line |-> t])
      PROVE  LinesFit'
  <2>1. [id |-> id, line |-> t] \in Items
    BY DEF Items
  <2>. QED
    BY <1>1, <2>1, ArrivesFits
<1>2. CASE Reconnect
  BY <1>2, ReconnectFits
<1>3. CASE Socket
  BY <1>3 DEF Socket, page, search, LinesFit
<1>4. ASSUME NEW id \in Streams, RenderImage(id) \/ ScrollClear(id)
      PROVE  LinesFit'
  BY <1>4, BlockFits, ClearFits
<1>5. ASSUME NEW panes \in SUBSET Streams, RenderLayout(panes) PROVE LinesFit'
  BY <1>5, LayoutFits
<1>6. CASE SearchOpened
  BY <1>6 DEF SearchOpened, page, LinesFit
<1>7. CASE SearchClosed
  BY <1>7, SearchClosedFits
<1>8. ASSUME NEW q, NEW panes \in {DOMAIN bodies} \cup {{id} : id \in DOMAIN bodies}, RunSearch(q, panes)
      PROVE  LinesFit'
  <2>1. panes \in SUBSET DOMAIN bodies
    OBVIOUS
  <2>. QED
    BY <1>8, <2>1, RunSearchFits
<1>9. ASSUME NEW delta \in {-1, 1}, Navigate(delta) PROVE LinesFit'
  BY <1>9, NavigateFits
<1>10. CASE UNCHANGED linevars
  BY <1>10 DEF linevars, page, search, LinesFit
<1>. QED
  BY <1>1, <1>2, <1>3, <1>4, <1>5, <1>6, <1>7, <1>8, <1>9, <1>10 DEF LinesNext

LEMMA LinesAlwaysFit == LinesSpec => []LinesFit
BY LinesStart, LinesStep, PTL DEF LinesSpec

\* What a pane shows is the end of what the client keeps of it, for every
\* number of panes, length of the page and of the queue (appendLine,
\* buildPane, renderImage, scroll.clear).
THEOREM ShowsWhatIsKept == LinesSpec => []BodyIsTail
<1>1. LinesFit => BodyIsTail
  BY DEF LinesFit, TailsShown, BodyIsTail
<1>. QED
  BY <1>1, LinesAlwaysFit, PTL

\* The marks fit the query and one line at most is the current match, whatever
\* goes off the top between a search and the next step in it (runSearch,
\* navigateSearch, clearSearchHighlights, appendLine).
THEOREM SearchMarksTrue == LinesSpec => []MarksFitQuery
<1>1. LinesFit => MarksFitQuery
  <2> SUFFICES ASSUME LinesFit PROVE MarksFitQuery
    OBVIOUS
  <2>1. ASSUME NEW id \in DOMAIN bodies, NEW other \in DOMAIN bodies,
               NEW i \in DOMAIN bodies[id], NEW j \in DOMAIN bodies[other],
               bodies[id][i].current, bodies[other][j].current
        PROVE  id = other /\ i = j
    <3>1. [id |-> id, at |-> i] = [id |-> other, at |-> j]
      BY <2>1 DEF LinesFit, CurrentAt
    <3>2. PICK r : r = [id |-> id, at |-> i] /\ r = [id |-> other, at |-> j]
      BY <3>1
    <3>3. r.id = id /\ r.at = i /\ r.id = other /\ r.at = j
      BY <3>2
    <3>. QED
      BY <3>3
  <2>2. Marked(bodies, query)
    BY DEF LinesFit
  <2>. QED
    BY <2>1, <2>2 DEF MarksFitQuery, Marked
<1>. QED
  BY <1>1, LinesAlwaysFit, PTL
=============================================================================
