------------------------------ MODULE Browser ------------------------------
(***************************************************************************)
(* The browser client and the session it shows.  The client holds a copy   *)
(* of the windows, taken from GET /session at startup and after some of    *)
(* its own commands, and kept up to date by what the hub broadcasts.       *)
(*                                                                         *)
(* Frames of the WebSocket arrive in order; answers to requests arrive     *)
(* when they like, before or after frames and other answers.  A handler of *)
(* the server is one step here: PaneServer takes them apart.  Somebody     *)
(* else, another browser or the command line, sends commands too.          *)
(***************************************************************************)
EXTENDS SessionManager

CONSTANTS NoID,          \* null for a target ID
          Slots,         \* requests of this client in flight at the same time
          StartWindows,  \* the windows the session starts with
          MaxCommands,   \* bound: commands given, by this user and by others
          MaxInbox       \* bound: frames in flight to the browser

ASSUME NoIDAssumption == NoID \notin TargetIDs
ASSUME SlotsAssumption == Slots # {}
ASSUME BoundsAssumption == MaxCommands \in Nat /\ MaxInbox \in Nat

VARIABLES link,          \* the WebSocket: "loading", "opening" or "open"
          inbox,         \* frames sent to it and not yet received
          calls,         \* the request in each slot, and what follows it
          view,          \* state.windows and state.activeWin
          focused,       \* state.focusedPane
          zoom,          \* state.zoom
          zoomActive,    \* is class zoom-active set on the workspace?
          commands,      \* commands given so far
          solo           \* did one user act alone, a command at a time, connected?

client == <<view, focused, zoom, zoomActive>>
wires    == <<link, inbox, calls>>
bvars  == <<mvars, wires, client, commands, solo>>

None == [at |-> "none"]

Quiet == inbox = <<>> /\ \A s \in Slots : calls[s] = None

\* One request fetches the session; the socket is opened when it is answered.
BrowserInit ==
    /\ windows = StartWindows
    /\ active = 0
    /\ layouts = [n \in {} |-> {}]
    /\ link = "loading"
    /\ inbox = <<>>
    /\ calls = [s \in Slots |-> IF s = CHOOSE x \in Slots : TRUE
                                THEN [at |-> "get", then |-> "connect"] ELSE None]
    /\ view = [windows |-> <<>>, active |-> 0]
    /\ focused = NoID
    /\ zoom = NoID
    /\ zoomActive = FALSE
    /\ commands = 0
    /\ solo = TRUE

-----------------------------------------------------------------------------
(* The handlers. *)

Command(op, x, y) == [op |-> op, x |-> x, y |-> y]

Commands == [op : {"focus", "create", "close"}, x : Names, y : {NoID}]
            \cup [op : {"rename"}, x : Names, y : Names]
            \cup [op : {"split"}, x : TargetIDs, y : TargetIDs]
            \cup [op : {"paneClose", "zoom"}, x : TargetIDs, y : {NoID}]

\* Hub.Broadcast, as far as this browser is concerned.
Cast(frame) == IF link = "open"
               THEN Len(inbox) < MaxInbox /\ inbox' = Append(inbox, frame)
               ELSE UNCHANGED inbox

LayoutUpdate == [type |-> "layout_update", snap |-> Snapshot']

\* handlePaneSplit: the new pane goes to the window of the parent.
PaneSplit(parent, id) ==
    /\ ~HasPane(id)
    /\ \E i \in DOMAIN windows, split \in Splits, ref \in PaneRefs :
          /\ \E j \in DOMAIN windows[i].panes : PaneAt(parent, i, j)
          /\ AddPane(windows[i].name, [ref |-> ref, id |-> id, split |-> split])

Accepts(cmd) ==
    CASE cmd.op = "focus"     -> HasWindow(cmd.x)
      [] cmd.op = "create"    -> cmd.x # NoName /\ ~HasWindow(cmd.x)
      [] cmd.op = "close"     -> HasWindow(cmd.x) /\ Len(windows) > 1
      [] cmd.op = "rename"    -> HasWindow(cmd.x) /\ cmd.y # NoName /\ ~HasWindow(cmd.y)
      [] cmd.op = "split"     -> HasPane(cmd.x) /\ ~HasPane(cmd.y)
      [] cmd.op \in {"paneClose", "zoom"} -> HasPane(cmd.x)

\* A split may be refused for more reasons: no room, a pipeline left behind.
Refuses(cmd) == ~Accepts(cmd) \/ cmd.op = "split"

\* What each handler does, and whether it tells the browsers.
WindowFocus(cmd) == /\ cmd.op = "focus"
                    /\ FocusWindow(cmd.x)
                    /\ Cast([type |-> "window_focus", name |-> cmd.x])
WindowChange(cmd) == /\ \/ cmd.op = "create" /\ \E ref \in WinRefs : CreateWindow(cmd.x, ref)
                        \/ cmd.op = "close" /\ CloseWindow(cmd.x)
                        \/ cmd.op = "rename" /\ RenameWindow(cmd.x, cmd.y)
                     /\ UNCHANGED inbox
PaneChange(cmd) == /\ \/ cmd.op = "split" /\ PaneSplit(cmd.x, cmd.y)
                      \/ cmd.op = "paneClose" /\ RemovePane(cmd.x)
                   /\ Cast(LayoutUpdate)
PaneZoom(cmd) == /\ cmd.op = "zoom" /\ HasPane(cmd.x)
                 /\ Cast([type |-> "pane_zoom", id |-> cmd.x])
                 /\ UNCHANGED mvars

Perform(cmd) == \/ WindowFocus(cmd)
                \/ WindowChange(cmd)
                \/ PaneChange(cmd)
                \/ PaneZoom(cmd)

\* A request of this client reaches its handler; the answer decides what the
\* client does next.
Follow(call) == CASE call.then = "nothing" -> None
                  [] call.then = "reload"  -> [at |-> "get", then |-> "nothing"]
                  [] call.then = "delete"  -> [at |-> "delete", meant |-> call.cmd.x]

Handle(s) == /\ calls[s].at = "sent"
             /\ \/ /\ Perform(calls[s].cmd)
                   /\ calls' = [calls EXCEPT ![s] = Follow(@)]
                \/ /\ Refuses(calls[s].cmd)
                   /\ calls' = [calls EXCEPT ![s] = None]
                   /\ UNCHANGED <<mvars, inbox>>
             /\ UNCHANGED <<link, client, commands, solo>>

\* handleSession.
GetSession(s) == /\ calls[s].at = "get"
                 /\ calls' = [calls EXCEPT ![s] = [at |-> "reply", then |-> @.then,
                                                   snap |-> Snapshot]]
                 /\ UNCHANGED <<mvars, link, inbox, client, commands, solo>>

\* Another client's command.
Other(cmd) == /\ commands < MaxCommands
              /\ Perform(cmd)
              /\ commands' = commands + 1
              /\ solo' = FALSE
              /\ UNCHANGED <<link, calls, client>>

-----------------------------------------------------------------------------
(* The socket. *)

Open == /\ link = "opening"
        /\ link' = "open"
        /\ UNCHANGED <<mvars, inbox, calls, client, commands, solo>>

\* The connection breaks, with what was in flight; it is made again later.
Lose == /\ link = "open"
        /\ link' = "opening"
        /\ inbox' = <<>>
        /\ solo' = (solo /\ Quiet)
        /\ UNCHANGED <<mvars, calls, client, commands>>

-----------------------------------------------------------------------------
(* The client. *)

Shown(v) == IF v.windows = <<>> THEN <<>>
            ELSE IF v.active < Len(v.windows) THEN v.windows[v.active + 1].panes
                                              ELSE v.windows[1].panes

OnScreen == {p.id : p \in ToSet(Shown(view))}

\* renderLayout.
Render(v) ==
    /\ view' = v
    /\ LET panes == Shown(v)
           there == zoom \in {p.id : p \in ToSet(panes)}
       IN  IF panes = <<>> THEN UNCHANGED <<focused, zoom, zoomActive>>
           ELSE /\ zoom' = IF there THEN zoom ELSE NoID
                /\ zoomActive' = (zoomActive \/ there)
                /\ focused' = IF focused = NoID THEN panes[1].id ELSE focused

\* reloadSession and the startup code, once the session is there; the startup
\* code goes on to connect, whether or not it could fetch the session.
Loaded(s) == IF calls[s].then = "connect" THEN link' = "opening" ELSE UNCHANGED link

Reloaded(s) == /\ calls[s].at = "reply"
               /\ Render(calls[s].snap)
               /\ Loaded(s)
               /\ calls' = [calls EXCEPT ![s] = None]
               /\ UNCHANGED <<mvars, inbox, commands, solo>>

\* A request, or its answer, is lost on the way.
CallFails(s) == /\ calls[s].at \in {"sent", "get", "delete"}
                /\ IF calls[s].at = "get" THEN Loaded(s) ELSE UNCHANGED link
                /\ calls' = [calls EXCEPT ![s] = None]
                /\ solo' = FALSE
                /\ UNCHANGED <<mvars, inbox, client, commands>>

\* fetch: a request goes out.
Send(cmd, then) == \E s \in Slots :
                      /\ calls[s] = None
                      /\ calls' = [calls EXCEPT ![s] = [at |-> "sent", cmd |-> cmd, then |-> then]]

\* dispatch('pane.zoom'): the screen first, then the server.
DispatchZoom(id) ==
    /\ IF zoom = id THEN zoom' = NoID /\ zoomActive' = FALSE
                    ELSE zoom' = id /\ zoomActive' = TRUE
    /\ Send(Command("zoom", id, NoID), "nothing")

\* onmessage.
ReceiveLayout(m) == /\ m.type = "layout_update"
                    /\ Render(m.snap)
                    /\ UNCHANGED calls

\* A faulty form: positions counted from 1 and from 0 are mixed up.
ReceiveFocus_OneOff(m) ==
    /\ m.type = "window_focus"
    /\ LET at == {i \in DOMAIN view.windows : view.windows[i].name = m.name}
       IN  IF at = {} THEN UNCHANGED client
           ELSE Render([view EXCEPT !.active = CHOOSE i \in at : \A k \in at : i <= k])
    /\ UNCHANGED calls

ReceiveFocus(m) ==
    /\ m.type = "window_focus"
    /\ LET at == {i \in DOMAIN view.windows : view.windows[i].name = m.name}
       IN  IF at = {} THEN UNCHANGED client
           ELSE Render([view EXCEPT !.active = (CHOOSE i \in at : \A k \in at : i <= k) - 1])
    /\ UNCHANGED calls

ReceiveZoom(m) == /\ m.type = "pane_zoom"
                  /\ DispatchZoom(m.id)
                  /\ UNCHANGED <<view, focused>>

Receive == /\ link = "open" /\ inbox # <<>>
           /\ inbox' = Tail(inbox)
           /\ \/ ReceiveLayout(Head(inbox))
              \/ ReceiveFocus(Head(inbox))
              \/ ReceiveZoom(Head(inbox))
           /\ UNCHANGED <<mvars, link, commands, solo>>

\* The user gives a command.
Gives == /\ commands < MaxCommands
         /\ link # "loading"
         /\ commands' = commands + 1
         /\ solo' = (solo /\ Quiet /\ link = "open")

CurrentWindowName == IF view.active < Len(view.windows)
                     THEN view.windows[view.active + 1].name ELSE NoName

SwitchWindow(name) == /\ Gives
                      /\ \E i \in DOMAIN view.windows : view.windows[i].name = name
                      /\ Send(Command("focus", name, NoID), "nothing")
                      /\ UNCHANGED <<mvars, link, inbox, client>>

NewWindow(name) == /\ Gives
                   /\ name # NoName
                   /\ Send(Command("create", name, NoID), "reload")
                   /\ UNCHANGED <<mvars, link, inbox, client>>

RenameTo(name) == /\ Gives
                  /\ name # NoName /\ name # CurrentWindowName
                  /\ Send(Command("rename", CurrentWindowName, name), "reload")
                  /\ UNCHANGED <<mvars, link, inbox, client>>

\* window.close: focus the window, and when that is done delete it; its name is
\* read again for that.
CloseShown == /\ Gives
              /\ Send(Command("focus", CurrentWindowName, NoID), "delete")
              /\ UNCHANGED <<mvars, link, inbox, client>>

\* A faulty form: the session is not loaded again afterwards.
DeleteShown_NoReload(s) ==
    /\ calls[s].at = "delete"
    /\ calls' = [calls EXCEPT ![s] = [at |-> "sent", then |-> "nothing",
                                      cmd |-> Command("close", CurrentWindowName, NoID),
                                      meant |-> @.meant]]
    /\ UNCHANGED <<mvars, link, inbox, client, commands, solo>>

DeleteShown(s) ==
    /\ calls[s].at = "delete"
    /\ calls' = [calls EXCEPT ![s] = [at |-> "sent", then |-> "reload",
                                      cmd |-> Command("close", CurrentWindowName, NoID),
                                      meant |-> @.meant]]
    /\ UNCHANGED <<mvars, link, inbox, client, commands, solo>>

\* The rest works on the focused pane, on the screen or not.
SplitFocused(id) == /\ Gives
                    /\ focused # NoID
                    /\ Send(Command("split", focused, id), "reload")
                    /\ UNCHANGED <<mvars, link, inbox, client>>

CloseFocused == /\ Gives
                /\ focused # NoID
                /\ Send(Command("paneClose", focused, NoID), "reload")
                /\ UNCHANGED <<mvars, link, inbox, client>>

ZoomFocused == /\ Gives
               /\ focused # NoID
               /\ DispatchZoom(focused)
               /\ UNCHANGED <<mvars, link, inbox, view, focused>>

LayoutReload == /\ Gives
                /\ \E s \in Slots :
                      /\ calls[s] = None
                      /\ calls' = [calls EXCEPT ![s] = [at |-> "get", then |-> "nothing"]]
                /\ UNCHANGED <<mvars, link, inbox, client>>

\* focusPane, by a click or a key: any pane on the screen.
FocusPane(id) == /\ id \in OnScreen
                 /\ focused' = id
                 /\ UNCHANGED <<mvars, wires, view, zoom, zoomActive, commands, solo>>

-----------------------------------------------------------------------------
User == \/ \E name \in Names : SwitchWindow(name) \/ NewWindow(name) \/ RenameTo(name)
        \/ \E id \in TargetIDs : SplitFocused(id) \/ FocusPane(id)
        \/ CloseShown
        \/ CloseFocused
        \/ ZoomFocused
        \/ LayoutReload

Others == \E cmd \in Commands : Other(cmd)

Calls(s) == Handle(s) \/ GetSession(s) \/ Reloaded(s) \/ CallFails(s) \/ DeleteShown(s)

BrowserNext == User \/ Others \/ (\E s \in Slots : Calls(s)) \/ Open \/ Lose \/ Receive

BrowserSpec == BrowserInit /\ [][BrowserNext]_bvars

-----------------------------------------------------------------------------
\* A user who is alone, gives one command after the other and stays connected
\* sees the session as it is once nothing is on its way: whatever a command
\* changes, the browser learns of it, by a frame or by loading the session
\* again, and no frame or answer that comes late undoes it.
SoloSeesSession == solo /\ Quiet /\ link = "open" => view = Snapshot

\* window.close closes the window that was on screen when the key was pressed,
\* although its name is read again after another request.
SoloClosesItsWindow ==
    \A s \in Slots : solo /\ "meant" \in DOMAIN calls[s] /\ calls[s].at = "sent"
                        => calls[s].cmd.x = calls[s].meant
=============================================================================
