--------------------------- MODULE SessionManager ---------------------------
(***************************************************************************)
(* session.Manager: the ordered windows of one server, the panes of each,  *)
(* and the index of the focused window.  Every method holds the manager's  *)
(* mutex from start to end, so each is one step; a method that returns an  *)
(* error changes nothing and is not a step.                                *)
(*                                                                         *)
(* WindowState and PaneState are pointers in the code.  The manager never  *)
(* compares them, but the handlers that keep one after the mutex has been  *)
(* released do, so each window and pane carries the address it lives at.   *)
(***************************************************************************)
EXTENDS Integers, SequencesExt

CONSTANTS Names,        \* window names a request may give, "" among them
          NoName,       \* the empty name
          TargetIDs,    \* valid target IDs
          Splits,       \* Split and Size of a pane, taken together
          WinRefs,      \* addresses of WindowState objects
          PaneRefs,     \* addresses of PaneState objects
          LayoutNames,  \* names a layout may be saved under
          MaxPanes      \* maxPanesPerWindow

ASSUME NamesAssumption == NoName \in Names
ASSUME MaxPanesAssumption == MaxPanes \in Nat \ {0}

VARIABLES windows,      \* Manager.windows, in display order
          active,       \* Manager.active, counted from 0
          layouts       \* Server.layouts: the snapshots saved, by name

mvars == <<windows, active, layouts>>

PaneState == [ref : PaneRefs, id : TargetIDs, split : Splits]

WindowState == [ref : WinRefs, name : Names \ {NoName}, panes : Seq(PaneState)]

\* What a snapshot keeps of a pane and of a window: all but the address.
SavedPane(p) == [id |-> p.id, split |-> p.split]
SavedWindow(w) == [name |-> w.name,
                   panes |-> [j \in DOMAIN w.panes |-> SavedPane(w.panes[j])]]

SavedLayout == [windows : Seq([name : Names \ {NoName},
                               panes : Seq([id : TargetIDs, split : Splits])]),
                active : Nat]

-----------------------------------------------------------------------------
\* findWindow, windowIndex: i is the first position of a window of that name.
WindowAt(name, i) == /\ i \in DOMAIN windows
                     /\ windows[i].name = name
                     /\ \A k \in 1 .. i - 1 : windows[k].name # name

HasWindow(name) == \E i \in DOMAIN windows : windows[i].name = name

\* FindPane: the first pane of that ID, window by window.
PaneAt(id, i, j) ==
    /\ i \in DOMAIN windows
    /\ j \in DOMAIN windows[i].panes
    /\ windows[i].panes[j].id = id
    /\ \A k \in 1 .. i - 1 : \A l \in DOMAIN windows[k].panes :
          windows[k].panes[l].id # id
    /\ \A l \in 1 .. j - 1 : windows[i].panes[l].id # id

HasPane(id) == \E i \in DOMAIN windows : \E j \in DOMAIN windows[i].panes :
                  windows[i].panes[j].id = id

AllPaneIDs == {id \in TargetIDs : HasPane(id)}

Snapshot == [windows |-> [i \in DOMAIN windows |-> SavedWindow(windows[i])],
             active  |-> active]
-----------------------------------------------------------------------------
ManagerInit ==
    /\ windows = <<>>
    /\ active = 0
    /\ layouts = [n \in {} |-> {}]

CreateWindow(name, ref) ==
    /\ name # NoName
    /\ ~HasWindow(name)
    /\ windows' = Append(windows, [ref |-> ref, name |-> name, panes |-> <<>>])
    /\ UNCHANGED <<active, layouts>>

\* A faulty CloseWindow: the focus is not pulled back into range.
CloseWindow_NoClamp(name) ==
    /\ Len(windows) > 1
    /\ \E i \in DOMAIN windows : WindowAt(name, i) /\ windows' = RemoveAt(windows, i)
    /\ UNCHANGED <<active, layouts>>

CloseWindow(name) ==
    /\ Len(windows) > 1
    /\ \E i \in DOMAIN windows : WindowAt(name, i) /\ windows' = RemoveAt(windows, i)
    /\ active' = IF active >= Len(windows) - 1 THEN Len(windows) - 2 ELSE active
    /\ UNCHANGED layouts

\* A faulty RenameWindow: the new name is not looked up first.
RenameWindow_Blind(oldName, newName) ==
    /\ newName # NoName
    /\ \E i \in DOMAIN windows :
          WindowAt(oldName, i) /\ windows' = [windows EXCEPT ![i].name = newName]
    /\ UNCHANGED <<active, layouts>>

RenameWindow(oldName, newName) ==
    /\ newName # NoName
    /\ ~HasWindow(newName)
    /\ \E i \in DOMAIN windows :
          WindowAt(oldName, i) /\ windows' = [windows EXCEPT ![i].name = newName]
    /\ UNCHANGED <<active, layouts>>

FocusWindow(name) ==
    /\ \E i \in DOMAIN windows : WindowAt(name, i) /\ active' = i - 1
    /\ UNCHANGED <<windows, layouts>>

AddPane(name, p) ==
    /\ \E i \in DOMAIN windows :
          /\ WindowAt(name, i)
          /\ Len(windows[i].panes) < MaxPanes
          /\ windows' = [windows EXCEPT ![i].panes = Append(@, p)]
    /\ UNCHANGED <<active, layouts>>

RemovePane(id) ==
    /\ \E i \in DOMAIN windows : \E j \in DOMAIN windows[i].panes :
          /\ PaneAt(id, i, j)
          /\ windows' = [windows EXCEPT ![i].panes = RemoveAt(@, j)]
    /\ UNCHANGED <<active, layouts>>

\* A snapshot kept under a layout name replaces the one saved there before.
SaveLayout(n, snap) ==
    layouts' = [m \in DOMAIN layouts \cup {n} |-> IF m = n THEN snap ELSE layouts[m]]

\* RestoreSnapshot: the windows of the snapshot, as new objects at the
\* addresses wref[i] and pref[i][j], replace the present ones.
RestoreSnapshot(s, wref, pref) ==
    /\ windows' = [i \in DOMAIN s.windows |->
                     [ref   |-> wref[i],
                      name  |-> s.windows[i].name,
                      panes |-> [j \in DOMAIN s.windows[i].panes |->
                                   [ref   |-> pref[i][j],
                                    id    |-> s.windows[i].panes[j].id,
                                    split |-> s.windows[i].panes[j].split]]]]
    /\ active' = IF s.active >= Len(s.windows) THEN 0 ELSE s.active
    /\ UNCHANGED layouts

-----------------------------------------------------------------------------
\* The manager used by callers that make one call after the other; addresses
\* play no part here, any will do.
SaveNow(n) == SaveLayout(n, Snapshot) /\ UNCHANGED <<windows, active>>

RestoreSaved(n) ==
    \E w \in WinRefs, p \in PaneRefs :
        RestoreSnapshot(layouts[n],
                        [i \in DOMAIN layouts[n].windows |-> w],
                        [i \in DOMAIN layouts[n].windows |->
                           [j \in DOMAIN layouts[n].windows[i].panes |-> p]])

ManagerNext ==
    \/ \E name \in Names : \/ \E ref \in WinRefs : CreateWindow(name, ref)
                           \/ CloseWindow(name)
                           \/ FocusWindow(name)
                           \/ \E newName \in Names : RenameWindow(name, newName)
                           \/ \E p \in PaneState : AddPane(name, p)
    \/ \E id \in TargetIDs : RemovePane(id)
    \/ \E n \in LayoutNames : SaveNow(n)
    \/ \E n \in DOMAIN layouts : RestoreSaved(n)

ManagerSpec == ManagerInit /\ [][ManagerNext]_mvars

-----------------------------------------------------------------------------
PanesBounded(ws) == \A i \in DOMAIN ws : Len(ws[i].panes) <= MaxPanes

TypeOK == /\ windows \in Seq(WindowState)
          /\ active \in Nat
          /\ DOMAIN layouts \subseteq LayoutNames
          /\ \A n \in DOMAIN layouts : layouts[n] \in SavedLayout
          /\ PanesBounded(windows)
          /\ \A n \in DOMAIN layouts : PanesBounded(layouts[n].windows)

UniqueNames(ws) == \A i, j \in DOMAIN ws : ws[i].name = ws[j].name => i = j

\* Window names stay unique through every create, rename, save and restore:
\* each request names its window, so a second window of a name could never be
\* reached.
NamesUnique == /\ UniqueNames(windows)
               /\ \A n \in DOMAIN layouts : UniqueNames(layouts[n].windows)

InRange(k, ws) == IF ws = <<>> THEN k = 0 ELSE k < Len(ws)

\* The focused index always names a window, whatever was closed, restored or
\* focused in between: ActiveWindow indexes the slice without a check.
ActiveInRange == /\ InRange(active, windows)
                 /\ \A n \in DOMAIN layouts : InRange(layouts[n].active, layouts[n].windows)
=============================================================================
