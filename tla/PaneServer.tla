----------------------------- MODULE PaneServer -----------------------------
(***************************************************************************)
(* The REST handlers of one server that work on windows and panes, over    *)
(* the session manager, the router's pipelines and the saved layouts.      *)
(*                                                                         *)
(* net/http runs every request on a goroutine of its own.  A handler holds *)
(* no lock of its own: each call into the manager or the router locks, and *)
(* what it read before may have changed by its next call.  A client has    *)
(* one request in progress, h[c]; each step below is one such call, or one *)
(* access to an object the handler kept a pointer to.  The handlers that   *)
(* make a single call are a single step.                                   *)
(***************************************************************************)
EXTENDS SessionManager

CONSTANTS Clients,      \* requests in progress at the same time
          Ops,          \* the requests the clients make
          Groups,       \* pane group names
          GroupOf,      \* the group a request gives to a target ID
          InitWindows   \* the windows the embedding program starts with

ASSUME RefsAssumption == WinRefs \subseteq Nat /\ PaneRefs \subseteq Nat
ASSUME GroupAssumption == GroupOf \in [TargetIDs -> Groups]
ASSUME InitAssumption == InitWindows \in Seq(WindowState)

VARIABLES pipes,        \* Router.pipes: the target IDs with a pipeline
          h,            \* the request each client has in progress
          detached      \* objects gone from the session that a handler still holds

svars == <<pipes, h, detached>>
vars  == <<mvars, svars>>

Idle == [at |-> "idle"]

Goto(c, next) == h' = [h EXCEPT ![c] = next]

-----------------------------------------------------------------------------
(* Pointers.  A handler holds the address of a window or pane; the object  *)
(* is found in the session, or among the detached ones.                    *)

LiveWindow(r) == \E i \in DOMAIN windows : windows[i].ref = r

LivePane(r) == \E i \in DOMAIN windows : \E j \in DOMAIN windows[i].panes :
                  windows[i].panes[j].ref = r

WindowOf(r) == IF LiveWindow(r)
               THEN windows[CHOOSE i \in DOMAIN windows : windows[i].ref = r]
               ELSE detached.win[r]

PaneOf(r) ==
    IF LivePane(r)
    THEN LET i == CHOOSE k \in DOMAIN windows :
                     \E j \in DOMAIN windows[k].panes : windows[k].panes[j].ref = r
         IN  windows[i].panes[CHOOSE j \in DOMAIN windows[i].panes :
                                 windows[i].panes[j].ref = r]
    ELSE detached.pane[r]

HeldWindows(reqs) == UNION {ToSet(reqs[c].wins) :
                              c \in {d \in Clients : "wins" \in DOMAIN reqs[d]}}
HeldPanes(reqs) == UNION {ToSet(reqs[c].panes) :
                            c \in {d \in Clients : "panes" \in DOMAIN reqs[d]}}

\* After a step: the objects the handlers hold that are not in the session.
\* win and pane are those the step wrote through a pointer, as they are now.
Nothing == [r \in {} |-> {}]
Detach(win, pane) ==
    detached' = [win  |-> [r \in {q \in HeldWindows(h') : ~LiveWindow(q)'} |->
                             IF r \in DOMAIN win THEN win[r] ELSE WindowOf(r)],
                 pane |-> [r \in {q \in HeldPanes(h') : ~LivePane(q)'} |->
                             IF r \in DOMAIN pane THEN pane[r] ELSE PaneOf(r)]]

\* What every step but a swap's does to the objects held.
Aside == Detach(Nothing, Nothing)

\* The k-th number of a set, and the k-th address no object lives at.
Kth(S, k) == CHOOSE r \in S : Cardinality({q \in S : q < r}) = k - 1

FreeWin(k)  == Kth({r \in WinRefs : ~LiveWindow(r) /\ r \notin HeldWindows(h)}, k)
FreePane(k) == Kth({r \in PaneRefs : ~LivePane(r) /\ r \notin HeldPanes(h)}, k)

-----------------------------------------------------------------------------
Init == /\ windows = InitWindows
        /\ active = 0
        /\ layouts = [n \in {} |-> {}]
        /\ pipes = {id \in TargetIDs : HasPane(id)}
        /\ h = [c \in Clients |-> Idle]
        /\ detached = [win |-> Nothing, pane |-> Nothing]

\* A client asks for something: it has no request in progress.
Asks(c, op) == op \in Ops /\ h[c] = Idle

(* Requests that make one call to the manager. *)

WindowCreate(c) == /\ Asks(c, "windowCreate")
                   /\ \E name \in Names : CreateWindow(name, FreeWin(1))
                   /\ UNCHANGED <<pipes, h>>
                   /\ Aside

WindowClose(c) == /\ Asks(c, "windowClose")
                  /\ \E name \in Names : CloseWindow(name)
                  /\ UNCHANGED <<pipes, h>>
                  /\ Aside

WindowRename(c) == /\ Asks(c, "windowRename")
                   /\ \E name, newName \in Names : RenameWindow(name, newName)
                   /\ UNCHANGED <<pipes, h>>
                   /\ Aside

WindowFocus(c) == /\ Asks(c, "windowFocus")
                  /\ \E name \in Names : FocusWindow(name)
                  /\ UNCHANGED <<pipes, h>>
                  /\ Aside

(* broadcastLayoutUpdate, the end of every handler that changes panes: it   *)
(* reads the session, and the browsers learn of it.                        *)

BroadcastLayoutUpdate(c) == /\ h[c].at = "broadcast"
                            /\ Goto(c, Idle)
                            /\ UNCHANGED <<mvars, pipes>>
                            /\ Aside

(* Router.Register and Router.Deregister. *)

Deregister(id) == pipes' = pipes \ {id}

(* handlePaneSplit: find the parent's window, read its name outside the    *)
(* manager's lock, add the pane to the window                              *)
(* that now bears its name, register the pipeline, and if that ID already  *)
(* has one take "the pane" out again.                                      *)

SplitFind(c) ==
    /\ Asks(c, "split")
    /\ \E parent, id \in TargetIDs, split \in Splits : \E i \in DOMAIN windows :
          /\ \E j \in DOMAIN windows[i].panes : PaneAt(parent, i, j)
          /\ Goto(c, [at |-> "split_name", wins |-> <<windows[i].ref>>,
                      pane |-> [ref |-> 0, id |-> id, split |-> split]])
    /\ UNCHANGED <<mvars, pipes>>
    /\ Aside

SplitName(c) ==
    /\ h[c].at = "split_name"
    /\ Goto(c, [at |-> "split_add", name |-> WindowOf(h[c].wins[1]).name, pane |-> h[c].pane])
    /\ UNCHANGED <<mvars, pipes>>
    /\ Aside

SplitAdd(c) ==
    /\ h[c].at = "split_add"
    /\ LET name == h[c].name
           pane == [h[c].pane EXCEPT !.ref = FreePane(1)]
       IN  \/ /\ AddPane(name, pane)
              /\ Goto(c, [at |-> "split_register", id |-> pane.id, panes |-> <<pane.ref>>])
           \/ /\ \A i \in DOMAIN windows :
                    WindowAt(name, i) => Len(windows[i].panes) >= MaxPanes
              /\ Goto(c, Idle)
              /\ UNCHANGED mvars
    /\ UNCHANGED pipes
    /\ Aside

SplitRegister(c) ==
    /\ h[c].at = "split_register"
    /\ \/ /\ h[c].id \notin pipes
          /\ pipes' = pipes \cup {h[c].id}
          /\ Goto(c, [at |-> "broadcast"])
       \/ /\ h[c].id \in pipes
          /\ Goto(c, [h[c] EXCEPT !.at = "split_undo"])
          /\ UNCHANGED pipes
    /\ UNCHANGED mvars
    /\ Aside

\* Faulty forms of the undo: the pane stays; every pane of that ID goes.
SplitUndo_LeavesPane(c) ==
    /\ h[c].at = "split_undo"
    /\ Goto(c, Idle)
    /\ UNCHANGED <<mvars, pipes>>
    /\ Aside
SplitUndo_RemovesAll(c) ==
    /\ h[c].at = "split_undo"
    /\ windows' = [i \in DOMAIN windows |-> [windows[i] EXCEPT !.panes =
                     SelectSeq(@, LAMBDA p : p.id # h[c].id)]]
    /\ Goto(c, Idle)
    /\ UNCHANGED <<active, layouts, pipes>>
    /\ Aside

SplitUndo(c) ==
    /\ h[c].at = "split_undo"
    /\ \/ RemovePane(h[c].id)
       \/ ~HasPane(h[c].id) /\ UNCHANGED mvars
    /\ Goto(c, Idle)
    /\ UNCHANGED pipes
    /\ Aside

(* handlePaneClose. *)

PaneClose(c) ==
    /\ Asks(c, "paneClose")
    /\ \E id \in TargetIDs :
          RemovePane(id) /\ Goto(c, [at |-> "close_deregister", id |-> id])
    /\ UNCHANGED pipes
    /\ Aside

PaneCloseDeregister(c) ==
    /\ h[c].at = "close_deregister"
    /\ Deregister(h[c].id)
    /\ Goto(c, [at |-> "broadcast"])
    /\ UNCHANGED mvars
    /\ Aside

(* handleGroupAction("kill").  The windows are copied under the lock; their *)
(* panes are then read without it, window by window.                        *)

\* A faulty form: only the focused window is looked at.
KillWindows_Focused(c) ==
    /\ Asks(c, "groupKill")
    /\ \E g \in Groups :
          Goto(c, [at |-> "kill_collect", group |-> g, targets |-> <<>>,
                   wins |-> <<windows[active + 1].ref>>])
    /\ UNCHANGED <<mvars, pipes>>
    /\ Aside

KillWindows(c) ==
    /\ Asks(c, "groupKill")
    /\ \E g \in Groups :
          Goto(c, [at |-> "kill_collect", group |-> g, targets |-> <<>>,
                   wins |-> [i \in DOMAIN windows |-> windows[i].ref]])
    /\ UNCHANGED <<mvars, pipes>>
    /\ Aside

\* The loop over one window's panes begins: it runs over the slice as it is
\* now, whose elements a RemovePane or a swap moves under its feet.
KillOpenWindow(c) ==
    /\ h[c].at = "kill_collect"
    /\ h[c].wins # <<>>
    /\ Goto(c, [at |-> "kill_read", group |-> h[c].group, targets |-> h[c].targets,
                wins |-> h[c].wins, seen |-> WindowOf(h[c].wins[1]).panes])
    /\ UNCHANGED <<mvars, pipes>>
    /\ Aside

\* The panes of a group by their places, and the IDs at some places, in order.
InGroup(panes, g) == {j \in DOMAIN panes : GroupOf[panes[j].id] = g}
IDsAt(panes, at)  == [k \in 1 .. Cardinality(at) |-> panes[Kth(at, k)].id]

\* The loop ends.  If the slice did not change meanwhile the group's panes of
\* this window are the targets; if it did, the unlocked read may have missed
\* any of the panes it saw before or after the change.
KillReadWindow(c) ==
    /\ h[c].at = "kill_read"
    /\ LET now      == WindowOf(h[c].wins[1]).panes
           Add(ids) == Goto(c, [at |-> "kill_collect", group |-> h[c].group,
                                targets |-> h[c].targets \o ids,
                                wins |-> Tail(h[c].wins)])
       IN  \/ now = h[c].seen /\ Add(IDsAt(now, InGroup(now, h[c].group)))
           \/ /\ now # h[c].seen
              /\ \E panes \in {h[c].seen, now} :
                    \E read \in SUBSET InGroup(panes, h[c].group) : Add(IDsAt(panes, read))
    /\ UNCHANGED <<mvars, pipes>>
    /\ Aside

KillCollected(c) ==
    /\ h[c].at = "kill_collect"
    /\ h[c].wins = <<>>
    /\ Goto(c, IF h[c].targets = <<>> THEN Idle
               ELSE [at |-> "kill_remove", group |-> h[c].group, targets |-> h[c].targets])
    /\ UNCHANGED <<mvars, pipes>>
    /\ Aside

\* A faulty form: the handler waits for the pane to be there.
KillRemove_Waits(c) ==
    /\ h[c].at = "kill_remove"
    /\ RemovePane(Head(h[c].targets))
    /\ Goto(c, [h[c] EXCEPT !.at = "kill_deregister"])
    /\ UNCHANGED pipes
    /\ Aside

\* RemovePane's error is ignored: the pipeline goes whether or not a pane did.
KillRemove(c) ==
    /\ h[c].at = "kill_remove"
    /\ \/ RemovePane(Head(h[c].targets))
       \/ ~HasPane(Head(h[c].targets)) /\ UNCHANGED mvars
    /\ Goto(c, [h[c] EXCEPT !.at = "kill_deregister"])
    /\ UNCHANGED pipes
    /\ Aside

KillDeregister(c) ==
    /\ h[c].at = "kill_deregister"
    /\ Deregister(Head(h[c].targets))
    /\ Goto(c, IF Len(h[c].targets) = 1 THEN [at |-> "broadcast"]
               ELSE [h[c] EXCEPT !.at = "kill_remove", !.targets = Tail(@)])
    /\ UNCHANGED mvars
    /\ Aside

(* handlePaneSwap: two lookups, then the objects found are changed without *)
(* any lock.                                                               *)

SwapFindA(c) ==
    /\ Asks(c, "swap")
    /\ \E idA, idB \in TargetIDs : \E i \in DOMAIN windows : \E j \in DOMAIN windows[i].panes :
          /\ PaneAt(idA, i, j)
          /\ Goto(c, [at |-> "swap_find", ids |-> <<idA, idB>>,
                      wins |-> <<windows[i].ref>>, panes |-> <<windows[i].panes[j].ref>>])
    /\ UNCHANGED <<mvars, pipes>>
    /\ Aside

SwapFindB(c) ==
    /\ h[c].at = "swap_find"
    /\ \/ \E i \in DOMAIN windows : \E j \in DOMAIN windows[i].panes :
             /\ PaneAt(h[c].ids[2], i, j)
             /\ Goto(c, [h[c] EXCEPT !.at = "swap_splits",
                                     !.wins = Append(@, windows[i].ref),
                                     !.panes = Append(@, windows[i].panes[j].ref)])
       \/ ~HasPane(h[c].ids[2]) /\ Goto(c, Idle)
    /\ UNCHANGED <<mvars, pipes>>
    /\ Aside

\* One side of the swap is to be moved.
SwapSide(c, side) == [at |-> "swap_seek", side |-> side, ids |-> h[c].ids,
                      wins |-> h[c].wins, panes |-> h[c].panes]

\* The Split and Size fields change places; then, if the two windows bear
\* different names, the panes are moved, side 1 first.
SwapSplits(c) ==
    /\ h[c].at = "swap_splits"
    /\ LET one == h[c].panes[1]
           two == h[c].panes[2]
           written == [r \in {one, two} |->
                         IF r = one THEN [PaneOf(one) EXCEPT !.split = PaneOf(two).split]
                                    ELSE [PaneOf(two) EXCEPT !.split = PaneOf(one).split]]
       IN  /\ windows' = [i \in DOMAIN windows |-> [windows[i] EXCEPT !.panes =
                            [j \in DOMAIN @ |-> IF @[j].ref \in DOMAIN written
                                                THEN written[@[j].ref] ELSE @[j]]]]
           /\ Goto(c, IF WindowOf(h[c].wins[1]).name = WindowOf(h[c].wins[2]).name
                      THEN [at |-> "broadcast"]
                      ELSE SwapSide(c, 1))
           /\ UNCHANGED <<active, layouts, pipes>>
           /\ Detach(Nothing, written)

\* A faulty form: the second window keeps the pane that was moved away.
AfterSide_OneSide(c) == [at |-> "broadcast"]

AfterSide(c) == IF h[c].side = 1
                THEN SwapSide(c, 2)
                ELSE [at |-> "broadcast"]

\* The slot of this side's pane is sought in this side's window ...
SwapSeek(c) ==
    /\ h[c].at = "swap_seek"
    /\ LET panes == WindowOf(h[c].wins[h[c].side]).panes
           slots == {j \in DOMAIN panes : panes[j].id = h[c].ids[h[c].side]}
       IN  IF slots = {} THEN Goto(c, AfterSide(c))
           ELSE Goto(c, [at |-> "swap_write", side |-> h[c].side, ids |-> h[c].ids,
                         wins |-> h[c].wins, panes |-> h[c].panes,
                         slot |-> CHOOSE j \in slots : \A k \in slots : j <= k])
    /\ UNCHANGED <<mvars, pipes>>
    /\ Aside

\* ... and given the other side's pane.  A slice that has become too short
\* makes the assignment panic: net/http drops the request.
SwapWrite(c) ==
    /\ h[c].at = "swap_write"
    /\ LET r     == h[c].wins[h[c].side]
           pane  == PaneOf(h[c].panes[3 - h[c].side])
           fits  == h[c].slot <= Len(WindowOf(r).panes)
           moved == [WindowOf(r) EXCEPT !.panes[h[c].slot] = pane]
       IN  \/ /\ fits
              /\ windows' = [i \in DOMAIN windows |->
                               IF windows[i].ref = r THEN moved ELSE windows[i]]
              /\ Goto(c, AfterSide(c))
              /\ Detach([x \in {r} |-> moved], Nothing)
           \/ ~fits /\ Goto(c, Idle) /\ UNCHANGED windows /\ Detach(Nothing, Nothing)
    /\ UNCHANGED <<active, layouts, pipes>>

(* handleLayoutSave. *)

SaveSnapshot(c) ==
    /\ Asks(c, "layoutSave")
    /\ \E n \in LayoutNames :
          Goto(c, [at |-> "save_store", layout |-> n, snap |-> Snapshot])
    /\ UNCHANGED <<mvars, pipes>>
    /\ Aside

SaveStore(c) ==
    /\ h[c].at = "save_store"
    /\ SaveLayout(h[c].layout, h[c].snap)
    /\ Goto(c, Idle)
    /\ UNCHANGED <<windows, active, pipes>>
    /\ Aside

(* handleLayoutApply: the panes before and after the restore decide which  *)
(* pipelines go and which come.  Looking up the saved layout commutes with *)
(* whatever happens before AllPaneIDs is read: one step.  Get and Register *)
(* of one pane amount to a Register at the time of the later call: one     *)
(* step.  The map of panes to register is ranged over in any order.        *)

ApplyBefore(c) ==
    /\ Asks(c, "layoutApply")
    /\ \E n \in DOMAIN layouts :
          Goto(c, [at |-> "apply_restore", snap |-> layouts[n], before |-> AllPaneIDs])
    /\ UNCHANGED <<mvars, pipes>>
    /\ Aside

ApplyRestore(c) ==
    /\ h[c].at = "apply_restore"
    /\ LET s == h[c].snap.windows
       IN  RestoreSnapshot(h[c].snap,
                           [i \in DOMAIN s |-> FreeWin(i)],
                           [i \in DOMAIN s |-> [j \in DOMAIN s[i].panes |->
                                                  FreePane((i - 1) * MaxPanes + j)]])
    /\ Goto(c, [at |-> "apply_after", before |-> h[c].before])
    /\ UNCHANGED pipes
    /\ Aside

\* Faulty forms: the panes that stay lose their pipelines too; the panes that
\* come back get none.
ApplyAfter_DropsAll(c) ==
    /\ h[c].at = "apply_after"
    /\ Goto(c, [at |-> "apply_reconcile", drop |-> h[c].before, add |-> AllPaneIDs])
    /\ UNCHANGED <<mvars, pipes>>
    /\ Aside
ApplyAfter_AddsNone(c) ==
    /\ h[c].at = "apply_after"
    /\ Goto(c, [at |-> "apply_reconcile", drop |-> h[c].before \ AllPaneIDs, add |-> {}])
    /\ UNCHANGED <<mvars, pipes>>
    /\ Aside

ApplyAfter(c) ==
    /\ h[c].at = "apply_after"
    /\ Goto(c, [at |-> "apply_reconcile",
                drop |-> h[c].before \ AllPaneIDs, add |-> AllPaneIDs])
    /\ UNCHANGED <<mvars, pipes>>
    /\ Aside

ApplyDeregister(c) ==
    /\ h[c].at = "apply_reconcile"
    /\ \E id \in h[c].drop :
          Deregister(id) /\ Goto(c, [h[c] EXCEPT !.drop = @ \ {id}])
    /\ UNCHANGED mvars
    /\ Aside

ApplyRegister(c) ==
    /\ h[c].at = "apply_reconcile"
    /\ h[c].drop = {}
    /\ \E id \in h[c].add :
          /\ pipes' = pipes \cup {id}
          /\ Goto(c, [h[c] EXCEPT !.add = @ \ {id}])
    /\ UNCHANGED mvars
    /\ Aside

ApplyDone(c) ==
    /\ h[c].at = "apply_reconcile"
    /\ h[c].drop = {} /\ h[c].add = {}
    /\ Goto(c, [at |-> "broadcast"])
    /\ UNCHANGED <<mvars, pipes>>
    /\ Aside

-----------------------------------------------------------------------------
Request(c) ==
    \/ WindowCreate(c) \/ WindowClose(c) \/ WindowRename(c) \/ WindowFocus(c)
    \/ SplitFind(c) \/ PaneClose(c) \/ KillWindows(c) \/ SwapFindA(c)
    \/ SaveSnapshot(c) \/ ApplyBefore(c)

Step(c) ==
    \/ BroadcastLayoutUpdate(c)
    \/ SplitName(c) \/ SplitAdd(c) \/ SplitRegister(c) \/ SplitUndo(c)
    \/ PaneCloseDeregister(c)
    \/ KillOpenWindow(c) \/ KillReadWindow(c) \/ KillCollected(c)
    \/ KillRemove(c) \/ KillDeregister(c)
    \/ SwapFindB(c) \/ SwapSplits(c) \/ SwapSeek(c) \/ SwapWrite(c)
    \/ SaveStore(c)
    \/ ApplyRestore(c) \/ ApplyAfter(c)
    \/ ApplyDeregister(c) \/ ApplyRegister(c) \/ ApplyDone(c)

Next == \E c \in Clients : Request(c) \/ Step(c)

Spec == Init /\ [][Next]_vars

\* The goroutine of a request in progress keeps running.  Nothing is promised
\* about further requests.
FairSpec == Spec /\ \A c \in Clients : WF_vars(Step(c))

-----------------------------------------------------------------------------
Quiet == \A c \in Clients : h[c] = Idle

\* With no request in progress, every pane of the layout has the pipeline
\* that feeds it.
PanesHavePipelines == Quiet => AllPaneIDs \subseteq pipes

\* With no request in progress, every pane has its pipeline and every pipeline
\* belongs to a pane.
PanesMatchPipelines == Quiet => pipes = AllPaneIDs

Places(id) == {p \in (DOMAIN windows) \X (1 .. MaxPanes) :
                 /\ p[2] \in DOMAIN windows[p[1]].panes
                 /\ windows[p[1]].panes[p[2]].id = id}

\* With no request in progress, no target ID is given to two panes.
OnePanePerID == Quiet => \A id \in TargetIDs : Cardinality(Places(id)) <= 1

\* "Panes are never shared between windows" (architecture.md:53).
NoSharedPanes ==
    Quiet => \A i, k \in DOMAIN windows :
               \A j \in DOMAIN windows[i].panes, l \in DOMAIN windows[k].panes :
                  windows[i].panes[j].ref = windows[k].panes[l].ref => i = k

\* A pipeline, and the scrollback it holds, is torn down only when no pane of
\* the layout uses it any more.
NoLiveTeardown == [][\A id \in pipes \ pipes' : ~HasPane(id)']_vars

\* "Close all panes in group" (manual.md:413): when the kill has removed its
\* last target, no window holds a pane of the group.
KillEmptiesGroup ==
    [][\A c \in Clients : (h[c].at = "kill_deregister" /\ h'[c].at = "broadcast")
          => \A id \in TargetIDs : HasPane(id)' => GroupOf[id] # h[c].group]_vars

\* Every request that reached its handler is answered, whatever the others do
\* to the panes, windows and pipelines it works on.
RequestsEnd == \A c \in Clients : (h[c] # Idle) ~> (h[c] = Idle)
=============================================================================
