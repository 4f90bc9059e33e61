-------------------------- MODULE PaneRequestProofs --------------------------
(***************************************************************************)
(* One request at a time: for any sequence of requests of every kind, with *)
(* any panes, layouts and addresses, every pane has an ID, an address and  *)
(* a pipeline of its own when the request is answered, and no pipeline is  *)
(* torn down under a pane.  In between that is not so: the inductive       *)
(* invariant OneInv says, for each call a request stops before, what is    *)
(* wrong just then and what the handler remembers that lets it set it      *)
(* right.  KillInv adds, for a kill, where the panes of its group are:     *)
(* among the targets found, or in a window still to be read.               *)
(***************************************************************************)
EXTENDS PaneServerProofs

-----------------------------------------------------------------------------
(* The invariant. *)

\* There is one client, and so one request in progress at most.
OneClient == \E c : Clients = {c}

\* Every pane has its pipeline; and all is as it should be.
Fed  == \A p \in Spots(windows) : On(windows, p).id \in pipes
Calm == RefsApart(windows) /\ IDsApart(windows) /\ Fed

\* A split has put its pane in: but for that one the panes are apart and fed.
OneMore(id) ==
    /\ RefsApart(windows)
    /\ \E s \in Spots(windows) :
          /\ On(windows, s).id = id
          /\ \A p, q \in Spots(windows) \ {s} : On(windows, p).id = On(windows, q).id => p = q
          /\ \A p \in Spots(windows) \ {s} : On(windows, p).id \in pipes

\* The n-th pane of a swap is at p, in the n-th window of the swap.
Located(q, n, p) == /\ p \in Spots(windows)
                    /\ On(windows, p).ref = q.panes[n]
                    /\ On(windows, p).id = q.ids[n]
                    /\ windows[p[1]].ref = q.wins[n]

\* Before side 1 is moved: the panes are in two windows.
SideOne(q) == \E p1, p2 \in Spots(windows) :
                 /\ Located(q, 1, p1) /\ Located(q, 2, p2)
                 /\ p1[1] # p2[1]
                 /\ q.at = "swap_write" => q.slot = p1[2]

\* Before side 2 is moved: the second pane is in both windows, the first in none; the
\* handler still has it.
SideTwo(q) == \E p1, p2 \in Spots(windows) :
                 LET x == detached.pane[q.panes[1]]
                 IN  /\ ~LivePane(q.panes[1])
                     /\ p1[1] # p2[1]
                     /\ On(windows, p1) = On(windows, p2)
                     /\ On(windows, p2).id = q.ids[2]
                     /\ windows[p2[1]].ref = q.wins[2]
                     /\ x \in PaneState /\ x.id \in pipes
                     /\ \A p \in Spots(windows) : On(windows, p).ref # x.ref /\ On(windows, p).id # x.id
                     /\ \A p, r \in Spots(windows) \ {p1} :
                           On(windows, p).ref = On(windows, r).ref \/ On(windows, p).id = On(windows, r).id
                              => p = r
                     /\ q.at = "swap_write" => q.slot = p2[2]

\* The stages in which a swap has begun to move panes, and those at which all is calm.
SwapStages == {"swap_seek", "swap_write"}
CalmStages == {"idle", "broadcast", "split_name", "split_add", "close_deregister", "kill_collect",
               "kill_read", "kill_remove", "kill_deregister", "swap_find", "swap_splits", "save_store",
               "apply_restore"}

\* What is so when a request is at a given call, and what it remembers.
Stage(q) ==
    /\ q.at \in CalmStages \cup SwapStages \cup
          {"split_register", "split_undo", "apply_after", "apply_reconcile"}
    /\ q.at \in CalmStages => Calm
    /\ q.at \in {"split_name", "split_add"} => q.pane \in NewPane
    /\ q.at \in {"split_register", "split_undo"} => OneMore(q.id) /\ q.id \in TargetIDs
    /\ q.at = "split_undo" => q.id \in pipes
    /\ q.at = "close_deregister" => ~HasPane(q.id)
    /\ q.at = "kill_deregister" => ~HasPane(Head(q.targets))
    /\ q.at = "swap_find" => /\ q.wins \in Seq(WinRefs) /\ Len(q.wins) = 1
                             /\ q.panes \in Seq(PaneRefs) /\ Len(q.panes) = 1
                             /\ \E p \in Spots(windows) : Located(q, 1, p)
    /\ q.at = "swap_splits" => \E p1, p2 \in Spots(windows) : Located(q, 1, p1) /\ Located(q, 2, p2)
    /\ q.at \in SwapStages \cup {"swap_splits"} => 1 \in DOMAIN q.panes
    /\ q.at \in SwapStages => \/ q.side = 1 /\ Calm /\ SideOne(q)
                              \/ q.side = 2 /\ Fed /\ SideTwo(q)
    /\ q.at = "save_store" => q.layout \in LayoutNames
    /\ q.at \in {"save_store", "apply_restore"} => FitLayout(q.snap) /\ SavedApart(q.snap)
    /\ q.at \in {"apply_after", "apply_reconcile"} => RefsApart(windows) /\ IDsApart(windows)
    /\ q.at = "apply_reconcile" => /\ \A x \in q.drop : ~HasPane(x)
                                   /\ \A p \in Spots(windows) : On(windows, p).id \in pipes \cup q.add

\* Every saved layout gives each ID to one pane.
LayoutsApart == \A n \in DOMAIN layouts : SavedApart(layouts[n])

\* The inductive invariant.
OneInv == /\ Fit(windows, active)
          /\ FitLayouts
          /\ WinsApart(windows)
          /\ LayoutsApart
          /\ DOMAIN h = Clients
          /\ \A c \in Clients : Stage(h[c])

-----------------------------------------------------------------------------
(* From stage to stage. *)

\* The invariant of a request's stage, and what all stages share.
LEMMA OneParts ==
  ASSUME OneInv, NEW c \in Clients
  PROVE  /\ Stage(h[c])
         /\ h[c].at \in CalmStages => Calm
         /\ Fit(windows, active) /\ windows \in Seq(WindowState)
         /\ WinsApart(windows) /\ FitLayouts /\ LayoutsApart
BY DEF OneInv, Stage, Fit

\* The request goes on to its next stage; what the layouts keep is accounted for.
LEMMA OneGoes ==
  ASSUME OneClient, OneInv, NEW c \in Clients, NEW next, Goto(c, next),
         FitLayouts', LayoutsApart', Fit(windows, active)', WinsApart(windows)', Stage(next)'
  PROVE  OneInv'
<1>1. h' = [h EXCEPT ![c] = next] /\ DOMAIN h = Clients
  BY DEF Goto, OneInv
<1>2. DOMAIN h' = Clients
  BY <1>1
<1>3. ASSUME NEW d \in Clients PROVE Stage(h[d])'
  <2>1. d = c
    BY DEF OneClient
  <2>2. h'[d] = next
    BY <1>1, <2>1
  <2> QED BY <2>2
<1> QED BY <1>2, <1>3 DEF OneInv

\* ... and leaves the layouts alone.
LEMMA OneGoesOn ==
  ASSUME OneClient, OneInv, NEW c \in Clients, NEW next, Goto(c, next),
         layouts' = layouts, Fit(windows, active)', WinsApart(windows)', Stage(next)'
  PROVE  OneInv'
<1>1. FitLayouts'
  BY LayoutsKept DEF OneInv
<1>2. LayoutsApart'
  BY DEF OneInv, LayoutsApart, SavedApart
<1> QED BY <1>1, <1>2, OneGoes

\* A request that stays, or comes to a stage of which nothing more is asked.
PlainStages == {"idle", "broadcast", "kill_collect", "kill_read", "kill_remove"}

\* With all calm such a stage is as it should be.
LEMMA PlainStage ==
  ASSUME NEW q, q.at \in PlainStages, Calm
  PROVE  Stage(q)
BY DEF Stage, PlainStages, CalmStages, SwapStages

\* The request comes to such a stage, and all is calm.
LEMMA PlainGoesOn ==
  ASSUME OneClient, OneInv, NEW c \in Clients, NEW next, Goto(c, next), next.at \in PlainStages,
         layouts' = layouts, Fit(windows, active)', WinsApart(windows)', Calm'
  PROVE  OneInv'
<1>1. Stage(next)'
  BY DEF Stage, PlainStages, CalmStages, SwapStages
<1> QED BY <1>1, OneGoesOn

\* What is calm stays so while panes and pipelines stay.
LEMMA CalmSame ==
  ASSUME Calm, windows' = windows, pipes' = pipes
  PROVE  Calm'
BY DEF Calm, Fed, RefsApart, IDsApart

\* A step of a request that leaves the session alone.
LEMMA OneStays ==
  ASSUME OneClient, OneInv, NEW c \in Clients, NEW next, Goto(c, next), UNCHANGED mvars,
         Stage(next)'
  PROVE  OneInv'
<1>1. windows' = windows /\ active' = active /\ layouts' = layouts
  BY DEF mvars
<1>2. Fit(windows, active)' /\ WinsApart(windows)'
  BY <1>1, OneParts
<1> QED BY <1>1, <1>2, OneGoesOn

\* The request goes on without touching anything.
LEMMA OnePlain ==
  ASSUME OneClient, OneInv, NEW c \in Clients, NEW next, Goto(c, next),
         next.at \in PlainStages, UNCHANGED <<mvars, pipes>>, Calm
  PROVE  OneInv'
<1>1. Calm'
  BY CalmSame DEF mvars
<1>2. Stage(next)'
  BY <1>1 DEF Stage, PlainStages, CalmStages, SwapStages
<1> QED BY <1>2, OneStays

\* One call of the manager, the request answered by it.
LEMMA OneAside ==
  ASSUME OneClient, OneInv, NEW c \in Clients, h[c] = Idle, UNCHANGED <<pipes, h>>,
         layouts' = layouts, Fit(windows, active)', WinsApart(windows)', Drawn(windows, windows')
  PROVE  OneInv'
<1>1. Stage(h[c])
  BY DEF OneInv
<1>2. Calm
  BY <1>1 DEF Stage, CalmStages, Idle
<1>3. RefsApart(windows') /\ IDsApart(windows')
      /\ \A p \in Spots(windows') : \E q \in Spots(windows) : On(windows', p) = On(windows, q)
  BY <1>2, DrawnApart DEF Calm
<1>4. Calm'
  BY <1>2, <1>3 DEF Calm, Fed
<1>5. ASSUME NEW d \in Clients PROVE Stage(h[d])'
  <2>1. h'[d] = Idle
    BY DEF OneClient
  <2>2. Stage(Idle)'
    BY <1>4 DEF Stage, Idle, CalmStages, SwapStages
  <2> QED BY <2>1, <2>2
<1>6. FitLayouts'
  BY LayoutsKept DEF OneInv
<1>7. LayoutsApart'
  BY DEF OneInv, LayoutsApart, SavedApart
<1> QED BY <1>5, <1>6, <1>7 DEF OneInv

-----------------------------------------------------------------------------
(* Windows, splits, closes and kills. *)

\* Windows are created, closed, renamed or focused: panes only go, and their pipelines stay.
LEMMA OneWindowCalls ==
  ASSUME OneClient, OneInv, AddressesSuffice, NEW c \in Clients,
         WindowCreate(c) \/ WindowClose(c) \/ WindowRename(c) \/ WindowFocus(c)
  PROVE  OneInv'
<1>1. Fit(windows, active) /\ WinsApart(windows)
  BY OneParts
<1>2. /\ h[c] = Idle /\ UNCHANGED <<pipes, h>> /\ layouts' = layouts
      /\ Fit(windows, active)' /\ WinsApart(windows') /\ Drawn(windows, windows')
  BY <1>1, WindowCalls
<1> QED BY <1>2, OneAside

\* The parent of a split is found.
LEMMA OneSplitFind ==
  ASSUME OneClient, OneInv, NEW c \in Clients, SplitFind(c)
  PROVE  OneInv'
<1>1. PICK id \in TargetIDs, split \in Splits, i \in DOMAIN windows :
        Goto(c, [at |-> "split_name", wins |-> <<windows[i].ref>>,
                 pane |-> [ref |-> 0, id |-> id, split |-> split]])
  BY DEF SplitFind
<1>2. PICK next : next = [at |-> "split_name", wins |-> <<windows[i].ref>>,
                          pane |-> [ref |-> 0, id |-> id, split |-> split]]
  OBVIOUS
<1>3. next.at = "split_name" /\ next.pane \in NewPane /\ Goto(c, next)
  BY <1>1, <1>2 DEF NewPane
<1>4. UNCHANGED <<mvars, pipes>> /\ h[c].at = "idle"
  BY DEF SplitFind, Asks, Idle
<1>5. Calm
  BY <1>4, OneParts DEF CalmStages
<1>6. Calm'
  BY <1>4, <1>5, CalmSame DEF mvars
<1>7. Stage(next)'
  BY <1>3, <1>6 DEF Stage, CalmStages, SwapStages, NewPane
<1> QED BY <1>3, <1>4, <1>7, OneStays

\* The name of its window is read.
LEMMA OneSplitName ==
  ASSUME OneClient, OneInv, NEW c \in Clients, SplitName(c)
  PROVE  OneInv'
<1>1. PICK name : name = WindowOf(h[c].wins[1]).name
  OBVIOUS
<1>2. PICK pane : pane = h[c].pane
  OBVIOUS
<1>3. PICK next : next = [at |-> "split_add", name |-> name, pane |-> pane]
  OBVIOUS
<1>4. UNCHANGED <<mvars, pipes>> /\ h[c].at = "split_name" /\ Goto(c, next)
  BY <1>1, <1>2, <1>3 DEF SplitName
<1>5. Calm /\ pane \in NewPane
  BY <1>2, <1>4, OneParts DEF CalmStages, Stage
<1>6. next.at = "split_add" /\ next.pane \in NewPane
  BY <1>3, <1>5
<1>7. Calm'
  BY <1>4, <1>5, CalmSame DEF mvars
<1>8. Stage(next)'
  BY <1>6, <1>7 DEF Stage, CalmStages, SwapStages, NewPane
<1> QED BY <1>4, <1>8, OneStays

\* AddPane puts in one pane more, perhaps with the ID of another.
LEMMA OneSplitAdd ==
  ASSUME OneClient, OneInv, AddressesSuffice, NEW c \in Clients, SplitAdd(c)
  PROVE  OneInv'
<1>1. h[c].at = "split_add" /\ pipes' = pipes
  BY DEF SplitAdd
<1>2. Calm /\ h[c].pane \in NewPane
  BY <1>1, OneParts DEF CalmStages, Stage
<1>3. Fit(windows, active) /\ windows \in Seq(WindowState) /\ WinsApart(windows)
  BY OneParts
<1>4. PICK name : name = h[c].name
  OBVIOUS
<1>5. PICK pane : pane = [h[c].pane EXCEPT !.ref = FreePane(1)]
  OBVIOUS
<1>6. FreePane(1) \in PaneRefs /\ ~LivePane(FreePane(1))
  BY <1>1, FreshPane DEF AddressesSuffice, FreePanes
<1>7. pane \in PaneState /\ pane.id \in TargetIDs /\ pane.ref = FreePane(1)
  BY <1>2, <1>5, <1>6 DEF NewPane, PaneState
<1>8. \/ /\ AddPane(name, pane)
         /\ Goto(c, [at |-> "split_register", id |-> pane.id, panes |-> <<pane.ref>>])
      \/ Goto(c, Idle) /\ UNCHANGED mvars
  BY <1>4, <1>5 DEF SplitAdd
<1>9. CASE Goto(c, Idle) /\ UNCHANGED mvars
  <2>1. Calm'
    BY <1>1, <1>2, <1>9, CalmSame DEF mvars
  <2>2. Stage(Idle)'
    BY <2>1 DEF Stage, Idle, CalmStages, SwapStages
  <2> QED BY <1>9, <2>2, OneStays
<1>10. CASE /\ AddPane(name, pane)
            /\ Goto(c, [at |-> "split_register", id |-> pane.id, panes |-> <<pane.ref>>])
  <2>1. PICK next : next = [at |-> "split_register", id |-> pane.id, panes |-> <<pane.ref>>]
    OBVIOUS
  <2>2. Goto(c, next) /\ next.at = "split_register" /\ next.id = pane.id
    BY <1>10, <2>1
  <2>3. PICK s \in Nat \X Nat : AddsAt(windows, windows', s, pane)
    BY <1>3, <1>7, <1>10, AddPaneSpot
  <2>4. \A p \in Spots(windows) : On(windows, p).ref # pane.ref
    BY <1>3, <1>6, <1>7, LivePaneSpot
  <2>5. /\ Spots(windows') \ {s} = Spots(windows) /\ s \in Spots(windows')
        /\ On(windows', s) = pane
        /\ \A p \in Spots(windows) : On(windows', p) = On(windows, p)
    BY <2>3 DEF AddsAt
  <2>6. RefsApart(windows')
    BY <1>2, <2>4, <2>5 DEF Calm, RefsApart
  <2>7. /\ \A p, q \in Spots(windows') \ {s} : On(windows', p).id = On(windows', q).id => p = q
        /\ \A p \in Spots(windows') \ {s} : On(windows', p).id \in pipes'
    BY <1>1, <1>2, <2>5 DEF Calm, IDsApart, Fed
  <2>8. OneMore(next.id)'
    BY <2>2, <2>5, <2>6, <2>7 DEF OneMore
  <2>9. Stage(next)'
    BY <1>7, <2>2, <2>8 DEF Stage, CalmStages, SwapStages
  <2>10. layouts' = layouts
    BY <1>10 DEF AddPane
  <2>11. Fit(windows, active)'
    BY <1>3, <1>7, <1>10, FitAddPane
  <2>12. WinsApart(windows')
    BY <1>3, <1>10, AddPaneWins, SameWinsApart
  <2> QED BY <2>2, <2>9, <2>10, <2>11, <2>12, OneGoesOn
<1> QED BY <1>8, <1>9, <1>10

\* Register feeds it, or there is another pane of that ID, and the split is to be undone.
LEMMA OneSplitRegister ==
  ASSUME OneClient, OneInv, NEW c \in Clients, SplitRegister(c)
  PROVE  OneInv'
<1>1. h[c].at = "split_register" /\ UNCHANGED mvars
  BY DEF SplitRegister
<1>2. OneMore(h[c].id) /\ h[c].id \in TargetIDs
  BY <1>1, OneParts DEF Stage
<1>3. windows' = windows
  BY <1>1 DEF mvars
<1>4. CASE h[c].id \in pipes
  <2>1. PICK next : next = [h[c] EXCEPT !.at = "split_undo"]
    OBVIOUS
  <2>2. Goto(c, next) /\ pipes' = pipes
    BY <1>4, <2>1 DEF SplitRegister
  <2>3. next.at = "split_undo" /\ next.id = h[c].id
    BY <1>1, <2>1, <2>2 DEF SplitRegister
  <2>4. OneMore(next.id)'
    BY <1>2, <1>3, <2>2, <2>3 DEF OneMore, RefsApart
  <2>5. Stage(next)'
    BY <1>2, <1>4, <2>2, <2>3, <2>4 DEF Stage, CalmStages, SwapStages
  <2> QED BY <1>1, <2>2, <2>5, OneStays
<1>5. CASE h[c].id \notin pipes
  <2>1. pipes' = pipes \cup {h[c].id} /\ Goto(c, [at |-> "broadcast"])
    BY <1>5 DEF SplitRegister
  <2>2. PICK s \in Spots(windows) :
           /\ On(windows, s).id = h[c].id
           /\ \A p, q \in Spots(windows) \ {s} : On(windows, p).id = On(windows, q).id => p = q
           /\ \A p \in Spots(windows) \ {s} : On(windows, p).id \in pipes
    BY <1>2 DEF OneMore
  <2>3. RefsApart(windows)
    BY <1>2 DEF OneMore
  <2>4. IDsApart(windows)
    BY <1>5, <2>2 DEF IDsApart
  <2>5. \A p \in Spots(windows) : On(windows, p).id \in pipes'
    BY <2>1, <2>2
  <2>6. Calm'
    BY <1>3, <2>3, <2>4, <2>5 DEF Calm, Fed, RefsApart, IDsApart
  <2>7. Stage([at |-> "broadcast"])'
    BY <2>6 DEF Stage, CalmStages, SwapStages
  <2> QED BY <1>1, <2>1, <2>7, OneStays
<1> QED BY <1>4, <1>5

\* The pane taken out again has the ID of the split, whether it is the split's or the
\* one that had the ID before: what is left is apart and fed.
LEMMA OneSplitUndo ==
  ASSUME OneClient, OneInv, NEW c \in Clients, SplitUndo(c)
  PROVE  OneInv'
<1>1. h[c].at = "split_undo" /\ pipes' = pipes /\ Goto(c, Idle)
  BY DEF SplitUndo
<1>2. PICK x : x = h[c].id
  OBVIOUS
<1>3. OneMore(x) /\ x \in TargetIDs /\ x \in pipes
  BY <1>1, <1>2, OneParts DEF Stage
<1>4. Fit(windows, active) /\ windows \in Seq(WindowState) /\ WinsApart(windows)
  BY OneParts
<1>5. PICK s \in Spots(windows) :
         /\ On(windows, s).id = x
         /\ \A p, q \in Spots(windows) \ {s} : On(windows, p).id = On(windows, q).id => p = q
         /\ \A p \in Spots(windows) \ {s} : On(windows, p).id \in pipes
  BY <1>3 DEF OneMore
<1>6. RemovePane(x)
  <2>1. HasPane(x)
    BY <1>4, <1>5, HasPaneSpot
  <2> QED BY <1>2, <2>1 DEF SplitUndo
<1>7. PICK t \in Spots(windows) :
        /\ On(windows, t).id = x
        /\ \E back : DrawnFrom(windows, windows', Spots(windows) \ {t}, back)
  BY <1>4, <1>6, RemovePaneSpot
<1>8. PICK back : DrawnFrom(windows, windows', Spots(windows) \ {t}, back)
  BY <1>7
<1>9. /\ \A p \in Spots(windows') : /\ back[p] \in Spots(windows) \ {t}
                                    /\ On(windows', p) = On(windows, back[p])
      /\ \A p, q \in Spots(windows') : back[p] = back[q] => p = q
  BY <1>8 DEF DrawnFrom, Bijection, Injection, IsInjective
<1>10. \A p, q \in Spots(windows) \ {t} : On(windows, p).id = On(windows, q).id => p = q
  BY <1>5, <1>7
<1>11. \A p \in Spots(windows) : On(windows, p).id \in pipes
  BY <1>3, <1>5
<1>12. IDsApart(windows')
  BY <1>9, <1>10 DEF IDsApart
<1>13. RefsApart(windows')
  BY <1>3, <1>9 DEF OneMore, RefsApart
<1>14. \A p \in Spots(windows') : On(windows', p).id \in pipes'
  BY <1>1, <1>9, <1>11
<1>15. Calm'
  BY <1>12, <1>13, <1>14 DEF Calm, Fed
<1>16. layouts' = layouts
  BY <1>6 DEF RemovePane
<1>17. Fit(windows, active)' /\ WinsApart(windows')
  BY <1>3, <1>4, <1>6, FitRemovePane, RemovePaneWins, SameWinsApart
<1>18. Stage(Idle)'
  BY <1>15 DEF Stage, Idle, CalmStages, SwapStages
<1> QED BY <1>1, <1>16, <1>17, <1>18, OneGoesOn

\* handlePaneClose takes out the one pane of the ID.
LEMMA OnePaneClose ==
  ASSUME OneClient, OneInv, NEW c \in Clients, PaneClose(c)
  PROVE  OneInv'
<1>1. h[c].at = "idle" /\ pipes' = pipes
  BY DEF PaneClose, Asks, Idle
<1>2. PICK id \in TargetIDs : RemovePane(id) /\ Goto(c, [at |-> "close_deregister", id |-> id])
  BY DEF PaneClose
<1>3. Calm /\ Fit(windows, active) /\ windows \in Seq(WindowState) /\ WinsApart(windows)
  BY <1>1, OneParts DEF CalmStages
<1>4. Drawn(windows, windows') /\ \A p \in Spots(windows') : On(windows', p).id # id
  BY <1>2, <1>3, RemoveDrawn DEF Calm
<1>5. RefsApart(windows') /\ IDsApart(windows')
      /\ \A p \in Spots(windows') : \E q \in Spots(windows) : On(windows', p) = On(windows, q)
  BY <1>3, <1>4, DrawnApart DEF Calm
<1>6. Calm'
  BY <1>1, <1>3, <1>5 DEF Calm, Fed
<1>7. Fit(windows, active)' /\ WinsApart(windows')
  BY <1>2, <1>3, FitRemovePane, RemovePaneWins, SameWinsApart
<1>8. ~HasPane(id)'
  BY <1>4, <1>7, GoneForGood DEF Fit
<1>9. PICK next : next = [at |-> "close_deregister", id |-> id]
  OBVIOUS
<1>10. next.at = "close_deregister" /\ next.id = id /\ Goto(c, next)
  BY <1>2, <1>9
<1>11. Stage(next)'
  BY <1>6, <1>8, <1>10 DEF Stage, CalmStages, SwapStages
<1>12. layouts' = layouts
  BY <1>2 DEF RemovePane
<1> QED BY <1>7, <1>10, <1>11, <1>12, OneGoesOn

\* The pipeline of an ID that no pane has goes.
LEMMA UnusedGoes ==
  ASSUME windows \in Seq(WindowState), NEW id, ~HasPane(id), Calm,
         windows' = windows, pipes' = pipes \ {id}
  PROVE  Calm'
<1>1. \A p \in Spots(windows) : On(windows, p).id # id
  BY HasPaneSpot
<1> QED BY <1>1 DEF Calm, Fed, RefsApart, IDsApart

\* ... and then its pipeline, which no pane needs.
LEMMA OnePaneCloseDeregister ==
  ASSUME OneClient, OneInv, NEW c \in Clients, PaneCloseDeregister(c)
  PROVE  OneInv'
<1>1. /\ h[c].at = "close_deregister" /\ UNCHANGED mvars
      /\ pipes' = pipes \ {h[c].id} /\ Goto(c, [at |-> "broadcast"])
  BY DEF PaneCloseDeregister, Deregister
<1>2. Calm /\ ~HasPane(h[c].id) /\ windows \in Seq(WindowState)
  BY <1>1, OneParts DEF Stage, CalmStages
<1>3. PICK x : x = h[c].id
  OBVIOUS
<1>4. ~HasPane(x) /\ pipes' = pipes \ {x} /\ windows' = windows
  BY <1>1, <1>2, <1>3 DEF mvars
<1>5. Calm'
  BY <1>2, <1>4, UnusedGoes
<1>6. Stage([at |-> "broadcast"])'
  BY <1>5 DEF Stage, CalmStages, SwapStages
<1> QED BY <1>1, <1>6, OneStays

\* The group's panes are collected.
LEMMA OneKillReads ==
  ASSUME OneClient, OneInv, NEW c \in Clients,
         KillWindows(c) \/ KillOpenWindow(c) \/ KillReadWindow(c) \/ KillCollected(c)
         \/ BroadcastLayoutUpdate(c)
  PROVE  OneInv'
<1>1. h[c].at \in {"idle", "kill_collect", "kill_read", "broadcast"} /\ UNCHANGED <<mvars, pipes>>
  <2>1. KillWindows(c) => h[c].at = "idle" /\ UNCHANGED <<mvars, pipes>>
    BY DEF KillWindows, Asks, Idle
  <2>2. KillOpenWindow(c) => h[c].at = "kill_collect" /\ UNCHANGED <<mvars, pipes>>
    BY DEF KillOpenWindow
  <2>3. KillReadWindow(c) => h[c].at = "kill_read" /\ UNCHANGED <<mvars, pipes>>
    BY DEF KillReadWindow
  <2>4. KillCollected(c) => h[c].at = "kill_collect" /\ UNCHANGED <<mvars, pipes>>
    BY DEF KillCollected
  <2>5. BroadcastLayoutUpdate(c) => h[c].at = "broadcast" /\ UNCHANGED <<mvars, pipes>>
    BY DEF BroadcastLayoutUpdate
  <2> QED BY <2>1, <2>2, <2>3, <2>4, <2>5
<1>2. Calm
  BY <1>1, OneParts DEF CalmStages
<1>3. \E next : Goto(c, next) /\ next.at \in PlainStages
  <2>1. CASE KillWindows(c)
    BY <2>1 DEF KillWindows, PlainStages
  <2>2. CASE KillOpenWindow(c)
    BY <2>2 DEF KillOpenWindow, PlainStages
  <2>3. CASE KillReadWindow(c)
    <3>1. \E ids : Goto(c, [at |-> "kill_collect", group |-> h[c].group,
                            targets |-> h[c].targets \o ids, wins |-> Tail(h[c].wins)])
      BY <2>3 DEF KillReadWindow
    <3> QED BY <3>1 DEF PlainStages
  <2>4. CASE KillCollected(c)
    BY <2>4 DEF KillCollected, PlainStages, Idle
  <2>5. CASE BroadcastLayoutUpdate(c)
    BY <2>5 DEF BroadcastLayoutUpdate, PlainStages, Idle
  <2> QED BY <2>1, <2>2, <2>3, <2>4, <2>5
<1>4. PICK next : Goto(c, next) /\ next.at \in PlainStages
  BY <1>3
<1> QED BY <1>1, <1>2, <1>4, OnePlain

\* A pane of the group goes, or was gone.
LEMMA OneKillRemove ==
  ASSUME OneClient, OneInv, NEW c \in Clients, KillRemove(c)
  PROVE  OneInv'
<1>1. h[c].at = "kill_remove" /\ pipes' = pipes
  BY DEF KillRemove
<1>2. PICK x : x = Head(h[c].targets)
  OBVIOUS
<1>3. PICK next : next = [h[c] EXCEPT !.at = "kill_deregister"]
  OBVIOUS
<1>4. Goto(c, next) /\ next.at = "kill_deregister" /\ next.targets = h[c].targets
  BY <1>1, <1>3 DEF KillRemove
<1>5. Calm /\ Fit(windows, active) /\ windows \in Seq(WindowState) /\ WinsApart(windows)
  BY <1>1, OneParts DEF CalmStages
<1>6. CASE RemovePane(x)
  <2>1. x \in TargetIDs
    <3>1. PICK s \in Spots(windows) : On(windows, s).id = x
      BY <1>5, <1>6, RemovePaneSpot
    <3> QED BY <3>1, <1>5, SpotPane DEF PaneState
  <2>2. Drawn(windows, windows') /\ \A p \in Spots(windows') : On(windows', p).id # x
    BY <1>5, <1>6, RemoveDrawn DEF Calm
  <2>3. RefsApart(windows') /\ IDsApart(windows')
        /\ \A p \in Spots(windows') : \E q \in Spots(windows) : On(windows', p) = On(windows, q)
    BY <1>5, <2>2, DrawnApart DEF Calm
  <2>4. Calm'
    BY <1>1, <1>5, <2>3 DEF Calm, Fed
  <2>5. Fit(windows, active)' /\ WinsApart(windows')
    BY <1>5, <1>6, <2>1, FitRemovePane, RemovePaneWins, SameWinsApart
  <2>6. ~HasPane(x)'
    BY <2>2, <2>5, GoneForGood DEF Fit
  <2>7. x = Head(next.targets)
    BY <1>2, <1>4
  <2>8. Stage(next)'
    BY <1>4, <2>4, <2>6, <2>7 DEF Stage, CalmStages, SwapStages
  <2>9. layouts' = layouts
    BY <1>6 DEF RemovePane
  <2> QED BY <1>4, <2>5, <2>8, <2>9, OneGoesOn
<1>7. CASE ~HasPane(x) /\ UNCHANGED mvars
  <2>1. Calm'
    BY <1>1, <1>5, <1>7, CalmSame DEF mvars
  <2>2. ~HasPane(x)'
    BY <1>7 DEF HasPane, mvars
  <2>3. x = Head(next.targets)
    BY <1>2, <1>4
  <2>4. Stage(next)'
    BY <1>4, <2>1, <2>2, <2>3 DEF Stage, CalmStages, SwapStages
  <2> QED BY <1>4, <1>7, <2>4, OneStays
<1> QED BY <1>2, <1>6, <1>7 DEF KillRemove

\* ... and its pipeline.
LEMMA OneKillDeregister ==
  ASSUME OneClient, OneInv, NEW c \in Clients, KillDeregister(c)
  PROVE  OneInv'
<1>1. h[c].at = "kill_deregister" /\ UNCHANGED mvars
  BY DEF KillDeregister
<1>2. PICK x : x = Head(h[c].targets)
  OBVIOUS
<1>3. Calm /\ ~HasPane(x) /\ windows \in Seq(WindowState)
  BY <1>1, <1>2, OneParts DEF Stage, CalmStages
<1>4. pipes' = pipes \ {x} /\ windows' = windows
  BY <1>1, <1>2 DEF KillDeregister, Deregister, mvars
<1>5. Calm'
  BY <1>3, <1>4, UnusedGoes
<1>6. \E next : Goto(c, next) /\ next.at \in {"broadcast", "kill_remove"}
  <2>1. CASE Len(h[c].targets) = 1
    BY <2>1 DEF KillDeregister
  <2>2. CASE Len(h[c].targets) # 1
    <3>1. PICK next : next = [h[c] EXCEPT !.at = "kill_remove", !.targets = Tail(@)]
      OBVIOUS
    <3>2. Goto(c, next)
      BY <2>2, <3>1 DEF KillDeregister
    <3>3. next.at = "kill_remove"
      BY <1>1, <3>1
    <3> QED BY <3>2, <3>3
  <2> QED BY <2>1, <2>2
<1>7. PICK next : Goto(c, next) /\ next.at \in {"broadcast", "kill_remove"}
  BY <1>6
<1>8. Stage(next)'
  BY <1>5, <1>7 DEF Stage, CalmStages, SwapStages
<1> QED BY <1>1, <1>7, <1>8, OneStays

-----------------------------------------------------------------------------
(* Layouts. *)

\* A snapshot of a session whose IDs are apart has them apart.
LEMMA OneSaveSnapshot ==
  ASSUME OneClient, OneInv, NEW c \in Clients, SaveSnapshot(c)
  PROVE  OneInv'
<1>1. h[c].at = "idle" /\ UNCHANGED <<mvars, pipes>>
  BY DEF SaveSnapshot, Asks, Idle
<1>2. Calm /\ Fit(windows, active)
  BY <1>1, OneParts DEF CalmStages
<1>3. PICK n \in LayoutNames : Goto(c, [at |-> "save_store", layout |-> n, snap |-> Snapshot])
  BY DEF SaveSnapshot
<1>4. PICK snap : snap = Snapshot
  OBVIOUS
<1>5. FitLayout(snap) /\ SavedApart(snap)
  BY <1>2, <1>4, FitSnapshot, SnapshotApart DEF Calm
<1>6. PICK next : next = [at |-> "save_store", layout |-> n, snap |-> snap]
  OBVIOUS
<1>7. Goto(c, next) /\ next.at = "save_store" /\ next.layout = n /\ next.snap = snap
  BY <1>3, <1>4, <1>6
<1>8. Calm'
  BY <1>1, <1>2, CalmSame DEF mvars
<1>9. Stage(next)'
  BY <1>5, <1>7, <1>8 DEF Stage, CalmStages, SwapStages
<1> QED BY <1>1, <1>7, <1>9, OneStays

\* It is saved.
LEMMA OneSaveStore ==
  ASSUME OneClient, OneInv, NEW c \in Clients, SaveStore(c)
  PROVE  OneInv'
<1>1. h[c].at = "save_store" /\ UNCHANGED <<windows, active, pipes>> /\ Goto(c, Idle)
  BY DEF SaveStore
<1>2. Calm /\ Fit(windows, active) /\ WinsApart(windows) /\ FitLayouts /\ LayoutsApart
  BY <1>1, OneParts DEF CalmStages
<1>3. PICK n, snap : n = h[c].layout /\ snap = h[c].snap
  OBVIOUS
<1>4. n \in LayoutNames /\ FitLayout(snap) /\ SavedApart(snap)
  BY <1>1, <1>3, OneParts DEF Stage
<1>5. SaveLayout(n, snap)
  BY <1>3 DEF SaveStore
<1>6. /\ FitLayouts'
      /\ \A m \in DOMAIN layouts' : \/ layouts'[m] = snap
                                    \/ m \in DOMAIN layouts /\ layouts'[m] = layouts[m]
  BY <1>2, <1>4, <1>5, StoreFits
<1>7. ASSUME NEW m \in DOMAIN layouts' PROVE SavedApart(layouts'[m])
  BY <1>2, <1>4, <1>6 DEF LayoutsApart
<1>8. LayoutsApart'
  BY <1>7 DEF LayoutsApart, SavedApart
<1>9. Calm'
  BY <1>1, <1>2, CalmSame
<1>10. Stage(Idle)'
  BY <1>9 DEF Stage, Idle, CalmStages, SwapStages
<1>11. Fit(windows, active)' /\ WinsApart(windows)'
  BY <1>1, <1>2
<1> QED BY <1>1, <1>6, <1>8, <1>10, <1>11, OneGoes

\* A saved layout is read.
LEMMA OneApplyBefore ==
  ASSUME OneClient, OneInv, NEW c \in Clients, ApplyBefore(c)
  PROVE  OneInv'
<1>1. h[c].at = "idle" /\ UNCHANGED <<mvars, pipes>>
  BY DEF ApplyBefore, Asks, Idle
<1>2. Calm /\ FitLayouts /\ LayoutsApart
  BY <1>1, OneParts DEF CalmStages
<1>3. PICK n \in DOMAIN layouts :
        Goto(c, [at |-> "apply_restore", snap |-> layouts[n], before |-> AllPaneIDs])
  BY DEF ApplyBefore
<1>4. PICK snap, before : snap = layouts[n] /\ before = AllPaneIDs
  OBVIOUS
<1>5. FitLayout(snap) /\ SavedApart(snap)
  BY <1>2, <1>4 DEF FitLayouts, LayoutsApart
<1>6. PICK next : next = [at |-> "apply_restore", snap |-> snap, before |-> before]
  OBVIOUS
<1>7. Goto(c, next) /\ next.at = "apply_restore" /\ next.snap = snap
  BY <1>3, <1>4, <1>6
<1>8. Calm'
  BY <1>1, <1>2, CalmSame DEF mvars
<1>9. Stage(next)'
  BY <1>5, <1>7, <1>8 DEF Stage, CalmStages, SwapStages
<1> QED BY <1>1, <1>7, <1>9, OneStays

\* It replaces the session: the new panes are apart, and may have no pipelines yet.
LEMMA OneApplyRestore ==
  ASSUME OneClient, OneInv, AddressesSuffice, NEW c \in Clients, ApplyRestore(c)
  PROVE  OneInv'
<1>1. h[c].at = "apply_restore"
  BY DEF ApplyRestore
<1>2. FitLayout(h[c].snap) /\ SavedApart(h[c].snap)
  BY <1>1, OneParts DEF Stage
<1>3. /\ Fit(windows, active)' /\ RefsApart(windows') /\ WinsApart(windows')
      /\ IDsApart(windows') /\ layouts' = layouts
  BY <1>2, RestoreStep
<1>4. \E next : Goto(c, next) /\ next.at = "apply_after"
  BY DEF ApplyRestore
<1>5. PICK next : Goto(c, next) /\ next.at = "apply_after"
  BY <1>4
<1>6. Stage(next)'
  BY <1>3, <1>5 DEF Stage, CalmStages, SwapStages
<1> QED BY <1>3, <1>5, <1>6, OneGoesOn

\* The difference of the IDs before and after decides what goes and what comes.
LEMMA OneApplyAfter ==
  ASSUME OneClient, OneInv, NEW c \in Clients, ApplyAfter(c)
  PROVE  OneInv'
<1>1. h[c].at = "apply_after" /\ UNCHANGED <<mvars, pipes>>
  BY DEF ApplyAfter
<1>2. RefsApart(windows) /\ IDsApart(windows) /\ windows \in Seq(WindowState)
  BY <1>1, OneParts DEF Stage
<1>3. PICK drop, add : drop = h[c].before \ AllPaneIDs /\ add = AllPaneIDs
  OBVIOUS
<1>4. \A p \in Spots(windows) : On(windows, p).id \in AllPaneIDs
  <2>1. \A p \in Spots(windows) : On(windows, p).id \in TargetIDs
    BY <1>2, SpotPane DEF PaneState
  <2>2. \A p \in Spots(windows) : HasPane(On(windows, p).id)
    BY <1>2, HasPaneSpot
  <2> QED BY <2>1, <2>2 DEF AllPaneIDs
<1>5. \A x \in drop : ~HasPane(x)
  BY <1>2, <1>3, <1>4, HasPaneSpot
<1>6. PICK next : next = [at |-> "apply_reconcile", drop |-> drop, add |-> add]
  OBVIOUS
<1>7. Goto(c, next) /\ next.at = "apply_reconcile" /\ next.drop = drop /\ next.add = add
  BY <1>3, <1>6 DEF ApplyAfter
<1>8. windows' = windows /\ pipes' = pipes
  BY <1>1 DEF mvars
<1>9. RefsApart(windows') /\ IDsApart(windows')
  BY <1>2, <1>8
<1>10. \A x \in next.drop : ~HasPane(x)'
  BY <1>5, <1>7, <1>8 DEF HasPane
<1>11. \A p \in Spots(windows') : On(windows', p).id \in pipes' \cup next.add
  BY <1>3, <1>4, <1>7, <1>8
<1>12. Stage(next)'
  BY <1>7, <1>9, <1>10, <1>11 DEF Stage, CalmStages, SwapStages
<1> QED BY <1>1, <1>7, <1>12, OneStays

\* Pipelines no pane needs go; those the panes need come; at the end all panes are fed.
LEMMA OneApplyReconciles ==
  ASSUME OneClient, OneInv, NEW c \in Clients,
         ApplyDeregister(c) \/ ApplyRegister(c) \/ ApplyDone(c)
  PROVE  OneInv'
<1>1. h[c].at = "apply_reconcile" /\ UNCHANGED mvars
  <2>1. ApplyDeregister(c) => h[c].at = "apply_reconcile" /\ UNCHANGED mvars
    BY DEF ApplyDeregister
  <2>2. ApplyRegister(c) => h[c].at = "apply_reconcile" /\ UNCHANGED mvars
    BY DEF ApplyRegister
  <2>3. ApplyDone(c) => h[c].at = "apply_reconcile" /\ UNCHANGED mvars
    BY DEF ApplyDone
  <2> QED BY <2>1, <2>2, <2>3
<1>2. /\ RefsApart(windows) /\ IDsApart(windows) /\ windows \in Seq(WindowState)
      /\ \A x \in h[c].drop : ~HasPane(x)
      /\ \A p \in Spots(windows) : On(windows, p).id \in pipes \cup h[c].add
  BY <1>1, OneParts DEF Stage
<1>3. windows' = windows
  BY <1>1 DEF mvars
<1>4. RefsApart(windows') /\ IDsApart(windows')
  BY <1>2, <1>3
<1>5. CASE ApplyDeregister(c)
  <2>1. PICK id \in h[c].drop :
          pipes' = pipes \ {id} /\ Goto(c, [h[c] EXCEPT !.drop = @ \ {id}])
    BY <1>5 DEF ApplyDeregister, Deregister
  <2>2. PICK next : next = [h[c] EXCEPT !.drop = @ \ {id}]
    OBVIOUS
  <2>3. Goto(c, next) /\ next.at = "apply_reconcile" /\ next.add = h[c].add
    BY <1>1, <2>1, <2>2
  <2>4. next.drop \subseteq h[c].drop
    BY <2>2
  <2>5. \A x \in next.drop : ~HasPane(x)'
    BY <1>2, <1>3, <2>4 DEF HasPane
  <2>6. \A p \in Spots(windows) : On(windows, p).id # id
    BY <1>2, HasPaneSpot
  <2>7. \A p \in Spots(windows') : On(windows', p).id \in pipes' \cup next.add
    BY <1>2, <1>3, <2>1, <2>3, <2>6
  <2>8. Stage(next)'
    BY <1>4, <2>3, <2>5, <2>7 DEF Stage, CalmStages, SwapStages
  <2> QED BY <1>1, <2>3, <2>8, OneStays
<1>6. CASE ApplyRegister(c)
  <2>1. PICK id \in h[c].add :
          pipes' = pipes \cup {id} /\ Goto(c, [h[c] EXCEPT !.add = @ \ {id}])
    BY <1>6 DEF ApplyRegister
  <2>2. PICK next : next = [h[c] EXCEPT !.add = @ \ {id}]
    OBVIOUS
  <2>3. Goto(c, next) /\ next.at = "apply_reconcile" /\ next.drop = h[c].drop
    BY <1>1, <2>1, <2>2
  <2>4. h[c].add \subseteq next.add \cup {id}
    BY <2>2
  <2>5. \A x \in next.drop : ~HasPane(x)'
    BY <1>2, <1>3, <2>3 DEF HasPane
  <2>6. \A p \in Spots(windows') : On(windows', p).id \in pipes' \cup next.add
    BY <1>2, <1>3, <2>1, <2>4
  <2>7. Stage(next)'
    BY <1>4, <2>3, <2>5, <2>6 DEF Stage, CalmStages, SwapStages
  <2> QED BY <1>1, <2>3, <2>7, OneStays
<1>7. CASE ApplyDone(c)
  <2>1. h[c].add = {} /\ pipes' = pipes /\ Goto(c, [at |-> "broadcast"])
    BY <1>7 DEF ApplyDone
  <2>2. Calm'
    BY <1>2, <1>3, <1>4, <2>1 DEF Calm, Fed
  <2>3. Stage([at |-> "broadcast"])'
    BY <2>2 DEF Stage, CalmStages, SwapStages
  <2> QED BY <1>1, <2>1, <2>3, OneStays
<1> QED BY <1>5, <1>6, <1>7

-----------------------------------------------------------------------------
(* Swaps. *)

\* A handler that holds the address of a pane at one place finds that pane.
LEMMA PaneOfSpot ==
  ASSUME windows \in Seq(WindowState), RefsApart(windows), NEW p \in Spots(windows)
  PROVE  PaneOf(On(windows, p).ref) = On(windows, p)
<1>1. PICK r : r = On(windows, p).ref
  OBVIOUS
<1>2. LivePane(r)
  BY <1>1, LivePaneSpot
<1>3. PICK i : i = CHOOSE k \in DOMAIN windows :
                     \E j \in DOMAIN windows[k].panes : windows[k].panes[j].ref = r
  OBVIOUS
<1>4. i \in DOMAIN windows /\ \E j \in DOMAIN windows[i].panes : windows[i].panes[j].ref = r
  BY <1>2, <1>3 DEF LivePane
<1>5. PICK j : j = CHOOSE l \in DOMAIN windows[i].panes : windows[i].panes[l].ref = r
  OBVIOUS
<1>6. j \in DOMAIN windows[i].panes /\ windows[i].panes[j].ref = r
  BY <1>4, <1>5
<1>7. <<i, j>> \in Spots(windows) /\ On(windows, <<i, j>>).ref = r
  <2>1. i \in Nat /\ j \in Nat
    BY <1>4, <1>6, WindowShape
  <2> QED BY <2>1, <1>4, <1>6 DEF Spots, On
<1>8. p = <<i, j>>
  BY <1>1, <1>7 DEF RefsApart
<1>9. PaneOf(r) = windows[i].panes[j]
  BY <1>2, <1>3, <1>5 DEF PaneOf
<1> QED BY <1>1, <1>8, <1>9 DEF On

\* The panes are where they were; what is written in them may be another split.
SameButSplits(ws, vs) ==
    /\ Spots(vs) = Spots(ws)
    /\ \A p \in Spots(ws) : On(vs, p).ref = On(ws, p).ref /\ On(vs, p).id = On(ws, p).id

\* The Split fields change places: nothing else does.
LEMMA SwapSplitsShape ==
  ASSUME Fit(windows, active), RefsApart(windows),
         NEW p1 \in Spots(windows), NEW p2 \in Spots(windows), NEW one, NEW two,
         one = On(windows, p1).ref, two = On(windows, p2).ref,
         NEW written, written = SwapWritten(one, two),
         WritesPanes(written)
  PROVE  /\ Fit(windows', active)
         /\ SameWins(windows, windows')
         /\ SameButSplits(windows, windows')
         /\ \A i \in DOMAIN windows : windows'[i].name = windows[i].name
<1>1. windows \in Seq(WindowState)
  BY DEF Fit
<1>2. PaneOf(one) = On(windows, p1) /\ PaneOf(two) = On(windows, p2)
  BY <1>1, PaneOfSpot
<1>3. On(windows, p1) \in PaneState /\ On(windows, p2) \in PaneState
  BY <1>1, SpotPane
<1>4. /\ DOMAIN written = {one, two}
      /\ written[one] \in PaneState /\ written[one].ref = one /\ written[one].id = On(windows, p1).id
      /\ written[two] \in PaneState /\ written[two].ref = two /\ written[two].id = On(windows, p2).id
  <2>1. written[one] = [On(windows, p1) EXCEPT !.split = On(windows, p2).split]
    BY <1>2 DEF SwapWritten
  <2>2. written[one] \in PaneState /\ written[one].ref = one /\ written[one].id = On(windows, p1).id
    BY <2>1, <1>3 DEF PaneState
  <2>3. CASE one = two
    <3>1. p1 = p2
      BY <2>3 DEF RefsApart
    <3> QED BY <2>2, <2>3, <3>1 DEF SwapWritten
  <2>4. CASE one # two
    <3>1. written[two] = [On(windows, p2) EXCEPT !.split = On(windows, p1).split]
      BY <2>4, <1>2 DEF SwapWritten
    <3> QED BY <2>2, <3>1, <1>3 DEF PaneState, SwapWritten
  <2> QED BY <2>3, <2>4
<1>5. ASSUME NEW p \in Spots(windows)
      PROVE  /\ Rewritten(On(windows, p), written) \in PaneState
             /\ Rewritten(On(windows, p), written).ref = On(windows, p).ref
             /\ Rewritten(On(windows, p), written).id = On(windows, p).id
  <2>1. On(windows, p) \in PaneState
    BY <1>1, SpotPane
  <2>2. CASE On(windows, p).ref = one
    <3>1. p = p1
      BY <2>2 DEF RefsApart
    <3> QED BY <2>2, <3>1, <1>4 DEF Rewritten
  <2>3. CASE On(windows, p).ref = two
    <3>1. p = p2
      BY <2>3 DEF RefsApart
    <3> QED BY <2>3, <3>1, <1>4 DEF Rewritten
  <2>4. CASE On(windows, p).ref \notin {one, two}
    BY <2>1, <2>4, <1>4 DEF Rewritten
  <2> QED BY <2>2, <2>3, <2>4
<1>6. PICK vs : vs = windows'
  OBVIOUS
<1>61. windows' = [i \in DOMAIN windows |-> [windows[i] EXCEPT !.panes =
                     [j \in DOMAIN @ |-> IF @[j].ref \in DOMAIN written
                                         THEN written[@[j].ref] ELSE @[j]]]]
  BY DEF WritesPanes
<1>7. ASSUME NEW i \in DOMAIN windows
      PROVE  /\ vs[i] \in WindowState
             /\ vs[i].ref = windows[i].ref
             /\ vs[i].name = windows[i].name
             /\ Len(vs[i].panes) = Len(windows[i].panes)
             /\ \A j \in DOMAIN windows[i].panes :
                   vs[i].panes[j] = Rewritten(windows[i].panes[j], written)
  <2>1. PICK ps : ps = windows[i].panes
    OBVIOUS
  <2>2. ps \in Seq(PaneState) /\ Len(ps) \in Nat /\ DOMAIN ps = 1 .. Len(ps) /\ windows[i] \in WindowState
        /\ i \in Nat
    BY <1>1, <2>1, WindowShape
  <2>3. PICK qs : qs = [j \in 1 .. Len(ps) |-> Rewritten(ps[j], written)]
    OBVIOUS
  <2>4. vs[i] = [windows[i] EXCEPT !.panes = [j \in DOMAIN @ |-> IF @[j].ref \in DOMAIN written
                                           THEN written[@[j].ref] ELSE @[j]]]
    BY <1>6, <1>61
  <2>5. vs[i] = [windows[i] EXCEPT !.panes = qs]
    BY <2>1, <2>2, <2>3, <2>4 DEF Rewritten
  <2>6. ASSUME NEW j \in 1 .. Len(ps) PROVE Rewritten(ps[j], written) \in PaneState
    <3>1. <<i, j>> \in Spots(windows) /\ On(windows, <<i, j>>) = ps[j]
      BY <2>1, <2>2 DEF Spots, On
    <3> QED BY <3>1, <1>5
  <2>7. qs \in Seq(PaneState) /\ Len(qs) = Len(ps)
    <3>1. qs \in [1 .. Len(ps) -> PaneState]
      BY <2>3, <2>6
    <3> QED BY <2>2, <3>1, FunctionIsSeq
  <2>8. vs[i].panes = qs /\ vs[i] \in WindowState /\ vs[i].ref = windows[i].ref /\ vs[i].name = windows[i].name
    BY <2>2, <2>5, <2>7 DEF WindowState
  <2> QED BY <2>1, <2>2, <2>3, <2>7, <2>8
<1>8. vs = [i \in DOMAIN windows |-> vs[i]]
  BY <1>6, <1>61
<1>9. Fit(vs, active) /\ SameWins(windows, vs) /\ Spots(vs) = Spots(windows)
  BY <1>7, <1>8, SameShape
<1>10. ASSUME NEW p \in Spots(windows)
       PROVE  On(vs, p).ref = On(windows, p).ref /\ On(vs, p).id = On(windows, p).id
  <2>1. p[1] \in DOMAIN windows /\ p[2] \in DOMAIN windows[p[1]].panes
    BY DEF Spots
  <2>2. On(vs, p) = Rewritten(On(windows, p), written)
    BY <2>1, <1>7 DEF On
  <2> QED BY <2>2, <1>5
<1> QED BY <1>6, <1>61, <1>7, <1>9, <1>10 DEF SameButSplits

\* The slot s is given another pane.
SetsAt(ws, vs, s, pane) == /\ Spots(vs) = Spots(ws)
                           /\ On(vs, s) = pane
                           /\ \A p \in Spots(ws) : p # s => On(vs, p) = On(ws, p)

\* SwapWrite sets one slot, and no other.
LEMMA SwapWriteShape ==
  ASSUME Fit(windows, active), WinsApart(windows), NEW s \in Spots(windows), NEW r,
         r = windows[s[1]].ref, NEW pane \in PaneState,
         NEW moved, moved = [WindowOf(r) EXCEPT !.panes[s[2]] = pane],
         WritesWindow(r, moved)
  PROVE  /\ Fit(windows', active)
         /\ SameWins(windows, windows')
         /\ SetsAt(windows, windows', s, pane)
<1>1. windows \in Seq(WindowState)
  BY DEF Fit
<1>2. PICK a \in DOMAIN windows, b \in DOMAIN windows[s[1]].panes : a = s[1] /\ b = s[2]
  BY DEF Spots
<1>3. PICK ps : ps = windows[a].panes
  OBVIOUS
<1>4. /\ ps \in Seq(PaneState) /\ Len(ps) \in Nat /\ DOMAIN ps = 1 .. Len(ps)
      /\ windows[a] \in WindowState /\ b \in 1 .. Len(ps)
  BY <1>1, <1>2, <1>3, WindowShape
<1>5. PICK qs : qs = [ps EXCEPT ![b] = pane]
  OBVIOUS
<1>6. /\ qs \in Seq(PaneState) /\ Len(qs) = Len(ps)
      /\ \A j \in 1 .. Len(ps) : qs[j] = IF j = b THEN pane ELSE ps[j]
  BY <1>4, <1>5, ExceptSeq
<1>7. WindowOf(r) = windows[a]
  BY <1>2, WindowOfLive
<1>8. /\ moved.panes = qs /\ moved \in WindowState
      /\ moved.ref = windows[a].ref /\ moved.name = windows[a].name
  <2>1. moved = [windows[a] EXCEPT !.panes = qs]
    BY <1>2, <1>3, <1>5, <1>7
  <2> QED BY <2>1, <1>4, <1>6 DEF WindowState
<1>9. PICK vs : vs = windows'
  OBVIOUS
<1>91. windows' = [i \in DOMAIN windows |-> IF windows[i].ref = r THEN moved ELSE windows[i]]
  BY DEF WritesWindow
<1>10. \A i \in DOMAIN windows : vs[i] = IF i = a THEN moved ELSE windows[i]
  BY <1>2, <1>9, <1>91 DEF WinsApart
<1>11. ASSUME NEW i \in DOMAIN windows
       PROVE  /\ vs[i] \in WindowState
              /\ vs[i].ref = windows[i].ref
              /\ vs[i].name = windows[i].name
              /\ Len(vs[i].panes) = Len(windows[i].panes)
  BY <1>1, <1>3, <1>6, <1>8, <1>10, WindowShape
<1>12. vs = [i \in DOMAIN windows |-> vs[i]]
  BY <1>9, <1>91
<1>13. Fit(vs, active) /\ SameWins(windows, vs) /\ Spots(vs) = Spots(windows)
  BY <1>11, <1>12, SameShape
<1>14. On(vs, s) = pane
  BY <1>2, <1>4, <1>6, <1>8, <1>10 DEF On
<1>15. ASSUME NEW p \in Spots(windows), p # s PROVE On(vs, p) = On(windows, p)
  <2>1. /\ p = <<p[1], p[2]>> /\ p[1] \in DOMAIN windows /\ p[2] \in DOMAIN windows[p[1]].panes
        /\ s = <<s[1], s[2]>>
    BY DEF Spots
  <2>2. CASE p[1] = a
    <3>1. p[2] # b /\ p[2] \in 1 .. Len(ps)
      BY <2>1, <2>2, <1>2, <1>3, <1>4, <1>15
    <3> QED BY <3>1, <2>2, <1>3, <1>6, <1>8, <1>10 DEF On
  <2>3. CASE p[1] # a
    BY <2>1, <2>3, <1>10 DEF On
  <2> QED BY <2>2, <2>3
<1> QED BY <1>9, <1>13, <1>14, <1>15 DEF SetsAt

\* A pane that the handler holds and that is in no window is found again as it was.
LEMMA DetachKeeps ==
  ASSUME DOMAIN h = Clients, NEW c \in Clients, NEW next, Goto(c, next),
         "panes" \in DOMAIN next, 1 \in DOMAIN next.panes, NEW r, r = next.panes[1],
         ~LivePane(r)', NEW win, Detach(win, Nothing)
  PROVE  detached'.pane[r] = PaneOf(r)
<1>1. h'[c] = next
  BY DEF Goto
<1>2. r \in ToSet(next.panes)
  BY DEF ToSet
<1>3. r \in HeldPanes(h')
  BY <1>1, <1>2 DEF HeldPanes
<1>4. r \notin DOMAIN Nothing
  BY DEF Nothing
<1>5. detached'.pane = [x \in {q \in HeldPanes(h') : ~LivePane(q)'} |->
                          IF x \in DOMAIN Nothing THEN Nothing[x] ELSE PaneOf(x)]
  BY DEF Detach
<1> QED BY <1>3, <1>4, <1>5

\* Where the windows and panes of a swap are.
LEMMA LocatedParts ==
  ASSUME windows \in Seq(WindowState), RefsApart(windows), WinsApart(windows),
         NEW q, NEW n, NEW p \in Spots(windows), Located(q, n, p)
  PROVE  /\ p[1] \in DOMAIN windows /\ p[2] \in DOMAIN windows[p[1]].panes
         /\ PaneOf(q.panes[n]) = On(windows, p)
         /\ WindowOf(q.wins[n]) = windows[p[1]]
<1>1. p[1] \in DOMAIN windows /\ p[2] \in DOMAIN windows[p[1]].panes
  BY DEF Spots
<1>2. PaneOf(q.panes[n]) = On(windows, p)
  BY PaneOfSpot DEF Located
<1>3. WindowOf(q.wins[n]) = windows[p[1]]
  BY <1>1, WindowOfLive DEF Located
<1> QED BY <1>1, <1>2, <1>3

\* The first slot of an ID in a window, if one pane of the window has it.
FirstSlot(panes, id) == LET slots == {j \in DOMAIN panes : panes[j].id = id}
                        IN  CHOOSE j \in slots : \A k \in slots : j <= k

\* The slot the loop finds is that of the pane: its ID is in the window once.
LEMMA OnlySlot ==
  ASSUME NEW ws, NEW p \in Spots(ws), NEW panes, panes = ws[p[1]].panes, NEW id,
         DOMAIN panes \subseteq Nat, On(ws, p).id = id,
         \A r \in Spots(ws) : r[1] = p[1] /\ On(ws, r).id = id => r = p
  PROVE  /\ {j \in DOMAIN panes : panes[j].id = id} # {}
         /\ FirstSlot(panes, id) = p[2]
<1>1. p[1] \in DOMAIN ws /\ p[2] \in DOMAIN panes /\ p[1] \in Nat /\ p[2] \in Nat
  BY DEF Spots
<1>2. panes[p[2]].id = id
  BY DEF On
<1>3. ASSUME NEW j \in DOMAIN panes, panes[j].id = id PROVE j = p[2]
  <2>1. PICK r : r = <<p[1], j>>
    OBVIOUS
  <2>2. r \in Spots(ws) /\ r[1] = p[1] /\ r[2] = j
    BY <1>1, <2>1 DEF Spots
  <2>3. On(ws, r).id = id
    BY <1>3, <2>2 DEF On
  <2> QED BY <2>2, <2>3
<1>4. {j \in DOMAIN panes : panes[j].id = id} = {p[2]}
  BY <1>1, <1>2, <1>3
<1> QED BY <1>1, <1>4 DEF FirstSlot

\* The first pane of a swap is found where it is.
LEMMA OneSwapFindA ==
  ASSUME OneClient, OneInv, NEW c \in Clients, SwapFindA(c)
  PROVE  OneInv'
<1>1. h[c].at = "idle" /\ UNCHANGED <<mvars, pipes>>
  BY DEF SwapFindA, Asks, Idle
<1>2. Calm /\ windows \in Seq(WindowState)
  BY <1>1, OneParts DEF CalmStages
<1>3. PICK idA \in TargetIDs, idB \in TargetIDs, i \in DOMAIN windows :
        \E j \in DOMAIN windows[i].panes :
          /\ PaneAt(idA, i, j)
          /\ Goto(c, [at |-> "swap_find", ids |-> <<idA, idB>>,
                      wins |-> <<windows[i].ref>>, panes |-> <<windows[i].panes[j].ref>>])
  BY DEF SwapFindA
<1>4. PICK j \in DOMAIN windows[i].panes :
          /\ PaneAt(idA, i, j)
          /\ Goto(c, [at |-> "swap_find", ids |-> <<idA, idB>>,
                      wins |-> <<windows[i].ref>>, panes |-> <<windows[i].panes[j].ref>>])
  BY <1>3
<1>5. PICK p : p = <<i, j>>
  OBVIOUS
<1>6. p \in Spots(windows) /\ p[1] = i /\ On(windows, p) = windows[i].panes[j]
  <2>1. i \in Nat /\ j \in Nat
    BY <1>2, WindowShape
  <2> QED BY <1>5, <2>1 DEF Spots, On
<1>7. On(windows, p) \in PaneState /\ windows[i] \in WindowState
  BY <1>2, <1>6, SpotPane, WindowShape
<1>8. PICK w, r : w = windows[i].ref /\ r = windows[i].panes[j].ref
  OBVIOUS
<1>9. w \in WinRefs /\ r \in PaneRefs
  BY <1>6, <1>7, <1>8 DEF PaneState, WindowState
<1>10. PICK next : next = [at |-> "swap_find", ids |-> <<idA, idB>>, wins |-> <<w>>, panes |-> <<r>>]
  OBVIOUS
<1>11. /\ Goto(c, next) /\ next.at = "swap_find" /\ next.ids = <<idA, idB>>
       /\ next.wins = <<w>> /\ next.panes = <<r>>
  BY <1>4, <1>8, <1>10
<1>12. /\ next.wins \in Seq(WinRefs) /\ Len(next.wins) = 1
       /\ next.panes \in Seq(PaneRefs) /\ Len(next.panes) = 1
       /\ next.ids[1] = idA /\ next.wins[1] = w /\ next.panes[1] = r
  BY <1>9, <1>11
<1>13. On(windows, p).id = idA
  BY <1>4, <1>6 DEF PaneAt
<1>14. windows' = windows
  BY <1>1 DEF mvars
<1>15. Located(next, 1, p)'
  BY <1>6, <1>8, <1>12, <1>13, <1>14 DEF Located
<1>16. Calm'
  BY <1>1, <1>2, CalmSame DEF mvars
<1>17. p \in Spots(windows)'
  BY <1>6, <1>14
<1>18. Stage(next)'
  BY <1>11, <1>12, <1>15, <1>16, <1>17 DEF Stage, CalmStages, SwapStages
<1> QED BY <1>1, <1>11, <1>18, OneStays

\* The second is; the first is where it was.
LEMMA OneSwapFindB ==
  ASSUME OneClient, OneInv, NEW c \in Clients, SwapFindB(c)
  PROVE  OneInv'
<1>1. h[c].at = "swap_find" /\ UNCHANGED <<mvars, pipes>>
  BY DEF SwapFindB
<1>2. PICK q : q = h[c]
  OBVIOUS
<1>3. /\ Calm /\ windows \in Seq(WindowState)
      /\ q.wins \in Seq(WinRefs) /\ Len(q.wins) = 1
      /\ q.panes \in Seq(PaneRefs) /\ Len(q.panes) = 1
      /\ \E p \in Spots(windows) : Located(q, 1, p)
  BY <1>1, <1>2, OneParts DEF Stage, CalmStages
<1>4. Calm' /\ windows' = windows
  BY <1>1, <1>3, CalmSame DEF mvars
<1>5. CASE Goto(c, Idle)
  <2>1. Idle.at \in PlainStages
    BY DEF Idle, PlainStages
  <2> QED BY <1>1, <1>3, <1>5, <2>1, OnePlain
<1>6. CASE \E i \in DOMAIN windows : \E j \in DOMAIN windows[i].panes :
             /\ PaneAt(q.ids[2], i, j)
             /\ Goto(c, [q EXCEPT !.at = "swap_splits",
                                  !.wins = Append(@, windows[i].ref),
                                  !.panes = Append(@, windows[i].panes[j].ref)])
  <2>1. PICK i \in DOMAIN windows : \E j \in DOMAIN windows[i].panes :
             /\ PaneAt(q.ids[2], i, j)
             /\ Goto(c, [q EXCEPT !.at = "swap_splits",
                                  !.wins = Append(@, windows[i].ref),
                                  !.panes = Append(@, windows[i].panes[j].ref)])
    BY <1>6
  <2>2. PICK j \in DOMAIN windows[i].panes :
             /\ PaneAt(q.ids[2], i, j)
             /\ Goto(c, [q EXCEPT !.at = "swap_splits",
                                  !.wins = Append(@, windows[i].ref),
                                  !.panes = Append(@, windows[i].panes[j].ref)])
    BY <2>1
  <2>3. PICK p : p = <<i, j>>
    OBVIOUS
  <2>4. p \in Spots(windows) /\ p[1] = i /\ On(windows, p) = windows[i].panes[j]
    <3>1. i \in Nat /\ j \in Nat
      BY <1>3, WindowShape
    <3> QED BY <2>3, <3>1 DEF Spots, On
  <2>5. PICK w, r : w = windows[i].ref /\ r = windows[i].panes[j].ref
    OBVIOUS
  <2>6. w \in WinRefs /\ r \in PaneRefs
    <3>1. On(windows, p) \in PaneState /\ windows[i] \in WindowState
      BY <1>3, <2>4, SpotPane, WindowShape
    <3> QED BY <2>4, <2>5, <3>1 DEF PaneState, WindowState
  <2>7. PICK next : next = [q EXCEPT !.at = "swap_splits", !.wins = Append(@, w), !.panes = Append(@, r)]
    OBVIOUS
  <2>8. Goto(c, next)
    BY <2>2, <2>5, <2>7
  <2>9. /\ next.at = "swap_splits" /\ next.ids = q.ids
        /\ next.wins = Append(q.wins, w) /\ next.panes = Append(q.panes, r)
    BY <1>1, <1>2, <2>7
  <2>10. /\ next.wins[1] = q.wins[1] /\ next.wins[2] = w
         /\ next.panes[1] = q.panes[1] /\ next.panes[2] = r /\ 1 \in DOMAIN next.panes
    BY <1>3, <2>6, <2>9, AppendProperties
  <2>11. PICK p1 \in Spots(windows) : Located(q, 1, p1)
    BY <1>3
  <2>12. Located(next, 1, p1)'
    BY <1>4, <2>9, <2>10, <2>11 DEF Located
  <2>13. On(windows, p).id = q.ids[2]
    BY <2>2, <2>4 DEF PaneAt
  <2>14. Located(next, 2, p)'
    BY <1>4, <2>4, <2>5, <2>9, <2>10, <2>13 DEF Located
  <2>15. p1 \in Spots(windows)' /\ p \in Spots(windows)'
    BY <1>4, <2>4, <2>11
  <2>16. Stage(next)'
    BY <1>4, <2>9, <2>10, <2>12, <2>14, <2>15 DEF Stage, CalmStages, SwapStages
  <2> QED BY <1>1, <2>8, <2>16, OneStays
<1> QED BY <1>2, <1>5, <1>6 DEF SwapFindB

\* The fields are exchanged, and the panes are where they were.  In windows of one name,
\* which is one window, the swap ends.
LEMMA OneSwapSplits ==
  ASSUME OneClient, OneInv, NEW c \in Clients, SwapSplits(c)
  PROVE  OneInv'
<1>1. h[c].at = "swap_splits" /\ UNCHANGED <<active, layouts, pipes>>
  BY DEF SwapSplits
<1>2. PICK q : q = h[c]
  OBVIOUS
<1>3. /\ Calm /\ Fit(windows, active) /\ WinsApart(windows) /\ 1 \in DOMAIN q.panes
      /\ \E p1, p2 \in Spots(windows) : Located(q, 1, p1) /\ Located(q, 2, p2)
  BY <1>1, <1>2, OneParts DEF Stage, CalmStages
<1>4. PICK p1 \in Spots(windows), p2 \in Spots(windows) : Located(q, 1, p1) /\ Located(q, 2, p2)
  BY <1>3
<1>5. PICK one, two : one = q.panes[1] /\ two = q.panes[2]
  OBVIOUS
<1>6. one = On(windows, p1).ref /\ two = On(windows, p2).ref
  BY <1>4, <1>5 DEF Located
<1>7. PICK written : written = SwapWritten(one, two)
  OBVIOUS
<1>8. WritesPanes(written)
  BY <1>2, <1>5, <1>7 DEF SwapSplits, SwapWritten, WritesPanes
<1>9. RefsApart(windows)
  BY <1>3 DEF Calm
<1>10. /\ Fit(windows', active)
       /\ SameWins(windows, windows')
       /\ SameButSplits(windows, windows')
       /\ \A i \in DOMAIN windows : windows'[i].name = windows[i].name
  BY <1>3, <1>6, <1>7, <1>8, <1>9, SwapSplitsShape
<1>11. Calm'
  BY <1>1, <1>3, <1>10 DEF Calm, Fed, RefsApart, IDsApart, SameButSplits
<1>12. Fit(windows, active)' /\ WinsApart(windows') /\ layouts' = layouts
  BY <1>1, <1>3, <1>10, SameWinsApart
<1>13. CASE WindowOf(q.wins[1]).name = WindowOf(q.wins[2]).name
  <2>1. Goto(c, [at |-> "broadcast"])
    BY <1>2, <1>13 DEF SwapSplits
  <2>2. Stage([at |-> "broadcast"])'
    BY <1>11 DEF Stage, CalmStages, SwapStages
  <2> QED BY <1>12, <2>1, <2>2, OneGoesOn
<1>14. CASE WindowOf(q.wins[1]).name # WindowOf(q.wins[2]).name
  <2>1. PICK next : next = SwapSide(c, 1)
    OBVIOUS
  <2>2. Goto(c, next)
    BY <1>2, <1>14, <2>1 DEF SwapSplits
  <2>3. next.at = "swap_seek" /\ next.side = 1 /\ next.ids = q.ids /\ next.wins = q.wins /\ next.panes = q.panes
    BY <1>2, <2>1 DEF SwapSide
  <2>4. p1[1] \in DOMAIN windows /\ p2[1] \in DOMAIN windows
    BY DEF Spots
  <2>5. p1[1] # p2[1]
    BY <1>14, <1>4 DEF Located
  <2>6. Located(next, 1, p1)' /\ Located(next, 2, p2)'
    BY <1>4, <1>10, <2>3, <2>4 DEF Located, SameButSplits, SameWins
  <2>7. p1 \in Spots(windows)' /\ p2 \in Spots(windows)'
    BY <1>10 DEF SameButSplits
  <2>8. SideOne(next)'
    BY <2>3, <2>5, <2>6, <2>7 DEF SideOne
  <2>9. Stage(next)'
    BY <1>3, <1>11, <2>3, <2>8 DEF Stage, CalmStages, SwapStages
  <2> QED BY <1>12, <2>2, <2>9, OneGoesOn
<1> QED BY <1>13, <1>14

\* Side 1 finds the slot of the first pane.  Side 2 finds the slot of the second in its own
\* window, not the place where side 1 has put it.
LEMMA OneSwapSeek ==
  ASSUME OneClient, OneInv, NEW c \in Clients, SwapSeek(c)
  PROVE  OneInv'
<1>1. h[c].at = "swap_seek" /\ UNCHANGED <<mvars, pipes>> /\ Detach(Nothing, Nothing)
  BY DEF SwapSeek, Aside
<1>2. PICK q : q = h[c]
  OBVIOUS
<1>3. /\ windows \in Seq(WindowState) /\ WinsApart(windows) /\ DOMAIN h = Clients
      /\ 1 \in DOMAIN q.panes
      /\ \/ q.side = 1 /\ Calm /\ SideOne(q)
         \/ q.side = 2 /\ Fed /\ SideTwo(q)
  BY <1>1, <1>2, OneParts DEF Stage, SwapStages, OneInv
<1>4. windows' = windows /\ pipes' = pipes
  BY <1>1 DEF mvars
<1>5. PICK panes, slot : /\ panes = WindowOf(q.wins[q.side]).panes
                         /\ slot = FirstSlot(panes, q.ids[q.side])
  OBVIOUS
<1>6. PICK next : next = [at |-> "swap_write", side |-> q.side, ids |-> q.ids,
                          wins |-> q.wins, panes |-> q.panes, slot |-> slot]
  OBVIOUS
<1>7. {j \in DOMAIN panes : panes[j].id = q.ids[q.side]} # {} => Goto(c, next)
  BY <1>2, <1>5, <1>6 DEF SwapSeek, FirstSlot
<1>8. /\ next.at = "swap_write" /\ next.side = q.side /\ next.ids = q.ids
      /\ next.wins = q.wins /\ next.panes = q.panes /\ next.slot = slot
      /\ "panes" \in DOMAIN next
  BY <1>6
<1>9. CASE q.side = 1 /\ Calm /\ SideOne(q)
  <2>1. PICK p1 \in Spots(windows), p2 \in Spots(windows) :
           Located(q, 1, p1) /\ Located(q, 2, p2) /\ p1[1] # p2[1]
    BY <1>9 DEF SideOne
  <2>2. RefsApart(windows) /\ IDsApart(windows)
    BY <1>9 DEF Calm
  <2>3. WindowOf(q.wins[1]) = windows[p1[1]] /\ p1[1] \in DOMAIN windows
    BY <1>3, <2>1, <2>2, LocatedParts
  <2>4. panes = windows[p1[1]].panes
    BY <1>5, <1>9, <2>3
  <2>5. DOMAIN panes \subseteq Nat
    BY <1>3, <2>3, <2>4, WindowShape
  <2>6. On(windows, p1).id = q.ids[1]
    BY <2>1 DEF Located
  <2>7. \A r \in Spots(windows) : r[1] = p1[1] /\ On(windows, r).id = q.ids[1] => r = p1
    BY <2>2, <2>6 DEF IDsApart
  <2>8. Goto(c, next) /\ slot = p1[2]
    BY <1>5, <1>7, <1>9, <2>4, <2>5, <2>6, <2>7, OnlySlot
  <2>9. Located(next, 1, p1)' /\ Located(next, 2, p2)'
    BY <1>4, <1>8, <2>1 DEF Located
  <2>10. p1 \in Spots(windows)' /\ p2 \in Spots(windows)'
    BY <1>4
  <2>11. SideOne(next)'
    BY <1>8, <2>1, <2>8, <2>9, <2>10 DEF SideOne
  <2>12. Calm'
    BY <1>4, <1>9, CalmSame
  <2>13. Stage(next)'
    BY <1>3, <1>8, <1>9, <2>11, <2>12 DEF Stage, CalmStages, SwapStages
  <2> QED BY <1>1, <2>8, <2>13, OneStays
<1>10. CASE q.side = 2 /\ Fed /\ SideTwo(q)
  <2>1. PICK x, r : x = detached.pane[q.panes[1]] /\ r = q.panes[1]
    OBVIOUS
  <2>2. PICK p1 \in Spots(windows), p2 \in Spots(windows) :
                     /\ ~LivePane(r)
                     /\ p1[1] # p2[1]
                     /\ On(windows, p1) = On(windows, p2)
                     /\ On(windows, p2).id = q.ids[2]
                     /\ windows[p2[1]].ref = q.wins[2]
                     /\ x \in PaneState /\ x.id \in pipes
                     /\ \A p \in Spots(windows) : On(windows, p).ref # x.ref /\ On(windows, p).id # x.id
                     /\ \A p, s \in Spots(windows) \ {p1} :
                           On(windows, p).ref = On(windows, s).ref \/ On(windows, p).id = On(windows, s).id
                              => p = s
    BY <1>10, <2>1 DEF SideTwo
  <2>3. p2[1] \in DOMAIN windows
    BY DEF Spots
  <2>4. panes = windows[p2[1]].panes
    BY <1>3, <1>5, <1>10, <2>2, <2>3, WindowOfLive
  <2>5. DOMAIN panes \subseteq Nat
    BY <1>3, <2>3, <2>4, WindowShape
  <2>6. \A s \in Spots(windows) : s[1] = p2[1] /\ On(windows, s).id = q.ids[2] => s = p2
    BY <2>2
  <2>7. Goto(c, next) /\ slot = p2[2]
    BY <1>5, <1>7, <1>10, <2>2, <2>4, <2>5, <2>6, OnlySlot
  <2>8. ~LivePane(r)'
    BY <1>4, <2>2 DEF LivePane
  <2>9. detached'.pane[r] = x
    <3>1. detached'.pane[r] = PaneOf(r)
      BY <1>1, <1>3, <1>8, <2>1, <2>7, <2>8, DetachKeeps
    <3> QED BY <2>1, <2>2, <3>1 DEF PaneOf
  <2>10. SideTwo(next)'
    BY <1>4, <1>8, <2>1, <2>2, <2>7, <2>8, <2>9 DEF SideTwo
  <2>11. Fed'
    BY <1>4, <1>10 DEF Fed
  <2>12. Stage(next)'
    BY <1>3, <1>8, <1>10, <2>10, <2>11 DEF Stage, CalmStages, SwapStages
  <2> QED BY <1>1, <2>7, <2>12, OneStays
<1> QED BY <1>3, <1>9, <1>10

\* Side 1 puts the second pane over the first, which is then in no window.
LEMMA OneSwapWriteFirst ==
  ASSUME OneClient, OneInv, NEW c \in Clients, SwapWrite(c), h[c].side = 1
  PROVE  OneInv'
<1>1. h[c].at = "swap_write" /\ UNCHANGED <<active, layouts, pipes>>
  BY DEF SwapWrite
<1>2. PICK q : q = h[c]
  OBVIOUS
<1>3. /\ Fit(windows, active) /\ windows \in Seq(WindowState) /\ WinsApart(windows)
      /\ DOMAIN h = Clients /\ 1 \in DOMAIN q.panes
      /\ q.side = 1 /\ Calm /\ SideOne(q)
  BY <1>1, <1>2, OneParts DEF Stage, SwapStages, OneInv
<1>4. RefsApart(windows) /\ IDsApart(windows) /\ Fed
  BY <1>3 DEF Calm
<1>5. PICK p1 \in Spots(windows), p2 \in Spots(windows) :
         Located(q, 1, p1) /\ Located(q, 2, p2) /\ p1[1] # p2[1] /\ q.slot = p1[2]
  BY <1>1, <1>2, <1>3 DEF SideOne
<1>6. /\ WindowOf(q.wins[1]) = windows[p1[1]] /\ p1[1] \in DOMAIN windows
      /\ p2[1] \in DOMAIN windows
      /\ PaneOf(q.panes[1]) = On(windows, p1) /\ PaneOf(q.panes[2]) = On(windows, p2)
  BY <1>3, <1>4, <1>5, LocatedParts
<1>7. PICK r, pane, one : r = q.wins[1] /\ pane = PaneOf(q.panes[2]) /\ one = q.panes[1]
  OBVIOUS
<1>8. PICK moved : moved = [WindowOf(r) EXCEPT !.panes[q.slot] = pane]
  OBVIOUS
<1>9. q.slot <= Len(WindowOf(r).panes)
  BY <1>3, <1>5, <1>6, <1>7, SpotPane, WindowShape
<1>10. PICK next : next = SwapSide(c, 2)
  OBVIOUS
<1>11. /\ next.at = "swap_seek" /\ next.side = 2 /\ next.ids = q.ids
       /\ next.wins = q.wins /\ next.panes = q.panes /\ "panes" \in DOMAIN next
  BY <1>2, <1>10 DEF SwapSide
<1>12. q.panes[3 - h[c].side] = q.panes[2] /\ q.wins[h[c].side] = r /\ AfterSide(c) = next
  BY <1>2, <1>3, <1>7, <1>10 DEF AfterSide
<1>13. /\ WritesWindow(r, moved)
       /\ Goto(c, next)
       /\ Detach([x \in {r} |-> moved], Nothing)
  BY <1>2, <1>7, <1>8, <1>9, <1>12 DEF SwapWrite, WritesWindow
<1>14. pane \in PaneState /\ On(windows, p1) \in PaneState /\ pane = On(windows, p2)
  BY <1>3, <1>6, <1>7, SpotPane
<1>15. r = windows[p1[1]].ref /\ moved = [WindowOf(r) EXCEPT !.panes[p1[2]] = pane]
  BY <1>5, <1>7, <1>8 DEF Located
<1>16. /\ Fit(windows', active)
       /\ SameWins(windows, windows')
       /\ SetsAt(windows, windows', p1, pane)
  BY <1>3, <1>13, <1>14, <1>15, SwapWriteShape
<1>17. /\ Spots(windows') = Spots(windows)
       /\ On(windows', p1) = On(windows, p2)
       /\ \A p \in Spots(windows) : p # p1 => On(windows', p) = On(windows, p)
  BY <1>14, <1>16 DEF SetsAt
<1>18. p1 # p2
  BY <1>5
<1>19. one = On(windows, p1).ref
  BY <1>5, <1>7 DEF Located
<1>20. \A p \in Spots(windows') : On(windows', p).ref # On(windows, p1).ref
                                  /\ On(windows', p).id # On(windows, p1).id
  BY <1>4, <1>17, <1>18 DEF RefsApart, IDsApart
<1>21. windows' \in Seq(WindowState)
  BY <1>16 DEF Fit
<1>22. ~LivePane(one)'
  <2>1. ASSUME NEW i \in DOMAIN windows', NEW j \in DOMAIN windows'[i].panes
        PROVE  windows'[i].panes[j].ref # one
    <3>1. i \in Nat /\ j \in Nat
      BY <1>21, WindowShape
    <3>2. <<i, j>> \in Spots(windows')
      BY <3>1 DEF Spots
    <3> QED BY <3>2, <1>19, <1>20 DEF On
  <2> QED BY <2>1 DEF LivePane
<1>23. PICK x : x = On(windows, p1)
  OBVIOUS
<1>24. detached'.pane[one] = x
  <2>1. detached'.pane[one] = PaneOf(one)
    BY <1>3, <1>7, <1>11, <1>13, <1>22, DetachKeeps
  <2> QED BY <2>1, <1>6, <1>7, <1>23
<1>25. /\ p1 \in Spots(windows') /\ p2 \in Spots(windows')
       /\ On(windows', p1) = On(windows', p2) /\ On(windows', p2) = On(windows, p2)
  BY <1>17, <1>18
<1>26. windows'[p2[1]].ref = q.wins[2] /\ On(windows', p2).id = q.ids[2]
  BY <1>5, <1>6, <1>16, <1>25 DEF Located, SameWins
<1>27. x.id \in pipes' /\ x \in PaneState
  BY <1>1, <1>4, <1>14, <1>23 DEF Fed
<1>28. \A p, s \in Spots(windows') \ {p1} :
          On(windows', p).ref = On(windows', s).ref \/ On(windows', p).id = On(windows', s).id
             => p = s
  BY <1>4, <1>17 DEF RefsApart, IDsApart
<1>29. SideTwo(next)'
  BY <1>5, <1>7, <1>11, <1>20, <1>22, <1>23, <1>24, <1>25, <1>26, <1>27, <1>28 DEF SideTwo
<1>30. Fed'
  BY <1>1, <1>4, <1>17 DEF Fed
<1>31. Stage(next)'
  BY <1>3, <1>11, <1>29, <1>30 DEF Stage, CalmStages, SwapStages
<1>32. Fit(windows, active)' /\ WinsApart(windows') /\ layouts' = layouts
  BY <1>1, <1>3, <1>16, SameWinsApart
<1> QED BY <1>13, <1>31, <1>32, OneGoesOn

\* Side 2 puts the first, which the handler kept, over the second: both are somewhere once.
LEMMA OneSwapWriteSecond ==
  ASSUME OneClient, OneInv, NEW c \in Clients, SwapWrite(c), h[c].side # 1
  PROVE  OneInv'
<1>1. h[c].at = "swap_write" /\ UNCHANGED <<active, layouts, pipes>>
  BY DEF SwapWrite
<1>2. PICK q : q = h[c]
  OBVIOUS
<1>3. /\ Fit(windows, active) /\ windows \in Seq(WindowState) /\ WinsApart(windows)
      /\ q.side = 2 /\ Fed /\ SideTwo(q)
  BY <1>1, <1>2, OneParts DEF Stage, SwapStages
<1>4. PICK x, one : x = detached.pane[q.panes[1]] /\ one = q.panes[1]
  OBVIOUS
<1>5. PICK p1 \in Spots(windows), p2 \in Spots(windows) :
                     /\ ~LivePane(one)
                     /\ p1[1] # p2[1]
                     /\ On(windows, p1) = On(windows, p2)
                     /\ On(windows, p2).id = q.ids[2]
                     /\ windows[p2[1]].ref = q.wins[2]
                     /\ x \in PaneState /\ x.id \in pipes
                     /\ \A p \in Spots(windows) : On(windows, p).ref # x.ref /\ On(windows, p).id # x.id
                     /\ \A p, s \in Spots(windows) \ {p1} :
                           On(windows, p).ref = On(windows, s).ref \/ On(windows, p).id = On(windows, s).id
                              => p = s
                     /\ q.slot = p2[2]
  BY <1>1, <1>2, <1>3, <1>4 DEF SideTwo
<1>6. p2[1] \in DOMAIN windows
  BY DEF Spots
<1>7. PICK r : r = q.wins[2]
  OBVIOUS
<1>8. WindowOf(r) = windows[p2[1]]
  BY <1>3, <1>5, <1>6, <1>7, WindowOfLive
<1>9. PaneOf(one) = x
  BY <1>4, <1>5 DEF PaneOf
<1>10. PICK moved : moved = [WindowOf(r) EXCEPT !.panes[q.slot] = x]
  OBVIOUS
<1>11. q.slot <= Len(WindowOf(r).panes)
  BY <1>3, <1>5, <1>6, <1>8, SpotPane, WindowShape
<1>12. q.panes[3 - h[c].side] = one /\ q.wins[h[c].side] = r /\ AfterSide(c) = [at |-> "broadcast"]
  BY <1>2, <1>3, <1>4, <1>7 DEF AfterSide
<1>13. WritesWindow(r, moved) /\ Goto(c, [at |-> "broadcast"])
  BY <1>2, <1>9, <1>10, <1>11, <1>12 DEF SwapWrite, WritesWindow
<1>14. r = windows[p2[1]].ref /\ moved = [WindowOf(r) EXCEPT !.panes[p2[2]] = x]
  BY <1>5, <1>7, <1>10
<1>15. /\ Fit(windows', active)
       /\ SameWins(windows, windows')
       /\ SetsAt(windows, windows', p2, x)
  BY <1>3, <1>5, <1>13, <1>14, SwapWriteShape
<1>16. /\ Spots(windows') = Spots(windows)
       /\ On(windows', p2) = x
       /\ \A p \in Spots(windows) : p # p2 => On(windows', p) = On(windows, p)
  BY <1>15 DEF SetsAt
<1>17. ASSUME NEW p \in Spots(windows'), NEW s \in Spots(windows'),
              On(windows', p).ref = On(windows', s).ref \/ On(windows', p).id = On(windows', s).id
       PROVE  p = s
  <2>1. CASE p = p2 \/ s = p2
    BY <1>5, <1>16, <1>17, <2>1
  <2>2. CASE p # p2 /\ s # p2
    <3>1. /\ On(windows, p).ref = On(windows, s).ref \/ On(windows, p).id = On(windows, s).id
          /\ p \in Spots(windows) /\ s \in Spots(windows)
      BY <1>16, <1>17, <2>2
    <3>2. CASE p = p1
      <4>1. s # p1 => s = p2
        BY <1>5, <3>1, <3>2
      <4> QED BY <4>1, <2>2, <3>2
    <3>3. CASE s = p1
      <4>1. p # p1 => p = p2
        BY <1>5, <3>1, <3>3
      <4> QED BY <4>1, <2>2, <3>3
    <3>4. CASE p # p1 /\ s # p1
      BY <1>5, <3>1, <3>4
    <3> QED BY <3>2, <3>3, <3>4
  <2> QED BY <2>1, <2>2
<1>18. \A p \in Spots(windows') : On(windows', p).id \in pipes'
  BY <1>1, <1>3, <1>5, <1>16 DEF Fed
<1>19. Calm'
  BY <1>17, <1>18 DEF Calm, Fed, RefsApart, IDsApart
<1>20. Stage([at |-> "broadcast"])'
  BY <1>19 DEF Stage, CalmStages, SwapStages
<1>21. Fit(windows, active)' /\ WinsApart(windows') /\ layouts' = layouts
  BY <1>1, <1>3, <1>15, SameWinsApart
<1> QED BY <1>13, <1>20, <1>21, OneGoesOn

-----------------------------------------------------------------------------
(* The specification. *)

\* At the start all is calm.
LEMMA OneInit ==
  ASSUME StartsFit, StartsApart, StartsOwn, Init
  PROVE  OneInv
<1>1. /\ windows = InitWindows /\ active = 0 /\ layouts = [n \in {} |-> {}]
      /\ pipes = {id \in TargetIDs : HasPane(id)} /\ h = [c \in Clients |-> Idle]
  BY DEF Init
<1>2. Fit(windows, active)
  BY <1>1 DEF StartsFit
<1>3. windows \in Seq(WindowState)
  BY <1>2 DEF Fit
<1>4. RefsApart(windows) /\ IDsApart(windows) /\ WinsApart(windows)
  BY <1>1 DEF StartsOwn, StartsApart, IDsApart
<1>5. \A p \in Spots(windows) : On(windows, p).id \in pipes
  <2>1. \A p \in Spots(windows) : On(windows, p).id \in TargetIDs
    BY <1>3, SpotPane DEF PaneState
  <2>2. \A p \in Spots(windows) : HasPane(On(windows, p).id)
    BY <1>3, HasPaneSpot
  <2> QED BY <1>1, <2>1, <2>2
<1>6. Calm
  BY <1>4, <1>5 DEF Calm, Fed
<1>7. FitLayouts /\ LayoutsApart
  BY <1>1 DEF FitLayouts, LayoutsApart
<1>8. Stage(Idle)
  BY <1>6 DEF Stage, Idle, CalmStages, SwapStages
<1>9. DOMAIN h = Clients /\ \A c \in Clients : Stage(h[c])
  BY <1>1, <1>8
<1> QED BY <1>2, <1>4, <1>7, <1>9 DEF OneInv

\* Every step preserves the invariant.
LEMMA OneNext ==
  ASSUME OneClient, OneInv, AddressesSuffice, [Next]_vars
  PROVE  OneInv'
<1>1. ASSUME NEW c \in Clients, Request(c) PROVE OneInv'
  <2>1. \/ WindowCreate(c) \/ WindowClose(c) \/ WindowRename(c) \/ WindowFocus(c)
        \/ SplitFind(c) \/ PaneClose(c) \/ KillWindows(c) \/ SwapFindA(c)
        \/ SaveSnapshot(c) \/ ApplyBefore(c)
    BY <1>1 DEF Request
  <2> QED BY <2>1, OneWindowCalls, OneSplitFind, OnePaneClose, OneKillReads, OneSwapFindA,
             OneSaveSnapshot, OneApplyBefore
<1>2. ASSUME NEW c \in Clients, Step(c) PROVE OneInv'
  <2>1. CASE \/ BroadcastLayoutUpdate(c) \/ SplitName(c) \/ SplitAdd(c) \/ SplitRegister(c)
             \/ SplitUndo(c) \/ PaneCloseDeregister(c)
    BY <2>1, OneKillReads, OneSplitName, OneSplitAdd, OneSplitRegister, OneSplitUndo,
       OnePaneCloseDeregister
  <2>2. CASE \/ KillOpenWindow(c) \/ KillReadWindow(c) \/ KillCollected(c)
             \/ KillRemove(c) \/ KillDeregister(c)
    BY <2>2, OneKillReads, OneKillRemove, OneKillDeregister
  <2>3. CASE SwapFindB(c) \/ SwapSplits(c) \/ SwapSeek(c)
    BY <2>3, OneSwapFindB, OneSwapSplits, OneSwapSeek
  <2>4. CASE SwapWrite(c)
    BY <2>4, OneSwapWriteFirst, OneSwapWriteSecond
  <2>5. CASE \/ SaveStore(c) \/ ApplyRestore(c) \/ ApplyAfter(c)
             \/ ApplyDeregister(c) \/ ApplyRegister(c) \/ ApplyDone(c)
    BY <2>5, OneSaveStore, OneApplyRestore, OneApplyAfter, OneApplyReconciles
  <2> QED BY <1>2, <2>1, <2>2, <2>3, <2>4, <2>5 DEF Step
<1>3. ASSUME UNCHANGED vars PROVE OneInv'
  <2>1. windows' = windows /\ active' = active /\ layouts' = layouts /\ pipes' = pipes
        /\ h' = h /\ detached' = detached
    BY <1>3 DEF vars, mvars, svars
  <2>2. ASSUME NEW c \in Clients PROVE Stage(h[c])'
    <3>1. Stage(h[c])
      BY OneParts
    <3> QED BY <2>1, <3>1 DEF Stage, Calm, Fed, OneMore, SideOne, SideTwo, Located, RefsApart,
                              IDsApart, LivePane, HasPane, FitLayout, SavedApart
  <2> QED BY <2>1, <2>2 DEF OneInv, Fit, FitLayouts, LayoutsApart, WinsApart
<1> QED BY <1>1, <1>2, <1>3 DEF Next

\* With no request in progress.
LEMMA OneQuiet ==
  ASSUME OneClient, OneInv
  PROVE  NoSharedPanes /\ PanesHavePipelines
<1> SUFFICES ASSUME Quiet PROVE NoSharedPanes /\ AllPaneIDs \subseteq pipes
  BY DEF NoSharedPanes, PanesHavePipelines
<1>1. PICK c \in Clients : TRUE
  BY DEF OneClient
<1>2. h[c].at = "idle"
  BY DEF Quiet, Idle
<1>3. Calm /\ windows \in Seq(WindowState)
  BY <1>2, OneParts DEF CalmStages
<1>4. NoSharedPanes
  BY <1>3, ApartNotShared DEF Calm
<1>5. \A id \in AllPaneIDs : id \in pipes
  <2>1. \A id \in AllPaneIDs : \E p \in Spots(windows) : On(windows, p).id = id
    BY <1>3, HasPaneSpot DEF AllPaneIDs
  <2> QED BY <1>3, <2>1 DEF Calm, Fed
<1> QED BY <1>4, <1>5

\* A pipeline goes in three places, and in each of them no pane has its ID.
LEMMA OneTeardown ==
  ASSUME OneClient, OneInv, [Next]_vars
  PROVE  [\A id \in pipes \ pipes' : ~HasPane(id)']_vars
<1> SUFFICES ASSUME NEW id \in pipes, id \notin pipes' PROVE ~HasPane(id)'
  OBVIOUS
<1>0. windows \in Seq(WindowState) /\ ~UNCHANGED vars
  <2>1. UNCHANGED vars => pipes' = pipes
    BY DEF vars, svars
  <2> QED BY <2>1 DEF OneInv, Fit
<1>1. PICK c \in Clients : Request(c) \/ Step(c)
  BY <1>0 DEF Next
<1>2. ~Request(c)
  <2>1. ~WindowCreate(c) /\ ~WindowClose(c) /\ ~WindowRename(c) /\ ~WindowFocus(c)
    BY DEF WindowCreate, WindowClose, WindowRename, WindowFocus
  <2>2. ~SplitFind(c) /\ ~PaneClose(c) /\ ~KillWindows(c)
    BY DEF SplitFind, PaneClose, KillWindows
  <2>3. ~SwapFindA(c) /\ ~SaveSnapshot(c) /\ ~ApplyBefore(c)
    BY DEF SwapFindA, SaveSnapshot, ApplyBefore
  <2> QED BY <2>1, <2>2, <2>3 DEF Request
<1>3. PaneCloseDeregister(c) \/ KillDeregister(c) \/ ApplyDeregister(c)
  <2>1. ~BroadcastLayoutUpdate(c) /\ ~SplitName(c) /\ ~SplitAdd(c) /\ ~SplitRegister(c) /\ ~SplitUndo(c)
    BY DEF BroadcastLayoutUpdate, SplitName, SplitAdd, SplitRegister, SplitUndo
  <2>2. ~KillOpenWindow(c) /\ ~KillReadWindow(c) /\ ~KillCollected(c) /\ ~KillRemove(c)
    BY DEF KillOpenWindow, KillReadWindow, KillCollected, KillRemove
  <2>3. ~SwapFindB(c) /\ ~SwapSplits(c) /\ ~SwapSeek(c) /\ ~SwapWrite(c)
    BY DEF SwapFindB, SwapSplits, SwapSeek, SwapWrite
  <2>4. ~SaveStore(c) /\ ~ApplyRestore(c) /\ ~ApplyAfter(c) /\ ~ApplyRegister(c) /\ ~ApplyDone(c)
    BY DEF SaveStore, ApplyRestore, ApplyAfter, ApplyRegister, ApplyDone
  <2> QED BY <1>1, <1>2, <2>1, <2>2, <2>3, <2>4 DEF Step
<1>4. Stage(h[c])
  BY OneParts
<1>5. ~HasPane(id) /\ windows' = windows
  <2>1. CASE PaneCloseDeregister(c)
    BY <1>4, <2>1 DEF PaneCloseDeregister, Deregister, Stage, mvars
  <2>2. CASE KillDeregister(c)
    <3>1. h[c].at = "kill_deregister" /\ pipes' = pipes \ {Head(h[c].targets)} /\ UNCHANGED mvars
      BY <2>2 DEF KillDeregister, Deregister
    <3> QED BY <1>4, <3>1 DEF Stage, mvars
  <2>3. CASE ApplyDeregister(c)
    BY <1>4, <2>3 DEF ApplyDeregister, Deregister, Stage, mvars
  <2> QED BY <1>3, <2>1, <2>2, <2>3
<1> QED BY <1>5 DEF HasPane

\* Whatever one client asks for, request after request, no pane object ends up in two
\* windows ("Panes are never shared between windows", architecture.md:53): neither by the
\* two windows a swap writes through pointers, nor by a split that is undone, nor by a
\* layout that is applied.
THEOREM PanesNeverShared ==
  ASSUME OneClient, StartsFit, StartsApart, StartsOwn
  PROVE  Spec /\ []AddressesSuffice => []NoSharedPanes
<1>1. Init => OneInv
  BY OneInit
<1>2. OneInv /\ AddressesSuffice /\ [Next]_vars => OneInv'
  BY OneNext
<1>3. OneInv => NoSharedPanes
  BY OneQuiet
<1> QED BY <1>1, <1>2, <1>3, PTL DEF Spec

\* ... every pane of the layout has the pipeline that feeds it whenever a request has been
\* answered ...
THEOREM PanesStayFed ==
  ASSUME OneClient, StartsFit, StartsApart, StartsOwn
  PROVE  Spec /\ []AddressesSuffice => []PanesHavePipelines
<1>1. Init => OneInv
  BY OneInit
<1>2. OneInv /\ AddressesSuffice /\ [Next]_vars => OneInv'
  BY OneNext
<1>3. OneInv => PanesHavePipelines
  BY OneQuiet
<1> QED BY <1>1, <1>2, <1>3, PTL DEF Spec

\* ... and no pipeline, with the scrollback it holds, is torn down under a pane: Deregister
\* is called only for IDs that no window holds a pane of.
THEOREM NoPipelineTornDown ==
  ASSUME OneClient, StartsFit, StartsApart, StartsOwn
  PROVE  Spec /\ []AddressesSuffice => NoLiveTeardown
<1>1. Init => OneInv
  BY OneInit
<1>2. OneInv /\ AddressesSuffice /\ [Next]_vars => OneInv'
  BY OneNext
<1>3. OneInv /\ [Next]_vars => [\A id \in pipes \ pipes' : ~HasPane(id)']_vars
  BY OneTeardown
<1> QED BY <1>1, <1>2, <1>3, PTL DEF Spec, NoLiveTeardown

-----------------------------------------------------------------------------
(* A kill, from the reading of the windows to the last removal. *)

\* A pane's ID is among the targets found; a window is still to be read.
Doomed(id, targets) == \E k \in DOMAIN targets : targets[k] = id
ToRead(i, wins)     == \E k \in DOMAIN wins : wins[k] = windows[i].ref

\* While the handler reads, a pane of the group is a target or in a window still to be
\* read, and the panes of the window being read are those the loop began with; afterwards
\* a pane of the group that is left is a target that is left.
ReadStages   == {"kill_collect", "kill_read"}
RemoveStages == {"kill_remove", "kill_deregister"}
KillStage(q) ==
    /\ q.at \in ReadStages =>
          /\ q.targets \in Seq(TargetIDs) /\ q.wins \in Seq(WinRefs)
          /\ \A k \in DOMAIN q.wins : \E i \in DOMAIN windows : windows[i].ref = q.wins[k]
          /\ \A p \in Spots(windows) :
                GroupOf[On(windows, p).id] = q.group =>
                   Doomed(On(windows, p).id, q.targets) \/ ToRead(p[1], q.wins)
    /\ q.at = "kill_read" =>
          /\ q.wins # <<>>
          /\ \A i \in DOMAIN windows : windows[i].ref = q.wins[1] => q.seen = windows[i].panes
    /\ q.at \in RemoveStages =>
          /\ q.targets \in Seq(TargetIDs) /\ q.targets # <<>>
          /\ \A p \in Spots(windows) :
                GroupOf[On(windows, p).id] = q.group => Doomed(On(windows, p).id, q.targets)

KillInv == \A c \in Clients : KillStage(h[c])

\* The k-th of a finite set of numbers is what Kth finds: below it are k - 1.
LEMMA KthIs ==
  ASSUME NEW S, S \subseteq Nat, IsFiniteSet(S), NEW j \in S,
         NEW k, k = Cardinality({q \in S : q < j}) + 1
  PROVE  /\ k \in 1 .. Cardinality(S)
         /\ Kth(S, k) = j
<1> DEFINE Below(r) == {q \in S : q < r}
<1>1. ASSUME NEW r \in S
      PROVE  /\ IsFiniteSet(Below(r)) /\ Cardinality(Below(r)) \in Nat
             /\ Cardinality(Below(r)) < Cardinality(S)
  <2>1. Below(r) \subseteq S /\ r \notin Below(r)
    OBVIOUS
  <2>2. /\ IsFiniteSet(Below(r)) /\ Cardinality(Below(r)) <= Cardinality(S)
        /\ Cardinality(Below(r)) = Cardinality(S) => Below(r) = S
    <3> HIDE DEF Below
    <3> QED BY <2>1, FS_Subset
  <2>3. Cardinality(Below(r)) \in Nat /\ Cardinality(S) \in Nat
    <3> HIDE DEF Below
    <3> QED BY <2>2, FS_CardinalityType
  <2> HIDE DEF Below
  <2> QED BY <2>1, <2>2, <2>3
<1>2. ASSUME NEW r \in S, NEW t \in S, r < t
      PROVE  Cardinality(Below(r)) < Cardinality(Below(t))
  <2>0. \A q \in S : q < r => q < t
    BY <1>2
  <2>1. Below(r) \subseteq Below(t) /\ r \in Below(t) /\ r \notin Below(r)
    <3>1. r \in Nat /\ ~(r < r)
      OBVIOUS
    <3>2. \A q \in Below(r) : q \in Below(t)
      BY <2>0
    <3>3. r \in Below(t)
      BY <1>2
    <3> QED BY <3>1, <3>2, <3>3
  <2>2. /\ Cardinality(Below(r)) <= Cardinality(Below(t))
        /\ Cardinality(Below(r)) = Cardinality(Below(t)) => Below(r) = Below(t)
    <3>1. IsFiniteSet(Below(t))
      BY <1>1
    <3> HIDE DEF Below
    <3> QED BY <2>1, <3>1, FS_Subset
  <2>3. Cardinality(Below(r)) \in Nat /\ Cardinality(Below(t)) \in Nat
    BY <1>1
  <2> HIDE DEF Below
  <2> QED BY <2>1, <2>2, <2>3
<1>3. k = Cardinality(Below(j)) + 1
  OBVIOUS
<1>4. Cardinality(S) \in Nat
  BY FS_CardinalityType
<1>5. k \in 1 .. Cardinality(S)
  <2>1. Cardinality(Below(j)) \in Nat /\ Cardinality(Below(j)) < Cardinality(S)
    BY <1>1
  <2> HIDE DEF Below
  <2> QED BY <2>1, <1>3, <1>4
<1>6. Kth(S, k) = CHOOSE r \in S : Cardinality(Below(r)) = k - 1
  BY DEF Kth
<1>7. PICK t : t = Kth(S, k)
  OBVIOUS
<1>8. t \in S /\ Cardinality(Below(t)) = k - 1
  <2>1. Cardinality(Below(j)) = k - 1
    <3>1. Cardinality(Below(j)) \in Nat
      BY <1>1
    <3> HIDE DEF Below
    <3> QED BY <1>3, <3>1
  <2> HIDE DEF Below
  <2> QED BY <2>1, <1>6, <1>7
<1>9. ~(t < j) /\ ~(j < t)
  <2>1. t < j => Cardinality(Below(t)) < Cardinality(Below(j))
    BY <1>2, <1>8
  <2>2. j < t => Cardinality(Below(j)) < Cardinality(Below(t))
    BY <1>2, <1>8
  <2>3. Cardinality(Below(t)) = Cardinality(Below(j)) /\ Cardinality(Below(j)) \in Nat
    <3>1. Cardinality(Below(j)) \in Nat
      BY <1>1
    <3> HIDE DEF Below
    <3> QED BY <1>3, <1>8, <3>1
  <2> HIDE DEF Below
  <2> QED BY <2>1, <2>2, <2>3
<1>10. t = j
  BY <1>8, <1>9
<1> QED BY <1>5, <1>7, <1>10

\* A finite set of numbers has a k-th one for every k up to its size.
LEMMA KthExists ==
  ASSUME NEW S, S \subseteq Nat, IsFiniteSet(S)
  PROVE  \A k \in 1 .. Cardinality(S) : Kth(S, k) \in S
<1> DEFINE Below(r) == {q \in S : q < r}
           Rank == [r \in S |-> Cardinality(Below(r)) + 1]
           N == Cardinality(S)
<1>1. N \in Nat
  BY FS_CardinalityType
<1>2. \A r \in S : Rank[r] \in 1 .. N /\ Kth(S, Rank[r]) = r
  <2> SUFFICES ASSUME NEW r \in S PROVE Rank[r] \in 1 .. N /\ Kth(S, Rank[r]) = r
    OBVIOUS
  <2>1. PICK k : k = Cardinality({q \in S : q < r}) + 1
    OBVIOUS
  <2>2. k \in 1 .. N /\ Kth(S, k) = r
    BY <2>1, KthIs
  <2>3. Rank[r] = k
    BY <2>1
  <2> QED BY <2>2, <2>3
<1> HIDE DEF Rank
<1>3. Rank \in [S -> 1 .. N]
  <2>1. DOMAIN Rank = S /\ Rank = [r \in S |-> Rank[r]]
    BY DEF Rank
  <2> QED BY <2>1, <1>2
<1>4. Rank \in Injection(S, 1 .. N)
  <2>1. \A r, t \in S : Rank[r] = Rank[t] => r = t
    BY <1>2
  <2> QED BY <1>3, <2>1 DEF Injection, IsInjective
<1>5. IsFiniteSet(1 .. N) /\ Cardinality(1 .. N) = N
  BY <1>1, FS_Interval
<1>6. Rank \in Surjection(S, 1 .. N)
  <2> HIDE DEF N
  <2>1. Cardinality(1 .. N) = Cardinality(S)
    BY <1>5 DEF N
  <2> QED BY <1>4, <1>5, <2>1, FS_Injection
<1>7. ASSUME NEW k \in 1 .. N PROVE Kth(S, k) \in S
  <2>1. PICK r \in S : Rank[r] = k
    BY <1>6 DEF Surjection
  <2> QED BY <2>1, <1>2
<1> QED BY <1>7

\* The IDs at some places are those of the panes there.
LEMMA IDsAtAll ==
  ASSUME NEW panes \in Seq(PaneState), NEW at, at \subseteq DOMAIN panes
  PROVE  /\ IDsAt(panes, at) \in Seq(TargetIDs)
         /\ \A j \in at : Doomed(panes[j].id, IDsAt(panes, at))
<1>1. Len(panes) \in Nat /\ DOMAIN panes = 1 .. Len(panes)
  BY LenProperties
<1>2. at \subseteq Nat /\ IsFiniteSet(at)
  <2>1. IsFiniteSet(1 .. Len(panes))
    BY <1>1, FS_Interval
  <2>2. IsFiniteSet(at)
    BY <1>1, <2>1, FS_Subset
  <2> QED BY <1>1, <2>2
<1>3. PICK n \in Nat : n = Cardinality(at)
  BY <1>2, FS_CardinalityType
<1>4. PICK ids : ids = IDsAt(panes, at)
  OBVIOUS
<1>5. ids = [k \in 1 .. n |-> panes[Kth(at, k)].id]
  BY <1>3, <1>4 DEF IDsAt
<1>6. \A j \in DOMAIN panes : panes[j].id \in TargetIDs
  <2>1. \A j \in DOMAIN panes : panes[j] \in PaneState
    BY <1>1, ElementOfSeq
  <2> QED BY <2>1 DEF PaneState
<1>7. \A k \in 1 .. n : ids[k] \in TargetIDs
  <2>1. \A k \in 1 .. n : Kth(at, k) \in at
    BY <1>2, <1>3, KthExists
  <2> QED BY <2>1, <1>5, <1>6
<1>8. ids \in [1 .. n -> TargetIDs]
  BY <1>5, <1>7
<1>9. ids \in Seq(TargetIDs)
  BY <1>8
<1>10. ASSUME NEW j \in at PROVE Doomed(panes[j].id, ids)
  <2>1. PICK k : k = Cardinality({q \in at : q < j}) + 1
    OBVIOUS
  <2>2. k \in 1 .. Cardinality(at) /\ Kth(at, k) = j
    BY <1>2, <2>1, KthIs
  <2>3. k \in DOMAIN ids /\ ids[k] = panes[j].id
    BY <1>3, <1>5, <2>2
  <2> QED BY <2>3 DEF Doomed
<1> QED BY <1>4, <1>9, <1>10

\* What is in either of two sequences is in the one after the other; what is in a
\* sequence and not its head is in its tail.
LEMMA DoomedJoined ==
  ASSUME NEW s \in Seq(TargetIDs), NEW t \in Seq(TargetIDs), NEW id,
         Doomed(id, s) \/ Doomed(id, t)
  PROVE  Doomed(id, s \o t)
<1>1. PICK m \in Nat, n \in Nat : m = Len(s) /\ n = Len(t)
  BY LenProperties
<1>2. /\ DOMAIN s = 1 .. m /\ DOMAIN t = 1 .. n /\ DOMAIN (s \o t) = 1 .. m + n
      /\ \A k \in 1 .. m + n : (s \o t)[k] = IF k <= m THEN s[k] ELSE t[k - m]
  <2>1. DOMAIN s = 1 .. m /\ DOMAIN t = 1 .. n
    BY <1>1, LenProperties
  <2>2. s \o t \in Seq(TargetIDs) /\ Len(s \o t) = m + n
    BY <1>1, ConcatProperties
  <2>3. DOMAIN (s \o t) = 1 .. m + n
    BY <2>2, LenProperties
  <2>4. \A k \in 1 .. m + n : (s \o t)[k] = IF k <= m THEN s[k] ELSE t[k - m]
    BY <1>1, ConcatProperties
  <2> QED BY <2>1, <2>3, <2>4
<1>3. CASE Doomed(id, s)
  <2>1. PICK k \in 1 .. m : s[k] = id
    BY <1>2, <1>3 DEF Doomed
  <2>2. k \in 1 .. m + n /\ (s \o t)[k] = id
    BY <1>2, <2>1
  <2> QED BY <1>2, <2>2 DEF Doomed
<1>4. CASE Doomed(id, t)
  <2>1. PICK k \in 1 .. n : t[k] = id
    BY <1>2, <1>4 DEF Doomed
  <2>2. m + k \in 1 .. m + n /\ ~(m + k <= m) /\ (m + k) - m = k
    OBVIOUS
  <2>3. (s \o t)[m + k] = id
    BY <1>2, <2>1, <2>2
  <2> QED BY <1>2, <2>2, <2>3 DEF Doomed
<1> QED BY <1>3, <1>4

LEMMA DoomedTail ==
  ASSUME NEW T, NEW s \in Seq(T), s # <<>>
  PROVE  /\ Tail(s) \in Seq(T) /\ s[1] = Head(s) /\ 1 \in DOMAIN s /\ Head(s) \in T
         /\ \A k \in DOMAIN s : k # 1 => k - 1 \in DOMAIN Tail(s) /\ Tail(s)[k - 1] = s[k]
         /\ \A k \in DOMAIN Tail(s) : k + 1 \in DOMAIN s /\ s[k + 1] = Tail(s)[k]
         /\ Len(s) = 1 => DOMAIN s = {1}
         /\ Len(s) # 1 => Tail(s) # <<>>
<1>1. PICK m \in Nat : m = Len(s)
  BY LenProperties
<1>2. m # 0 /\ DOMAIN s = 1 .. m
  BY <1>1, EmptySeq, LenProperties
<1>3. /\ Tail(s) \in Seq(T) /\ Len(Tail(s)) = m - 1
      /\ \A k \in 1 .. m - 1 : Tail(s)[k] = s[k + 1]
      /\ Head(s) = s[1] /\ Head(s) \in T
  BY <1>1, HeadTailProperties
<1>4. DOMAIN Tail(s) = 1 .. m - 1
  BY <1>3, LenProperties
<1>5. \A k \in 1 .. m : k # 1 => k - 1 \in 1 .. m - 1 /\ (k - 1) + 1 = k
  BY <1>2
<1>6. \A k \in DOMAIN s : k # 1 => k - 1 \in DOMAIN Tail(s) /\ Tail(s)[k - 1] = s[k]
  BY <1>2, <1>3, <1>4, <1>5
<1>7. \A k \in 1 .. m - 1 : k + 1 \in 1 .. m
  OBVIOUS
<1>8. m # 1 => Tail(s) # <<>>
  <2>1. m # 1 => m - 1 # 0
    OBVIOUS
  <2>2. Tail(s) = <<>> => Len(Tail(s)) = 0
    BY EmptySeq
  <2> QED BY <1>3, <2>1, <2>2
<1>9. m = 1 => 1 .. m = {1}
  OBVIOUS
<1>10. 1 \in 1 .. m
  BY <1>2
<1> QED BY <1>1, <1>2, <1>3, <1>4, <1>6, <1>7, <1>8, <1>9, <1>10

-----------------------------------------------------------------------------
(* From step to step. *)

\* The one request goes on to a stage that is as it should be ...
LEMMA KillMoves ==
  ASSUME OneClient, OneInv, NEW c \in Clients, NEW next, Goto(c, next), KillStage(next)'
  PROVE  KillInv'
<1>1. h'[c] = next
  BY DEF Goto, OneInv
<1>2. \A d \in Clients : d = c
  BY DEF OneClient
<1>3. ASSUME NEW d \in Clients PROVE KillStage(h[d])'
  BY <1>1, <1>2
<1> QED BY <1>3 DEF KillInv

\* ... of which nothing is asked while no kill is in progress.
LEMMA KillAway ==
  ASSUME OneClient, OneInv, NEW c \in Clients, NEW next, Goto(c, next),
         next.at \notin ReadStages, next.at \notin RemoveStages
  PROVE  KillInv'
<1>1. KillStage(next)'
  BY DEF KillStage, ReadStages, RemoveStages
<1> QED BY <1>1, KillMoves

\* The windows are copied: every pane is in one of them.
LEMMA KillStarts ==
  ASSUME OneClient, OneInv, NEW c \in Clients, KillWindows(c)
  PROVE  KillInv'
<1>1. PICK g \in Groups :
        Goto(c, [at |-> "kill_collect", group |-> g, targets |-> <<>>,
                 wins |-> [i \in DOMAIN windows |-> windows[i].ref]])
  BY DEF KillWindows
<1>2. PICK refs : refs = [i \in DOMAIN windows |-> windows[i].ref]
  OBVIOUS
<1>3. PICK next : next = [at |-> "kill_collect", group |-> g, targets |-> <<>>, wins |-> refs]
  OBVIOUS
<1>4. /\ Goto(c, next) /\ next.at = "kill_collect" /\ next.targets = <<>> /\ next.wins = refs
      /\ windows' = windows
  BY <1>1, <1>2, <1>3 DEF KillWindows, mvars
<1>5. windows \in Seq(WindowState)
  BY OneParts
<1>6. PICK n \in Nat : n = Len(windows)
  BY <1>5, LenProperties
<1>7. DOMAIN windows = 1 .. n /\ \A i \in DOMAIN windows : windows[i].ref \in WinRefs
  <2>1. \A i \in DOMAIN windows : windows[i] \in WindowState
    BY <1>5, WindowShape
  <2>2. DOMAIN windows = 1 .. n
    BY <1>5, <1>6, LenProperties
  <2> QED BY <2>1, <2>2 DEF WindowState
<1>8. refs \in Seq(WinRefs)
  <2>1. refs \in [1 .. n -> WinRefs]
    BY <1>2, <1>7
  <2> QED BY <2>1
<1>9. <<>> \in Seq(TargetIDs)
  BY EmptySeq
<1>10. \A p \in Spots(windows') : ToRead(p[1], refs)'
  <2>1. \A p \in Spots(windows) : p[1] \in DOMAIN windows
    BY DEF Spots
  <2> QED BY <2>1, <1>2, <1>4 DEF ToRead
<1>11. \A k \in DOMAIN refs : \E i \in DOMAIN windows' : windows'[i].ref = refs[k]
  BY <1>2, <1>4
<1>12. KillStage(next)'
  BY <1>4, <1>8, <1>9, <1>10, <1>11 DEF KillStage, ReadStages, RemoveStages
<1> QED BY <1>4, <1>12, KillMoves

\* The loop over a window's panes begins: nothing has been read yet.
LEMMA KillOpens ==
  ASSUME OneClient, OneInv, KillInv, NEW c \in Clients, KillOpenWindow(c)
  PROVE  KillInv'
<1>1. PICK q : q = h[c]
  OBVIOUS
<1>2. q.at = "kill_collect" /\ q.wins # <<>> /\ windows' = windows
  BY <1>1 DEF KillOpenWindow, mvars
<1>3. KillStage(q)
  BY <1>1 DEF KillInv
<1>4. PICK seen : seen = WindowOf(q.wins[1]).panes
  OBVIOUS
<1>5. PICK next : next = [at |-> "kill_read", group |-> q.group, targets |-> q.targets,
                          wins |-> q.wins, seen |-> seen]
  OBVIOUS
<1>6. /\ Goto(c, next) /\ next.at = "kill_read" /\ next.group = q.group
      /\ next.targets = q.targets /\ next.wins = q.wins /\ next.seen = seen
  BY <1>1, <1>4, <1>5 DEF KillOpenWindow
<1>7. \A i \in DOMAIN windows : windows[i].ref = q.wins[1] => seen = windows[i].panes
  BY <1>4, OneParts, WindowOfLive
<1>8. KillStage(next)'
  BY <1>2, <1>3, <1>6, <1>7 DEF KillStage, ReadStages, RemoveStages, ToRead
<1> QED BY <1>6, <1>8, KillMoves

\* The loop ends: nobody else moved the panes, and those of the group are targets.
LEMMA KillReads ==
  ASSUME OneClient, OneInv, KillInv, NEW c \in Clients, KillReadWindow(c)
  PROVE  KillInv'
<1>1. PICK q : q = h[c]
  OBVIOUS
<1>2. q.at = "kill_read" /\ windows' = windows
  BY <1>1 DEF KillReadWindow, mvars
<1>3. /\ q.targets \in Seq(TargetIDs) /\ q.wins \in Seq(WinRefs) /\ q.wins # <<>>
      /\ \A k \in DOMAIN q.wins : \E i \in DOMAIN windows : windows[i].ref = q.wins[k]
      /\ \A p \in Spots(windows) :
            GroupOf[On(windows, p).id] = q.group =>
               Doomed(On(windows, p).id, q.targets) \/ ToRead(p[1], q.wins)
      /\ \A i \in DOMAIN windows : windows[i].ref = q.wins[1] => q.seen = windows[i].panes
  BY <1>1, <1>2 DEF KillInv, KillStage, ReadStages
<1>4. /\ 1 \in DOMAIN q.wins /\ Tail(q.wins) \in Seq(WinRefs)
      /\ \A k \in DOMAIN q.wins : k # 1 => k - 1 \in DOMAIN Tail(q.wins) /\ Tail(q.wins)[k - 1] = q.wins[k]
      /\ \A k \in DOMAIN Tail(q.wins) : k + 1 \in DOMAIN q.wins /\ q.wins[k + 1] = Tail(q.wins)[k]
  BY <1>3, DoomedTail
<1>5. PICK i \in DOMAIN windows : windows[i].ref = q.wins[1]
  BY <1>3, <1>4
<1>6. WinsApart(windows) /\ windows \in Seq(WindowState)
  BY OneParts
<1>7. PICK panes : panes = windows[i].panes
  OBVIOUS
<1>8. panes = WindowOf(q.wins[1]).panes /\ panes = q.seen
  BY <1>3, <1>5, <1>6, <1>7, WindowOfLive
<1>9. PICK at, ids : at = InGroup(panes, q.group) /\ ids = IDsAt(panes, at)
  OBVIOUS
<1>10. panes \in Seq(PaneState) /\ at \subseteq DOMAIN panes
  BY <1>6, <1>7, <1>9, WindowShape DEF InGroup
<1>11. ids \in Seq(TargetIDs) /\ \A j \in at : Doomed(panes[j].id, ids)
  BY <1>9, <1>10, IDsAtAll
<1>12. PICK targets, wins : targets = q.targets \o ids /\ wins = Tail(q.wins)
  OBVIOUS
<1>13. PICK next : next = [at |-> "kill_collect", group |-> q.group, targets |-> targets, wins |-> wins]
  OBVIOUS
<1>14. /\ Goto(c, next) /\ next.at = "kill_collect" /\ next.group = q.group
       /\ next.targets = targets /\ next.wins = wins
  BY <1>1, <1>8, <1>9, <1>12, <1>13 DEF KillReadWindow
<1>15. targets \in Seq(TargetIDs) /\ wins \in Seq(WinRefs)
  BY <1>3, <1>4, <1>11, <1>12, ConcatProperties
<1>16. \A k \in DOMAIN wins : \E l \in DOMAIN windows : windows[l].ref = wins[k]
  BY <1>3, <1>4, <1>12
<1>17. ASSUME NEW p \in Spots(windows), GroupOf[On(windows, p).id] = q.group
       PROVE  Doomed(On(windows, p).id, targets) \/ ToRead(p[1], wins)
  <2>1. Doomed(On(windows, p).id, q.targets) \/ ToRead(p[1], q.wins)
    BY <1>3, <1>17
  <2>2. CASE Doomed(On(windows, p).id, q.targets)
    BY <2>2, <1>3, <1>11, <1>12, DoomedJoined
  <2>3. CASE ToRead(p[1], q.wins)
    <3>1. PICK k \in DOMAIN q.wins : q.wins[k] = windows[p[1]].ref
      BY <2>3 DEF ToRead
    <3>2. p[1] \in DOMAIN windows /\ p[2] \in DOMAIN windows[p[1]].panes
          /\ On(windows, p) = windows[p[1]].panes[p[2]]
      BY DEF Spots, On
    <3>3. CASE k = 1
      <4>1. p[1] = i
        BY <1>5, <1>6, <3>1, <3>2, <3>3 DEF WinsApart
      <4>2. p[2] \in at /\ On(windows, p).id = panes[p[2]].id
        BY <1>7, <1>9, <1>17, <3>2, <4>1 DEF InGroup
      <4>3. Doomed(On(windows, p).id, ids)
        BY <1>11, <4>2
      <4> QED BY <4>3, <1>3, <1>11, <1>12, DoomedJoined
    <3>4. CASE k # 1
      <4>1. k - 1 \in DOMAIN wins /\ wins[k - 1] = windows[p[1]].ref
        BY <1>4, <1>12, <3>1, <3>4
      <4> QED BY <4>1 DEF ToRead
    <3> QED BY <3>3, <3>4
  <2> QED BY <2>1, <2>2, <2>3
<1>18. KillStage(next)'
  BY <1>2, <1>14, <1>15, <1>16, <1>17 DEF KillStage, ReadStages, RemoveStages, ToRead
<1> QED BY <1>14, <1>18, KillMoves

\* All windows are read: every pane of the group is a target, or there was none.
LEMMA KillRead ==
  ASSUME OneClient, OneInv, KillInv, NEW c \in Clients, KillCollected(c)
  PROVE  KillInv'
<1>1. PICK q : q = h[c]
  OBVIOUS
<1>2. q.at = "kill_collect" /\ q.wins = <<>> /\ windows' = windows
  BY <1>1 DEF KillCollected, mvars
<1>3. KillStage(q)
  BY <1>1 DEF KillInv
<1>4. CASE q.targets = <<>>
  <2>1. Goto(c, Idle)
    BY <1>1, <1>4 DEF KillCollected
  <2> QED BY <2>1, KillAway DEF Idle, ReadStages, RemoveStages
<1>5. CASE q.targets # <<>>
  <2>1. PICK next : next = [at |-> "kill_remove", group |-> q.group, targets |-> q.targets]
    OBVIOUS
  <2>2. /\ Goto(c, next) /\ next.at = "kill_remove" /\ next.group = q.group
        /\ next.targets = q.targets
    BY <1>1, <1>5, <2>1 DEF KillCollected
  <2>3. \A p \in Spots(windows) : ~ToRead(p[1], q.wins)
    BY <1>2 DEF ToRead
  <2>4. KillStage(next)'
    BY <1>2, <1>3, <1>5, <2>2, <2>3 DEF KillStage, ReadStages, RemoveStages
  <2> QED BY <2>2, <2>4, KillMoves
<1> QED BY <1>4, <1>5

\* A target is removed: the panes left were there before.
LEMMA KillRemoves ==
  ASSUME OneClient, OneInv, KillInv, NEW c \in Clients, KillRemove(c)
  PROVE  KillInv'
<1>1. PICK q : q = h[c]
  OBVIOUS
<1>2. q.at = "kill_remove" /\ KillStage(q) /\ windows \in Seq(WindowState)
  BY <1>1, OneParts DEF KillRemove, KillInv
<1>3. PICK next : next = [q EXCEPT !.at = "kill_deregister"]
  OBVIOUS
<1>4. /\ Goto(c, next) /\ next.at = "kill_deregister" /\ next.group = q.group
      /\ next.targets = q.targets
  BY <1>1, <1>2, <1>3 DEF KillRemove
<1>5. \A p \in Spots(windows') : \E s \in Spots(windows) : On(windows', p) = On(windows, s)
  <2>1. CASE RemovePane(Head(q.targets))
    BY <1>2, <2>1, RemoveDrawn, DrawnApart
  <2>2. CASE UNCHANGED mvars
    BY <2>2 DEF mvars
  <2> QED BY <1>1, <2>1, <2>2 DEF KillRemove
<1>6. KillStage(next)'
  BY <1>2, <1>4, <1>5 DEF KillStage, ReadStages, RemoveStages
<1> QED BY <1>4, <1>6, KillMoves

\* Its pipeline goes: no pane has its ID any more, and the others are still targets, or no
\* target is left and no pane of the group either.
LEMMA KillDeregisters ==
  ASSUME OneClient, OneInv, KillInv, NEW c \in Clients, KillDeregister(c)
  PROVE  /\ KillInv'
         /\ h'[c].at = "broadcast" => \A id \in TargetIDs : HasPane(id)' => GroupOf[id] # h[c].group
<1>1. PICK q : q = h[c]
  OBVIOUS
<1>2. q.at = "kill_deregister" /\ windows' = windows /\ windows \in Seq(WindowState)
  BY <1>1, OneParts DEF KillDeregister, mvars
<1>3. /\ q.targets \in Seq(TargetIDs) /\ q.targets # <<>>
      /\ \A p \in Spots(windows) :
            GroupOf[On(windows, p).id] = q.group => Doomed(On(windows, p).id, q.targets)
  BY <1>1, <1>2 DEF KillInv, KillStage, RemoveStages
<1>4. ~HasPane(Head(q.targets))
  BY <1>1, <1>2, OneParts DEF Stage
<1>5. \A p \in Spots(windows) : On(windows, p).id # Head(q.targets)
  BY <1>2, <1>4, HasPaneSpot
<1>6. ASSUME NEW p \in Spots(windows), GroupOf[On(windows, p).id] = q.group
      PROVE  Len(q.targets) # 1 /\ Doomed(On(windows, p).id, Tail(q.targets))
  <2>1. PICK k \in DOMAIN q.targets : q.targets[k] = On(windows, p).id
    BY <1>3, <1>6 DEF Doomed
  <2>2. k # 1
    BY <2>1, <1>3, <1>5, DoomedTail
  <2>3. k - 1 \in DOMAIN Tail(q.targets) /\ Tail(q.targets)[k - 1] = q.targets[k]
    BY <2>2, <1>3, DoomedTail
  <2>4. Len(q.targets) # 1
    BY <2>2, <1>3, DoomedTail
  <2> QED BY <2>1, <2>3, <2>4 DEF Doomed
<1>7. h' = [h EXCEPT ![c] = IF Len(q.targets) = 1 THEN [at |-> "broadcast"]
               ELSE [q EXCEPT !.at = "kill_remove", !.targets = Tail(@)]] /\ c \in DOMAIN h
  BY <1>1 DEF KillDeregister, Goto, OneInv
<1>8. CASE Len(q.targets) = 1
  <2>1. Goto(c, [at |-> "broadcast"])
    BY <1>1, <1>8 DEF KillDeregister
  <2>2. KillInv'
    BY <2>1, KillAway DEF ReadStages, RemoveStages
  <2>3. ASSUME NEW id \in TargetIDs, HasPane(id)' PROVE GroupOf[id] # q.group
    <3>1. HasPane(id)
      BY <1>2, <2>3 DEF HasPane
    <3>2. PICK p \in Spots(windows) : On(windows, p).id = id
      BY <1>2, <3>1, HasPaneSpot
    <3> QED BY <1>6, <1>8, <3>2
  <2> QED BY <1>1, <2>2, <2>3
<1>9. CASE Len(q.targets) # 1
  <2>1. PICK next : next = [q EXCEPT !.at = "kill_remove", !.targets = Tail(@)]
    OBVIOUS
  <2>2. Goto(c, next)
    BY <1>1, <1>9, <2>1 DEF KillDeregister
  <2>3. next.at = "kill_remove" /\ next.group = q.group
    BY <1>2, <2>1
  <2>4. next.targets = Tail(q.targets)
    BY <2>1
  <2>5. Tail(q.targets) \in Seq(TargetIDs) /\ Tail(q.targets) # <<>>
    BY <1>3, <1>9, DoomedTail
  <2>6. KillStage(next)'
    BY <1>2, <1>6, <2>3, <2>4, <2>5 DEF KillStage, ReadStages, RemoveStages
  <2>7. h'[c].at # "broadcast"
    BY <1>7, <1>9, <2>1, <2>3
  <2> QED BY <2>2, <2>6, <2>7, KillMoves
<1> QED BY <1>8, <1>9

\* At the start there is no kill.
LEMMA KillInit == ASSUME Init PROVE KillInv
<1>1. \A c \in Clients : h[c] = Idle
  BY DEF Init
<1>2. KillStage(Idle)
  BY DEF KillStage, ReadStages, RemoveStages, Idle
<1> QED BY <1>1, <1>2 DEF KillInv

\* The requests that are not kills, and the end of one, come to no stage of a kill.
LEMMA KillNot ==
  ASSUME OneClient, OneInv, KillInv, NEW c \in Clients, Request(c) \/ Step(c),
         ~KillWindows(c), ~KillOpenWindow(c), ~KillReadWindow(c), ~KillCollected(c),
         ~KillRemove(c), ~KillDeregister(c)
  PROVE  /\ h[c].at # "kill_deregister"
         /\ KillInv'
<1> DEFINE Away == \E next : /\ Goto(c, next)
                             /\ next.at \notin ReadStages /\ next.at \notin RemoveStages
<1>1. CASE WindowCreate(c) \/ WindowClose(c) \/ WindowRename(c) \/ WindowFocus(c)
  <2>1. h[c] = Idle /\ h' = h
    BY <1>1 DEF WindowCreate, WindowClose, WindowRename, WindowFocus, Asks
  <2>2. KillStage(Idle)' /\ Idle.at # "kill_deregister"
    BY DEF Idle, KillStage, ReadStages, RemoveStages
  <2>3. ASSUME NEW d \in Clients PROVE KillStage(h[d])'
    <3>1. h'[d] = Idle
      BY <2>1 DEF OneClient
    <3> QED BY <3>1, <2>2
  <2> QED BY <2>1, <2>2, <2>3 DEF KillInv
<1>2. CASE SplitFind(c) \/ PaneClose(c) \/ SwapFindA(c)
  <2>1. h[c].at = "idle"
    BY <1>2 DEF SplitFind, PaneClose, SwapFindA, Asks, Idle
  <2>2. \/ \E ref, pane : Goto(c, [at |-> "split_name", wins |-> ref, pane |-> pane])
        \/ \E id : Goto(c, [at |-> "close_deregister", id |-> id])
        \/ \E ids, wins, panes : Goto(c, [at |-> "swap_find", ids |-> ids, wins |-> wins,
                                          panes |-> panes])
    BY <1>2 DEF SplitFind, PaneClose, SwapFindA
  <2>3. ASSUME NEW ref, NEW pane,
               Goto(c, [at |-> "split_name", wins |-> ref, pane |-> pane])
        PROVE  Away
    BY <2>3 DEF ReadStages, RemoveStages
  <2>4. ASSUME NEW id, Goto(c, [at |-> "close_deregister", id |-> id]) PROVE Away
    BY <2>4 DEF ReadStages, RemoveStages
  <2>5. ASSUME NEW ids, NEW wins, NEW panes,
               Goto(c, [at |-> "swap_find", ids |-> ids, wins |-> wins, panes |-> panes])
        PROVE  Away
    BY <2>5 DEF ReadStages, RemoveStages
  <2> QED BY <2>1, <2>2, <2>3, <2>4, <2>5, KillAway
<1>3. CASE SaveSnapshot(c) \/ ApplyBefore(c)
  <2>1. h[c].at = "idle"
    BY <1>3 DEF SaveSnapshot, ApplyBefore, Asks, Idle
  <2>2. \/ \E n, s : Goto(c, [at |-> "save_store", layout |-> n, snap |-> s])
        \/ \E s, b : Goto(c, [at |-> "apply_restore", snap |-> s, before |-> b])
    BY <1>3 DEF SaveSnapshot, ApplyBefore
  <2>3. ASSUME NEW n, NEW s, Goto(c, [at |-> "save_store", layout |-> n, snap |-> s]) PROVE Away
    BY <2>3 DEF ReadStages, RemoveStages
  <2>4. ASSUME NEW s, NEW b, Goto(c, [at |-> "apply_restore", snap |-> s, before |-> b]) PROVE Away
    BY <2>4 DEF ReadStages, RemoveStages
  <2> QED BY <2>1, <2>2, <2>3, <2>4, KillAway
<1>4. CASE BroadcastLayoutUpdate(c) \/ PaneCloseDeregister(c) \/ SplitUndo(c) \/ SaveStore(c)
  <2>1. h[c].at # "kill_deregister"
    BY <1>4 DEF BroadcastLayoutUpdate, PaneCloseDeregister, SplitUndo, SaveStore
  <2>2. Goto(c, Idle) \/ Goto(c, [at |-> "broadcast"])
    BY <1>4 DEF BroadcastLayoutUpdate, PaneCloseDeregister, SplitUndo, SaveStore
  <2>3. Away
    BY <2>2 DEF Idle, ReadStages, RemoveStages
  <2> QED BY <2>1, <2>3, KillAway
<1>5. CASE SplitAdd(c)
  <2>1. h[c].at = "split_add"
    BY <1>5 DEF SplitAdd
  <2>2. \/ Goto(c, Idle)
        \/ \E id, panes : Goto(c, [at |-> "split_register", id |-> id, panes |-> panes])
    BY <1>5 DEF SplitAdd
  <2>3. Goto(c, Idle) => Away
    BY DEF Idle, ReadStages, RemoveStages
  <2>4. ASSUME NEW id, NEW panes,
               Goto(c, [at |-> "split_register", id |-> id, panes |-> panes])
        PROVE  Away
    BY <2>4 DEF ReadStages, RemoveStages
  <2> QED BY <2>1, <2>2, <2>3, <2>4, KillAway
<1>6. CASE SplitRegister(c)
  <2>1. h[c].at = "split_register"
    BY <1>6 DEF SplitRegister
  <2>2. Goto(c, [at |-> "broadcast"]) \/ Goto(c, [h[c] EXCEPT !.at = "split_undo"])
    BY <1>6 DEF SplitRegister
  <2>3. [h[c] EXCEPT !.at = "split_undo"].at = "split_undo"
    BY <2>1
  <2>4. Goto(c, [at |-> "broadcast"]) => Away
    BY DEF ReadStages, RemoveStages
  <2>5. Goto(c, [h[c] EXCEPT !.at = "split_undo"]) => Away
    BY <2>3 DEF ReadStages, RemoveStages
  <2> QED BY <2>1, <2>2, <2>4, <2>5, KillAway
<1>7. CASE SwapFindB(c)
  <2>1. h[c].at = "swap_find"
    BY <1>7 DEF SwapFindB
  <2>2. \/ Goto(c, Idle)
        \/ \E w, p : Goto(c, [h[c] EXCEPT !.at = "swap_splits", !.wins = Append(@, w),
                                          !.panes = Append(@, p)])
    BY <1>7 DEF SwapFindB
  <2>3. \A w, p : [h[c] EXCEPT !.at = "swap_splits", !.wins = Append(@, w),
                               !.panes = Append(@, p)].at = "swap_splits"
    BY <2>1
  <2>4. Away
    BY <2>2, <2>3 DEF Idle, ReadStages, RemoveStages
  <2> QED BY <2>1, <2>4, KillAway
<1>8. CASE SwapSplits(c) \/ SwapWrite(c)
  <2>1. h[c].at # "kill_deregister"
    BY <1>8 DEF SwapSplits, SwapWrite
  <2>2. Goto(c, [at |-> "broadcast"]) \/ Goto(c, Idle) \/ \E side : Goto(c, SwapSide(c, side))
    BY <1>8 DEF SwapSplits, SwapWrite, AfterSide
  <2>3. \A side : SwapSide(c, side).at = "swap_seek"
    BY DEF SwapSide
  <2>4. Away
    BY <2>2, <2>3 DEF Idle, ReadStages, RemoveStages
  <2> QED BY <2>1, <2>4, KillAway
<1>9. CASE SwapSeek(c)
  <2>1. h[c].at = "swap_seek"
    BY <1>9 DEF SwapSeek
  <2>2. \/ Goto(c, AfterSide(c))
        \/ \E side, ids, wins, panes, slot :
              Goto(c, [at |-> "swap_write", side |-> side, ids |-> ids, wins |-> wins,
                       panes |-> panes, slot |-> slot])
    BY <1>9 DEF SwapSeek
  <2>3. AfterSide(c).at \in {"swap_seek", "broadcast"}
    BY DEF AfterSide, SwapSide
  <2>4. Goto(c, AfterSide(c)) => Away
    BY <2>3 DEF ReadStages, RemoveStages
  <2>5. ASSUME NEW side, NEW ids, NEW wins, NEW panes, NEW slot,
               Goto(c, [at |-> "swap_write", side |-> side, ids |-> ids, wins |-> wins,
                        panes |-> panes, slot |-> slot])
        PROVE  Away
    BY <2>5 DEF ReadStages, RemoveStages
  <2> QED BY <2>1, <2>2, <2>4, <2>5, KillAway
<1>10. CASE ApplyRestore(c) \/ ApplyAfter(c) \/ ApplyDone(c)
  <2>1. h[c].at # "kill_deregister"
    BY <1>10 DEF ApplyRestore, ApplyAfter, ApplyDone
  <2>2. \/ \E b : Goto(c, [at |-> "apply_after", before |-> b])
        \/ \E d, a : Goto(c, [at |-> "apply_reconcile", drop |-> d, add |-> a])
        \/ Goto(c, [at |-> "broadcast"])
    BY <1>10 DEF ApplyRestore, ApplyAfter, ApplyDone
  <2>3. ASSUME NEW b, Goto(c, [at |-> "apply_after", before |-> b]) PROVE Away
    BY <2>3 DEF ReadStages, RemoveStages
  <2>4. ASSUME NEW d, NEW a, Goto(c, [at |-> "apply_reconcile", drop |-> d, add |-> a]) PROVE Away
    BY <2>4 DEF ReadStages, RemoveStages
  <2>5. Goto(c, [at |-> "broadcast"]) => Away
    BY DEF ReadStages, RemoveStages
  <2> QED BY <2>1, <2>2, <2>3, <2>4, <2>5, KillAway
<1>11. CASE ApplyDeregister(c) \/ ApplyRegister(c)
  <2>1. h[c].at = "apply_reconcile"
    BY <1>11 DEF ApplyDeregister, ApplyRegister
  <2>2. \E id : \/ Goto(c, [h[c] EXCEPT !.drop = @ \ {id}])
                \/ Goto(c, [h[c] EXCEPT !.add = @ \ {id}])
    BY <1>11 DEF ApplyDeregister, ApplyRegister
  <2>3. \A id : /\ [h[c] EXCEPT !.drop = @ \ {id}].at = "apply_reconcile"
                /\ [h[c] EXCEPT !.add = @ \ {id}].at = "apply_reconcile"
    BY <2>1
  <2>4. ASSUME NEW next, next.at = "apply_reconcile", Goto(c, next) PROVE Away
    BY <2>4 DEF ReadStages, RemoveStages
  <2> QED BY <2>1, <2>2, <2>3, <2>4, KillAway
<1>12. CASE SplitName(c)
  <2>1. h[c].at = "split_name"
    BY <1>12 DEF SplitName
  <2>2. \E name, pane : Goto(c, [at |-> "split_add", name |-> name, pane |-> pane])
    BY <1>12 DEF SplitName
  <2>3. ASSUME NEW name, NEW pane,
               Goto(c, [at |-> "split_add", name |-> name, pane |-> pane])
        PROVE  Away
    BY <2>3 DEF ReadStages, RemoveStages
  <2> QED BY <2>1, <2>2, <2>3, KillAway
<1> HIDE DEF Away
<1> QED BY <1>1, <1>2, <1>3, <1>4, <1>5, <1>6, <1>7, <1>8, <1>9, <1>10, <1>11, <1>12 DEF Request, Step

\* Every step preserves the invariant, and when the last target has gone none is left.
LEMMA KillNext ==
  ASSUME OneClient, OneInv, KillInv, [Next]_vars
  PROVE  /\ KillInv'
         /\ [\A c \in Clients : (h[c].at = "kill_deregister" /\ h'[c].at = "broadcast")
                => \A id \in TargetIDs : HasPane(id)' => GroupOf[id] # h[c].group]_vars
<1>1. CASE UNCHANGED vars
  <2>1. h' = h /\ windows' = windows
    BY <1>1 DEF vars, mvars, svars
  <2> QED BY <1>1, <2>1 DEF KillInv, KillStage, ToRead
<1>2. ASSUME NEW c \in Clients, Request(c) \/ Step(c)
      PROVE  /\ KillInv'
             /\ (h[c].at = "kill_deregister" /\ h'[c].at = "broadcast")
                   => \A id \in TargetIDs : HasPane(id)' => GroupOf[id] # h[c].group
  <2>1. CASE KillDeregister(c)
    BY <2>1, KillDeregisters
  <2>2. CASE KillWindows(c)
    <3>1. h[c].at = "idle"
      BY <2>2 DEF KillWindows, Asks, Idle
    <3> QED BY <2>2, <3>1, KillStarts
  <2>3. CASE KillOpenWindow(c) \/ KillReadWindow(c) \/ KillCollected(c) \/ KillRemove(c)
    <3>1. h[c].at # "kill_deregister"
      BY <2>3 DEF KillOpenWindow, KillReadWindow, KillCollected, KillRemove
    <3> QED BY <2>3, <3>1, KillOpens, KillReads, KillRead, KillRemoves
  <2> QED BY <1>2, <2>1, <2>2, <2>3, KillNot
<1>3. \A c, d \in Clients : c = d
  BY DEF OneClient
<1>4. ASSUME NEW c \in Clients, Request(c) \/ Step(c)
      PROVE  /\ KillInv'
             /\ \A d \in Clients : (h[d].at = "kill_deregister" /\ h'[d].at = "broadcast")
                   => \A id \in TargetIDs : HasPane(id)' => GroupOf[id] # h[d].group
  <2>1. \A d \in Clients : d = c
    BY <1>3
  <2> QED BY <1>2, <1>4, <2>1
<1> QED BY <1>1, <1>4 DEF Next

\* "Close all panes in group" (manual.md:413): whatever one client did before, when a kill
\* has removed its last target no window holds a pane of the group.  The handler reads the
\* windows one by one and removes what it found by ID; the invariant accounts for every pane
\* of the group by the targets found and the windows still to be read.
THEOREM KillTakesAll ==
  ASSUME OneClient, StartsFit, StartsApart, StartsOwn
  PROVE  Spec /\ []AddressesSuffice => KillEmptiesGroup
<1>1. Init => OneInv /\ KillInv
  BY OneInit, KillInit
<1>2. OneInv /\ AddressesSuffice /\ [Next]_vars => OneInv'
  BY OneNext
<1>3. OneInv /\ KillInv /\ [Next]_vars
      => /\ KillInv'
         /\ [\A c \in Clients : (h[c].at = "kill_deregister" /\ h'[c].at = "broadcast")
                => \A id \in TargetIDs : HasPane(id)' => GroupOf[id] # h[c].group]_vars
  BY KillNext
<1> QED BY <1>1, <1>2, <1>3, PTL DEF Spec, KillEmptiesGroup
=============================================================================
