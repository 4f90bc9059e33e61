------------------------ MODULE SessionManagerProofs ------------------------
(***************************************************************************)
(* For any set of names, panes and layouts: the manager's state is type    *)
(* correct and within its pane limit, window names are unique, and the     *)
(* focused index names a window.  The three are proved together, as one    *)
(* inductive invariant: the focus a restore brings back is in range only   *)
(* because it was in the snapshot, and the names of a snapshot are unique  *)
(* only because the windows' names were.                                   *)
(***************************************************************************)
EXTENDS SessionManager, SequenceTheorems, TLAPS

Inv == TypeOK /\ NamesUnique /\ ActiveInRange

-----------------------------------------------------------------------------
(* Sequences. *)

\* A function on 1 .. n is a sequence of length n.
LEMMA FunctionIsSeq ==
  ASSUME NEW S, NEW n \in Nat, NEW f \in [1 .. n -> S]
  PROVE  f \in Seq(S) /\ Len(f) = n /\ DOMAIN f = 1 .. n
<1>1. f \in Seq(S)
  BY SeqDef
<1> QED BY <1>1, LenProperties

\* RemoveAt closes the gap and keeps the rest in order.
LEMMA RemoveAtProperties ==
  ASSUME NEW S, NEW s \in Seq(S), NEW i \in 1 .. Len(s)
  PROVE  /\ RemoveAt(s, i) \in Seq(S)
         /\ Len(RemoveAt(s, i)) = Len(s) - 1
         /\ \A j \in 1 .. Len(s) - 1 :
               RemoveAt(s, i)[j] = IF j < i THEN s[j] ELSE s[j + 1]
<1> DEFINE before == SubSeq(s, 1, i - 1)
           after  == SubSeq(s, i + 1, Len(s))
<1>1. Len(s) \in Nat /\ \A k \in 1 .. Len(s) : s[k] \in S
  BY LenProperties
<1>2. /\ before \in Seq(S)
      /\ Len(before) = i - 1
      /\ \A k \in 1 .. i - 1 : before[k] = s[k]
  <2>1. \A k \in 1 .. i - 1 : s[k] \in S
    BY <1>1
  <2>2. /\ before \in Seq(S)
        /\ Len(before) = IF 1 <= i - 1 THEN i - 1 - 1 + 1 ELSE 0
        /\ \A k \in 1 .. i - 1 - 1 + 1 : before[k] = s[1 + k - 1]
    BY <2>1, <1>1, SubSeqProperties
  <2> QED BY <2>2, <1>1
<1>3. /\ after \in Seq(S)
      /\ Len(after) = Len(s) - i
      /\ \A k \in 1 .. Len(s) - i : after[k] = s[i + k]
  <2>1. \A k \in i + 1 .. Len(s) : s[k] \in S
    BY <1>1
  <2>2. /\ after \in Seq(S)
        /\ Len(after) = IF i + 1 <= Len(s) THEN Len(s) - (i + 1) + 1 ELSE 0
        /\ \A k \in 1 .. Len(s) - (i + 1) + 1 : after[k] = s[i + 1 + k - 1]
    BY <2>1, <1>1, SubSeqProperties
  <2> QED BY <2>2, <1>1
<1>4. RemoveAt(s, i) = before \o after
  BY DEF RemoveAt
<1> HIDE DEF before, after
<1>5. /\ before \o after \in Seq(S)
      /\ Len(before \o after) = Len(s) - 1
      /\ \A j \in 1 .. Len(s) - 1 : (before \o after)[j] =
            IF j <= Len(before) THEN before[j] ELSE after[j - Len(before)]
  <2>1. /\ before \o after \in Seq(S)
        /\ Len(before \o after) = Len(before) + Len(after)
        /\ \A j \in 1 .. Len(before) + Len(after) : (before \o after)[j] =
              IF j <= Len(before) THEN before[j] ELSE after[j - Len(before)]
    BY <1>2, <1>3, ConcatProperties
  <2>2. Len(before) + Len(after) = Len(s) - 1
    BY <1>1, <1>2, <1>3
  <2> QED BY <2>1, <2>2
<1>6. ASSUME NEW j \in 1 .. Len(s) - 1
      PROVE  (before \o after)[j] = IF j < i THEN s[j] ELSE s[j + 1]
  <2>1. CASE j < i
    BY <2>1, <1>1, <1>2, <1>5
  <2>2. CASE j >= i
    <3>1. j - (i - 1) \in 1 .. Len(s) - i /\ i + (j - (i - 1)) = j + 1
      BY <2>2, <1>1
    <3>2. (before \o after)[j] = after[j - (i - 1)]
      BY <2>2, <1>1, <1>2, <1>5
    <3>3. after[j - (i - 1)] = s[j + 1]
      BY <3>1, <1>3
    <3> QED BY <2>2, <3>2, <3>3, <1>1
  <2>3. j < i \/ j >= i
    BY <1>1
  <2> QED BY <2>1, <2>2, <2>3
<1> QED BY <1>4, <1>5, <1>6

-----------------------------------------------------------------------------
(* The invariant, of any list of windows and focus, and of any snapshot. *)

Fit(ws, k) == /\ ws \in Seq(WindowState)
              /\ k \in Nat
              /\ PanesBounded(ws)
              /\ UniqueNames(ws)
              /\ InRange(k, ws)

FitLayout(s) == /\ s \in SavedLayout
                /\ PanesBounded(s.windows)
                /\ UniqueNames(s.windows)
                /\ InRange(s.active, s.windows)

FitLayouts == /\ DOMAIN layouts \subseteq LayoutNames
              /\ \A n \in DOMAIN layouts : FitLayout(layouts[n])

\* The three properties together say that the session and every saved layout
\* are fit.
LEMMA InvIsFit == Inv <=> Fit(windows, active) /\ FitLayouts
  BY DEF Inv, TypeOK, NamesUnique, ActiveInRange, Fit, FitLayouts, FitLayout

\* The range of the focus in terms of the number of windows.
LEMMA InRangeByLen ==
  ASSUME NEW S, NEW ws \in Seq(S), NEW k \in Nat
  PROVE  InRange(k, ws) <=> IF Len(ws) = 0 THEN k = 0 ELSE k < Len(ws)
<1>1. ws = <<>> <=> Len(ws) = 0
  BY EmptySeq
<1> QED BY <1>1 DEF InRange

\* A window at the end, of a name no other has.
LEMMA FitAppend ==
  ASSUME NEW ws, NEW k, Fit(ws, k),
         NEW w \in WindowState, Len(w.panes) <= MaxPanes,
         \A i \in DOMAIN ws : ws[i].name # w.name
  PROVE  Fit(Append(ws, w), k)
<1> DEFINE app == Append(ws, w)
<1>1. ws \in Seq(WindowState) /\ Len(ws) \in Nat /\ DOMAIN ws = 1 .. Len(ws) /\ k \in Nat
  BY LenProperties DEF Fit
<1>2. /\ app \in Seq(WindowState)
      /\ Len(app) = Len(ws) + 1
      /\ \A i \in 1 .. Len(ws) : app[i] = ws[i]
      /\ app[Len(ws) + 1] = w
  BY <1>1, AppendProperties
<1>3. DOMAIN app = 1 .. Len(ws) + 1
  BY <1>2, LenProperties
<1> HIDE DEF app
<1>4. \A i \in DOMAIN app : i \in DOMAIN ws \/ i = Len(ws) + 1
  BY <1>1, <1>3
<1>5. PanesBounded(app)
  BY <1>1, <1>2, <1>4 DEF PanesBounded, Fit
<1>6. UniqueNames(app)
  BY <1>1, <1>2, <1>4 DEF UniqueNames, Fit
<1>7. InRange(k, app)
  <2>1. InRange(k, ws)
    BY DEF Fit
  <2> QED BY <2>1, <1>1, <1>2, InRangeByLen
<1> QED BY <1>1, <1>2, <1>5, <1>6, <1>7 DEF Fit, app

\* A window gone, and the focus pulled back if it was on the last one.
LEMMA FitRemove ==
  ASSUME NEW ws, NEW k, Fit(ws, k), Len(ws) > 1, NEW i \in DOMAIN ws
  PROVE  Fit(RemoveAt(ws, i), IF k >= Len(ws) - 1 THEN Len(ws) - 2 ELSE k)
<1> DEFINE rem == RemoveAt(ws, i)
           kk  == IF k >= Len(ws) - 1 THEN Len(ws) - 2 ELSE k
           old(j) == IF j < i THEN j ELSE j + 1
<1>1. ws \in Seq(WindowState) /\ Len(ws) \in Nat /\ DOMAIN ws = 1 .. Len(ws) /\ k \in Nat
  BY LenProperties DEF Fit
<1>i. i \in 1 .. Len(ws)
  BY <1>1
<1>2. /\ rem \in Seq(WindowState)
      /\ Len(rem) = Len(ws) - 1
      /\ \A j \in 1 .. Len(ws) - 1 : rem[j] = IF j < i THEN ws[j] ELSE ws[j + 1]
  BY <1>1, <1>i, RemoveAtProperties
<1>3. DOMAIN rem = 1 .. Len(ws) - 1
  BY <1>2, LenProperties
<1> HIDE DEF rem
<1>4. /\ \A j \in DOMAIN rem : old(j) \in DOMAIN ws /\ rem[j] = ws[old(j)]
      /\ \A j, l \in DOMAIN rem : old(j) = old(l) => j = l
  BY <1>1, <1>2, <1>3
<1> HIDE DEF old
<1>5. PanesBounded(rem)
  BY <1>4 DEF PanesBounded, Fit
<1>6. UniqueNames(rem)
  BY <1>4 DEF UniqueNames, Fit
<1>7. kk \in Nat /\ kk < Len(ws) - 1
  BY <1>1
<1>8. InRange(kk, rem)
  BY <1>1, <1>2, <1>7, InRangeByLen
<1> QED BY <1>2, <1>5, <1>6, <1>7, <1>8 DEF Fit, rem

\* A window changed in place, its name kept or new to the session.
LEMMA FitReplace ==
  ASSUME NEW ws, NEW k, Fit(ws, k), NEW i \in DOMAIN ws,
         NEW w \in WindowState, Len(w.panes) <= MaxPanes,
         \A j \in DOMAIN ws : j # i => ws[j].name # w.name
  PROVE  Fit([ws EXCEPT ![i] = w], k)
<1> DEFINE new == [ws EXCEPT ![i] = w]
<1>1. ws \in Seq(WindowState) /\ Len(ws) \in Nat /\ DOMAIN ws = 1 .. Len(ws) /\ k \in Nat
  BY LenProperties DEF Fit
<1>2. /\ new \in Seq(WindowState)
      /\ Len(new) = Len(ws)
      /\ \A j \in 1 .. Len(ws) : new[j] = IF j = i THEN w ELSE ws[j]
  BY <1>1, ExceptSeq
<1>3. DOMAIN new = DOMAIN ws
  OBVIOUS
<1> HIDE DEF new
<1>4. PanesBounded(new)
  BY <1>1, <1>2, <1>3 DEF PanesBounded, Fit
<1>5. UniqueNames(new)
  BY <1>1, <1>2, <1>3 DEF UniqueNames, Fit
<1>6. InRange(k, new)
  <2>1. InRange(k, ws)
    BY DEF Fit
  <2> QED BY <2>1, <1>1, <1>2, InRangeByLen
<1> QED BY <1>1, <1>2, <1>4, <1>5, <1>6 DEF Fit, new

-----------------------------------------------------------------------------
(* Every call preserves it. *)

\* NewManager: no windows, the focus at 0, and no layouts.
LEMMA FitInit == ManagerInit => Fit(windows, active) /\ FitLayouts
<1> SUFFICES ASSUME ManagerInit PROVE Fit(windows, active) /\ FitLayouts
  OBVIOUS
<1>1. windows = <<>> /\ active = 0 /\ DOMAIN layouts = {}
  BY DEF ManagerInit
<1>2. windows \in Seq(WindowState) /\ DOMAIN windows = {}
  BY <1>1, EmptySeq
<1> QED BY <1>1, <1>2 DEF Fit, FitLayouts, PanesBounded, UniqueNames, InRange

\* What a window of the session is made of.
LEMMA WindowParts ==
  ASSUME Fit(windows, active), NEW i \in DOMAIN windows
  PROVE  /\ windows[i] \in WindowState
         /\ windows[i].panes \in Seq(PaneState)
         /\ Len(windows[i].panes) \in Nat
         /\ Len(windows[i].panes) <= MaxPanes
         /\ DOMAIN windows[i].panes = 1 .. Len(windows[i].panes)
<1>1. windows \in Seq(WindowState) /\ PanesBounded(windows)
  BY DEF Fit
<1>2. windows[i] \in WindowState
  BY <1>1, ElementOfSeq, LenProperties
<1>3. windows[i].panes \in Seq(PaneState)
  BY <1>2 DEF WindowState
<1> QED BY <1>1, <1>2, <1>3, LenProperties DEF PanesBounded

\* CreateWindow appends a window whose name was looked for and not found.
LEMMA FitCreate ==
  ASSUME Fit(windows, active), NEW name \in Names, NEW ref \in WinRefs,
         CreateWindow(name, ref)
  PROVE  Fit(windows, active)'
<1> DEFINE w == [ref |-> ref, name |-> name, panes |-> <<>>]
<1>1. w \in WindowState /\ Len(w.panes) <= MaxPanes
  <2>1. <<>> \in Seq(PaneState) /\ Len(<<>>) = 0
    BY EmptySeq
  <2> QED BY <2>1, MaxPanesAssumption DEF WindowState, CreateWindow
<1>2. \A i \in DOMAIN windows : windows[i].name # w.name
  BY DEF CreateWindow, HasWindow
<1>3. windows' = Append(windows, w) /\ active' = active
  BY DEF CreateWindow
<1> HIDE DEF w
<1>4. Fit(Append(windows, w), active)
  BY <1>1, <1>2, FitAppend
<1> QED BY <1>3, <1>4

\* CloseWindow removes one window and clamps the focus.
LEMMA FitClose ==
  ASSUME Fit(windows, active), NEW name \in Names, CloseWindow(name)
  PROVE  Fit(windows, active)'
<1>1. PICK i \in DOMAIN windows : windows' = RemoveAt(windows, i)
  BY DEF CloseWindow
<1>2. /\ Len(windows) > 1
      /\ active' = IF active >= Len(windows) - 1 THEN Len(windows) - 2 ELSE active
  BY DEF CloseWindow
<1>3. Fit(RemoveAt(windows, i),
          IF active >= Len(windows) - 1 THEN Len(windows) - 2 ELSE active)
  BY <1>2, FitRemove
<1> QED BY <1>1, <1>2, <1>3

\* RenameWindow changes a name to one that no window has.
LEMMA FitRename ==
  ASSUME Fit(windows, active), NEW oldName \in Names, NEW newName \in Names,
         RenameWindow(oldName, newName)
  PROVE  Fit(windows, active)'
<1>1. PICK i \in DOMAIN windows : windows' = [windows EXCEPT ![i].name = newName]
  BY DEF RenameWindow
<1> DEFINE w == [windows[i] EXCEPT !.name = newName]
<1>2. w \in WindowState /\ w.panes = windows[i].panes /\ w.name = newName
  BY WindowParts DEF WindowState, RenameWindow
<1>3. \A j \in DOMAIN windows : windows[j].name # newName
  BY DEF RenameWindow, HasWindow
<1>4. windows' = [windows EXCEPT ![i] = w] /\ active' = active
  BY <1>1 DEF RenameWindow
<1>5. Len(w.panes) <= MaxPanes
  BY <1>2, WindowParts
<1> HIDE DEF w
<1>6. Fit([windows EXCEPT ![i] = w], active)
  BY <1>2, <1>3, <1>5, FitReplace
<1> QED BY <1>4, <1>6

\* FocusWindow sets the focus to a window there is.
LEMMA FitFocus ==
  ASSUME Fit(windows, active), NEW name \in Names, FocusWindow(name)
  PROVE  Fit(windows, active)'
<1>1. PICK i \in DOMAIN windows : active' = i - 1
  BY DEF FocusWindow
<1>2. windows' = windows
  BY DEF FocusWindow
<1>3. /\ windows \in Seq(WindowState) /\ Len(windows) \in Nat
      /\ DOMAIN windows = 1 .. Len(windows)
  BY LenProperties DEF Fit
<1>4. active' \in Nat /\ active' < Len(windows) /\ Len(windows) # 0
  BY <1>1, <1>3
<1>5. InRange(active', windows)
  BY <1>3, <1>4, InRangeByLen
<1> QED BY <1>2, <1>4, <1>5 DEF Fit

\* A window whose panes change keeps its name: FitReplace applies.
LEMMA FitPanes ==
  ASSUME Fit(windows, active), NEW i \in DOMAIN windows,
         NEW panes \in Seq(PaneState), Len(panes) <= MaxPanes
  PROVE  Fit([windows EXCEPT ![i].panes = panes], active)
<1> DEFINE w == [windows[i] EXCEPT !.panes = panes]
<1>1. w \in WindowState /\ w.panes = panes /\ w.name = windows[i].name
  BY WindowParts DEF WindowState
<1>2. \A j \in DOMAIN windows : j # i => windows[j].name # windows[i].name
  BY DEF Fit, UniqueNames
<1>3. [windows EXCEPT ![i].panes = panes] = [windows EXCEPT ![i] = w]
  OBVIOUS
<1> HIDE DEF w
<1>4. Fit([windows EXCEPT ![i] = w], active)
  BY <1>1, <1>2, FitReplace
<1> QED BY <1>3, <1>4

\* AddPane appends to a window that is not full.
LEMMA FitAddPane ==
  ASSUME Fit(windows, active), NEW name, NEW p \in PaneState,
         AddPane(name, p)
  PROVE  Fit(windows, active)'
<1>1. PICK i \in DOMAIN windows :
        /\ Len(windows[i].panes) < MaxPanes
        /\ windows' = [windows EXCEPT ![i].panes = Append(@, p)]
  BY DEF AddPane
<1> DEFINE panes == Append(windows[i].panes, p)
<1>2. panes \in Seq(PaneState) /\ Len(panes) = Len(windows[i].panes) + 1
  BY WindowParts, AppendProperties
<1>3. Len(panes) <= MaxPanes
  BY <1>1, <1>2, WindowParts, MaxPanesAssumption
<1>4. windows' = [windows EXCEPT ![i].panes = panes] /\ active' = active
  BY <1>1 DEF AddPane
<1> HIDE DEF panes
<1>5. Fit([windows EXCEPT ![i].panes = panes], active)
  BY <1>2, <1>3, FitPanes
<1> QED BY <1>4, <1>5

\* RemovePane shortens the panes of one window.
LEMMA FitRemovePane ==
  ASSUME Fit(windows, active), NEW id \in TargetIDs, RemovePane(id)
  PROVE  Fit(windows, active)'
<1>1. PICK i \in DOMAIN windows : \E j \in DOMAIN windows[i].panes :
        windows' = [windows EXCEPT ![i].panes = RemoveAt(@, j)]
  BY DEF RemovePane
<1>2. PICK j \in DOMAIN windows[i].panes :
        windows' = [windows EXCEPT ![i].panes = RemoveAt(@, j)]
  BY <1>1
<1> DEFINE panes == RemoveAt(windows[i].panes, j)
<1>3. /\ windows[i].panes \in Seq(PaneState)
      /\ Len(windows[i].panes) \in Nat
      /\ Len(windows[i].panes) <= MaxPanes
      /\ j \in 1 .. Len(windows[i].panes)
  BY <1>2, WindowParts
<1>4. panes \in Seq(PaneState) /\ Len(panes) = Len(windows[i].panes) - 1
  BY <1>3, RemoveAtProperties
<1>5. Len(panes) <= MaxPanes
  BY <1>3, <1>4, MaxPanesAssumption
<1>6. windows' = [windows EXCEPT ![i].panes = panes] /\ active' = active
  BY <1>2 DEF RemovePane
<1> HIDE DEF panes
<1>7. Fit([windows EXCEPT ![i].panes = panes], active)
  BY <1>4, <1>5, FitPanes
<1> QED BY <1>6, <1>7

-----------------------------------------------------------------------------
(* Snapshots. *)

SnapWindow == [name : Names \ {NoName}, panes : Seq([id : TargetIDs, split : Splits])]

\* What Snapshot copies is as fit as the session.
LEMMA FitSnapshot ==
  ASSUME Fit(windows, active)
  PROVE  FitLayout(Snapshot)
<1> DEFINE sw == [i \in DOMAIN windows |-> SavedWindow(windows[i])]
           SP == [id : TargetIDs, split : Splits]
<1>1. /\ windows \in Seq(WindowState) /\ Len(windows) \in Nat
      /\ DOMAIN windows = 1 .. Len(windows)
  BY LenProperties DEF Fit
<1>2. ASSUME NEW i \in DOMAIN windows
      PROVE  /\ SavedWindow(windows[i]) \in SnapWindow
             /\ SavedWindow(windows[i]).name = windows[i].name
             /\ Len(SavedWindow(windows[i]).panes) <= MaxPanes
  <2> DEFINE ps == windows[i].panes
             sp == [j \in DOMAIN ps |-> SavedPane(ps[j])]
  <2>1. /\ ps \in Seq(PaneState) /\ Len(ps) \in Nat /\ Len(ps) <= MaxPanes
        /\ DOMAIN ps = 1 .. Len(ps)
    BY WindowParts
  <2>2. \A j \in DOMAIN ps : SavedPane(ps[j]) \in SP
    <3>1. \A j \in 1 .. Len(ps) : ps[j] \in PaneState
      BY <2>1, ElementOfSeq
    <3> QED BY <3>1, <2>1 DEF SavedPane, PaneState
  <2>3. sp \in [1 .. Len(ps) -> SP]
    BY <2>1, <2>2
  <2>4. sp \in Seq(SP) /\ Len(sp) = Len(ps)
    BY <2>1, <2>3, FunctionIsSeq
  <2>5. windows[i].name \in Names \ {NoName}
    BY WindowParts DEF WindowState
  <2>6. SavedWindow(windows[i]) = [name |-> windows[i].name, panes |-> sp]
    BY DEF SavedWindow
  <2> HIDE DEF sp, ps
  <2>7. Len(sp) <= MaxPanes
    BY <2>1, <2>4
  <2> QED BY <2>4, <2>5, <2>6, <2>7 DEF SnapWindow
<1>3. sw \in [1 .. Len(windows) -> SnapWindow]
  BY <1>1, <1>2
<1>4. sw \in Seq(SnapWindow) /\ Len(sw) = Len(windows) /\ DOMAIN sw = DOMAIN windows
  BY <1>1, <1>3, FunctionIsSeq
<1>5. \A i \in DOMAIN sw : sw[i].name = windows[i].name /\ Len(sw[i].panes) <= MaxPanes
  BY <1>2
<1>6. Snapshot = [windows |-> sw, active |-> active]
  BY DEF Snapshot
<1> HIDE DEF sw
<1>7. PanesBounded(sw) /\ UniqueNames(sw)
  BY <1>4, <1>5 DEF PanesBounded, UniqueNames, Fit
<1>8. active \in Nat /\ InRange(active, windows)
  BY DEF Fit
<1>9. InRange(active, sw)
  BY <1>1, <1>4, <1>8, InRangeByLen
<1>10. Snapshot \in SavedLayout
  BY <1>4, <1>6, <1>8 DEF SavedLayout, SnapWindow
<1> QED BY <1>6, <1>7, <1>9, <1>10 DEF FitLayout

\* RestoreSnapshot makes a fit session of a fit layout, and resets a focus
\* out of its range.
LEMMA FitRestore ==
  ASSUME NEW s, FitLayout(s), NEW wref, NEW pref,
         \A i \in DOMAIN s.windows : wref[i] \in WinRefs,
         \A i \in DOMAIN s.windows : \A j \in DOMAIN s.windows[i].panes :
            pref[i][j] \in PaneRefs,
         RestoreSnapshot(s, wref, pref)
  PROVE  Fit(windows, active)'
<1> DEFINE sw == s.windows
           P(i) == [j \in DOMAIN sw[i].panes |->
                      [ref |-> pref[i][j], id |-> sw[i].panes[j].id,
                       split |-> sw[i].panes[j].split]]
           W(i) == [ref |-> wref[i], name |-> sw[i].name, panes |-> P(i)]
           new  == [i \in DOMAIN sw |-> W(i)]
           k    == IF s.active >= Len(sw) THEN 0 ELSE s.active
           SP   == [id : TargetIDs, split : Splits]
<1>1. sw \in Seq(SnapWindow) /\ s.active \in Nat
  BY DEF FitLayout, SavedLayout, SnapWindow
<1>2. Len(sw) \in Nat /\ DOMAIN sw = 1 .. Len(sw) /\ \A i \in DOMAIN sw : sw[i] \in SnapWindow
  BY <1>1, LenProperties, ElementOfSeq
<1>3. ASSUME NEW i \in DOMAIN sw
      PROVE  W(i) \in WindowState /\ W(i).name = sw[i].name /\ Len(W(i).panes) <= MaxPanes
  <2> DEFINE ps == sw[i].panes
  <2>1. ps \in Seq(SP) /\ sw[i].name \in Names \ {NoName} /\ Len(ps) <= MaxPanes
    BY <1>2 DEF SnapWindow, FitLayout, PanesBounded
  <2>2. Len(ps) \in Nat /\ DOMAIN ps = 1 .. Len(ps) /\ \A j \in 1 .. Len(ps) : ps[j] \in SP
    BY <2>1, LenProperties, ElementOfSeq
  <2>3. ASSUME NEW j \in 1 .. Len(ps)
        PROVE  [ref |-> pref[i][j], id |-> ps[j].id, split |-> ps[j].split] \in PaneState
    <3>1. pref[i][j] \in PaneRefs
      BY <2>2
    <3>2. ps[j].id \in TargetIDs /\ ps[j].split \in Splits
      BY <2>2
    <3> QED BY <3>1, <3>2 DEF PaneState
  <2>4. P(i) \in [1 .. Len(ps) -> PaneState]
    BY <2>2, <2>3
  <2>5. P(i) \in Seq(PaneState) /\ Len(P(i)) = Len(ps)
    BY <2>2, <2>4, FunctionIsSeq
  <2> HIDE DEF P
  <2>6. wref[i] \in WinRefs
    OBVIOUS
  <2> QED BY <2>1, <2>5, <2>6 DEF WindowState
<1>4. windows' = new /\ active' = k
  BY DEF RestoreSnapshot
<1> HIDE DEF W, k
<1>5. new \in [1 .. Len(sw) -> WindowState]
  BY <1>2, <1>3
<1>6. new \in Seq(WindowState) /\ Len(new) = Len(sw) /\ DOMAIN new = DOMAIN sw
  BY <1>2, <1>5, FunctionIsSeq
<1>7. \A i \in DOMAIN new : new[i].name = sw[i].name /\ Len(new[i].panes) <= MaxPanes
  BY <1>3
<1> HIDE DEF new
<1>8. PanesBounded(new)
  BY <1>7 DEF PanesBounded
<1>9. UniqueNames(new)
  BY <1>6, <1>7 DEF UniqueNames, FitLayout
<1>10. k \in Nat /\ IF Len(sw) = 0 THEN k = 0 ELSE k < Len(sw)
  BY <1>1, <1>2 DEF k
<1>11. InRange(k, new)
  BY <1>6, <1>10, InRangeByLen
<1> QED BY <1>4, <1>6, <1>8, <1>9, <1>10, <1>11 DEF Fit

-----------------------------------------------------------------------------
(* The specification. *)

\* A call that leaves the saved layouts alone leaves them fit.
LEMMA LayoutsKept ==
  ASSUME FitLayouts, layouts' = layouts
  PROVE  FitLayouts'
  BY DEF FitLayouts, FitLayout, SavedLayout, PanesBounded, UniqueNames, InRange

\* Saving a fit snapshot under a name leaves every layout fit.
LEMMA LayoutSaved ==
  ASSUME Fit(windows, active), FitLayouts, NEW n \in LayoutNames, SaveNow(n)
  PROVE  FitLayouts'
<1> DEFINE snap == Snapshot
<1>1. layouts' = [m \in DOMAIN layouts \cup {n} |-> IF m = n THEN snap ELSE layouts[m]]
  BY DEF SaveNow, SaveLayout
<1>2. FitLayout(snap)
  BY FitSnapshot
<1> HIDE DEF snap
<1>3. DOMAIN layouts' \subseteq LayoutNames
  BY <1>1 DEF FitLayouts
<1>4. ASSUME NEW m \in DOMAIN layouts'
      PROVE  FitLayout(layouts'[m])
  BY <1>1, <1>2 DEF FitLayouts
<1>5. \A m \in DOMAIN layouts' : FitLayout(layouts'[m])
  BY <1>4
<1> QED BY <1>3, <1>5 DEF FitLayouts, FitLayout, SavedLayout, PanesBounded, UniqueNames, InRange

\* Every call of the manager preserves the invariant.
LEMMA InvNext ==
  ASSUME Inv, [ManagerNext]_mvars
  PROVE  Inv'
<1>1. Fit(windows, active) /\ FitLayouts
  BY InvIsFit
<1>2. SUFFICES Fit(windows, active)' /\ FitLayouts'
  BY InvIsFit, PTL
<1>3. ASSUME NEW name \in Names, NEW ref \in WinRefs, CreateWindow(name, ref)
      PROVE  Fit(windows, active)' /\ FitLayouts'
  BY <1>1, <1>3, FitCreate, LayoutsKept DEF CreateWindow
<1>4. ASSUME NEW name \in Names, CloseWindow(name)
      PROVE  Fit(windows, active)' /\ FitLayouts'
  BY <1>1, <1>4, FitClose, LayoutsKept DEF CloseWindow
<1>5. ASSUME NEW name \in Names, FocusWindow(name)
      PROVE  Fit(windows, active)' /\ FitLayouts'
  BY <1>1, <1>5, FitFocus, LayoutsKept DEF FocusWindow
<1>6. ASSUME NEW name \in Names, NEW newName \in Names, RenameWindow(name, newName)
      PROVE  Fit(windows, active)' /\ FitLayouts'
  BY <1>1, <1>6, FitRename, LayoutsKept DEF RenameWindow
<1>7. ASSUME NEW name \in Names, NEW p \in PaneState, AddPane(name, p)
      PROVE  Fit(windows, active)' /\ FitLayouts'
  BY <1>1, <1>7, FitAddPane, LayoutsKept DEF AddPane
<1>8. ASSUME NEW id \in TargetIDs, RemovePane(id)
      PROVE  Fit(windows, active)' /\ FitLayouts'
  BY <1>1, <1>8, FitRemovePane, LayoutsKept DEF RemovePane
<1>9. ASSUME NEW n \in LayoutNames, SaveNow(n)
      PROVE  Fit(windows, active)' /\ FitLayouts'
  <2>1. windows' = windows /\ active' = active
    BY <1>9 DEF SaveNow
  <2>2. Fit(windows, active)'
    BY <1>1, <2>1
  <2> QED BY <1>1, <1>9, <2>2, LayoutSaved
<1>10. ASSUME NEW n \in DOMAIN layouts, RestoreSaved(n)
       PROVE  Fit(windows, active)' /\ FitLayouts'
  <2>1. PICK w \in WinRefs, p \in PaneRefs :
          RestoreSnapshot(layouts[n],
                          [i \in DOMAIN layouts[n].windows |-> w],
                          [i \in DOMAIN layouts[n].windows |->
                             [j \in DOMAIN layouts[n].windows[i].panes |-> p]])
    BY <1>10 DEF RestoreSaved
  <2>2. FitLayout(layouts[n])
    BY <1>1 DEF FitLayouts
  <2>3. Fit(windows, active)'
    BY <2>1, <2>2, FitRestore
  <2>4. layouts' = layouts
    BY <2>1 DEF RestoreSnapshot
  <2> QED BY <1>1, <2>3, <2>4, LayoutsKept
<1>11. ASSUME UNCHANGED mvars
       PROVE  Fit(windows, active)' /\ FitLayouts'
  <2>1. windows' = windows /\ active' = active /\ layouts' = layouts
    BY <1>11 DEF mvars
  <2> QED BY <1>1, <2>1, LayoutsKept
<1> QED BY <1>3, <1>4, <1>5, <1>6, <1>7, <1>8, <1>9, <1>10, <1>11 DEF ManagerNext

\* The invariant of the manager, over every sequence of its calls: types and
\* pane limit, unique names, and the focus in range.
THEOREM ManagerInvariant == ManagerSpec => []Inv
<1>1. ManagerInit => Inv
  BY FitInit, InvIsFit
<1>2. Inv /\ [ManagerNext]_mvars => Inv'
  BY InvNext
<1> QED BY <1>1, <1>2, PTL DEF ManagerSpec

\* Whatever is created, closed, restored or split: the state has its type and
\* no window ever holds more than MaxPanes panes.
THEOREM TypeCorrect == ManagerSpec => []TypeOK
<1>1. Inv => TypeOK
  BY DEF Inv
<1> QED BY <1>1, ManagerInvariant, PTL

\* No two windows ever share a name, in the session or in a saved layout.
THEOREM WindowNamesUnique == ManagerSpec => []NamesUnique
<1>1. Inv => NamesUnique
  BY DEF Inv
<1> QED BY <1>1, ManagerInvariant, PTL

\* ActiveWindow never indexes past the end of the windows.
THEOREM FocusInRange == ManagerSpec => []ActiveInRange
<1>1. Inv => ActiveInRange
  BY DEF Inv
<1> QED BY <1>1, ManagerInvariant, PTL

-----------------------------------------------------------------------------
(* Where the panes are. *)

\* The places in a list of windows that hold a pane, and the pane at one.
Spots(ws) == {p \in Nat \X Nat : p[1] \in DOMAIN ws /\ p[2] \in DOMAIN ws[p[1]].panes}
On(ws, p) == ws[p[1]].panes[p[2]]

\* What Seq(WindowState) says of one window.
LEMMA WindowShape ==
  ASSUME NEW ws \in Seq(WindowState), NEW i \in DOMAIN ws
  PROVE  /\ Len(ws) \in Nat /\ DOMAIN ws = 1 .. Len(ws)
         /\ ws[i] \in WindowState
         /\ ws[i].panes \in Seq(PaneState)
         /\ Len(ws[i].panes) \in Nat
         /\ DOMAIN ws[i].panes = 1 .. Len(ws[i].panes)
<1>1. Len(ws) \in Nat /\ DOMAIN ws = 1 .. Len(ws) /\ i \in 1 .. Len(ws)
  BY LenProperties
<1>2. ws[i] \in WindowState
  BY <1>1, ElementOfSeq
<1>3. ws[i].panes \in Seq(PaneState)
  BY <1>2 DEF WindowState
<1>4. Len(ws[i].panes) \in Nat /\ DOMAIN ws[i].panes = 1 .. Len(ws[i].panes)
  BY <1>3, LenProperties
<1> QED BY <1>1, <1>2, <1>3, <1>4

\* What is at such a place is a pane.
LEMMA SpotPane ==
  ASSUME NEW ws \in Seq(WindowState), NEW p \in Spots(ws)
  PROVE  /\ On(ws, p) \in PaneState
         /\ p = <<p[1], p[2]>> /\ p[1] \in Nat /\ p[2] \in Nat
         /\ p[1] \in DOMAIN ws /\ p[2] \in 1 .. Len(ws[p[1]].panes)
<1>1. /\ p = <<p[1], p[2]>> /\ p[1] \in Nat /\ p[2] \in Nat
      /\ p[1] \in DOMAIN ws /\ p[2] \in DOMAIN ws[p[1]].panes
  BY DEF Spots
<1>2. ws[p[1]].panes \in Seq(PaneState) /\ p[2] \in 1 .. Len(ws[p[1]].panes)
  BY <1>1, WindowShape
<1>3. On(ws, p) \in PaneState
  BY <1>2, ElementOfSeq DEF On
<1> QED BY <1>1, <1>2, <1>3

\* A pane is somewhere in the session exactly if one of the spots holds it.
LEMMA HasPaneSpot ==
  ASSUME windows \in Seq(WindowState), NEW id
  PROVE  HasPane(id) <=> \E p \in Spots(windows) : On(windows, p).id = id
<1>1. ASSUME HasPane(id) PROVE \E p \in Spots(windows) : On(windows, p).id = id
  <2>0. PICK i \in DOMAIN windows : \E j \in DOMAIN windows[i].panes : windows[i].panes[j].id = id
    BY <1>1 DEF HasPane
  <2>1. PICK j \in DOMAIN windows[i].panes : windows[i].panes[j].id = id
    BY <2>0
  <2>2. i \in Nat /\ j \in Nat
    BY WindowShape
  <2>3. <<i, j>> \in Spots(windows)
    BY <2>2 DEF Spots
  <2> QED BY <2>1, <2>3 DEF On
<1>2. ASSUME NEW p \in Spots(windows), On(windows, p).id = id PROVE HasPane(id)
  <2>1. p[1] \in DOMAIN windows /\ p[2] \in DOMAIN windows[p[1]].panes
    BY DEF Spots
  <2>2. windows[p[1]].panes[p[2]].id = id
    BY <1>2 DEF On
  <2> QED BY <2>1, <2>2 DEF HasPane
<1> QED BY <1>1, <1>2

\* With no spot of an ID left, FindPane finds none.
LEMMA GoneForGood ==
  ASSUME windows' \in Seq(WindowState), NEW id,
         \A p \in Spots(windows') : On(windows', p).id # id
  PROVE  ~HasPane(id)'
<1>1. ASSUME NEW i \in DOMAIN windows', NEW j \in DOMAIN windows'[i].panes
      PROVE  windows'[i].panes[j].id # id
  <2>1. i \in Nat /\ j \in Nat
    BY WindowShape
  <2>2. <<i, j>> \in Spots(windows')
    BY <2>1 DEF Spots
  <2> QED BY <2>2 DEF On
<1> QED BY <1>1 DEF HasPane

\* Two lists of windows that differ in what is not a pane have the same spots.
SamePanes(ws, vs) == /\ Spots(vs) = Spots(ws)
                     /\ \A p \in Spots(ws) : On(vs, p) = On(ws, p)

\* The same windows have the same panes.
LEMMA SamePanesRefl == ASSUME windows' = windows PROVE SamePanes(windows, windows')
BY DEF SamePanes

\* AddPane: one more spot, and the pane is there.
AddsAt(ws, vs, s, pane) ==
    /\ s \notin Spots(ws)
    /\ Spots(vs) = Spots(ws) \cup {s}
    /\ On(vs, s) = pane
    /\ \A p \in Spots(ws) : On(vs, p) = On(ws, p)

\* AddPane puts the pane at a place where there was none and moves no other.
LEMMA AddPaneSpot ==
  ASSUME windows \in Seq(WindowState), NEW name, NEW pane \in PaneState, AddPane(name, pane)
  PROVE  \E s \in Nat \X Nat : AddsAt(windows, windows', s, pane)
<1>1. PICK i \in DOMAIN windows : windows' = [windows EXCEPT ![i].panes = Append(@, pane)]
  BY DEF AddPane
<1>2. PICK ps : ps = windows[i].panes
  OBVIOUS
<1>3. PICK qs : qs = Append(ps, pane)
  OBVIOUS
<1>4. ps \in Seq(PaneState) /\ Len(ps) \in Nat /\ DOMAIN ps = 1 .. Len(ps) /\ i \in Nat
  BY <1>2, WindowShape
<1>5. /\ DOMAIN qs = 1 .. Len(ps) + 1
      /\ qs[Len(ps) + 1] = pane
      /\ \A j \in 1 .. Len(ps) : qs[j] = ps[j]
  <2>1. qs \in Seq(PaneState) /\ Len(qs) = Len(ps) + 1
    BY <1>3, <1>4, AppendProperties
  <2>2. qs[Len(ps) + 1] = pane /\ \A j \in 1 .. Len(ps) : qs[j] = ps[j]
    BY <1>3, <1>4, AppendProperties
  <2>3. DOMAIN qs = 1 .. Len(qs)
    BY <2>1, LenProperties
  <2> QED BY <2>1, <2>2, <2>3
<1>6. /\ DOMAIN windows' = DOMAIN windows
      /\ windows'[i].panes = qs
      /\ \A k \in DOMAIN windows : k # i => windows'[k] = windows[k]
  <2>1. windows[i] \in WindowState
    BY WindowShape
  <2>2. windows'[i] = [windows[i] EXCEPT !.panes = qs]
    BY <1>1, <1>2, <1>3
  <2> QED BY <1>1, <2>1, <2>2 DEF WindowState
<1>7. PICK s : s = <<i, Len(ps) + 1>>
  OBVIOUS
<1>8. s \in Nat \X Nat /\ s[1] = i /\ s[2] = Len(ps) + 1
  BY <1>4, <1>7
<1>9. s \notin Spots(windows)
  BY <1>2, <1>4, <1>8 DEF Spots
<1>10. ASSUME NEW p \in Nat \X Nat
       PROVE  p \in Spots(windows') <=> p \in Spots(windows) \/ p = s
  <2>1. p = <<p[1], p[2]>> /\ p[1] \in Nat /\ p[2] \in Nat
    BY <1>10
  <2>2. CASE p[1] = i
    <3>1. p \in Spots(windows') <=> p[2] \in 1 .. Len(ps) + 1
      BY <2>2, <1>5, <1>6 DEF Spots
    <3>2. p \in Spots(windows) <=> p[2] \in 1 .. Len(ps)
      BY <2>2, <1>2, <1>4 DEF Spots
    <3>3. p = s <=> p[2] = Len(ps) + 1
      BY <2>1, <2>2, <1>7
    <3> QED BY <2>1, <3>1, <3>2, <3>3, <1>4
  <2>3. CASE p[1] # i
    <3>1. p \in Spots(windows') <=> p \in Spots(windows)
      BY <2>3, <1>6 DEF Spots
    <3>2. p # s
      BY <2>3, <1>8
    <3> QED BY <3>1, <3>2
  <2> QED BY <2>2, <2>3
<1>11. Spots(windows') = Spots(windows) \cup {s}
  <2>1. Spots(windows') \subseteq Nat \X Nat /\ Spots(windows) \subseteq Nat \X Nat
    BY DEF Spots
  <2> QED BY <2>1, <1>8, <1>10
<1>12. On(windows', s) = pane
  BY <1>5, <1>6, <1>8 DEF On
<1>13. ASSUME NEW p \in Spots(windows) PROVE On(windows', p) = On(windows, p)
  <2>1. p[1] \in DOMAIN windows /\ p[2] \in 1 .. Len(windows[p[1]].panes)
    BY SpotPane
  <2>2. CASE p[1] = i
    BY <2>1, <2>2, <1>2, <1>5, <1>6 DEF On
  <2>3. CASE p[1] # i
    BY <2>1, <2>3, <1>6 DEF On
  <2> QED BY <2>2, <2>3
<1> QED BY <1>8, <1>9, <1>11, <1>12, <1>13 DEF AddsAt

\* RemovePane: the panes that stay are those that were elsewhere, those behind the
\* one that goes a place further on.
DrawnFrom(ws, vs, left, back) ==
    /\ back \in Bijection(Spots(vs), left)
    /\ \A p \in Spots(vs) : On(vs, p) = On(ws, back[p])

\* RemovePane takes one pane of the ID out: what is left can be matched, one to one,
\* with what there was but for that one.
LEMMA RemovePaneSpot ==
  ASSUME windows \in Seq(WindowState), NEW id, RemovePane(id)
  PROVE  \E s \in Spots(windows) :
            /\ On(windows, s).id = id
            /\ \E back : DrawnFrom(windows, windows', Spots(windows) \ {s}, back)
<1>1. PICK i \in DOMAIN windows : \E j \in DOMAIN windows[i].panes :
        PaneAt(id, i, j) /\ windows' = [windows EXCEPT ![i].panes = RemoveAt(@, j)]
  BY DEF RemovePane
<1>2. PICK j \in DOMAIN windows[i].panes :
        PaneAt(id, i, j) /\ windows' = [windows EXCEPT ![i].panes = RemoveAt(@, j)]
  BY <1>1
<1>3. PICK ps : ps = windows[i].panes
  OBVIOUS
<1>4. PICK qs : qs = RemoveAt(ps, j)
  OBVIOUS
<1>5. ps \in Seq(PaneState) /\ Len(ps) \in Nat /\ DOMAIN ps = 1 .. Len(ps) /\ i \in Nat
  BY <1>3, WindowShape
<1>6. j \in 1 .. Len(ps)
  BY <1>3, <1>5
<1>7. /\ DOMAIN qs = 1 .. Len(ps) - 1
      /\ \A l \in 1 .. Len(ps) - 1 : qs[l] = IF l < j THEN ps[l] ELSE ps[l + 1]
  <2>1. qs \in Seq(PaneState) /\ Len(qs) = Len(ps) - 1
    BY <1>4, <1>5, <1>6, RemoveAtProperties
  <2>2. \A l \in 1 .. Len(ps) - 1 : qs[l] = IF l < j THEN ps[l] ELSE ps[l + 1]
    BY <1>4, <1>5, <1>6, RemoveAtProperties
  <2>3. DOMAIN qs = 1 .. Len(qs)
    BY <2>1, LenProperties
  <2> QED BY <2>1, <2>2, <2>3
<1>8. /\ DOMAIN windows' = DOMAIN windows
      /\ windows'[i].panes = qs
      /\ \A k \in DOMAIN windows : k # i => windows'[k] = windows[k]
  <2>1. windows[i] \in WindowState
    BY WindowShape
  <2>2. windows'[i] = [windows[i] EXCEPT !.panes = qs]
    BY <1>2, <1>3, <1>4
  <2> QED BY <1>2, <2>1, <2>2 DEF WindowState
<1>9. PICK s : s = <<i, j>>
  OBVIOUS
<1>10. s \in Spots(windows) /\ s[1] = i /\ s[2] = j /\ On(windows, s).id = id
  <2>1. windows[i].panes[j].id = id
    BY <1>2 DEF PaneAt
  <2> QED BY <2>1, <1>3, <1>5, <1>6, <1>9 DEF Spots, On
<1> DEFINE old(p) == IF p[1] = i /\ p[2] >= j THEN <<i, p[2] + 1>> ELSE p
<1>11. PICK left : left = Spots(windows) \ {s}
  OBVIOUS
<1>12. PICK back : back = [p \in Spots(windows') |-> old(p)]
  OBVIOUS
<1>13. ASSUME NEW p \in Spots(windows')
       PROVE  /\ p = <<p[1], p[2]>> /\ p[1] \in Nat /\ p[2] \in Nat /\ p[1] \in DOMAIN windows
              /\ p[1] = i => p[2] \in 1 .. Len(ps) - 1
  BY <1>7, <1>8 DEF Spots
<1>14. ASSUME NEW p \in Spots(windows')
       PROVE  old(p) \in left /\ On(windows', p) = On(windows, old(p))
  <2>1. CASE p[1] = i
    <3>1. p[2] \in 1 .. Len(ps) - 1 /\ p = <<i, p[2]>>
      BY <2>1, <1>13
    <3>2. PICK m : m = IF p[2] < j THEN p[2] ELSE p[2] + 1
      OBVIOUS
    <3>3. m \in 1 .. Len(ps) /\ m # j /\ m \in Nat /\ old(p) = <<i, m>>
      BY <3>1, <3>2, <1>5, <1>6
    <3>4. On(windows', p) = ps[m]
      BY <3>1, <3>2, <2>1, <1>7, <1>8 DEF On
    <3>5. On(windows, <<i, m>>) = ps[m]
      BY <1>3 DEF On
    <3>6. <<i, m>> \in Spots(windows) /\ <<i, m>> # s
      BY <3>3, <1>3, <1>5, <1>9 DEF Spots
    <3> QED BY <3>3, <3>4, <3>5, <3>6, <1>11
  <2>2. CASE p[1] # i
    <3>1. old(p) = p
      BY <2>2
    <3>2. p \in Spots(windows) /\ On(windows', p) = On(windows, p)
      BY <2>2, <1>8, <1>13 DEF Spots, On
    <3>3. p # s
      BY <2>2, <1>10
    <3> QED BY <3>1, <3>2, <3>3, <1>11
  <2> QED BY <2>1, <2>2
<1>15. ASSUME NEW p \in Spots(windows'), NEW q \in Spots(windows'), old(p) = old(q)
       PROVE  p = q
  <2>1. p = <<p[1], p[2]>> /\ p[1] \in Nat /\ p[2] \in Nat
    BY <1>13
  <2>2. q = <<q[1], q[2]>> /\ q[1] \in Nat /\ q[2] \in Nat
    BY <1>13
  <2>3. old(p)[1] = p[1] /\ old(q)[1] = q[1]
    BY <2>1, <2>2
  <2>4. old(p)[2] = IF p[1] = i /\ p[2] >= j THEN p[2] + 1 ELSE p[2]
    BY <2>1
  <2>5. old(q)[2] = IF q[1] = i /\ q[2] >= j THEN q[2] + 1 ELSE q[2]
    BY <2>2
  <2>6. p[1] = q[1] /\ p[2] = q[2]
    BY <2>1, <2>2, <2>3, <2>4, <2>5, <1>6, <1>5, <1>15
  <2> QED BY <2>1, <2>2, <2>6
<1>16. ASSUME NEW q \in left PROVE \E p \in Spots(windows') : old(p) = q
  <2>1. /\ q = <<q[1], q[2]>> /\ q[1] \in Nat /\ q[2] \in Nat
        /\ q[1] \in DOMAIN windows /\ q[2] \in DOMAIN windows[q[1]].panes /\ q # s
    BY <1>11 DEF Spots
  <2>2. CASE q[1] = i
    <3>1. q[2] \in 1 .. Len(ps) /\ q[2] # j
      BY <2>1, <2>2, <1>3, <1>5, <1>9
    <3>2. PICK m : m = IF q[2] < j THEN q[2] ELSE q[2] - 1
      OBVIOUS
    <3>3. m \in 1 .. Len(ps) - 1 /\ m \in Nat
      BY <3>1, <3>2, <1>5, <1>6
    <3>4. <<i, m>> \in Spots(windows')
      BY <3>3, <1>5, <1>7, <1>8 DEF Spots
    <3>5. old(<<i, m>>) = <<i, q[2]>>
      <4>1. CASE q[2] < j
        <5>1. m = q[2] /\ ~(m >= j)
          BY <4>1, <3>2, <2>1, <1>5, <1>6
        <5> QED BY <5>1
      <4>2. CASE ~(q[2] < j)
        <5>1. m + 1 = q[2] /\ m >= j
          BY <4>2, <3>1, <3>2, <2>1, <1>5, <1>6
        <5> QED BY <5>1
      <4> QED BY <4>1, <4>2
    <3> QED BY <3>4, <3>5, <2>1, <2>2
  <2>3. CASE q[1] # i
    <3>1. q \in Spots(windows') /\ old(q) = q
      BY <2>1, <2>3, <1>8 DEF Spots
    <3> QED BY <3>1
  <2> QED BY <2>2, <2>3
<1> HIDE DEF old
<1>17. back \in [Spots(windows') -> left]
  BY <1>12, <1>14
<1>18. back \in Bijection(Spots(windows'), left)
  <2>1. \A p, q \in Spots(windows') : back[p] = back[q] => p = q
    BY <1>12, <1>15
  <2>2. \A q \in left : \E p \in Spots(windows') : back[p] = q
    BY <1>12, <1>16
  <2> QED BY <1>17, <2>1, <2>2 DEF Bijection, Injection, Surjection, IsInjective
<1>19. \A p \in Spots(windows') : On(windows', p) = On(windows, back[p])
  BY <1>12, <1>14
<1>20. DrawnFrom(windows, windows', left, back)
  BY <1>18, <1>19 DEF DrawnFrom
<1> QED BY <1>10, <1>11, <1>20

\* CreateWindow moves no pane: the new window has none.
LEMMA CreateSpots ==
  ASSUME windows \in Seq(WindowState), NEW name \in Names, NEW ref \in WinRefs,
         CreateWindow(name, ref)
  PROVE  SamePanes(windows, windows')
<1>1. PICK w : w = [ref |-> ref, name |-> name, panes |-> <<>>]
  OBVIOUS
<1>2. w \in WindowState /\ w.panes = <<>> /\ DOMAIN w.panes = {}
  <2>1. <<>> \in Seq(PaneState) /\ DOMAIN <<>> = {}
    BY EmptySeq
  <2> QED BY <1>1, <2>1 DEF WindowState, CreateWindow
<1>3. windows' = Append(windows, w)
  BY <1>1 DEF CreateWindow
<1>4. Len(windows) \in Nat /\ DOMAIN windows = 1 .. Len(windows)
  BY LenProperties
<1>5. /\ DOMAIN windows' = 1 .. Len(windows) + 1
      /\ windows'[Len(windows) + 1] = w
      /\ \A k \in 1 .. Len(windows) : windows'[k] = windows[k]
  <2>1. windows' \in Seq(WindowState) /\ Len(windows') = Len(windows) + 1
    BY <1>2, <1>3, AppendProperties
  <2>2. windows'[Len(windows) + 1] = w /\ \A k \in 1 .. Len(windows) : windows'[k] = windows[k]
    BY <1>2, <1>3, AppendProperties
  <2>3. DOMAIN windows' = 1 .. Len(windows')
    BY <2>1, LenProperties
  <2> QED BY <2>1, <2>2, <2>3
<1>6. ASSUME NEW p \in Nat \X Nat PROVE p \in Spots(windows') <=> p \in Spots(windows)
  <2>1. CASE p[1] = Len(windows) + 1
    BY <2>1, <1>2, <1>4, <1>5 DEF Spots
  <2>2. CASE p[1] # Len(windows) + 1
    <3>1. p[1] \in DOMAIN windows' <=> p[1] \in DOMAIN windows
      BY <2>2, <1>4, <1>5
    <3>2. p[1] \in DOMAIN windows => windows'[p[1]] = windows[p[1]]
      BY <1>4, <1>5
    <3> QED BY <3>1, <3>2 DEF Spots
  <2> QED BY <2>1, <2>2
<1>7. Spots(windows') = Spots(windows)
  BY <1>6 DEF Spots
<1>8. \A p \in Spots(windows) : On(windows', p) = On(windows, p)
  BY <1>4, <1>5 DEF Spots, On
<1> QED BY <1>7, <1>8 DEF SamePanes

\* RenameWindow moves no pane.
LEMMA RenameSpots ==
  ASSUME windows \in Seq(WindowState), NEW oldName, NEW newName, RenameWindow(oldName, newName)
  PROVE  SamePanes(windows, windows')
<1>1. PICK i \in DOMAIN windows : windows' = [windows EXCEPT ![i].name = newName]
  BY DEF RenameWindow
<1>2. windows[i] \in WindowState
  BY WindowShape
<1>3. windows'[i].panes = windows[i].panes
  BY <1>1, <1>2 DEF WindowState
<1>4. /\ DOMAIN windows' = DOMAIN windows
      /\ \A k \in DOMAIN windows : windows'[k].panes = windows[k].panes
  BY <1>1, <1>3
<1>5. Spots(windows') = Spots(windows)
  BY <1>4 DEF Spots
<1> QED BY <1>4, <1>5 DEF SamePanes, Spots, On

-----------------------------------------------------------------------------
(* Panes, IDs and windows of their own. *)

\* No pane object is at two places, no ID is given to two panes, no window object is
\* there twice.
RefsApart(ws) == \A p, q \in Spots(ws) : On(ws, p).ref = On(ws, q).ref => p = q
IDsApart(ws)  == \A p, q \in Spots(ws) : On(ws, p).id = On(ws, q).id => p = q
WinsApart(ws) == \A i, k \in DOMAIN ws : ws[i].ref = ws[k].ref => i = k

\* A snapshot in which no ID is given to two panes.
SavedApart(s) ==
    \A i, k \in DOMAIN s.windows :
       \A j \in DOMAIN s.windows[i].panes, l \in DOMAIN s.windows[k].panes :
          s.windows[i].panes[j].id = s.windows[k].panes[l].id => i = k /\ j = l

\* A session whose panes are drawn from another is apart if that one was.
Drawn(ws, vs) == \E back \in Injection(Spots(vs), Spots(ws)) :
                    \A p \in Spots(vs) : On(vs, p) = On(ws, back[p])

\* Panes drawn from panes that were apart are apart.
LEMMA DrawnApart ==
  ASSUME NEW ws, NEW vs, Drawn(ws, vs)
  PROVE  /\ RefsApart(ws) => RefsApart(vs)
         /\ IDsApart(ws) => IDsApart(vs)
         /\ \A p \in Spots(vs) : \E q \in Spots(ws) : On(vs, p) = On(ws, q)
<1>1. PICK back \in Injection(Spots(vs), Spots(ws)) :
        \A p \in Spots(vs) : On(vs, p) = On(ws, back[p])
  BY DEF Drawn
<1>2. /\ \A p \in Spots(vs) : back[p] \in Spots(ws)
      /\ \A p, q \in Spots(vs) : back[p] = back[q] => p = q
  BY DEF Injection, IsInjective
<1> QED BY <1>1, <1>2 DEF RefsApart, IDsApart

\* The same panes are drawn from themselves.
LEMMA SamePanesDrawn ==
  ASSUME NEW ws, NEW vs, SamePanes(ws, vs)
  PROVE  Drawn(ws, vs)
<1>1. PICK back : back = [p \in Spots(vs) |-> p]
  OBVIOUS
<1>2. back \in Injection(Spots(vs), Spots(ws))
  BY <1>1 DEF SamePanes, Injection, IsInjective
<1> QED BY <1>1, <1>2 DEF SamePanes, Drawn

\* RemovePane draws; and where IDs are apart it leaves no pane of the ID.
LEMMA RemoveDrawn ==
  ASSUME windows \in Seq(WindowState), NEW id, RemovePane(id)
  PROVE  /\ Drawn(windows, windows')
         /\ IDsApart(windows) => \A p \in Spots(windows') : On(windows', p).id # id
<1>1. PICK s \in Spots(windows) :
        /\ On(windows, s).id = id
        /\ \E back : DrawnFrom(windows, windows', Spots(windows) \ {s}, back)
  BY RemovePaneSpot
<1>2. PICK back : DrawnFrom(windows, windows', Spots(windows) \ {s}, back)
  BY <1>1
<1>3. /\ back \in [Spots(windows') -> Spots(windows) \ {s}]
      /\ \A p, q \in Spots(windows') : back[p] = back[q] => p = q
      /\ \A p \in Spots(windows') : On(windows', p) = On(windows, back[p])
  BY <1>2 DEF DrawnFrom, Bijection, Injection, IsInjective
<1>4. back \in Injection(Spots(windows'), Spots(windows))
  <2>1. back \in [Spots(windows') -> Spots(windows)]
    BY <1>3
  <2> QED BY <2>1, <1>3 DEF Injection, IsInjective
<1>5. ASSUME IDsApart(windows), NEW p \in Spots(windows') PROVE On(windows', p).id # id
  <2>1. back[p] \in Spots(windows) /\ back[p] # s
    BY <1>3
  <2> QED BY <2>1, <1>1, <1>3, <1>5 DEF IDsApart
<1> QED BY <1>3, <1>4, <1>5 DEF Drawn

\* The windows are the same objects, whatever happened in them.
SameWins(ws, vs) == /\ DOMAIN vs = DOMAIN ws
                    /\ \A i \in DOMAIN ws : vs[i].ref = ws[i].ref

\* Windows that were apart then still are.
LEMMA SameWinsApart ==
  ASSUME NEW ws, NEW vs, SameWins(ws, vs), WinsApart(ws)
  PROVE  WinsApart(vs)
BY DEF SameWins, WinsApart

\* AddPane changes one window in place.
LEMMA AddPaneWins ==
  ASSUME windows \in Seq(WindowState), NEW name, NEW pane, AddPane(name, pane)
  PROVE  SameWins(windows, windows')
<1>1. PICK i \in DOMAIN windows : windows' = [windows EXCEPT ![i].panes = Append(@, pane)]
  BY DEF AddPane
<1>2. windows[i] \in WindowState
  BY WindowShape
<1> QED BY <1>1, <1>2 DEF SameWins, WindowState

\* So does RemovePane.
LEMMA RemovePaneWins ==
  ASSUME windows \in Seq(WindowState), NEW id, RemovePane(id)
  PROVE  SameWins(windows, windows')
<1>1. PICK i \in DOMAIN windows : \E j \in DOMAIN windows[i].panes :
        windows' = [windows EXCEPT ![i].panes = RemoveAt(@, j)]
  BY DEF RemovePane
<1>2. windows[i] \in WindowState
  BY WindowShape
<1> QED BY <1>1, <1>2 DEF SameWins, WindowState

\* So does RenameWindow.
LEMMA RenameWins ==
  ASSUME windows \in Seq(WindowState), NEW oldName, NEW newName, RenameWindow(oldName, newName)
  PROVE  SameWins(windows, windows')
<1>1. PICK i \in DOMAIN windows : windows' = [windows EXCEPT ![i].name = newName]
  BY DEF RenameWindow
<1>2. windows[i] \in WindowState
  BY WindowShape
<1> QED BY <1>1, <1>2 DEF SameWins, WindowState

\* CloseWindow: the other windows keep their panes and move up.
LEMMA CloseDrawn ==
  ASSUME windows \in Seq(WindowState), NEW name, CloseWindow(name)
  PROVE  /\ Drawn(windows, windows')
         /\ WinsApart(windows) => WinsApart(windows')
<1>1. PICK i \in DOMAIN windows : windows' = RemoveAt(windows, i)
  BY DEF CloseWindow
<1>2. Len(windows) \in Nat /\ DOMAIN windows = 1 .. Len(windows)
  BY LenProperties
<1>3. i \in 1 .. Len(windows)
  BY <1>2
<1> DEFINE old(k) == IF k < i THEN k ELSE k + 1
<1>4. /\ DOMAIN windows' = 1 .. Len(windows) - 1
      /\ \A k \in DOMAIN windows' : old(k) \in DOMAIN windows /\ windows'[k] = windows[old(k)]
  <2>1. windows' \in Seq(WindowState) /\ Len(windows') = Len(windows) - 1
    BY <1>1, <1>3, RemoveAtProperties
  <2>2. \A k \in 1 .. Len(windows) - 1 :
           windows'[k] = IF k < i THEN windows[k] ELSE windows[k + 1]
    BY <1>1, <1>3, RemoveAtProperties
  <2>3. DOMAIN windows' = 1 .. Len(windows')
    BY <2>1, LenProperties
  <2> QED BY <2>1, <2>2, <2>3, <1>2, <1>3
<1>5. \A k, l \in DOMAIN windows' : old(k) = old(l) => k = l
  BY <1>3, <1>4, <1>2
<1>6. \A k \in DOMAIN windows' : old(k) \in Nat
  BY <1>2, <1>4
<1> HIDE DEF old
<1>7. ASSUME WinsApart(windows) PROVE WinsApart(windows')
  BY <1>4, <1>5, <1>7 DEF WinsApart
<1>8. PICK back : back = [p \in Spots(windows') |-> <<old(p[1]), p[2]>>]
  OBVIOUS
<1>9. ASSUME NEW p \in Spots(windows')
      PROVE  /\ back[p] = <<old(p[1]), p[2]>>
             /\ back[p] \in Spots(windows)
             /\ On(windows', p) = On(windows, back[p])
             /\ p = <<p[1], p[2]>> /\ p[1] \in DOMAIN windows'
  <2>1. /\ p = <<p[1], p[2]>> /\ p[1] \in DOMAIN windows' /\ p[2] \in Nat
        /\ p[2] \in DOMAIN windows'[p[1]].panes
    BY DEF Spots
  <2>2. old(p[1]) \in DOMAIN windows /\ old(p[1]) \in Nat /\ windows'[p[1]] = windows[old(p[1])]
    BY <2>1, <1>4, <1>6
  <2>3. back[p] = <<old(p[1]), p[2]>>
    BY <1>8
  <2>4. back[p] \in Spots(windows)
    BY <2>1, <2>2, <2>3 DEF Spots
  <2>5. On(windows', p) = On(windows, back[p])
    BY <2>2, <2>3 DEF On
  <2> QED BY <2>1, <2>3, <2>4, <2>5
<1>10. \A p, q \in Spots(windows') : back[p] = back[q] => p = q
  <2> SUFFICES ASSUME NEW p \in Spots(windows'), NEW q \in Spots(windows'), back[p] = back[q]
               PROVE  p = q
    OBVIOUS
  <2>1. old(p[1]) = old(q[1]) /\ p[2] = q[2]
    BY <1>9
  <2>2. p[1] = q[1]
    BY <2>1, <1>5, <1>9
  <2> QED BY <2>1, <2>2, <1>9
<1>11. back \in [Spots(windows') -> Spots(windows)]
  BY <1>8, <1>9
<1>12. back \in Injection(Spots(windows'), Spots(windows))
  BY <1>10, <1>11 DEF Injection, IsInjective
<1>13. Drawn(windows, windows')
  BY <1>9, <1>12 DEF Drawn
<1> QED BY <1>7, <1>13

\* What the handlers need to know of RemovePane.
LEMMA RemovePaneKeeps ==
  ASSUME Fit(windows, active), WinsApart(windows), NEW id, RemovePane(id)
  PROVE  /\ Fit(windows, active)' /\ WinsApart(windows') /\ Drawn(windows, windows')
         /\ layouts' = layouts
<1>1. windows \in Seq(WindowState)
  BY DEF Fit
<1>2. PICK s \in Spots(windows) : On(windows, s).id = id
  BY <1>1, RemovePaneSpot
<1>3. id \in TargetIDs
  BY <1>1, <1>2, SpotPane DEF PaneState
<1>4. Fit(windows, active)'
  BY <1>3, FitRemovePane
<1>5. WinsApart(windows') /\ Drawn(windows, windows')
  BY <1>1, RemoveDrawn, RemovePaneWins, SameWinsApart
<1> QED BY <1>4, <1>5 DEF RemovePane

\* Panes replaced one by one: the session keeps its shape.
LEMMA SameShape ==
  ASSUME NEW ws, NEW k, Fit(ws, k), NEW vs, vs = [i \in DOMAIN ws |-> vs[i]],
         \A i \in DOMAIN ws : /\ vs[i] \in WindowState
                              /\ vs[i].ref = ws[i].ref
                              /\ vs[i].name = ws[i].name
                              /\ Len(vs[i].panes) = Len(ws[i].panes)
  PROVE  /\ Fit(vs, k)
         /\ SameWins(ws, vs)
         /\ Spots(vs) = Spots(ws)
<1>1. ws \in Seq(WindowState) /\ Len(ws) \in Nat /\ DOMAIN ws = 1 .. Len(ws) /\ k \in Nat
  BY LenProperties DEF Fit
<1>2. DOMAIN vs = DOMAIN ws
  OBVIOUS
<1>3. vs \in [1 .. Len(ws) -> WindowState]
  BY <1>1
<1>4. vs \in Seq(WindowState) /\ Len(vs) = Len(ws)
  BY <1>1, <1>3, FunctionIsSeq
<1>5. PanesBounded(vs) /\ UniqueNames(vs)
  BY <1>2 DEF Fit, PanesBounded, UniqueNames
<1>6. InRange(k, vs)
  <2>1. InRange(k, ws)
    BY DEF Fit
  <2> QED BY <2>1, <1>1, <1>4, InRangeByLen
<1>7. ASSUME NEW i \in DOMAIN ws PROVE DOMAIN vs[i].panes = DOMAIN ws[i].panes
  <2>1. DOMAIN ws[i].panes = 1 .. Len(ws[i].panes)
    BY <1>1, WindowShape
  <2>2. DOMAIN vs[i].panes = 1 .. Len(vs[i].panes)
    BY <1>2, <1>4, WindowShape
  <2> QED BY <2>1, <2>2
<1>8. Spots(vs) = Spots(ws)
  BY <1>2, <1>7 DEF Spots
<1> QED BY <1>1, <1>2, <1>4, <1>5, <1>6, <1>8 DEF Fit, SameWins

-----------------------------------------------------------------------------
(* Snapshots of such a session, and sessions of such a snapshot. *)

\* What Snapshot copies has its panes apart if the session has.
LEMMA SnapshotApart ==
  ASSUME Fit(windows, active), IDsApart(windows)
  PROVE  SavedApart(Snapshot)
<1>1. windows \in Seq(WindowState)
  BY DEF Fit
<1>2. PICK sw : sw = Snapshot.windows
  OBVIOUS
<1>3. /\ DOMAIN sw = DOMAIN windows
      /\ \A i \in DOMAIN windows : /\ DOMAIN sw[i].panes = DOMAIN windows[i].panes
                                   /\ \A j \in DOMAIN windows[i].panes :
                                         sw[i].panes[j].id = windows[i].panes[j].id
  BY <1>2 DEF Snapshot, SavedWindow, SavedPane
<1> SUFFICES ASSUME NEW i \in DOMAIN sw, NEW k \in DOMAIN sw, NEW j \in DOMAIN sw[i].panes,
                    NEW l \in DOMAIN sw[k].panes, sw[i].panes[j].id = sw[k].panes[l].id
             PROVE  i = k /\ j = l
  BY <1>2 DEF SavedApart
<1>4. i \in Nat /\ k \in Nat /\ j \in Nat /\ l \in Nat
  BY <1>1, <1>3, WindowShape
<1>5. <<i, j>> \in Spots(windows) /\ <<k, l>> \in Spots(windows)
  BY <1>3, <1>4 DEF Spots
<1>6. On(windows, <<i, j>>).id = On(windows, <<k, l>>).id
  BY <1>3 DEF On
<1>7. <<i, j>> = <<k, l>>
  BY <1>5, <1>6 DEF IDsApart
<1> QED BY <1>7

\* A fit snapshot kept under a layout name leaves every layout fit.
LEMMA StoreFits ==
  ASSUME FitLayouts, NEW n \in LayoutNames, NEW snap, FitLayout(snap), SaveLayout(n, snap)
  PROVE  /\ FitLayouts'
         /\ \A m \in DOMAIN layouts' : \/ layouts'[m] = snap
                                       \/ m \in DOMAIN layouts /\ layouts'[m] = layouts[m]
<1>1. layouts' = [m \in DOMAIN layouts \cup {n} |-> IF m = n THEN snap ELSE layouts[m]]
  BY DEF SaveLayout
<1>2. /\ DOMAIN layouts' = DOMAIN layouts \cup {n}
      /\ \A m \in DOMAIN layouts' : \/ layouts'[m] = snap
                                    \/ m \in DOMAIN layouts /\ layouts'[m] = layouts[m]
  BY <1>1
<1>3. DOMAIN layouts' \subseteq LayoutNames
  BY <1>2 DEF FitLayouts
<1>4. ASSUME NEW m \in DOMAIN layouts' PROVE FitLayout(layouts'[m])
  BY <1>2 DEF FitLayouts
<1>5. FitLayouts'
  BY <1>3, <1>4 DEF FitLayouts, FitLayout, SavedLayout, PanesBounded, UniqueNames, InRange
<1> QED BY <1>2, <1>5

\* Addresses for the windows, and for the panes, of a layout: all different.
Distinct1(wref, s) == \A i, k \in DOMAIN s : wref[i] = wref[k] => i = k
Distinct2(pref, s) == \A i, k \in DOMAIN s :
                        \A j \in DOMAIN s[i].panes, l \in DOMAIN s[k].panes :
                           pref[i][j] = pref[k][l] => i = k /\ j = l

\* RestoreSnapshot with addresses of its own for every window and pane.
LEMMA RestoreOwn ==
  ASSUME NEW s, FitLayout(s), NEW wref, NEW pref, RestoreSnapshot(s, wref, pref),
         Distinct1(wref, s.windows), Distinct2(pref, s.windows)
  PROVE  RefsApart(windows') /\ WinsApart(windows')
<1>1. PICK sw : sw = s.windows
  OBVIOUS
<1>2. windows' = [i \in DOMAIN sw |->
                    [ref |-> wref[i], name |-> sw[i].name,
                     panes |-> [j \in DOMAIN sw[i].panes |->
                                  [ref |-> pref[i][j], id |-> sw[i].panes[j].id,
                                   split |-> sw[i].panes[j].split]]]]
  BY <1>1 DEF RestoreSnapshot
<1>3. PICK vs : vs = windows'
  OBVIOUS
<1>4. /\ DOMAIN vs = DOMAIN sw
      /\ \A i \in DOMAIN sw : vs[i].ref = wref[i] /\ DOMAIN vs[i].panes = DOMAIN sw[i].panes
      /\ \A i \in DOMAIN sw : \A j \in DOMAIN sw[i].panes : vs[i].panes[j].ref = pref[i][j]
  BY <1>2, <1>3
<1>5. WinsApart(vs)
  BY <1>1, <1>4 DEF WinsApart, Distinct1
<1>6. ASSUME NEW p \in Spots(vs)
      PROVE  /\ p = <<p[1], p[2]>> /\ p[1] \in DOMAIN sw /\ p[2] \in DOMAIN sw[p[1]].panes
             /\ On(vs, p).ref = pref[p[1]][p[2]]
  BY <1>4 DEF Spots, On
<1>7. ASSUME NEW p \in Spots(vs), NEW q \in Spots(vs), On(vs, p).ref = On(vs, q).ref
      PROVE  p = q
  <2>1. p[1] = q[1] /\ p[2] = q[2]
    BY <1>1, <1>6, <1>7 DEF Distinct2
  <2> QED BY <2>1, <1>6
<1> QED BY <1>3, <1>5, <1>7 DEF RefsApart

\* A layout whose panes have different IDs gives such a session.
LEMMA RestoreIDs ==
  ASSUME NEW s, FitLayout(s), SavedApart(s), NEW wref, NEW pref, RestoreSnapshot(s, wref, pref)
  PROVE  IDsApart(windows')
<1>1. PICK sw : sw = s.windows
  OBVIOUS
<1>2. windows' = [i \in DOMAIN sw |->
                    [ref |-> wref[i], name |-> sw[i].name,
                     panes |-> [j \in DOMAIN sw[i].panes |->
                                  [ref |-> pref[i][j], id |-> sw[i].panes[j].id,
                                   split |-> sw[i].panes[j].split]]]]
  BY <1>1 DEF RestoreSnapshot
<1>3. PICK vs : vs = windows'
  OBVIOUS
<1>4. ASSUME NEW p \in Spots(vs)
      PROVE  /\ p = <<p[1], p[2]>> /\ p[1] \in DOMAIN sw /\ p[2] \in DOMAIN sw[p[1]].panes
             /\ On(vs, p).id = sw[p[1]].panes[p[2]].id
  BY <1>2, <1>3 DEF Spots, On
<1>5. ASSUME NEW p \in Spots(vs), NEW q \in Spots(vs), On(vs, p).id = On(vs, q).id
      PROVE  p = q
  <2>1. p[1] = q[1] /\ p[2] = q[2]
    BY <1>1, <1>4, <1>5 DEF SavedApart
  <2> QED BY <2>1, <1>4
<1> QED BY <1>3, <1>5 DEF IDsApart
=============================================================================
